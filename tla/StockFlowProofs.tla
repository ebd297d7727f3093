-------------------------- MODULE StockFlowProofs --------------------------
(***************************************************************************)
(* Proofs about the concurrent requests of StockFlow, for every number of  *)
(* requests, editors, products, invoices and keys.                         *)
(***************************************************************************)
EXTENDS StockFlow, TLAPS

LEMMA EmptyType == Empty \in [Products -> 0 .. MaxInt]
BY MaxIntAssumption DEF Empty

LEMMA CartType == \A items \in Carts \union {Empty} : items \in [Products -> 0 .. MaxInt]
BY CartsAssumption, EmptyType

(***************************************************************************)
(* Each write of StockTables leaves the columns it touches with values of  *)
(* their types.                                                            *)
(***************************************************************************)
LEMMA SetStatusType ==
    ASSUME invoice \in [Invoices -> InvoiceRow], NEW i \in Invoices,
           NEW to \in InvoiceStatus, SetStatusTo(i, to)
    PROVE  invoice' \in [Invoices -> InvoiceRow]
BY DEF SetStatusTo, InvoiceRow

LEMMA RecordKeyType ==
    ASSUME invoice \in [Invoices -> InvoiceRow], keyrow \in [Keys -> KeyRow \union {NoRow}],
           NEW k \in Keys, NEW op \in {"STATUS", "DRAFT_UPDATE"}, NEW i \in Invoices,
           NEW to \in InvoiceStatus, NEW items \in Carts \union {Empty},
           RecordKey(k, op, i, to, items)
    PROVE  keyrow' \in [Keys -> KeyRow \union {NoRow}]
<1>1. invoice[i].version + 1 \in Nat
  BY DEF InvoiceRow
<1>2. [op |-> op, inv |-> i, to |-> to, items |-> items, version |-> invoice[i].version + 1]
        \in KeyRow
  BY <1>1 DEF KeyRow
<1> QED
  BY <1>2 DEF RecordKey

LEMMA MoveGoodsType ==
    ASSUME stock \in [Products -> Int], ledger \in [Products -> [StockMovementReason -> Int]],
           moved \subseteq Invoices \X Products \X {"INVOICE_ISSUED", "INVOICE_CANCELLED"},
           NEW i \in Invoices, NEW items \in [Products -> 0 .. MaxInt], NEW sign \in {-1, 1},
           NEW reason \in {"INVOICE_ISSUED", "INVOICE_CANCELLED"},
           MoveGoods(i, items, sign, reason)
    PROVE  /\ stock' \in [Products -> Int]
           /\ ledger' \in [Products -> [StockMovementReason -> Int]]
           /\ moved' \subseteq Invoices \X Products \X {"INVOICE_ISSUED", "INVOICE_CANCELLED"}
<1>1. \A p \in Products : sign * items[p] \in Int
  BY MaxIntAssumption
<1>2. stock' \in [Products -> Int]
  BY <1>1 DEF MoveGoods
<1>3. ledger' \in [Products -> [StockMovementReason -> Int]]
  BY <1>1 DEF MoveGoods, StockMovementReason
<1>4. moved' \subseteq Invoices \X Products \X {"INVOICE_ISSUED", "INVOICE_CANCELLED"}
  BY DEF MoveGoods, ItemsOf
<1> QED
  BY <1>2, <1>3, <1>4

(***************************************************************************)
(* Type correctness.  The variables of the requests are typed together,    *)
(* because the operators that answer or move a request set them together.  *)
(***************************************************************************)
RequestsType ==
    /\ pc \in [Reqs -> PC]
    /\ call \in [Reqs -> Calls]
    /\ path \in [Reqs -> Path]
    /\ attempt \in [Reqs -> 0 .. 2]
    /\ snap \in [Reqs -> Snap]
    /\ missed \in [Reqs -> SUBSET (Products \union Invoices)]
    /\ todo \in [Reqs -> SUBSET Products]
    /\ reply \in [Reqs -> Reply]

EditType ==
    edit \in [Editors -> [pc : {"read", "write", "saved", "missing"}, want : Edits,
                          quantity : Int, stamp : Nat]]

RestType ==
    /\ stamp \in [Products -> Nat]
    /\ active \in [Products -> BOOLEAN]
    /\ EditType

LEMMA TypeParts == TypeOK <=> TablesTypeOK /\ RestType /\ RequestsType
BY DEF TypeOK, RestType, RequestsType, EditType

LEMMA NoSnapType == NoSnap \in Snap
BY EmptyType DEF NoSnap, Snap

LEMMA CallType ==
    ASSUME NEW c \in Calls
    PROVE  /\ c.inv \in Invoices /\ c.key \in Keys /\ c.ver \in Nat
           /\ c.to \in InvoiceStatus /\ c.items \in Carts \union {Empty}
           /\ c.items \in [Products -> 0 .. MaxInt]
BY CallsAssumption, CartsAssumption, EmptyType DEF Call

LEMMA MissedType ==
    ASSUME RequestsType, NEW rows \in SUBSET (Products \union Invoices)
    PROVE  Missed(rows) \in [Reqs -> SUBSET (Products \union Invoices)]
BY DEF RequestsType, Missed

LEMMA LeaveType ==
    ASSUME RequestsType, NEW r \in Reqs, NEW next \in PC,
           NEW rows \in SUBSET (Products \union Invoices), Leave(r, next, rows)
    PROVE  /\ pc' \in [Reqs -> PC]
           /\ snap' \in [Reqs -> Snap]
           /\ missed' \in [Reqs -> SUBSET (Products \union Invoices)]
           /\ todo' \in [Reqs -> SUBSET Products]
BY NoSnapType, MissedType DEF RequestsType, Leave

LEMMA AnswerType ==
    ASSUME RequestsType, NEW r \in Reqs, NEW kind \in Kind, NEW version \in Nat,
           NEW rows \in SUBSET (Products \union Invoices), Answer(r, kind, version, rows)
    PROVE  RequestsType'
<1>1. "done" \in PC /\ "none" \in Path
  BY DEF PC, Path
<1>2. [kind |-> kind, version |-> version] \in Reply
  BY DEF Reply
<1> QED
  BY <1>1, <1>2, LeaveType DEF RequestsType, Answer

LEMMA UnchangedRest ==
    ASSUME TypeOK, RequestsType', UNCHANGED <<tables, stamp, active, edit>>
    PROVE  TypeOK'
BY DEF TypeOK, RequestsType, tables, TablesTypeOK

LEMMA RefuseType ==
    ASSUME TypeOK, NEW r \in Reqs, NEW kind \in Kind, Refuse(r, kind)
    PROVE  TypeOK'
<1>1. RequestsType'
  BY TypeParts, AnswerType DEF Refuse
<1> QED
  BY <1>1, UnchangedRest DEF Refuse

LEMMA CommittedType ==
    ASSUME RequestsType, NEW r \in Reqs, NEW version \in Nat,
           NEW rows \in SUBSET (Products \union Invoices), Committed(r, version, rows)
    PROVE  RequestsType'
BY AnswerType DEF Committed, Kind

LEMMA GotoType ==
    ASSUME TypeOK, NEW r \in Reqs, NEW next \in PC, Goto(r, next),
           path' \in [Reqs -> Path], snap' \in [Reqs -> Snap], todo' \in [Reqs -> SUBSET Products]
    PROVE  TypeOK'
BY DEF TypeOK, Goto, tables, TablesTypeOK

LEMMA ReplayedType ==
    ASSUME TypeOK, NEW r \in Reqs, Replayed(r)
    PROVE  TypeOK'
<1>1. invoice[call[r].inv].version \in Nat
  BY CallType DEF TypeOK, TablesTypeOK, InvoiceRow
<1>2. RequestsType'
  BY <1>1, TypeParts, AnswerType DEF Replayed, Kind
<1> QED
  BY <1>2, UnchangedRest DEF Replayed

LEMMA KeyConflictType ==
    ASSUME TypeOK, NEW r \in Reqs, KeyConflict(r)
    PROVE  TypeOK'
BY RefuseType DEF KeyConflict, Kind

LEMMA RetryType ==
    ASSUME TypeOK, NEW r \in Reqs, Retry(r)
    PROVE  TypeOK'
<1>1. CASE MayRetry(r)
  <2>1. attempt[r] + 1 \in 0 .. 2
    BY <1>1 DEF MayRetry, TypeOK
  <2>2. RequestsType'
    BY <1>1, <2>1, TypeParts, LeaveType DEF Retry, RequestsType, PC
  <2> QED
    BY <1>1, <2>2, UnchangedRest DEF Retry
<1>2. CASE ~ MayRetry(r)
  BY <1>2, RefuseType DEF Retry, Kind
<1> QED
  BY <1>1, <1>2

LEMMA TypeInit == Init => TypeOK
<1> SUFFICES ASSUME Init PROVE TypeOK
  OBVIOUS
<1>1. invoice \in [Invoices -> InvoiceRow]
  BY DraftsAssumption, EmptyType, CartType
  DEF Init, TablesInit, NoInvoice, DraftOf, InvoiceRow, InvoiceStatus
<1>2. stock \in [Products -> Int]
  BY InitialStockAssumption, MaxIntAssumption DEF Init, TablesInit
<1>3. ledger \in [Products -> [StockMovementReason -> Int]]
  BY InitialStockAssumption, MaxIntAssumption DEF Init, TablesInit
<1>4. TablesTypeOK
  BY <1>1, <1>2, <1>3 DEF Init, TablesInit, TablesTypeOK
<1>5. RequestsType
  BY NoSnapType DEF Init, RequestsType, PC, Path, Reply, Kind
<1>6. EditType
  BY DEF Init, EditType
<1> QED
  BY <1>4, <1>5, <1>6 DEF Init, TypeOK, RequestsType, EditType

LEMMA TypeStep ==
    ASSUME TypeOK, NEW r \in Reqs, Step(r)
    PROVE  TypeOK'
<1> DEFINE i == call[r].inv
<1>t. /\ TablesTypeOK /\ RequestsType
      /\ stamp \in [Products -> Nat] /\ active \in [Products -> BOOLEAN]
      /\ path \in [Reqs -> Path] /\ snap \in [Reqs -> Snap] /\ todo \in [Reqs -> SUBSET Products]
  BY DEF TypeOK, RequestsType
<1>c. /\ i \in Invoices /\ call[r].key \in Keys /\ call[r].to \in InvoiceStatus
      /\ call[r].items \in Carts \union {Empty} /\ call[r].items \in [Products -> 0 .. MaxInt]
  BY CallType DEF TypeOK
<1>i. /\ invoice[i] \in InvoiceRow /\ invoice[i].version + 1 \in Nat
  BY <1>c DEF TypeOK, TablesTypeOK, InvoiceRow
<1> HIDE DEF i
<1>1. CASE Replay(r)
  BY <1>1, <1>t, GotoType, ReplayedType, KeyConflictType DEF Replay, PC
<1>2. CASE Load(r)
  <2>1. PathOf(invoice[i].status, call[r].to) \in Path
    BY DEF PathOf, Path
  <2> QED
    BY <1>2, <1>t, <2>1, GotoType, RefuseType DEF Load, PC, Path, Kind, i
<1>3. CASE Resolve(r)
  BY <1>3, <1>t, GotoType, RefuseType DEF Resolve, PC, Kind
<1>4. CASE Create(r)
  <2> PICK j \in Invoices : /\ invoice' = [invoice EXCEPT ![j] = DraftOf(call[r].items)]
                            /\ Committed(r, 1, {j})
    BY <1>4 DEF Create
  <2>1. DraftOf(call[r].items) \in InvoiceRow
    BY <1>c DEF DraftOf, InvoiceRow, InvoiceStatus
  <2>2. RequestsType'
    BY <1>t, CommittedType
  <2>3. TablesTypeOK'
    BY <1>4, <1>t, <2>1 DEF Create, TablesTypeOK
  <2> QED
    BY <1>4, <2>2, <2>3 DEF Create, TypeOK, RequestsType
<1>5. CASE Begin(r)
  <2>1. Snapshot(r) \in Snap
    BY <1>i DEF Snapshot, Snap, InvoiceRow, ShortOf, i
  <2> QED
    BY <1>5, <1>t, <2>1, NoSnapType, GotoType, ReplayedType, KeyConflictType DEF Begin, PC
<1>6. CASE Insert(r)
  <2>1. CASE Goto(r, "mutate") /\ UNCHANGED <<path, snap, todo>>
    BY <1>t, <2>1, GotoType DEF PC
  <2>2. CASE Leave(r, "dup", {}) /\ UNCHANGED <<tables, stamp, active, call, path, attempt, reply, edit>>
    <3>1. RequestsType'
      BY <1>t, <2>2, LeaveType DEF PC, RequestsType
    <3> QED
      BY <2>2, <3>1, UnchangedRest
  <2> QED
    BY <1>6, <2>1, <2>2, RetryType DEF Insert
<1>7. CASE Dup(r)
  BY <1>7, ReplayedType, KeyConflictType DEF Dup
<1>8. CASE SetStatus(r)
  <2>1. CASE Refuse(r, "conflict")
    BY <2>1, RefuseType DEF Kind
  <2>2. CASE /\ SetStatusTo(i, call[r].to)
             /\ RecordKey(call[r].key, "STATUS", i, call[r].to, Empty)
             /\ Committed(r, invoice[i].version + 1, {i})
             /\ UNCHANGED <<stock, ledger, moved, stamp, active, edit>>
    <3>1. RequestsType'
      BY <1>t, <1>c, <1>i, <2>2, CommittedType
    <3>2. invoice' \in [Invoices -> InvoiceRow]
      BY <1>t, <1>c, <2>2, SetStatusType DEF TablesTypeOK
    <3>3. keyrow' \in [Keys -> KeyRow \union {NoRow}]
      BY <1>t, <1>c, <2>2, RecordKeyType DEF TablesTypeOK
    <3> QED
      BY <2>2, <3>1, <3>2, <3>3 DEF TypeOK, TablesTypeOK, RequestsType
  <2> QED
    BY <1>8, <2>1, <2>2 DEF SetStatus, i
<1>9. CASE EditDraft(r)
  <2>1. CASE Refuse(r, "conflict")
    BY <2>1, RefuseType DEF Kind
  <2>2. CASE /\ SetItems(i, call[r].items)
             /\ RecordKey(call[r].key, "DRAFT_UPDATE", i, "DRAFT", call[r].items)
             /\ Committed(r, invoice[i].version + 1, {i})
             /\ UNCHANGED <<stock, ledger, moved, stamp, active, edit>>
    <3>1. RequestsType'
      BY <1>t, <1>c, <1>i, <2>2, CommittedType
    <3>2. invoice' \in [Invoices -> InvoiceRow]
      BY <1>t, <1>c, <2>2 DEF TablesTypeOK, SetItems, InvoiceRow
    <3>3. keyrow' \in [Keys -> KeyRow \union {NoRow}]
      BY <1>t, <1>c, <2>2, RecordKeyType DEF TablesTypeOK, InvoiceStatus
    <3> QED
      BY <2>2, <3>1, <3>2, <3>3 DEF TypeOK, TablesTypeOK, RequestsType
  <2> QED
    BY <1>9, <2>1, <2>2 DEF EditDraft, i
<1>10. CASE Open(r)
  BY <1>10, <1>t, GotoType, RefuseType DEF Open, PC, Kind, ItemsOf
<1>11. ASSUME NEW p \in Products, Line(r, p) PROVE TypeOK'
  BY <1>11, <1>t, GotoType, RefuseType, RetryType DEF Line, PC, Kind
<1>12. CASE Finish(r)
  <2> DEFINE lines == ItemsOf(snap[r].items)
             sign == IF path[r] = "issue" THEN -1 ELSE 1
  <2>1. CASE Retry(r)
    BY <2>1, RetryType
  <2>2. CASE /\ SetStatusTo(i, call[r].to)
             /\ RecordKey(call[r].key, "STATUS", i, call[r].to, Empty)
             /\ MoveGoods(i, snap[r].items, sign, ReasonOf(r))
             /\ stamp' = [p \in Products |-> IF p \in lines THEN stamp[p] + 1 ELSE stamp[p]]
             /\ Committed(r, invoice[i].version + 1, lines \union {i})
             /\ UNCHANGED <<active, edit>>
    <3>1. RequestsType'
      BY <1>t, <1>c, <1>i, <2>2, CommittedType DEF ItemsOf
    <3>2. invoice' \in [Invoices -> InvoiceRow]
      BY <1>t, <1>c, <2>2, SetStatusType DEF TablesTypeOK
    <3>3. keyrow' \in [Keys -> KeyRow \union {NoRow}]
      BY <1>t, <1>c, <2>2, RecordKeyType DEF TablesTypeOK
    <3>4. snap[r].items \in [Products -> 0 .. MaxInt]
      BY <1>t DEF Snap
    <3>5. sign \in {-1, 1} /\ ReasonOf(r) \in {"INVOICE_ISSUED", "INVOICE_CANCELLED"}
      BY DEF ReasonOf
    <3>6. /\ stock' \in [Products -> Int]
          /\ ledger' \in [Products -> [StockMovementReason -> Int]]
          /\ moved' \subseteq Invoices \X Products \X {"INVOICE_ISSUED", "INVOICE_CANCELLED"}
      BY <1>t, <1>c, <2>2, <3>4, <3>5, MoveGoodsType DEF TablesTypeOK
    <3>7. stamp' \in [Products -> Nat]
      BY <1>t, <2>2
    <3> QED
      BY <1>t, <2>2, <3>1, <3>2, <3>3, <3>6, <3>7 DEF TypeOK, TablesTypeOK, RequestsType
  <2> QED
    BY <1>12, <2>1, <2>2 DEF Finish, i
<1>13. CASE DeadlockVictim(r)
  BY <1>13, RetryType DEF DeadlockVictim
<1> QED
  BY <1>1, <1>2, <1>3, <1>4, <1>5, <1>6, <1>7, <1>8, <1>9, <1>10, <1>11, <1>12, <1>13 DEF Step

LEMMA TypeEditStep ==
    ASSUME TypeOK, NEW e \in Editors, EditStep(e)
    PROVE  TypeOK'
<1> DEFINE p == edit[e].want.product
<1>t. TablesTypeOK /\ RequestsType /\ RestType
  BY TypeParts
<1>w. /\ p \in Products
      /\ edit[e].want.quantity \in (0 .. MaxInt) \union {Keep} /\ edit[e].quantity \in Int
  BY EditsAssumption DEF TypeOK, Edit
<1>1. CASE EditRead(e)
  <2>1. stock[p] \in Int /\ stamp[p] \in Nat
    BY <1>t, <1>w DEF TablesTypeOK, RestType
  <2>2. EditType'
    BY <1>1, <1>t, <2>1 DEF EditRead, RestType, EditType
  <2> QED
    BY <1>1, <1>t, <2>2 DEF EditRead, tables, requests, TypeOK, TablesTypeOK, RestType, EditType
<1>2. CASE EditWrite(e)
  <2> DEFINE next == IF edit[e].want.quantity = Keep THEN edit[e].quantity ELSE edit[e].want.quantity
  <2>1. next \in Int /\ (next + (0 - edit[e].quantity)) \in Int
    BY <1>w, MaxIntAssumption
  <2>2. EditType'
    BY <1>2, <1>t DEF EditWrite, RestType, EditType
  <2>3. CASE ~ AsRead(e)
    BY <1>2, <1>t, <2>2, <2>3 DEF EditWrite, tables, requests, TypeOK, TablesTypeOK, RestType, EditType
  <2>4. CASE AsRead(e)
    <3>1. stock' \in [Products -> Int]
      BY <1>2, <1>t, <1>w, <2>1, <2>4 DEF EditWrite, TablesTypeOK
    <3>2. ledger' \in [Products -> [StockMovementReason -> Int]]
      <4>1. ledger' = [ledger EXCEPT ![p]["MANUAL_ADJUSTMENT"] = @ + next - edit[e].quantity]
        BY <1>2, <2>4 DEF EditWrite
      <4>2. ledger[p]["MANUAL_ADJUSTMENT"] \in Int
        BY <1>t, <1>w DEF TablesTypeOK, StockMovementReason
      <4>3. ledger[p]["MANUAL_ADJUSTMENT"] + next - edit[e].quantity \in Int
        BY <1>w, <2>1, <4>2
      <4> QED
        BY <1>t, <1>w, <4>1, <4>3 DEF TablesTypeOK, StockMovementReason
    <3>3. missed' \in [Reqs -> SUBSET (Products \union Invoices)]
      BY <1>2, <1>t, <1>w, <2>4, MissedType DEF EditWrite
    <3>4. stamp' \in [Products -> Nat]
      BY <1>2, <1>t, <1>w, <2>4 DEF EditWrite, RestType
    <3> QED
      BY <1>2, <1>t, <2>2, <2>4, <3>1, <3>2, <3>3, <3>4
      DEF EditWrite, TypeOK, TablesTypeOK, RestType, EditType
  <2> QED
    BY <2>3, <2>4
<1> QED
  BY <1>1, <1>2 DEF EditStep

LEMMA TypeNext == TypeOK /\ [Next]_vars => TypeOK'
<1> SUFFICES ASSUME TypeOK, [Next]_vars PROVE TypeOK'
  OBVIOUS
<1>1. ASSUME NEW r \in Reqs, Step(r) PROVE TypeOK'
  BY <1>1, TypeStep
<1>2. ASSUME NEW r \in Reqs, SerializationFailure(r) PROVE TypeOK'
  BY <1>2, RetryType DEF SerializationFailure
<1>3. ASSUME NEW r \in Reqs, Lose(r) PROVE TypeOK'
  BY <1>3, RefuseType DEF Lose, Kind
<1>4. ASSUME NEW e \in Editors, EditStep(e) PROVE TypeOK'
  BY <1>4, TypeEditStep
<1>5. ASSUME NEW p \in Products, Delete(p) PROVE TypeOK'
  <2>1. missed' \in [Reqs -> SUBSET (Products \union Invoices)]
    BY <1>5, TypeParts, MissedType DEF Delete
  <2>2. active' \in [Products -> BOOLEAN]
    BY <1>5 DEF Delete, TypeOK
  <2>3. stamp' \in [Products -> Nat]
    BY <1>5 DEF Delete, TypeOK
  <2>4. TablesTypeOK'
    BY <1>5 DEF Delete, tables, TypeOK, TablesTypeOK
  <2> QED
    BY <1>5, <2>1, <2>2, <2>3, <2>4 DEF Delete, TypeOK
<1>6. CASE UNCHANGED vars
  BY <1>6 DEF vars, requests, tables, TypeOK, TablesTypeOK
<1> QED
  BY <1>1, <1>2, <1>3, <1>4, <1>5, <1>6 DEF Next

(***************************************************************************)
(* Type correctness: among other things no request makes a fourth attempt. *)
(***************************************************************************)
THEOREM FlowTypeCorrect == Spec => []TypeOK
<1> QED
  BY TypeInit, TypeNext, PTL DEF Spec
-----------------------------------------------------------------------------
(***************************************************************************)
(* StockFlow implements StockContract: the concurrent requests change the  *)
(* tables only as the atomic operations do.                                *)
(*                                                                         *)
(* The argument is Isolation, which is inductive together with the types   *)
(* and the range of the stock.  A step is one request's or one editor's:   *)
(* its own part of Isolation is re-established by what the step checks,    *)
(* the others' part survives because what they rely on is locked, or the   *)
(* step tells them what it has written.                                    *)
(***************************************************************************)
(***************************************************************************)
(* The part of Isolation that is about one request.                        *)
(***************************************************************************)
Entitled(r) == OnPath(r) /\ SnapshotHolds(r) /\ LinesSecured(r) /\ KeyFresh(r)

FlowInv == TypeOK /\ Isolation /\ StockInRange

LEMMA IsolationParts ==
    Isolation <=> /\ \A r \in Reqs : Entitled(r)
                  /\ \A r, s \in Reqs : Apart(r, s)
                  /\ \A e \in Editors : EditorHolds(e)
BY DEF Isolation, Entitled
-----------------------------------------------------------------------------
(***************************************************************************)
(* The requests a step is not about.  It leaves their variables alone,     *)
(* except that it adds the rows it commits to what open snapshots missed.  *)
(***************************************************************************)
Bystander(s, rows) ==
    /\ pc'[s] = pc[s] /\ call'[s] = call[s] /\ path'[s] = path[s]
    /\ snap'[s] = snap[s] /\ todo'[s] = todo[s]
    /\ missed'[s] = IF InTx(s) /\ Serializable(s) THEN missed[s] \union rows ELSE missed[s]

(* Tables change in the rows committed only, and in no row that s holds.   *)
Harmless(s, rows) ==
    /\ \A i \in Invoices : i \in rows \/ invoice'[i] = invoice[i]
    /\ \A p \in Products : p \in rows \/ stock'[p] = stock[p]
    /\ \A p \in Products : HasLine(s, p) => stock'[p] = stock[p]
    /\ \A k \in Keys : HasKey(s, k) => keyrow'[k] = keyrow[k]

LEMMA BystanderEntitled ==
    ASSUME TypeOK, NEW s \in Reqs, NEW rows, Entitled(s), Bystander(s, rows), Harmless(s, rows)
    PROVE  Entitled(s)'
<1>0. call[s].inv \in Invoices /\ call[s].key \in Keys
  BY CallType DEF TypeOK
<1>1. OnPath(s)'
  BY DEF Entitled, OnPath, Bystander, Serializable, Expected
<1>2. SnapshotHolds(s)'
  <2> SUFFICES ASSUME InTx(s), Serializable(s) PROVE SnapshotHolds(s)'
    BY DEF SnapshotHolds, Bystander, InTx, Serializable
  <2>1. missed'[s] = missed[s] \union rows
    BY DEF Bystander
  <2>2. call[s].inv \notin missed'[s] => invoice'[call[s].inv] = invoice[call[s].inv]
    BY <1>0, <2>1 DEF Harmless
  <2>3. \A p \in Products \ missed'[s] : p \in Products \ missed[s] /\ stock'[p] = stock[p]
    BY <2>1 DEF Harmless
  <2> QED
    BY <2>1, <2>2, <2>3 DEF Entitled, SnapshotHolds, Bystander
<1>3. LinesSecured(s)'
  BY DEF Entitled, LinesSecured, HasLine, Bystander, Harmless
<1>4. KeyFresh(s)'
  BY <1>0 DEF Entitled, KeyFresh, Found, HasKey, Bystander, Harmless
<1> QED
  BY <1>1, <1>2, <1>3, <1>4 DEF Entitled

(***************************************************************************)
(* The request a step is about gains a key or a line only when nobody      *)
(* else has it.                                                            *)
(***************************************************************************)
GainsOnlyFree(r) ==
    /\ \A k \in Keys : HasKey(r, k)' => HasKey(r, k) \/ \A s \in Reqs : ~ HasKey(s, k)
    /\ \A p \in Products : HasLine(r, p)' => HasLine(r, p) \/ Free(p)

LEMMA StaysApart ==
    ASSUME NEW r \in Reqs, NEW rows, \A s, t \in Reqs : Apart(s, t),
           \A s \in Reqs \ {r} : Bystander(s, rows), GainsOnlyFree(r)
    PROVE  \A s, t \in Reqs : Apart(s, t)'
<1>1. \A s \in Reqs \ {r}, k \in Keys : HasKey(s, k)' <=> HasKey(s, k)
  BY DEF Bystander, HasKey
<1>2. \A s \in Reqs \ {r}, p \in Products : HasLine(s, p)' <=> HasLine(s, p)
  BY DEF Bystander, HasLine
<1> SUFFICES ASSUME NEW s \in Reqs, NEW t \in Reqs, s # t
             PROVE  /\ ~ \E k \in Keys : HasKey(s, k)' /\ HasKey(t, k)'
                    /\ ~ \E p \in Products : HasLine(s, p)' /\ HasLine(t, p)'
  BY DEF Apart
<1>3. ~ \E k \in Keys : HasKey(s, k)' /\ HasKey(t, k)'
  BY <1>1 DEF Apart, GainsOnlyFree
<1>4. ~ \E p \in Products : HasLine(s, p)' /\ HasLine(t, p)'
  BY <1>2 DEF Apart, GainsOnlyFree, Free
<1> QED
  BY <1>3, <1>4

(***************************************************************************)
(* A stock that changes has a new time stamp.                              *)
(***************************************************************************)
Stamped ==
    \A p \in Products :
        stamp'[p] \in Nat /\ stamp'[p] >= stamp[p]
            /\ (stock'[p] = stock[p] \/ stamp'[p] > stamp[p])

LEMMA EditorStays ==
    ASSUME TypeOK, NEW e \in Editors, EditorHolds(e), edit'[e] = edit[e], Stamped
    PROVE  EditorHolds(e)'
<1> DEFINE p == edit[e].want.product
<1>1. p \in Products /\ edit[e].stamp \in Nat
  BY EditsAssumption DEF TypeOK, Edit
<1>2. stamp[p] \in Nat /\ stamp'[p] \in Nat
  BY <1>1 DEF TypeOK, Stamped
<1> QED
  BY <1>1, <1>2 DEF EditorHolds, Stamped

(***************************************************************************)
(* A step of request r that commits these rows.                            *)
(***************************************************************************)
LEMMA RequestKeepsIsolation ==
    ASSUME TypeOK, Isolation, NEW r \in Reqs, NEW rows,
           \A s \in Reqs \ {r} : Bystander(s, rows) /\ Harmless(s, rows),
           Entitled(r)', GainsOnlyFree(r), UNCHANGED edit, Stamped
    PROVE  Isolation'
<1>1. \A s \in Reqs : Entitled(s)'
  BY BystanderEntitled, IsolationParts
<1>2. \A s, t \in Reqs : Apart(s, t)'
  BY StaysApart, IsolationParts
<1>3. \A e \in Editors : EditorHolds(e)'
  BY EditorStays, IsolationParts
<1> QED
  BY <1>1, <1>2, <1>3 DEF Isolation, Entitled
-----------------------------------------------------------------------------
(***************************************************************************)
(* What a request keeps when it leaves its transaction, answers or retries.*)
(***************************************************************************)
LEMMA LeaveEntitled ==
    ASSUME TypeOK, NEW r \in Reqs, Entitled(r), NEW next, NEW rows, Leave(r, next, rows),
           call'[r] = call[r],
           \/ next = "done" /\ path'[r] = "none"
           \/ next \in {"begin", "dup"} /\ path'[r] = path[r] /\ path[r] # "none"
    PROVE  Entitled(r)' /\ GainsOnlyFree(r)
<1>1. pc'[r] = next /\ next \in {"begin", "dup", "done"}
  BY DEF TypeOK, Leave
<1>2. OnPath(r)'
  BY <1>1 DEF Entitled, OnPath
<1>3. SnapshotHolds(r)' /\ LinesSecured(r)' /\ KeyFresh(r)'
  BY <1>1 DEF SnapshotHolds, InTx, LinesSecured, HasLine, KeyFresh
<1>4. GainsOnlyFree(r)
  BY <1>1 DEF GainsOnlyFree, HasKey, HasLine
<1> QED
  BY <1>2, <1>3, <1>4 DEF Entitled

LEMMA LeaveBystander ==
    ASSUME TypeOK, NEW r \in Reqs, NEW next, NEW rows, Leave(r, next, rows), UNCHANGED call,
           NEW s \in Reqs \ {r}, path'[s] = path[s]
    PROVE  Bystander(s, rows)
BY DEF TypeOK, Leave, Missed, Bystander

LEMMA AnswerKeeps ==
    ASSUME TypeOK, Isolation, NEW r \in Reqs, NEW kind, NEW version, NEW rows,
           Answer(r, kind, version, rows),
           \A s \in Reqs \ {r} : Harmless(s, rows), UNCHANGED edit, Stamped
    PROVE  Isolation'
<1>1. Entitled(r)' /\ GainsOnlyFree(r)
  BY IsolationParts, LeaveEntitled DEF Answer, TypeOK
<1>2. \A s \in Reqs \ {r} : Bystander(s, rows)
  BY LeaveBystander DEF Answer, TypeOK
<1> QED
  BY <1>1, <1>2, RequestKeepsIsolation

LEMMA NothingWritten ==
    ASSUME TypeOK, UNCHANGED <<tables, stamp>>
    PROVE  Stamped /\ \A s \in Reqs : \A rows : Harmless(s, rows)
BY DEF TypeOK, tables, Stamped, Harmless

LEMMA RefuseKeeps ==
    ASSUME TypeOK, Isolation, NEW r \in Reqs, NEW kind, Refuse(r, kind)
    PROVE  Isolation'
BY AnswerKeeps, NothingWritten DEF Refuse

LEMMA CommittedKeeps ==
    ASSUME TypeOK, Isolation, NEW r \in Reqs, NEW version, NEW rows, Committed(r, version, rows),
           \A s \in Reqs \ {r} : Harmless(s, rows), UNCHANGED edit, Stamped
    PROVE  Isolation'
BY AnswerKeeps DEF Committed

LEMMA ReplayedKeeps ==
    ASSUME TypeOK, Isolation, NEW r \in Reqs, Replayed(r) \/ KeyConflict(r)
    PROVE  Isolation'
BY AnswerKeeps, RefuseKeeps, NothingWritten DEF Replayed, KeyConflict

LEMMA BackKeeps ==
    ASSUME TypeOK, Isolation, NEW r \in Reqs, NEW next \in {"begin", "dup"}, InTx(r),
           Leave(r, next, {}), UNCHANGED <<tables, stamp, call, path, edit>>
    PROVE  Isolation'
<1>1. path[r] # "none"
  BY IsolationParts DEF Entitled, OnPath, InTx, Serializable
<1>2. Entitled(r)' /\ GainsOnlyFree(r)
  BY <1>1, IsolationParts, LeaveEntitled
<1>3. \A s \in Reqs \ {r} : Bystander(s, {})
  BY LeaveBystander
<1> QED
  BY <1>2, <1>3, RequestKeepsIsolation, NothingWritten

LEMMA RetryKeeps ==
    ASSUME TypeOK, Isolation, NEW r \in Reqs, InTx(r), Retry(r)
    PROVE  Isolation'
BY BackKeeps, RefuseKeeps DEF Retry

(***************************************************************************)
(* Going on: only the request's own part has to be looked at.              *)
(***************************************************************************)
LEMMA GotoKeeps ==
    ASSUME TypeOK, Isolation, NEW r \in Reqs, NEW next, Goto(r, next),
           \A s \in Reqs \ {r} : path'[s] = path[s] /\ snap'[s] = snap[s] /\ todo'[s] = todo[s],
           Entitled(r)', GainsOnlyFree(r)
    PROVE  Isolation'
<1>1. \A s \in Reqs \ {r} : Bystander(s, {})
  BY DEF Goto, Bystander, TypeOK
<1>2. Stamped /\ \A s \in Reqs : Harmless(s, {})
  BY NothingWritten DEF Goto
<1> QED
  BY <1>1, <1>2, RequestKeepsIsolation DEF Goto
-----------------------------------------------------------------------------
(***************************************************************************)
(* The steps that commit nothing.                                          *)
(***************************************************************************)
LEMMA LoadKeeps ==
    ASSUME TypeOK, Isolation, NEW r \in Reqs, Load(r)
    PROVE  Isolation'
<1> DEFINE row == invoice[call[r].inv]
           chosen == IF call[r].op = "DRAFT_UPDATE"
                     THEN IF row.status = "DRAFT" THEN "edit" ELSE "none"
                     ELSE PathOf(row.status, call[r].to)
<1>1. CASE \E kind : Refuse(r, kind)
  BY <1>1, RefuseKeeps
<1>2. CASE /\ chosen # "none"
           /\ Goto(r, IF chosen = "edit" THEN "resolve" ELSE "begin")
           /\ path' = [path EXCEPT ![r] = chosen]
           /\ UNCHANGED <<snap, todo>>
  <2>1. /\ pc'[r] = IF chosen = "edit" THEN "resolve" ELSE "begin"
        /\ path'[r] = chosen /\ call' = call
    BY <1>2 DEF Goto, TypeOK
  <2>2. chosen = "edit" <=> call[r].op = "DRAFT_UPDATE"
    BY <1>2 DEF PathOf
  <2>3. call[r] \in Call /\ (call[r].op # "STATUS" => call[r].to = "DRAFT")
    BY CallsAssumption DEF TypeOK
  <2>4. chosen # "edit" => call[r].op = "STATUS" /\ call[r].to = Target(chosen)
    BY <1>2, <2>2, <2>3 DEF PathOf, Target
  <2>5. Entitled(r)'
    BY <1>2, <2>1, <2>2, <2>4
    DEF Entitled, OnPath, SnapshotHolds, InTx, LinesSecured, HasLine, KeyFresh
  <2>6. GainsOnlyFree(r)
    BY <2>1 DEF GainsOnlyFree, HasKey, HasLine
  <2>7. \A s \in Reqs \ {r} : path'[s] = path[s] /\ snap'[s] = snap[s] /\ todo'[s] = todo[s]
    BY <1>2 DEF TypeOK
  <2> QED
    BY <1>2, <2>5, <2>6, <2>7, GotoKeeps
<1> QED
  BY <1>1, <1>2 DEF Load

LEMMA BeforeKeeps ==
    ASSUME TypeOK, Isolation, NEW r \in Reqs, Replay(r) \/ Resolve(r)
    PROVE  Isolation'
<1>1. CASE \E kind : Refuse(r, kind)
  BY <1>1, RefuseKeeps
<1>2. CASE Replayed(r) \/ KeyConflict(r)
  BY <1>2, ReplayedKeeps
<1>3. ASSUME NEW next \in {"load", "create", "begin"}, Goto(r, next), UNCHANGED <<path, snap, todo>>,
             next = "create" => call[r].op = "CREATE", next = "begin" => path[r] # "none"
      PROVE  Isolation'
  <2>1. pc'[r] = next /\ call' = call
    BY <1>3 DEF Goto, TypeOK
  <2>2. Entitled(r)
    BY IsolationParts
  <2>3. Entitled(r)'
    BY <1>3, <2>1, <2>2
    DEF Entitled, OnPath, SnapshotHolds, InTx, LinesSecured, HasLine, KeyFresh
  <2>4. GainsOnlyFree(r)
    BY <2>1 DEF GainsOnlyFree, HasKey, HasLine
  <2> QED
    BY <1>3, <2>3, <2>4, GotoKeeps
<1>4. pc[r] = "resolve" /\ call[r].op # "CREATE" => path[r] # "none"
  BY IsolationParts DEF Entitled, OnPath
<1> QED
  BY <1>1, <1>2, <1>3, <1>4 DEF Replay, Resolve

LEMMA BeginKeeps ==
    ASSUME TypeOK, Isolation, NEW r \in Reqs, Begin(r)
    PROVE  Isolation'
<1>1. CASE Replayed(r) \/ KeyConflict(r)
  BY <1>1, ReplayedKeeps
<1>2. CASE /\ pc[r] = "begin"
           /\ Goto(r, "insert")
           /\ snap' = [snap EXCEPT ![r] = IF Serializable(r) THEN Snapshot(r) ELSE NoSnap]
           /\ UNCHANGED <<path, todo>>
  <2>1. pc'[r] = "insert" /\ UNCHANGED <<tables, call>>
        /\ snap'[r] = IF Serializable(r) THEN Snapshot(r) ELSE NoSnap
    BY <1>2 DEF Goto, TypeOK
  <2>2. OnPath(r)'
    BY <1>2, <2>1, IsolationParts DEF Entitled, OnPath
  <2>3. SnapshotHolds(r)'
    <3>1. Serializable(r)' <=> Serializable(r)
      BY <1>2 DEF Serializable
    <3>2. ASSUME Serializable(r)
          PROVE  /\ snap'[r].status = invoice'[call'[r].inv].status
                 /\ snap'[r].version = invoice'[call'[r].inv].version
                 /\ snap'[r].items = invoice'[call'[r].inv].items
                 /\ path[r] = "issue" =>
                        \A p \in Products : p \in snap'[r].short <=> snap'[r].items[p] > stock'[p]
      BY <2>1, <3>2 DEF Snapshot, ShortOf, tables
    <3> QED
      BY <1>2, <3>1, <3>2 DEF SnapshotHolds
  <2>4. LinesSecured(r)' /\ KeyFresh(r)' /\ GainsOnlyFree(r)
    BY <2>1 DEF LinesSecured, KeyFresh, GainsOnlyFree, HasKey, HasLine
  <2>5. \A s \in Reqs \ {r} : path'[s] = path[s] /\ snap'[s] = snap[s] /\ todo'[s] = todo[s]
    BY <1>2 DEF TypeOK
  <2> QED
    BY <1>2, <2>2, <2>3, <2>4, <2>5, GotoKeeps DEF Entitled
<1> QED
  BY <1>1, <1>2 DEF Begin

LEMMA InsertKeeps ==
    ASSUME TypeOK, Isolation, NEW r \in Reqs, Insert(r)
    PROVE  Isolation'
<1>0. InTx(r)
  BY DEF Insert, InTx
<1>1. CASE Retry(r)
  BY <1>0, <1>1, RetryKeeps
<1>2. CASE /\ Leave(r, "dup", {})
           /\ UNCHANGED <<tables, stamp, active, call, path, attempt, reply, edit>>
  BY <1>0, <1>2, BackKeeps
<1>3. CASE ~ Found(r) /\ Goto(r, "mutate") /\ UNCHANGED <<path, snap, todo>>
  <2>1. pc[r] = "insert" /\ pc'[r] = "mutate" /\ UNCHANGED <<tables, call, missed>>
    BY <1>3 DEF Goto, TypeOK, Insert
  <2>2. Entitled(r)
    BY IsolationParts
  <2>3. OnPath(r)' /\ SnapshotHolds(r)'
    BY <1>3, <2>1, <2>2 DEF Entitled, OnPath, SnapshotHolds, InTx, Serializable, tables
  <2>4. LinesSecured(r)' /\ KeyFresh(r)'
    BY <1>3, <2>1 DEF LinesSecured, HasLine, KeyFresh, Found, tables
  <2>5. GainsOnlyFree(r)
    BY <2>1 DEF Insert, GainsOnlyFree, HasKey, HasLine
  <2> QED
    BY <1>3, <2>3, <2>4, <2>5, GotoKeeps DEF Entitled
<1> QED
  BY <1>1, <1>2, <1>3 DEF Insert

LEMMA OpenKeeps ==
    ASSUME TypeOK, Isolation, NEW r \in Reqs, Open(r)
    PROVE  Isolation'
<1>1. CASE Refuse(r, "conflict")
  BY <1>1, RefuseKeeps
<1>2. CASE /\ Expected(r, snap[r], Source(path[r]))
           /\ Goto(r, "lines")
           /\ todo' = [todo EXCEPT ![r] = ItemsOf(snap[r].items)]
           /\ UNCHANGED <<path, snap>>
  <2>1. /\ pc[r] = "mutate" /\ Serializable(r)
        /\ pc'[r] = "lines" /\ todo'[r] = ItemsOf(snap[r].items) /\ UNCHANGED <<tables, call, missed>>
    BY <1>2 DEF Goto, TypeOK, Open
  <2>2. Entitled(r)
    BY IsolationParts
  <2>3. OnPath(r)' /\ SnapshotHolds(r)'
    BY <1>2, <2>1, <2>2
    DEF Entitled, OnPath, SnapshotHolds, InTx, Serializable, Expected, tables
  <2>4. \A p \in Products : ~ HasLine(r, p)'
    BY <1>2, <2>1 DEF HasLine
  <2>5. LinesSecured(r)' /\ KeyFresh(r)'
    BY <2>1, <2>2, <2>4 DEF Entitled, LinesSecured, KeyFresh, Found, tables
  <2>6. GainsOnlyFree(r)
    BY <2>1, <2>4 DEF GainsOnlyFree, HasKey
  <2>7. \A s \in Reqs \ {r} : path'[s] = path[s] /\ snap'[s] = snap[s] /\ todo'[s] = todo[s]
    BY <1>2 DEF TypeOK
  <2> QED
    BY <1>2, <2>3, <2>5, <2>6, <2>7, GotoKeeps DEF Entitled
<1> QED
  BY <1>1, <1>2 DEF Open

LEMMA LineKeeps ==
    ASSUME TypeOK, Isolation, NEW r \in Reqs, NEW p \in Products, Line(r, p)
    PROVE  Isolation'
<1>1. CASE \E kind : Refuse(r, kind)
  BY <1>1, RefuseKeeps
<1>2. CASE Retry(r)
  BY <1>2, RetryKeeps DEF Line, InTx
<1>3. CASE /\ p \notin snap[r].short \union missed[r]
           /\ Free(p)
           /\ path[r] = "cancel" => stock[p] + snap[r].items[p] <= MaxInt
           /\ Goto(r, "lines")
           /\ todo' = [todo EXCEPT ![r] = @ \ {p}]
           /\ UNCHANGED <<path, snap>>
  <2>1. /\ pc[r] = "lines" /\ pc'[r] = "lines" /\ UNCHANGED <<tables, call, missed>>
        /\ todo'[r] = todo[r] \ {p}
    BY <1>3 DEF Goto, TypeOK, Line
  <2>2. Entitled(r) /\ Serializable(r) /\ InTx(r)
    BY <2>1, IsolationParts DEF Entitled, OnPath, InTx
  <2>3. OnPath(r)' /\ SnapshotHolds(r)' /\ KeyFresh(r)'
    BY <1>3, <2>1, <2>2
    DEF Entitled, OnPath, SnapshotHolds, InTx, Serializable, Expected, KeyFresh, Found, tables
  <2>4. \A q \in Products : HasLine(r, q)' => HasLine(r, q) \/ q = p
    BY <1>3, <2>1 DEF HasLine
  <2>5. IF path[r] = "issue" THEN stock[p] >= snap[r].items[p]
                             ELSE stock[p] + snap[r].items[p] <= MaxInt
    <3>1. stock[p] \in Int /\ snap[r].items[p] \in Int
      BY MaxIntAssumption DEF TypeOK, TablesTypeOK, Snap
    <3>2. path[r] = "issue" => ~ (snap[r].items[p] > stock[p])
      BY <1>3, <2>2 DEF Entitled, SnapshotHolds
    <3> QED
      BY <1>3, <2>2, <3>1, <3>2 DEF Serializable
  <2>6. LinesSecured(r)'
    BY <1>3, <2>1, <2>2, <2>4, <2>5 DEF Entitled, LinesSecured, tables
  <2>7. GainsOnlyFree(r)
    BY <1>3, <2>1, <2>4 DEF GainsOnlyFree, HasKey
  <2>8. \A s \in Reqs \ {r} : path'[s] = path[s] /\ snap'[s] = snap[s] /\ todo'[s] = todo[s]
    BY <1>3 DEF TypeOK
  <2> QED
    BY <1>3, <2>3, <2>6, <2>7, <2>8, GotoKeeps DEF Entitled
<1> QED
  BY <1>1, <1>2, <1>3 DEF Line
-----------------------------------------------------------------------------
(***************************************************************************)
(* The steps that commit: each keeps the others entitled, and each is one  *)
(* operation of StockContract under that operation's own guard.            *)
(***************************************************************************)
Atomic == Contract!Next \/ UNCHANGED tables

LEMMA RefuseAtomic ==
    ASSUME NEW r \in Reqs, (\E kind : Refuse(r, kind)) \/ Retry(r) \/ Replayed(r) \/ KeyConflict(r)
    PROVE  Atomic
BY DEF Atomic, Refuse, Retry, Replayed, KeyConflict

LEMMA QuietAtomic ==
    ASSUME NEW r \in Reqs,
           \/ Replay(r) \/ Load(r) \/ Resolve(r) \/ Begin(r) \/ Insert(r) \/ Dup(r) \/ Open(r)
           \/ \E p \in Products : Line(r, p)
    PROVE  Atomic
<1>1. \A next : Goto(r, next) => Atomic
  BY DEF Goto, Atomic
<1> QED
  BY <1>1, RefuseAtomic DEF Replay, Load, Resolve, Begin, Insert, Dup, Open, Line, Atomic

LEMMA CreateSound ==
    ASSUME TypeOK, Isolation, NEW r \in Reqs, Create(r)
    PROVE  Isolation' /\ Atomic
<1> PICK i \in Invoices : /\ invoice[i].status = "NONE"
                          /\ invoice' = [invoice EXCEPT ![i] = DraftOf(call[r].items)]
                          /\ Committed(r, 1, {i})
  BY DEF Create
<1>1. Stamped /\ \A s \in Reqs : Harmless(s, {i})
  BY DEF Create, TypeOK, TablesTypeOK, Stamped, Harmless
<1>2. Isolation'
  BY <1>1, CommittedKeeps DEF Create
<1>3. call[r].items \in Carts
  BY IsolationParts, CallsAssumption DEF Create, Entitled, OnPath, TypeOK
<1>4. Contract!Create(i, call[r].items)
  BY DEF Contract!Create, Contract!DraftOf, DraftOf, Create
<1> QED
  BY <1>2, <1>3, <1>4 DEF Atomic, Contract!Next

(***************************************************************************)
(* Nobody else has inserted a key that the request has inserted.           *)
(***************************************************************************)
LEMMA KeyRecorded ==
    ASSUME TypeOK, Isolation, NEW r \in Reqs, pc[r] \in {"mutate", "lines"},
           NEW op, NEW to, NEW items, RecordKey(call[r].key, op, call[r].inv, to, items)
    PROVE  /\ Contract!Unused(call[r].key)
           /\ \A s \in Reqs \ {r}, k \in Keys : HasKey(s, k) => keyrow'[k] = keyrow[k]
<1>1. Contract!Unused(call[r].key)
  BY IsolationParts DEF Entitled, KeyFresh, Found, Contract!Unused
<1>2. call[r].key \in Keys
  BY CallType DEF TypeOK
<1>3. \A s \in Reqs \ {r} : ~ HasKey(s, call[r].key)
  BY <1>2, IsolationParts DEF Apart, HasKey
<1> QED
  BY <1>1, <1>3 DEF RecordKey, TypeOK, TablesTypeOK

LEMMA SetStatusSound ==
    ASSUME TypeOK, Isolation, NEW r \in Reqs, SetStatus(r)
    PROVE  Isolation' /\ Atomic
<1> DEFINE i == call[r].inv
           from == Source(path[r])
           to == call[r].to
<1>1. CASE Refuse(r, "conflict")
  BY <1>1, RefuseKeeps, RefuseAtomic
<1>2. CASE /\ Expected(r, invoice[i], from)
           /\ SetStatusTo(i, to)
           /\ RecordKey(call[r].key, "STATUS", i, to, Empty)
           /\ Committed(r, invoice[i].version + 1, {i})
           /\ UNCHANGED <<stock, ledger, moved, stamp, active, edit>>
  <2>1. /\ i \in Invoices /\ call[r].key \in Keys
        /\ pc[r] = "mutate" /\ path[r] \in {"pay", "void"}
    BY CallType DEF TypeOK, SetStatus
  <2>2. /\ Contract!Unused(call[r].key)
        /\ \A s \in Reqs \ {r}, k \in Keys : HasKey(s, k) => keyrow'[k] = keyrow[k]
    BY <1>2, <2>1, KeyRecorded
  <2>3. Stamped /\ \A s \in Reqs \ {r} : Harmless(s, {i})
    BY <1>2, <2>1, <2>2 DEF SetStatusTo, TypeOK, TablesTypeOK, Stamped, Harmless
  <2>4. Isolation'
    BY <1>2, <2>3, CommittedKeeps
  <2>5. to = Target(path[r])
    BY <2>1, IsolationParts DEF Entitled, OnPath
  <2>6. from \in InvoiceStatus /\ to \in InvoiceStatus /\ <<from, to>> \in Contract!Settlements
    BY <2>1, <2>5 DEF Source, Target, InvoiceStatus, Contract!Settlements
  <2>7. Contract!Settle(i, call[r].key, from, to)
    BY <1>2, <2>2, <2>6
    DEF Contract!Settle, Contract!SetStatusTo, Contract!RecordKey, Contract!Empty,
        SetStatusTo, RecordKey, Empty, Expected
  <2>8. Contract!Next
    BY <2>1, <2>6, <2>7 DEF Contract!Next, Contract!InvoiceStatus, InvoiceStatus
  <2> QED
    BY <2>4, <2>8 DEF Atomic
<1> QED
  BY <1>1, <1>2 DEF SetStatus

LEMMA EditDraftSound ==
    ASSUME TypeOK, Isolation, NEW r \in Reqs, EditDraft(r)
    PROVE  Isolation' /\ Atomic
<1> DEFINE i == call[r].inv
           items == call[r].items
<1>1. CASE Refuse(r, "conflict")
  BY <1>1, RefuseKeeps, RefuseAtomic
<1>2. CASE /\ Expected(r, invoice[i], "DRAFT")
           /\ SetItems(i, items)
           /\ RecordKey(call[r].key, "DRAFT_UPDATE", i, "DRAFT", items)
           /\ Committed(r, invoice[i].version + 1, {i})
           /\ UNCHANGED <<stock, ledger, moved, stamp, active, edit>>
  <2>1. /\ i \in Invoices /\ call[r].key \in Keys
        /\ pc[r] = "mutate" /\ path[r] = "edit"
    BY CallType DEF TypeOK, EditDraft
  <2>2. /\ Contract!Unused(call[r].key)
        /\ \A s \in Reqs \ {r}, k \in Keys : HasKey(s, k) => keyrow'[k] = keyrow[k]
    BY <1>2, <2>1, KeyRecorded
  <2>3. Stamped /\ \A s \in Reqs \ {r} : Harmless(s, {i})
    BY <1>2, <2>1, <2>2 DEF SetItems, TypeOK, TablesTypeOK, Stamped, Harmless
  <2>4. Isolation'
    BY <1>2, <2>3, CommittedKeeps
  <2>5. items \in Carts
    BY <2>1, IsolationParts, CallsAssumption DEF Entitled, OnPath, TypeOK
  <2>6. Contract!EditDraft(i, call[r].key, items)
    BY <1>2, <2>2
    DEF Contract!EditDraft, Contract!Editable, Contract!SetItems, Contract!RecordKey,
        SetItems, RecordKey, Expected
  <2> QED
    BY <2>1, <2>4, <2>5, <2>6 DEF Atomic, Contract!Next
<1> QED
  BY <1>1, <1>2 DEF EditDraft

(***************************************************************************)
(* A finishing request has every line of its invoice, and the invoice is   *)
(* as its snapshot shows it.                                               *)
(***************************************************************************)
LEMMA FinishEntitled ==
    ASSUME TypeOK, Isolation, StockInRange, NEW r \in Reqs,
           pc[r] = "lines", todo[r] = {}, call[r].inv \notin missed[r]
    PROVE  /\ path[r] \in {"issue", "cancel"} /\ call[r].to = Target(path[r])
           /\ invoice[call[r].inv].status = Source(path[r])
           /\ invoice[call[r].inv].items = snap[r].items
           /\ \A p \in ItemsOf(snap[r].items), s \in Reqs \ {r} : ~ HasLine(s, p)
           /\ \A p \in Products :
                IF path[r] = "issue" THEN stock[p] >= snap[r].items[p]
                                     ELSE stock[p] + snap[r].items[p] <= MaxInt
<1>1. Entitled(r) /\ \A s \in Reqs : Apart(r, s)
  BY IsolationParts
<1>2. path[r] \in {"issue", "cancel"} /\ Expected(r, snap[r], Source(path[r]))
  BY <1>1 DEF Entitled, OnPath, Serializable
<1>3. call[r].to = Target(path[r])
  BY <1>1, <1>2 DEF Entitled, OnPath
<1>4. /\ invoice[call[r].inv].status = Source(path[r])
      /\ invoice[call[r].inv].items = snap[r].items
  BY <1>1, <1>2 DEF Entitled, SnapshotHolds, InTx, Serializable, Expected
<1>5. \A p \in Products : HasLine(r, p) <=> p \in ItemsOf(snap[r].items)
  BY DEF HasLine
<1>6. \A p \in ItemsOf(snap[r].items), s \in Reqs \ {r} : ~ HasLine(s, p)
  BY <1>1, <1>5 DEF Apart, ItemsOf
<1>7. ASSUME NEW p \in Products
      PROVE  IF path[r] = "issue" THEN stock[p] >= snap[r].items[p]
                                  ELSE stock[p] + snap[r].items[p] <= MaxInt
  <2>1. stock[p] \in 0 .. MaxInt /\ snap[r].items[p] \in 0 .. MaxInt
    BY DEF StockInRange, TypeOK, Snap
  <2>2. CASE p \in ItemsOf(snap[r].items)
    BY <1>1, <1>5, <2>2 DEF Entitled, LinesSecured
  <2>3. CASE p \notin ItemsOf(snap[r].items)
    <3>1. snap[r].items[p] = 0
      BY <2>1, <2>3 DEF ItemsOf
    <3> QED
      BY <2>1, <3>1, MaxIntAssumption
  <2> QED
    BY <2>2, <2>3
<1> QED
  BY <1>2, <1>3, <1>4, <1>6, <1>7

LEMMA MoveGoodsLines ==
    ASSUME TypeOK, NEW i \in Invoices, NEW items \in [Products -> 0 .. MaxInt],
           NEW sign \in {-1, 1}, NEW reason, MoveGoods(i, items, sign, reason)
    PROVE  \A p \in Products : p \notin ItemsOf(items) => stock'[p] = stock[p]
<1> SUFFICES ASSUME NEW p \in Products, p \notin ItemsOf(items) PROVE stock'[p] = stock[p]
  OBVIOUS
<1>1. items[p] = 0 /\ stock[p] \in Int
  BY DEF ItemsOf, TypeOK, TablesTypeOK
<1>2. stock'[p] = stock[p] + sign * items[p]
  BY DEF MoveGoods
<1>3. CASE sign = -1
  BY <1>1, <1>2, <1>3
<1>4. CASE sign = 1
  BY <1>1, <1>2, <1>4
<1> QED
  BY <1>3, <1>4

LEMMA FinishSound ==
    ASSUME TypeOK, Isolation, StockInRange, NEW r \in Reqs, Finish(r)
    PROVE  Isolation' /\ Atomic
<1> DEFINE i == call[r].inv
           to == call[r].to
           items == snap[r].items
           lines == ItemsOf(items)
           sign == IF path[r] = "issue" THEN -1 ELSE 1
<1>0. pc[r] = "lines" /\ todo[r] = {}
  BY DEF Finish
<1>1. CASE Retry(r)
  BY <1>0, <1>1, RetryKeeps, RefuseAtomic DEF InTx
<1>2. CASE /\ i \notin missed[r]
           /\ SetStatusTo(i, to)
           /\ RecordKey(call[r].key, "STATUS", i, to, Empty)
           /\ MoveGoods(i, items, sign, ReasonOf(r))
           /\ stamp' = [p \in Products |-> IF p \in lines THEN stamp[p] + 1 ELSE stamp[p]]
           /\ Committed(r, invoice[i].version + 1, lines \union {i})
           /\ UNCHANGED <<active, edit>>
  <2>1. i \in Invoices /\ call[r].key \in Keys /\ items \in [Products -> 0 .. MaxInt]
    BY CallType DEF TypeOK, Snap
  <2>2. /\ path[r] \in {"issue", "cancel"} /\ to = Target(path[r])
        /\ invoice[i].status = Source(path[r]) /\ invoice[i].items = items
        /\ \A p \in lines, s \in Reqs \ {r} : ~ HasLine(s, p)
        /\ \A p \in Products :
                IF path[r] = "issue" THEN stock[p] >= items[p] ELSE stock[p] + items[p] <= MaxInt
    BY <1>0, <1>2, FinishEntitled
  <2>3. /\ Contract!Unused(call[r].key)
        /\ \A s \in Reqs \ {r}, k \in Keys : HasKey(s, k) => keyrow'[k] = keyrow[k]
    BY <1>0, <1>2, KeyRecorded
  <2>4. \A p \in Products : p \notin lines => stock'[p] = stock[p]
    BY <1>2, <2>1, MoveGoodsLines
  <2>5. \A j \in Invoices : j # i => invoice'[j] = invoice[j]
    BY <1>2 DEF SetStatusTo, TypeOK, TablesTypeOK
  <2>6. \A s \in Reqs \ {r} : Harmless(s, lines \union {i})
    BY <2>2, <2>3, <2>4, <2>5 DEF Harmless
  <2>7. Stamped
    BY <1>2, <2>4 DEF Stamped, TypeOK
  <2>8. Isolation'
    BY <1>2, <2>6, <2>7, CommittedKeeps
  <2>9. CASE path[r] = "issue"
    <3>1. to = "ISSUED" /\ invoice[i].status = "DRAFT" /\ ReasonOf(r) = "INVOICE_ISSUED" /\ sign = -1
      BY <2>2, <2>9 DEF Target, Source, ReasonOf
    <3>2. Contract!InStock(invoice[i].items)
      BY <2>2, <2>9 DEF Contract!InStock
    <3>3. /\ Contract!SetStatusTo(i, "ISSUED")
          /\ Contract!RecordKey(call[r].key, "STATUS", i, "ISSUED", Contract!Empty)
      BY <1>2, <3>1
      DEF SetStatusTo, RecordKey, Empty, Contract!SetStatusTo, Contract!RecordKey, Contract!Empty
    <3>4. Contract!MoveGoods(i, invoice[i].items, -1, "INVOICE_ISSUED")
      BY <1>2, <2>2, <3>1 DEF MoveGoods, ItemsOf, Contract!MoveGoods, Contract!ItemsOf
    <3>5. Contract!Issue(i, call[r].key)
      BY <2>3, <3>1, <3>2, <3>3, <3>4 DEF Contract!Issue
    <3> QED
      BY <2>1, <2>8, <3>5 DEF Atomic, Contract!Next
  <2>10. CASE path[r] = "cancel"
    <3>1. /\ to = "CANCELLED" /\ invoice[i].status = "ISSUED"
          /\ ReasonOf(r) = "INVOICE_CANCELLED" /\ sign = 1
      BY <2>2, <2>10 DEF Target, Source, ReasonOf
    <3>2. \A p \in Products : stock[p] + invoice[i].items[p] <= MaxInt
      BY <2>2, <2>10
    <3>3. /\ Contract!SetStatusTo(i, "CANCELLED")
          /\ Contract!RecordKey(call[r].key, "STATUS", i, "CANCELLED", Contract!Empty)
      BY <1>2, <3>1
      DEF SetStatusTo, RecordKey, Empty, Contract!SetStatusTo, Contract!RecordKey, Contract!Empty
    <3>4. Contract!MoveGoods(i, invoice[i].items, 1, "INVOICE_CANCELLED")
      BY <1>2, <2>2, <3>1 DEF MoveGoods, ItemsOf, Contract!MoveGoods, Contract!ItemsOf
    <3>5. Contract!CancelIssued(i, call[r].key)
      BY <2>3, <3>1, <3>2, <3>3, <3>4 DEF Contract!CancelIssued
    <3> QED
      BY <2>1, <2>8, <3>5 DEF Atomic, Contract!Next
  <2> QED
    BY <2>2, <2>9, <2>10
<1> QED
  BY <1>1, <1>2 DEF Finish

LEMMA StepSound ==
    ASSUME TypeOK, Isolation, StockInRange, NEW r \in Reqs,
           Step(r) \/ SerializationFailure(r) \/ Lose(r)
    PROVE  Isolation' /\ Atomic
<1>1. CASE Replay(r) \/ Load(r) \/ Resolve(r) \/ Begin(r) \/ Insert(r) \/ Dup(r) \/ Open(r)
  <2>1. Isolation'
    BY <1>1, BeforeKeeps, LoadKeeps, BeginKeeps, InsertKeeps, OpenKeeps, ReplayedKeeps DEF Dup
  <2> QED
    BY <1>1, <2>1, QuietAtomic
<1>2. CASE \E p \in Products : Line(r, p)
  BY <1>2, LineKeeps, QuietAtomic
<1>3. CASE Create(r) \/ SetStatus(r) \/ EditDraft(r) \/ Finish(r)
  BY <1>3, CreateSound, SetStatusSound, EditDraftSound, FinishSound
<1>4. CASE SerializationFailure(r) \/ DeadlockVictim(r)
  <2>1. InTx(r) /\ Retry(r)
    BY <1>4 DEF SerializationFailure, DeadlockVictim, WaitsFor, InTx
  <2> QED
    BY <2>1, RetryKeeps, RefuseAtomic
<1>5. CASE Lose(r)
  BY <1>5, RefuseKeeps, RefuseAtomic DEF Lose
<1> QED
  BY <1>1, <1>2, <1>3, <1>4, <1>5 DEF Step
-----------------------------------------------------------------------------
(***************************************************************************)
(* Product updates and deletions: every request is a bystander.            *)
(***************************************************************************)
LEMMA OthersKeepIsolation ==
    ASSUME TypeOK, Isolation, NEW rows, \A s \in Reqs : Bystander(s, rows) /\ Harmless(s, rows),
           \A e \in Editors : EditorHolds(e)'
    PROVE  Isolation'
<1>1. \A s \in Reqs : Entitled(s)'
  BY BystanderEntitled, IsolationParts
<1>2. \A s \in Reqs : /\ \A k \in Keys : HasKey(s, k)' <=> HasKey(s, k)
                      /\ \A p \in Products : HasLine(s, p)' <=> HasLine(s, p)
  BY DEF Bystander, HasKey, HasLine
<1>3. \A s, t \in Reqs : Apart(s, t)'
  BY <1>2, IsolationParts DEF Apart
<1> QED
  BY <1>1, <1>3 DEF Isolation, Entitled

LEMMA MissedBystander ==
    ASSUME TypeOK, NEW rows, missed' = Missed(rows),
           UNCHANGED <<pc, call, path, snap, todo>>, NEW s \in Reqs
    PROVE  Bystander(s, rows)
BY DEF Missed, Bystander

LEMMA RequestsUnchanged ==
    ASSUME TypeOK, UNCHANGED requests, NEW s \in Reqs
    PROVE  Bystander(s, {})
BY DEF requests, Bystander

LEMMA EditReadSound ==
    ASSUME TypeOK, Isolation, NEW e \in Editors, EditRead(e)
    PROVE  Isolation' /\ Atomic
<1> DEFINE p == edit[e].want.product
<1>1. \A s \in Reqs : Bystander(s, {}) /\ Harmless(s, {})
  BY RequestsUnchanged, NothingWritten DEF EditRead
<1>2. Stamped
  BY NothingWritten DEF EditRead
<1>3. p \in Products /\ stamp[p] \in Nat
  BY EditsAssumption DEF TypeOK, Edit
<1>4. EditorHolds(e)'
  <2>1. edit'[e] = IF active[p]
                   THEN [edit[e] EXCEPT !.pc = "write", !.quantity = stock[p], !.stamp = stamp[p]]
                   ELSE [edit[e] EXCEPT !.pc = "missing"]
    BY DEF EditRead, TypeOK
  <2>2. edit[e] \in [pc : {"read", "write", "saved", "missing"}, want : Edits,
                     quantity : Int, stamp : Nat]
    BY DEF TypeOK
  <2>3. UNCHANGED <<stock, stamp>>
    BY DEF EditRead, tables
  <2>4. CASE active[p]
    <3>1. /\ edit'[e].want.product = p
          /\ edit'[e].quantity = stock[p] /\ edit'[e].stamp = stamp[p]
      BY <2>1, <2>2, <2>4
    <3> QED
      BY <1>3, <2>3, <3>1 DEF EditorHolds
  <2>5. CASE ~ active[p]
    <3>1. edit'[e].pc = "missing"
      BY <2>1, <2>2, <2>5
    <3> QED
      BY <3>1 DEF EditorHolds
  <2> QED
    BY <2>4, <2>5
<1>5. \A d \in Editors \ {e} : edit'[d] = edit[d]
  BY DEF EditRead, TypeOK
<1>6. \A d \in Editors : EditorHolds(d)'
  BY <1>2, <1>4, <1>5, EditorStays, IsolationParts
<1> QED
  BY <1>1, <1>6, OthersKeepIsolation DEF EditRead, Atomic

LEMMA EditWriteSound ==
    ASSUME TypeOK, Isolation, StockInRange, NEW e \in Editors, EditWrite(e)
    PROVE  Isolation' /\ Atomic
<1> DEFINE p == edit[e].want.product
           next == IF edit[e].want.quantity = Keep THEN edit[e].quantity ELSE edit[e].want.quantity
<1>1. /\ p \in Products /\ stamp[p] \in Nat
      /\ edit[e].want.quantity \in (0 .. MaxInt) \union {Keep}
  BY EditsAssumption DEF TypeOK, Edit
<1>2. edit'[e].pc # "write" /\ \A d \in Editors \ {e} : edit'[d] = edit[d]
  BY DEF EditWrite, TypeOK
<1>3. CASE ~ AsRead(e)
  <2>1. UNCHANGED <<tables, stamp, requests>>
    BY <1>3 DEF EditWrite
  <2>2. Stamped /\ \A s \in Reqs : Bystander(s, {}) /\ Harmless(s, {})
    BY <2>1, RequestsUnchanged, NothingWritten
  <2>3. \A d \in Editors : EditorHolds(d)'
    BY <1>2, <2>2, EditorStays, IsolationParts DEF EditorHolds
  <2> QED
    BY <2>1, <2>2, <2>3, OthersKeepIsolation DEF Atomic
<1>4. CASE AsRead(e)
  <2>1. /\ stock' = IF edit[e].want.quantity = Keep THEN stock ELSE [stock EXCEPT ![p] = next]
        /\ ledger' = [ledger EXCEPT ![p]["MANUAL_ADJUSTMENT"] = @ + next - edit[e].quantity]
        /\ stamp' = [stamp EXCEPT ![p] = @ + 1]
        /\ missed' = Missed({p})
        /\ UNCHANGED <<invoice, moved, keyrow, active, pc, call, path, attempt, snap, todo, reply>>
    BY <1>4 DEF EditWrite
  <2>2. edit[e].quantity = stock[p] /\ stock[p] \in 0 .. MaxInt
    BY <1>1, <1>4, IsolationParts DEF EditWrite, AsRead, EditorHolds, StockInRange
  <2>3. next \in 0 .. MaxInt
    BY <1>1, <2>2
  <2>4. stock' = [stock EXCEPT ![p] = next]
    BY <2>1, <2>2 DEF TypeOK, TablesTypeOK
  <2>5. \A s \in Reqs : Bystander(s, {p})
    BY <2>1, MissedBystander
  <2>6. \A s \in Reqs : Harmless(s, {p})
    <3>1. \A s \in Reqs : ~ HasLine(s, p)
      BY DEF EditWrite, Free
    <3>2. \A q \in Products : q # p => stock'[q] = stock[q]
      BY <2>4 DEF TypeOK, TablesTypeOK
    <3> QED
      BY <2>1, <3>1, <3>2 DEF Harmless
  <2>7. Stamped
    BY <1>1, <2>1, <2>4 DEF Stamped, TypeOK, TablesTypeOK
  <2>8. \A d \in Editors : EditorHolds(d)'
    BY <1>2, <2>7, EditorStays, IsolationParts DEF EditorHolds
  <2>9. Isolation'
    BY <2>5, <2>6, <2>8, OthersKeepIsolation
  <2>10. Contract!Adjust(p, next)
    BY <2>1, <2>2, <2>4 DEF Contract!Adjust
  <2> QED
    BY <1>1, <2>3, <2>9, <2>10 DEF Atomic, Contract!Next
<1> QED
  BY <1>3, <1>4

LEMMA DeleteSound ==
    ASSUME TypeOK, Isolation, NEW p \in Products, Delete(p)
    PROVE  Isolation' /\ Atomic
<1>1. \A s \in Reqs : Bystander(s, {p}) /\ Harmless(s, {p})
  BY MissedBystander DEF Delete, tables, Harmless
<1>2. Stamped
  BY DEF Delete, tables, Stamped, TypeOK
<1>3. \A e \in Editors : EditorHolds(e)'
  BY <1>2, EditorStays, IsolationParts DEF Delete
<1> QED
  BY <1>1, <1>3, OthersKeepIsolation DEF Delete, Atomic
-----------------------------------------------------------------------------
(***************************************************************************)
(* The invariant.  The range of the stock is StockContract's, step by      *)
(* step; so are the ledger, the movements and the versions below.          *)
(***************************************************************************)
CP == INSTANCE StockContractProofs WITH Readers <- {}, next <- <<>>, shown <- <<>>, lines <- <<>>

LEMMA SameContract == (Contract!Next <=> CP!Next) /\ (Contract!Init <=> CP!Init)
BY DEF Contract!Next, Contract!Create, Contract!EditDraft, Contract!Issue, Contract!Settle,
       Contract!CancelIssued, Contract!Adjust, Contract!Editable, Contract!InStock,
       Contract!Settlements, Contract!Unused, Contract!SetStatusTo, Contract!SetItems,
       Contract!RecordKey, Contract!MoveGoods, Contract!ItemsOf, Contract!DraftOf, Contract!Empty,
       Contract!InvoiceStatus, Contract!Init, Contract!TablesInit, Contract!NoInvoice,
       Contract!StockMovementReason,
       CP!Next, CP!Create, CP!EditDraft, CP!Issue, CP!Settle,
       CP!CancelIssued, CP!Adjust, CP!Editable, CP!InStock,
       CP!Settlements, CP!Unused, CP!SetStatusTo, CP!SetItems,
       CP!RecordKey, CP!MoveGoods, CP!ItemsOf, CP!DraftOf, CP!Empty,
       CP!InvoiceStatus, CP!Init, CP!TablesInit, CP!NoInvoice, CP!StockMovementReason

LEMMA SameTables ==
    /\ TablesTypeOK <=> CP!TypeOK
    /\ StockInRange <=> CP!StockInRange
    /\ StockMatchesLedger <=> CP!StockMatchesLedger
    /\ MovementsMatchStatus <=> CP!MovementsMatchStatus
    /\ VersionsAccounted <=> CP!VersionsAccounted
BY DEF TablesTypeOK, CP!TypeOK, CP!TablesTypeOK, InvoiceRow, CP!InvoiceRow, KeyRow, CP!KeyRow,
       InvoiceStatus, CP!InvoiceStatus, StockMovementReason, CP!StockMovementReason,
       Empty, CP!Empty, StockInRange, CP!StockInRange, StockMatchesLedger, CP!StockMatchesLedger,
       MovementsMatchStatus, CP!MovementsMatchStatus, MovementsOf, CP!MovementsOf,
       ItemsOf, CP!ItemsOf, VersionsAccounted, CP!VersionsAccounted, KeysOf, CP!KeysOf

(* The instance has a copy of the library's sum of its own.                *)
LEMMA SameSum == ASSUME NEW f, NEW S PROVE CP!SumFunctionOnSet(f, S) = SumFunctionOnSet(f, S)
BY DEF CP!SumFunctionOnSet, SumFunctionOnSet, CP!FoldFunctionOnSet, FoldFunctionOnSet,
       CP!MapThenFoldSet, MapThenFoldSet

LEMMA SameOutstanding == OutstandingMatches <=> CP!OutstandingMatches
BY SameSum DEF OutstandingMatches, CP!OutstandingMatches, Outstanding, CP!Outstanding,
               GoodsOut, CP!GoodsOut

(***************************************************************************)
(* The lemmas of StockContractProofs hold under its assumptions, which are *)
(* those of StockTables.                                                   *)
(***************************************************************************)
LEMMA ContractStep ==
    ASSUME CP!TypeOK, [CP!Next]_CP!tables
    PROVE  /\ CP!StockInRange => CP!StockInRange'
           /\ CP!StockMatchesLedger => CP!StockMatchesLedger'
           /\ CP!MovementsMatchStatus => CP!MovementsMatchStatus'
           /\ CP!VersionInv => CP!VersionInv'
           /\ CP!OutInv => CP!OutInv'
<1> USE MaxIntAssumption, CartsAssumption, InitialStockAssumption, DraftsAssumption, NoRowAssumption
    DEF Empty, CP!Empty, KeyRow, CP!KeyRow, Header, CP!Header, InvoiceStatus, CP!InvoiceStatus
<1>1. CP!StockInRange => CP!StockInRange'
  BY CP!RangeNext
<1>2. CP!StockMatchesLedger => CP!StockMatchesLedger'
  BY CP!LedgerNext
<1>3. CP!MovementsMatchStatus => CP!MovementsMatchStatus'
  BY CP!MovementsNext
<1>4. CP!VersionInv => CP!VersionInv'
  BY CP!VersionNext
<1>5. CP!OutInv => CP!OutInv'
  BY CP!OutNext
<1> QED
  BY <1>1, <1>2, <1>3, <1>4, <1>5

LEMMA AtomicStep == TypeOK /\ Atomic => CP!TypeOK /\ [CP!Next]_CP!tables
BY SameTables, SameContract DEF TypeOK, Atomic, tables, CP!tables

LEMMA RangeStep ==
    ASSUME TypeOK, StockInRange, Atomic
    PROVE  StockInRange'
<1>1. CP!StockInRange'
  BY AtomicStep, ContractStep, SameTables
<1> QED
  BY <1>1 DEF StockInRange, CP!StockInRange

LEMMA FlowInvInit == Init => FlowInv
<1> SUFFICES ASSUME Init PROVE FlowInv
  OBVIOUS
<1>1. TypeOK
  BY TypeInit
<1>2. StockInRange
  BY InitialStockAssumption DEF Init, TablesInit, StockInRange
<1>3. \A r \in Reqs : pc[r] \in {"replay", "resolve"} /\ path[r] = "none"
                        /\ (pc[r] = "resolve" => call[r].op = "CREATE")
  BY DEF Init
<1>4. \A r \in Reqs : Entitled(r)
  BY <1>3 DEF Entitled, OnPath, SnapshotHolds, InTx, LinesSecured, HasLine, KeyFresh
<1>5. \A r, s \in Reqs : Apart(r, s)
  BY <1>3 DEF Apart, HasKey, HasLine
<1>6. \A e \in Editors : EditorHolds(e)
  BY DEF Init, EditorHolds
<1> QED
  BY <1>1, <1>2, <1>4, <1>5, <1>6, IsolationParts DEF FlowInv

LEMMA FlowInvNext == FlowInv /\ [Next]_vars => FlowInv' /\ Atomic
<1> SUFFICES ASSUME TypeOK, Isolation, StockInRange, [Next]_vars PROVE FlowInv' /\ Atomic
  BY DEF FlowInv
<1>1. TypeOK'
  BY TypeNext
<1>2. Isolation' /\ Atomic
  <2>1. ASSUME NEW r \in Reqs, Step(r) \/ SerializationFailure(r) \/ Lose(r)
        PROVE  Isolation' /\ Atomic
    BY <2>1, StepSound
  <2>2. ASSUME NEW e \in Editors, EditStep(e) PROVE Isolation' /\ Atomic
    BY <2>2, EditReadSound, EditWriteSound DEF EditStep
  <2>3. ASSUME NEW p \in Products, Delete(p) PROVE Isolation' /\ Atomic
    BY <2>3, DeleteSound
  <2>4. CASE UNCHANGED vars
    <3>1. UNCHANGED <<tables, stamp, requests, edit>>
      BY <2>4 DEF vars
    <3>2. Stamped /\ \A s \in Reqs : Bystander(s, {}) /\ Harmless(s, {})
      BY <3>1, RequestsUnchanged, NothingWritten
    <3>3. \A e \in Editors : EditorHolds(e)'
      BY <3>1, <3>2, EditorStays, IsolationParts
    <3> QED
      BY <3>1, <3>2, <3>3, OthersKeepIsolation DEF Atomic
  <2> QED
    BY <2>1, <2>2, <2>3, <2>4 DEF Next
<1>3. StockInRange'
  BY <1>2, RangeStep
<1> QED
  BY <1>1, <1>2, <1>3 DEF FlowInv

LEMMA FlowInvariant == Spec => []FlowInv
<1>1. FlowInv /\ [Next]_vars => FlowInv'
  BY FlowInvNext
<1> QED
  BY FlowInvInit, <1>1, PTL DEF Spec

(***************************************************************************)
(* Whatever was checked before a commit still holds at it.                 *)
(***************************************************************************)
THEOREM FlowIsolation == Spec => []Isolation
<1>1. FlowInv => Isolation
  BY DEF FlowInv
<1> QED
  BY FlowInvariant, <1>1, PTL

(***************************************************************************)
(* No interleaving of requests and product updates oversells a product or  *)
(* overflows its column.                                                   *)
(***************************************************************************)
THEOREM FlowStockInRange == Spec => []StockInRange
<1>1. FlowInv => StockInRange
  BY DEF FlowInv
<1> QED
  BY FlowInvariant, <1>1, PTL

(***************************************************************************)
(* The concurrent requests implement the atomic operations.                *)
(***************************************************************************)
THEOREM FlowRefines == Spec => Refines
<1>1. Init => Contract!Init
  BY DEF Init, TablesInit, NoInvoice, DraftOf, Empty, StockMovementReason,
         Contract!Init, Contract!TablesInit, Contract!NoInvoice, Contract!DraftOf, Contract!Empty,
         Contract!StockMovementReason
<1>2. FlowInv /\ [Next]_vars => [Contract!Next]_(Contract!tables)
  BY FlowInvNext DEF Atomic, tables, Contract!tables
<1> QED
  BY FlowInvariant, <1>1, <1>2, PTL DEF Spec, Refines, Contract!Spec
-----------------------------------------------------------------------------
(***************************************************************************)
(* What follows for the tables of the concurrent requests.                 *)
(***************************************************************************)
LEMMA ContractInit == Init => CP!Init
BY SameContract DEF Init, TablesInit, NoInvoice, DraftOf, Empty, StockMovementReason,
   Contract!Init, Contract!TablesInit, Contract!NoInvoice, Contract!DraftOf, Contract!Empty,
   Contract!StockMovementReason

(***************************************************************************)
(* The stock stays the sum of its movements under every interleaving.      *)
(***************************************************************************)
THEOREM FlowLedger == Spec => []StockMatchesLedger
<1>1. Init => CP!StockMatchesLedger
  BY ContractInit, CP!LedgerInit, MaxIntAssumption, CartsAssumption, InitialStockAssumption,
     DraftsAssumption, NoRowAssumption
  DEF Empty, CP!Empty, KeyRow, CP!KeyRow, Header, CP!Header, InvoiceStatus, CP!InvoiceStatus
<1>2. FlowInv /\ [Next]_vars /\ CP!StockMatchesLedger => CP!StockMatchesLedger'
  BY FlowInvNext, AtomicStep, ContractStep DEF FlowInv
<1>3. CP!StockMatchesLedger => StockMatchesLedger
  BY SameTables
<1> QED
  BY FlowInvariant, <1>1, <1>2, <1>3, PTL DEF Spec

(***************************************************************************)
(* Goods leave once and come back at most once under every interleaving.   *)
(***************************************************************************)
THEOREM FlowMovements == Spec => []MovementsMatchStatus
<1>1. Init => CP!MovementsMatchStatus
  BY ContractInit, CP!MovementsInit, MaxIntAssumption, CartsAssumption, InitialStockAssumption,
     DraftsAssumption, NoRowAssumption
  DEF Empty, CP!Empty, KeyRow, CP!KeyRow, Header, CP!Header, InvoiceStatus, CP!InvoiceStatus
<1>2. FlowInv /\ [Next]_vars /\ CP!MovementsMatchStatus => CP!MovementsMatchStatus'
  BY FlowInvNext, AtomicStep, ContractStep DEF FlowInv
<1>3. CP!MovementsMatchStatus => MovementsMatchStatus
  BY SameTables
<1> QED
  BY FlowInvariant, <1>1, <1>2, <1>3, PTL DEF Spec

(***************************************************************************)
(* Under every interleaving each version step of an invoice is owned by    *)
(* exactly one key.                                                        *)
(***************************************************************************)
THEOREM FlowVersions == Spec => []VersionsAccounted
<1>1. Init => CP!VersionInv
  BY ContractInit, CP!VersionInit, MaxIntAssumption, CartsAssumption, InitialStockAssumption,
     DraftsAssumption, NoRowAssumption
  DEF Empty, CP!Empty, KeyRow, CP!KeyRow, Header, CP!Header, InvoiceStatus, CP!InvoiceStatus
<1>2. FlowInv /\ [Next]_vars /\ CP!VersionInv => CP!VersionInv'
  BY FlowInvNext, AtomicStep, ContractStep DEF FlowInv
<1>3. CP!VersionInv => VersionsAccounted
  BY SameTables DEF CP!VersionInv
<1> QED
  BY FlowInvariant, <1>1, <1>2, <1>3, PTL DEF Spec

(***************************************************************************)
(* Under every interleaving the goods that left are those on the issued    *)
(* and paid invoices.                                                      *)
(***************************************************************************)
THEOREM FlowOutstanding == Spec => []OutstandingMatches
<1>1. Init => CP!OutInv
  BY ContractInit, CP!OutInit, MaxIntAssumption, CartsAssumption, InitialStockAssumption,
     DraftsAssumption, NoRowAssumption
  DEF Empty, CP!Empty, KeyRow, CP!KeyRow, Header, CP!Header, InvoiceStatus, CP!InvoiceStatus
<1>2. FlowInv /\ [Next]_vars /\ CP!OutInv => CP!OutInv'
  BY FlowInvNext, AtomicStep, ContractStep DEF FlowInv
<1>3. CP!OutInv => OutstandingMatches
  BY SameOutstanding DEF CP!OutInv
<1> QED
  BY FlowInvariant, <1>1, <1>2, <1>3, PTL DEF Spec
-----------------------------------------------------------------------------
(***************************************************************************)
(* The answers of StockFlow agree with its idempotency table, and of the   *)
(* requests that name one version of an invoice one at most is told that   *)
(* it was applied.                                                         *)
(***************************************************************************)

(***************************************************************************)
(* AnswersMatchRecords is not inductive: an answer is final, the handler   *)
(* of a duplicate key runs when the key is there, and a key tells one      *)
(* request "ok".                                                           *)
(***************************************************************************)
Told(r) == call[r].op # "CREATE" /\ reply[r].kind = "ok"

AnswersInv ==
    /\ AnswersMatchRecords
    /\ \A r \in Reqs : reply[r].kind # "none" => pc[r] = "done"
    /\ \A r \in Reqs : pc[r] = "dup" => Found(r)
    /\ \A r, s \in Reqs : Told(r) /\ Told(s) /\ call[r].key = call[s].key => r = s

LEMMA AnswersInit == Init => AnswersInv
<1> SUFFICES ASSUME Init PROVE AnswersInv
  OBVIOUS
<1>1. \A r \in Reqs : reply[r].kind = "none" /\ pc[r] # "dup"
  BY DEF Init
<1>2. \A k \in Keys : keyrow[k] = NoRow
  BY DEF Init, TablesInit
<1> QED
  BY <1>1, <1>2 DEF AnswersInv, AnswersMatchRecords, Told
-----------------------------------------------------------------------------
(***************************************************************************)
(* What a step of a request may do to answers and keys.                    *)
(***************************************************************************)
Alone(r) ==
    /\ pc[r] # "done" /\ call' = call
    /\ \A s \in Reqs \ {r} : pc'[s] = pc[s] /\ reply'[s] = reply[s]

GoesOn(r) == keyrow' = keyrow /\ reply'[r] = reply[r] /\ (pc'[r] = "dup" => Found(r))

Refused(r) ==
    /\ keyrow' = keyrow /\ pc'[r] = "done"
    /\ reply'[r].kind \in {"conflict", "missing", "invalid", "internal", "lost"}

Created(r) == keyrow' = keyrow /\ pc'[r] = "done" /\ call[r].op = "CREATE"

Repeated(r) ==
    /\ keyrow' = keyrow /\ pc'[r] = "done"
    /\ Found(r) /\ Matches(r, keyrow[call[r].key])
    /\ reply'[r] = [kind |-> "replayed", version |-> invoice[call[r].inv].version]

Recorded(r) ==
    \E row \in KeyRow :
        /\ call[r].op # "CREATE" /\ ~ Found(r) /\ pc'[r] = "done"
        /\ keyrow' = [keyrow EXCEPT ![call[r].key] = row]
        /\ Matches(r, row) /\ row.version = call[r].ver + 1
        /\ reply'[r].kind \in {"ok", "lost"}
        /\ reply'[r].kind = "ok" => reply'[r].version = row.version

Does(r) ==
    Alone(r) /\ (GoesOn(r) \/ Refused(r) \/ Created(r) \/ Repeated(r) \/ Recorded(r))

LEMMA AnswerDoes ==
    ASSUME TypeOK, NEW r \in Reqs, pc[r] # "done", NEW kind, NEW version, NEW rows,
           Answer(r, kind, version, rows)
    PROVE  Alone(r) /\ pc'[r] = "done" /\ reply'[r] = [kind |-> kind, version |-> version]
BY DEF TypeOK, Answer, Leave, Alone

LEMMA RefuseDoes ==
    ASSUME TypeOK, NEW r \in Reqs, pc[r] # "done",
           NEW kind \in {"conflict", "missing", "invalid", "internal", "lost"}, Refuse(r, kind)
    PROVE  Does(r)
<1>1. Alone(r) /\ pc'[r] = "done" /\ reply'[r] = [kind |-> kind, version |-> 0]
  BY AnswerDoes DEF Refuse
<1>2. keyrow' = keyrow
  BY DEF Refuse, tables
<1> QED
  BY <1>1, <1>2 DEF Does, Refused

LEMMA RepeatDoes ==
    ASSUME TypeOK, NEW r \in Reqs, pc[r] # "done", Found(r), Replayed(r) \/ KeyConflict(r)
    PROVE  Does(r)
<1>1. CASE Replayed(r)
  <2>1. /\ Alone(r) /\ pc'[r] = "done"
        /\ reply'[r] = [kind |-> "replayed", version |-> invoice[call[r].inv].version]
    BY <1>1, AnswerDoes DEF Replayed
  <2>2. Matches(r, keyrow[call[r].key]) /\ keyrow' = keyrow
    BY <1>1 DEF Replayed, tables
  <2> QED
    BY <2>1, <2>2 DEF Does, Repeated
<1>2. CASE KeyConflict(r)
  BY <1>2, RefuseDoes DEF KeyConflict
<1> QED
  BY <1>1, <1>2

LEMMA LeaveDoes ==
    ASSUME TypeOK, NEW r \in Reqs, pc[r] # "done", NEW next, NEW rows, Leave(r, next, rows),
           UNCHANGED <<tables, call, reply>>, next = "dup" => Found(r)
    PROVE  Does(r)
BY DEF TypeOK, Leave, tables, Does, Alone, GoesOn

LEMMA RetryDoes ==
    ASSUME TypeOK, NEW r \in Reqs, pc[r] # "done", Retry(r)
    PROVE  Does(r)
BY LeaveDoes, RefuseDoes DEF Retry

LEMMA GotoDoes ==
    ASSUME TypeOK, NEW r \in Reqs, pc[r] # "done", NEW next, next # "dup", Goto(r, next)
    PROVE  Does(r)
BY DEF TypeOK, Goto, tables, Does, Alone, GoesOn

(***************************************************************************)
(* A commit of a mutation: the key was free, the version the one named.    *)
(***************************************************************************)
LEMMA CommitDoes ==
    ASSUME TypeOK, Isolation, NEW r \in Reqs, pc[r] \in {"mutate", "lines"},
           NEW to, NEW items, NEW rows,
           call[r].op # "CREATE", to = call[r].to, items = call[r].items,
           RecordKey(call[r].key, call[r].op, call[r].inv, to, items),
           invoice[call[r].inv].version = call[r].ver,
           Committed(r, invoice[call[r].inv].version + 1, rows)
    PROVE  Does(r)
<1> DEFINE row == [op |-> call[r].op, inv |-> call[r].inv, to |-> to, items |-> items,
                   version |-> invoice[call[r].inv].version + 1]
<1>1. call[r] \in Call
  BY CallsAssumption DEF TypeOK
<1>2. row \in KeyRow
  BY <1>1 DEF Call, KeyRow
<1>3. ~ Found(r) /\ keyrow' = [keyrow EXCEPT ![call[r].key] = row]
  BY IsolationParts DEF Entitled, KeyFresh, RecordKey
<1>4. Matches(r, row) /\ row.version = call[r].ver + 1
  BY DEF Matches
<1>5. PICK kind \in {"ok", "lost"} :
        Answer(r, kind, IF kind = "ok" THEN row.version ELSE 0, rows)
  BY DEF Committed
<1>6. /\ Alone(r) /\ pc'[r] = "done"
      /\ reply'[r] = [kind |-> kind, version |-> IF kind = "ok" THEN row.version ELSE 0]
  BY <1>5, AnswerDoes
<1>7. /\ reply'[r].kind \in {"ok", "lost"}
      /\ reply'[r].kind = "ok" => reply'[r].version = row.version
  BY <1>6
<1> HIDE DEF row
<1>8. Recorded(r)
  BY <1>2, <1>3, <1>4, <1>6, <1>7 DEF Recorded
<1> QED
  BY <1>6, <1>8 DEF Does

LEMMA StepDoes ==
    ASSUME FlowInv, AnswersInv, NEW r \in Reqs, Step(r) \/ SerializationFailure(r) \/ Lose(r)
    PROVE  Does(r)
<1>0. TypeOK /\ Isolation /\ StockInRange
  BY DEF FlowInv
<1>1. CASE Replay(r)
  BY <1>0, <1>1, GotoDoes, RepeatDoes DEF Replay
<1>2. CASE Load(r)
  BY <1>0, <1>2, GotoDoes, RefuseDoes DEF Load
<1>3. CASE Resolve(r)
  BY <1>0, <1>3, GotoDoes, RefuseDoes DEF Resolve
<1>4. CASE Create(r)
  <2>1. pc[r] = "create" /\ keyrow' = keyrow /\ \E rows : Committed(r, 1, rows)
    BY <1>4 DEF Create
  <2>2. Alone(r) /\ pc'[r] = "done"
    BY <1>0, <2>1, AnswerDoes DEF Committed
  <2>3. call[r].op = "CREATE"
    BY <1>0, <2>1, IsolationParts DEF Entitled, OnPath
  <2> QED
    BY <2>1, <2>2, <2>3 DEF Does, Created
<1>5. CASE Begin(r)
  BY <1>0, <1>5, GotoDoes, RepeatDoes DEF Begin
<1>6. CASE Insert(r)
  <2>1. pc[r] # "done" /\ pc[r] = "insert"
    BY <1>6 DEF Insert
  <2>2. CASE Goto(r, "mutate")
    BY <1>0, <2>1, <2>2, GotoDoes
  <2>3. CASE Found(r) /\ Leave(r, "dup", {})
             /\ UNCHANGED <<tables, stamp, active, call, path, attempt, reply, edit>>
    BY <1>0, <2>1, <2>3, LeaveDoes
  <2>4. CASE Retry(r)
    BY <1>0, <2>1, <2>4, RetryDoes
  <2> QED
    BY <1>6, <2>2, <2>3, <2>4 DEF Insert
<1>7. CASE Dup(r)
  BY <1>0, <1>7, RepeatDoes DEF Dup, AnswersInv
<1>8. CASE SetStatus(r)
  <2>1. pc[r] = "mutate" /\ path[r] \in {"pay", "void"}
    BY <1>8 DEF SetStatus
  <2>2. call[r].op = "STATUS" /\ call[r].items = Empty
    BY <1>0, <2>1, IsolationParts, CallsAssumption DEF Entitled, OnPath, TypeOK
  <2>3. CASE Refuse(r, "conflict")
    BY <1>0, <2>1, <2>3, RefuseDoes
  <2>4. CASE /\ Expected(r, invoice[call[r].inv], Source(path[r]))
             /\ RecordKey(call[r].key, "STATUS", call[r].inv, call[r].to, Empty)
             /\ Committed(r, invoice[call[r].inv].version + 1, {call[r].inv})
    BY <1>0, <2>1, <2>2, <2>4, CommitDoes DEF Expected
  <2> QED
    BY <1>8, <2>3, <2>4 DEF SetStatus
<1>9. CASE EditDraft(r)
  <2>1. pc[r] = "mutate" /\ path[r] = "edit"
    BY <1>9 DEF EditDraft
  <2>2. call[r].op = "DRAFT_UPDATE" /\ call[r].to = "DRAFT"
    BY <1>0, <2>1, IsolationParts, CallsAssumption DEF Entitled, OnPath, TypeOK
  <2>3. CASE Refuse(r, "conflict")
    BY <1>0, <2>1, <2>3, RefuseDoes
  <2>4. CASE /\ Expected(r, invoice[call[r].inv], "DRAFT")
             /\ RecordKey(call[r].key, "DRAFT_UPDATE", call[r].inv, "DRAFT", call[r].items)
             /\ Committed(r, invoice[call[r].inv].version + 1, {call[r].inv})
    BY <1>0, <2>1, <2>2, <2>4, CommitDoes DEF Expected
  <2> QED
    BY <1>9, <2>3, <2>4 DEF EditDraft
<1>10. CASE Open(r)
  BY <1>0, <1>10, GotoDoes, RefuseDoes DEF Open
<1>11. ASSUME NEW p \in Products, Line(r, p) PROVE Does(r)
  BY <1>0, <1>11, GotoDoes, RefuseDoes, RetryDoes DEF Line
<1>12. CASE Finish(r)
  <2>1. pc[r] = "lines" /\ todo[r] = {}
    BY <1>12 DEF Finish
  <2>2. CASE Retry(r)
    BY <1>0, <2>1, <2>2, RetryDoes
  <2>3. CASE /\ call[r].inv \notin missed[r]
             /\ RecordKey(call[r].key, "STATUS", call[r].inv, call[r].to, Empty)
             /\ \E rows : Committed(r, invoice[call[r].inv].version + 1, rows)
    <3>1. Entitled(r) /\ Serializable(r)
      BY <1>0, <2>1, IsolationParts DEF Entitled, OnPath
    <3>2. call[r].op = "STATUS" /\ call[r].items = Empty
      BY <1>0, <3>1, CallsAssumption DEF Entitled, OnPath, Serializable, TypeOK
    <3>3. invoice[call[r].inv].version = call[r].ver
      BY <2>1, <2>3, <3>1 DEF Entitled, OnPath, SnapshotHolds, InTx, Expected
    <3> QED
      BY <1>0, <2>1, <2>3, <3>2, <3>3, CommitDoes
  <2> QED
    BY <1>12, <2>2, <2>3 DEF Finish
<1>13. CASE SerializationFailure(r) \/ DeadlockVictim(r)
  <2>1. pc[r] # "done" /\ Retry(r)
    BY <1>13 DEF SerializationFailure, DeadlockVictim, WaitsFor, InTx
  <2> QED
    BY <1>0, <2>1, RetryDoes
<1>14. CASE Lose(r)
  BY <1>0, <1>14, RefuseDoes DEF Lose
<1> QED
  BY <1>1, <1>2, <1>3, <1>4, <1>5, <1>6, <1>7, <1>8, <1>9, <1>10, <1>11, <1>12, <1>13, <1>14 DEF Step
-----------------------------------------------------------------------------
(***************************************************************************)
(* Every such step keeps the answers and the keys in agreement.            *)
(***************************************************************************)
KeyHasAuthor(k) ==
    keyrow[k] # NoRow => \E r \in Reqs : Author(r, k) /\ reply[r].kind \in {"ok", "lost"}

AnswerTrue(r) ==
    call[r].op # "CREATE" =>
        /\ reply[r].kind = "ok" =>
            Found(r) /\ Author(r, call[r].key) /\ reply[r].version = keyrow[call[r].key].version
        /\ reply[r].kind = "replayed" =>
            Found(r) /\ Matches(r, keyrow[call[r].key])
                /\ reply[r].version >= keyrow[call[r].key].version

LEMMA AnswersParts ==
    AnswersMatchRecords <=>
        (\A r \in Reqs : AnswerTrue(r)) /\ (\A k \in Keys : KeyHasAuthor(k))
BY DEF AnswersMatchRecords, AnswerTrue, KeyHasAuthor

LEMMA SameRecord ==
    ASSUME NEW s \in Reqs, call' = call, reply'[s] = reply[s],
           keyrow'[call[s].key] = keyrow[call[s].key]
    PROVE  /\ AnswerTrue(s) => AnswerTrue(s)'
           /\ Found(s) => Found(s)'
BY DEF AnswerTrue, Found, Author, Matches

LEMMA DoesKeeps ==
    ASSUME TypeOK, VersionsAccounted, AnswersInv, NEW r \in Reqs, Does(r)
    PROVE  AnswersInv'
<1>k. \A s \in Reqs : call[s].key \in Keys /\ call[s].inv \in Invoices
  BY CallType DEF TypeOK
<1>a. Alone(r) /\ reply[r].kind = "none"
  BY DEF Does, Alone, AnswersInv
<1>b. (\A s \in Reqs : AnswerTrue(s)) /\ (\A k \in Keys : KeyHasAuthor(k))
  BY AnswersParts DEF AnswersInv
<1>c. SUFFICES /\ \A s \in Reqs : AnswerTrue(s)'
               /\ \A k \in Keys : KeyHasAuthor(k)'
               /\ \A s \in Reqs : reply'[s].kind # "none" => pc'[s] = "done"
               /\ \A s \in Reqs : pc'[s] = "dup" => Found(s)'
               /\ \A s, t \in Reqs : Told(s)' /\ Told(t)' /\ call'[s].key = call'[t].key => s = t
  BY AnswersParts DEF AnswersInv, AnswersMatchRecords, AnswerTrue, KeyHasAuthor
<1>1. CASE GoesOn(r)
  <2>1. \A s \in Reqs : reply'[s] = reply[s]
    BY <1>a, <1>1 DEF Alone, GoesOn
  <2>2. \A s \in Reqs : (AnswerTrue(s) => AnswerTrue(s)') /\ (Found(s) => Found(s)')
    BY <1>a, <1>1, <2>1, SameRecord DEF Alone, GoesOn
  <2>3. \A k \in Keys : KeyHasAuthor(k)'
    BY <1>a, <1>b, <1>1, <2>1 DEF KeyHasAuthor, Author, Matches, Alone, GoesOn
  <2>4. \A s, t \in Reqs : Told(s)' /\ Told(t)' /\ call'[s].key = call'[t].key => s = t
    BY <1>a, <2>1 DEF Told, Alone, AnswersInv
  <2> QED
    BY <1>a, <1>b, <1>1, <2>1, <2>2, <2>3, <2>4 DEF Alone, GoesOn, AnswersInv
<1>2. CASE Refused(r) \/ Created(r) \/ Repeated(r)
  <2>1. keyrow' = keyrow /\ pc'[r] = "done"
    BY <1>2 DEF Refused, Created, Repeated
  <2>2. \A s \in Reqs \ {r} : AnswerTrue(s)'
    BY <1>a, <1>b, <2>1, SameRecord DEF Alone
  <2>3. \A s \in Reqs : Found(s) => Found(s)'
    BY <1>a, <2>1 DEF Found, Alone
  <2>4. AnswerTrue(r)'
    <3>1. CASE Refused(r) \/ Created(r)
      BY <1>a, <3>1 DEF AnswerTrue, Refused, Created, Alone
    <3>2. CASE Repeated(r)
      <4>1. /\ Found(r) /\ Matches(r, keyrow[call[r].key])
            /\ reply'[r].kind = "replayed"
            /\ reply'[r].version = invoice[call[r].inv].version
        BY <3>2 DEF Repeated
      <4>2. call[r].key \in KeysOf(call[r].inv)
        BY <1>k, <4>1 DEF Found, Matches, KeysOf
      <4>3. /\ invoice[call[r].inv].version \in Nat
            /\ keyrow[call[r].key].version \in 2 .. invoice[call[r].inv].version
        BY <1>k, <4>2 DEF VersionsAccounted, TypeOK, TablesTypeOK, InvoiceRow
      <4> QED
        BY <1>a, <2>1, <4>1, <4>3 DEF AnswerTrue, Found, Matches, Alone
    <3> QED
      BY <1>2, <3>1, <3>2
  <2>5. \A k \in Keys : KeyHasAuthor(k)'
    <3> SUFFICES ASSUME NEW k \in Keys, keyrow[k] # NoRow PROVE KeyHasAuthor(k)'
      BY <2>1 DEF KeyHasAuthor
    <3>1. PICK s \in Reqs : Author(s, k) /\ reply[s].kind \in {"ok", "lost"}
      BY <1>b DEF KeyHasAuthor
    <3>2. s # r
      BY <1>a, <3>1
    <3> QED
      BY <1>a, <2>1, <3>1, <3>2 DEF KeyHasAuthor, Author, Matches, Alone
  <2>6. ~ Told(r)'
    BY <1>2, <1>a DEF Told, Refused, Created, Repeated, Alone
  <2>7. \A s, t \in Reqs : Told(s)' /\ Told(t)' /\ call'[s].key = call'[t].key => s = t
    BY <1>a, <2>6 DEF Told, Alone, AnswersInv
  <2> QED
    BY <1>a, <2>1, <2>2, <2>3, <2>4, <2>5, <2>7 DEF Alone, AnswersInv
<1>3. CASE Recorded(r)
  <2> DEFINE key == call[r].key
  <2> PICK row \in KeyRow :
        /\ call[r].op # "CREATE" /\ ~ Found(r) /\ pc'[r] = "done"
        /\ keyrow' = [keyrow EXCEPT ![key] = row]
        /\ Matches(r, row) /\ row.version = call[r].ver + 1
        /\ reply'[r].kind \in {"ok", "lost"}
        /\ reply'[r].kind = "ok" => reply'[r].version = row.version
    BY <1>3 DEF Recorded
  <2>1. /\ keyrow[key] = NoRow /\ keyrow'[key] = row /\ row # NoRow
        /\ \A k \in Keys : k # key => keyrow'[k] = keyrow[k]
    BY <1>k, NoRowAssumption DEF Found, TypeOK, TablesTypeOK
  <2>2. \A s \in Reqs : Found(s) => call[s].key # key
    BY <2>1 DEF Found
  <2>3. \A s \in Reqs : Found(s) => Found(s)'
    BY <1>a, <1>k, <2>1, <2>2 DEF Found, Alone
  <2>4. ASSUME NEW s \in Reqs \ {r} PROVE AnswerTrue(s)'
    <3>1. CASE call[s].key = key
      BY <1>a, <1>b, <2>2, <3>1 DEF AnswerTrue, Alone
    <3>2. CASE call[s].key # key
      BY <1>a, <1>b, <1>k, <2>1, <3>2, SameRecord DEF Alone
    <3> QED
      BY <3>1, <3>2
  <2>5. Author(r, key)' /\ Found(r)'
    BY <1>a, <2>1 DEF Author, Found, Matches, Alone
  <2>6. AnswerTrue(r)'
    BY <1>a, <2>1, <2>5 DEF AnswerTrue, Alone
  <2>7. ASSUME NEW k \in Keys PROVE KeyHasAuthor(k)'
    <3>1. CASE k = key
      <4>1. keyrow'[k] = row /\ call' = call /\ k = call[r].key
        BY <1>a, <2>1, <3>1 DEF Alone
      <4>2. Author(r, k)'
        BY <4>1 DEF Author, Matches
      <4> QED
        BY <4>2 DEF KeyHasAuthor
    <3>2. CASE k # key /\ keyrow[k] # NoRow
      <4>1. PICK s \in Reqs : Author(s, k) /\ reply[s].kind \in {"ok", "lost"}
        BY <1>b, <3>2 DEF KeyHasAuthor
      <4>2. s # r
        BY <1>a, <4>1
      <4> QED
        BY <1>a, <2>1, <3>2, <4>1, <4>2 DEF KeyHasAuthor, Author, Matches, Alone
    <3> QED
      BY <2>1, <3>1, <3>2 DEF KeyHasAuthor
  <2>8. \A s \in Reqs \ {r} : Told(s)' => Told(s) /\ call[s].key # key
    BY <1>a, <1>b, <2>2 DEF Told, AnswerTrue, Alone
  <2>9. \A s, t \in Reqs : Told(s)' /\ Told(t)' /\ call'[s].key = call'[t].key => s = t
    BY <1>a, <2>8 DEF Alone, AnswersInv
  <2> QED
    BY <1>a, <2>3, <2>4, <2>6, <2>7, <2>9 DEF Alone, AnswersInv
<1> QED
  BY <1>1, <1>2, <1>3 DEF Does

LEMMA AnswersNext ==
    ASSUME FlowInv, VersionsAccounted, AnswersInv, [Next]_vars
    PROVE  AnswersInv'
<1>0. TypeOK
  BY DEF FlowInv
<1>1. ASSUME NEW r \in Reqs, Step(r) \/ SerializationFailure(r) \/ Lose(r) PROVE AnswersInv'
  BY <1>0, <1>1, StepDoes, DoesKeeps
<1>2. ASSUME UNCHANGED <<keyrow, pc, call, reply>> PROVE AnswersInv'
  BY <1>2 DEF AnswersInv, AnswersMatchRecords, Found, Author, Matches, Told
<1>3. ASSUME NEW e \in Editors, EditStep(e) PROVE UNCHANGED <<keyrow, pc, call, reply>>
  BY <1>3 DEF EditStep, EditRead, EditWrite, tables, requests
<1>4. ASSUME NEW p \in Products, Delete(p) PROVE UNCHANGED <<keyrow, pc, call, reply>>
  BY <1>4 DEF Delete, tables
<1>5. CASE UNCHANGED vars
  BY <1>2, <1>5 DEF vars, tables, requests
<1> QED
  BY <1>1, <1>2, <1>3, <1>4, <1>5 DEF Next

LEMMA AnswersInvariant == Spec => []AnswersInv
<1>1. FlowInv /\ VersionsAccounted /\ AnswersInv /\ [Next]_vars => AnswersInv'
  BY AnswersNext
<1> QED
  BY AnswersInit, FlowInvariant, FlowVersions, <1>1, PTL DEF Spec

(***************************************************************************)
(* Whoever is told "ok" has its key recorded for just that, and every key  *)
(* recorded has an author who was told so or lost the answer.              *)
(***************************************************************************)
THEOREM FlowAnswersMatchRecords == Spec => []AnswersMatchRecords
<1>1. AnswersInv => AnswersMatchRecords
  BY DEF AnswersInv
<1> QED
  BY AnswersInvariant, <1>1, PTL

(***************************************************************************)
(* Of the requests that name one version of one invoice at most one is     *)
(* told "ok": the keys of two winners would be recorded at one version.    *)
(***************************************************************************)
THEOREM FlowOneWinner == Spec => []OneWinner
<1>1. TypeOK /\ VersionsAccounted /\ AnswersInv => OneWinner
  <2> SUFFICES ASSUME TypeOK, VersionsAccounted, AnswersInv, NEW r \in Reqs, NEW s \in Reqs,
                      call[r].op # "CREATE", call[s].op # "CREATE",
                      call[r].inv = call[s].inv, call[r].ver = call[s].ver,
                      reply[r].kind = "ok", reply[s].kind = "ok"
               PROVE  r = s
    BY DEF OneWinner
  <2>1. /\ Found(r) /\ Author(r, call[r].key) /\ Found(s) /\ Author(s, call[s].key)
    BY AnswersParts DEF AnswersInv, AnswerTrue
  <2>2. /\ call[r].inv \in Invoices
        /\ call[r].key \in KeysOf(call[r].inv) /\ call[s].key \in KeysOf(call[r].inv)
    BY <2>1, CallType DEF Found, Author, Matches, KeysOf, TypeOK
  <2>3. keyrow[call[r].key].version = keyrow[call[s].key].version
    BY <2>1 DEF Author
  <2>4. call[r].key = call[s].key
    BY <2>2, <2>3 DEF VersionsAccounted
  <2> QED
    BY <2>4 DEF AnswersInv, Told
<1>2. FlowInv => TypeOK
  BY DEF FlowInv
<1> QED
  BY AnswersInvariant, FlowInvariant, FlowVersions, <1>1, <1>2, PTL
=============================================================================
