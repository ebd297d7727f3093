------------------------ MODULE StockContractProofs ------------------------
(***************************************************************************)
(* Proofs that the atomic operations of StockContract preserve the         *)
(* invariants of the tables, for every set of products, invoices, keys and *)
(* carts, and what the readers of InvoiceReads are shown meanwhile.        *)
(***************************************************************************)
EXTENDS InvoiceReads, Sums

LEMMA EmptyType == Empty \in [Products -> 0 .. MaxInt]
BY MaxIntAssumption DEF Empty

LEMMA CartType == \A items \in Carts \union {Empty} : items \in [Products -> 0 .. MaxInt]
BY CartsAssumption, EmptyType

(***************************************************************************)
(* Each write of StockTables leaves the columns it touches with values of  *)
(* their types.                                                            *)
(***************************************************************************)
LEMMA SetStatusType ==
    ASSUME invoice \in [Invoices -> InvoiceRow], NEW i \in Invoices,
           NEW to \in InvoiceStatus, SetStatusTo(i, to)
    PROVE  invoice' \in [Invoices -> InvoiceRow]
BY DEF SetStatusTo, InvoiceRow

LEMMA SetItemsType ==
    ASSUME invoice \in [Invoices -> InvoiceRow], NEW i \in Invoices,
           NEW items \in Carts, SetItems(i, items)
    PROVE  invoice' \in [Invoices -> InvoiceRow]
BY CartType DEF SetItems, InvoiceRow

LEMMA RecordKeyType ==
    ASSUME invoice \in [Invoices -> InvoiceRow], keyrow \in [Keys -> KeyRow \union {NoRow}],
           NEW k \in Keys, NEW op \in {"STATUS", "DRAFT_UPDATE"}, NEW i \in Invoices,
           NEW to \in InvoiceStatus, NEW items \in Carts \union {Empty},
           RecordKey(k, op, i, to, items)
    PROVE  keyrow' \in [Keys -> KeyRow \union {NoRow}]
<1>1. invoice[i].version + 1 \in Nat
  BY DEF InvoiceRow
<1>2. [op |-> op, inv |-> i, to |-> to, items |-> items, version |-> invoice[i].version + 1]
        \in KeyRow
  BY <1>1 DEF KeyRow
<1> QED
  BY <1>2 DEF RecordKey

LEMMA MoveGoodsType ==
    ASSUME stock \in [Products -> Int], ledger \in [Products -> [StockMovementReason -> Int]],
           moved \subseteq Invoices \X Products \X {"INVOICE_ISSUED", "INVOICE_CANCELLED"},
           NEW i \in Invoices, NEW items \in [Products -> 0 .. MaxInt], NEW sign \in {-1, 1},
           NEW reason \in {"INVOICE_ISSUED", "INVOICE_CANCELLED"},
           MoveGoods(i, items, sign, reason)
    PROVE  /\ stock' \in [Products -> Int]
           /\ ledger' \in [Products -> [StockMovementReason -> Int]]
           /\ moved' \subseteq Invoices \X Products \X {"INVOICE_ISSUED", "INVOICE_CANCELLED"}
<1>1. \A p \in Products : sign * items[p] \in Int
  BY MaxIntAssumption
<1>2. stock' \in [Products -> Int]
  BY <1>1 DEF MoveGoods
<1>3. ledger' \in [Products -> [StockMovementReason -> Int]]
  BY <1>1 DEF MoveGoods, StockMovementReason
<1>4. moved' \subseteq Invoices \X Products \X {"INVOICE_ISSUED", "INVOICE_CANCELLED"}
  BY DEF MoveGoods, ItemsOf
<1> QED
  BY <1>2, <1>3, <1>4

(***************************************************************************)
(* A row has a version from the start; an id without a row has none.       *)
(***************************************************************************)
VersionedRows ==
    \A i \in Invoices :
        IF invoice[i].status = "NONE" THEN invoice[i].version = 0 ELSE invoice[i].version >= 1

(***************************************************************************)
(* The tables hold values of their columns' types.                         *)
(***************************************************************************)
LEMMA TypeInit == Init => TypeOK
<1> SUFFICES ASSUME Init PROVE TypeOK
  OBVIOUS
<1>1. invoice \in [Invoices -> InvoiceRow]
  BY DraftsAssumption, EmptyType, CartType
  DEF Init, TablesInit, NoInvoice, DraftOf, InvoiceRow, InvoiceStatus
<1>2. stock \in [Products -> Int]
  BY InitialStockAssumption, MaxIntAssumption DEF Init, TablesInit
<1>3. ledger \in [Products -> [StockMovementReason -> Int]]
  BY InitialStockAssumption, MaxIntAssumption DEF Init, TablesInit
<1> QED
  BY <1>1, <1>2, <1>3 DEF Init, TablesInit, TypeOK, TablesTypeOK

LEMMA TypeNext == TypeOK /\ [Next]_tables => TypeOK'
<1> SUFFICES ASSUME TypeOK, [Next]_tables PROVE TypeOK'
  OBVIOUS
<1> USE DEF TypeOK, TablesTypeOK
<1>1. ASSUME NEW i \in Invoices, NEW items \in Carts, Create(i, items) PROVE TypeOK'
  <2>1. DraftOf(items) \in InvoiceRow
    BY CartType DEF DraftOf, InvoiceRow, InvoiceStatus
  <2> QED
    BY <1>1, <2>1 DEF Create
<1>2. ASSUME NEW i \in Invoices, NEW k \in Keys, NEW items \in Carts, EditDraft(i, k, items)
      PROVE  TypeOK'
  BY <1>2, SetItemsType, RecordKeyType DEF EditDraft, InvoiceStatus
<1>3. ASSUME NEW i \in Invoices, NEW k \in Keys, Issue(i, k) PROVE TypeOK'
  <2>1. invoice[i].items \in [Products -> 0 .. MaxInt]
    BY DEF InvoiceRow
  <2> QED
    BY <1>3, <2>1, SetStatusType, RecordKeyType, MoveGoodsType DEF Issue, InvoiceStatus
<1>4. ASSUME NEW i \in Invoices, NEW k \in Keys, NEW from \in InvoiceStatus,
             NEW to \in InvoiceStatus, Settle(i, k, from, to)
      PROVE  TypeOK'
  BY <1>4, SetStatusType, RecordKeyType DEF Settle
<1>5. ASSUME NEW i \in Invoices, NEW k \in Keys, CancelIssued(i, k) PROVE TypeOK'
  <2>1. invoice[i].items \in [Products -> 0 .. MaxInt]
    BY DEF InvoiceRow
  <2> QED
    BY <1>5, <2>1, SetStatusType, RecordKeyType, MoveGoodsType DEF CancelIssued, InvoiceStatus
<1>6. ASSUME NEW p \in Products, NEW quantity \in 0 .. MaxInt, Adjust(p, quantity) PROVE TypeOK'
  BY <1>6, MaxIntAssumption DEF Adjust, StockMovementReason
<1>7. CASE UNCHANGED tables
  BY <1>7 DEF tables
<1> QED
  BY <1>1, <1>2, <1>3, <1>4, <1>5, <1>6, <1>7 DEF Next

(***************************************************************************)
(* Type correctness of the contract.                                       *)
(***************************************************************************)
THEOREM ContractTypeCorrect == Spec => []TypeOK
<1> QED
  BY TypeInit, TypeNext, PTL DEF Spec
-----------------------------------------------------------------------------
(***************************************************************************)
(* The ledger.  Both ways the stock changes move one reason's total by     *)
(* just as much; nothing else touches either.                              *)
(***************************************************************************)
LEMMA MoveGoodsLedger ==
    ASSUME TablesTypeOK, StockMatchesLedger,
           NEW i \in Invoices, NEW items \in [Products -> 0 .. MaxInt], NEW sign \in {-1, 1},
           NEW reason \in {"INVOICE_ISSUED", "INVOICE_CANCELLED"},
           MoveGoods(i, items, sign, reason)
    PROVE  StockMatchesLedger'
<1> SUFFICES ASSUME NEW p \in Products
             PROVE  stock'[p] = ledger'[p]["INITIAL_STOCK"] + ledger'[p]["MANUAL_ADJUSTMENT"]
                        + ledger'[p]["INVOICE_ISSUED"] + ledger'[p]["INVOICE_CANCELLED"]
  BY DEF StockMatchesLedger
<1> DEFINE d == sign * items[p]
<1>1. d \in Int
  BY MaxIntAssumption
<1>2. stock'[p] = stock[p] + d
  BY DEF MoveGoods
<1>3. ledger'[p] = [ledger[p] EXCEPT ![reason] = @ + d]
  BY DEF MoveGoods
<1>4. stock[p] = ledger[p]["INITIAL_STOCK"] + ledger[p]["MANUAL_ADJUSTMENT"]
                    + ledger[p]["INVOICE_ISSUED"] + ledger[p]["INVOICE_CANCELLED"]
  BY DEF StockMatchesLedger
<1>5. ledger[p] \in [StockMovementReason -> Int]
  BY DEF TablesTypeOK
<1> HIDE DEF d
<1> QED
  BY <1>1, <1>2, <1>3, <1>4, <1>5 DEF StockMovementReason

LEMMA AdjustLedger ==
    ASSUME TablesTypeOK, StockMatchesLedger, NEW p \in Products, NEW quantity \in 0 .. MaxInt,
           Adjust(p, quantity)
    PROVE  StockMatchesLedger'
BY MaxIntAssumption DEF Adjust, StockMatchesLedger, TablesTypeOK, StockMovementReason

LEMMA LedgerInit == Init => StockMatchesLedger
<1> SUFFICES ASSUME Init, NEW p \in Products
             PROVE  stock[p] = ledger[p]["INITIAL_STOCK"] + ledger[p]["MANUAL_ADJUSTMENT"]
                        + ledger[p]["INVOICE_ISSUED"] + ledger[p]["INVOICE_CANCELLED"]
  BY DEF StockMatchesLedger
<1>1. stock[p] \in Nat /\ stock[p] = InitialStock[p]
  BY InitialStockAssumption, MaxIntAssumption DEF Init, TablesInit
<1>2. ledger[p] = [r \in StockMovementReason |->
                    IF r = "INITIAL_STOCK" THEN InitialStock[p] ELSE 0]
  BY DEF Init, TablesInit
<1> QED
  BY <1>1, <1>2 DEF StockMovementReason

LEMMA LedgerNext == TypeOK /\ StockMatchesLedger /\ [Next]_tables => StockMatchesLedger'
<1> SUFFICES ASSUME TypeOK, StockMatchesLedger, [Next]_tables PROVE StockMatchesLedger'
  OBVIOUS
<1>1. \A i \in Invoices : invoice[i].items \in [Products -> 0 .. MaxInt]
  BY DEF TypeOK, TablesTypeOK, InvoiceRow
<1>2. ASSUME UNCHANGED <<stock, ledger>> PROVE StockMatchesLedger'
  BY <1>2 DEF StockMatchesLedger
<1>3. ASSUME NEW i \in Invoices, NEW k \in Keys, Issue(i, k) PROVE StockMatchesLedger'
  BY <1>1, <1>3, MoveGoodsLedger DEF Issue, TypeOK
<1>4. ASSUME NEW i \in Invoices, NEW k \in Keys, CancelIssued(i, k) PROVE StockMatchesLedger'
  BY <1>1, <1>4, MoveGoodsLedger DEF CancelIssued, TypeOK
<1>5. ASSUME NEW p \in Products, NEW quantity \in 0 .. MaxInt, Adjust(p, quantity)
      PROVE  StockMatchesLedger'
  BY <1>5, AdjustLedger DEF TypeOK
<1> QED
  BY <1>2, <1>3, <1>4, <1>5 DEF Next, Create, EditDraft, Settle, tables

(***************************************************************************)
(* The quantity on hand of every product is the sum of its movements.      *)
(***************************************************************************)
THEOREM ContractLedger == Spec => []StockMatchesLedger
<1> QED
  BY LedgerInit, LedgerNext, ContractTypeCorrect, PTL DEF Spec
-----------------------------------------------------------------------------
LEMMA RangeInit == Init => StockInRange
BY InitialStockAssumption DEF Init, TablesInit, StockInRange

LEMMA RangeNext == TypeOK /\ StockInRange /\ [Next]_tables => StockInRange'
<1> SUFFICES ASSUME TypeOK, StockInRange, [Next]_tables PROVE StockInRange'
  OBVIOUS
<1>1. \A i \in Invoices, p \in Products : invoice[i].items[p] \in 0 .. MaxInt
  BY DEF TypeOK, TablesTypeOK, InvoiceRow
<1>2. ASSUME UNCHANGED stock PROVE StockInRange'
  BY <1>2 DEF StockInRange
<1>3. ASSUME NEW i \in Invoices, NEW k \in Keys, Issue(i, k) PROVE StockInRange'
  <2> SUFFICES ASSUME NEW p \in Products PROVE stock'[p] \in 0 .. MaxInt
    BY DEF StockInRange
  <2>1. stock'[p] = stock[p] - invoice[i].items[p]
    BY <1>1, <1>3, MaxIntAssumption DEF Issue, MoveGoods, StockInRange
  <2>2. stock[p] >= invoice[i].items[p]
    BY <1>3 DEF Issue, InStock
  <2> QED
    BY <1>1, <2>1, <2>2, MaxIntAssumption DEF StockInRange
<1>4. ASSUME NEW i \in Invoices, NEW k \in Keys, CancelIssued(i, k) PROVE StockInRange'
  <2> SUFFICES ASSUME NEW p \in Products PROVE stock'[p] \in 0 .. MaxInt
    BY DEF StockInRange
  <2>1. stock'[p] = stock[p] + invoice[i].items[p]
    BY <1>1, <1>4, MaxIntAssumption DEF CancelIssued, MoveGoods, StockInRange
  <2>2. stock[p] + invoice[i].items[p] <= MaxInt
    BY <1>4 DEF CancelIssued
  <2> QED
    BY <1>1, <2>1, <2>2, MaxIntAssumption DEF StockInRange
<1>5. ASSUME NEW p \in Products, NEW quantity \in 0 .. MaxInt, Adjust(p, quantity)
      PROVE  StockInRange'
  BY <1>5 DEF Adjust, StockInRange, TypeOK, TablesTypeOK
<1> QED
  BY <1>2, <1>3, <1>4, <1>5 DEF Next, Create, EditDraft, Settle, tables

(***************************************************************************)
(* No product goes below zero or above what its column holds.              *)
(***************************************************************************)
THEOREM ContractStockInRange == Spec => []StockInRange
<1> QED
  BY RangeInit, RangeNext, ContractTypeCorrect, PTL DEF Spec
-----------------------------------------------------------------------------
(***************************************************************************)
(* Movements and status.  Only the invoice a step is about is disturbed.   *)
(***************************************************************************)
MovementsMatch(i) ==
    LET items == ItemsOf(invoice[i].items)
        out   == MovementsOf(i, "INVOICE_ISSUED")
        back  == MovementsOf(i, "INVOICE_CANCELLED")
    IN  /\ invoice[i].status \in {"NONE", "DRAFT"} => out = {} /\ back = {}
        /\ invoice[i].status \in {"ISSUED", "PAID"} => out = items /\ back = {}
        /\ invoice[i].status = "CANCELLED" => out = back /\ out \in {{}, items}

LEMMA MovementsUndisturbed ==
    ASSUME NEW i \in Invoices, MovementsMatch(i), invoice'[i] = invoice[i],
           \A p \in Products, reason \in {"INVOICE_ISSUED", "INVOICE_CANCELLED"} :
                <<i, p, reason>> \in moved' <=> <<i, p, reason>> \in moved
    PROVE  MovementsMatch(i)'
BY DEF MovementsMatch, MovementsOf, ItemsOf

LEMMA MovementsInit == Init => MovementsMatchStatus
BY DEF Init, TablesInit, MovementsMatchStatus, MovementsOf, NoInvoice, DraftOf

LEMMA MovementsNext == TypeOK /\ MovementsMatchStatus /\ [Next]_tables => MovementsMatchStatus'
<1> SUFFICES ASSUME TypeOK, MovementsMatchStatus, [Next]_tables, NEW j \in Invoices
             PROVE  MovementsMatch(j)'
  BY DEF MovementsMatchStatus, MovementsMatch
<1>0. MovementsMatch(j)
  BY DEF MovementsMatchStatus, MovementsMatch
<1>t. invoice \in [Invoices -> InvoiceRow]
  BY DEF TypeOK, TablesTypeOK
<1>1. ASSUME NEW i \in Invoices, NEW items \in Carts, Create(i, items) PROVE MovementsMatch(j)'
  <2>1. CASE i = j
    BY <1>0, <1>1, <1>t, <2>1 DEF Create, DraftOf, MovementsMatch, MovementsOf
  <2>2. CASE i # j
    BY <1>0, <1>1, <1>t, <2>2, MovementsUndisturbed DEF Create
  <2> QED
    BY <2>1, <2>2
<1>2. ASSUME NEW i \in Invoices, NEW k \in Keys, NEW items \in Carts, EditDraft(i, k, items)
      PROVE  MovementsMatch(j)'
  <2>1. CASE i = j
    <3>1. invoice'[j].status = "DRAFT" /\ invoice[j].status = "DRAFT"
      BY <1>2, <1>t, <2>1 DEF EditDraft, SetItems, Editable, InvoiceRow
    <3> QED
      BY <1>0, <1>2, <3>1 DEF EditDraft, MovementsMatch, MovementsOf
  <2>2. CASE i # j
    BY <1>0, <1>2, <1>t, <2>2, MovementsUndisturbed DEF EditDraft, SetItems
  <2> QED
    BY <2>1, <2>2
<1>3. ASSUME NEW i \in Invoices, NEW k \in Keys, Issue(i, k) PROVE MovementsMatch(j)'
  <2>1. CASE i = j
    <3>1. /\ invoice[j].status = "DRAFT" /\ invoice'[j].status = "ISSUED"
          /\ invoice'[j].items = invoice[j].items
      BY <1>3, <1>t, <2>1 DEF Issue, SetStatusTo, InvoiceRow
    <3>2. MovementsOf(j, "INVOICE_ISSUED")' = ItemsOf(invoice[j].items)
      BY <1>0, <1>3, <2>1, <3>1 DEF Issue, MoveGoods, MovementsMatch, MovementsOf, ItemsOf
    <3>3. MovementsOf(j, "INVOICE_CANCELLED")' = {}
      BY <1>0, <1>3, <3>1 DEF Issue, MoveGoods, MovementsMatch, MovementsOf
    <3> QED
      BY <3>1, <3>2, <3>3 DEF MovementsMatch, ItemsOf
  <2>2. CASE i # j
    <3>1. invoice'[j] = invoice[j]
      BY <1>3, <1>t, <2>2 DEF Issue, SetStatusTo
    <3>2. \A p \in Products, reason \in {"INVOICE_ISSUED", "INVOICE_CANCELLED"} :
                <<j, p, reason>> \in moved' <=> <<j, p, reason>> \in moved
      BY <1>3, <2>2 DEF Issue, MoveGoods
    <3> QED
      BY <1>0, <3>1, <3>2, MovementsUndisturbed
  <2> QED
    BY <2>1, <2>2
<1>4. ASSUME NEW i \in Invoices, NEW k \in Keys, NEW from \in InvoiceStatus,
             NEW to \in InvoiceStatus, Settle(i, k, from, to)
      PROVE  MovementsMatch(j)'
  <2>1. CASE i = j
    <3>1. /\ <<invoice[j].status, invoice'[j].status>> \in Settlements
          /\ invoice'[j].items = invoice[j].items
      BY <1>4, <1>t, <2>1 DEF Settle, SetStatusTo, InvoiceRow
    <3>2. moved' = moved
      BY <1>4 DEF Settle
    <3> QED
      BY <1>0, <3>1, <3>2 DEF Settlements, MovementsMatch, MovementsOf, ItemsOf
  <2>2. CASE i # j
    BY <1>0, <1>4, <1>t, <2>2, MovementsUndisturbed DEF Settle, SetStatusTo
  <2> QED
    BY <2>1, <2>2
<1>5. ASSUME NEW i \in Invoices, NEW k \in Keys, CancelIssued(i, k) PROVE MovementsMatch(j)'
  <2>1. CASE i = j
    <3>1. /\ invoice[j].status = "ISSUED" /\ invoice'[j].status = "CANCELLED"
          /\ invoice'[j].items = invoice[j].items
      BY <1>5, <1>t, <2>1 DEF CancelIssued, SetStatusTo, InvoiceRow
    <3>2. MovementsOf(j, "INVOICE_ISSUED")' = ItemsOf(invoice[j].items)
      BY <1>0, <1>5, <3>1 DEF CancelIssued, MoveGoods, MovementsMatch, MovementsOf
    <3>3. MovementsOf(j, "INVOICE_CANCELLED")' = ItemsOf(invoice[j].items)
      BY <1>0, <1>5, <2>1, <3>1 DEF CancelIssued, MoveGoods, MovementsMatch, MovementsOf, ItemsOf
    <3> QED
      BY <3>1, <3>2, <3>3 DEF MovementsMatch, ItemsOf
  <2>2. CASE i # j
    <3>1. invoice'[j] = invoice[j]
      BY <1>5, <1>t, <2>2 DEF CancelIssued, SetStatusTo
    <3>2. \A p \in Products, reason \in {"INVOICE_ISSUED", "INVOICE_CANCELLED"} :
                <<j, p, reason>> \in moved' <=> <<j, p, reason>> \in moved
      BY <1>5, <2>2 DEF CancelIssued, MoveGoods
    <3> QED
      BY <1>0, <3>1, <3>2, MovementsUndisturbed
  <2> QED
    BY <2>1, <2>2
<1>6. ASSUME NEW p \in Products, NEW quantity \in 0 .. MaxInt, Adjust(p, quantity)
      PROVE  MovementsMatch(j)'
  BY <1>0, <1>6, MovementsUndisturbed DEF Adjust
<1>7. CASE UNCHANGED tables
  BY <1>0, <1>7, MovementsUndisturbed DEF tables
<1> QED
  BY <1>1, <1>2, <1>3, <1>4, <1>5, <1>6, <1>7 DEF Next

(***************************************************************************)
(* Goods leave once per line when an invoice is issued, come back once     *)
(* when it is cancelled, and at no other time.                             *)
(***************************************************************************)
THEOREM ContractMovements == Spec => []MovementsMatchStatus
<1> QED
  BY MovementsInit, MovementsNext, ContractTypeCorrect, PTL DEF Spec
-----------------------------------------------------------------------------
(***************************************************************************)
(* Versions and idempotency keys.  A step that takes invoice i from        *)
(* version v to v + 1 records a key that was unused, at v + 1; every other *)
(* invoice keeps its version and its keys.                                 *)
(***************************************************************************)
VersionsAccountedFor(i) ==
    /\ \A v \in 2 .. invoice[i].version : \E k \in KeysOf(i) : keyrow[k].version = v
    /\ \A k \in KeysOf(i) : keyrow[k].version \in 2 .. invoice[i].version
    /\ \A k, l \in KeysOf(i) : keyrow[k].version = keyrow[l].version => k = l

LEMMA VersionsUndisturbed ==
    ASSUME NEW i \in Invoices, VersionsAccountedFor(i), KeysOf(i)' = KeysOf(i),
           invoice'[i].version = invoice[i].version,
           \A k \in KeysOf(i) : keyrow'[k] = keyrow[k]
    PROVE  VersionsAccountedFor(i)'
BY DEF VersionsAccountedFor

LEMMA VersionRecorded ==
    ASSUME TypeOK, NEW i \in Invoices, NEW k \in Keys, NEW op, NEW to, NEW items,
           NEW j \in Invoices, VersionsAccountedFor(j), keyrow[k] = NoRow,
           invoice[i].version >= 1,
           [op |-> op, inv |-> i, to |-> to, items |-> items, version |-> invoice[i].version + 1]
                \in KeyRow,
           RecordKey(k, op, i, to, items),
           invoice'[i].version = invoice[i].version + 1,
           i # j => invoice'[j] = invoice[j]
    PROVE  VersionsAccountedFor(j)'
<1> DEFINE row == [op |-> op, inv |-> i, to |-> to, items |-> items,
                   version |-> invoice[i].version + 1]
<1>1. keyrow' = [keyrow EXCEPT ![k] = row]
  BY DEF RecordKey
<1>2. row # NoRow /\ row.inv = i /\ row.version = invoice[i].version + 1
  BY NoRowAssumption
<1>3. keyrow'[k] = row /\ \A l \in Keys : l # k => keyrow'[l] = keyrow[l]
  BY <1>1 DEF TypeOK, TablesTypeOK
<1>4. invoice[j].version \in Nat /\ invoice[i].version \in Nat
  BY DEF TypeOK, TablesTypeOK, InvoiceRow
<1>5. k \notin KeysOf(j)
  BY DEF KeysOf
<1> HIDE DEF row
<1>6. CASE i = j
  <2>1. KeysOf(j)' = KeysOf(j) \union {k}
    BY <1>2, <1>3, <1>6 DEF KeysOf
  <2>2. \A l \in KeysOf(j) : keyrow'[l] = keyrow[l]
    BY <1>3, <1>5 DEF KeysOf
  <2>3. keyrow'[k].version = invoice[j].version + 1 /\ invoice'[j].version = invoice[j].version + 1
    BY <1>2, <1>3, <1>6
  <2>4. \A v \in 2 .. invoice'[j].version : \E l \in KeysOf(j)' : keyrow'[l].version = v
    <3> SUFFICES ASSUME NEW v \in 2 .. invoice'[j].version
                 PROVE  \E l \in KeysOf(j)' : keyrow'[l].version = v
      OBVIOUS
    <3>1. CASE v = invoice[j].version + 1
      BY <2>1, <2>3, <3>1
    <3>2. CASE v # invoice[j].version + 1
      <4>1. v \in 2 .. invoice[j].version
        BY <1>4, <2>3, <3>2
      <4> QED
        BY <2>1, <2>2, <4>1 DEF VersionsAccountedFor
    <3> QED
      BY <3>1, <3>2
  <2>5. \A l \in KeysOf(j)' : keyrow'[l].version \in 2 .. invoice'[j].version
    BY <1>4, <1>6, <2>1, <2>2, <2>3 DEF VersionsAccountedFor
  <2>6. \A l \in KeysOf(j) : keyrow'[l].version # keyrow'[k].version
    BY <1>4, <2>2, <2>3 DEF VersionsAccountedFor
  <2>7. \A l, m \in KeysOf(j)' : keyrow'[l].version = keyrow'[m].version => l = m
    BY <2>1, <2>2, <2>6 DEF VersionsAccountedFor
  <2> QED
    BY <2>4, <2>5, <2>7 DEF VersionsAccountedFor
<1>7. CASE i # j
  <2>1. KeysOf(j)' = KeysOf(j)
    BY <1>2, <1>3, <1>5, <1>7 DEF KeysOf
  <2>2. \A l \in KeysOf(j) : keyrow'[l] = keyrow[l]
    BY <1>3, <1>5 DEF KeysOf
  <2> QED
    BY <1>7, <2>1, <2>2, VersionsUndisturbed
<1> QED
  BY <1>6, <1>7

VersionInv == VersionedRows /\ VersionsAccounted

LEMMA VersionInit == Init => VersionInv
BY DEF Init, TablesInit, VersionInv, VersionedRows, VersionsAccounted, KeysOf, NoInvoice, DraftOf

LEMMA VersionNext == TypeOK /\ VersionInv /\ [Next]_tables => VersionInv'
<1> SUFFICES ASSUME TypeOK, VersionInv, [Next]_tables PROVE VersionInv'
  OBVIOUS
<1>t. /\ invoice \in [Invoices -> InvoiceRow]
      /\ \A i \in Invoices : invoice[i].version \in Nat
  BY DEF TypeOK, TablesTypeOK, InvoiceRow
<1>a. \A j \in Invoices : VersionsAccountedFor(j)
  BY DEF VersionInv, VersionsAccounted, VersionsAccountedFor
<1>b. ASSUME \A j \in Invoices : VersionsAccountedFor(j)' PROVE VersionsAccounted'
  BY <1>b DEF VersionsAccounted, VersionsAccountedFor
<1>c. ASSUME NEW i \in Invoices, NEW k \in Keys, NEW op \in {"STATUS", "DRAFT_UPDATE"},
             NEW to \in InvoiceStatus, NEW items \in Carts \union {Empty},
             Unused(k), RecordKey(k, op, i, to, items),
             invoice[i].status # "NONE", invoice'[i].status # "NONE",
             invoice'[i].version = invoice[i].version + 1,
             \A j \in Invoices : i # j => invoice'[j] = invoice[j]
      PROVE  VersionInv'
  <2>1. invoice[i].version >= 1
    BY <1>c DEF VersionInv, VersionedRows
  <2>2. [op |-> op, inv |-> i, to |-> to, items |-> items, version |-> invoice[i].version + 1]
            \in KeyRow
    BY <1>t DEF KeyRow
  <2>3. \A j \in Invoices : VersionsAccountedFor(j)'
    BY <1>a, <1>c, <2>1, <2>2, VersionRecorded DEF Unused
  <2>4. VersionedRows'
    BY <1>c, <1>t, <2>1 DEF VersionInv, VersionedRows
  <2> QED
    BY <1>b, <2>3, <2>4 DEF VersionInv
<1>1. ASSUME NEW i \in Invoices, NEW items \in Carts, Create(i, items) PROVE VersionInv'
  <2>1. keyrow' = keyrow /\ \A j \in Invoices : j # i => invoice'[j] = invoice[j]
    BY <1>1, <1>t DEF Create
  <2>2. /\ invoice'[i].version = 1 /\ invoice'[i].status = "DRAFT"
        /\ invoice[i].status = "NONE" /\ invoice[i].version = 0
    BY <1>1, <1>t DEF Create, DraftOf, VersionInv, VersionedRows
  <2>3. KeysOf(i) = {}
    BY <1>a, <2>2 DEF VersionsAccountedFor
  <2>4. \A j \in Invoices : KeysOf(j)' = KeysOf(j)
    BY <2>1 DEF KeysOf
  <2>5. VersionsAccountedFor(i)'
    BY <2>2, <2>3, <2>4 DEF VersionsAccountedFor
  <2>6. \A j \in Invoices : j # i => VersionsAccountedFor(j)'
    BY <1>a, <2>1, <2>4, VersionsUndisturbed
  <2>7. VersionedRows'
    BY <2>1, <2>2 DEF VersionInv, VersionedRows
  <2> QED
    BY <1>b, <2>5, <2>6, <2>7 DEF VersionInv
<1>2. ASSUME NEW i \in Invoices, NEW k \in Keys, NEW items \in Carts, EditDraft(i, k, items)
      PROVE  VersionInv'
  <2>1. /\ invoice[i].status # "NONE" /\ invoice'[i].status # "NONE"
        /\ invoice'[i].version = invoice[i].version + 1
        /\ \A j \in Invoices : i # j => invoice'[j] = invoice[j]
    BY <1>2, <1>t DEF EditDraft, Editable, SetItems, InvoiceRow
  <2> QED
    BY <1>2, <1>c, <2>1 DEF EditDraft, InvoiceStatus
<1>3. ASSUME NEW i \in Invoices, NEW k \in Keys, NEW from \in {"DRAFT", "ISSUED"},
             NEW to \in InvoiceStatus, invoice[i].status = from, Unused(k),
             SetStatusTo(i, to), RecordKey(k, "STATUS", i, to, Empty)
      PROVE  VersionInv'
  <2>1. /\ invoice'[i].version = invoice[i].version + 1 /\ invoice'[i].status # "NONE"
        /\ \A j \in Invoices : i # j => invoice'[j] = invoice[j]
    BY <1>3, <1>t DEF SetStatusTo, InvoiceRow, InvoiceStatus
  <2> QED
    BY <1>3, <1>c, <2>1
<1>4. ASSUME NEW i \in Invoices, NEW k \in Keys, Issue(i, k) PROVE VersionInv'
  BY <1>3, <1>4 DEF Issue, InvoiceStatus
<1>5. ASSUME NEW i \in Invoices, NEW k \in Keys, NEW from \in InvoiceStatus,
             NEW to \in InvoiceStatus, Settle(i, k, from, to)
      PROVE  VersionInv'
  BY <1>3, <1>5 DEF Settle, Settlements
<1>6. ASSUME NEW i \in Invoices, NEW k \in Keys, CancelIssued(i, k) PROVE VersionInv'
  BY <1>3, <1>6 DEF CancelIssued, InvoiceStatus
<1>7. ASSUME UNCHANGED <<invoice, keyrow>> PROVE VersionInv'
  BY <1>7 DEF VersionInv, VersionedRows, VersionsAccounted, KeysOf
<1> QED
  BY <1>1, <1>2, <1>4, <1>5, <1>6, <1>7 DEF Next, Adjust, tables

(***************************************************************************)
(* Every version of an invoice after the first is recorded under exactly   *)
(* one key.                                                                *)
(***************************************************************************)
THEOREM ContractVersions == Spec => []VersionsAccounted
<1>1. VersionInv => VersionsAccounted
  BY DEF VersionInv
<1> QED
  BY VersionInit, VersionNext, ContractTypeCorrect, <1>1, PTL DEF Spec
-----------------------------------------------------------------------------
(***************************************************************************)
(* Goods out.  The issued and paid invoices are finitely many, whatever    *)
(* the set of ids, so their quantities have a sum.                         *)
(***************************************************************************)
OutInv == IsFiniteSet(GoodsOut) /\ OutstandingMatches

Lines(p) == [i \in Invoices |-> invoice[i].items[p]]

LEMMA OutstandingInt ==
    ASSUME TypeOK, IsFiniteSet(GoodsOut), NEW p \in Products
    PROVE  Outstanding(p) \in Int
<1>1. \A i \in GoodsOut : Lines(p)[i] \in Int
  BY MaxIntAssumption DEF Lines, GoodsOut, TypeOK, TablesTypeOK, InvoiceRow
<1> QED
  BY <1>1, SumInt DEF Outstanding, Lines

LEMMA OutInit == Init => OutInv
<1> SUFFICES ASSUME Init PROVE OutInv
  OBVIOUS
<1>1. GoodsOut = {}
  BY DEF Init, TablesInit, GoodsOut, NoInvoice, DraftOf
<1>2. \A p \in Products : Outstanding(p) = 0
  BY <1>1, SumEmpty DEF Outstanding
<1>3. \A p \in Products : ledger[p]["INVOICE_ISSUED"] = 0 /\ ledger[p]["INVOICE_CANCELLED"] = 0
  BY DEF Init, TablesInit, StockMovementReason
<1> QED
  BY <1>1, <1>2, <1>3, FS_EmptySet DEF OutInv, OutstandingMatches

(* Nothing moves: the same invoices are out, with the same lines.          *)
LEMMA OutUndisturbed ==
    ASSUME OutInv, GoodsOut' = GoodsOut,
           \A i \in GoodsOut : invoice'[i].items = invoice[i].items,
           \A p \in Products : /\ ledger'[p]["INVOICE_ISSUED"] = ledger[p]["INVOICE_ISSUED"]
                               /\ ledger'[p]["INVOICE_CANCELLED"] = ledger[p]["INVOICE_CANCELLED"]
    PROVE  OutInv'
<1>1. ASSUME NEW p \in Products PROVE Outstanding(p)' = Outstanding(p)
  <2>1. \A i \in GoodsOut : Lines(p)[i] = Lines(p)'[i]
    BY DEF Lines, GoodsOut
  <2>2. SumFunctionOnSet(Lines(p)', GoodsOut) = SumFunctionOnSet(Lines(p), GoodsOut)
    BY <2>1, SumSame DEF OutInv
  <2> QED
    BY <2>2 DEF Outstanding, Lines
<1> QED
  BY <1>1 DEF OutInv, OutstandingMatches

(* An invoice goes out, or comes back: the other lines stay the same.      *)
LEMMA OutMoved ==
    ASSUME TypeOK, OutInv, TypeOK', NEW i \in Invoices, NEW sign \in {-1, 1},
           NEW reason \in {"INVOICE_ISSUED", "INVOICE_CANCELLED"},
           MoveGoods(i, invoice[i].items, sign, reason),
           \A j \in Invoices : invoice'[j].items = invoice[j].items,
           sign = -1 => i \notin GoodsOut /\ GoodsOut' = GoodsOut \union {i},
           sign = 1 => i \in GoodsOut /\ GoodsOut' = GoodsOut \ {i}
    PROVE  OutInv'
<1>1. IsFiniteSet(GoodsOut) /\ IsFiniteSet(GoodsOut')
  BY FS_AddElement, FS_RemoveElement DEF OutInv
<1>2. ASSUME NEW p \in Products PROVE Outstanding(p)' = Outstanding(p) - sign * invoice[i].items[p]
  <2>1. \A j \in Invoices : Lines(p)[j] \in Int
    BY MaxIntAssumption DEF Lines, TypeOK, TablesTypeOK, InvoiceRow
  <2>2. Lines(p)' = Lines(p) /\ Lines(p)[i] = invoice[i].items[p]
    BY DEF Lines
  <2>3. Outstanding(p)' = SumFunctionOnSet(Lines(p), GoodsOut')
    BY <2>2 DEF Outstanding, Lines
  <2>4. Outstanding(p) = SumFunctionOnSet(Lines(p), GoodsOut)
    BY DEF Outstanding, Lines
  <2>5. Outstanding(p) \in Int /\ SumFunctionOnSet(Lines(p), GoodsOut') \in Int
    BY <1>1, <2>1, <2>4, SumInt DEF GoodsOut
  <2>6. CASE sign = -1
    <3>1. SumFunctionOnSet(Lines(p), GoodsOut') = SumFunctionOnSet(Lines(p), GoodsOut) + Lines(p)[i]
      BY <1>1, <2>1, <2>6, SumAdd DEF GoodsOut
    <3> QED
      BY <2>1, <2>2, <2>3, <2>4, <2>5, <2>6, <3>1
  <2>7. CASE sign = 1
    <3>1. SumFunctionOnSet(Lines(p), GoodsOut) = Lines(p)[i] + SumFunctionOnSet(Lines(p), GoodsOut')
      BY <1>1, <2>1, <2>7, SumRemove DEF GoodsOut
    <3> QED
      BY <2>1, <2>2, <2>3, <2>4, <2>5, <2>7, <3>1
  <2> QED
    BY <2>6, <2>7
<1>3. ASSUME NEW p \in Products
      PROVE  ledger'[p]["INVOICE_ISSUED"] + ledger'[p]["INVOICE_CANCELLED"] = - Outstanding(p)'
  <2> DEFINE d == sign * invoice[i].items[p]
  <2>1. d \in Int /\ Outstanding(p) \in Int
    BY <1>1, OutstandingInt, MaxIntAssumption DEF TypeOK, TablesTypeOK, InvoiceRow
  <2>2. ledger[p] \in [StockMovementReason -> Int] /\ ledger'[p] = [ledger[p] EXCEPT ![reason] = @ + d]
    BY DEF MoveGoods, TypeOK, TablesTypeOK
  <2>3. ledger[p]["INVOICE_ISSUED"] + ledger[p]["INVOICE_CANCELLED"] = - Outstanding(p)
    BY DEF OutInv, OutstandingMatches
  <2>4. Outstanding(p)' = Outstanding(p) - d
    BY <1>2
  <2> HIDE DEF d
  <2> QED
    BY <2>1, <2>2, <2>3, <2>4 DEF StockMovementReason
<1> QED
  BY <1>1, <1>3 DEF OutInv, OutstandingMatches

LEMMA OutNext == TypeOK /\ OutInv /\ [Next]_tables => OutInv'
<1> SUFFICES ASSUME TypeOK, OutInv, [Next]_tables PROVE OutInv'
  OBVIOUS
<1>t. invoice \in [Invoices -> InvoiceRow] /\ TypeOK'
  BY TypeNext DEF TypeOK, TablesTypeOK
<1>1. ASSUME NEW i \in Invoices, NEW items \in Carts, Create(i, items) PROVE OutInv'
  <2>1. i \notin GoodsOut /\ GoodsOut' = GoodsOut /\ \A j \in GoodsOut : invoice'[j] = invoice[j]
    BY <1>1, <1>t DEF Create, DraftOf, GoodsOut
  <2> QED
    BY <1>1, <2>1, OutUndisturbed DEF Create
<1>2. ASSUME NEW i \in Invoices, NEW k \in Keys, NEW items \in Carts, EditDraft(i, k, items)
      PROVE  OutInv'
  <2>1. i \notin GoodsOut /\ GoodsOut' = GoodsOut /\ \A j \in GoodsOut : invoice'[j] = invoice[j]
    BY <1>2, <1>t DEF EditDraft, Editable, SetItems, GoodsOut, InvoiceRow
  <2> QED
    BY <1>2, <2>1, OutUndisturbed DEF EditDraft
<1>3. ASSUME NEW i \in Invoices, NEW k \in Keys, Issue(i, k) PROVE OutInv'
  <2>1. /\ i \notin GoodsOut /\ GoodsOut' = GoodsOut \union {i}
        /\ \A j \in Invoices : invoice'[j].items = invoice[j].items
    BY <1>3, <1>t DEF Issue, SetStatusTo, GoodsOut, InvoiceRow
  <2> QED
    BY <1>3, <1>t, <2>1, OutMoved DEF Issue
<1>4. ASSUME NEW i \in Invoices, NEW k \in Keys, NEW from \in InvoiceStatus,
             NEW to \in InvoiceStatus, Settle(i, k, from, to)
      PROVE  OutInv'
  <2>1. GoodsOut' = GoodsOut /\ \A j \in Invoices : invoice'[j].items = invoice[j].items
    BY <1>4, <1>t DEF Settle, Settlements, SetStatusTo, GoodsOut, InvoiceRow
  <2> QED
    BY <1>4, <2>1, OutUndisturbed DEF Settle, GoodsOut
<1>5. ASSUME NEW i \in Invoices, NEW k \in Keys, CancelIssued(i, k) PROVE OutInv'
  <2>1. /\ i \in GoodsOut /\ GoodsOut' = GoodsOut \ {i}
        /\ \A j \in Invoices : invoice'[j].items = invoice[j].items
    BY <1>5, <1>t DEF CancelIssued, SetStatusTo, GoodsOut, InvoiceRow
  <2> QED
    BY <1>5, <1>t, <2>1, OutMoved DEF CancelIssued
<1>6. ASSUME NEW p \in Products, NEW quantity \in 0 .. MaxInt, Adjust(p, quantity) PROVE OutInv'
  <2>1. \A q \in Products : /\ ledger'[q]["INVOICE_ISSUED"] = ledger[q]["INVOICE_ISSUED"]
                            /\ ledger'[q]["INVOICE_CANCELLED"] = ledger[q]["INVOICE_CANCELLED"]
    BY <1>6 DEF Adjust, TypeOK, TablesTypeOK, StockMovementReason
  <2> QED
    BY <1>6, <2>1, OutUndisturbed DEF Adjust, GoodsOut
<1>7. CASE UNCHANGED tables
  BY <1>7, OutUndisturbed DEF tables, GoodsOut
<1> QED
  BY <1>1, <1>2, <1>3, <1>4, <1>5, <1>6, <1>7 DEF Next

(***************************************************************************)
(* The issue and cancel movements of a product add up to minus what is on  *)
(* the issued and paid invoices.                                           *)
(***************************************************************************)
THEOREM ContractOutstanding == Spec => []OutstandingMatches
<1>1. OutInv => OutstandingMatches
  BY DEF OutInv
<1> QED
  BY OutInit, OutNext, ContractTypeCorrect, <1>1, PTL DEF Spec
-----------------------------------------------------------------------------
(***************************************************************************)
(* What a reader knows after its first statement, of the invoice as it is  *)
(* now: its row, if nothing was committed since, or else an older version  *)
(* of it, and a settled invoice stays settled.  After its second statement *)
(* it also knows the lines, under the same conditions.                     *)
(***************************************************************************)
RowKnown(r, i) ==
    /\ invoice[i].status # "NONE"
    /\ shown[r][i].version <= invoice[i].version
    /\ shown[r][i].version = invoice[i].version => shown[r][i].status = invoice[i].status
    /\ shown[r][i].status # "DRAFT" => invoice[i].status # "DRAFT"

LinesKnown(r, i) ==
    shown[r][i].version = invoice[i].version \/ shown[r][i].status # "DRAFT"
        => lines[r][i] = invoice[i].items

Known(r, i) ==
    /\ next[r] > 1 /\ shown[r][i] # NoRow => RowKnown(r, i)
    /\ Answered(r, i) => LinesKnown(r, i)

ReadsInv == ReadsTypeOK /\ VersionInv /\ \A r \in Readers, i \in Invoices : Known(r, i)

(***************************************************************************)
(* What the others may do to an invoice: leave it, change it and move its  *)
(* version on, and never touch the lines of one that is settled.           *)
(***************************************************************************)
InvoiceKept(i) ==
    \/ invoice'[i] = invoice[i]
    \/ invoice[i].status = "NONE"
    \/ /\ invoice'[i].status # "NONE"
       /\ invoice'[i].version > invoice[i].version
       /\ invoice[i].status # "DRAFT" =>
            invoice'[i].status # "DRAFT" /\ invoice'[i].items = invoice[i].items

LEMMA NextKeeps ==
    ASSUME TablesTypeOK, Next
    PROVE  \A i \in Invoices : InvoiceKept(i)
<1> SUFFICES ASSUME NEW j \in Invoices PROVE InvoiceKept(j)
  OBVIOUS
<1>0. invoice \in [Invoices -> InvoiceRow] /\ \A i \in Invoices : invoice[i].version \in Nat
  BY DEF TablesTypeOK, InvoiceRow
<1>1. ASSUME NEW i \in Invoices, NEW items \in Carts, Create(i, items) PROVE InvoiceKept(j)
  BY <1>0, <1>1 DEF Create, InvoiceKept
<1>2. ASSUME NEW i \in Invoices, NEW k \in Keys, NEW items \in Carts, EditDraft(i, k, items)
      PROVE  InvoiceKept(j)
  BY <1>0, <1>2 DEF EditDraft, Editable, SetItems, InvoiceKept, InvoiceRow
<1>3. ASSUME NEW i \in Invoices, NEW to \in {"ISSUED", "PAID", "CANCELLED"}, SetStatusTo(i, to)
      PROVE  InvoiceKept(j)
  BY <1>0, <1>3 DEF SetStatusTo, InvoiceKept, InvoiceRow
<1>4. ASSUME NEW i \in Invoices, NEW k \in Keys, Issue(i, k) PROVE InvoiceKept(j)
  BY <1>3, <1>4 DEF Issue
<1>5. ASSUME NEW i \in Invoices, NEW k \in Keys, NEW from \in InvoiceStatus,
             NEW to \in InvoiceStatus, Settle(i, k, from, to)
      PROVE  InvoiceKept(j)
  BY <1>3, <1>5 DEF Settle, Settlements
<1>6. ASSUME NEW i \in Invoices, NEW k \in Keys, CancelIssued(i, k) PROVE InvoiceKept(j)
  BY <1>3, <1>6 DEF CancelIssued
<1>7. ASSUME NEW p \in Products, NEW quantity \in 0 .. MaxInt, Adjust(p, quantity)
      PROVE  InvoiceKept(j)
  BY <1>7 DEF Adjust, InvoiceKept
<1> QED
  BY <1>1, <1>2, <1>4, <1>5, <1>6, <1>7 DEF Next

LEMMA ReadsInitInv == ReadsInit => ReadsInv
<1> SUFFICES ASSUME ReadsInit PROVE ReadsInv
  OBVIOUS
<1>1. TablesTypeOK
  BY TypeInit DEF ReadsInit, TypeOK
<1>2. VersionInv
  BY VersionInit DEF ReadsInit
<1> QED
  BY <1>1, <1>2, EmptyType DEF ReadsInit, ReadsInv, ReadsTypeOK, Known, Answered

(* Nothing that a reader knows is made untrue by the others.               *)
LEMMA OthersKeep ==
    ASSUME ReadsInv, Next, UNCHANGED reads
    PROVE  ReadsInv'
<1>1. TablesTypeOK'
  BY TypeNext DEF ReadsInv, ReadsTypeOK, TypeOK
<1>4. VersionInv'
  BY VersionNext DEF ReadsInv, ReadsTypeOK, TypeOK
<1>2. ReadsTypeOK'
  BY <1>1 DEF ReadsInv, ReadsTypeOK, reads
<1>3. ASSUME NEW r \in Readers, NEW i \in Invoices PROVE Known(r, i)'
  <2>1. InvoiceKept(i)
    BY NextKeeps DEF ReadsInv, ReadsTypeOK
  <2>2. invoice[i].version \in Nat /\ invoice'[i].version \in Nat
    BY <1>1 DEF ReadsInv, ReadsTypeOK, TablesTypeOK, InvoiceRow
  <2>3. shown[r][i] # NoRow => shown[r][i].version \in Nat
    BY DEF ReadsInv, ReadsTypeOK, Header
  <2>4. shown' = shown /\ lines' = lines /\ next' = next /\ next[r] \in 1 .. 3
    BY DEF reads, ReadsInv, ReadsTypeOK
  <2>5. Known(r, i)
    BY DEF ReadsInv
  <2>6. CASE shown[r][i] = NoRow
    BY <2>4, <2>6 DEF Known, Answered
  <2>7. CASE shown[r][i] # NoRow /\ next[r] > 1
    BY <2>1, <2>2, <2>3, <2>4, <2>5, <2>7
       DEF Known, Answered, RowKnown, LinesKnown, InvoiceKept
  <2>8. CASE next[r] = 1
    BY <2>4, <2>8 DEF Known, Answered
  <2> QED
    BY <2>4, <2>6, <2>7, <2>8
<1> QED
  BY <1>2, <1>3, <1>4 DEF ReadsInv

LEMMA TablesUnchanged ==
    ASSUME UNCHANGED tables, TablesTypeOK, VersionInv
    PROVE  TablesTypeOK' /\ VersionInv'
<1>1. TablesTypeOK'
  BY DEF TablesTypeOK, tables
<1>2. VersionInv'
  BY VersionNext DEF TypeOK
<1> QED
  BY <1>1, <1>2

LEMMA StatementAt ==
    ASSUME next \in [Readers -> 1 .. 3], NEW s \in Readers
    PROVE  /\ At(s, "invoices") => next[s] = 1 /\ next' = [next EXCEPT ![s] = 2]
           /\ At(s, "items") => next[s] = 2 /\ next' = [next EXCEPT ![s] = 3]
<1>1. Statements[1] = "invoices" /\ Statements[2] = "items"
  BY DEF Statements
<1>2. next[s] <= 2 => next[s] = 1 \/ next[s] = 2
  OBVIOUS
<1>3. next[s] = 1 => next[s] + 1 = 2
  OBVIOUS
<1>4. next[s] = 2 => next[s] + 1 = 3
  OBVIOUS
<1> QED
  BY <1>1, <1>2, <1>3, <1>4 DEF At

LEMMA ReaderKeeps ==
    ASSUME ReadsInv, NEW s \in Readers, ReadInvoices(s) \/ ReadItems(s)
    PROVE  ReadsInv'
<1>01. UNCHANGED tables /\ TablesTypeOK /\ VersionInv
  BY DEF ReadInvoices, ReadItems, ReadsInv, ReadsTypeOK
<1>02. TablesTypeOK' /\ VersionInv'
  BY <1>01, TablesUnchanged
<1>0. /\ TablesTypeOK' /\ VersionInv' /\ invoice' = invoice
      /\ invoice \in [Invoices -> InvoiceRow]
      /\ \A i \in Invoices : invoice[i].version \in Nat
  BY <1>01, <1>02 DEF TablesTypeOK, tables, InvoiceRow
<1>1. CASE ReadInvoices(s)
  <2>1. PICK asked \in SUBSET Invoices :
            shown' = [shown EXCEPT ![s] = [i \in Invoices |->
                IF i \in Found(asked)
                THEN [status |-> invoice[i].status, version |-> invoice[i].version]
                ELSE NoRow]]
    BY <1>1 DEF ReadInvoices
  <2>2. next[s] = 1 /\ next' = [next EXCEPT ![s] = 2] /\ lines' = lines
    BY <1>1, StatementAt DEF ReadInvoices, ReadsInv, ReadsTypeOK
  <2>3. ASSUME NEW i \in Invoices, i \in Found(asked)
        PROVE  [status |-> invoice[i].status, version |-> invoice[i].version] \in Header
    <3>1. invoice[i].status \in InvoiceStatus /\ invoice[i].version >= 1
      BY <1>0, <2>3 DEF Found, InvoiceRow, ReadsInv, VersionInv, VersionedRows
    <3> QED
      BY <1>0, <3>1 DEF Header
  <2>4. ReadsTypeOK'
    BY <1>0, <2>1, <2>2, <2>3 DEF ReadsInv, ReadsTypeOK
  <2>5. ASSUME NEW r \in Readers, NEW i \in Invoices PROVE Known(r, i)'
    <3>1. CASE r = s
      <4>1. next'[r] = 2 /\ shown'[r][i] = IF i \in Found(asked)
                THEN [status |-> invoice[i].status, version |-> invoice[i].version]
                ELSE NoRow
        BY <2>1, <2>2, <3>1 DEF ReadsInv, ReadsTypeOK
      <4> QED
        BY <1>0, <4>1 DEF Known, Answered, RowKnown, Found
    <3>2. CASE r # s
      <4>1. next'[r] = next[r] /\ shown'[r] = shown[r] /\ lines'[r] = lines[r] /\ Known(r, i)
        BY <2>1, <2>2, <3>2 DEF ReadsInv, ReadsTypeOK
      <4> QED
        BY <1>0, <4>1 DEF Known, Answered, RowKnown, LinesKnown
    <3> QED
      BY <3>1, <3>2
  <2> QED
    BY <1>0, <2>4, <2>5 DEF ReadsInv
<1>2. CASE ReadItems(s)
  <2>1. /\ next[s] = 2 /\ next' = [next EXCEPT ![s] = 3] /\ shown' = shown
        /\ lines' = [lines EXCEPT ![s] = [i \in Invoices |-> invoice[i].items]]
    BY <1>2, StatementAt DEF ReadItems, ReadsInv, ReadsTypeOK
  <2>2. ReadsTypeOK'
    BY <1>0, <2>1 DEF ReadsInv, ReadsTypeOK, InvoiceRow
  <2>3. ASSUME NEW r \in Readers, NEW i \in Invoices PROVE Known(r, i)'
    <3>0. Known(r, i) /\ shown'[r][i] = shown[r][i]
      BY <2>1 DEF ReadsInv
    <3>1. CASE r = s
      BY <1>0, <2>1, <3>0, <3>1 DEF Known, Answered, RowKnown, LinesKnown, ReadsInv, ReadsTypeOK
    <3>2. CASE r # s
      <4>1. next'[r] = next[r] /\ lines'[r] = lines[r]
        BY <2>1, <3>2 DEF ReadsInv, ReadsTypeOK
      <4> QED
        BY <1>0, <3>0, <4>1 DEF Known, Answered, RowKnown, LinesKnown
    <3> QED
      BY <3>1, <3>2
  <2> QED
    BY <1>0, <2>2, <2>3 DEF ReadsInv
<1> QED
  BY <1>1, <1>2

LEMMA ReadsInvNext == ReadsInv /\ [ReadsNext]_<<tables, reads>> => ReadsInv'
<1>1. ASSUME ReadsInv, UNCHANGED <<tables, reads>> PROVE ReadsInv'
  <2>1. TablesTypeOK' /\ VersionInv'
    BY <1>1, TablesUnchanged DEF ReadsInv, ReadsTypeOK
  <2> QED
    BY <1>1, <2>1 DEF ReadsInv, ReadsTypeOK, tables, reads, Known, Answered, RowKnown, LinesKnown
<1> QED
  BY <1>1, OthersKeep, ReaderKeeps DEF ReadsNext

LEMMA ReadsInvariant == ReadsSpec => []ReadsInv
BY ReadsInitInv, ReadsInvNext, PTL DEF ReadsSpec
-----------------------------------------------------------------------------
(***************************************************************************)
(* Readers keep their types: an answer shows invoices that exist.          *)
(***************************************************************************)
THEOREM ReadsTypeCorrect == ReadsSpec => []ReadsTypeOK
<1>1. ReadsInv => ReadsTypeOK
  BY DEF ReadsInv
<1> QED
  BY <1>1, ReadsInvariant, PTL

(***************************************************************************)
(* A client that sends the version it was shown in If-Match, and whose     *)
(* mutation is accepted, acts on the lines it was shown.                   *)
(***************************************************************************)
THEOREM ReadsShownIsCurrent == ReadsSpec => []ShownIsCurrent
<1>1. ReadsInv => ShownIsCurrent
  BY DEF ReadsInv, ReadsTypeOK, Known, Answered, RowKnown, LinesKnown, ShownIsCurrent
<1> QED
  BY <1>1, ReadsInvariant, PTL

(***************************************************************************)
(* An answer that shows an invoice settled shows its final lines.          *)
(***************************************************************************)
THEOREM ReadsSettledIsWhole == ReadsSpec => []SettledIsWhole
<1>1. ReadsInv => SettledIsWhole
  BY DEF ReadsInv, Known, LinesKnown, SettledIsWhole
<1> QED
  BY <1>1, ReadsInvariant, PTL
=============================================================================
