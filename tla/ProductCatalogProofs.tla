------------------------ MODULE ProductCatalogProofs ------------------------
(***************************************************************************)
(* Proofs about the product catalogue, for every set of users, ids, SKUs   *)
(* and requests.                                                           *)
(***************************************************************************)
EXTENDS ProductCatalog, TLAPS

LEMMA AskType ==
    ASSUME NEW a \in Asks
    PROVE  /\ a.op \in {"CREATE", "UPDATE", "DELETE"} /\ a.user \in Users
           /\ a.op = "CREATE" => a.sku \in Skus
           /\ a.op = "UPDATE" => a.id \in Ids /\ a.sku \in Skus \union {Keep, Nothing}
           /\ a.op = "DELETE" => a.id \in Ids
BY AsksAssumption DEF Ask

(***************************************************************************)
(* The columns of the requests, whatever they are answered.                *)
(***************************************************************************)
RequestsType ==
    /\ pc \in [Requests -> {"start", "write", "done"}]
    /\ ask \in [Requests -> Asks]
    /\ seen \in [Requests -> Nat]
    /\ reply \in [Requests -> Kind]

LEMMA ReplyType ==
    ASSUME RequestsType, NEW r \in Requests, NEW kind \in Kind, Reply(r, kind)
    PROVE  RequestsType'
BY DEF RequestsType, Reply

LEMMA RefuseType ==
    ASSUME TypeOK, NEW r \in Requests, NEW kind \in Kind, Refuse(r, kind)
    PROVE  TypeOK' /\ product' = product
BY ReplyType DEF TypeOK, RequestsType, Refuse

(***************************************************************************)
(* Every step leaves the products alone, or is one of the three writes.    *)
(***************************************************************************)
Created(r, p) ==
    /\ ask[r].op = "CREATE"
    /\ ~ Taken(ask[r].user, Sku(r), {})
    /\ product[p] = NoRow
    /\ product' = [product EXCEPT ![p] =
            [owner |-> ask[r].user, sku |-> Sku(r), updatedAt |-> 0, deleted |-> FALSE]]

Updated(r, p) ==
    /\ ask[r].op = "UPDATE" /\ ask[r].sku \in Skus \union {Keep}
    /\ AsRead(r, p)
    /\ ~ Taken(ask[r].user, NewSku(r, p), {p})
    /\ product' = [product EXCEPT ![p].sku = NewSku(r, p), ![p].updatedAt = @ + 1]

Deleted(p) ==
    /\ Active(p)
    /\ product' = [product EXCEPT ![p].deleted = TRUE, ![p].updatedAt = @ + 1]

(***************************************************************************)
(* An update that has read its row names a field.                          *)
(***************************************************************************)
BodyChecked == \A r \in Requests : pc[r] = "write" => ask[r].sku # Nothing

LEMMA WriteCases ==
    ASSUME TypeOK, BodyChecked, [Next]_vars
    PROVE  \/ product' = product
           \/ \E r \in Requests, p \in Ids : Created(r, p) \/ Updated(r, p)
           \/ \E p \in Ids : Deleted(p)
<1>1. ASSUME NEW r \in Requests, Create(r)
      PROVE  product' = product \/ \E p \in Ids : Created(r, p)
  BY <1>1 DEF Create, Refuse, At, Created
<1>2. ASSUME NEW r \in Requests, UpdateRead(r) PROVE product' = product
  BY <1>2 DEF UpdateRead, Refuse
<1>3. ASSUME NEW r \in Requests, UpdateWrite(r)
      PROVE  product' = product \/ \E p \in Ids : Updated(r, p)
  <2>1. ask[r].op = "UPDATE" /\ ask[r] \in Asks /\ ask[r].sku # Nothing
    BY <1>3 DEF UpdateWrite, At, TypeOK, BodyChecked
  <2>2. ask[r].id \in Ids /\ ask[r].sku \in Skus \union {Keep}
    BY <2>1, AskType
  <2> QED
    BY <1>3, <2>1, <2>2 DEF UpdateWrite, Refuse, Updated
<1>4. ASSUME NEW r \in Requests, Delete(r)
      PROVE  product' = product \/ \E p \in Ids : Deleted(p)
  <2>1. ask[r].id \in Ids
    BY <1>4, AskType DEF Delete, At, TypeOK
  <2> QED
    BY <1>4, <2>1 DEF Delete, Refuse, Deleted
<1>5. ASSUME NEW r \in Requests, Lose(r) PROVE product' = product
  BY <1>5 DEF Lose, Refuse
<1> QED
  BY <1>1, <1>2, <1>3, <1>4, <1>5 DEF Next, Step, vars

(***************************************************************************)
(* Type correctness.                                                       *)
(***************************************************************************)
LEMMA RowType ==
    ASSUME NEW row \in ProductRow, NEW sku \in Skus
    PROVE  /\ [row EXCEPT !.sku = sku, !.updatedAt = @ + 1] \in ProductRow
           /\ [row EXCEPT !.deleted = TRUE, !.updatedAt = @ + 1] \in ProductRow
<1>1. row.updatedAt + 1 \in Nat
  BY DEF ProductRow
<1> QED
  BY <1>1 DEF ProductRow

LEMMA NewSkuType ==
    ASSUME TypeOK, NEW r \in Requests, NEW p \in Ids, Updated(r, p)
    PROVE  NewSku(r, p) \in Skus /\ product[p] \in ProductRow
<1>1. product[p] \in ProductRow
  BY DEF Updated, AsRead, Mine, Active, TypeOK
<1> QED
  BY <1>1, NormalAssumption DEF Updated, NewSku, Sku, ProductRow

LEMMA ProductType ==
    ASSUME TypeOK, BodyChecked, [Next]_vars
    PROVE  product' \in [Ids -> ProductRow \union {NoRow}]
<1>1. ASSUME NEW r \in Requests, NEW p \in Ids, Created(r, p)
      PROVE  product' \in [Ids -> ProductRow \union {NoRow}]
  <2>1. ask[r].user \in Users /\ Sku(r) \in Skus
    BY <1>1, AskType, NormalAssumption DEF Created, TypeOK, Sku
  <2>2. [owner |-> ask[r].user, sku |-> Sku(r), updatedAt |-> 0, deleted |-> FALSE] \in ProductRow
    BY <2>1 DEF ProductRow
  <2> QED
    BY <1>1, <2>2 DEF Created, TypeOK
<1>2. ASSUME NEW r \in Requests, NEW p \in Ids, Updated(r, p)
      PROVE  product' \in [Ids -> ProductRow \union {NoRow}]
  <2>1. [product[p] EXCEPT !.sku = NewSku(r, p), !.updatedAt = @ + 1] \in ProductRow
    BY <1>2, NewSkuType, RowType
  <2>2. product' = [product EXCEPT ![p] =
                        [product[p] EXCEPT !.sku = NewSku(r, p), !.updatedAt = @ + 1]]
    BY <1>2 DEF Updated, TypeOK
  <2> QED
    BY <2>1, <2>2 DEF TypeOK
<1>3. ASSUME NEW p \in Ids, Deleted(p) PROVE product' \in [Ids -> ProductRow \union {NoRow}]
  <2>1. product[p] \in ProductRow
    BY <1>3 DEF Deleted, Active, TypeOK
  <2>2. [product[p] EXCEPT !.deleted = TRUE, !.updatedAt = @ + 1] \in ProductRow
    BY <2>1, RowType DEF ProductRow
  <2> QED
    BY <1>3, <2>2 DEF Deleted, TypeOK
<1> QED
  BY <1>1, <1>2, <1>3, WriteCases DEF TypeOK

TypeInv == TypeOK /\ BodyChecked

LEMMA TypeInit == Init => TypeInv
BY DEF Init, TypeInv, TypeOK, BodyChecked, Kind

LEMMA TypeNext == TypeInv /\ [Next]_vars => TypeInv'
<1> SUFFICES ASSUME TypeOK, BodyChecked, [Next]_vars PROVE TypeInv'
  BY DEF TypeInv
<1>0. RequestsType
  BY DEF TypeOK, RequestsType
<1>1. ASSUME NEW r \in Requests, NEW kind \in Kind, Reply(r, kind)
      PROVE  RequestsType' /\ BodyChecked'
  BY <1>0, <1>1, ReplyType DEF RequestsType, BodyChecked, Reply
<1>2. ASSUME NEW r \in Requests, Create(r) PROVE RequestsType' /\ BodyChecked'
  BY <1>1, <1>2 DEF Create, Refuse, Committed, Kind
<1>3. ASSUME NEW r \in Requests, UpdateRead(r) PROVE RequestsType' /\ BodyChecked'
  <2>1. CASE \E kind \in Kind : Reply(r, kind)
    BY <1>1, <2>1
  <2>2. CASE /\ ask[r].op = "UPDATE" /\ ask[r].sku # Nothing /\ Mine(r, ask[r].id)
             /\ pc' = [pc EXCEPT ![r] = "write"]
             /\ seen' = [seen EXCEPT ![r] = product[ask[r].id].updatedAt]
             /\ UNCHANGED <<product, ask, reply>>
    <3>1. ask[r].id \in Ids
      BY <1>0, <2>2, AskType DEF RequestsType
    <3>2. product[ask[r].id].updatedAt \in Nat
      BY <2>2, <3>1 DEF Mine, Active, TypeOK, ProductRow
    <3>3. RequestsType'
      BY <1>0, <2>2, <3>2 DEF RequestsType
    <3>4. BodyChecked'
      BY <1>0, <2>2 DEF RequestsType, BodyChecked
    <3> QED
      BY <3>3, <3>4
  <2> QED
    BY <1>3, <2>1, <2>2 DEF UpdateRead, At, Refuse, Kind
<1>4. ASSUME NEW r \in Requests, UpdateWrite(r) PROVE RequestsType' /\ BodyChecked'
  BY <1>1, <1>4 DEF UpdateWrite, Refuse, Committed, Kind
<1>5. ASSUME NEW r \in Requests, Delete(r) PROVE RequestsType' /\ BodyChecked'
  BY <1>1, <1>5 DEF Delete, Refuse, Committed, Kind
<1>6. ASSUME NEW r \in Requests, Lose(r) PROVE RequestsType' /\ BodyChecked'
  BY <1>1, <1>6 DEF Lose, Refuse, Kind
<1>7. ASSUME UNCHANGED vars PROVE RequestsType' /\ BodyChecked'
  <2>1. UNCHANGED <<pc, ask, seen, reply>>
    BY <1>7 DEF vars
  <2> QED
    BY <1>0, <2>1 DEF RequestsType, BodyChecked
<1>8. RequestsType' /\ BodyChecked'
  BY <1>2, <1>3, <1>4, <1>5, <1>6, <1>7 DEF Next, Step
<1> QED
  BY <1>8, ProductType DEF TypeInv, TypeOK, RequestsType

(***************************************************************************)
(* The catalogue keeps its types.                                          *)
(***************************************************************************)
THEOREM CatalogTypeCorrect == Spec => []TypeOK
<1>1. TypeInv => TypeOK
  BY DEF TypeInv
<1> QED
  BY TypeInit, TypeNext, <1>1, PTL DEF Spec
-----------------------------------------------------------------------------
(***************************************************************************)
(* SKUs.  SkuUnique speaks of spellings; what the index compares is the    *)
(* column.  The two agree because every column holds a normal spelling.    *)
(***************************************************************************)
Normalised == \A p \in Ids : product[p] # NoRow => Normal[product[p].sku] = product[p].sku

IndexUnique ==
    \A p, q \in Ids :
        Active(p) /\ Active(q) /\ product[p].owner = product[q].owner
            /\ product[p].sku = product[q].sku => p = q

SkuInv == Normalised /\ IndexUnique

LEMMA SkuInit == Init => SkuInv
BY DEF Init, SkuInv, Normalised, IndexUnique, Active

LEMMA SkuNext == TypeInv /\ SkuInv /\ [Next]_vars => SkuInv'
<1> SUFFICES ASSUME TypeOK, BodyChecked, SkuInv, [Next]_vars PROVE SkuInv'
  BY DEF TypeInv
<1>1. CASE product' = product
  BY <1>1 DEF SkuInv, Normalised, IndexUnique, Active
<1>2. ASSUME NEW r \in Requests, NEW p \in Ids, Created(r, p) PROVE SkuInv'
  <2>1. Sku(r) \in Skus /\ Normal[Sku(r)] = Sku(r)
    BY <1>2, AskType, NormalAssumption DEF Created, TypeOK, Sku
  <2>2. /\ product'[p].owner = ask[r].user /\ product'[p].sku = Sku(r)
        /\ \A q \in Ids : q # p => product'[q] = product[q]
    BY <1>2 DEF Created, TypeOK
  <2>3. \A q \in Ids : q # p /\ Active(q) =>
            ~ (product[q].owner = ask[r].user /\ product[q].sku = Sku(r))
    BY <1>2 DEF Created, Taken
  <2>4. Normalised'
    BY <2>1, <2>2 DEF SkuInv, Normalised
  <2>5. IndexUnique'
    BY <2>2, <2>3 DEF SkuInv, IndexUnique, Active
  <2> QED
    BY <2>4, <2>5 DEF SkuInv
<1>3. ASSUME NEW r \in Requests, NEW p \in Ids, Updated(r, p) PROVE SkuInv'
  <2>0. product[p] # NoRow /\ product[p] \in ProductRow /\ product[p].owner = ask[r].user
    BY <1>3, NewSkuType DEF Updated, AsRead, Mine, Active
  <2>1. Normal[NewSku(r, p)] = NewSku(r, p)
    BY <1>3, <2>0, NormalAssumption DEF Updated, NewSku, Sku, SkuInv, Normalised
  <2>2. /\ product'[p].owner = ask[r].user /\ product'[p].sku = NewSku(r, p)
        /\ \A q \in Ids : q # p => product'[q] = product[q]
    BY <1>3, <2>0 DEF Updated, TypeOK, ProductRow
  <2>3. \A q \in Ids : q # p /\ Active(q) =>
            ~ (product[q].owner = ask[r].user /\ product[q].sku = NewSku(r, p))
    BY <1>3 DEF Updated, Taken
  <2>4. Normalised'
    BY <2>1, <2>2 DEF SkuInv, Normalised
  <2>5. IndexUnique'
    BY <2>2, <2>3 DEF SkuInv, IndexUnique, Active
  <2> QED
    BY <2>4, <2>5 DEF SkuInv
<1>4. ASSUME NEW p \in Ids, Deleted(p) PROVE SkuInv'
  <2>1. product[p] # NoRow /\ product[p] \in ProductRow
    BY <1>4 DEF Deleted, Active, TypeOK
  <2>2. /\ product'[p].sku = product[p].sku /\ product'[p].deleted
        /\ \A q \in Ids : q # p => product'[q] = product[q]
    BY <1>4, <2>1 DEF Deleted, TypeOK, ProductRow
  <2>3. Normalised'
    BY <2>1, <2>2 DEF SkuInv, Normalised
  <2>4. IndexUnique'
    BY <2>2 DEF SkuInv, IndexUnique, Active
  <2> QED
    BY <2>3, <2>4 DEF SkuInv
<1> QED
  BY <1>1, <1>2, <1>3, <1>4, WriteCases

(***************************************************************************)
(* A user's active products never share a SKU.                             *)
(***************************************************************************)
THEOREM CatalogSkuUnique == Spec => []SkuUnique
<1>1. TypeInv /\ SkuInv => SkuUnique
  BY DEF SkuInv, Normalised, IndexUnique, SkuUnique, Active
<1>2. Init => TypeInv /\ SkuInv
  BY TypeInit, SkuInit
<1>3. (TypeInv /\ SkuInv) /\ [Next]_vars => (TypeInv /\ SkuInv)'
  BY TypeNext, SkuNext
<1> QED
  BY <1>1, <1>2, <1>3, PTL DEF Spec
-----------------------------------------------------------------------------
(***************************************************************************)
(* A product stays for ever, and does not change once it is deleted: each  *)
(* of the three writes finds no row or an active one.                      *)
(***************************************************************************)
THEOREM CatalogHistoryKept == Spec => HistoryKept
<1> DEFINE Kept == \A p \in Ids : product[p] # NoRow =>
                        /\ product'[p] # NoRow /\ product'[p].owner = product[p].owner
                        /\ product[p].deleted => product'[p] = product[p]
<1>1. TypeInv /\ [Next]_vars => Kept
  <2> SUFFICES ASSUME TypeOK, BodyChecked, [Next]_vars PROVE Kept
    BY DEF TypeInv
  <2>1. ASSUME NEW r \in Requests, NEW p \in Ids, Created(r, p) PROVE Kept
    BY <2>1 DEF Created, TypeOK
  <2>2. ASSUME NEW r \in Requests, NEW p \in Ids, Updated(r, p) PROVE Kept
    <3>1. /\ product'[p] = [product[p] EXCEPT !.sku = NewSku(r, p), !.updatedAt = @ + 1]
          /\ \A q \in Ids : q # p => product'[q] = product[q]
      BY <2>2 DEF Updated, TypeOK
    <3>2. NewSku(r, p) \in Skus /\ product[p] \in ProductRow
      BY <2>2, NewSkuType
    <3>3. product'[p] # NoRow
      BY <3>1, <3>2, RowType, NoRowAssumption
    <3>4. product'[p].owner = product[p].owner
      BY <3>1, <3>2 DEF ProductRow
    <3>5. ~ product[p].deleted
      BY <2>2 DEF Updated, AsRead, Mine, Active
    <3> QED
      BY <3>1, <3>3, <3>4, <3>5
  <2>3. ASSUME NEW p \in Ids, Deleted(p) PROVE Kept
    <3>1. /\ product'[p] = [product[p] EXCEPT !.deleted = TRUE, !.updatedAt = @ + 1]
          /\ \A q \in Ids : q # p => product'[q] = product[q]
      BY <2>3 DEF Deleted, TypeOK
    <3>2. product[p] \in ProductRow /\ ~ product[p].deleted
      BY <2>3 DEF Deleted, Active, TypeOK
    <3>3. product[p].sku \in Skus
      BY <3>2 DEF ProductRow
    <3>4. product'[p] # NoRow
      BY <3>1, <3>2, <3>3, RowType, NoRowAssumption
    <3>5. product'[p].owner = product[p].owner
      BY <3>1, <3>2 DEF ProductRow
    <3> QED
      BY <3>1, <3>2, <3>4, <3>5
  <2> QED
    BY <2>1, <2>2, <2>3, WriteCases
<1>2. TypeInv /\ [Next]_vars => [Kept]_vars
  BY <1>1
<1> QED
  BY TypeInit, TypeNext, <1>2, PTL DEF Spec, HistoryKept
-----------------------------------------------------------------------------
(***************************************************************************)
(* Answers.  A request that is still on its way has not been answered, and *)
(* a step answers nobody but the request that takes it.                    *)
(***************************************************************************)
Unanswered == \A r \in Requests : pc[r] # "done" => reply[r] = "none"

LEMMA ReplyOnly ==
    ASSUME TypeOK, NEW r \in Requests, NEW kind, Reply(r, kind)
    PROVE  /\ pc'[r] = "done" /\ reply'[r] = kind
           /\ \A s \in Requests \ {r} : pc'[s] = pc[s] /\ reply'[s] = reply[s]
BY DEF Reply, TypeOK

(* What a step may do: nothing, or read a row, or answer its request.      *)
LEMMA StepAnswers ==
    ASSUME TypeOK, [Next]_vars
    PROVE  \/ UNCHANGED vars
           \/ \E r \in Requests :
                /\ pc[r] # "done"
                /\ \/ /\ UNCHANGED <<product, reply>>
                      /\ \A s \in Requests \ {r} : pc'[s] = pc[s]
                   \/ /\ Create(r) \/ UpdateRead(r) \/ UpdateWrite(r) \/ Delete(r) \/ Lose(r)
                      /\ \E kind \in Kind : Reply(r, kind)
<1>1. ASSUME NEW r \in Requests, Create(r)
      PROVE  pc[r] # "done" /\ \E kind \in Kind : Reply(r, kind)
  BY <1>1 DEF Create, At, Refuse, Committed, Kind
<1>2. ASSUME NEW r \in Requests, UpdateRead(r)
      PROVE  /\ pc[r] # "done"
             /\ \/ \E kind \in Kind : Reply(r, kind)
                \/ UNCHANGED <<product, reply>> /\ \A s \in Requests \ {r} : pc'[s] = pc[s]
  <2>1. CASE \E kind \in {"invalid", "missing"} : Reply(r, kind)
    BY <1>2, <2>1 DEF UpdateRead, At, Kind
  <2>2. CASE pc' = [pc EXCEPT ![r] = "write"] /\ UNCHANGED <<product, ask, reply>>
    BY <1>2, <2>2 DEF UpdateRead, At, TypeOK
  <2> QED
    BY <1>2, <2>1, <2>2 DEF UpdateRead, Refuse
<1>3. ASSUME NEW r \in Requests, UpdateWrite(r)
      PROVE  pc[r] # "done" /\ \E kind \in Kind : Reply(r, kind)
  BY <1>3 DEF UpdateWrite, At, Refuse, Committed, Kind
<1>4. ASSUME NEW r \in Requests, Delete(r)
      PROVE  pc[r] # "done" /\ \E kind \in Kind : Reply(r, kind)
  BY <1>4 DEF Delete, At, Refuse, Committed, Kind
<1>5. ASSUME NEW r \in Requests, Lose(r)
      PROVE  pc[r] # "done" /\ \E kind \in Kind : Reply(r, kind)
  BY <1>5 DEF Lose, Refuse, Kind
<1> QED
  BY <1>1, <1>2, <1>3, <1>4, <1>5 DEF Next, Step

LEMMA UnansweredInit == Init => Unanswered
BY DEF Init, Unanswered

LEMMA UnansweredNext == TypeInv /\ Unanswered /\ [Next]_vars => Unanswered'
<1> SUFFICES ASSUME TypeOK, Unanswered, [Next]_vars PROVE Unanswered'
  BY DEF TypeInv
<1>1. CASE UNCHANGED vars
  BY <1>1 DEF vars, Unanswered
<1>2. ASSUME NEW r \in Requests, pc[r] # "done", UNCHANGED <<product, reply>>,
             \A s \in Requests \ {r} : pc'[s] = pc[s]
      PROVE  Unanswered'
  BY <1>2 DEF Unanswered
<1>3. ASSUME NEW r \in Requests, NEW kind \in Kind, Reply(r, kind) PROVE Unanswered'
  BY <1>3, ReplyOnly DEF Unanswered
<1> QED
  BY <1>1, <1>2, <1>3, StepAnswers
-----------------------------------------------------------------------------
(***************************************************************************)
(* A product changes only in a step of a request that is entitled to it,   *)
(* and that is told so or loses its answer.                                *)
(***************************************************************************)
THEOREM CatalogChangedByRight == Spec => ChangedByRight
<1> DEFINE Right(p, r) ==
        /\ reply[r] = "none" /\ reply'[r] \in {"created", "updated", "deleted", "lost"}
        /\ \/ ask[r].op = "CREATE" /\ product[p] = NoRow
           \/ ask[r].op = "UPDATE" /\ ask[r].id = p /\ product[p].owner = ask[r].user
           \/ /\ ask[r].op = "DELETE" /\ ask[r].id = p /\ ask[r].user \in Admins
              /\ product'[p].sku = product[p].sku
    Righted == \A p \in Ids : product'[p] # product[p] => \E r \in Requests : Right(p, r)
<1>1. TypeInv /\ Unanswered /\ [Next]_vars => Righted
  <2> SUFFICES ASSUME TypeOK, BodyChecked, Unanswered, [Next]_vars,
                      NEW p \in Ids, product'[p] # product[p]
               PROVE  \E r \in Requests : Right(p, r)
    BY DEF TypeInv
  <2>1. PICK r \in Requests : Create(r) \/ UpdateWrite(r) \/ Delete(r)
    BY DEF Next, Step, vars, UpdateRead, Lose, Refuse
  <2>2. reply[r] = "none"
    BY <2>1 DEF Unanswered, Create, UpdateWrite, Delete, At
  <2>3. CASE Create(r)
    <3>1. PICK q \in Ids : product[q] = NoRow /\ product' = [product EXCEPT ![q] =
                [owner |-> ask[r].user, sku |-> Sku(r), updatedAt |-> 0, deleted |-> FALSE]]
      BY <2>3 DEF Create, Refuse
    <3>2. p = q
      BY <3>1 DEF TypeOK
    <3>3. Reply(r, "created") \/ Reply(r, "lost")
      BY <2>3 DEF Create, Refuse, Committed
    <3>4. reply'[r] \in {"created", "lost"}
      BY <3>3, ReplyOnly
    <3> QED
      BY <2>2, <2>3, <3>1, <3>2, <3>4 DEF Create, At
  <2>4. CASE UpdateWrite(r)
    <3>1. /\ AsRead(r, ask[r].id)
          /\ product' = [product EXCEPT ![ask[r].id].sku = NewSku(r, ask[r].id),
                                        ![ask[r].id].updatedAt = @ + 1]
          /\ Committed(r, "updated")
      BY <2>4 DEF UpdateWrite, Refuse
    <3>2. p = ask[r].id
      BY <3>1 DEF TypeOK
    <3>3. reply'[r] \in {"updated", "lost"}
      BY <3>1, ReplyOnly DEF Committed
    <3> QED
      BY <2>2, <2>4, <3>1, <3>2, <3>3 DEF UpdateWrite, At, AsRead, Mine
  <2>5. CASE Delete(r)
    <3>1. /\ MayDelete(r) /\ Active(ask[r].id)
          /\ product' = [product EXCEPT ![ask[r].id].deleted = TRUE,
                                        ![ask[r].id].updatedAt = @ + 1]
          /\ Committed(r, "deleted")
      BY <2>5 DEF Delete, Refuse
    <3>2. p = ask[r].id
      BY <3>1 DEF TypeOK
    <3>3. product[p] \in ProductRow
      BY <3>1, <3>2 DEF Active, TypeOK
    <3>4. product'[p].sku = product[p].sku
      BY <3>1, <3>2, <3>3 DEF TypeOK, ProductRow
    <3>5. reply'[r] \in {"deleted", "lost"}
      BY <3>1, ReplyOnly DEF Committed
    <3> QED
      BY <2>2, <2>5, <3>1, <3>2, <3>4, <3>5 DEF Delete, At, MayDelete
  <2> QED
    BY <2>1, <2>3, <2>4, <2>5
<1>2. TypeInv /\ Unanswered /\ [Next]_vars => [Righted]_vars
  BY <1>1
<1>3. Init => TypeInv /\ Unanswered
  BY TypeInit, UnansweredInit
<1>4. (TypeInv /\ Unanswered) /\ [Next]_vars => (TypeInv /\ Unanswered)'
  BY TypeNext, UnansweredNext
<1> QED
  BY <1>2, <1>3, <1>4, PTL DEF Spec, ChangedByRight
-----------------------------------------------------------------------------
(***************************************************************************)
(* A conflict is another active product of the same user.  An update that  *)
(* leaves the SKU out never meets one: its own SKU is in the index once.   *)
(***************************************************************************)
THEOREM CatalogConflictHasCause == Spec => ConflictHasCause
<1> DEFINE Cause(r, p) ==
        /\ ask[r].op = "UPDATE" => p # ask[r].id
        /\ ask[r].sku \in Skus
        /\ Active(p) /\ product[p].owner = ask[r].user
        /\ product[p].sku = Sku(r)
    Caused == \A r \in Requests : reply[r] = "none" /\ reply'[r] = "conflict" =>
                                    \E p \in Ids : Cause(r, p)
<1>1. TypeInv /\ SkuInv /\ [Next]_vars => Caused
  <2> SUFFICES ASSUME TypeOK, BodyChecked, SkuInv, [Next]_vars,
                      NEW r \in Requests, reply[r] = "none", reply'[r] = "conflict"
               PROVE  \E p \in Ids : Cause(r, p)
    BY DEF TypeInv
  <2>1. PICK s \in Requests :
            /\ Create(s) \/ UpdateRead(s) \/ UpdateWrite(s) \/ Delete(s) \/ Lose(s)
            /\ \E kind \in Kind : Reply(s, kind)
    BY StepAnswers DEF vars
  <2>2. s = r
    BY <2>1, ReplyOnly
  <2>3. ASSUME NEW kind, Reply(r, kind) PROVE kind = "conflict"
    BY <2>3, ReplyOnly
  <2>4. ~ UpdateRead(r)
    <3>1. ASSUME UpdateRead(r), UNCHANGED <<product, ask, reply>> PROVE FALSE
      BY <3>1
    <3> QED
      BY <2>3, <3>1 DEF UpdateRead, Refuse
  <2>5. ~ Delete(r)
    BY <2>3 DEF Delete, Refuse, Committed
  <2>6. ~ Lose(r)
    BY <2>3 DEF Lose, Refuse
  <2>7. CASE Create(r)
    <3>1. Taken(ask[r].user, Sku(r), {}) /\ ask[r].op = "CREATE"
      BY <2>3, <2>7 DEF Create, At, Committed
    <3>2. ask[r].sku \in Skus
      BY <3>1, AskType DEF TypeOK
    <3> QED
      BY <3>1, <3>2 DEF Taken
  <2>8. CASE UpdateWrite(r)
    <3> DEFINE id == ask[r].id
    <3>1. /\ ask[r].op = "UPDATE" /\ pc[r] = "write" /\ AsRead(r, id)
          /\ Taken(ask[r].user, NewSku(r, id), {id})
      BY <2>3, <2>8 DEF UpdateWrite, At, Refuse, Committed
    <3>2. id \in Ids /\ ask[r].sku \in Skus \union {Keep}
      BY <3>1, AskType DEF TypeOK, BodyChecked
    <3>3. PICK p \in Ids \ {id} :
              Active(p) /\ product[p].owner = ask[r].user /\ product[p].sku = NewSku(r, id)
      BY <3>1 DEF Taken
    <3>4. ask[r].sku # Keep
      BY <3>1, <3>2, <3>3 DEF NewSku, AsRead, Mine, SkuInv, IndexUnique
    <3> QED
      BY <3>1, <3>2, <3>3, <3>4 DEF NewSku
  <2> QED
    BY <2>1, <2>2, <2>4, <2>5, <2>6, <2>7, <2>8
<1>2. TypeInv /\ SkuInv /\ [Next]_vars => [Caused]_vars
  BY <1>1
<1>3. Init => TypeInv /\ SkuInv
  BY TypeInit, SkuInit
<1>4. (TypeInv /\ SkuInv) /\ [Next]_vars => (TypeInv /\ SkuInv)'
  BY TypeNext, SkuNext
<1> QED
  BY <1>2, <1>3, <1>4, PTL DEF Spec, ConflictHasCause
=============================================================================
