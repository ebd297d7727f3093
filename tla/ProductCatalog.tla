--------------------------- MODULE ProductCatalog ---------------------------
(***************************************************************************)
(* The product catalogue: who may create, change and delete which product, *)
(* and which SKUs are taken.  ProductsController, ProductsService and      *)
(* PrismaProductRepository; the stock of a product is StockFlow's.         *)
(*                                                                         *)
(* A step is one statement that others can see: creating a product and its *)
(* movement commits at once, an update reads the row first and writes it   *)
(* in a later step.  A write that meets an uncommitted one in the unique   *)
(* index waits for it, so that it is the later step.                       *)
(***************************************************************************)
EXTENDS Integers

CONSTANTS
    Users,
    Admins,         \* the users whose role is ADMIN
    Ids,            \* product ids the database may hand out
    Skus,           \* what a client may write as a SKU
    Normal,         \* each SKU trimmed and in upper case
    Requests,
    Asks,           \* what a request may ask for
    Keep,           \* a body that leaves the SKU out and names another field
    Nothing,        \* a body that names no field
    NoRow           \* no product has this id

ASSUME AdminsAssumption == Admins \subseteq Users
ASSUME NormalAssumption ==
    Normal \in [Skus -> Skus] /\ \A s \in Skus : Normal[Normal[s]] = Normal[s]
ASSUME BodyAssumption == Keep \notin Skus /\ Nothing \notin Skus /\ Keep # Nothing

VARIABLES
    product,    \* Product, by id
    pc,         \* where each request stands
    ask,        \* what it asks for
    seen,       \* updatedAt as its read found it
    reply       \* its answer

vars == <<product, pc, ask, seen, reply>>

(***************************************************************************)
(* A row.  updatedAt counts the writes to it.                              *)
(***************************************************************************)
ProductRow == [owner : Users, sku : Skus, updatedAt : Nat, deleted : BOOLEAN]
ASSUME NoRowAssumption == NoRow \notin ProductRow

Ask ==
    [op : {"CREATE"}, user : Users, sku : Skus] \union
    [op : {"UPDATE"}, user : Users, id : Ids, sku : Skus \union {Keep, Nothing}] \union
    [op : {"DELETE"}, user : Users, id : Ids]

ASSUME AsksAssumption == Asks \subseteq Ask

Kind == {"none", "created", "updated", "deleted",
         "invalid", "forbidden", "missing", "conflict", "lost"}

TypeOK ==
    /\ product \in [Ids -> ProductRow \union {NoRow}]
    /\ pc \in [Requests -> {"start", "write", "done"}]
    /\ ask \in [Requests -> Asks]
    /\ seen \in [Requests -> Nat]
    /\ reply \in [Requests -> Kind]

Init ==
    /\ product = [p \in Ids |-> NoRow]
    /\ pc = [r \in Requests |-> "start"]
    /\ ask \in [Requests -> Asks]
    /\ seen = [r \in Requests |-> 0]
    /\ reply = [r \in Requests |-> "none"]
-----------------------------------------------------------------------------
At(r, op, point) == pc[r] = point /\ ask[r].op = op

Reply(r, kind) ==
    /\ pc' = [pc EXCEPT ![r] = "done"]
    /\ seen' = [seen EXCEPT ![r] = 0]
    /\ reply' = [reply EXCEPT ![r] = kind]
    /\ UNCHANGED ask

Refuse(r, kind) == Reply(r, kind) /\ UNCHANGED product

(* What was committed is answered, or the answer is lost.                  *)
Committed(r, kind) == Reply(r, kind) \/ Reply(r, "lost")

(* WHERE deletedAt IS NULL.                                                *)
Active(p) == product[p] # NoRow /\ ~ product[p].deleted

(* Mutant: the SKU is stored as it was written.                            *)
AsWritten(r) == ask[r].sku

Sku(r) == Normal[ask[r].sku]

(* Mutant: the index is on all rows, as it was before it was partial.      *)
TakenEver(user, sku, except) ==
    \E p \in Ids \ except :
        product[p] # NoRow /\ product[p].owner = user /\ product[p].sku = sku

(* The unique index on (userId, sku) of the rows that are not deleted.     *)
Taken(user, sku, except) ==
    \E p \in Ids \ except : Active(p) /\ product[p].owner = user /\ product[p].sku = sku
-----------------------------------------------------------------------------
Create(r) ==
    /\ At(r, "CREATE", "start")
    /\ \/ /\ ~ Taken(ask[r].user, Sku(r), {})
          /\ \E p \in Ids :
                /\ product[p] = NoRow
                /\ product' = [product EXCEPT ![p] =
                    [owner |-> ask[r].user, sku |-> Sku(r), updatedAt |-> 0, deleted |-> FALSE]]
          /\ Committed(r, "created")
       \/ Taken(ask[r].user, Sku(r), {}) /\ Refuse(r, "conflict")

(* Mutant: anybody's product is found.                                     *)
MineOrNot(r, p) == Active(p)

(* WHERE id, userId and deletedAt IS NULL.                                 *)
Mine(r, p) == Active(p) /\ product[p].owner = ask[r].user

UpdateRead(r) ==
    /\ At(r, "UPDATE", "start")
    /\ \/ ask[r].sku = Nothing /\ Refuse(r, "invalid")
       \/ ask[r].sku # Nothing /\ ~ Mine(r, ask[r].id) /\ Refuse(r, "missing")
       \/ /\ ask[r].sku # Nothing /\ Mine(r, ask[r].id)
          /\ pc' = [pc EXCEPT ![r] = "write"]
          /\ seen' = [seen EXCEPT ![r] = product[ask[r].id].updatedAt]
          /\ UNCHANGED <<product, ask, reply>>

(* Mutant: the UPDATE relies on what the read found.                       *)
AsFound(r, p) == product[p] # NoRow

(* The WHERE of the UPDATE: the row is still the one that was read.        *)
AsRead(r, p) == Mine(r, p) /\ product[p].updatedAt = seen[r]

NewSku(r, p) == IF ask[r].sku = Keep THEN product[p].sku ELSE Sku(r)

UpdateWrite(r) ==
    LET p == ask[r].id
        sku == NewSku(r, p)
    IN  /\ At(r, "UPDATE", "write")
        /\ \/ ~ AsRead(r, p) /\ Refuse(r, "missing")
           \/ AsRead(r, p) /\ Taken(ask[r].user, sku, {p}) /\ Refuse(r, "conflict")
           \/ /\ AsRead(r, p) /\ ~ Taken(ask[r].user, sku, {p})
              /\ product' = [product EXCEPT ![p].sku = sku, ![p].updatedAt = @ + 1]
              /\ Committed(r, "updated")

(* RolesGuard, and the service once more.                                  *)
MayDelete(r) == ask[r].user \in Admins

(* An administrator deletes any user's product, the row stays.             *)
Delete(r) ==
    LET p == ask[r].id
    IN  /\ At(r, "DELETE", "start")
        /\ \/ ~ MayDelete(r) /\ Refuse(r, "forbidden")
           \/ MayDelete(r) /\ ~ Active(p) /\ Refuse(r, "missing")
           \/ /\ MayDelete(r) /\ Active(p)
              /\ product' = [product EXCEPT ![p].deleted = TRUE, ![p].updatedAt = @ + 1]
              /\ Committed(r, "deleted")

(* Nothing was committed, and the client does not hear of it.              *)
Lose(r) == pc[r] # "done" /\ Refuse(r, "lost")

Step(r) == Create(r) \/ UpdateRead(r) \/ UpdateWrite(r) \/ Delete(r)

Next == \E r \in Requests : Step(r) \/ Lose(r)

Spec == Init /\ [][Next]_vars
-----------------------------------------------------------------------------
(***************************************************************************)
(* A user's active products have different SKUs, however they are spelled, *)
(* whatever creations, renames and deletions went on at the same time.     *)
(***************************************************************************)
SkuUnique ==
    \A p, q \in Ids :
        /\ Active(p) /\ Active(q)
        /\ product[p].owner = product[q].owner
        /\ Normal[product[p].sku] = Normal[product[q].sku]
        => p = q

(***************************************************************************)
(* What historical invoices refer to is preserved: a product, once         *)
(* created, stays for ever, with its owner, and from its deletion on it    *)
(* does not change at all, not even by an update that read it before.      *)
(***************************************************************************)
HistoryKept ==
    [][\A p \in Ids : product[p] # NoRow =>
            /\ product'[p] # NoRow /\ product'[p].owner = product[p].owner
            /\ product[p].deleted => product'[p] = product[p]]_vars

(***************************************************************************)
(* A product is changed by its owner, or deleted by an administrator, who  *)
(* is told so or loses the answer; whoever is told anything else changed   *)
(* nothing.                                                                *)
(***************************************************************************)
ChangedByRight ==
    [][\A p \in Ids : product'[p] # product[p] =>
            \E r \in Requests :
                /\ reply[r] = "none" /\ reply'[r] \in {"created", "updated", "deleted", "lost"}
                /\ \/ ask[r].op = "CREATE" /\ product[p] = NoRow
                   \/ ask[r].op = "UPDATE" /\ ask[r].id = p /\ product[p].owner = ask[r].user
                   \/ /\ ask[r].op = "DELETE" /\ ask[r].id = p /\ ask[r].user \in Admins
                      /\ product'[p].sku = product[p].sku]_vars

(***************************************************************************)
(* A 409 has a cause: at that moment another active product of the user    *)
(* has the SKU that was asked for.  The SKU of a deleted product is free   *)
(* again, and a product's own SKU is no conflict for it.                   *)
(***************************************************************************)
ConflictHasCause ==
    [][\A r \in Requests : reply[r] = "none" /\ reply'[r] = "conflict" =>
            \E p \in Ids :
                /\ ask[r].op = "UPDATE" => p # ask[r].id
                /\ ask[r].sku \in Skus
                /\ Active(p) /\ product[p].owner = ask[r].user
                /\ product[p].sku = Sku(r)]_vars
=============================================================================
