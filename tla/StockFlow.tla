----------------------------- MODULE StockFlow -----------------------------
(***************************************************************************)
(* Concurrent requests against the tables of StockTables, step by step as  *)
(* InvoicesService, PrismaInvoiceRepository and PrismaProductRepository    *)
(* take them: the checks before the transaction, the transaction's         *)
(* statements, its rollback, its retry, and the answer.                    *)
(*                                                                         *)
(* A step is one SQL statement with the code up to the next await, except  *)
(* that statements nobody can see separately are one step: the writes of a *)
(* transaction become visible when it commits, so they are all in the step *)
(* that commits, and what other transactions do notice before that, the    *)
(* row locks, is read off the program counters (HasKey, HasLine).          *)
(*                                                                         *)
(* PostgreSQL: the SERIALIZABLE transactions (issue, cancel) read from the *)
(* snapshot of their first statement, and updating a row that a later      *)
(* commit changed fails with a write conflict (Prisma's P2034); the READ   *)
(* COMMITTED ones (draft update, pay, cancel of a draft, product update)   *)
(* see the latest commit at every statement.                               *)
(***************************************************************************)
EXTENDS StockTables

CONSTANTS
    Reqs,       \* HTTP requests on invoices
    Calls,      \* what such a request may ask for
    Editors,    \* HTTP requests that update a product
    Edits,      \* what such a request may ask for
    Keep        \* a product update that leaves quantityOnHand out

Call ==
    [op : {"STATUS", "DRAFT_UPDATE", "CREATE"}, inv : Invoices, key : Keys, ver : Nat,
     to : InvoiceStatus, items : Carts \union {Empty}]

Edit == [product : Products, quantity : (0 .. MaxInt) \union {Keep}]

(***************************************************************************)
(* A call carries the body of its own operation only.                      *)
(***************************************************************************)
ASSUME CallsAssumption ==
    /\ Calls \subseteq Call
    /\ \A c \in Calls :
        /\ c.op = "STATUS" => c.items = Empty
        /\ c.op # "STATUS" => c.to = "DRAFT" /\ c.items \in Carts
ASSUME EditsAssumption == Edits \subseteq Edit /\ Keep \notin Int

VARIABLES
    stamp,      \* Product.updatedAt, as a count of the writes to the row
    active,     \* Product.deletedAt IS NULL
    pc,         \* where each request stands
    call,       \* what it asks for
    path,       \* the repository method changeStatus or updateDraft chose for it
    attempt,    \* the loop counter of mutateWithIdempotency
    snap,       \* what its SERIALIZABLE transaction reads of its invoice and stock
    missed,     \* the rows committed by others since that snapshot
    todo,       \* the invoice lines its transaction still has to update
    reply,      \* its answer
    edit        \* the product updates

requests == <<pc, call, path, attempt, snap, missed, todo, reply>>
vars == <<tables, stamp, active, requests, edit>>

Contract == INSTANCE StockContract
-----------------------------------------------------------------------------
Snap ==
    [status : InvoiceStatus \union {"NONE"}, version : Nat, items : [Products -> 0 .. MaxInt],
     short : SUBSET Products]

NoSnap == [status |-> "NONE", version |-> 0, items |-> Empty, short |-> {}]

(***************************************************************************)
(* The answers: 200 with the mutation applied ("ok") or found applied      *)
(* already ("replayed"), 409, 404, 400, 500, and no answer at all.         *)
(***************************************************************************)
Kind == {"none", "ok", "replayed", "conflict", "missing", "invalid", "internal", "lost"}
Reply == [kind : Kind, version : Nat]

PC == {"replay", "load", "resolve", "create", "begin", "insert", "mutate", "lines", "dup", "done"}
Path == {"none", "issue", "pay", "void", "cancel", "edit"}

TypeOK ==
    /\ TablesTypeOK
    /\ stamp \in [Products -> Nat]
    /\ active \in [Products -> BOOLEAN]
    /\ pc \in [Reqs -> PC]
    /\ call \in [Reqs -> Calls]
    /\ path \in [Reqs -> Path]
    /\ attempt \in [Reqs -> 0 .. 2]
    /\ snap \in [Reqs -> Snap]
    /\ missed \in [Reqs -> SUBSET (Products \union Invoices)]
    /\ todo \in [Reqs -> SUBSET Products]
    /\ reply \in [Reqs -> Reply]
    /\ edit \in [Editors -> [pc : {"read", "write", "saved", "missing"}, want : Edits,
                             quantity : Int, stamp : Nat]]

Init ==
    /\ TablesInit
    /\ stamp = [p \in Products |-> 0]
    /\ active = [p \in Products |-> TRUE]
    /\ call \in [Reqs -> Calls]
    /\ pc = [r \in Reqs |-> IF call[r].op = "CREATE" THEN "resolve" ELSE "replay"]
    /\ path = [r \in Reqs |-> "none"]
    /\ attempt = [r \in Reqs |-> 0]
    /\ snap = [r \in Reqs |-> NoSnap]
    /\ missed = [r \in Reqs |-> {}]
    /\ todo = [r \in Reqs |-> {}]
    /\ reply = [r \in Reqs |-> [kind |-> "none", version |-> 0]]
    /\ edit \in {[e \in Editors |->
                    [pc |-> "read", want |-> w[e], quantity |-> 0, stamp |-> 0]] :
                        w \in [Editors -> Edits]}
-----------------------------------------------------------------------------
(***************************************************************************)
(* Transactions, the rows they lock and what they tell the others.         *)
(***************************************************************************)
Serializable(r) == path[r] \in {"issue", "cancel"}
InTx(r) == pc[r] \in {"insert", "mutate", "lines"}

(* The transaction of r has inserted the row of k and not committed it.    *)
HasKey(r, k) == pc[r] \in {"mutate", "lines"} /\ call[r].key = k

(* The transaction of r has updated the row of p and not committed it.     *)
HasLine(r, p) == pc[r] = "lines" /\ p \in ItemsOf(snap[r].items) \ todo[r]

Free(p) == \A s \in Reqs : ~ HasLine(s, p)

(* Committing writes to these rows: every open snapshot is older.          *)
Missed(rows) ==
    [s \in Reqs |-> IF InTx(s) /\ Serializable(s) THEN missed[s] \union rows ELSE missed[s]]

(* The request leaves its transaction, if it is in one, having committed   *)
(* writes to these rows, and goes on at next.                              *)
Leave(r, next, rows) ==
    /\ pc' = [pc EXCEPT ![r] = next]
    /\ snap' = [snap EXCEPT ![r] = NoSnap]
    /\ missed' = [Missed(rows) EXCEPT ![r] = {}]
    /\ todo' = [todo EXCEPT ![r] = {}]

Answer(r, kind, version, rows) ==
    /\ Leave(r, "done", rows)
    /\ reply' = [reply EXCEPT ![r] = [kind |-> kind, version |-> version]]
    /\ path' = [path EXCEPT ![r] = "none"]
    /\ attempt' = [attempt EXCEPT ![r] = 0]
    /\ UNCHANGED call

Refuse(r, kind) == Answer(r, kind, 0, {}) /\ UNCHANGED <<tables, stamp, active, edit>>

(* The client may or may not see the answer to what was committed.         *)
Committed(r, version, rows) ==
    \E kind \in {"ok", "lost"} :
        Answer(r, kind, IF kind = "ok" THEN version ELSE 0, rows)

Goto(r, next) ==
    /\ pc' = [pc EXCEPT ![r] = next]
    /\ UNCHANGED <<tables, stamp, active, call, attempt, missed, reply, edit>>
-----------------------------------------------------------------------------
(***************************************************************************)
(* Answers found in the idempotency table.  The response is built from the *)
(* invoice as it is now: the recorded version is not read.                 *)
(***************************************************************************)
Matches(r, row) ==
    row.op = call[r].op /\ row.inv = call[r].inv /\ row.to = call[r].to /\ row.items = call[r].items

Found(r) == keyrow[call[r].key] # NoRow

Replayed(r) ==
    /\ Matches(r, keyrow[call[r].key])
    /\ Answer(r, "replayed", invoice[call[r].inv].version, {})
    /\ UNCHANGED <<tables, stamp, active, edit>>

(* IdempotencyConflictError: a 409 where the caller maps it.  The draft    *)
(* update and the cancellation of an issued invoice do not.                *)
KeyConflict(r) ==
    /\ ~ Matches(r, keyrow[call[r].key])
    /\ Refuse(r, IF path[r] \in {"edit", "cancel"} THEN "internal" ELSE "conflict")

(* Mutants: one attempt too many; the attempts are not counted.            *)
MayRetryOnceMore(r) == attempt[r] < 3

RetryForever(r) ==
    Leave(r, "begin", {}) /\ UNCHANGED <<tables, stamp, active, call, path, attempt, reply, edit>>

MayRetry(r) == attempt[r] < 2

(* P2034: up to three attempts, then TransactionConflictError.             *)
Retry(r) ==
    IF MayRetry(r)
    THEN /\ Leave(r, "begin", {})
         /\ attempt' = [attempt EXCEPT ![r] = @ + 1]
         /\ UNCHANGED <<tables, stamp, active, call, path, reply, edit>>
    ELSE Refuse(r, "conflict")
-----------------------------------------------------------------------------
(***************************************************************************)
(* Before the transaction.                                                 *)
(***************************************************************************)
(* Mutant: the key is looked up inside the transaction only.               *)
ReplaySkipped(r) == pc[r] = "replay" /\ Goto(r, "load") /\ UNCHANGED <<path, snap, todo>>

Replay(r) ==
    /\ pc[r] = "replay"
    /\ \/ ~ Found(r) /\ Goto(r, "load") /\ UNCHANGED <<path, snap, todo>>
       \/ Found(r) /\ (Replayed(r) \/ KeyConflict(r))

PathOf(status, to) ==
    CASE status = "DRAFT" /\ to = "ISSUED" -> "issue"
      [] status = "ISSUED" /\ to = "PAID" -> "pay"
      [] status = "DRAFT" /\ to = "CANCELLED" -> "void"
      [] status = "ISSUED" /\ to = "CANCELLED" -> "cancel"
      [] OTHER -> "none"

(* requireInvoice and the checks on the row it found.  When no transition  *)
(* applies a second requireInvoice only chooses the wording of the 409.    *)
Load(r) ==
    LET row == invoice[call[r].inv]
        chosen == IF call[r].op = "DRAFT_UPDATE"
                  THEN IF row.status = "DRAFT" THEN "edit" ELSE "none"
                  ELSE PathOf(row.status, call[r].to)
    IN  /\ pc[r] = "load"
        /\ \/ row.status = "NONE" /\ Refuse(r, "missing")
           \/ /\ row.status # "NONE"
              /\ row.version # call[r].ver \/ chosen = "none"
              /\ Refuse(r, "conflict")
           \/ /\ row.version = call[r].ver /\ chosen # "none"
              /\ Goto(r, IF chosen = "edit" THEN "resolve" ELSE "begin")
              /\ path' = [path EXCEPT ![r] = chosen]
              /\ UNCHANGED <<snap, todo>>

(* Mutant: quantityOnHand is not looked at.                                *)
ShortOfNone(items) == {}

ShortOf(items) == {p \in Products : items[p] > stock[p]}

(* resolveInvoice: the products named must be there and in stock, for now. *)
Resolve(r) ==
    LET gone  == {p \in ItemsOf(call[r].items) : ~ active[p]}
        short == ShortOf(call[r].items)
    IN  /\ pc[r] = "resolve"
        /\ \/ gone # {} /\ Refuse(r, "missing")
           \/ gone = {} /\ short # {} /\ Refuse(r, "invalid")
           \/ /\ gone = {} /\ short = {}
              /\ Goto(r, IF call[r].op = "CREATE" THEN "create" ELSE "begin")
              /\ UNCHANGED <<path, snap, todo>>

Create(r) ==
    /\ pc[r] = "create"
    /\ \E i \in Invoices :
        /\ invoice[i].status = "NONE"
        /\ invoice' = [invoice EXCEPT ![i] = DraftOf(call[r].items)]
        /\ Committed(r, 1, {i})
    /\ UNCHANGED <<stock, ledger, moved, keyrow, stamp, active, edit>>
-----------------------------------------------------------------------------
(***************************************************************************)
(* mutateWithIdempotency.                                                  *)
(***************************************************************************)
(* The status each repository method expects to find.                      *)
Source(method) == IF method \in {"pay", "cancel"} THEN "ISSUED" ELSE "DRAFT"

(* Mutants: an UPDATE without its WHERE on the version, or on both.        *)
ExpectedAnyVersion(r, row, status) == row.status = status
ExpectedAlways(r, row, status) == TRUE

(* WHERE status = ... AND version = expectedVersion.                       *)
Expected(r, row, status) == row.status = status /\ row.version = call[r].ver

Snapshot(r) ==
    LET row == invoice[call[r].inv]
    IN  [status |-> row.status, version |-> row.version, items |-> row.items,
         short |-> IF path[r] = "issue" THEN ShortOf(row.items) ELSE {}]

(* The first statement looks the key up and fixes the snapshot.            *)
Begin(r) ==
    /\ pc[r] = "begin"
    /\ \/ /\ ~ Found(r)
          /\ Goto(r, "insert")
          /\ snap' = [snap EXCEPT ![r] = IF Serializable(r) THEN Snapshot(r) ELSE NoSnap]
          /\ UNCHANGED <<path, todo>>
       \/ Found(r) /\ (Replayed(r) \/ KeyConflict(r))

(* The unique index on (userId, key) makes the insert wait for any open    *)
(* transaction that has inserted the same key.  If that one commits, the   *)
(* insert fails: P2002, or under SERIALIZABLE a serialization failure.     *)
Insert(r) ==
    /\ pc[r] = "insert"
    /\ \A s \in Reqs : ~ HasKey(s, call[r].key)
    /\ \/ ~ Found(r) /\ Goto(r, "mutate") /\ UNCHANGED <<path, snap, todo>>
       \/ /\ Found(r)
          /\ Leave(r, "dup", {})
          /\ UNCHANGED <<tables, stamp, active, call, path, attempt, reply, edit>>
       \/ Found(r) /\ Serializable(r) /\ Retry(r)

(* The P2002 handler, outside the transaction.                             *)
Dup(r) ==
    /\ pc[r] = "dup"
    /\ Replayed(r) \/ KeyConflict(r)

(* transition: one guarded UPDATE of the invoice row.                      *)
SetStatus(r) ==
    LET i == call[r].inv
        from == Source(path[r])
    IN  /\ pc[r] = "mutate"
        /\ path[r] \in {"pay", "void"}
        /\ \/ /\ Expected(r, invoice[i], from)
              /\ SetStatusTo(i, call[r].to)
              /\ RecordKey(call[r].key, "STATUS", i, call[r].to, Empty)
              /\ Committed(r, invoice[i].version + 1, {i})
              /\ UNCHANGED <<stock, ledger, moved, stamp, active, edit>>
           \/ ~ Expected(r, invoice[i], from) /\ Refuse(r, "conflict")

(* updateDraft: the guarded UPDATE and the replacement of the lines.       *)
EditDraft(r) ==
    LET i == call[r].inv
    IN  /\ pc[r] = "mutate"
        /\ path[r] = "edit"
        /\ \/ /\ Expected(r, invoice[i], "DRAFT")
              /\ SetItems(i, call[r].items)
              /\ RecordKey(call[r].key, "DRAFT_UPDATE", i, "DRAFT", call[r].items)
              /\ Committed(r, invoice[i].version + 1, {i})
              /\ UNCHANGED <<stock, ledger, moved, stamp, active, edit>>
           \/ ~ Expected(r, invoice[i], "DRAFT") /\ Refuse(r, "conflict")

(* issue and cancelIssued: the guarded read of the invoice.                *)
Open(r) ==
    LET from == Source(path[r])
    IN  /\ pc[r] = "mutate"
        /\ Serializable(r)
        /\ \/ /\ Expected(r, snap[r], from)
              /\ Goto(r, "lines")
              /\ todo' = [todo EXCEPT ![r] = ItemsOf(snap[r].items)]
              /\ UNCHANGED <<path, snap>>
           \/ ~ Expected(r, snap[r], from) /\ Refuse(r, "conflict")

(* One line: UPDATE the product, INSERT its movement.  The lines come in   *)
(* no particular order (the read has no ORDER BY).  The snapshot decides   *)
(* whether the UPDATE finds the row; a row changed since fails it; a row   *)
(* another transaction has updated makes it wait; and putting goods back   *)
(* may overflow the column, an error nobody maps.                          *)
Line(r, p) ==
    /\ pc[r] = "lines"
    /\ p \in todo[r]
    /\ \/ p \in snap[r].short /\ Refuse(r, "invalid")
       \/ p \notin snap[r].short /\ p \in missed[r] /\ Retry(r)
       \/ /\ p \notin snap[r].short \union missed[r]
          /\ Free(p)
          /\ path[r] = "cancel" /\ stock[p] + snap[r].items[p] > MaxInt
          /\ Refuse(r, "internal")
       \/ /\ p \notin snap[r].short \union missed[r]
          /\ Free(p)
          /\ path[r] = "cancel" => stock[p] + snap[r].items[p] <= MaxInt
          /\ Goto(r, "lines")
          /\ todo' = [todo EXCEPT ![r] = @ \ {p}]
          /\ UNCHANGED <<path, snap>>

ReasonOf(r) == IF path[r] = "issue" THEN "INVOICE_ISSUED" ELSE "INVOICE_CANCELLED"

(* The guarded UPDATE of the invoice, the key's completion, the COMMIT.    *)
Finish(r) ==
    LET i == call[r].inv
        lines == ItemsOf(snap[r].items)
    IN  /\ pc[r] = "lines"
        /\ todo[r] = {}
        /\ \/ i \in missed[r] /\ Retry(r)
           \/ /\ i \notin missed[r]
              /\ SetStatusTo(i, call[r].to)
              /\ RecordKey(call[r].key, "STATUS", i, call[r].to, Empty)
              /\ MoveGoods(i, snap[r].items, IF path[r] = "issue" THEN -1 ELSE 1, ReasonOf(r))
              /\ stamp' = [p \in Products |-> IF p \in lines THEN stamp[p] + 1 ELSE stamp[p]]
              /\ Committed(r, invoice[i].version + 1, lines \union {i})
              /\ UNCHANGED <<active, edit>>
-----------------------------------------------------------------------------
(***************************************************************************)
(* What PostgreSQL and the network may do to a request.                    *)
(***************************************************************************)

(* SERIALIZABLE aborts a transaction on a suspected dependency with        *)
(* another one it overlaps: still open, or committed since the snapshot.   *)
SerializationFailure(r) ==
    /\ InTx(r)
    /\ Serializable(r)
    /\ \/ missed[r] # {}
       \/ \E s \in Reqs \ {r} : InTx(s) /\ Serializable(s)
    /\ Retry(r)

(* Two transactions that take the same products in opposite orders: the    *)
(* deadlock detector aborts one of the cycle, which Prisma reports as      *)
(* P2034 too.                                                              *)
WaitsFor(r, s) ==
    /\ pc[r] = "lines"
    /\ \E p \in todo[r] \ (snap[r].short \union missed[r]) : HasLine(s, p)

DeadlockVictim(r) ==
    /\ \E S \in SUBSET Reqs :
        /\ r \in S
        /\ \A s \in S : (\E t \in S : WaitsFor(s, t)) /\ (\E t \in S : WaitsFor(t, s))
    /\ Retry(r)

(* A crash, a timed-out transaction or a dropped connection before the     *)
(* COMMIT: everything is rolled back.                                      *)
Lose(r) == pc[r] # "done" /\ Refuse(r, "lost")
-----------------------------------------------------------------------------
(***************************************************************************)
(* Product updates and deletions.                                          *)
(***************************************************************************)
EditRead(e) ==
    LET p == edit[e].want.product
    IN  /\ edit[e].pc = "read"
        /\ edit' = [edit EXCEPT ![e] =
                IF active[p] THEN [@ EXCEPT !.pc = "write", !.quantity = stock[p], !.stamp = stamp[p]]
                             ELSE [@ EXCEPT !.pc = "missing"]]
        /\ UNCHANGED <<tables, stamp, active, requests>>

(* Mutant: the UPDATE has no WHERE on updatedAt.                           *)
AsReadAlways(e) == active[edit[e].want.product]

AsRead(e) ==
    LET p == edit[e].want.product IN active[p] /\ stamp[p] = edit[e].stamp

(* UPDATE ... WHERE updatedAt = the one read, and the movement of the      *)
(* difference to the quantity read.  It waits for an open transaction that *)
(* has updated the row, then looks at the row again.                       *)
EditWrite(e) ==
    LET p == edit[e].want.product
        next == IF edit[e].want.quantity = Keep THEN edit[e].quantity ELSE edit[e].want.quantity
    IN  /\ edit[e].pc = "write"
        /\ Free(p)
        /\ \/ /\ AsRead(e)
              /\ stock' = IF edit[e].want.quantity = Keep THEN stock ELSE [stock EXCEPT ![p] = next]
              /\ ledger' = [ledger EXCEPT ![p]["MANUAL_ADJUSTMENT"] = @ + next - edit[e].quantity]
              /\ stamp' = [stamp EXCEPT ![p] = @ + 1]
              /\ missed' = Missed({p})
              /\ edit' = [edit EXCEPT ![e].pc = "saved", ![e].quantity = 0, ![e].stamp = 0]
              /\ UNCHANGED <<invoice, moved, keyrow, active,
                             pc, call, path, attempt, snap, todo, reply>>
           \/ /\ ~ AsRead(e)
              /\ edit' = [edit EXCEPT ![e].pc = "missing", ![e].quantity = 0, ![e].stamp = 0]
              /\ UNCHANGED <<tables, stamp, active, requests>>

(* An administrator's soft deletion.                                       *)
Delete(p) ==
    /\ active[p]
    /\ Free(p)
    /\ active' = [active EXCEPT ![p] = FALSE]
    /\ stamp' = [stamp EXCEPT ![p] = @ + 1]
    /\ missed' = Missed({p})
    /\ UNCHANGED <<tables, pc, call, path, attempt, snap, todo, reply, edit>>
-----------------------------------------------------------------------------
Step(r) ==
    \/ Replay(r) \/ Load(r) \/ Resolve(r) \/ Create(r)
    \/ Begin(r) \/ Insert(r) \/ Dup(r)
    \/ SetStatus(r) \/ EditDraft(r)
    \/ Open(r) \/ (\E p \in Products : Line(r, p)) \/ Finish(r)
    \/ DeadlockVictim(r)

EditStep(e) == EditRead(e) \/ EditWrite(e)

Next ==
    \/ \E r \in Reqs : Step(r) \/ SerializationFailure(r) \/ Lose(r)
    \/ \E e \in Editors : EditStep(e)
    \/ \E p \in Products : Delete(p)

Spec == Init /\ [][Next]_vars

(***************************************************************************)
(* The event loop and the database give every request its next step while  *)
(* it can take one; nobody promises failures, nor that they will not come. *)
(***************************************************************************)
FairSpec ==
    /\ Spec
    /\ \A r \in Reqs : WF_vars(Step(r))
    /\ \A e \in Editors : WF_vars(EditStep(e))
-----------------------------------------------------------------------------
(***************************************************************************)
(* Isolation: why checks made early still hold when the transaction        *)
(* commits.  It is stated request by request.                              *)
(***************************************************************************)

(* The branch a request is on is the one its body asks for.                *)
Target(method) ==
    CASE method = "issue" -> "ISSUED" [] method = "pay" -> "PAID" [] OTHER -> "CANCELLED"

OnPath(r) ==
    /\ pc[r] = "create" => call[r].op = "CREATE"
    /\ pc[r] = "resolve" /\ call[r].op # "CREATE" => path[r] = "edit"
    /\ path[r] = "edit" => call[r].op = "DRAFT_UPDATE"
    /\ path[r] \in {"issue", "pay", "void", "cancel"} =>
            call[r].op = "STATUS" /\ call[r].to = Target(path[r])
    /\ pc[r] = "lines" => Serializable(r) /\ Expected(r, snap[r], Source(path[r]))
    /\ pc[r] \in {"begin", "insert", "mutate", "dup"} => path[r] # "none"

(* Unless a later commit is known to have changed it, the invoice is as    *)
(* the snapshot shows it, and the products are as short as it shows them.  *)
SnapshotHolds(r) ==
    InTx(r) /\ Serializable(r) =>
        /\ call[r].inv \notin missed[r] =>
                /\ snap[r].status = invoice[call[r].inv].status
                /\ snap[r].version = invoice[call[r].inv].version
                /\ snap[r].items = invoice[call[r].inv].items
        /\ path[r] = "issue" =>
                \A p \in Products \ missed[r] : p \in snap[r].short <=> snap[r].items[p] > stock[p]

(* A line once updated can be committed.                                   *)
LinesSecured(r) ==
    \A p \in Products : HasLine(r, p) =>
        IF path[r] = "issue" THEN stock[p] >= snap[r].items[p]
                             ELSE stock[p] + snap[r].items[p] <= MaxInt

KeyFresh(r) == pc[r] \in {"mutate", "lines"} => ~ Found(r)

(* One open transaction at most has inserted a key, or updated a product.  *)
Apart(r, s) ==
    r # s => /\ ~ \E k \in Keys : HasKey(r, k) /\ HasKey(s, k)
             /\ ~ \E p \in Products : HasLine(r, p) /\ HasLine(s, p)

(* An editor that finds the time stamp it read finds the quantity it read. *)
EditorHolds(e) ==
    LET p == edit[e].want.product
    IN  edit[e].pc = "write" =>
            edit[e].stamp <= stamp[p] /\ (edit[e].stamp = stamp[p] => edit[e].quantity = stock[p])

(***************************************************************************)
(* Every open transaction is entitled to what it has not committed yet: no *)
(* other one holds its key or its products, what it read before is still   *)
(* so or is known to be stale, and a product update that finds its time    *)
(* stamp finds its quantity.                                               *)
(***************************************************************************)
Isolation ==
    /\ \A r \in Reqs :
        OnPath(r) /\ SnapshotHolds(r) /\ LinesSecured(r) /\ KeyFresh(r)
            /\ \A s \in Reqs : Apart(r, s)
    /\ \A e \in Editors : EditorHolds(e)
-----------------------------------------------------------------------------
(***************************************************************************)
(* Refinement: whatever the interleaving of statements, retries, aborts    *)
(* and lost answers, the tables change only as StockContract's atomic      *)
(* operations change them, each under its own guard.                       *)
(***************************************************************************)
Refines == Contract!Spec

(***************************************************************************)
(* Optimistic concurrency of the If-Match header: of all the requests that *)
(* name one version of one invoice, at most one is told that its mutation  *)
(* was applied.                                                            *)
(***************************************************************************)
OneWinner ==
    \A r, s \in Reqs :
        /\ r # s
        /\ "CREATE" \notin {call[r].op, call[s].op}
        /\ call[r].inv = call[s].inv /\ call[r].ver = call[s].ver
        => ~ (reply[r].kind = "ok" /\ reply[s].kind = "ok")

(***************************************************************************)
(* The answers and the idempotency table agree.  A 200 means that the key  *)
(* is recorded for this very request (with the version answered, when the  *)
(* request applied it itself); and every recorded key was recorded by a    *)
(* request that asked for just that at the version before, and that was    *)
(* told so or lost its answer: a request that is refused changed nothing.  *)
(***************************************************************************)
Author(r, k) ==
    /\ call[r].op # "CREATE" /\ call[r].key = k
    /\ Matches(r, keyrow[k]) /\ keyrow[k].version = call[r].ver + 1

AnswersMatchRecords ==
    /\ \A r \in Reqs : call[r].op # "CREATE" =>
        /\ reply[r].kind = "ok" =>
            Found(r) /\ Author(r, call[r].key) /\ reply[r].version = keyrow[call[r].key].version
        /\ reply[r].kind = "replayed" =>
            Found(r) /\ Matches(r, keyrow[call[r].key])
                /\ reply[r].version >= keyrow[call[r].key].version
    /\ \A k \in Keys : keyrow[k] # NoRow =>
        \E r \in Reqs : Author(r, k) /\ reply[r].kind \in {"ok", "lost"}

(***************************************************************************)
(* Nobody waits for ever: through lock waits, deadlocks and retries every  *)
(* request, and every product update, comes to an answer.                  *)
(***************************************************************************)
EveryRequestAnswered ==
    /\ \A r \in Reqs : <>(pc[r] = "done")
    /\ \A e \in Editors : <>(edit[e].pc \in {"saved", "missing"})

(***************************************************************************)
(* A client that lost its answer may ask again: a request that arrives     *)
(* when its key is recorded for it is answered from the record, however    *)
(* far the invoice has moved on, or loses its answer again.                *)
(***************************************************************************)
RetriesReplay ==
    \A r \in Reqs :
        (pc[r] = "replay" /\ Found(r) /\ Matches(r, keyrow[call[r].key]))
            ~> (reply[r].kind \in {"replayed", "lost"})
-----------------------------------------------------------------------------
(***************************************************************************)
(* What the documentation says and the code does not do.                   *)
(***************************************************************************)

(* "Unique key for retry-safe mutation" (invoices.controller.ts:137, 172): *)
(* a request is not refused with 409 at a moment when its key is already   *)
(* recorded for that same request at that same version.  It is: the key is *)
(* looked up before the version is, and not again.                         *)
RetrySafe ==
    [][\A r \in Reqs :
            reply[r].kind = "none" /\ reply'[r].kind = "conflict"
                => ~ (Found(r) /\ Author(r, call[r].key))]_vars

(* 409 "The status transition is not allowed or conflicted."               *)
(* (invoices.controller.ts:180): a status change whose key belongs to      *)
(* another request is not answered with 500.  Cancelling an issued invoice *)
(* is: its catch leaves IdempotencyConflictError out.                      *)
KeyReuseIsConflict ==
    [][\A r \in Reqs :
            call[r].op = "STATUS" /\ Found(r) /\ ~ Matches(r, keyrow[call[r].key])
                => ~ (reply[r].kind = "none" /\ reply'[r].kind = "internal")]_vars

(* 404 "Product not found." (products.controller.ts:128): an update that   *)
(* is told so names a product that is not there any more.  It may well be: *)
(* a concurrent write to the row gives the same answer.                    *)
NotFoundMeansGone ==
    \A e \in Editors : edit[e].pc = "missing" => ~ active[edit[e].want.product]
=============================================================================
