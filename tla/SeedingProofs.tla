--------------------------- MODULE SeedingProofs ---------------------------
(***************************************************************************)
(* Proofs about the seeds, for any number of them, of accounts, lines and  *)
(* products, and whatever the service does meanwhile.                      *)
(***************************************************************************)
EXTENDS Seeding, Sums

(***************************************************************************)
(* The rows.  What a seed writes has the id of its line, is as the line    *)
(* says until it commits, and is only there while the seed is in its       *)
(* transaction or after it.  An id without a row has no movements.         *)
(***************************************************************************)
Begun == InTransaction \union {"done"}

HandedRows == \A p \in Handed : product[p] # NoRow => product[p].by = Service

SeedRows == \A s \in Seeds, n \in DOMAIN Lines :
    product[<<s, n>>] # NoRow =>
        /\ product[<<s, n>>].by = s
        /\ product[<<s, n>>].sku = Lines[n].sku
        /\ pc[s] \in Begun
        /\ n < line[s] \/ (n = line[s] /\ pc[s] \notin {"find", "insert"})
        /\ pc[s] # "done" =>
            product[<<s, n>>].stock = Lines[n].quantity /\ rest[<<s, n>>] = 0

NoRowNoMovement == \A p \in Ids :
    product[p] = NoRow => rest[p] = 0 /\ \A m \in opening : m.id # p

RowsInv == HandedRows /\ SeedRows /\ NoRowNoMovement

(***************************************************************************)
(* The movements.  A product is opened once, one that is not committed by  *)
(* the seed that wrote it, and each stock is explained: by its movement,   *)
(* or its seed has yet to write that.                                      *)
(***************************************************************************)
MovesInv ==
    /\ \A m \in opening : m.by \in Seeds => pc[m.by] \in Begun
    /\ \A m \in opening : Pending(product[m.id]) => m.by = product[m.id].by
    /\ \A m, n \in opening : m.id = n.id => m = n

Balanced(p) == \E m \in opening :
    /\ m.id = p /\ product[p].stock = m.quantity + rest[p]
    /\ Pending(m) => Pending(product[p])

Unopened(p) ==
    /\ \A m \in opening : m.id # p
    /\ \E s \in Seeds : product[p].by = s /\ pc[s] \in {"look", "move"} /\ found[s] = p

OpenedInv == \A p \in Ids \ Legacy : product[p] # NoRow => Balanced(p) \/ Unopened(p)

(***************************************************************************)
(* What a seed has found, what it has behind it, and that what it did not  *)
(* find is not there while nobody else commits.                            *)
(***************************************************************************)
Finds(s) ==
    /\ pc[s] = "account" => line[s] \in DOMAIN Accounts
    /\ pc[s] \in InTransaction => line[s] \in DOMAIN Lines
    /\ pc[s] = "commit" => line[s] = Len(Lines)
    /\ pc[s] \in {"look", "move"} =>
        /\ found[s] \in Ids /\ product[found[s]] # NoRow
        /\ product[found[s]].sku = Line(s).sku
        /\ Visible(s, product[found[s]])

Complete(s, n) == \E p \in Ids :
    /\ product[p] # NoRow /\ product[p].sku = Lines[n].sku /\ Visible(s, product[p])
    /\ \E m \in opening : m.id = p /\ Visible(s, m)

Did(s) ==
    /\ pc[s] = "account" => \A n \in 1 .. line[s] - 1 : Accounts[n] \in accounts
    /\ pc[s] \in Begun =>
        /\ accounts = AccountNames
        /\ \A n \in DOMAIN Lines : n < line[s] \/ pc[s] \in {"commit", "done"} => Complete(s, n)

Uncrossed(s) == ~ crossed[s] =>
    /\ pc[s] # "duplicate"
    /\ pc[s] = "insert" => \A p \in Ids :
        product[p] # NoRow /\ product[p].sku = Line(s).sku => ~ Visible(s, product[p])
    /\ pc[s] = "move" => \A m \in opening : m.id = found[s] => ~ Visible(s, m)

SeedInv == \A s \in Seeds : Finds(s) /\ Did(s) /\ Uncrossed(s)

Inv == TypeOK /\ RowsInv /\ MovesInv /\ OpenedInv /\ SeedInv
-----------------------------------------------------------------------------
LEMMA LineFacts ==
    /\ Len(Lines) \in Nat \ {0} /\ DOMAIN Lines = 1 .. Len(Lines)
    /\ \A n \in DOMAIN Lines : Lines[n].sku \in Skus /\ Lines[n].quantity \in Nat
    /\ Len(Accounts) \in Nat \ {0} /\ DOMAIN Accounts = 1 .. Len(Accounts)
    /\ \A n \in DOMAIN Accounts : Accounts[n] \in AccountNames
<1>1. Len(Lines) \in Nat /\ DOMAIN Lines = 1 .. Len(Lines) /\ Lines # <<>>
  BY LinesAssumption
<1>2. Len(Lines) # 0
  BY <1>1, LinesAssumption
<1>3. \A n \in DOMAIN Lines : Lines[n] \in [sku : Skus, quantity : Nat]
  <2> DEFINE S == [sku : Skus, quantity : Nat]
  <2>1. Lines \in Seq(S)
    BY LinesAssumption
  <2>2. \A n \in 1 .. Len(Lines) : Lines[n] \in S
    <3> HIDE DEF S
    <3> QED
      BY <2>1
  <2> QED
    BY <1>1, <2>2
<1>4. Len(Accounts) \in Nat /\ DOMAIN Accounts = 1 .. Len(Accounts)
  BY LinesAssumption
<1>5. Len(Accounts) # 0
  BY <1>4, LinesAssumption
<1> QED
  BY <1>1, <1>2, <1>3, <1>4, <1>5 DEF AccountNames

LEMMA OwnerOf ==
    ASSUME TypeOK, RowsInv, NEW p \in Ids, product[p] # NoRow
    PROVE  /\ product[p] \in ProductRow
           /\ p \in Handed => product[p].by = Service
           /\ p \notin Handed => \E n \in DOMAIN Lines : p = <<product[p].by, n>>
           /\ product[p].by \in Seeds => pc[product[p].by] \in Begun
BY IdsAssumption DEF TypeOK, RowsInv, HandedRows, SeedRows, Ids, Begun

LEMMA MovementOf ==
    ASSUME TypeOK, RowsInv, NEW m \in opening
    PROVE  /\ m.id \in Ids /\ m.quantity \in Int /\ m.by \in Seeds \union {Service}
           /\ product[m.id] # NoRow /\ product[m.id] \in ProductRow
BY DEF TypeOK, RowsInv, NoRowNoMovement

(***************************************************************************)
(* A seed that does not move keeps what is true of it if it still sees     *)
(* what it saw, and sees nothing new or is told so by crossed.             *)
(***************************************************************************)
StillSeen(t) ==
    /\ \A p \in Ids : product[p] # NoRow /\ Visible(t, product[p]) =>
        product'[p] # NoRow /\ product'[p].sku = product[p].sku /\ Visible(t, product[p])'
    /\ \A m \in opening : Visible(t, m) => m \in opening' /\ Visible(t, m)'

NothingNew(t) ==
    /\ \A p \in Ids : product'[p] # NoRow /\ Visible(t, product[p])' =>
        product[p] # NoRow /\ product'[p].sku = product[p].sku /\ Visible(t, product[p])
    /\ \A m \in opening' : Visible(t, m)' => m \in opening /\ Visible(t, m)

LEMMA BystanderKeeps ==
    ASSUME Inv, NEW t \in Seeds,
           pc'[t] = pc[t] /\ line'[t] = line[t] /\ found'[t] = found[t],
           accounts \subseteq accounts' /\ accounts' \subseteq AccountNames,
           StillSeen(t), crossed[t] => crossed'[t],
           crossed'[t] \/ NothingNew(t) \/ pc[t] \notin {"insert", "move"}
    PROVE  (Finds(t) /\ Did(t) /\ Uncrossed(t))'
<1>0. Finds(t) /\ Did(t) /\ Uncrossed(t) /\ Line(t)' = Line(t)
  BY DEF Inv, SeedInv, Line
<1>1. Finds(t)'
  BY <1>0 DEF Finds, StillSeen
<1>2. \A n \in DOMAIN Lines : Complete(t, n) => Complete(t, n)'
  BY DEF Complete, StillSeen
<1>3. Did(t)'
  BY <1>0, <1>2 DEF Did
<1>4. Uncrossed(t)'
  BY <1>0 DEF Uncrossed, NothingNew
<1> QED
  BY <1>1, <1>3, <1>4
-----------------------------------------------------------------------------
(***************************************************************************)
(* The steps of a seed.  Each keeps the invariant; what it leaves to the   *)
(* other seeds is BystanderKeeps.                                          *)
(***************************************************************************)
LEMMA UpsertAccountKeeps ==
    ASSUME Inv, NEW s \in Seeds, UpsertAccount(s)
    PROVE  Inv'
<1>0. /\ pc[s] = "account" /\ line[s] \in DOMAIN Accounts
      /\ UNCHANGED <<product, opening, rest, found, crossed>>
      /\ \A t \in Seeds \ {s} : pc'[t] = pc[t] /\ line'[t] = line[t]
      /\ accounts \subseteq accounts' /\ accounts' \subseteq AccountNames
      /\ \/ pc'[s] = "account" /\ line'[s] = line[s] + 1 /\ line[s] < Len(Accounts)
         \/ pc'[s] = "find" /\ line'[s] = 1 /\ line[s] = Len(Accounts)
      /\ accounts' = accounts \union {Accounts[line[s]]}
  BY LineFacts DEF UpsertAccount, Goto, Inv, TypeOK, SeedInv, Finds
<1>1. TypeOK'
  <2>1. line' \in [Seeds -> Nat \ {0}]
    <3>1. line' = [line EXCEPT ![s] = line[s] + 1] \/ line' = [line EXCEPT ![s] = 1]
      BY DEF UpsertAccount
    <3>2. line \in [Seeds -> Nat \ {0}]
      BY DEF Inv, TypeOK
    <3> QED
      BY <3>1, <3>2
  <2>2. pc' \in [Seeds -> InTransaction \union {"account", "done", "duplicate", "lost"}]
    BY DEF UpsertAccount, Goto, Inv, TypeOK, InTransaction
  <2> QED
    BY <1>0, <2>1, <2>2 DEF Inv, TypeOK
<1>2. RowsInv'
  BY <1>0 DEF Inv, RowsInv, HandedRows, SeedRows, NoRowNoMovement, Begun, InTransaction
<1>3. /\ \A p \in Ids : product[p] # NoRow => product[p].by # s
      /\ \A m \in opening : m.by # s
  <2>1. pc[s] \notin Begun
    BY <1>0 DEF Begun, InTransaction
  <2> QED
    BY <2>1, OwnerOf DEF Inv, MovesInv
<1>4. /\ \A p \in Ids : product[p] # NoRow => (Pending(product[p])' <=> Pending(product[p]))
      /\ \A m \in opening : (Pending(m)' <=> Pending(m))
  BY <1>0, <1>3 DEF Pending
<1>5. MovesInv'
  BY <1>0, <1>3, <1>4, MovementOf DEF Inv, MovesInv, Begun
<1>6. OpenedInv'
  <2>1. ASSUME NEW p \in Ids, product[p] # NoRow, Balanced(p) PROVE Balanced(p)'
    BY <1>0, <1>4, <2>1 DEF Balanced
  <2>2. ASSUME NEW p \in Ids, Unopened(p) PROVE Unopened(p)'
    BY <1>0, <2>2 DEF Unopened
  <2> QED
    BY <1>0, <2>1, <2>2 DEF Inv, OpenedInv
<1>7. ASSUME NEW t \in Seeds \ {s} PROVE (Finds(t) /\ Did(t) /\ Uncrossed(t))'
  <2>1. StillSeen(t) /\ NothingNew(t)
    BY <1>0, <1>4 DEF StillSeen, NothingNew, Visible
  <2> QED
    BY <1>0, <2>1, BystanderKeeps
<1>8. (Finds(s) /\ Did(s) /\ Uncrossed(s))'
  <2>1. Finds(s)'
    BY <1>0, LineFacts DEF Finds, InTransaction
  <2>2. \A n \in 1 .. line[s] : Accounts[n] \in accounts'
    BY <1>0, LineFacts DEF Inv, SeedInv, Did
  <2>3. Did(s)'
    <3>1. CASE pc'[s] = "account"
      BY <1>0, <2>2, <3>1, LineFacts DEF Did, Begun, InTransaction
    <3>2. CASE pc'[s] = "find"
      BY <1>0, <2>2, <3>2, LineFacts DEF Did, AccountNames
    <3> QED
      BY <1>0, <3>1, <3>2
  <2>4. Uncrossed(s)'
    BY <1>0 DEF Uncrossed
  <2> QED
    BY <2>1, <2>3, <2>4
<1> QED
  BY <1>1, <1>2, <1>5, <1>6, <1>7, <1>8 DEF Inv, SeedInv

(***************************************************************************)
(* A step within a transaction that writes nothing: whether a row is       *)
(* pending does not change, for the seed is in its transaction before and  *)
(* after.                                                                  *)
(***************************************************************************)
LEMMA QuietKeeps ==
    ASSUME Inv, NEW s \in Seeds, pc[s] \in InTransaction, pc'[s] \in InTransaction,
           UNCHANGED <<accounts, product, opening, rest, crossed>>,
           \A t \in Seeds \ {s} : pc'[t] = pc[t] /\ line'[t] = line[t] /\ found'[t] = found[t],
           TypeOK',
           \/ line'[s] > line[s]
           \/ line'[s] = line[s] /\ (pc'[s] \in {"find", "insert"} => pc[s] \in {"find", "insert"}),
           \A p \in Ids : product[p] # NoRow /\ Unopened(p) => Unopened(p)',
           (Finds(s) /\ Did(s) /\ Uncrossed(s))'
    PROVE  Inv'
<1>1. \A row : Pending(row)' <=> Pending(row)
  BY DEF Pending
<1>2. RowsInv'
  <2>1. HandedRows' /\ NoRowNoMovement'
    BY DEF Inv, RowsInv, HandedRows, NoRowNoMovement
  <2>2. SeedRows'
    <3> SUFFICES ASSUME NEW t \in Seeds, NEW n \in DOMAIN Lines, product[<<t, n>>] # NoRow
                 PROVE  /\ product[<<t, n>>].by = t
                        /\ product[<<t, n>>].sku = Lines[n].sku
                        /\ pc'[t] \in Begun
                        /\ n < line'[t] \/ (n = line'[t] /\ pc'[t] \notin {"find", "insert"})
                        /\ pc'[t] # "done" =>
                            product[<<t, n>>].stock = Lines[n].quantity /\ rest[<<t, n>>] = 0
      BY DEF SeedRows
    <3>1. /\ product[<<t, n>>].by = t
          /\ product[<<t, n>>].sku = Lines[n].sku
          /\ pc[t] \in Begun
          /\ n < line[t] \/ (n = line[t] /\ pc[t] \notin {"find", "insert"})
          /\ pc[t] # "done" =>
                product[<<t, n>>].stock = Lines[n].quantity /\ rest[<<t, n>>] = 0
      BY DEF Inv, RowsInv, SeedRows
    <3>2. n \in Nat /\ line[s] \in Nat /\ line'[s] \in Nat
      BY LineFacts DEF Inv, TypeOK
    <3> QED
      BY <3>1, <3>2 DEF Begun, InTransaction
  <2> QED
    BY <2>1, <2>2 DEF RowsInv
<1>3. MovesInv'
  BY <1>1 DEF Inv, MovesInv, Begun
<1>4. OpenedInv'
  <2>1. ASSUME NEW p \in Ids, Balanced(p) PROVE Balanced(p)'
    BY <1>1, <2>1 DEF Balanced
  <2> QED
    BY <2>1 DEF Inv, OpenedInv
<1>5. ASSUME NEW t \in Seeds \ {s} PROVE (Finds(t) /\ Did(t) /\ Uncrossed(t))'
  <2>1. StillSeen(t) /\ NothingNew(t)
    BY <1>1 DEF StillSeen, NothingNew, Visible
  <2> QED
    BY <2>1, BystanderKeeps DEF Inv, TypeOK
<1> QED
  BY <1>2, <1>3, <1>4, <1>5 DEF Inv, SeedInv

LEMMA FindKeeps ==
    ASSUME Inv, NEW s \in Seeds, Find(s)
    PROVE  Inv'
<1> DEFINE rows == {p \in Holding(Line(s).sku) : Visible(s, product[p])}
<1>0. /\ pc[s] = "find" /\ line[s] \in DOMAIN Lines
      /\ UNCHANGED <<accounts, product, opening, rest, line, crossed>>
      /\ \A t \in Seeds \ {s} : pc'[t] = pc[t] /\ found'[t] = found[t]
      /\ \/ rows = {} /\ pc'[s] = "insert" /\ UNCHANGED found
         \/ pc'[s] = "look" /\ found'[s] \in rows
  BY DEF Find, Goto, Inv, TypeOK, SeedInv, Finds, InTransaction
<1>1. TypeOK'
  <2>1. pc' \in [Seeds -> InTransaction \union {"account", "done", "duplicate", "lost"}]
    BY DEF Find, Goto, Inv, TypeOK, InTransaction
  <2>2. found' \in [Seeds -> Ids \union {NoRow}]
    BY DEF Find, Inv, TypeOK, Holding
  <2>3. pc'[s] \in {"look", "move"} => found'[s] # NoRow
    BY <1>0, IdsAssumption DEF Holding
  <2> QED
    BY <1>0, <2>1, <2>2, <2>3 DEF Inv, TypeOK
<1>2. \A row : Pending(row)' <=> Pending(row)
  BY <1>0 DEF Pending, InTransaction
<1>3. Finds(s)'
  BY <1>0, <1>2 DEF Finds, Holding, Visible, Line, InTransaction
<1>4. Did(s)'
  <2>1. \A n \in DOMAIN Lines : Complete(s, n) => Complete(s, n)'
    BY <1>0, <1>2 DEF Complete, Visible
  <2> QED
    BY <1>0, <2>1 DEF Inv, SeedInv, Did, Begun, InTransaction
<1>5. Uncrossed(s)'
  BY <1>0, <1>2 DEF Uncrossed, Holding, Visible, Line
<1>6. \A p \in Ids : product[p] # NoRow /\ Unopened(p) => Unopened(p)'
  BY <1>0 DEF Unopened
<1> QED
  BY <1>0, <1>1, <1>3, <1>4, <1>5, <1>6, QuietKeeps DEF InTransaction

LEMMA LookKeeps ==
    ASSUME Inv, NEW s \in Seeds, Look(s)
    PROVE  Inv'
<1> DEFINE p == found[s]
<1>0. /\ pc[s] = "look" /\ line[s] \in DOMAIN Lines
      /\ UNCHANGED <<accounts, product, opening, rest, found, crossed>>
      /\ \A t \in Seeds \ {s} : pc'[t] = pc[t] /\ line'[t] = line[t]
      /\ p \in Ids /\ product[p] # NoRow /\ product[p].sku = Line(s).sku /\ Visible(s, product[p])
  BY DEF Look, NextLine, Goto, Inv, TypeOK, SeedInv, Finds, InTransaction
<1>a. \/ /\ \A m \in opening : m.id = p => ~ Visible(s, m)
         /\ pc'[s] = "move" /\ line'[s] = line[s]
      \/ /\ \E m \in opening : m.id = p /\ Visible(s, m)
         /\ \/ pc'[s] = "find" /\ line'[s] = line[s] + 1 /\ line[s] < Len(Lines)
            \/ pc'[s] = "commit" /\ line'[s] = line[s] /\ line[s] = Len(Lines)
  BY <1>0, LineFacts DEF Look, InitialStock, Opened, NextLine, Goto, Inv, TypeOK
<1>1. TypeOK'
  <2>1. pc' \in [Seeds -> InTransaction \union {"account", "done", "duplicate", "lost"}]
    BY DEF Look, NextLine, Goto, Inv, TypeOK, InTransaction
  <2>2. line' \in [Seeds -> Nat \ {0}]
    <3>1. line' = [line EXCEPT ![s] = line[s] + 1] \/ line' = line
      BY DEF Look, NextLine
    <3>2. line \in [Seeds -> Nat \ {0}]
      BY DEF Inv, TypeOK
    <3> QED
      BY <3>1, <3>2
  <2> QED
    BY <1>0, <2>1, <2>2, IdsAssumption DEF Inv, TypeOK
<1>2. \A row : Pending(row)' <=> Pending(row)
  BY <1>0, <1>a DEF Pending, InTransaction
<1>3. Finds(s)'
  BY <1>0, <1>a, <1>2, LineFacts DEF Finds, Visible, Line, InTransaction
<1>4. Did(s)'
  <2>1. \A n \in DOMAIN Lines : Complete(s, n) => Complete(s, n)'
    BY <1>0, <1>2 DEF Complete, Visible
  <2>2. accounts = AccountNames /\ \A n \in DOMAIN Lines : n < line[s] => Complete(s, n)
    BY <1>0 DEF Inv, SeedInv, Did, Begun, InTransaction
  <2>3. CASE pc'[s] = "move"
    BY <1>0, <1>a, <2>1, <2>2, <2>3 DEF Did
  <2>4. CASE \E m \in opening : m.id = p /\ Visible(s, m)
    <3>1. Complete(s, line[s])
      BY <1>0, <2>4 DEF Complete, Line
    <3>2. \A n \in DOMAIN Lines : n < line[s] + 1 => Complete(s, n)
      BY <1>0, <2>2, <3>1, LineFacts
    <3> QED
      BY <1>0, <1>a, <2>1, <2>2, <3>2, LineFacts DEF Did
  <2> QED
    BY <1>a, <2>3, <2>4
<1>5. Uncrossed(s)'
  BY <1>0, <1>a, <1>2 DEF Uncrossed, Visible
<1>6. \A q \in Ids : product[q] # NoRow /\ Unopened(q) => Unopened(q)'
  BY <1>0, <1>a DEF Unopened
<1>7. \/ line'[s] > line[s]
      \/ line'[s] = line[s] /\ (pc'[s] \in {"find", "insert"} => pc[s] \in {"find", "insert"})
  <2>1. line[s] \in Nat
    BY <1>0, LineFacts
  <2>2. CASE line'[s] = line[s] + 1
    BY <2>1, <2>2
  <2>3. CASE line'[s] = line[s] /\ pc'[s] \in {"move", "commit"}
    BY <2>3
  <2> QED
    BY <1>a, <2>2, <2>3
<1> QED
  BY <1>0, <1>a, <1>1, <1>3, <1>4, <1>5, <1>6, <1>7, QuietKeeps DEF InTransaction

(***************************************************************************)
(* A transaction that ends without committing takes its rows with it.  No  *)
(* other seed saw them, and a movement of another writer is never about    *)
(* one of its products.                                                    *)
(***************************************************************************)
LEMMA RollBackKeeps ==
    ASSUME Inv, NEW s \in Seeds, pc[s] \in InTransaction \union {"account"},
           NEW how \in {"duplicate", "lost"}, how = "duplicate" => crossed[s],
           RollBack(s, how)
    PROVE  Inv'
<1>0. /\ pc'[s] = how /\ UNCHANGED <<accounts, rest, line, found, crossed>>
      /\ \A t \in Seeds \ {s} : pc'[t] = pc[t]
      /\ \A p \in Ids : product[p] # NoRow /\ product[p].by = s => product'[p] = NoRow
      /\ \A p \in Ids : ~ (product[p] # NoRow /\ product[p].by = s) => product'[p] = product[p]
      /\ opening' = {m \in opening : m.by # s}
  BY DEF RollBack, Goto, Inv, TypeOK
<1>a. how \notin Begun /\ how \notin InTransaction /\ how # "account"
  BY DEF Begun, InTransaction
<1>1. TypeOK'
  <2>1. product' \in [Ids -> ProductRow \union {NoRow}]
    BY DEF RollBack, Inv, TypeOK
  <2>2. pc' \in [Seeds -> InTransaction \union {"account", "done", "duplicate", "lost"}]
    BY DEF RollBack, Goto, Inv, TypeOK
  <2>3. \A t \in Seeds : pc'[t] \in {"look", "move"} => found'[t] # NoRow
    BY <1>0 DEF Inv, TypeOK
  <2> QED
    BY <1>0, <2>1, <2>2, <2>3 DEF Inv, TypeOK
<1>2. pc[s] = "account" =>
        /\ \A p \in Ids : product[p] # NoRow => product[p].by # s
        /\ \A m \in opening : m.by # s
  <2>1. pc[s] = "account" => pc[s] \notin Begun
    BY DEF Begun, InTransaction
  <2> QED
    BY <2>1, OwnerOf DEF Inv, MovesInv
<1>3. \A row : row.by # s => (Pending(row)' <=> Pending(row))
  BY <1>0 DEF Pending
<1>4. /\ \A p \in Ids : product[p] # NoRow /\ product[p].by = s => Pending(product[p])
      /\ \A m \in opening : m.by = s => Pending(m)
  BY <1>2 DEF Pending
<1>5. RowsInv'
  <2>1. HandedRows'
    BY <1>0 DEF Inv, RowsInv, HandedRows, Ids
  <2>2. SeedRows'
    BY <1>0, <1>a DEF Inv, RowsInv, SeedRows, Ids
  <2>3. ASSUME NEW p \in Ids, product'[p] = NoRow
        PROVE  rest[p] = 0 /\ \A m \in opening' : m.id # p
    <3>1. CASE product[p] = NoRow
      BY <1>0, <3>1 DEF Inv, RowsInv, NoRowNoMovement
    <3>2. CASE product[p] # NoRow
      <4>1. product[p].by = s
        BY <1>0, <2>3, <3>2
      <4>2. \A m \in opening : m.id = p => m.by = s
        BY <1>4, <3>2, <4>1 DEF Inv, MovesInv
      <4>3. PICK n \in DOMAIN Lines : p = <<s, n>>
        BY <3>2, <4>1, OwnerOf, IdsAssumption DEF Inv
      <4>4. pc[s] # "done"
        BY DEF InTransaction
      <4>5. rest[p] = 0
        BY <3>2, <4>3, <4>4 DEF Inv, RowsInv, SeedRows
      <4> QED
        BY <1>0, <4>2, <4>5
    <3> QED
      BY <3>1, <3>2
  <2>4. NoRowNoMovement'
    BY <1>0, <2>3 DEF NoRowNoMovement
  <2> QED
    BY <2>1, <2>2, <2>4 DEF RowsInv
<1>6. \A m \in opening' : m \in opening /\ m.by # s /\ product'[m.id] = product[m.id]
                            /\ product[m.id].by # s
  <2> SUFFICES ASSUME NEW m \in opening, m.by # s
               PROVE  product'[m.id] = product[m.id] /\ product[m.id].by # s
    BY <1>0
  <2>1. m.id \in Ids /\ product[m.id] # NoRow
    BY MovementOf DEF Inv
  <2>2. product[m.id].by # s
    BY <1>4, <2>1 DEF Inv, MovesInv
  <2> QED
    BY <1>0, <2>1, <2>2
<1>7. MovesInv'
  <2>1. \A m \in opening' : m.by \in Seeds => pc'[m.by] \in Begun
    BY <1>0, <1>6 DEF Inv, MovesInv
  <2>2. \A m \in opening' : Pending(product[m.id])' => m.by = product'[m.id].by
    BY <1>3, <1>6 DEF Inv, MovesInv
  <2> QED
    BY <1>6, <2>1, <2>2 DEF Inv, MovesInv
<1>8. OpenedInv'
  <2> SUFFICES ASSUME NEW p \in Ids \ Legacy, product'[p] # NoRow
               PROVE  (Balanced(p) \/ Unopened(p))'
    BY DEF OpenedInv
  <2>1. product'[p] = product[p] /\ product[p] # NoRow /\ product[p].by # s
    BY <1>0
  <2>2. CASE Balanced(p)
    <3>1. PICK m \in opening : /\ m.id = p /\ product[p].stock = m.quantity + rest[p]
                               /\ Pending(m) => Pending(product[p])
      BY <2>2 DEF Balanced
    <3>2. m.by # s
      BY <1>4, <2>1, <3>1 DEF Inv, MovesInv
    <3>3. m \in opening' /\ (Pending(m)' => Pending(product[p])')
      BY <1>0, <1>3, <2>1, <3>1, <3>2
    <3> QED
      BY <1>0, <2>1, <3>1, <3>3 DEF Balanced
  <2>3. CASE Unopened(p)
    BY <1>0, <2>1, <2>3 DEF Unopened
  <2> QED
    BY <2>1, <2>2, <2>3 DEF Inv, OpenedInv
<1>9. ASSUME NEW t \in Seeds \ {s} PROVE (Finds(t) /\ Did(t) /\ Uncrossed(t))'
  <2>1. /\ \A p \in Ids : product[p] # NoRow /\ Visible(t, product[p]) => product[p].by # s
        /\ \A m \in opening : Visible(t, m) => m.by # s
    BY <1>4 DEF Visible
  <2>2. StillSeen(t)
    BY <1>0, <1>3, <2>1 DEF StillSeen, Visible
  <2>3. NothingNew(t)
    BY <1>0, <1>3 DEF NothingNew, Visible
  <2> QED
    BY <1>0, <2>2, <2>3, BystanderKeeps DEF Inv, TypeOK
<1>10. (Finds(s) /\ Did(s) /\ Uncrossed(s))'
  BY <1>0, <1>a DEF Finds, Did, Uncrossed, InTransaction
<1> QED
  BY <1>1, <1>5, <1>7, <1>8, <1>9, <1>10 DEF Inv, SeedInv

LEMMA LoseKeeps ==
    ASSUME Inv, NEW s \in Seeds, Lose(s)
    PROVE  Inv'
BY RollBackKeeps DEF Lose

LEMMA CommitKeeps ==
    ASSUME Inv, NEW s \in Seeds, Commit(s)
    PROVE  Inv'
<1>0. /\ pc[s] = "commit" /\ pc'[s] = "done"
      /\ UNCHANGED <<accounts, product, opening, rest, line, found>>
      /\ \A t \in Seeds \ {s} : pc'[t] = pc[t]
      /\ \A t \in Seeds : crossed'[t] = (crossed[t] \/ pc[t] \in InTransaction \union {"account"})
  BY DEF Commit, Crossed, Goto, Inv, TypeOK
<1>1. TypeOK'
  <2>1. pc' \in [Seeds -> InTransaction \union {"account", "done", "duplicate", "lost"}]
    BY DEF Commit, Goto, Inv, TypeOK
  <2>2. crossed' \in [Seeds -> BOOLEAN]
    BY DEF Commit, Crossed, Inv, TypeOK
  <2> QED
    BY <1>0, <2>1, <2>2 DEF Inv, TypeOK
<1>2. \A row : Pending(row)' <=> Pending(row) /\ row.by # s
  BY <1>0 DEF Pending, InTransaction
<1>3. RowsInv'
  BY <1>0 DEF Inv, RowsInv, HandedRows, SeedRows, NoRowNoMovement, Begun
<1>4. MovesInv'
  BY <1>0, <1>2 DEF Inv, MovesInv, Begun
<1>5. OpenedInv'
  <2>1. ASSUME NEW p \in Ids, product[p] # NoRow, Balanced(p) PROVE Balanced(p)'
    <3>1. PICK m \in opening : /\ m.id = p /\ product[p].stock = m.quantity + rest[p]
                               /\ Pending(m) => Pending(product[p])
      BY <2>1 DEF Balanced
    <3>2. Pending(m)' => Pending(product[p])'
      BY <1>0, <1>2, <3>1 DEF Inv, MovesInv
    <3> QED
      BY <1>0, <3>1, <3>2 DEF Balanced
  <2>2. ASSUME NEW p \in Ids, Unopened(p) PROVE Unopened(p)'
    BY <1>0, <2>2 DEF Unopened
  <2> QED
    BY <1>0, <2>1, <2>2 DEF Inv, OpenedInv
<1>6. ASSUME NEW t \in Seeds \ {s} PROVE (Finds(t) /\ Did(t) /\ Uncrossed(t))'
  <2>1. StillSeen(t)
    BY <1>0, <1>2 DEF StillSeen, Visible
  <2>2. crossed'[t] \/ pc[t] \notin {"insert", "move"}
    BY <1>0 DEF InTransaction
  <2> QED
    BY <1>0, <2>1, <2>2, BystanderKeeps DEF Inv, TypeOK
<1>7. (Finds(s) /\ Did(s) /\ Uncrossed(s))'
  <2>1. \A n \in DOMAIN Lines : Complete(s, n) => Complete(s, n)'
    BY <1>0, <1>2 DEF Complete, Visible
  <2>2. Did(s)'
    BY <1>0, <2>1 DEF Inv, SeedInv, Did, Begun, InTransaction
  <2> QED
    BY <1>0, <2>2 DEF Finds, Uncrossed, InTransaction
<1> QED
  BY <1>1, <1>3, <1>4, <1>5, <1>6, <1>7 DEF Inv, SeedInv

LEMMA InsertKeeps ==
    ASSUME Inv, NEW s \in Seeds, Insert(s)
    PROVE  Inv'
<1> DEFINE clash == InIndex(Line(s).sku)
           q == <<s, line[s]>>
<1>0. /\ pc[s] = "insert" /\ line[s] \in DOMAIN Lines
      /\ \A p \in clash : Visible(s, product[p])
  BY DEF Insert, Inv, SeedInv, Finds, InTransaction
<1>1. CASE clash # {} /\ RollBack(s, "duplicate")
  <2>1. crossed[s]
    BY <1>0, <1>1 DEF Inv, SeedInv, Uncrossed, InIndex, Holding
  <2> QED
    BY <1>0, <1>1, <2>1, RollBackKeeps DEF InTransaction
<1>2. CASE ~ (clash # {} /\ RollBack(s, "duplicate"))
  <2> DEFINE row == [sku |-> Line(s).sku, stock |-> Line(s).quantity, active |-> TRUE, by |-> s]
  <2>1. /\ product' = [product EXCEPT ![q] = row] /\ found' = [found EXCEPT ![s] = q]
        /\ pc' = [pc EXCEPT ![s] = "look"]
        /\ UNCHANGED <<accounts, opening, rest, line, crossed>>
    BY <1>2 DEF Insert, Goto, Writer
  <2>2. row \in ProductRow /\ row # NoRow /\ row.by = s
    <3>1. Line(s).sku \in Skus /\ Line(s).quantity \in Nat
      BY <1>0, LineFacts DEF Line
    <3>2. row \in ProductRow
      BY <3>1 DEF ProductRow
    <3> QED
      BY <3>2, IdsAssumption
  <2>3. q \in Ids /\ q \notin Handed /\ q # NoRow
    BY <1>0, IdsAssumption DEF Ids
  <2>4. product[q] = NoRow
    BY <1>0, LineFacts DEF Inv, RowsInv, SeedRows
  <2>5. rest[q] = 0 /\ \A m \in opening : m.id # q
    BY <2>3, <2>4 DEF Inv, RowsInv, NoRowNoMovement
  <2>6. /\ product'[q] = row /\ \A p \in Ids \ {q} : product'[p] = product[p]
        /\ pc'[s] = "look" /\ found'[s] = q
        /\ \A t \in Seeds \ {s} : pc'[t] = pc[t] /\ found'[t] = found[t]
    <3> HIDE DEF row, q
    <3> QED
      BY <2>1, <2>3 DEF Inv, TypeOK
  <2>7. \A r : Pending(r)' <=> Pending(r)
    BY <1>0, <2>6 DEF Pending, InTransaction
  <2> HIDE DEF row
  <2>8. TypeOK'
    <3>1. product' \in [Ids -> ProductRow \union {NoRow}]
      BY <2>1, <2>2 DEF Inv, TypeOK
    <3>2. pc' \in [Seeds -> InTransaction \union {"account", "done", "duplicate", "lost"}]
      BY <2>1 DEF Inv, TypeOK, InTransaction
    <3>3. found' \in [Seeds -> Ids \union {NoRow}]
      BY <2>1, <2>3 DEF Inv, TypeOK
    <3>4. \A t \in Seeds : pc'[t] \in {"look", "move"} => found'[t] # NoRow
      BY <2>3, <2>6 DEF Inv, TypeOK
    <3> QED
      BY <2>1, <3>1, <3>2, <3>3, <3>4 DEF Inv, TypeOK
  <2>9. RowsInv'
    <3>1. HandedRows'
      BY <2>3, <2>6 DEF Inv, RowsInv, HandedRows, Ids
    <3>2. SeedRows'
      <4> SUFFICES ASSUME NEW t \in Seeds, NEW n \in DOMAIN Lines, product'[<<t, n>>] # NoRow
                   PROVE  /\ product'[<<t, n>>].by = t
                          /\ product'[<<t, n>>].sku = Lines[n].sku
                          /\ pc'[t] \in Begun
                          /\ n < line[t] \/ (n = line[t] /\ pc'[t] \notin {"find", "insert"})
                          /\ pc'[t] # "done" =>
                              product'[<<t, n>>].stock = Lines[n].quantity /\ rest[<<t, n>>] = 0
        BY <2>1 DEF SeedRows
      <4>1. CASE t = s /\ n = line[s]
        <5>1. row.sku = Lines[n].sku /\ row.stock = Lines[n].quantity
          BY <4>1 DEF row, Line
        <5> QED
          BY <2>2, <2>5, <2>6, <4>1, <5>1 DEF Begun, InTransaction
      <4>2. CASE ~ (t = s /\ n = line[s])
        <5>1. <<t, n>> \in Ids \ {q}
          BY <4>2 DEF Ids
        <5> QED
          BY <1>0, <2>6, <5>1 DEF Inv, RowsInv, SeedRows, Begun, InTransaction
      <4> QED
        BY <4>1, <4>2
    <3>3. NoRowNoMovement'
      BY <2>1, <2>2, <2>6 DEF Inv, RowsInv, NoRowNoMovement
    <3> QED
      BY <3>1, <3>2, <3>3 DEF RowsInv
  <2>10. \A m \in opening : m.id \in Ids \ {q} /\ product'[m.id] = product[m.id]
    BY <2>5, <2>6, MovementOf DEF Inv
  <2>11. MovesInv'
    <3>1. \A t \in Seeds : pc[t] \in Begun => pc'[t] \in Begun
      BY <2>6 DEF Begun, InTransaction
    <3> QED
      BY <2>1, <2>7, <2>10, <3>1 DEF Inv, MovesInv
  <2>12. OpenedInv'
    <3> SUFFICES ASSUME NEW p \in Ids \ Legacy, product'[p] # NoRow
                 PROVE  (Balanced(p) \/ Unopened(p))'
      BY DEF OpenedInv
    <3>1. CASE p = q
      BY <2>1, <2>2, <2>5, <2>6, <3>1 DEF Unopened
    <3>2. CASE p # q
      <4>1. product'[p] = product[p] /\ (Balanced(p) \/ Unopened(p))
        BY <2>6, <3>2 DEF Inv, OpenedInv
      <4>2. Balanced(p) => Balanced(p)'
        BY <2>1, <2>7, <4>1 DEF Balanced
      <4>3. Unopened(p) => Unopened(p)'
        BY <1>0, <2>1, <2>6, <4>1 DEF Unopened
      <4> QED
        BY <4>1, <4>2, <4>3
    <3> QED
      BY <3>1, <3>2
  <2>13. ASSUME NEW t \in Seeds \ {s} PROVE (Finds(t) /\ Did(t) /\ Uncrossed(t))'
    <3>1. \A p \in Ids : p = q => ~ Visible(t, product[p])'
      BY <2>2, <2>6 DEF Visible, Pending, InTransaction
    <3>2. StillSeen(t)
      BY <2>1, <2>4, <2>6, <2>7 DEF StillSeen, Visible
    <3>3. NothingNew(t)
      BY <2>1, <2>6, <2>7, <3>1 DEF NothingNew, Visible
    <3> QED
      BY <2>1, <2>6, <3>2, <3>3, BystanderKeeps DEF Inv, TypeOK
  <2>14. Finds(s)'
    <3>1. row.sku = Line(s).sku
      BY DEF row
    <3> QED
      BY <1>0, <2>1, <2>2, <2>3, <2>6, <3>1 DEF Finds, Visible, Line, InTransaction
  <2>15. Did(s)'
    <3>1. \A n \in DOMAIN Lines : Complete(s, n) => Complete(s, n)'
      BY <2>1, <2>4, <2>6, <2>7 DEF Complete, Visible
    <3> QED
      BY <1>0, <2>1, <2>6, <3>1 DEF Inv, SeedInv, Did, Begun, InTransaction
  <2>16. Uncrossed(s)'
    BY <2>6 DEF Uncrossed
  <2> QED
    BY <2>8, <2>9, <2>11, <2>12, <2>13, <2>14, <2>15, <2>16 DEF Inv, SeedInv
<1> QED
  BY <1>1, <1>2

LEMMA MoveKeeps ==
    ASSUME Inv, NEW s \in Seeds, Move(s)
    PROVE  Inv'
<1> DEFINE p == found[s]
<1>0. /\ pc[s] = "move" /\ line[s] \in DOMAIN Lines
      /\ \A m \in Once(p) : Visible(s, m)
      /\ p \in Ids /\ product[p] # NoRow /\ product[p].sku = Line(s).sku /\ Visible(s, product[p])
  BY DEF Move, Inv, SeedInv, Finds, InTransaction
<1>1. CASE Once(p) # {} /\ RollBack(s, "duplicate")
  <2>1. crossed[s]
    BY <1>0, <1>1 DEF Inv, SeedInv, Uncrossed, Once, Opened
  <2> QED
    BY <1>0, <1>1, <2>1, RollBackKeeps DEF InTransaction
<1>2. CASE ~ (Once(p) # {} /\ RollBack(s, "duplicate"))
  <2> DEFINE m0 == [id |-> p, quantity |-> Line(s).quantity, by |-> s]
  <2>1. /\ opening' = opening \union {m0}
        /\ NextLine(s)
        /\ \A m \in opening : m.id # p
        /\ UNCHANGED <<accounts, product, rest, found, crossed>>
    BY <1>2 DEF Move, Writer, Once, Opened
  <2>2. m0.id = p /\ m0.quantity = Line(s).quantity /\ m0.by = s /\ Line(s).quantity \in Nat
    BY <1>0, LineFacts DEF Line
  <2>3. /\ \A t \in Seeds \ {s} : pc'[t] = pc[t] /\ line'[t] = line[t]
        /\ \/ pc'[s] = "find" /\ line'[s] = line[s] + 1 /\ line[s] < Len(Lines)
           \/ pc'[s] = "commit" /\ line'[s] = line[s] /\ line[s] = Len(Lines)
    BY <1>0, <2>1, LineFacts DEF NextLine, Goto, Inv, TypeOK
  <2>4. TypeOK'
    <3>1. pc' \in [Seeds -> InTransaction \union {"account", "done", "duplicate", "lost"}]
      BY <2>1 DEF NextLine, Goto, Inv, TypeOK, InTransaction
    <3>2. line' \in [Seeds -> Nat \ {0}]
      <4>1. line' = [line EXCEPT ![s] = line[s] + 1] \/ line' = line
        BY <2>1 DEF NextLine
      <4>2. line \in [Seeds -> Nat \ {0}]
        BY DEF Inv, TypeOK
      <4> QED
        BY <4>1, <4>2
    <3>3. m0 \in [id : Ids, quantity : Int, by : Seeds \union {Service}]
      BY <1>0, <2>2
    <3>4. opening' \subseteq [id : Ids, quantity : Int, by : Seeds \union {Service}]
      BY <2>1, <3>3 DEF Inv, TypeOK
    <3>5. \A t \in Seeds : pc'[t] \in {"look", "move"} => found'[t] # NoRow
      BY <2>1, <2>3 DEF Inv, TypeOK
    <3> QED
      BY <2>1, <3>1, <3>2, <3>4, <3>5 DEF Inv, TypeOK
  <2> HIDE DEF m0
  <2>5. \A r : Pending(r)' <=> Pending(r)
    BY <1>0, <2>3 DEF Pending, InTransaction
  <2>6. Pending(product[p]) => product[p].by = s
    BY <1>0 DEF Visible
  <2>7. RowsInv'
    <3>1. HandedRows' /\ NoRowNoMovement'
      BY <1>0, <2>1, <2>2 DEF Inv, RowsInv, HandedRows, NoRowNoMovement
    <3>2. SeedRows'
      <4> SUFFICES ASSUME NEW t \in Seeds, NEW n \in DOMAIN Lines, product[<<t, n>>] # NoRow
                   PROVE  /\ product[<<t, n>>].by = t
                          /\ product[<<t, n>>].sku = Lines[n].sku
                          /\ pc'[t] \in Begun
                          /\ n < line'[t] \/ (n = line'[t] /\ pc'[t] \notin {"find", "insert"})
                          /\ pc'[t] # "done" =>
                              product[<<t, n>>].stock = Lines[n].quantity /\ rest[<<t, n>>] = 0
        BY <2>1 DEF SeedRows
      <4>1. /\ product[<<t, n>>].by = t
            /\ product[<<t, n>>].sku = Lines[n].sku
            /\ pc[t] \in Begun
            /\ n < line[t] \/ (n = line[t] /\ pc[t] \notin {"find", "insert"})
            /\ pc[t] # "done" =>
                  product[<<t, n>>].stock = Lines[n].quantity /\ rest[<<t, n>>] = 0
        BY DEF Inv, RowsInv, SeedRows
      <4>2. n \in Nat /\ line[s] \in Nat
        BY <1>0, LineFacts
      <4> QED
        BY <1>0, <2>3, <4>1, <4>2 DEF Begun, InTransaction
    <3> QED
      BY <3>1, <3>2 DEF RowsInv
  <2>8. MovesInv'
    <3>1. pc'[s] \in Begun /\ \A t \in Seeds : pc[t] \in Begun => pc'[t] \in Begun
      BY <2>3 DEF Begun, InTransaction
    <3>2. \A m \in opening' : m.by \in Seeds => pc'[m.by] \in Begun
      BY <2>1, <2>2, <3>1 DEF Inv, MovesInv
    <3>3. \A m \in opening' : Pending(product[m.id])' => m.by = product'[m.id].by
      BY <2>1, <2>2, <2>5, <2>6 DEF Inv, MovesInv
    <3>4. \A m, n \in opening' : m.id = n.id => m = n
      BY <2>1, <2>2 DEF Inv, MovesInv
    <3> QED
      BY <3>2, <3>3, <3>4 DEF MovesInv
  <2>9. OpenedInv'
    <3> SUFFICES ASSUME NEW q \in Ids \ Legacy, product[q] # NoRow
                 PROVE  (Balanced(q) \/ Unopened(q))'
      BY <2>1 DEF OpenedInv
    <3>1. CASE q = p
      <4>1. Unopened(p)
        BY <2>1, <3>1 DEF Inv, OpenedInv, Balanced
      <4>2. product[p].by = s
        BY <2>6, <4>1 DEF Unopened, Pending, InTransaction
      <4>3. PICK n \in DOMAIN Lines : p = <<s, n>>
        BY <1>0, <4>2, OwnerOf, IdsAssumption DEF Inv
      <4>4. /\ product[p].sku = Lines[n].sku
            /\ product[p].stock = Lines[n].quantity /\ rest[p] = 0
        BY <1>0, <4>3 DEF Inv, RowsInv, SeedRows
      <4>5. n = line[s]
        BY <1>0, <4>4, LinesAssumption DEF Line
      <4>6. product[p].stock = m0.quantity + rest[p]
        BY <2>2, <4>4, <4>5 DEF Line
      <4>7. Pending(product[p])'
        BY <2>1, <2>3, <4>2 DEF Pending, InTransaction
      <4> QED
        BY <2>1, <2>2, <3>1, <4>6, <4>7 DEF Balanced
    <3>2. CASE q # p
      <4>1. Balanced(q) => Balanced(q)'
        BY <2>1, <2>5 DEF Balanced
      <4>2. Unopened(q) => Unopened(q)'
        <5> SUFFICES ASSUME Unopened(q) PROVE Unopened(q)'
          OBVIOUS
        <5>1. PICK t \in Seeds : product[q].by = t /\ pc[t] \in {"look", "move"} /\ found[t] = q
          BY DEF Unopened
        <5>2. t # s
          BY <3>2, <5>1
        <5>3. \A m \in opening' : m.id # q
          BY <2>1, <2>2, <3>2 DEF Unopened
        <5> QED
          BY <2>1, <2>3, <5>1, <5>2, <5>3 DEF Unopened
      <4> QED
        BY <4>1, <4>2 DEF Inv, OpenedInv
    <3> QED
      BY <3>1, <3>2
  <2>10. ASSUME NEW t \in Seeds \ {s} PROVE (Finds(t) /\ Did(t) /\ Uncrossed(t))'
    <3>1. \A m : m = m0 => ~ Visible(t, m)'
      BY <2>2, <2>3 DEF Visible, Pending, InTransaction
    <3>2. StillSeen(t)
      BY <2>1, <2>5 DEF StillSeen, Visible
    <3>3. NothingNew(t)
      BY <2>1, <2>5, <3>1 DEF NothingNew, Visible
    <3> QED
      BY <2>1, <2>3, <3>2, <3>3, BystanderKeeps DEF Inv, TypeOK
  <2>11. Finds(s)'
    BY <1>0, <2>3, LineFacts DEF Finds, InTransaction
  <2>12. Did(s)'
    <3>1. \A n \in DOMAIN Lines : Complete(s, n) => Complete(s, n)'
      BY <2>1, <2>5 DEF Complete, Visible
    <3>2. accounts = AccountNames /\ \A n \in DOMAIN Lines : n < line[s] => Complete(s, n)
      BY <1>0 DEF Inv, SeedInv, Did, Begun, InTransaction
    <3>3. \A m : m = m0 => Visible(s, m)'
      BY <2>2 DEF Visible
    <3>4. \A n \in DOMAIN Lines : n = line[s] => Complete(s, n)'
      BY <1>0, <2>1, <2>2, <2>5, <3>3 DEF Complete, Visible, Line
    <3>5. \A n \in DOMAIN Lines : n < line[s] + 1 => n < line[s] \/ n = line[s]
      BY <1>0, LineFacts
    <3>6. \A n \in DOMAIN Lines : n < line[s] + 1 => Complete(s, n)'
      BY <3>1, <3>2, <3>4, <3>5
    <3> QED
      BY <1>0, <2>1, <2>3, <3>2, <3>6, LineFacts DEF Did
  <2>13. Uncrossed(s)'
    BY <2>3 DEF Uncrossed
  <2> QED
    BY <2>4, <2>7, <2>8, <2>9, <2>10, <2>11, <2>12, <2>13 DEF Inv, SeedInv
<1> QED
  BY <1>1, <1>2

(***************************************************************************)
(* The service: it creates products with their movement, and what it does  *)
(* to a product that stands keeps its SKU and its writer and moves its     *)
(* stock by as much as its movements.                                      *)
(***************************************************************************)
LEMMA CreateKeeps ==
    ASSUME Inv, NEW sku \in Skus, NEW quantity \in Creatable, Create(sku, quantity)
    PROVE  Inv'
<1>1. PICK p \in Handed :
        /\ product[p] = NoRow
        /\ product' = [product EXCEPT ![p] =
                [sku |-> sku, stock |-> quantity, active |-> TRUE, by |-> Service]]
        /\ opening' = opening \union {[id |-> p, quantity |-> quantity, by |-> Service]}
  BY DEF Create
<1> DEFINE row == [sku |-> sku, stock |-> quantity, active |-> TRUE, by |-> Service]
           m0 == [id |-> p, quantity |-> quantity, by |-> Service]
<1>2. /\ UNCHANGED <<accounts, rest, pc, line, found>>
      /\ \A t \in Seeds : crossed'[t] = (crossed[t] \/ pc[t] \in InTransaction \union {"account"})
      /\ crossed' \in [Seeds -> BOOLEAN]
  BY DEF Create, Crossed, Inv, TypeOK
<1>3. /\ p \in Ids /\ quantity \in Nat
      /\ \A t \in Seeds, n \in DOMAIN Lines : <<t, n>> \in Ids \ {p}
  BY IdsAssumption, LinesAssumption DEF Ids
<1>4. row \in ProductRow /\ row # NoRow /\ row.by = Service /\ row.stock = quantity
  <2>1. row \in ProductRow
    BY <1>3 DEF ProductRow
  <2> QED
    BY <2>1, IdsAssumption
<1>5. m0.id = p /\ m0.quantity = quantity /\ m0.by = Service
      /\ m0 \in [id : Ids, quantity : Int, by : Seeds \union {Service}]
  BY <1>3
<1> HIDE DEF row, m0
<1>6. /\ product'[p] = row /\ \A q \in Ids \ {p} : product'[q] = product[q]
      /\ product' \in [Ids -> ProductRow \union {NoRow}]
  <2>1. product' = [product EXCEPT ![p] = row]
    BY <1>1 DEF row
  <2> QED
    BY <1>3, <1>4, <2>1 DEF Inv, TypeOK
<1>7. opening' = opening \union {m0}
  BY <1>1 DEF m0
<1>8. rest[p] = 0 /\ \A m \in opening : m.id # p
  BY <1>1, <1>3 DEF Inv, RowsInv, NoRowNoMovement
<1>9. /\ \A r : Pending(r)' <=> Pending(r)
      /\ \A r : r.by = Service => ~ Pending(r)
  BY <1>2, IdsAssumption DEF Pending
<1>10. TypeOK'
  BY <1>2, <1>5, <1>6, <1>7 DEF Inv, TypeOK
<1>11. RowsInv'
  <2>1. HandedRows'
    BY <1>4, <1>6 DEF Inv, RowsInv, HandedRows, Ids
  <2>2. SeedRows'
    BY <1>2, <1>3, <1>6 DEF Inv, RowsInv, SeedRows
  <2>3. NoRowNoMovement'
    BY <1>2, <1>4, <1>5, <1>6, <1>7 DEF Inv, RowsInv, NoRowNoMovement
  <2> QED
    BY <2>1, <2>2, <2>3 DEF RowsInv
<1>12. \A m \in opening : m.id \in Ids \ {p} /\ product'[m.id] = product[m.id]
  BY <1>6, <1>8, MovementOf DEF Inv
<1>13. MovesInv'
  <2>1. \A m \in opening' : m.by \in Seeds => pc'[m.by] \in Begun
    BY <1>2, <1>5, <1>7, IdsAssumption DEF Inv, MovesInv
  <2>2. \A m \in opening' : Pending(product[m.id])' => m.by = product'[m.id].by
    BY <1>4, <1>5, <1>6, <1>7, <1>9, <1>12 DEF Inv, MovesInv
  <2>3. \A m, n \in opening' : m.id = n.id => m = n
    BY <1>5, <1>7, <1>8 DEF Inv, MovesInv
  <2> QED
    BY <2>1, <2>2, <2>3 DEF MovesInv
<1>14. OpenedInv'
  <2> SUFFICES ASSUME NEW q \in Ids \ Legacy, product'[q] # NoRow
               PROVE  (Balanced(q) \/ Unopened(q))'
    BY DEF OpenedInv
  <2>1. CASE q = p
    <3>1. product'[q].stock = m0.quantity + rest'[q]
      BY <1>2, <1>3, <1>4, <1>5, <1>6, <1>8, <2>1
    <3>2. ~ Pending(m0)
      BY <1>5, <1>9
    <3> QED
      BY <1>5, <1>7, <1>9, <2>1, <3>1, <3>2 DEF Balanced
  <2>2. CASE q # p
    <3>1. product'[q] = product[q] /\ (Balanced(q) \/ Unopened(q))
      BY <1>6, <2>2 DEF Inv, OpenedInv
    <3>2. Balanced(q) => Balanced(q)'
      BY <1>2, <1>7, <1>9, <3>1 DEF Balanced
    <3>3. Unopened(q) => Unopened(q)'
      BY <1>2, <1>5, <1>7, <2>2, <3>1 DEF Unopened
    <3> QED
      BY <3>1, <3>2, <3>3
  <2> QED
    BY <2>1, <2>2
<1>15. ASSUME NEW t \in Seeds PROVE (Finds(t) /\ Did(t) /\ Uncrossed(t))'
  <2>1. StillSeen(t)
    BY <1>1, <1>6, <1>7, <1>9 DEF StillSeen, Visible
  <2>2. crossed'[t] \/ pc[t] \notin {"insert", "move"}
    BY <1>2 DEF InTransaction
  <2> QED
    BY <1>2, <2>1, <2>2, BystanderKeeps DEF Inv, TypeOK
<1> QED
  BY <1>10, <1>11, <1>13, <1>14, <1>15 DEF Inv, SeedInv

LEMMA StandingKeeps ==
    ASSUME Inv, NEW p \in Ids, Stands(p), NEW delta \in Int,
           UNCHANGED <<accounts, opening, pc, line, found, crossed>>, TypeOK',
           /\ product'[p] # NoRow /\ product'[p].sku = product[p].sku
           /\ product'[p].by = product[p].by
           /\ product'[p].stock = product[p].stock + delta /\ rest'[p] = rest[p] + delta,
           \A q \in Ids \ {p} : product'[q] = product[q] /\ rest'[q] = rest[q]
    PROVE  Inv'
<1>0. product[p] # NoRow /\ ~ Pending(product[p]) /\ product[p] \in ProductRow
  BY DEF Stands, Inv, TypeOK
<1>1. \A r, q : r.by = q.by => (Pending(r)' <=> Pending(q))
  BY DEF Pending
<1>2. \A q \in Ids :
        /\ product'[q] = NoRow <=> product[q] = NoRow
        /\ product[q] # NoRow =>
            product'[q].sku = product[q].sku /\ product'[q].by = product[q].by
  BY <1>0
<1>3. RowsInv'
  <2>1. HandedRows'
    BY <1>2 DEF Inv, RowsInv, HandedRows, Ids
  <2>2. SeedRows'
    <3> SUFFICES ASSUME NEW t \in Seeds, NEW n \in DOMAIN Lines, product'[<<t, n>>] # NoRow
                 PROVE  /\ product'[<<t, n>>].by = t
                        /\ product'[<<t, n>>].sku = Lines[n].sku
                        /\ pc[t] \in Begun
                        /\ n < line[t] \/ (n = line[t] /\ pc[t] \notin {"find", "insert"})
                        /\ pc[t] # "done" =>
                            product'[<<t, n>>].stock = Lines[n].quantity /\ rest'[<<t, n>>] = 0
      BY DEF SeedRows
    <3>1. <<t, n>> \in Ids
      BY DEF Ids
    <3>2. /\ product[<<t, n>>] # NoRow /\ product[<<t, n>>].by = t
          /\ product[<<t, n>>].sku = Lines[n].sku
          /\ pc[t] \in Begun
          /\ n < line[t] \/ (n = line[t] /\ pc[t] \notin {"find", "insert"})
          /\ pc[t] # "done" =>
                product[<<t, n>>].stock = Lines[n].quantity /\ rest[<<t, n>>] = 0
      BY <1>2, <3>1 DEF Inv, RowsInv, SeedRows
    <3>3. p = <<t, n>> => pc[t] = "done"
      BY <1>0, <3>2 DEF Pending, Begun
    <3> QED
      BY <1>2, <3>1, <3>2, <3>3
  <2>3. NoRowNoMovement'
    BY <1>0, <1>2 DEF Inv, RowsInv, NoRowNoMovement
  <2> QED
    BY <2>1, <2>2, <2>3 DEF RowsInv
<1>4. MovesInv'
  <2>1. \A m \in opening : m.id \in Ids /\ product[m.id] # NoRow
    BY MovementOf DEF Inv
  <2> QED
    BY <1>1, <1>2, <2>1 DEF Inv, MovesInv
<1>5. OpenedInv'
  <2> SUFFICES ASSUME NEW q \in Ids \ Legacy, product[q] # NoRow
               PROVE  (Balanced(q) \/ Unopened(q))'
    BY <1>2 DEF OpenedInv
  <2>1. Balanced(q) => Balanced(q)'
    <3> SUFFICES ASSUME Balanced(q) PROVE Balanced(q)'
      OBVIOUS
    <3>1. PICK m \in opening : /\ m.id = q /\ product[q].stock = m.quantity + rest[q]
                               /\ Pending(m) => Pending(product[q])
      BY DEF Balanced
    <3>2. product'[q].stock = m.quantity + rest'[q]
      <4>1. m.quantity \in Int /\ rest[q] \in Int /\ product[q].stock \in Int
        BY MovementOf DEF Inv, TypeOK, ProductRow
      <4> QED
        BY <3>1, <4>1
    <3>3. Pending(m)' => Pending(product[q])'
      BY <1>1, <1>2, <3>1
    <3> QED
      BY <3>1, <3>2, <3>3 DEF Balanced
  <2>2. Unopened(q) => Unopened(q)'
    BY <1>2 DEF Unopened
  <2> QED
    BY <2>1, <2>2 DEF Inv, OpenedInv
<1>6. ASSUME NEW t \in Seeds PROVE (Finds(t) /\ Did(t) /\ Uncrossed(t))'
  <2>1. StillSeen(t) /\ NothingNew(t)
    BY <1>1, <1>2 DEF StillSeen, NothingNew, Visible
  <2> QED
    BY <2>1, BystanderKeeps DEF Inv, TypeOK
<1> QED
  BY <1>3, <1>4, <1>5, <1>6 DEF Inv, SeedInv

LEMMA AdjustKeeps ==
    ASSUME Inv, NEW p \in Ids, NEW delta \in Deltas, Adjust(p, delta)
    PROVE  Inv'
<1>0. product[p] \in ProductRow /\ product[p].stock \in Nat /\ delta \in Int /\ rest[p] \in Int
  BY LinesAssumption DEF Adjust, Stands, Inv, TypeOK, ProductRow
<1> DEFINE row == [product[p] EXCEPT !.stock = product[p].stock + delta]
<1>1. /\ Stands(p) /\ product[p].stock + delta >= 0
      /\ product' = [product EXCEPT ![p] = row]
      /\ rest' = [rest EXCEPT ![p] = rest[p] + delta]
      /\ UNCHANGED <<accounts, opening, pc, line, found, crossed>>
  BY DEF Adjust
<1>2. /\ row \in ProductRow /\ row.stock = product[p].stock + delta
      /\ row.sku = product[p].sku /\ row.by = product[p].by
  BY <1>0, <1>1 DEF ProductRow
<1> HIDE DEF row
<1>3. /\ product'[p] = row /\ \A q \in Ids \ {p} : product'[q] = product[q] /\ rest'[q] = rest[q]
      /\ rest'[p] = rest[p] + delta
      /\ product' \in [Ids -> ProductRow \union {NoRow}]
      /\ rest' \in [Ids -> Int]
  <2>1. rest[p] + delta \in Int
    BY <1>0
  <2> QED
    BY <1>1, <1>2, <2>1 DEF Inv, TypeOK
<1>4. TypeOK'
  BY <1>1, <1>3 DEF Inv, TypeOK
<1>5. row # NoRow
  BY <1>2, IdsAssumption
<1> QED
  BY <1>0, <1>1, <1>2, <1>3, <1>4, <1>5, StandingKeeps

LEMMA DeleteKeeps ==
    ASSUME Inv, NEW p \in Ids, Delete(p)
    PROVE  Inv'
<1>0. product[p] \in ProductRow /\ product[p].stock \in Nat /\ rest[p] \in Int
  BY DEF Delete, Stands, Inv, TypeOK, ProductRow
<1> DEFINE row == [product[p] EXCEPT !.active = FALSE]
<1>1. /\ Stands(p)
      /\ product' = [product EXCEPT ![p] = row]
      /\ UNCHANGED <<accounts, opening, rest, pc, line, found, crossed>>
  BY DEF Delete
<1>2. /\ row \in ProductRow /\ row.stock = product[p].stock
      /\ row.sku = product[p].sku /\ row.by = product[p].by
  BY <1>0 DEF ProductRow
<1> HIDE DEF row
<1>3. /\ product'[p] = row /\ \A q \in Ids \ {p} : product'[q] = product[q]
      /\ product' \in [Ids -> ProductRow \union {NoRow}]
  BY <1>1, <1>2 DEF Inv, TypeOK
<1>4. TypeOK'
  BY <1>1, <1>3 DEF Inv, TypeOK
<1>5. row # NoRow
  BY <1>2, IdsAssumption
<1>6. product'[p].stock = product[p].stock + 0 /\ rest'[p] = rest[p] + 0
  BY <1>0, <1>1, <1>2, <1>3
<1>7. /\ product'[p] # NoRow /\ product'[p].sku = product[p].sku
      /\ product'[p].by = product[p].by
      /\ \A q \in Ids \ {p} : product'[q] = product[q] /\ rest'[q] = rest[q]
  BY <1>1, <1>2, <1>3, <1>5
<1>8. UNCHANGED <<accounts, opening, pc, line, found, crossed>> /\ 0 \in Int
  BY <1>1
<1> QED
  BY <1>1, <1>4, <1>6, <1>7, <1>8, StandingKeeps
-----------------------------------------------------------------------------
LEMMA InvInit == Init => Inv
<1> SUFFICES ASSUME Init PROVE Inv
  OBVIOUS
<1>1. PICK there \in SUBSET {p \in Ids : Stored[p] # NoRow} :
        /\ there # {} => accounts = AccountNames
        /\ product = [p \in Ids |-> IF p \in there THEN Stored[p] ELSE NoRow]
        /\ opening = {[id |-> p, quantity |-> Stored[p].stock, by |-> Service] :
                        p \in there \ Legacy}
  BY DEF Init
<1>2. /\ rest = [p \in Ids |-> 0] /\ pc = [s \in Seeds |-> "account"]
      /\ line = [s \in Seeds |-> 1] /\ found = [s \in Seeds |-> NoRow]
      /\ crossed = [s \in Seeds |-> FALSE]
      /\ accounts \subseteq AccountNames
  BY LineFacts DEF Init
<1>3. \A p \in Ids : /\ Stored[p] # NoRow => /\ Stored[p] \in ProductRow
                                             /\ Stored[p].by = Service /\ p \in Handed
                     /\ p \in there => Stored[p] # NoRow
                     /\ product[p] # NoRow => p \in there /\ product[p] = Stored[p]
                     /\ product[p] = NoRow => p \notin there
  BY <1>1, StoredAssumption
<1>4. \A m \in opening : /\ m.id \in there /\ m.by = Service
                         /\ m.quantity = product[m.id].stock
                         /\ m = [id |-> m.id, quantity |-> product[m.id].stock, by |-> Service]
  BY <1>1
<1>5. TypeOK
  <2>1. product \in [Ids -> ProductRow \union {NoRow}]
    BY <1>1, <1>3
  <2>2. opening \subseteq [id : Ids, quantity : Int, by : Seeds \union {Service}]
    BY <1>1, <1>3 DEF ProductRow
  <2> QED
    BY <1>2, <2>1, <2>2 DEF TypeOK
<1>6. RowsInv
  <2>1. HandedRows
    BY <1>3 DEF HandedRows, Ids
  <2>2. SeedRows
    <3>1. \A s \in Seeds, n \in DOMAIN Lines : <<s, n>> \in Ids /\ <<s, n>> \notin Handed
      BY IdsAssumption DEF Ids
    <3> QED
      BY <1>3, <3>1 DEF SeedRows
  <2>3. NoRowNoMovement
    BY <1>2, <1>3, <1>4 DEF NoRowNoMovement
  <2> QED
    BY <2>1, <2>2, <2>3 DEF RowsInv
<1>7. MovesInv
  BY <1>3, <1>4, IdsAssumption DEF MovesInv, Pending
<1>8. OpenedInv
  <2> SUFFICES ASSUME NEW p \in Ids \ Legacy, product[p] # NoRow PROVE Balanced(p)
    BY DEF OpenedInv
  <2> DEFINE m == [id |-> p, quantity |-> Stored[p].stock, by |-> Service]
  <2>1. m \in opening
    BY <1>1, <1>3
  <2>2. product[p].stock = m.quantity + rest[p]
    BY <1>2, <1>3 DEF ProductRow
  <2>3. ~ Pending(m)
    BY IdsAssumption DEF Pending
  <2> QED
    BY <2>1, <2>2, <2>3 DEF Balanced
<1>9. SeedInv
  <2> SUFFICES ASSUME NEW s \in Seeds PROVE Finds(s) /\ Did(s) /\ Uncrossed(s)
    BY DEF SeedInv
  <2>1. pc[s] = "account" /\ line[s] = 1
    BY <1>2
  <2>2. 1 \in DOMAIN Accounts
    BY LineFacts
  <2>3. Finds(s) /\ Uncrossed(s)
    BY <2>1, <2>2 DEF Finds, Uncrossed, InTransaction
  <2>4. Did(s)
    BY <2>1 DEF Did, Begun, InTransaction
  <2> QED
    BY <2>3, <2>4
<1> QED
  BY <1>5, <1>6, <1>7, <1>8, <1>9 DEF Inv

LEMMA InvNext == Inv /\ [Next]_vars => Inv'
<1> SUFFICES ASSUME Inv, [Next]_vars PROVE Inv'
  OBVIOUS
<1>1. CASE \E s \in Seeds : SeedStep(s)
  BY <1>1, UpsertAccountKeeps, FindKeeps, InsertKeeps, LookKeeps, MoveKeeps, CommitKeeps
     DEF SeedStep
<1>2. CASE \E s \in Seeds : Lose(s)
  BY <1>2, LoseKeeps
<1>3. CASE Serve
  BY <1>3, CreateKeeps, AdjustKeeps, DeleteKeeps DEF Serve
<1>4. CASE UNCHANGED vars
  BY <1>4 DEF vars, Inv, TypeOK, RowsInv, HandedRows, SeedRows, NoRowNoMovement, MovesInv,
     OpenedInv, Balanced, Unopened, SeedInv, Finds, Did, Complete, Uncrossed, Pending,
     Visible, Line
<1> QED
  BY <1>1, <1>2, <1>3, <1>4 DEF Next

LEMMA Invariance == Spec => []Inv
BY InvInit, InvNext, PTL DEF Spec

(* Accounts, rows, movements and the state of each seed keep their types   *)
(* in every behaviour, and a seed that looks for or writes a movement has  *)
(* a product to do it for.                                                 *)
THEOREM SeedingTypeCorrect == Spec => []TypeOK
<1>1. Inv => TypeOK
  BY DEF Inv
<1> QED
  BY <1>1, Invariance, PTL

(* However many seeds run at once with the service, and wherever they are  *)
(* lost, a product is opened at most once, and the ledger explains the     *)
(* stock of every committed product that is not older than it.             *)
THEOREM SeedingExplained == Spec => []Explained
<1>1. Inv => Explained
  <2> SUFFICES ASSUME Inv, NEW p \in Ids
               PROVE  /\ \A m, n \in Opened(p) : m = n
                      /\ p \notin Legacy /\ product[p] # NoRow /\ ~ Pending(product[p]) =>
                            \E m \in Opened(p) :
                                ~ Pending(m) /\ product[p].stock = m.quantity + rest[p]
    BY DEF Explained
  <2>1. \A m, n \in Opened(p) : m = n
    BY DEF Opened, Inv, MovesInv
  <2>2. ASSUME p \notin Legacy, product[p] # NoRow, ~ Pending(product[p])
        PROVE  \E m \in Opened(p) : ~ Pending(m) /\ product[p].stock = m.quantity + rest[p]
    <3>1. ~ Unopened(p)
      BY <2>2 DEF Unopened, Pending, InTransaction
    <3>2. Balanced(p)
      BY <2>2, <3>1 DEF Inv, OpenedInv
    <3> QED
      BY <2>2, <3>2 DEF Balanced, Opened
  <2> QED
    BY <2>1, <2>2
<1> QED
  BY <1>1, Invariance, PTL

(* A seed that reports success has left both accounts and, for each of its *)
(* lines, a committed product with its movement; and one fails on a        *)
(* duplicate only when someone else committed while it ran.                *)
THEOREM SeedingEndsTruly == Spec => []EndsTruly
<1>1. Inv => SeededWhenDone
  <2> SUFFICES ASSUME Inv, NEW s \in Seeds, pc[s] = "done"
               PROVE  /\ accounts = AccountNames
                      /\ \A n \in DOMAIN Lines : \E p \in Holding(Lines[n].sku) :
                            ~ Pending(product[p]) /\ \E m \in Opened(p) : ~ Pending(m)
    BY DEF SeededWhenDone
  <2>1. accounts = AccountNames /\ \A n \in DOMAIN Lines : Complete(s, n)
    BY DEF Inv, SeedInv, Did, Begun
  <2>2. \A r : Visible(s, r) => ~ Pending(r)
    BY DEF Visible, Pending, InTransaction
  <2> QED
    BY <2>1, <2>2 DEF Complete, Holding, Opened
<1>2. Inv => FailedForCause
  BY DEF Inv, SeedInv, Uncrossed, FailedForCause
<1>3. Inv => EndsTruly
  BY <1>1, <1>2 DEF EndsTruly
<1> QED
  BY <1>3, Invariance, PTL
-----------------------------------------------------------------------------
(***************************************************************************)
(* Who waits for whom.  A movement that is not committed is one of a line  *)
(* its seed has behind it, as a row that is not committed is one of a line *)
(* the seed has at least written.  So whoever waits at a line waits for a  *)
(* seed that is further on: Rank.                                          *)
(***************************************************************************)
WrittenInv == \A m \in opening :
    Pending(m) => \E n \in DOMAIN Lines :
        /\ product[m.id].sku = Lines[n].sku
        /\ n < line[m.by] \/ (n = line[m.by] /\ pc[m.by] = "commit")

Rank(s) == IF pc[s] \in {"find", "insert"} THEN 2 * line[s]
           ELSE IF pc[s] \in {"look", "move"} THEN 2 * line[s] + 1
           ELSE 2 * line[s] + 2

LEMMA WrittenInit == Init => WrittenInv
BY DEF Init, WrittenInv, Pending, InTransaction

(* A movement that stays pending while its seed goes on.                   *)
LEMMA WrittenKept ==
    ASSUME Inv, WrittenInv, NEW m \in opening, Pending(m),
           product'[m.id].sku = product[m.id].sku,
           \/ line'[m.by] = line[m.by] /\ (pc[m.by] = "commit" => pc'[m.by] = "commit")
           \/ line'[m.by] = line[m.by] + 1 /\ pc[m.by] # "commit"
    PROVE  \E n \in DOMAIN Lines :
                /\ product'[m.id].sku = Lines[n].sku
                /\ n < line'[m.by] \/ (n = line'[m.by] /\ pc'[m.by] = "commit")
<1>1. PICK n \in DOMAIN Lines :
        /\ product[m.id].sku = Lines[n].sku
        /\ n < line[m.by] \/ (n = line[m.by] /\ pc[m.by] = "commit")
  BY DEF WrittenInv
<1>2. n \in Nat /\ line[m.by] \in Nat
  BY LineFacts DEF Pending, Inv, TypeOK
<1> QED
  BY <1>1, <1>2

(* Steps that leave the movements alone, and a seed where it is that has    *)
(* written one.                                                            *)
LEMMA WrittenSame ==
    ASSUME Inv, WrittenInv, opening' \subseteq opening,
           \A m \in opening' : Pending(m)' =>
                /\ Pending(m) /\ product'[m.id].sku = product[m.id].sku
                /\ line'[m.by] = line[m.by] /\ (pc[m.by] = "commit" => pc'[m.by] = "commit")
    PROVE  WrittenInv'
<1> SUFFICES ASSUME NEW m \in opening', Pending(m)'
             PROVE  \E n \in DOMAIN Lines :
                        /\ product'[m.id].sku = Lines[n].sku
                        /\ n < line'[m.by] \/ (n = line'[m.by] /\ pc'[m.by] = "commit")
  BY DEF WrittenInv
<1> QED
  BY WrittenKept

LEMMA WrittenBack ==
    ASSUME Inv, WrittenInv, NEW s \in Seeds, pc[s] \in InTransaction \union {"account"},
           NEW how \in {"duplicate", "lost"}, RollBack(s, how)
    PROVE  WrittenInv'
<1>1. /\ pc'[s] = how /\ UNCHANGED line
      /\ \A t \in Seeds \ {s} : pc'[t] = pc[t]
      /\ opening' = {m \in opening : m.by # s}
      /\ \A p \in Ids : ~ (product[p] # NoRow /\ product[p].by = s) => product'[p] = product[p]
  BY DEF RollBack, Goto, Inv, TypeOK
<1>2. ASSUME NEW m \in opening', Pending(m)'
      PROVE  /\ Pending(m) /\ product'[m.id].sku = product[m.id].sku
             /\ line'[m.by] = line[m.by] /\ pc'[m.by] = pc[m.by]
  <2>1. m \in opening /\ m.by \in Seeds \ {s}
    BY <1>1, <1>2 DEF Pending
  <2>2. Pending(m) /\ pc'[m.by] = pc[m.by]
    BY <1>1, <1>2, <2>1 DEF Pending
  <2>3. m.id \in Ids /\ product[m.id] # NoRow
    BY <2>1, MovementOf DEF Inv
  <2>4. product[m.id].by # s
    <3>1. CASE pc[s] \in InTransaction
      BY <2>1, <3>1 DEF Inv, MovesInv, Pending
    <3>2. CASE pc[s] = "account"
      BY <2>3, <3>2, OwnerOf DEF Inv, Begun, InTransaction
    <3> QED
      BY <3>1, <3>2
  <2> QED
    BY <1>1, <2>1, <2>2, <2>3, <2>4
<1> QED
  BY <1>1, <1>2, WrittenSame

LEMMA WrittenStep ==
    ASSUME Inv, WrittenInv, NEW s \in Seeds, SeedStep(s)
    PROVE  WrittenInv'
<1>1. CASE UpsertAccount(s)
  <2>1. /\ pc[s] = "account" /\ UNCHANGED <<product, opening>>
        /\ \A t \in Seeds \ {s} : pc'[t] = pc[t] /\ line'[t] = line[t]
    BY <1>1 DEF UpsertAccount, Goto, Inv, TypeOK
  <2>2. \A m \in opening : m.by # s
    BY <2>1 DEF Inv, MovesInv, Begun, InTransaction
  <2>3. \A m \in opening' : Pending(m)' =>
            Pending(m) /\ line'[m.by] = line[m.by] /\ pc'[m.by] = pc[m.by]
    BY <2>1, <2>2 DEF Pending
  <2> QED
    BY <2>1, <2>3, WrittenSame
<1>2. CASE Find(s)
  <2>1. /\ pc[s] = "find" /\ UNCHANGED <<product, opening, line>>
        /\ \A t \in Seeds \ {s} : pc'[t] = pc[t]
    BY <1>2 DEF Find, Goto, Inv, TypeOK
  <2>2. \A m \in opening' : Pending(m)' =>
            Pending(m) /\ (pc[m.by] = "commit" => pc'[m.by] = "commit")
    BY <2>1 DEF Pending, InTransaction
  <2> QED
    BY <2>1, <2>2, WrittenSame
<1>3. CASE Insert(s)
  <2>1. CASE RollBack(s, "duplicate")
    BY <1>3, <2>1, WrittenBack DEF Insert, InTransaction
  <2>2. CASE ~ RollBack(s, "duplicate")
    <3>1. /\ pc[s] = "insert" /\ UNCHANGED <<opening, line>>
          /\ \A t \in Seeds \ {s} : pc'[t] = pc[t]
          /\ \A p \in Ids \ {<<s, line[s]>>} : product'[p] = product[p]
      BY <1>3, <2>2 DEF Insert, Goto, Inv, TypeOK
    <3>2. line[s] \in DOMAIN Lines
      BY <3>1 DEF Inv, SeedInv, Finds, InTransaction
    <3>3. product[<<s, line[s]>>] = NoRow
      BY <3>1, <3>2, LineFacts DEF Inv, RowsInv, SeedRows
    <3>4. \A m \in opening' : product'[m.id] = product[m.id]
      BY <3>1, <3>3, MovementOf DEF Inv
    <3>5. \A m \in opening' : Pending(m)' =>
              Pending(m) /\ (pc[m.by] = "commit" => pc'[m.by] = "commit")
      BY <3>1 DEF Pending, InTransaction
    <3> QED
      BY <3>1, <3>4, <3>5, WrittenSame
  <2> QED
    BY <2>1, <2>2
<1>4. CASE Look(s)
  <2>1. /\ pc[s] = "look" /\ UNCHANGED <<product, opening>>
        /\ \A t \in Seeds \ {s} : pc'[t] = pc[t] /\ line'[t] = line[t]
        /\ line'[s] = line[s] \/ line'[s] = line[s] + 1
    BY <1>4 DEF Look, NextLine, Goto, Inv, TypeOK
  <2> SUFFICES ASSUME NEW m \in opening, Pending(m)'
               PROVE  \E n \in DOMAIN Lines :
                          /\ product'[m.id].sku = Lines[n].sku
                          /\ n < line'[m.by] \/ (n = line'[m.by] /\ pc'[m.by] = "commit")
    BY <2>1 DEF WrittenInv
  <2>2. Pending(m)
    BY <2>1 DEF Pending, InTransaction
  <2>3. \/ line'[m.by] = line[m.by] /\ (pc[m.by] = "commit" => pc'[m.by] = "commit")
        \/ line'[m.by] = line[m.by] + 1 /\ pc[m.by] # "commit"
    BY <2>1, <2>2 DEF Pending
  <2> QED
    BY <2>1, <2>2, <2>3, WrittenKept
<1>5. CASE Move(s)
  <2>1. CASE RollBack(s, "duplicate")
    BY <1>5, <2>1, WrittenBack DEF Move, InTransaction
  <2>2. CASE ~ RollBack(s, "duplicate")
    <3> DEFINE m0 == [id |-> found[s], quantity |-> Line(s).quantity, by |-> s]
    <3>1. /\ pc[s] = "move" /\ opening' = opening \union {m0} /\ UNCHANGED product
          /\ \A t \in Seeds \ {s} : pc'[t] = pc[t] /\ line'[t] = line[t]
          /\ \/ line'[s] = line[s] + 1
             \/ line'[s] = line[s] /\ pc'[s] = "commit"
      BY <1>5, <2>2 DEF Move, Writer, NextLine, Goto, Inv, TypeOK
    <3>2. m0.id = found[s] /\ m0.by = s
      OBVIOUS
    <3> HIDE DEF m0
    <3>3. /\ line[s] \in DOMAIN Lines /\ line[s] \in Nat
          /\ product[found[s]].sku = Lines[line[s]].sku
      BY <3>1, LineFacts DEF Inv, SeedInv, Finds, Line, InTransaction
    <3> SUFFICES ASSUME NEW m \in opening', Pending(m)'
                 PROVE  \E n \in DOMAIN Lines :
                            /\ product'[m.id].sku = Lines[n].sku
                            /\ n < line'[m.by] \/ (n = line'[m.by] /\ pc'[m.by] = "commit")
      BY DEF WrittenInv
    <3>4. CASE m = m0
      <4>1. line[s] < line'[s] \/ (line[s] = line'[s] /\ pc'[s] = "commit")
        BY <3>1, <3>3
      <4> QED
        BY <3>1, <3>2, <3>3, <3>4, <4>1
    <3>5. CASE m # m0
      <4>1. m \in opening /\ Pending(m)
        BY <3>1, <3>5 DEF Pending, InTransaction
      <4>2. \/ line'[m.by] = line[m.by] /\ (pc[m.by] = "commit" => pc'[m.by] = "commit")
            \/ line'[m.by] = line[m.by] + 1 /\ pc[m.by] # "commit"
        BY <3>1, <4>1 DEF Pending
      <4> QED
        BY <3>1, <4>1, <4>2, WrittenKept
    <3> QED
      BY <3>4, <3>5
  <2> QED
    BY <2>1, <2>2
<1>6. CASE Commit(s)
  <2>1. /\ pc'[s] = "done" /\ UNCHANGED <<product, opening, line>>
        /\ \A t \in Seeds \ {s} : pc'[t] = pc[t]
    BY <1>6 DEF Commit, Goto, Inv, TypeOK
  <2>2. \A m \in opening' : Pending(m)' => Pending(m) /\ pc'[m.by] = pc[m.by]
    BY <2>1 DEF Pending, InTransaction
  <2> QED
    BY <2>1, <2>2, WrittenSame
<1> QED
  BY <1>1, <1>2, <1>3, <1>4, <1>5, <1>6 DEF SeedStep

LEMMA WrittenNext == Inv /\ WrittenInv /\ [Next]_vars => WrittenInv'
<1> SUFFICES ASSUME Inv, WrittenInv, [Next]_vars PROVE WrittenInv'
  OBVIOUS
<1>1. CASE \E s \in Seeds : SeedStep(s)
  BY <1>1, WrittenStep
<1>2. CASE \E s \in Seeds : Lose(s)
  BY <1>2, WrittenBack DEF Lose
<1>3. CASE \E sku \in Skus, quantity \in Creatable : Create(sku, quantity)
  <2>1. PICK sku \in Skus, quantity \in Creatable : Create(sku, quantity)
    BY <1>3
  <2>2. PICK p \in Handed :
          /\ product[p] = NoRow
          /\ product' = [product EXCEPT ![p] =
                [sku |-> sku, stock |-> quantity, active |-> TRUE, by |-> Service]]
          /\ opening' = opening \union {[id |-> p, quantity |-> quantity, by |-> Service]}
    BY <2>1 DEF Create
  <2> DEFINE m0 == [id |-> p, quantity |-> quantity, by |-> Service]
  <2>3. m0.by = Service
    OBVIOUS
  <2>4. opening' = opening \union {m0}
    BY <2>2
  <2>5. UNCHANGED <<pc, line>>
    BY <2>1 DEF Create
  <2>6. \A q \in Ids \ {p} : product'[q] = product[q]
    BY <2>2 DEF Inv, TypeOK
  <2> HIDE DEF m0
  <2> SUFFICES ASSUME NEW m \in opening', Pending(m)'
               PROVE  \E n \in DOMAIN Lines :
                          /\ product'[m.id].sku = Lines[n].sku
                          /\ n < line'[m.by] \/ (n = line'[m.by] /\ pc'[m.by] = "commit")
    BY DEF WrittenInv
  <2>7. m \in opening /\ Pending(m)
    BY <2>3, <2>4, <2>5, IdsAssumption DEF Pending
  <2>8. product'[m.id] = product[m.id]
    BY <2>2, <2>6, <2>7, MovementOf DEF Inv
  <2> QED
    BY <2>5, <2>7, <2>8, WrittenKept
<1>4. CASE \E p \in Ids : (\E delta \in Deltas : Adjust(p, delta)) \/ Delete(p)
  <2>1. PICK p \in Ids : (\E delta \in Deltas : Adjust(p, delta)) \/ Delete(p)
    BY <1>4
  <2>2. product[p] \in ProductRow /\ UNCHANGED <<opening, pc, line>>
    BY <2>1 DEF Adjust, Delete, Stands, Inv, TypeOK
  <2>3. product'[p].sku = product[p].sku
    BY <2>1, <2>2 DEF Adjust, Delete, Inv, TypeOK, ProductRow
  <2>4. \A q \in Ids \ {p} : product'[q] = product[q]
    BY <2>1 DEF Adjust, Delete, Inv, TypeOK
  <2>5. \A m \in opening : m.id \in Ids
    BY MovementOf DEF Inv
  <2>6. \A m \in opening' : Pending(m)' => Pending(m)
    BY <2>2 DEF Pending
  <2> QED
    BY <2>2, <2>3, <2>4, <2>5, <2>6, WrittenSame
<1>5. CASE UNCHANGED vars
  BY <1>5 DEF vars, WrittenInv, Pending
<1> QED
  BY <1>1, <1>2, <1>3, <1>4, <1>5 DEF Next, Serve

(* Whoever waits, waits for a seed of a higher rank.                       *)
LEMMA WaitsForHigher ==
    ASSUME Inv, WrittenInv, NEW s \in Seeds, pc[s] \in InTransaction, Waits(s)
    PROVE  \E t \in Seeds : pc[t] \in InTransaction /\ Rank(s) < Rank(t)
<1>1. /\ line[s] \in DOMAIN Lines /\ line[s] \in Nat
      /\ \A t \in Seeds : line[t] \in Nat
      /\ \A n \in DOMAIN Lines : n \in Nat
      /\ \A n \in DOMAIN Lines : Lines[n].sku = Line(s).sku => n = line[s]
  BY LineFacts, LinesAssumption DEF Inv, TypeOK, SeedInv, Finds, Line
<1>2. CASE pc[s] = "insert" /\ \E p \in InIndex(Line(s).sku) : ~ Visible(s, product[p])
  <2>1. PICK p \in InIndex(Line(s).sku) : ~ Visible(s, product[p])
    BY <1>2
  <2>2. p \in Ids /\ product[p] # NoRow /\ product[p].sku = Line(s).sku /\ Pending(product[p])
    BY <2>1 DEF InIndex, Holding, Visible
  <2> DEFINE t == product[p].by
  <2>3. t \in Seeds /\ pc[t] \in InTransaction
    BY <2>2 DEF Pending
  <2>4. PICK n \in DOMAIN Lines : p = <<t, n>>
    BY <2>2, <2>3, OwnerOf, IdsAssumption DEF Inv
  <2> HIDE DEF t
  <2>5. /\ product[p].sku = Lines[n].sku
        /\ n < line[t] \/ (n = line[t] /\ pc[t] \notin {"find", "insert"})
    BY <2>2, <2>3, <2>4 DEF Inv, RowsInv, SeedRows
  <2>6. n = line[s]
    BY <1>1, <2>2, <2>5
  <2>7. Rank(s) < Rank(t)
    BY <1>1, <1>2, <2>3, <2>5, <2>6 DEF Rank
  <2> QED
    BY <2>3, <2>7
<1>3. CASE pc[s] = "move" /\ \E m \in Once(found[s]) : ~ Visible(s, m)
  <2>1. PICK m \in opening : m.id = found[s] /\ Pending(m)
    BY <1>3 DEF Once, Opened, Visible
  <2> DEFINE t == m.by
  <2>2. t \in Seeds /\ pc[t] \in InTransaction
    BY <2>1 DEF Pending
  <2>3. PICK n \in DOMAIN Lines :
          /\ product[m.id].sku = Lines[n].sku
          /\ n < line[t] \/ (n = line[t] /\ pc[t] = "commit")
    BY <2>1 DEF WrittenInv
  <2> HIDE DEF t
  <2>4. product[m.id].sku = Line(s).sku
    BY <1>3, <2>1 DEF Inv, SeedInv, Finds
  <2>5. n = line[s]
    BY <1>1, <2>3, <2>4
  <2>6. Rank(s) < Rank(t)
    BY <1>1, <1>3, <2>2, <2>3, <2>5 DEF Rank
  <2> QED
    BY <2>2, <2>6
<1> QED
  BY <1>2, <1>3 DEF Waits

(* However many seeds are in their transactions, and whatever was in the   *)
(* database before them, one of them does not wait for another's row: no   *)
(* deadlock is among them, whoever came first.                             *)
THEOREM SeedingSomebodyGoesOn == Spec => []SomebodyGoesOn
<1>1. Inv /\ WrittenInv => SomebodyGoesOn
  <2> SUFFICES ASSUME Inv, WrittenInv, NEW s0 \in Seeds, pc[s0] \in InTransaction,
                      \A s \in Seeds : pc[s] \in InTransaction => Waits(s)
               PROVE  FALSE
    BY DEF SomebodyGoesOn
  <2> DEFINE top == 2 * Len(Lines) + 2
             left == {top - Rank(s) : s \in {t \in Seeds : pc[t] \in InTransaction}}
  <2>1. top \in Nat /\ \A s \in Seeds : pc[s] \in InTransaction => Rank(s) \in 0 .. top
    <3>1. ASSUME NEW s \in Seeds, pc[s] \in InTransaction PROVE Rank(s) \in 0 .. top
      <4>1. line[s] \in 1 .. Len(Lines) /\ Len(Lines) \in Nat
        BY <3>1, LineFacts DEF Inv, SeedInv, Finds
      <4> QED
        BY <4>1 DEF Rank
    <3> QED
      BY <3>1, LineFacts
  <2> HIDE DEF top
  <2>2. left \subseteq Nat /\ left # {}
    BY <2>1
  <2>3. PICK least \in left : \A k \in left : least <= k
    <3> HIDE DEF left
    <3> QED
      BY <2>2, SmallestNat
  <2>4. PICK s \in Seeds : pc[s] \in InTransaction /\ least = top - Rank(s)
    BY <2>3
  <2>5. PICK t \in Seeds : pc[t] \in InTransaction /\ Rank(s) < Rank(t)
    BY <2>4, WaitsForHigher
  <2>6. top - Rank(t) \in left
    BY <2>5
  <2>7. least <= top - Rank(t)
    BY <2>3, <2>6
  <2> QED
    BY <2>1, <2>4, <2>5, <2>7
<1>2. Spec => []WrittenInv
  BY WrittenInit, WrittenNext, Invariance, PTL DEF Spec
<1> QED
  BY <1>1, <1>2, Invariance, PTL
=============================================================================
