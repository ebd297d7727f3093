-------------------------- MODULE MCProductCatalog --------------------------
(***************************************************************************)
(* A small catalogue for TLC: two users, one of them an administrator,     *)
(* three ids, two SKUs of which one is spelled in two ways.                *)
(***************************************************************************)
EXTENDS ProductCatalog, TLC

CONSTANTS staff, admin, p1, p2, p3, tape, Tape, box

MCNormal == (tape :> tape) @@ (Tape :> tape) @@ (box :> box)

New(user, sku) == [op |-> "CREATE", user |-> user, sku |-> sku]
Change(user, id, sku) == [op |-> "UPDATE", user |-> user, id |-> id, sku |-> sku]
Remove(user, id) == [op |-> "DELETE", user |-> user, id |-> id]

(* Creations of the same SKU by one user and by another, in two spellings, *)
(* and renames and deletions that meet them; p3 is only ever created.      *)
MCAsks ==
    {New(staff, tape), New(staff, Tape), New(staff, box), New(admin, tape),
     Change(staff, p1, Tape), Change(staff, p1, box), Change(staff, p2, tape),
     Change(staff, p1, Keep), Change(staff, p1, Nothing), Change(admin, p1, box),
     Remove(admin, p1), Remove(staff, p1), Remove(admin, p2)}

Symmetry == Permutations(Requests)
=============================================================================
