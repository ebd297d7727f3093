------------------------------ MODULE MCSeeding ------------------------------
(* Two seeds of two products each, at once with the service.  The database *)
(* may hold a product from before the ledger, a deleted product with the   *)
(* SKU of a line, both or none.                                            *)
EXTENDS Seeding

CONSTANTS s1, s2, p1, p2

MCAccounts == <<"admin", "staff">>
MCLines ==
    <<[sku |-> "SF-100", quantity |-> 1],
      [sku |-> "SF-400", quantity |-> 1]>>
MCStored == [p \in Ids |->
    IF p = p1 THEN [sku |-> "SF-100", stock |-> 2, active |-> TRUE, by |-> Service]
    ELSE IF p = p2 THEN [sku |-> "SF-400", stock |-> 1, active |-> FALSE, by |-> Service]
    ELSE NoRow]
MCLegacy == {p1}
MCDeltas == {-1}
=============================================================================
