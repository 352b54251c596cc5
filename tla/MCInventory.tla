---------------------------- MODULE MCInventory ----------------------------
(* Small instances of Inventory for TLC: the values the .cfg files give to *)
(* its constants.                                                          *)
EXTENDS Inventory, TLC

CONSTANTS p1, p2,          \* p1 is on sale, p2 is inactive
          r1, r2, r3, r4,  \* a scramble of purchases and reservations
          w1, w2, c1

MCProducts == {p1, p2}
MCActive == {p1}
MCCatalogStock == (p1 :> 3) @@ (p2 :> 1)

(* Two reservations and a purchase of one product, together asking for     *)
(* more than it has, so that somebody is sold out unless a hold comes back.*)
MCRequests == {r1, r2, r3}
MCKind == (r1 :> "buy") @@ (r2 :> "reserve") @@ (r3 :> "reserve")
MCItem == (r1 :> p1) @@ (r2 :> p1) @@ (r3 :> p1)
MCQty == (r1 :> 2) @@ (r2 :> 1) @@ (r3 :> 2)

(* The same with a request for the inactive product, whose counter is      *)
(* never primed.                                                           *)
MoreRequests == MCRequests \cup {r4}
MoreKind == MCKind @@ (r4 :> "buy")
MoreItem == MCItem @@ (r4 :> p2)
MoreQty == MCQty @@ (r4 :> 1)

=============================================================================
