------------------------------ MODULE StockPool ------------------------------
(***************************************************************************)
(* What the inventory engine promises, with no Redis key, no Mongo         *)
(* document and no process in sight: a pool of units per product, and for  *)
(* every request one share that is taken whole from the pool, once, and is *)
(* then kept for good or given back whole, once.                           *)
(***************************************************************************)
EXTENDS Integers

CONSTANTS
  Products,
  CatalogStock,  \* the units of each product when the sale opens
  Requests,
  Item,          \* the product each request wants
  Qty            \* and how many units of it

VARIABLES
  pool,   \* pool[p]: the units still on offer
  share   \* share[r]: what became of r's units

pvars == <<pool, share>>

PoolInit ==
  /\ pool = CatalogStock
  /\ share = [r \in Requests |-> "none"]

(* All of r's units or none of them, and only when the pool covers them.   *)
Take(r) ==
  /\ share[r] = "none"
  /\ pool[Item[r]] >= Qty[r]
  /\ pool' = [pool EXCEPT ![Item[r]] = @ - Qty[r]]
  /\ share' = [share EXCEPT ![r] = "taken"]

Keep(r) ==
  /\ share[r] = "taken"
  /\ share' = [share EXCEPT ![r] = "kept"]
  /\ UNCHANGED pool

GiveBack(r) ==
  /\ share[r] = "taken"
  /\ pool' = [pool EXCEPT ![Item[r]] = @ + Qty[r]]
  /\ share' = [share EXCEPT ![r] = "returned"]

PoolNext == \E r \in Requests : Take(r) \/ Keep(r) \/ GiveBack(r)

PoolSpec == PoolInit /\ [][PoolNext]_pvars

=============================================================================
