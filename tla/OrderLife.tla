------------------------------ MODULE OrderLife ------------------------------
(***************************************************************************)
(* What the order pipeline promises, with no queue, no job and no worker   *)
(* in sight: the life of an order.  It advances one stage at a time, or    *)
(* fails before it is paid and then has its units returned once.           *)
(***************************************************************************)
EXTENDS Integers

CONSTANT Orders

VARIABLES
  stage,    \* stage[o]: how far the order has come
  returned  \* returned[o]: how many times its units went back to the pool

lvars == <<stage, returned>>

Successor ==
  [none |-> "pending", pending |-> "paid", paid |-> "fulfilled",
   fulfilled |-> "confirmed"]

LifeInit ==
  /\ stage = [o \in Orders |-> "none"]
  /\ returned = [o \in Orders |-> 0]

Advance(o) ==
  /\ stage[o] \in DOMAIN Successor
  /\ stage' = [stage EXCEPT ![o] = Successor[@]]
  /\ UNCHANGED returned

Fail(o) ==
  /\ stage[o] = "pending"
  /\ stage' = [stage EXCEPT ![o] = "failed"]
  /\ UNCHANGED returned

Return(o) ==
  /\ stage[o] = "failed" /\ returned[o] = 0
  /\ returned' = [returned EXCEPT ![o] = 1]
  /\ UNCHANGED stage

LifeNext == \E o \in Orders : Advance(o) \/ Fail(o) \/ Return(o)

LifeSpec == LifeInit /\ [][LifeNext]_lvars

=============================================================================
