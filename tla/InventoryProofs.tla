--------------------------- MODULE InventoryProofs ---------------------------
(***************************************************************************)
(* Theorems about the inventory engine for any products, catalog, requests,*)
(* worker processes and faults.                                            *)
(***************************************************************************)
EXTENDS Inventory, FiniteSetTheorems, FunctionTheorems, TLAPS

-----------------------------------------------------------------------------
(* Type correctness.                                                       *)

(* BUY_LUA keeps a counter a natural number: it subtracts only what the    *)
(* counter covers.                                                         *)
LEMMA BuyStockType ==
  ASSUME TypeOK, NEW r \in Requests,
         NEW whenMissing \in Asking \cup Ended, BuyStock(r, whenMissing)
  PROVE  TypeOK'
<1> USE ConstantsAssumption DEF TypeOK, BuyStock, Covers, Goto, Asking, InFlight, Ended
<1>1. CASE UNCHANGED <<stock, drawn>>
  BY <1>1
<1>2. CASE /\ stock[Item[r]] # NoKey
           /\ stock[Item[r]] >= Qty[r]
           /\ stock' = [stock EXCEPT ![Item[r]] = @ - Qty[r]]
           /\ drawn' = drawn \cup {r}
           /\ Goto(r, "bought")
  <2>1. stock[Item[r]] \in Nat /\ Qty[r] \in Nat /\ stock[Item[r]] - Qty[r] \in Nat
    BY <1>2
  <2> QED BY <1>2, <2>1
<1> QED BY <1>1, <1>2

(* A compensation or a refund leaves a natural number in the counter,      *)
(* whether or not the key existed.                                         *)
LEMMA ReturnStockType ==
  ASSUME TypeOK, NEW r \in Requests, ReturnStock(r)
  PROVE  /\ stock' \in [Products -> Nat \cup {NoKey}]
         /\ refunds' \in [Requests -> Nat]
<1>1. Item[r] \in Products /\ Qty[r] \in Nat
  BY ConstantsAssumption
<1>2. (IF stock[Item[r]] = NoKey THEN Qty[r] ELSE stock[Item[r]] + Qty[r]) \in Nat
  BY <1>1 DEF TypeOK
<1> QED BY <1>1, <1>2 DEF TypeOK, ReturnStock

LEMMA TypeInit == Init => TypeOK
BY ConstantsAssumption DEF Init, TypeOK, HoldStatus, OrderStatus

LEMMA TypeStep == TypeOK /\ [Next]_vars => TypeOK'
<1> SUFFICES ASSUME TypeOK, [Next]_vars PROVE TypeOK'
  OBVIOUS
<1>1. ASSUME NEW r \in Requests, Purchase(r) PROVE TypeOK'
  BY <1>1, BuyStockType DEF Purchase, Asking
<1>2. ASSUME NEW r \in Requests, Retry(r) PROVE TypeOK'
  BY <1>2, BuyStockType DEF Retry, Ended
<1>3. ASSUME NEW r \in Requests, PrimeSet(r) PROVE TypeOK'
  <2>1. Item[r] \in Products /\ CatalogStock[Item[r]] \in Nat
    BY ConstantsAssumption
  <2> QED BY <1>3, <2>1 DEF TypeOK, PrimeSet, Primed, Goto, InFlight, Asking
<1>4. ASSUME NEW r \in Requests, Undo(r) PROVE TypeOK'
  BY <1>4, ReturnStockType DEF TypeOK, Undo, Goto, Ended
<1>5. ASSUME NEW r \in Requests, NEW f \in Refunders, Refund(f, r) PROVE TypeOK'
  BY <1>5, ReturnStockType DEF TypeOK, Refund
<1>6. ASSUME NEW r \in Requests,
             \/ PrimeFind(r) \/ CreateHold(r) \/ CreateOrder(r) \/ Enqueue(r)
             \/ Reply(r) \/ RequestFails(r) \/ Confirm(r)
             \/ \E h \in Clocks : Lapse(r, h)
      PROVE  TypeOK'
  BY <1>6 DEF TypeOK, Goto, InFlight, Asking, Ended, HoldStatus, OrderStatus,
     PrimeFind, CreateHold, CreateOrder, Enqueue, Reply, Confirm, Lapse,
     RequestFails, AskFails, CreateHoldFails, CreateHoldUnacknowledged, Caught, UndoFails,
     CreateOrderFails, Crash
<1>7. ASSUME NEW r \in Requests,
             \/ \E c \in Releasers : Release(c, r)
             \/ \E w \in Sweepers : Sweep(w, r)
             \/ \E f \in Refunders : RefundFails(f, r)
      PROVE  TypeOK'
  <2>1. owing' \subseteq Refunders \X Requests
    <3>1. \E f \in Refunders : owing' \subseteq owing \cup {<<f, r>>}
      BY <1>7 DEF Release, Owe, Unheard, Sweep, RefundFails, Refunders
    <3> QED BY <3>1 DEF TypeOK
  <2>2. hold' \in [Requests -> HoldStatus]
    BY <1>7 DEF TypeOK, Release, Sweep, RefundFails, HoldStatus
  <2>3. UNCHANGED <<stock, aof, pc, lapsed, order, enqueued, drawn, refunds>>
    BY <1>7 DEF Release, Sweep, RefundFails
  <2> QED BY <2>1, <2>2, <2>3 DEF TypeOK
<1>8. ASSUME \/ \E f \in Refunders : CrashRefunder(f)
             \/ AofFsync \/ RedisRestart
      PROVE  TypeOK'
  BY <1>8 DEF TypeOK, CrashRefunder, AofFsync, RedisRestart
<1>9. CASE UNCHANGED vars
  BY <1>9 DEF TypeOK, vars
<1> QED
  BY <1>1, <1>2, <1>3, <1>4, <1>5, <1>6, <1>7, <1>8, <1>9 DEF Next, Continue

(* Counters are never negative and every record keeps its shape, under     *)
(* every combination of faults.                                            *)
THEOREM TypeCorrect == Spec => []TypeOK
BY TypeInit, TypeStep, PTL DEF Spec

-----------------------------------------------------------------------------
(* Counting units.                                                         *)

LEMMA UnitsFinite ==
  ASSUME NEW S \in SUBSET Requests, NEW p
  PROVE  IsFiniteSet(Units(S, p)) /\ Cardinality(Units(S, p)) \in Nat
<1>1. MaxQty \in Nat
  BY ConstantsAssumption
<1>2. IsFiniteSet(1..MaxQty)
  BY <1>1, FS_Interval
<1>3. IsFiniteSet(S)
  BY RequestsFinite, FS_Subset
<1>4. IsFiniteSet(S \X (1..MaxQty))
  BY <1>2, <1>3, FS_Product
<1>5. Units(S, p) \in SUBSET (S \X (1..MaxQty))
  BY DEF Units
<1> QED BY <1>4, <1>5, FS_Subset, FS_CardinalityType

(* A request stands for Qty units of its own product and none of another.  *)
LEMMA UnitsOfOne ==
  ASSUME NEW r \in Requests, NEW p
  PROVE  Cardinality(Units({r}, p)) = IF Item[r] = p THEN Qty[r] ELSE 0
<1>1. Qty[r] \in Nat /\ Qty[r] <= MaxQty /\ MaxQty \in Nat
  BY ConstantsAssumption
<1>2. CASE Item[r] # p
  <2>1. Units({r}, p) = {}
    BY <1>2 DEF Units
  <2> QED BY <1>2, <2>1, FS_EmptySet
<1>3. CASE Item[r] = p
  <2> DEFINE f == [i \in 1..Qty[r] |-> <<r, i>>]
  <2>1. Units({r}, p) = {<<r, i>> : i \in 1..Qty[r]}
    BY <1>1, <1>3 DEF Units
  <2>2. f \in Bijection(1..Qty[r], Units({r}, p))
    <3>1. \A i, j \in 1..Qty[r] : f[i] = f[j] => i = j
      OBVIOUS
    <3>2. \A u \in Units({r}, p) : \E i \in 1..Qty[r] : f[i] = u
      BY <2>1
    <3>3. f \in [1..Qty[r] -> Units({r}, p)]
      BY <2>1
    <3> QED BY <3>1, <3>2, <3>3, Fun_IsBij
  <2>3. IsFiniteSet(1..Qty[r]) /\ Cardinality(1..Qty[r]) = Qty[r]
    <3>1. 1 \in Int /\ Qty[r] \in Int
      BY <1>1
    <3>2. /\ IsFiniteSet(1..Qty[r])
          /\ Cardinality(1..Qty[r]) = IF 1 > Qty[r] THEN 0 ELSE Qty[r] - 1 + 1
      BY <3>1, FS_Interval, Zenon
    <3> QED BY <1>1, <3>2
  <2> HIDE DEF f
  <2>4. ExistsBijection(1..Qty[r], Units({r}, p))
    BY <2>2 DEF ExistsBijection
  <2>5. Cardinality(Units({r}, p)) = Cardinality(1..Qty[r])
    BY <2>3, <2>4, FS_Bijection
  <2> QED BY <1>3, <2>3, <2>5
<1> QED BY <1>2, <1>3

(* Taking one more request into the count adds its units.                  *)
LEMMA UnitsAdd ==
  ASSUME NEW S \in SUBSET Requests, NEW r \in Requests, r \notin S, NEW p
  PROVE  Cardinality(Units(S \cup {r}, p)) =
           Cardinality(Units(S, p)) + (IF Item[r] = p THEN Qty[r] ELSE 0)
<1>1. Units(S \cup {r}, p) = Units(S, p) \cup Units({r}, p)
  BY DEF Units
<1>2. Units(S, p) \cap Units({r}, p) = {}
  BY DEF Units
<1>3. /\ IsFiniteSet(Units(S, p)) /\ Cardinality(Units(S, p)) \in Nat
      /\ IsFiniteSet(Units({r}, p)) /\ Cardinality(Units({r}, p)) \in Nat
  BY UnitsFinite
<1>4. Cardinality(Units(S, p) \cap Units({r}, p)) = 0
  BY <1>2, FS_EmptySet
<1>5. Cardinality(Units(S, p) \cup Units({r}, p)) =
        Cardinality(Units(S, p)) + Cardinality(Units({r}, p))
          - Cardinality(Units(S, p) \cap Units({r}, p))
  BY <1>3, FS_Union, Zenon
<1>6. Cardinality(Units({r}, p)) = IF Item[r] = p THEN Qty[r] ELSE 0
  BY UnitsOfOne
<1> DEFINE old == Cardinality(Units(S, p))
           new == Cardinality(Units({r}, p))
           both == Cardinality(Units(S, p) \cup Units({r}, p))
<1>7. both = old + new - 0 /\ old \in Nat /\ new \in Nat
  BY <1>3, <1>4, <1>5, Zenon
<1>8. both = old + new
  <2> HIDE DEF old, new, both
  <2> QED BY <1>7
<1> QED BY <1>1, <1>6, <1>8, Zenon

LEMMA UnitsMonotone ==
  ASSUME NEW S \in SUBSET Requests, NEW T \in SUBSET S, NEW p
  PROVE  Cardinality(Units(T, p)) <= Cardinality(Units(S, p))
<1>1. Units(T, p) \in SUBSET Units(S, p)
  BY DEF Units
<1> QED BY <1>1, UnitsFinite, FS_Subset

-----------------------------------------------------------------------------
(* The inductive invariant: initially, nothing is drawn.                   *)

LEMMA LedgerInit == Init => Ledger /\ \A r \in Requests : Consistent(r)
BY DEF Init, Ledger, Consistent, Untouched, InDebt, Asking

(* Only a request that draws stock or has its units returned, and the      *)
(* first primer of a key, touch the books.                                 *)
LEMMA LedgerUntouched ==
  ASSUME Ledger, UNCHANGED <<stock, drawn, refunds>>
  PROVE  Ledger'
BY DEF Ledger, Taken, Units

(* One run of BUY_LUA: the units move from the counter to r.               *)
LEMMA LedgerDraw ==
  ASSUME TypeOK, Ledger, NEW r \in Requests, NEW l, BuyStock(r, l),
         r \notin drawn, refunds[r] = 0
  PROVE  Ledger'
<1>1. CASE UNCHANGED <<stock, drawn>>
  BY <1>1, LedgerUntouched DEF BuyStock
<1>2. CASE ~UNCHANGED <<stock, drawn>>
  <2>1. /\ stock[Item[r]] # NoKey
        /\ stock[Item[r]] >= Qty[r]
        /\ stock' = [stock EXCEPT ![Item[r]] = @ - Qty[r]]
        /\ drawn' = drawn \cup {r}
        /\ refunds' = refunds
    BY <1>2 DEF BuyStock, Covers
  <2>2. Taken \in SUBSET Requests /\ r \notin Taken /\ Taken' = Taken \cup {r}
    BY <2>1 DEF Taken, TypeOK
  <2> SUFFICES ASSUME NEW p \in Products
               PROVE  IF stock'[p] = NoKey
                      THEN \A q \in drawn' : Item[q] # p
                      ELSE stock'[p] + Cardinality(Units(Taken', p)) = CatalogStock[p]
    BY DEF Ledger, Units
  <2>3. Cardinality(Units(Taken', p)) =
          Cardinality(Units(Taken, p)) + (IF Item[r] = p THEN Qty[r] ELSE 0)
    BY <2>2, UnitsAdd
  <2>4. Cardinality(Units(Taken, p)) \in Nat
    BY <2>2, UnitsFinite
  <2>5. Qty[r] \in Nat /\ Item[r] \in Products /\ CatalogStock[p] \in Nat /\ NoKey \notin Int
    BY ConstantsAssumption
  <2>6. CASE Item[r] = p
    <3>1. stock[p] \in Nat /\ stock'[p] = stock[p] - Qty[r] /\ stock'[p] # NoKey
      BY <2>1, <2>5, <2>6 DEF TypeOK
    <3>2. stock[p] + Cardinality(Units(Taken, p)) = CatalogStock[p]
      BY <2>1, <2>6 DEF Ledger
    <3> QED BY <2>3, <2>4, <2>5, <2>6, <3>1, <3>2
  <2>7. CASE Item[r] # p
    <3>1. stock'[p] = stock[p]
      BY <2>1, <2>7 DEF TypeOK
    <3>2. Cardinality(Units(Taken', p)) = Cardinality(Units(Taken, p))
      BY <2>3, <2>4, <2>7
    <3> QED BY <2>1, <2>7, <3>1, <3>2 DEF Ledger
  <2> QED BY <2>6, <2>7
<1> QED BY <1>1, <1>2

(* The first SET NX opens the books of a product; a late one is a no-op.   *)
LEMMA LedgerPrime ==
  ASSUME TypeOK, Ledger, NEW r \in Requests, PrimeSet(r)
  PROVE  Ledger'
<1>1. /\ stock' = [stock EXCEPT ![Item[r]] =
                     IF @ = NoKey THEN CatalogStock[Item[r]] ELSE @]
      /\ drawn' = drawn /\ refunds' = refunds
  BY DEF PrimeSet, Primed
<1>2. Taken' = Taken /\ Taken \in SUBSET Requests
  BY <1>1 DEF Taken, TypeOK
<1> SUFFICES ASSUME NEW p \in Products
             PROVE  IF stock'[p] = NoKey
                    THEN \A q \in drawn : Item[q] # p
                    ELSE stock'[p] + Cardinality(Units(Taken, p)) = CatalogStock[p]
  BY <1>1, <1>2 DEF Ledger, Units
<1>3. CASE stock[p] = NoKey /\ Item[r] = p
  <2>1. stock'[p] = CatalogStock[p] /\ CatalogStock[p] \in Nat
    BY <1>1, <1>3, ConstantsAssumption DEF TypeOK
  <2>2. Units(Taken, p) = {}
    BY <1>3 DEF Ledger, Units, Taken
  <2>3. Cardinality(Units(Taken, p)) = 0
    BY <2>2, FS_EmptySet
  <2>4. CatalogStock[p] # NoKey
    BY <2>1, ConstantsAssumption
  <2> QED BY <2>1, <2>3, <2>4
<1>4. CASE ~(stock[p] = NoKey /\ Item[r] = p)
  <2>1. stock'[p] = stock[p]
    BY <1>1, <1>4 DEF TypeOK
  <2> QED BY <2>1 DEF Ledger
<1> QED BY <1>3, <1>4

(* A compensation or a refund: the units move from r back to the counter.  *)
LEMMA LedgerReturn ==
  ASSUME TypeOK, Ledger, NEW r \in Requests, r \in Taken,
         ReturnStock(r), UNCHANGED drawn
  PROVE  Ledger'
<1>1. /\ Qty[r] \in Nat /\ Item[r] \in Products /\ NoKey \notin Int
      /\ CatalogStock \in [Products -> Nat]
  BY ConstantsAssumption
<1>2. r \in drawn /\ refunds[r] = 0 /\ refunds \in [Requests -> Nat] /\ drawn \subseteq Requests
  BY DEF Taken, TypeOK
<1>3. stock[Item[r]] # NoKey /\ stock[Item[r]] \in Nat
  BY <1>1, <1>2 DEF Ledger, TypeOK
<1>4. /\ stock' = [stock EXCEPT ![Item[r]] = @ + Qty[r]]
      /\ refunds' = [refunds EXCEPT ![r] = 1]
  BY <1>2, <1>3 DEF ReturnStock
<1>5. \A q \in Requests : refunds'[q] = 0 <=> refunds[q] = 0 /\ q # r
  BY <1>2, <1>4
<1>6. Taken' \in SUBSET Requests /\ r \notin Taken' /\ Taken = Taken' \cup {r}
  BY <1>2, <1>5 DEF Taken
<1> SUFFICES ASSUME NEW p \in Products
             PROVE  IF stock'[p] = NoKey
                    THEN \A q \in drawn : Item[q] # p
                    ELSE stock'[p] + Cardinality(Units(Taken', p)) = CatalogStock[p]
  BY DEF Ledger, Units
<1>7. Cardinality(Units(Taken, p)) =
        Cardinality(Units(Taken', p)) + (IF Item[r] = p THEN Qty[r] ELSE 0)
  BY <1>6, UnitsAdd
<1>8. Cardinality(Units(Taken', p)) \in Nat
  BY <1>6, UnitsFinite
<1>9. CASE Item[r] = p
  <2>1. stock[p] \in Nat /\ stock'[p] = stock[p] + Qty[r] /\ stock'[p] # NoKey
    BY <1>1, <1>3, <1>4, <1>9 DEF TypeOK
  <2>2. stock[p] + Cardinality(Units(Taken, p)) = CatalogStock[p]
    BY <1>3, <1>9 DEF Ledger
  <2> QED BY <1>1, <1>7, <1>8, <1>9, <2>1, <2>2
<1>10. CASE Item[r] # p
  <2>1. stock'[p] = stock[p]
    BY <1>4, <1>10 DEF TypeOK
  <2>2. Cardinality(Units(Taken', p)) = Cardinality(Units(Taken, p))
    BY <1>7, <1>8, <1>10
  <2> QED BY <1>10, <2>1, <2>2 DEF Ledger
<1> QED BY <1>9, <1>10

-----------------------------------------------------------------------------
(* The inductive invariant: every step leaves every request consistent.    *)
(* What Redis forgets in a restart is not part of a request's position.    *)

(* An insert that throws has not landed.                                   *)
WritesAnswered == "ambiguous_write" \notin Faults

LEMMA ConsistentStep ==
  ASSUME WritesAnswered, TypeOK, \A r \in Requests : Consistent(r), Next,
         NEW q \in Requests
  PROVE  Consistent(q)'
<1> USE DEF TypeOK, Consistent, Untouched, InDebt, Taken, Goto, Asking
<1>1. ASSUME NEW r \in Requests, Purchase(r) \/ Retry(r) PROVE Consistent(q)'
  <2>1. r \notin drawn /\ hold[r] = "none" /\ order[r] = "none" /\ ~InDebt(r) /\ refunds[r] = 0
    BY <1>1 DEF Purchase, Retry
  <2>2. PICK l : pc' = [pc EXCEPT ![r] = l] /\ l \notin {"idle", "undo"}
                 /\ (l = "bought" <=> drawn' = drawn \cup {r})
                 /\ (l # "bought" => drawn' = drawn)
    BY <1>1, <2>1 DEF Purchase, Retry, BuyStock
  <2>3. UNCHANGED <<hold, order, owing, refunds>>
    BY <1>1 DEF Purchase, Retry, BuyStock
  <2>4. CASE q = r
    BY <2>1, <2>2, <2>3, <2>4
  <2>5. CASE q # r
    BY <2>2, <2>3, <2>5
  <2> QED BY <2>4, <2>5
<1>2. ASSUME NEW r \in Requests, PrimeFind(r) \/ PrimeSet(r) PROVE Consistent(q)'
  <2>1. CASE PrimeFind(r)
    BY <2>1 DEF PrimeFind
  <2>2. CASE PrimeSet(r)
    BY <2>2 DEF PrimeSet
  <2> QED BY <1>2, <2>1, <2>2
<1>3. ASSUME NEW r \in Requests, CreateHold(r) PROVE Consistent(q)'
  BY <1>3 DEF CreateHold
<1>4. ASSUME NEW r \in Requests, CreateOrder(r) PROVE Consistent(q)'
  BY <1>4 DEF CreateOrder
<1>5. ASSUME NEW r \in Requests, Undo(r) PROVE Consistent(q)'
  <2>1. r \in drawn /\ refunds[r] = 0 /\ hold[r] = "none" /\ order[r] = "none" /\ ~InDebt(r)
    BY <1>5 DEF Undo
  <2>2. /\ refunds' = [refunds EXCEPT ![r] = 1] /\ pc' = [pc EXCEPT ![r] = "error"]
        /\ UNCHANGED <<hold, order, owing, drawn>>
    BY <1>5, <2>1 DEF Undo, ReturnStock
  <2>3. CASE q = r
    BY <2>1, <2>2, <2>3
  <2>4. CASE q # r
    BY <2>2, <2>4
  <2> QED BY <2>3, <2>4
<1>6. ASSUME NEW r \in Requests, Enqueue(r) \/ Reply(r) PROVE Consistent(q)'
  <2>1. CASE Enqueue(r)
    BY <2>1 DEF Enqueue
  <2>2. CASE Reply(r)
    BY <2>2 DEF Reply
  <2> QED BY <1>6, <2>1, <2>2
<1>7. ASSUME NEW r \in Requests, RequestFails(r) PROVE Consistent(q)'
  <2>1. UNCHANGED <<hold, order, owing, drawn, refunds>>
    BY <1>7 DEF RequestFails, AskFails, CreateHoldFails, UndoFails, Crash, WritesAnswered,
       CreateHoldUnacknowledged, CreateOrderFails
  <2>2. PICK l \in {"error", "undo", "dead"} :
          pc' = [pc EXCEPT ![r] = l] /\ (l = "undo" => pc[r] = "bought")
    BY <1>7 DEF RequestFails, AskFails, CreateHoldFails, Caught, UndoFails, Crash,
       WritesAnswered, CreateHoldUnacknowledged, CreateOrderFails
  <2> QED BY <2>1, <2>2
<1>8. ASSUME NEW r \in Requests, Confirm(r) \/ \E h \in Clocks : Lapse(r, h)
      PROVE  Consistent(q)'
  BY <1>8 DEF Confirm, Confirmable, Lapse
<1>9. ASSUME NEW r \in Requests, NEW c \in Releasers, Release(c, r)
      PROVE  Consistent(q)'
  BY <1>9 DEF Release, Releasable, Owe, Unheard, Refunders
<1>10. ASSUME NEW r \in Requests, NEW w \in Sweepers, Sweep(w, r)
       PROVE  Consistent(q)'
  BY <1>10 DEF Sweep, Sweepable, Owe, Unheard, Refunders
<1>11. ASSUME NEW r \in Requests, NEW f \in Refunders, Refund(f, r)
       PROVE  Consistent(q)'
  <2>1. /\ r \in drawn /\ refunds[r] = 0 /\ order[r] = "none"
        /\ hold[r] \in {"expired", "released"}
        /\ pc[r] \notin {"idle", "bought", "undo"} \cup Asking
        /\ \A g \in Refunders : <<g, r>> \in owing => g = f
    BY <1>11 DEF Refund
  <2>2. /\ refunds' = [refunds EXCEPT ![r] = 1] /\ owing' = owing \ {<<f, r>>}
        /\ UNCHANGED <<pc, hold, order, drawn>>
    BY <1>11, <2>1 DEF Refund, ReturnStock
  <2>3. CASE q = r
    <3>1. \A g \in Refunders : <<g, q>> \notin owing'
      BY <2>1, <2>2, <2>3
    <3>2. /\ pc'[q] \notin {"idle", "bought", "undo"} \cup Asking
          /\ hold'[q] \notin {"held", "confirmed"}
          /\ order'[q] = "none"
          /\ refunds'[q] <= 1
      BY <2>1, <2>2, <2>3
    <3> QED BY <3>1, <3>2
  <2>4. CASE q # r
    BY <2>2, <2>4
  <2> QED BY <2>3, <2>4
<1>12. ASSUME NEW f \in Refunders, CrashRefunder(f) \/ \E r \in Requests : RefundFails(f, r)
       PROVE  Consistent(q)'
  <2>1. owing' \subseteq owing /\ UNCHANGED <<pc, hold, order, drawn, refunds>>
    BY <1>12 DEF CrashRefunder, RefundFails
  <2> QED BY <2>1
<1>13. CASE AofFsync \/ RedisRestart
  BY <1>13 DEF AofFsync, RedisRestart
<1> QED
  BY <1>1, <1>2, <1>3, <1>4, <1>5, <1>6, <1>7, <1>8, <1>9, <1>10, <1>11,
     <1>12, <1>13 DEF Next, Continue

LEMMA PositionsHold ==
  ASSUME WritesAnswered
  PROVE  Spec => [](\A r \in Requests : Consistent(r))
<1> DEFINE Inv == \A r \in Requests : Consistent(r)
<1>1. Init => Inv
  BY DEF Init, Consistent, Untouched, InDebt, Taken
<1>2. TypeOK /\ Inv /\ [Next]_vars => Inv'
  <2>1. CASE UNCHANGED vars
    BY <2>1 DEF vars, Consistent, Untouched, InDebt, Taken
  <2> QED BY <2>1, ConsistentStep
<1> QED BY <1>1, <1>2, TypeCorrect, PTL DEF Spec

(* No mix of compensation, release and sweep, by any number of workers and *)
(* api processes, returns the units of one request twice, whatever else    *)
(* fails or restarts while inserts are answered truly.                     *)
THEOREM NeverRefundedTwice ==
  ASSUME WritesAnswered
  PROVE  Spec => []RefundedAtMostOnce
<1>1. (\A r \in Requests : Consistent(r)) => RefundedAtMostOnce
  BY DEF Consistent, RefundedAtMostOnce
<1> QED BY <1>1, PositionsHold, PTL

(* The inductive invariant: every step keeps the books balanced.           *)
LEMMA LedgerStep ==
  ASSUME ReliableStores, IInv, Next
  PROVE  Ledger'
<1> USE DEF IInv
<1>1. ASSUME NEW r \in Requests, Purchase(r) \/ Retry(r) PROVE Ledger'
  <2>1. r \notin drawn /\ refunds[r] = 0
    BY <1>1 DEF Purchase, Retry, Consistent, Untouched, Asking
  <2> QED BY <1>1, <2>1, LedgerDraw DEF Purchase, Retry
<1>2. ASSUME NEW r \in Requests, PrimeSet(r) PROVE Ledger'
  BY <1>2, LedgerPrime
<1>3. ASSUME NEW r \in Requests, Undo(r) PROVE Ledger'
  <2>1. r \in Taken
    BY <1>3 DEF Undo, Consistent, Untouched, Taken
  <2> QED BY <1>3, <2>1, LedgerReturn DEF Undo
<1>4. ASSUME NEW r \in Requests, NEW f \in Refunders, Refund(f, r) PROVE Ledger'
  <2>1. r \in Taken
    BY <1>4 DEF Refund, Consistent, InDebt
  <2> QED BY <1>4, <2>1, LedgerReturn DEF Refund
<1>5. ASSUME NEW r \in Requests,
             \/ PrimeFind(r) \/ CreateHold(r) \/ CreateOrder(r) \/ Enqueue(r)
             \/ Reply(r) \/ RequestFails(r) \/ Confirm(r)
             \/ \E h \in Clocks : Lapse(r, h)
             \/ \E c \in Releasers : Release(c, r)
             \/ \E w \in Sweepers : Sweep(w, r)
             \/ \E f \in Refunders : RefundFails(f, r)
      PROVE  Ledger'
  <2>1. UNCHANGED <<stock, drawn, refunds>>
    BY <1>5 DEF PrimeFind, CreateHold, CreateOrder, Enqueue, Reply, Confirm, Confirmable, Lapse,
       Release, Sweep, RefundFails, RequestFails, AskFails, CreateHoldFails, UndoFails,
       CreateHoldUnacknowledged, CreateOrderFails, Crash
  <2> QED BY <2>1, LedgerUntouched
<1>6. ASSUME \/ \E f \in Refunders : CrashRefunder(f)
             \/ AofFsync
      PROVE  Ledger'
  <2>1. UNCHANGED <<stock, drawn, refunds>>
    BY <1>6 DEF CrashRefunder, AofFsync
  <2> QED BY <2>1, LedgerUntouched
<1>7. ~RedisRestart
  BY DEF RedisRestart, ReliableStores
<1> QED BY <1>1, <1>2, <1>3, <1>4, <1>5, <1>6, <1>7 DEF Next, Continue

(* The inductive invariant, as a property of the specification.  It is     *)
(* about every interleaving of purchase, reserve, confirm, release and     *)
(* sweep in which Mongo writes are acknowledged or absent and Redis keeps  *)
(* its data, whichever processes die on the way.                           *)
THEOREM Invariant ==
  ASSUME ReliableStores
  PROVE  Spec => []IInv
<1>1. Init => IInv
  BY TypeInit, LedgerInit DEF IInv
<1>2. IInv /\ [Next]_vars => IInv'
  <2> SUFFICES ASSUME IInv, [Next]_vars PROVE IInv'
    OBVIOUS
  <2>1. TypeOK'
    BY TypeStep DEF IInv
  <2>2. CASE Next
    BY <2>1, <2>2, LedgerStep, ConsistentStep DEF IInv, ReliableStores, WritesAnswered
  <2>3. CASE UNCHANGED vars
    <3>1. Ledger'
      BY <2>3, LedgerUntouched DEF vars, IInv
    <3>2. \A r \in Requests : Consistent(r)'
      BY <2>3 DEF vars, IInv, Consistent, Untouched, InDebt, Taken
    <3> QED BY <2>1, <3>1, <3>2 DEF IInv
  <2> QED BY <2>2, <2>3
<1> QED BY <1>1, <1>2, PTL DEF Spec

-----------------------------------------------------------------------------
(* What follows from it.                                                   *)

LEMMA ClaimsAreTaken == IInv => Claims \subseteq Taken
BY DEF IInv, Claims, Claimed, Consistent, Untouched, Taken

LEMMA IInvNoOversell == IInv => NoOversell
<1> SUFFICES ASSUME IInv, NEW p \in Products
             PROVE  IF stock[p] = NoKey
                    THEN Units(Claims, p) = {}
                    ELSE /\ stock[p] >= 0
                         /\ stock[p] + Cardinality(Units(Claims, p)) <= CatalogStock[p]
  BY DEF NoOversell
<1>1. Claims \in SUBSET Taken /\ Taken \in SUBSET Requests
  BY ClaimsAreTaken DEF IInv, TypeOK, Taken
<1>2. CASE stock[p] = NoKey
  BY <1>1, <1>2 DEF IInv, Ledger, Units, Taken
<1>3. CASE stock[p] # NoKey
  <2>1. stock[p] \in Nat /\ CatalogStock[p] \in Nat
    BY <1>3, ConstantsAssumption DEF IInv, TypeOK
  <2>2. stock[p] + Cardinality(Units(Taken, p)) = CatalogStock[p]
    BY <1>3 DEF IInv, Ledger
  <2>3. Cardinality(Units(Claims, p)) <= Cardinality(Units(Taken, p))
    BY <1>1, UnitsMonotone
  <2>4. Cardinality(Units(Claims, p)) \in Nat /\ Cardinality(Units(Taken, p)) \in Nat
    BY <1>1, UnitsFinite
  <2> QED BY <1>3, <2>1, <2>2, <2>3, <2>4
<1> QED BY <1>2, <1>3

(* README.md's first guarantee: however many buyers race for however many  *)
(* products, what is on offer and what is promised never exceed the catalog.*)
THEOREM NeverOversold ==
  ASSUME ReliableStores
  PROVE  Spec => []NoOversell
BY Invariant, IInvNoOversell, PTL

(* A counter that exists rises only by one request's refund, whatever      *)
(* primes race with the purchases: no late primer resurrects sold stock.   *)
THEOREM NoResurrection ==
  ASSUME ReliableStores
  PROVE  Spec => RisesOnlyByRefund
<1>1. IInv /\ [Next]_vars => [OnlyRefundsRaise]_vars
  <2> SUFFICES ASSUME IInv, Next, NEW p \in Products,
                      stock[p] # NoKey, stock'[p] # stock[p]
               PROVE  \/ stock'[p] < stock[p]
                      \/ \E r \in Requests :
                           /\ Item[r] = p
                           /\ refunds'[r] = refunds[r] + 1
                           /\ stock'[p] = stock[p] + Qty[r]
    BY DEF OnlyRefundsRaise
  <2> USE ConstantsAssumption DEF IInv, TypeOK
  <2>1. ASSUME NEW r \in Requests, Purchase(r) \/ Retry(r)
        PROVE  stock'[p] < stock[p]
    <3>1. /\ stock[Item[r]] >= Qty[r]
          /\ stock' = [stock EXCEPT ![Item[r]] = @ - Qty[r]]
      BY <2>1 DEF Purchase, Retry, BuyStock, Covers
    <3>2. Item[r] = p /\ stock[p] \in Nat /\ Qty[r] \in Nat \ {0}
      BY <3>1
    <3> QED BY <3>1, <3>2
  <2>2. ASSUME NEW r \in Requests, ReturnStock(r)
        PROVE  /\ Item[r] = p
               /\ refunds'[r] = refunds[r] + 1
               /\ stock'[p] = stock[p] + Qty[r]
    BY <2>2 DEF ReturnStock
  <2>3. ASSUME NEW r \in Requests, PrimeSet(r) PROVE FALSE
    BY <2>3 DEF PrimeSet, Primed
  <2>4. ASSUME NEW r \in Requests,
               \/ PrimeFind(r) \/ CreateHold(r) \/ CreateOrder(r) \/ Enqueue(r)
               \/ Reply(r) \/ RequestFails(r) \/ Confirm(r)
               \/ \E h \in Clocks : Lapse(r, h)
               \/ \E c \in Releasers : Release(c, r)
               \/ \E w \in Sweepers : Sweep(w, r)
               \/ \E f \in Refunders : RefundFails(f, r)
        PROVE  FALSE
    BY <2>4 DEF PrimeFind, CreateHold, CreateOrder, Enqueue, Reply, Confirm, Confirmable, Lapse,
       Release, Sweep, RefundFails, RequestFails, AskFails, CreateHoldFails, UndoFails,
       CreateHoldUnacknowledged, CreateOrderFails, Crash
  <2>5. ~(\/ \E f \in Refunders : CrashRefunder(f)
          \/ AofFsync \/ RedisRestart)
    BY DEF CrashRefunder, AofFsync, RedisRestart, ReliableStores
  <2> QED
    BY <2>1, <2>2, <2>3, <2>4, <2>5 DEF Next, Continue, Undo, Refund
<1> QED BY <1>1, Invariant, PTL DEF Spec, RisesOnlyByRefund

-----------------------------------------------------------------------------
(* What Mongo alone decides, under every combination of faults.            *)

(* The document is written once, at the end of reserve(); only a request   *)
(* that was answered is confirmed; what was neither expired nor released is*)
(* not refunded, but for the compensation of an insert that threw.         *)
Decided(r) ==
  /\ pc[r] \in {"idle", "bought"} \cup Asking => hold[r] = "none"
  /\ hold[r] = "confirmed" => pc[r] = "ok"
  /\ hold[r] \in {"none", "held", "confirmed"} =>
       /\ ~InDebt(r)
       /\ pc[r] \notin {"undo", "error", "dead"} => refunds[r] = 0

LEMMA DecidedStep ==
  ASSUME TypeOK, \A r \in Requests : Decided(r), [Next]_vars, NEW q \in Requests
  PROVE  Decided(q)'
<1> USE DEF TypeOK, Decided, InDebt, Goto, Asking
<1>1. ASSUME NEW r \in Requests, Purchase(r) \/ Retry(r) PROVE Decided(q)'
  <2>1. UNCHANGED <<hold, owing, refunds>>
    BY <1>1 DEF Purchase, Retry, BuyStock
  <2>2. PICK l : pc' = [pc EXCEPT ![r] = l]
    BY <1>1 DEF Purchase, Retry, BuyStock
  <2>3. hold[r] = "none" /\ refunds[r] = 0
    BY <1>1 DEF Purchase, Retry
  <2> QED BY <2>1, <2>2, <2>3
<1>2. ASSUME NEW r \in Requests, PrimeFind(r) \/ PrimeSet(r) PROVE Decided(q)'
  <2>1. CASE PrimeFind(r)
    BY <2>1 DEF PrimeFind
  <2>2. CASE PrimeSet(r)
    BY <2>2 DEF PrimeSet
  <2> QED BY <1>2, <2>1, <2>2
<1>3. ASSUME NEW r \in Requests, CreateHold(r) \/ CreateHoldUnacknowledged(r)
      PROVE  Decided(q)'
  <2>1. pc[r] = "bought" /\ hold' = [hold EXCEPT ![r] = "held"] /\ UNCHANGED <<owing, refunds>>
    BY <1>3 DEF CreateHold, CreateHoldUnacknowledged
  <2>2. PICK l \in {"placed", "undo"} : pc' = [pc EXCEPT ![r] = l]
    BY <1>3 DEF CreateHold, CreateHoldUnacknowledged, Caught
  <2> QED BY <2>1, <2>2
<1>4. ASSUME NEW r \in Requests, Undo(r) PROVE Decided(q)'
  <2>1. /\ pc[r] = "undo" /\ pc' = [pc EXCEPT ![r] = "error"] /\ UNCHANGED <<hold, owing>>
        /\ refunds' = [refunds EXCEPT ![r] = refunds[r] + 1]
    BY <1>4 DEF Undo, ReturnStock
  <2>2. CASE q = r
    BY <2>1, <2>2
  <2>3. CASE q # r
    BY <2>1, <2>3
  <2> QED BY <2>2, <2>3
<1>5. ASSUME NEW r \in Requests, CreateOrder(r) \/ Enqueue(r) \/ Reply(r) PROVE Decided(q)'
  <2>1. UNCHANGED <<hold, owing, refunds>> /\ pc[r] \in {"bought", "ordered", "placed"}
    BY <1>5 DEF CreateOrder, Enqueue, Reply
  <2>2. PICK l \in {"ordered", "placed", "ok"} : pc' = [pc EXCEPT ![r] = l]
    BY <1>5 DEF CreateOrder, Enqueue, Reply
  <2> QED BY <2>1, <2>2
<1>6. ASSUME NEW r \in Requests, RequestFails(r), ~CreateHoldUnacknowledged(r)
      PROVE  Decided(q)'
  <2>1. UNCHANGED <<hold, owing, refunds>> /\ pc[r] \in {"idle"} \cup InFlight
    BY <1>6 DEF RequestFails, AskFails, CreateHoldFails, UndoFails, CreateOrderFails, Crash,
       InFlight
  <2>2. PICK l \in {"error", "undo", "dead"} : pc' = [pc EXCEPT ![r] = l]
    BY <1>6 DEF RequestFails, AskFails, CreateHoldFails, Caught, UndoFails, CreateOrderFails,
       Crash
  <2> QED BY <2>1, <2>2 DEF InFlight
<1>7. ASSUME NEW r \in Requests, Confirm(r) \/ \E h \in Clocks : Lapse(r, h)
      PROVE  Decided(q)'
  <2>1. CASE Confirm(r)
    BY <2>1 DEF Confirm, Confirmable
  <2>2. CASE \E h \in Clocks : Lapse(r, h)
    BY <2>2 DEF Lapse
  <2> QED BY <1>7, <2>1, <2>2
<1>8. ASSUME NEW r \in Requests,
             (\E c \in Releasers : Release(c, r)) \/ (\E w \in Sweepers : Sweep(w, r))
      PROVE  Decided(q)'
  <2>1. PICK s \in {"released", "expired"} : hold' = [hold EXCEPT ![r] = s]
    BY <1>8 DEF Release, Sweep
  <2>2. hold[r] = "held" /\ UNCHANGED <<pc, refunds>>
    BY <1>8 DEF Release, Releasable, Sweep, Sweepable
  <2>3. \A f \in Refunders : <<f, q>> \in owing' => <<f, q>> \in owing \/ q = r
    BY <1>8 DEF Release, Sweep, Owe, Unheard
  <2>4. CASE q = r
    BY <2>1, <2>2, <2>4
  <2>5. CASE q # r
    BY <2>1, <2>2, <2>3, <2>5
  <2> QED BY <2>4, <2>5
<1>9. ASSUME NEW r \in Requests, NEW f \in Refunders, Refund(f, r) PROVE Decided(q)'
  <2>1. /\ InDebt(r) /\ owing' \subseteq owing /\ UNCHANGED <<pc, hold>>
        /\ \A x \in Requests \ {r} : refunds'[x] = refunds[x]
    BY <1>9 DEF Refund, ReturnStock
  <2>2. hold[r] \notin {"none", "held", "confirmed"}
    BY <2>1
  <2> QED BY <2>1, <2>2
<1>10. ASSUME NEW f \in Refunders, CrashRefunder(f) \/ \E r \in Requests : RefundFails(f, r)
       PROVE  Decided(q)'
  <2>1. owing' \subseteq owing /\ UNCHANGED <<pc, hold, refunds>>
    BY <1>10 DEF CrashRefunder, RefundFails
  <2> QED BY <2>1
<1>11. CASE AofFsync \/ RedisRestart \/ UNCHANGED vars
  BY <1>11 DEF AofFsync, RedisRestart, vars
<1> QED
  BY <1>1, <1>2, <1>3, <1>4, <1>5, <1>6, <1>7, <1>8, <1>9, <1>10, <1>11
     DEF Next, Continue, RequestFails

LEMMA DecidedHolds == Spec => [](\A r \in Requests : Decided(r))
<1> DEFINE Inv == \A r \in Requests : Decided(r)
<1>1. Init => Inv
  BY DEF Init, Decided, InDebt
<1>2. TypeOK /\ Inv /\ [Next]_vars => Inv'
  BY DecidedStep
<1> QED BY <1>1, <1>2, TypeCorrect, PTL DEF Spec

(* A confirmed reservation keeps its units, whoever raced for it and       *)
(* whatever fails: a document whose insert threw can be refunded twice, but*)
(* no client knows it to confirm it.                                       *)
THEOREM ConfirmedKept == Spec => []ConfirmedNeverRefunded
<1>1. (\A r \in Requests : Decided(r)) => ConfirmedNeverRefunded
  BY DEF Decided, ConfirmedNeverRefunded
<1> QED BY <1>1, DecidedHolds, PTL

(* The status of a reservation is the arbiter of every race for it: once   *)
(* settled it never changes, whatever fails.                               *)
THEOREM SettledForGood == Spec => SettledIsFinal
<1> DEFINE Inv == \A r \in Requests : Decided(r)
<1>1. Inv /\ TypeOK /\ [Next]_vars => [SettledStays]_vars
  <2> SUFFICES ASSUME Inv, TypeOK, Next, NEW r \in Requests,
                      hold[r] \in {"confirmed", "expired", "released"}
               PROVE  hold'[r] = hold[r]
    BY DEF SettledStays
  <2>1. ASSUME NEW q \in Requests, pc[q] = "bought" \/ hold[q] = "held"
        PROVE  q # r
    BY <2>1 DEF Decided
  <2> USE DEF TypeOK
  <2>2. ASSUME NEW q \in Requests,
               Continue(q) \/ RequestFails(q) \/ Purchase(q) \/ Confirm(q)
        PROVE  hold'[r] = hold[r]
    <3>1. CASE CreateHold(q) \/ CreateHoldUnacknowledged(q) \/ Confirm(q)
      BY <2>1, <3>1 DEF CreateHold, CreateHoldUnacknowledged, Confirm, Confirmable
    <3>2. CASE ~(CreateHold(q) \/ CreateHoldUnacknowledged(q) \/ Confirm(q))
      BY <2>2, <3>2 DEF Continue, Purchase, Retry, BuyStock, PrimeFind, PrimeSet,
         Undo, CreateOrder, Enqueue, Reply, RequestFails, AskFails,
         CreateHoldFails, UndoFails, CreateOrderFails, Crash
    <3> QED BY <3>1, <3>2
  <2>3. ASSUME NEW q \in Requests,
               \/ \E c \in Releasers : Release(c, q)
               \/ \E w \in Sweepers : Sweep(w, q)
        PROVE  hold'[r] = hold[r]
    BY <2>1, <2>3 DEF Release, Releasable, Sweep, Sweepable
  <2>4. ASSUME NEW q \in Requests,
               \/ \E h \in Clocks : Lapse(q, h)
               \/ \E f \in Refunders : Refund(f, q) \/ RefundFails(f, q)
        PROVE  hold'[r] = hold[r]
    BY <2>4 DEF Lapse, Refund, RefundFails
  <2>5. ASSUME \/ \E f \in Refunders : CrashRefunder(f)
               \/ AofFsync \/ RedisRestart
        PROVE  hold'[r] = hold[r]
    BY <2>5 DEF CrashRefunder, AofFsync, RedisRestart
  <2> QED BY <2>2, <2>3, <2>4, <2>5 DEF Next
<1> QED
  BY <1>1, DecidedHolds, TypeCorrect, PTL DEF Spec, SettledIsFinal

-----------------------------------------------------------------------------
(* What can be forgotten.                                                  *)

(* No process dies holding units it has to return, none fails to learn of  *)
(* them, and no INCRBY is refused.                                         *)
ReturnsMade ==
  Faults \cap {"api_crash", "worker_crash", "redis_error", "ambiguous_update"} = {}

Accounted(r) == r \in drawn /\ refunds[r] = 0 => Claimed(r) \/ BuyFailed(r)

(* Only a purchase whose order was not written is forgotten: POST /buy does*)
(* not compensate, reserve() does.                                         *)
LEMMA AccountedStep ==
  ASSUME ReturnsMade, TypeOK, [Next]_vars, NEW q \in Requests, Accounted(q)
  PROVE  Accounted(q)'
<1> USE DEF TypeOK, Accounted, Claimed, InDebt, BuyFailed, Goto
<1>1. ASSUME NEW r \in Requests, Purchase(r) \/ Retry(r) PROVE Accounted(q)'
  <2>1. PICK l : /\ pc' = [pc EXCEPT ![r] = l]
                 /\ drawn' = drawn \/ (l = "bought" /\ drawn' = drawn \cup {r})
    BY <1>1 DEF Purchase, Retry, BuyStock
  <2>2. UNCHANGED <<hold, order, owing, refunds>> /\ pc[r] \in {"idle", "retry"}
    BY <1>1 DEF Purchase, Retry, BuyStock
  <2>3. CASE q = r
    BY <2>1, <2>2, <2>3
  <2>4. CASE q # r
    BY <2>1, <2>2, <2>4
  <2> QED BY <2>3, <2>4
<1>2. ASSUME NEW r \in Requests,
             \/ PrimeFind(r) \/ PrimeSet(r) \/ Enqueue(r) \/ Reply(r)
             \/ AskFails(r) \/ CreateHoldFails(r)
      PROVE  Accounted(q)'
  <2>1. UNCHANGED <<hold, order, owing, drawn, refunds>>
    BY <1>2 DEF PrimeFind, PrimeSet, Enqueue, Reply, AskFails, CreateHoldFails
  <2>2. PICK l : /\ pc' = [pc EXCEPT ![r] = l]
                 /\ pc[r] # "error"
                 /\ pc[r] \in {"bought", "undo"} => l = "undo"
    BY <1>2 DEF PrimeFind, PrimeSet, Enqueue, Reply, AskFails, CreateHoldFails, Caught
  <2> QED BY <2>1, <2>2
<1>3. ASSUME NEW r \in Requests, CreateHold(r) \/ CreateHoldUnacknowledged(r)
      PROVE  Accounted(q)'
  BY <1>3 DEF CreateHold, CreateHoldUnacknowledged, Caught
<1>4. ASSUME NEW r \in Requests, CreateOrder(r) \/ CreateOrderFails(r)
      PROVE  Accounted(q)'
  <2>1. Kind[r] = "buy" /\ UNCHANGED <<hold, owing, drawn, refunds>>
    BY <1>4 DEF CreateOrder, CreateOrderFails
  <2>2. \A x \in Requests \ {r} : pc'[x] = pc[x] /\ order'[x] = order[x]
    BY <1>4 DEF CreateOrder, CreateOrderFails
  <2>3. CASE q = r
    <3>1. order'[r] = "pending" \/ pc'[r] = "error"
      BY <1>4, <2>1, <2>3 DEF CreateOrder, CreateOrderFails
    <3> QED BY <2>1, <2>3, <3>1
  <2>4. CASE q # r
    BY <2>1, <2>2, <2>4
  <2> QED BY <2>3, <2>4
<1>5. ASSUME NEW r \in Requests, ReturnStock(r), UNCHANGED <<hold, order, drawn>>,
             \A x \in Requests \ {r} : /\ pc'[x] = pc[x]
                                      /\ \A f \in Refunders : <<f, x>> \in owing' <=> <<f, x>> \in owing
      PROVE  Accounted(q)'
  <2>1. refunds' = [refunds EXCEPT ![r] = refunds[r] + 1] /\ refunds[r] + 1 # 0
    BY <1>5 DEF ReturnStock
  <2>2. CASE q = r
    BY <2>1, <2>2
  <2>3. CASE q # r
    BY <1>5, <2>1, <2>3
  <2> QED BY <2>2, <2>3
<1>6. ASSUME NEW r \in Requests, Undo(r) PROVE Accounted(q)'
  BY <1>5, <1>6 DEF Undo
<1>7. ASSUME NEW r \in Requests, NEW f \in Refunders, Refund(f, r) PROVE Accounted(q)'
  BY <1>5, <1>7 DEF Refund
<1>8. ASSUME NEW r \in Requests, Confirm(r) \/ \E h \in Clocks : Lapse(r, h)
      PROVE  Accounted(q)'
  <2>1. CASE Confirm(r)
    BY <2>1 DEF Confirm, Confirmable
  <2>2. CASE \E h \in Clocks : Lapse(r, h)
    BY <2>2 DEF Lapse
  <2> QED BY <1>8, <2>1, <2>2
<1>9. ASSUME NEW r \in Requests, NEW c \in Releasers, Release(c, r) PROVE Accounted(q)'
  BY <1>9 DEF Release, Releasable, Owe, Unheard, ReturnsMade, Refunders
<1>10. ASSUME NEW r \in Requests, NEW w \in Sweepers, Sweep(w, r) PROVE Accounted(q)'
  BY <1>10 DEF Sweep, Sweepable, Owe, Unheard, ReturnsMade, Refunders
<1>11. /\ \A r \in Requests : ~Crash(r) /\ ~UndoFails(r)
       /\ \A f \in Refunders : ~CrashRefunder(f) /\ \A r \in Requests : ~RefundFails(f, r)
  BY DEF ReturnsMade, Crash, UndoFails, CrashRefunder, RefundFails
<1>12. CASE AofFsync \/ RedisRestart \/ UNCHANGED vars
  BY <1>12 DEF AofFsync, RedisRestart, vars
<1> QED
  BY <1>1, <1>2, <1>3, <1>4, <1>6, <1>7, <1>8, <1>9, <1>10, <1>11, <1>12
     DEF Next, Continue, RequestFails

(* Units that left the counter are a client's or on their way back, or a   *)
(* POST /buy answered 500 for them, whatever Mongo and the queue refuse or *)
(* fail to acknowledge and however often Redis restarts, while no process  *)
(* dies, no Redis command is refused and every claim of a hold is heard of.*)
THEOREM NothingLost ==
  ASSUME ReturnsMade
  PROVE  Spec => []NoGhostStock
<1> DEFINE Inv == \A r \in Requests : Accounted(r)
<1>1. Init => Inv
  BY DEF Init, Accounted
<1>2. TypeOK /\ Inv /\ [Next]_vars => Inv'
  BY AccountedStep
<1>3. TypeOK /\ Inv => NoGhostStock
  BY DEF TypeOK, Accounted, NoGhostStock
<1> QED BY <1>1, <1>2, <1>3, TypeCorrect, PTL DEF Spec

(* The units of a hold that was settled as s are back, or one of F is about*)
(* to return them.                                                         *)
Returned(r, s, F) ==
  hold[r] = s => refunds[r] = 1 \/ \E f \in F : <<f, r>> \in owing

(* Sweepers owe the units of expired holds, releasers those of released    *)
(* ones; each hears of its claim, its INCRBY is done and it does not die.  *)
Owed(s, F) ==
  /\ Faults \cap {"redis_error", "ambiguous_update"} = {}
  /\ \/ s = "expired" /\ F = Sweepers /\ "worker_crash" \notin Faults
     \/ s = "released" /\ F = Releasers /\ "api_crash" \notin Faults

LEMMA ReturnedStep ==
  ASSUME WritesAnswered, NEW s, NEW F, Owed(s, F), TypeOK,
         \A r \in Requests : Consistent(r), [Next]_vars, NEW q \in Requests, Returned(q, s, F)
  PROVE  Returned(q, s, F)'
<1>0. s \in {"expired", "released"} /\ F \subseteq Refunders
  BY DEF Owed, Refunders
<1> USE <1>0 DEF TypeOK, Returned, Goto
<1>1. ASSUME NEW r \in Requests,
             \/ Purchase(r) \/ PrimeFind(r) \/ PrimeSet(r) \/ Retry(r)
             \/ CreateOrder(r) \/ Enqueue(r) \/ Reply(r)
             \/ RequestFails(r) \/ \E h \in Clocks : Lapse(r, h)
      PROVE  Returned(q, s, F)'
  <2>1. UNCHANGED <<hold, owing, refunds>>
    BY <1>1 DEF Purchase, Retry, BuyStock, PrimeFind, PrimeSet, CreateOrder, Enqueue, Reply,
       RequestFails, AskFails, CreateHoldFails, CreateHoldUnacknowledged, UndoFails,
       CreateOrderFails, Crash, Lapse, WritesAnswered
  <2> QED BY <2>1
<1>2. ASSUME NEW r \in Requests, CreateHold(r) \/ Confirm(r) PROVE Returned(q, s, F)'
  <2>1. PICK h \in {"held", "confirmed"} : hold' = [hold EXCEPT ![r] = h]
    BY <1>2 DEF CreateHold, Confirm
  <2>2. UNCHANGED <<owing, refunds>>
    BY <1>2 DEF CreateHold, Confirm
  <2> QED BY <2>1, <2>2
<1>3. ASSUME NEW r \in Requests, Undo(r) PROVE Returned(q, s, F)'
  <2>1. hold[r] = "none" /\ UNCHANGED <<hold, owing>>
    BY <1>3 DEF Undo, Consistent, Untouched
  <2>2. \A x \in Requests \ {r} : refunds'[x] = refunds[x]
    BY <1>3 DEF Undo, ReturnStock
  <2> QED BY <2>1, <2>2
<1>4. ASSUME NEW r \in Requests, NEW f \in Refunders, Refund(f, r) PROVE Returned(q, s, F)'
  <2>1. refunds[r] = 0
    BY <1>4 DEF Refund, Consistent, InDebt, Taken
  <2>2. /\ refunds' = [refunds EXCEPT ![r] = 1] /\ owing' = owing \ {<<f, r>>}
        /\ UNCHANGED hold
    BY <1>4, <2>1 DEF Refund, ReturnStock
  <2>3. CASE q = r
    BY <2>2, <2>3
  <2>4. CASE q # r
    BY <2>2, <2>4
  <2> QED BY <2>3, <2>4
<1>5. ASSUME NEW r \in Requests, NEW c \in Releasers, Release(c, r) PROVE Returned(q, s, F)'
  BY <1>5 DEF Release, Owe, Unheard, Owed
<1>6. ASSUME NEW r \in Requests, NEW w \in Sweepers, Sweep(w, r) PROVE Returned(q, s, F)'
  BY <1>6 DEF Sweep, Owe, Unheard, Owed
<1>7. ASSUME NEW f \in Refunders, CrashRefunder(f) PROVE Returned(q, s, F)'
  <2>1. f \notin F
    BY <1>7, RefundersApart DEF CrashRefunder, Owed
  <2>2. owing' = {o \in owing : o[1] # f} /\ UNCHANGED <<hold, refunds>>
    BY <1>7 DEF CrashRefunder
  <2> QED BY <2>1, <2>2
<1>8. CASE AofFsync \/ RedisRestart \/ UNCHANGED vars
  BY <1>8 DEF AofFsync, RedisRestart, vars
<1>9. ASSUME NEW r \in Requests, NEW f \in Refunders PROVE ~RefundFails(f, r)
  BY DEF RefundFails, Owed
<1> QED
  BY <1>1, <1>2, <1>3, <1>4, <1>5, <1>6, <1>7, <1>8, <1>9 DEF Next, Continue

(* The units of an expired reservation have come back or a sweeper is about*)
(* to return them, whatever Mongo and the queue refuse, api processes die  *)
(* or Redis forgets in a restart, while inserts and claims are answered    *)
(* truly, no Redis command is refused and no worker dies between the two.  *)
THEOREM ExpiredReturned ==
  ASSUME WritesAnswered,
         Faults \cap {"worker_crash", "redis_error", "ambiguous_update"} = {}
  PROVE  Spec => []ExpiredIsRefunded
<1> DEFINE Inv == \A r \in Requests : Returned(r, "expired", Sweepers)
<1>1. Init => Inv
  BY DEF Init, Returned
<1>2. TypeOK /\ (\A r \in Requests : Consistent(r)) /\ Inv /\ [Next]_vars => Inv'
  BY ReturnedStep DEF Owed
<1>3. Inv => ExpiredIsRefunded
  BY DEF Returned, ExpiredIsRefunded
<1> QED BY <1>1, <1>2, <1>3, TypeCorrect, PositionsHold, PTL DEF Spec

(* The same of a release, whose INCRBY an api process owes.                *)
ReleasedIsRefunded ==
  \A r \in Requests :
    hold[r] = "released" => refunds[r] = 1 \/ \E c \in Releasers : <<c, r>> \in owing

(* The units a client released have come back or an api process is about to*)
(* return them, whatever Mongo and the queue refuse or workers die, under  *)
(* the same conditions on inserts, claims and Redis commands, while no api *)
(* process dies between the two.                                           *)
THEOREM ReleasedReturned ==
  ASSUME WritesAnswered,
         Faults \cap {"api_crash", "redis_error", "ambiguous_update"} = {}
  PROVE  Spec => []ReleasedIsRefunded
<1> DEFINE Inv == \A r \in Requests : Returned(r, "released", Releasers)
<1>1. Init => Inv
  BY DEF Init, Returned
<1>2. TypeOK /\ (\A r \in Requests : Consistent(r)) /\ Inv /\ [Next]_vars => Inv'
  BY ReturnedStep DEF Owed
<1>3. Inv => ReleasedIsRefunded
  BY DEF Returned, ReleasedIsRefunded
<1> QED BY <1>1, <1>2, <1>3, TypeCorrect, PositionsHold, PTL DEF Spec

-----------------------------------------------------------------------------
(* The engine implements the abstract pool of units.                       *)

LEMMA PoolInitRefined == Init => Pool!PoolInit
BY ConstantsAssumption DEF Init, Pool!PoolInit, PoolOf, ShareOf

(* A step that changes r's share only.                                     *)
LEMMA ShareUpdate ==
  ASSUME NEW r \in Requests, NEW s, ShareOf'[r] = s,
         \A q \in Requests \ {r} :
           /\ q \in drawn' <=> q \in drawn
           /\ refunds'[q] = refunds[q]
           /\ hold'[q] = hold[q]
  PROVE  ShareOf' = [ShareOf EXCEPT ![r] = s]
<1>1. ShareOf' = [q \in Requests |-> ShareOf'[q]]
  BY DEF ShareOf
<1>2. \A q \in Requests \ {r} : ShareOf'[q] = ShareOf[q]
  BY DEF ShareOf
<1>3. [ShareOf EXCEPT ![r] = s] = [q \in Requests |-> IF q = r THEN s ELSE ShareOf[q]]
  BY DEF ShareOf
<1> QED BY <1>1, <1>2, <1>3

(* A successful BUY_LUA takes r's share; an unsuccessful one is invisible. *)
LEMMA DrawRefined ==
  ASSUME IInv, NEW r \in Requests, Purchase(r) \/ Retry(r)
  PROVE  Pool!Take(r) \/ UNCHANGED <<PoolOf, ShareOf>>
<1>1. CASE UNCHANGED <<stock, drawn>>
  <2>1. UNCHANGED <<stock, drawn, refunds, hold>>
    BY <1>1 DEF Purchase, Retry, BuyStock
  <2> QED BY <2>1 DEF PoolOf, ShareOf
<1>2. CASE ~UNCHANGED <<stock, drawn>>
  <2>1. /\ stock[Item[r]] # NoKey
        /\ stock[Item[r]] >= Qty[r]
        /\ stock' = [stock EXCEPT ![Item[r]] = @ - Qty[r]]
        /\ drawn' = drawn \cup {r}
        /\ UNCHANGED <<refunds, hold>>
    BY <1>2 DEF Purchase, Retry, BuyStock, Covers
  <2>2. r \notin drawn /\ refunds[r] = 0 /\ hold[r] = "none"
    BY DEF Purchase, Retry, IInv, Consistent, Untouched, Asking
  <2>3. /\ Item[r] \in Products /\ Qty[r] \in Nat /\ NoKey \notin Int
        /\ stock \in [Products -> Nat \cup {NoKey}]
    BY ConstantsAssumption DEF IInv, TypeOK
  <2>4. ShareOf[r] = "none" /\ PoolOf[Item[r]] = stock[Item[r]]
    BY <2>1, <2>2, <2>3 DEF ShareOf, PoolOf
  <2>5. PoolOf' = [PoolOf EXCEPT ![Item[r]] = @ - Qty[r]]
    BY <2>1, <2>3 DEF PoolOf
  <2>6. ShareOf' = [ShareOf EXCEPT ![r] = "taken"]
    <3>1. ShareOf'[r] = "taken"
      BY <2>1, <2>2 DEF ShareOf
    <3> QED BY <2>1, <3>1, ShareUpdate
  <2> QED BY <2>1, <2>4, <2>5, <2>6 DEF Pool!Take
<1> QED BY <1>1, <1>2

(* A compensation or a refund gives r's share back.                        *)
LEMMA ReturnRefined ==
  ASSUME IInv, NEW r \in Requests, r \in Taken, hold[r] # "confirmed",
         ReturnStock(r), UNCHANGED <<drawn, hold>>
  PROVE  Pool!GiveBack(r)
<1>1. /\ Item[r] \in Products /\ Qty[r] \in Nat /\ NoKey \notin Int
      /\ stock \in [Products -> Nat \cup {NoKey}]
      /\ refunds \in [Requests -> Nat]
  BY ConstantsAssumption DEF IInv, TypeOK
<1>2. r \in drawn /\ refunds[r] = 0 /\ stock[Item[r]] # NoKey
  BY <1>1 DEF Taken, IInv, Ledger
<1>3. /\ stock' = [stock EXCEPT ![Item[r]] = @ + Qty[r]]
      /\ refunds' = [refunds EXCEPT ![r] = 1]
  BY <1>2 DEF ReturnStock
<1>4. ShareOf[r] = "taken"
  BY <1>2 DEF ShareOf
<1>5. PoolOf' = [PoolOf EXCEPT ![Item[r]] = @ + Qty[r]]
  BY <1>1, <1>2, <1>3 DEF PoolOf
<1>6. ShareOf' = [ShareOf EXCEPT ![r] = "returned"]
  <2>1. ShareOf'[r] = "returned"
    BY <1>1, <1>2, <1>3 DEF ShareOf
  <2> QED BY <1>1, <1>3, <2>1, ShareUpdate
<1> QED BY <1>4, <1>5, <1>6 DEF Pool!GiveBack

(* A confirmation keeps r's share for good.                                *)
LEMMA ConfirmRefined ==
  ASSUME IInv, NEW r \in Requests, Confirm(r)
  PROVE  Pool!Keep(r)
<1>1. r \in drawn /\ refunds[r] = 0 /\ hold[r] = "held"
  BY DEF Confirm, Confirmable, IInv, Consistent, Taken
<1>2. hold' = [hold EXCEPT ![r] = "confirmed"] /\ UNCHANGED <<stock, drawn, refunds>>
  BY DEF Confirm, Confirmable
<1>3. hold \in [Requests -> HoldStatus]
  BY DEF IInv, TypeOK
<1>4. ShareOf[r] = "taken"
  BY <1>1 DEF ShareOf
<1>5. ShareOf' = [ShareOf EXCEPT ![r] = "kept"]
  <2>1. ShareOf'[r] = "kept"
    BY <1>1, <1>2, <1>3 DEF ShareOf
  <2> QED BY <1>2, <1>3, <2>1, ShareUpdate
<1>6. PoolOf' = PoolOf
  BY <1>2 DEF PoolOf
<1> QED BY <1>4, <1>5, <1>6 DEF Pool!Keep

(* The first primer of a key writes what the pool held all along.          *)
LEMMA PrimeRefined ==
  ASSUME IInv, NEW r \in Requests, PrimeSet(r)
  PROVE  UNCHANGED <<PoolOf, ShareOf>>
<1>1. /\ stock' = [stock EXCEPT ![Item[r]] =
                     IF @ = NoKey THEN CatalogStock[Item[r]] ELSE @]
      /\ UNCHANGED <<drawn, refunds, hold>>
  BY DEF PrimeSet, Primed
<1>2. /\ Item[r] \in Products /\ NoKey \notin Int
      /\ CatalogStock \in [Products -> Nat]
      /\ stock \in [Products -> Nat \cup {NoKey}]
  BY ConstantsAssumption DEF IInv, TypeOK
<1> QED BY <1>1, <1>2 DEF PoolOf, ShareOf

(* Every other change of a reservation leaves its share as it was.         *)
LEMMA HoldRefined ==
  ASSUME IInv, NEW r \in Requests, NEW s \in {"held", "expired", "released"},
         hold[r] # "confirmed", hold' = [hold EXCEPT ![r] = s],
         UNCHANGED <<stock, drawn, refunds>>
  PROVE  UNCHANGED <<PoolOf, ShareOf>>
BY DEF IInv, TypeOK, PoolOf, ShareOf

(* Every interleaving of the engine is a run of the pool: each share is    *)
(* taken once and whole, and a kept share is never given back.             *)
THEOREM Implementation ==
  ASSUME ReliableStores
  PROVE  Spec => ImplementsPool
<1>1. IInv /\ [Next]_vars => [Pool!PoolNext]_(Pool!pvars)
  <2> SUFFICES ASSUME IInv, [Next]_vars
               PROVE  \/ \E r \in Requests :
                           Pool!Take(r) \/ Pool!Keep(r) \/ Pool!GiveBack(r)
                      \/ UNCHANGED <<PoolOf, ShareOf>>
    BY DEF Pool!PoolNext, Pool!pvars
  <2>1. ASSUME NEW r \in Requests, Purchase(r) \/ Retry(r)
        PROVE  Pool!Take(r) \/ UNCHANGED <<PoolOf, ShareOf>>
    BY <2>1, DrawRefined
  <2>2. ASSUME NEW r \in Requests, PrimeSet(r)
        PROVE  UNCHANGED <<PoolOf, ShareOf>>
    BY <2>2, PrimeRefined
  <2>3. ASSUME NEW r \in Requests, Confirm(r) PROVE Pool!Keep(r)
    BY <2>3, ConfirmRefined
  <2>4. ASSUME NEW r \in Requests, Undo(r) PROVE Pool!GiveBack(r)
    <3>1. r \in Taken /\ hold[r] # "confirmed"
      BY <2>4 DEF Undo, IInv, Consistent, Untouched, Taken
    <3> QED BY <2>4, <3>1, ReturnRefined DEF Undo
  <2>5. ASSUME NEW r \in Requests, NEW f \in Refunders, Refund(f, r)
        PROVE  Pool!GiveBack(r)
    <3>1. r \in Taken /\ hold[r] # "confirmed"
      BY <2>5 DEF Refund, IInv, Consistent, InDebt
    <3> QED BY <2>5, <3>1, ReturnRefined DEF Refund
  <2>6. ASSUME NEW r \in Requests,
               \/ CreateHold(r)
               \/ \E c \in Releasers : Release(c, r)
               \/ \E w \in Sweepers : Sweep(w, r)
        PROVE  UNCHANGED <<PoolOf, ShareOf>>
    <3>1. hold[r] # "confirmed"
      BY <2>6 DEF CreateHold, Release, Releasable, Sweep, Sweepable, IInv, Consistent, Untouched
    <3>2. /\ UNCHANGED <<stock, drawn, refunds>>
          /\ \E s \in {"held", "expired", "released"} : hold' = [hold EXCEPT ![r] = s]
      BY <2>6 DEF CreateHold, Release, Sweep
    <3> QED BY <3>1, <3>2, HoldRefined
  <2>7. ASSUME NEW r \in Requests,
               \/ PrimeFind(r) \/ CreateOrder(r) \/ Enqueue(r) \/ Reply(r)
               \/ RequestFails(r)
               \/ \E h \in Clocks : Lapse(r, h)
               \/ \E f \in Refunders : RefundFails(f, r)
        PROVE  UNCHANGED <<PoolOf, ShareOf>>
    <3>1. UNCHANGED <<stock, drawn, refunds, hold>>
      BY <2>7 DEF PrimeFind, CreateOrder, Enqueue, Reply, Lapse, RequestFails,
         AskFails, CreateHoldFails, CreateHoldUnacknowledged, UndoFails, RefundFails,
         CreateOrderFails, Crash, ReliableStores
    <3> QED BY <3>1 DEF PoolOf, ShareOf
  <2>8. ASSUME \/ \E f \in Refunders : CrashRefunder(f)
               \/ AofFsync \/ UNCHANGED vars
        PROVE  UNCHANGED <<PoolOf, ShareOf>>
    <3>1. UNCHANGED <<stock, drawn, refunds, hold>>
      BY <2>8 DEF CrashRefunder, AofFsync, vars
    <3> QED BY <3>1 DEF PoolOf, ShareOf
  <2>9. ~RedisRestart
    BY DEF RedisRestart, ReliableStores
  <2> QED
    BY <2>1, <2>2, <2>3, <2>4, <2>5, <2>6, <2>7, <2>8, <2>9 DEF Next, Continue
<1> QED
  BY <1>1, PoolInitRefined, Invariant, PTL DEF Spec, ImplementsPool, Pool!PoolSpec

=============================================================================
