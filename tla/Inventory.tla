------------------------------ MODULE Inventory ------------------------------
(***************************************************************************)
(* The inventory engine of Flashkart: api/src/inventory/inventory.ts, the  *)
(* POST /buy and /reserve handlers of api/src/routes/products.ts that call *)
(* it, the /reservations routes, and the reservation sweeper of the worker *)
(* (worker/src/sweeper.ts).                                                *)
(*                                                                         *)
(* The live stock of a product is one Redis counter; reservations and      *)
(* orders are Mongo documents.  Every await of the code is a step of its   *)
(* own, so anything may happen between two of them.  A reservation or an   *)
(* order is identified with the HTTP request that created it.              *)
(***************************************************************************)
EXTENDS Integers, FiniteSets

CONSTANTS
  Products,      \* product ids a client may name
  Active,        \* those with a Mongo document whose `active` is true
  CatalogStock,  \* the `stock` field of the document (no code updates it)
  Requests,      \* the POST /buy and POST /reserve calls clients may send
  Kind,          \* Kind[r] is "buy" or "reserve"
  Item,          \* Item[r] is the product r names
  Qty,           \* Qty[r] is the quantity of r's body
  MaxQty,        \* the body schema's upper bound on quantity
  Sweepers,      \* worker processes, each with one sweep loop
  Releasers,     \* POST /reservations/:id/release calls in progress at once
  Faults,        \* which failures the environment may produce
  NoKey          \* the Redis key `stock:<id>` does not exist

FaultKinds == {"mongo_error",     \* a Mongo call throws, nothing was written
               "ambiguous_write", \* an insert throws, yet the document landed
               "ambiguous_update", \* a claim of a hold throws, yet it applied
               "redis_error",     \* a Redis command throws, nothing was done
               "enqueue_error",   \* Queue.add throws
               "api_crash",       \* the api process dies mid-request
               "worker_crash",    \* the worker process dies mid-sweep
               "redis_restart"}   \* Redis restarts from its append-only file

ASSUME ConstantsAssumption ==
  /\ Active \subseteq Products
  /\ CatalogStock \in [Products -> Nat]
  /\ MaxQty \in Nat
  /\ Kind \in [Requests -> {"buy", "reserve"}]
  /\ Item \in [Requests -> Products]
  /\ Qty \in [Requests -> 1..MaxQty]
  /\ Faults \subseteq FaultKinds
  /\ NoKey \notin Int

ASSUME RequestsFinite == IsFiniteSet(Requests)

ASSUME RefundersApart == Sweepers \cap Releasers = {}

(* An insert that throws has not landed, and Redis keeps its data: what no *)
(* handler can make up for.                                                *)
ReliableStores ==
  "ambiguous_write" \notin Faults /\ "redis_restart" \notin Faults

VARIABLES
  stock,    \* stock[p]: the Redis counter stock:<p>, or NoKey
  aof,      \* what the append-only file holds: counters and queued jobs
  pc,       \* pc[r]: the await request r is at, or how it ended
  hold,     \* hold[r]: status of the Reservation document of r
  lapsed,   \* lapsed[r]: the hosts whose clock has passed r's expiresAt
  order,    \* order[r]: status of the Order document of r
  enqueued, \* the orders with a job added to the process queue
  owing,    \* <<f, r>>: f has flipped hold[r] and still owes r's INCRBY
  drawn,    \* history: the requests whose DECRBY took place
  refunds   \* history: refunds[r] counts the INCRBYs made on r's behalf

vars == <<stock, aof, pc, hold, lapsed, order, enqueued, owing, drawn, refunds>>

HoldStatus == {"none", "held", "confirmed", "expired", "released"}
OrderStatus == {"none", "pending", "paid", "fulfilled", "confirmed", "failed"}
Clocks == {"api", "worker"}
Refunders == Sweepers \cup Releasers

(* Where a request can be: waiting for an answer of Redis or Mongo ...     *)
Asking == {"find", "prime", "retry"}
InFlight == Asking \cup {"bought", "undo", "ordered", "placed"}
(* ... or over: 201, 409, 404, 500, or its process is gone.                *)
Ended == {"ok", "sold_out", "not_found", "error", "dead"}

TypeOK ==
  /\ stock \in [Products -> Nat \cup {NoKey}]
  /\ aof \in [counters : [Products -> Nat \cup {NoKey}], jobs : SUBSET Requests]
  /\ pc \in [Requests -> {"idle"} \cup InFlight \cup Ended]
  /\ hold \in [Requests -> HoldStatus]
  /\ lapsed \in [Requests -> SUBSET Clocks]
  /\ order \in [Requests -> OrderStatus]
  /\ enqueued \subseteq Requests
  /\ owing \subseteq Refunders \X Requests
  /\ drawn \subseteq Requests
  /\ refunds \in [Requests -> Nat]

Init ==
  /\ stock = [p \in Products |-> NoKey]
  /\ aof = [counters |-> stock, jobs |-> {}]
  /\ pc = [r \in Requests |-> "idle"]
  /\ hold = [r \in Requests |-> "none"]
  /\ lapsed = [r \in Requests |-> {}]
  /\ order = [r \in Requests |-> "none"]
  /\ enqueued = {}
  /\ owing = {}
  /\ drawn = {}
  /\ refunds = [r \in Requests |-> 0]

Goto(r, label) == pc' = [pc EXCEPT ![r] = label]

-----------------------------------------------------------------------------
(* purchase(): the Lua script, priming from Mongo, the script once more.   *)

(* `stock < qty` of the script, and a script that only checks for a unit.  *)
CoversOne(r) == stock[Item[r]] >= 1
Covers(r) == stock[Item[r]] >= Qty[r]

(* The script BUY_LUA, one atomic Redis command: -2 when the key is        *)
(* missing, -1 when the stock does not cover the quantity, else the new    *)
(* counter.                                                                *)
BuyStock(r, whenMissing) ==
  LET p == Item[r] IN
  /\ \/ /\ stock[p] = NoKey
        /\ Goto(r, whenMissing)
        /\ UNCHANGED <<stock, drawn>>
     \/ /\ stock[p] # NoKey
        /\ ~Covers(r)
        /\ Goto(r, "sold_out")
        /\ UNCHANGED <<stock, drawn>>
     \/ /\ stock[p] # NoKey
        /\ Covers(r)
        /\ stock' = [stock EXCEPT ![p] = @ - Qty[r]]
        /\ drawn' = drawn \cup {r}
        /\ Goto(r, "bought")
  /\ UNCHANGED <<aof, hold, lapsed, order, enqueued, owing, refunds>>

Purchase(r) == pc[r] = "idle" /\ BuyStock(r, "find")

(* primeFromMongo reads the catalog: absent and inactive are not_found.    *)
PrimeFind(r) ==
  /\ pc[r] = "find"
  /\ Goto(r, IF Item[r] \in Active THEN "prime" ELSE "not_found")
  /\ UNCHANGED <<stock, aof, hold, lapsed, order, enqueued, owing, drawn, refunds>>

(* SET stock:<id> <catalog stock> NX: only the first primer writes.        *)
(* Without NX a late primer would.                                         *)
PrimedAlways(p) == CatalogStock[p]
Primed(p) == IF stock[p] = NoKey THEN CatalogStock[p] ELSE stock[p]

PrimeSet(r) ==
  /\ pc[r] = "prime"
  /\ stock' = [stock EXCEPT ![Item[r]] = Primed(Item[r])]
  /\ Goto(r, "retry")
  /\ UNCHANGED <<aof, hold, lapsed, order, enqueued, owing, drawn, refunds>>

Retry(r) == pc[r] = "retry" /\ BuyStock(r, "not_found")

(* Any of these calls may throw before the request has drawn anything.     *)
AskFails(r) ==
  /\ \/ "mongo_error" \in Faults /\ pc[r] = "find"
     \/ "redis_error" \in Faults /\ pc[r] \in {"idle", "prime", "retry"}
  /\ Goto(r, "error")
  /\ UNCHANGED <<stock, aof, hold, lapsed, order, enqueued, owing, drawn, refunds>>

-----------------------------------------------------------------------------
(* INCRBY by Qty[r] on r's key; on a missing key INCRBY starts from 0.     *)
ReturnStock(r) ==
  /\ stock' = [stock EXCEPT ![Item[r]] =
                 IF @ = NoKey THEN Qty[r] ELSE @ + Qty[r]]
  /\ refunds' = [refunds EXCEPT ![r] = @ + 1]

(* reserve(): the document, or the compensation when its insert throws.    *)
CreateHold(r) ==
  /\ pc[r] = "bought" /\ Kind[r] = "reserve"
  /\ hold' = [hold EXCEPT ![r] = "held"]
  /\ Goto(r, "placed")
  /\ UNCHANGED <<stock, aof, lapsed, order, enqueued, owing, drawn, refunds>>

(* Where a throw of the insert leads: the catch gives the units back.      *)
(* Without it the request would be over.                                   *)
Uncaught == "error"
Caught == "undo"

CreateHoldFails(r) ==
  /\ "mongo_error" \in Faults
  /\ pc[r] = "bought" /\ Kind[r] = "reserve"
  /\ Goto(r, Caught)
  /\ UNCHANGED <<stock, aof, hold, lapsed, order, enqueued, owing, drawn, refunds>>

(* The insert was applied, its acknowledgement was not received.           *)
CreateHoldUnacknowledged(r) ==
  /\ "ambiguous_write" \in Faults
  /\ pc[r] = "bought" /\ Kind[r] = "reserve"
  /\ hold' = [hold EXCEPT ![r] = "held"]
  /\ Goto(r, Caught)
  /\ UNCHANGED <<stock, aof, lapsed, order, enqueued, owing, drawn, refunds>>

Undo(r) ==
  /\ pc[r] = "undo"
  /\ ReturnStock(r)
  /\ Goto(r, "error")
  /\ UNCHANGED <<aof, hold, lapsed, order, enqueued, owing, drawn>>

(* The compensation's own INCRBY is not caught.                            *)
UndoFails(r) ==
  /\ "redis_error" \in Faults
  /\ pc[r] = "undo"
  /\ Goto(r, "error")
  /\ UNCHANGED <<stock, aof, hold, lapsed, order, enqueued, owing, drawn, refunds>>

(* doPurchase() of POST /buy: price lookup and order insert, then enqueue. *)
(* The lookup changes nothing; a throw of either ends the request the same *)
(* way, with no compensation.                                              *)
CreateOrder(r) ==
  /\ pc[r] = "bought" /\ Kind[r] = "buy"
  /\ order' = [order EXCEPT ![r] = "pending"]
  /\ Goto(r, "ordered")
  /\ UNCHANGED <<stock, aof, hold, lapsed, enqueued, owing, drawn, refunds>>

CreateOrderFails(r) ==
  /\ pc[r] = "bought" /\ Kind[r] = "buy"
  /\ \/ "mongo_error" \in Faults /\ UNCHANGED order
     \/ "ambiguous_write" \in Faults /\ order' = [order EXCEPT ![r] = "pending"]
  /\ Goto(r, "error")
  /\ UNCHANGED <<stock, aof, hold, lapsed, enqueued, owing, drawn, refunds>>

(* A failing Queue.add is caught and logged: the answer is 201 all the same. *)
Enqueue(r) ==
  /\ pc[r] = "ordered"
  /\ \/ enqueued' = enqueued \cup {r}
     \/ "enqueue_error" \in Faults /\ UNCHANGED enqueued
  /\ Goto(r, "placed")
  /\ UNCHANGED <<stock, aof, hold, lapsed, order, owing, drawn, refunds>>

(* The 201 reaches the client, who now knows the reservation or order id.  *)
Reply(r) ==
  /\ pc[r] = "placed"
  /\ Goto(r, "ok")
  /\ UNCHANGED <<stock, aof, hold, lapsed, order, enqueued, owing, drawn, refunds>>

-----------------------------------------------------------------------------
(* The life of a reservation.                                              *)

(* A host's clock passes expiresAt; clocks of api and worker may differ.   *)
Lapse(r, h) ==
  /\ hold[r] = "held"
  /\ h \notin lapsed[r]
  /\ lapsed' = [lapsed EXCEPT ![r] = @ \cup {h}]
  /\ UNCHANGED <<stock, aof, pc, hold, order, enqueued, owing, drawn, refunds>>

(* The predicates of the three compare-and-sets, and what each would be    *)
(* without the source status.                                              *)
ConfirmableUnlessLapsed(r) == hold[r] # "none" /\ "api" \notin lapsed[r]
Confirmable(r) == hold[r] = "held" /\ "api" \notin lapsed[r]
ReleasableAlways(r) == hold[r] # "none"
Releasable(r) == hold[r] = "held"
SweepableOnceLapsed(r) == hold[r] # "none" /\ "worker" \in lapsed[r]
Sweepable(r) == hold[r] = "held" /\ "worker" \in lapsed[r]

(* confirmReservation: compare-and-set on held and not expired.  When the  *)
(* predicate fails nothing changes and the answer is 410; an update that   *)
(* throws although it applied confirms all the same.                       *)
Confirm(r) ==
  /\ pc[r] = "ok"
  /\ Confirmable(r)
  /\ hold' = [hold EXCEPT ![r] = "confirmed"]
  /\ UNCHANGED <<stock, aof, pc, lapsed, order, enqueued, owing, drawn, refunds>>

Busy(f) == \E r \in Requests : <<f, r>> \in owing

(* The process f that flipped r's status goes on to the INCRBY; a return in *)
(* between would forget it.                                                *)
OweNothing(f, r) == UNCHANGED owing
Owe(f, r) == owing' = owing \cup {<<f, r>>}

(* The update applied but its call threw: the process, which goes on to    *)
(* the catch, never learns whose units it was to return.                   *)
Unheard == "ambiguous_update" \in Faults /\ UNCHANGED owing

(* releaseReservation: compare-and-set on held, whatever expiresAt says.   *)
Release(c, r) ==
  /\ ~Busy(c)
  /\ pc[r] = "ok"
  /\ Releasable(r)
  /\ hold' = [hold EXCEPT ![r] = "released"]
  /\ Owe(c, r) \/ Unheard
  /\ UNCHANGED <<stock, aof, pc, lapsed, order, enqueued, drawn, refunds>>

(* One iteration of the sweeper's loop: claim a held, lapsed reservation.  *)
(* The `inflight` flag keeps one iteration at a time per worker; the tick's*)
(* batch limit and captured `now` only move work to the next tick.         *)
Sweep(w, r) ==
  /\ ~Busy(w)
  /\ Sweepable(r)
  /\ hold' = [hold EXCEPT ![r] = "expired"]
  /\ Owe(w, r) \/ Unheard
  /\ UNCHANGED <<stock, aof, pc, lapsed, order, enqueued, drawn, refunds>>

(* The INCRBY that follows a successful release or sweep.                  *)
Refund(f, r) ==
  /\ <<f, r>> \in owing
  /\ ReturnStock(r)
  /\ owing' = owing \ {<<f, r>>}
  /\ UNCHANGED <<aof, pc, hold, lapsed, order, enqueued, drawn>>

(* It throws: the sweeper's tick ends in its catch, the release in a 500,  *)
(* and the reservation is no longer held for a later tick to find.         *)
RefundFails(f, r) ==
  /\ "redis_error" \in Faults
  /\ <<f, r>> \in owing
  /\ owing' = owing \ {<<f, r>>}
  /\ UNCHANGED <<stock, aof, pc, hold, lapsed, order, enqueued, drawn, refunds>>

-----------------------------------------------------------------------------
(* Failures of processes and of Redis.                                     *)

Crash(r) ==
  /\ "api_crash" \in Faults
  /\ pc[r] \in InFlight
  /\ Goto(r, "dead")
  /\ UNCHANGED <<stock, aof, hold, lapsed, order, enqueued, owing, drawn, refunds>>

CrashRefunder(f) ==
  /\ (IF f \in Sweepers THEN "worker_crash" ELSE "api_crash") \in Faults
  /\ Busy(f)
  /\ owing' = {o \in owing : o[1] # f}
  /\ UNCHANGED <<stock, aof, pc, hold, lapsed, order, enqueued, drawn, refunds>>

(* appendfsync everysec: the file is a snapshot of the data at most a      *)
(* second old, and a restarted Redis serves that snapshot.                 *)
AofFsync ==
  /\ "redis_restart" \in Faults
  /\ aof' = [counters |-> stock, jobs |-> enqueued]
  /\ UNCHANGED <<stock, pc, hold, lapsed, order, enqueued, owing, drawn, refunds>>

RedisRestart ==
  /\ "redis_restart" \in Faults
  /\ stock' = aof.counters
  /\ enqueued' = aof.jobs
  /\ UNCHANGED <<aof, pc, hold, lapsed, order, owing, drawn, refunds>>

-----------------------------------------------------------------------------
(* The code's own next step of a request that has arrived.                 *)
Continue(r) ==
  \/ PrimeFind(r) \/ PrimeSet(r) \/ Retry(r)
  \/ CreateHold(r) \/ Undo(r)
  \/ CreateOrder(r) \/ Enqueue(r)
  \/ Reply(r)

RequestFails(r) ==
  \/ AskFails(r)
  \/ CreateHoldFails(r) \/ CreateHoldUnacknowledged(r) \/ UndoFails(r)
  \/ CreateOrderFails(r)
  \/ Crash(r)

Next ==
  \/ \E r \in Requests :
       \/ Purchase(r) \/ Continue(r) \/ RequestFails(r)
       \/ Confirm(r)
       \/ \E h \in Clocks : Lapse(r, h)
       \/ \E c \in Releasers : Release(c, r)
       \/ \E w \in Sweepers : Sweep(w, r)
       \/ \E f \in Refunders : Refund(f, r) \/ RefundFails(f, r)
  \/ \E f \in Refunders : CrashRefunder(f)
  \/ AofFsync
  \/ RedisRestart

Spec == Init /\ [][Next]_vars

(* Clients owe nothing.  What the code has started goes on as Redis and    *)
(* Mongo answer, time passes, and the sweeper's interval keeps firing.     *)
Fairness ==
  /\ \A r \in Requests : WF_vars(Continue(r))
  /\ \A r \in Requests : WF_vars(Lapse(r, "worker"))
  /\ \A w \in Sweepers : WF_vars(\E r \in Requests : Sweep(w, r))
  /\ \A f \in Refunders : WF_vars(\E r \in Requests : Refund(f, r))

FairSpec == Spec /\ Fairness

-----------------------------------------------------------------------------
(* Accounting.  A request stands for Qty[r] units; the units of a set of   *)
(* requests are counted as pairs <<request, unit number>>.                 *)
Units(S, p) ==
  {u \in S \X (1..MaxQty) : Item[u[1]] = p /\ u[2] <= Qty[u[1]]}

InDebt(r) == \E f \in Refunders : <<f, r>> \in owing

(* r's units are spoken for: by a handler that has just taken them, by a   *)
(* reservation or an order, or by a process about to return them.          *)
Claimed(r) ==
  \/ pc[r] \in {"bought", "undo"}
  \/ hold[r] \in {"held", "confirmed"}
  \/ order[r] \notin {"none", "failed"}
  \/ InDebt(r)

Claims == {r \in Requests : Claimed(r)}

(* No overselling: what the counter still offers and what has been promised *)
(* to clients never exceed the catalog, and a missing key means nothing    *)
(* has been promised yet.                                                  *)
NoOversell ==
  \A p \in Products :
    IF stock[p] = NoKey
    THEN Units(Claims, p) = {}
    ELSE /\ stock[p] >= 0
         /\ stock[p] + Cardinality(Units(Claims, p)) <= CatalogStock[p]

(* The requests whose units left the counter and have not come back.       *)
Taken == {r \in drawn : refunds[r] = 0}

(* The books balance: the counter and the units taken from it always add   *)
(* up to the catalog, so that neither a late primer, nor a race of confirm,*)
(* release and sweep, nor a crash ever creates a unit.                     *)
Ledger ==
  \A p \in Products :
    IF stock[p] = NoKey
    THEN \A r \in drawn : Item[r] # p
    ELSE stock[p] + Cardinality(Units(Taken, p)) = CatalogStock[p]

(* How far r has come agrees with what it has drawn, left behind and       *)
(* given back.                                                             *)
Untouched(r) ==
  hold[r] = "none" /\ order[r] = "none" /\ ~InDebt(r) /\ refunds[r] = 0

Consistent(r) ==
  /\ pc[r] \in {"idle"} \cup Asking => Untouched(r) /\ r \notin drawn
  /\ pc[r] \in {"bought", "undo"} => Untouched(r) /\ r \in drawn
  /\ hold[r] \in {"held", "confirmed"} => r \in Taken /\ ~InDebt(r)
  /\ InDebt(r) => r \in Taken /\ hold[r] \in {"expired", "released"}
  /\ order[r] # "none" => r \in Taken /\ hold[r] = "none"
  /\ refunds[r] <= 1
  /\ \A f, g \in Refunders : <<f, r>> \in owing /\ <<g, r>> \in owing => f = g

(* The inductive invariant behind the safety properties: the books balance *)
(* because every request is in a consistent position.                      *)
IInv == TypeOK /\ Ledger /\ \A r \in Requests : Consistent(r)

(* POST /buy gives nothing back when its order could not be written.       *)
BuyFailed(r) == Kind[r] = "buy" /\ pc[r] = "error"

(* No ghost stock: units that left the counter and did not come back are   *)
(* still spoken for, so abandoned carts and reservations whose insert      *)
(* failed cannot drain the sale; only a purchase that ended in a 500 can.  *)
NoGhostStock == \A r \in drawn : refunds[r] = 0 => Claimed(r) \/ BuyFailed(r)

(* The sweeper's first promise: a confirmed reservation keeps its units,   *)
(* whichever of confirm, release and sweep raced for it.                   *)
ConfirmedNeverRefunded ==
  \A r \in Requests :
    hold[r] = "confirmed" => refunds[r] = 0 /\ ~InDebt(r)

(* No request's units are returned twice, by whichever mix of compensation,*)
(* release and sweep.                                                      *)
RefundedAtMostOnce == \A r \in Requests : refunds[r] <= 1

(* The sweeper's second promise, its missing half: the units of an expired *)
(* reservation have been returned or a live process is about to.           *)
ExpiredIsRefunded ==
  \A r \in Requests :
    hold[r] = "expired" => refunds[r] = 1 \/ \E w \in Sweepers : <<w, r>> \in owing

OnlyRefundsRaise ==
  \A p \in Products :
    stock[p] # NoKey /\ stock'[p] # stock[p] =>
      \/ stock'[p] < stock[p]
      \/ \E r \in Requests :
           /\ Item[r] = p
           /\ refunds'[r] = refunds[r] + 1
           /\ stock'[p] = stock[p] + Qty[r]

(* No resurrection: a counter that exists rises only by a refund.  A late  *)
(* primer that wrote over decrements would raise it otherwise.             *)
RisesOnlyByRefund == [][OnlyRefundsRaise]_vars

SettledStays ==
  \A r \in Requests :
    hold[r] \in {"confirmed", "expired", "released"} => hold'[r] = hold[r]

(* A settled reservation stays settled the way it was settled.             *)
SettledIsFinal == [][SettledStays]_vars

(* An abandoned hold comes back: every hold is confirmed in time or its    *)
(* units are returned to the pool.                                         *)
HoldsAreSettled ==
  \A r \in Requests :
    hold[r] = "held" ~> (hold[r] = "confirmed" \/ refunds[r] = 1)

-----------------------------------------------------------------------------
(* The abstract pool, seen through the counters: an unprimed counter       *)
(* stands for the catalog.                                                 *)
PoolOf == [p \in Products |-> IF stock[p] = NoKey THEN CatalogStock[p] ELSE stock[p]]

ShareOf ==
  [r \in Requests |->
     IF r \notin drawn THEN "none"
     ELSE IF refunds[r] > 0 THEN "returned"
     ELSE IF hold[r] = "confirmed" THEN "kept"
     ELSE "taken"]

Pool == INSTANCE StockPool WITH pool <- PoolOf, share <- ShareOf

(* The engine implements the pool: whatever clients, sweepers and failing  *)
(* processes do, each request's units are taken once from what is on       *)
(* offer, and a confirmed share is never given back.                       *)
ImplementsPool == Pool!PoolSpec

=============================================================================
