# Flashkart: a formal model

TLA+ models of the flash-sale platform in this repository, the TLC runs that check them on small
instances, and TLAPS proofs of what matters most for every value of the constants. Paths below are
relative to the repository root.

Every `await` of the code is a step of its own, and between two steps any other request, worker or timer
may run. An HTTP request, the reservation or order it creates and the units it takes are identified with
one another: a request creates at most one of each.

## 1. The system

| Component | State it keeps | Operations | Talks to | Module |
| --- | --- | --- | --- | --- |
| Inventory engine: `api/src/inventory/inventory.ts`, `routes/products.ts`, `routes/reservations.ts` | Redis counter `stock:<id>`; `Reservation` documents | `purchase` (Lua decrement, priming from the catalog), `reserve` and its compensation, `confirmReservation`, `releaseReservation` | Redis, Mongo, process queue, stock channel | `Inventory` |
| Reservation sweeper: `worker/src/sweeper.ts` | none of its own | claim a lapsed hold, return its units, every 5 s | Mongo, Redis | `Inventory` |
| Order pipeline: `worker/src/pipeline/*.ts`, `worker/src/index.ts`, `api/src/queues/producers.ts` | `Order.status`, `paymentAttempts`; BullMQ jobs | process, fulfill, notify handlers; `compensatePayment` on a terminal failure | Mongo, BullMQ, Redis, payment gateway | `OrderPipeline` |
| Idempotency: `api/src/idempotency/idempotency.ts` | Redis key `idem:<key>`: a marker with 30 s TTL, then a result with 24 h TTL | `withIdempotency` around buy and reserve | Redis | `Idempotency` |
| Refresh sessions: `api/src/routes/auth.ts`, `auth/refreshStore.ts`, `auth/tokens.ts`, `apiFetch` in `web/src/App.tsx` | Redis key `refresh:<user>:<family>` with the active JTI; the browser's cookie; who is signed in | login, refresh (rotate or detect reuse), logout, call with one refresh and retry | Redis, Mongo | `RefreshSessions` |
| Rate limiter: `api/src/rateLimit/*.ts` | Redis hash of tokens and last time | one Lua script per request | Redis | `RateLimit` |
| Live events: `api/src/realtime/*.ts`, publishers in api and worker, `web/src/App.tsx` | rooms per socket; the client's counts and order rows | publish, forward, merge | Redis pub/sub, Socket.IO | `LiveView` |
| Registration, passwords, access tokens | `User` documents | register, login, `requireAuth` | Mongo | only `requireAuth`'s answer, in `RefreshSessions` |
| Catalog, orders, health routes | none | reads | Mongo, Redis | only the two lists, in `LiveView` |
| Error middleware, config, logging, shared types, web pages, scripts, containers, CI | none | | | no |

How they interact. `POST /buy` and `/reserve` run inside `withIdempotency`. A buy takes units, creates a
pending order and adds a process job; the pipeline drives that order. A reservation takes units and holds
them until a client confirms or releases it or the sweeper finds it lapsed. Units come back through
`INCRBY` from four places: `reserve()`'s catch block, `releaseReservation`, the sweeper, and
`compensatePayment`. Whoever changes a counter or an order publishes an event; every api pod forwards it to
the sockets in the product's or the user's room; the page merges events with the replies to its own requests.
Login, refresh and buy pass the rate limiter first.

What is hard. No operation spans Redis and Mongo, so every operation that writes both has a gap in which
its process can die or the second call can fail. Confirm, release and several sweepers race for one
document; hundreds of requests race to prime one counter; BullMQ delivers a job again while an earlier
handler still runs; a lock expires under its holder; a
refresh checks a token several awaits before it replaces it; api processes judge one bucket by clocks of
their own; events and replies reach the page by different ways. What must hold: no unit is created, none is returned
twice, a confirmed reservation keeps its units, an order follows its state machine and is not shipped
unpaid, a key stands for one effect, a session that ended stays over, nobody is served beyond the rate, the
page ends up showing what is so, and everything that was begun is settled.

`PROJECT.json` lists these hazards at their lines, with the property that watches each or the reason
none does yet.

## 2. Modules

| Module | Models | Kind |
| --- | --- | --- |
| `StockPool` | what the inventory engine promises: a pool and one share per request, taken whole, then kept or given back once | abstract specification |
| `Inventory` | the engine, the two reservation routes, the sweeper, Redis persistence | component |
| `InventoryProofs`, `MCInventory` | its theorems; its instances | |
| `OrderLife` | the life of an order: one stage at a time, or failed before paid and refunded once | abstract specification |
| `OrderPipeline` | handlers, compensation, and BullMQ as the code uses it | component |
| `OrderPipelineProofs`, `PaymentProofs`, `SettlementProofs`, `MCOrderPipeline` | its theorems: what every trouble leaves true, how often an order is charged, and where an order can come to rest; its instances | |
| `OncePerKey` | one effect per key, and every answer is that effect's result | abstract specification |
| `Idempotency` | `withIdempotency` for one key | component |
| `IdempotencyProofs`, `MCIdempotency` | its theorems; its instances | |
| `RefreshSessions` | families, the browser's tabs and cookie, the requests between them | component and its client |
| `RateLimit` | one bucket and the processes that share it | component |
| `LiveView` | one page: what it shows of a counter and an order, and every way it learns of them | composition of inventory, pipeline, pub/sub, sockets and client |
| `...Proofs`, `MC...` of these three | their theorems; their instances | |

### Inventory

`stock[p]` is the Redis counter or `NoKey`; `hold[r]`, `order[r]` are document statuses; `pc[r]` is the
await request `r` is at; `owing` holds the refunds whose Mongo flip happened and whose `INCRBY` did not;
`lapsed[r]` says whose clock, the api's or the worker's, has passed `expiresAt`, so the two may disagree;
`aof` is what Redis would come back with. `drawn` and `refunds` are history variables. The Lua script is
one step (`Purchase`, `Retry`); `primeFromMongo` is two (`PrimeFind`, `PrimeSet`); a sweep is two (`Sweep`,
`Refund`). `Faults` selects what the environment may do: Mongo calls and Redis commands that fail, inserts and
claims of a hold that throw although they applied, failing enqueues, crashes of api and worker processes, Redis
restarts. What a throw leads to is the code's: `reserve()`'s catch gives the units back (`Caught`, `Undo`), but
not when that `INCRBY` throws too (`UndoFails`); a release or a sweep whose `INCRBY` throws (`RefundFails`), or that
never hears that its claim applied (`Unheard`), leaves a settled hold that nobody looks at again.

### OrderPipeline

`job`, `made`, `stalls`, `lock` are BullMQ's view of a job: its state, `attemptsMade`, how often it
stalled and who holds its lock. `at[<<w, j>>]` is the await worker `w`'s handler of job `j` is at, so two
workers can be inside handlers of one job once its lock was lost; a handler that lost the lock runs on, and
its outcome is ignored. The gate (`Gate`) reads the status, the compare-and-set (`SetStatus`) comes several awaits
later. `AttemptFails` and `FailStalled` emit `failed`, whose listener compares `attemptsMade` with
`JOB_ATTEMPTS`; the compensation it starts is not awaited, so a shutdown loses it as a crash does (`Crash`).
BullMQ is external: its actions are modelled from the options and events the code uses. The order document
is always found, and event payloads are left out. `HandOn` is two awaits of the code, the event and the next job,
in one step: if either throws, or the worker dies between them, there is no job, and the event has no reader here
(`LiveView` has its readers, and its worker may set a status and die before or after the event).

### Idempotency

`cell` is the Redis key: `Absent`, `Pending`, or the caller whose result it holds. `at[c]` is the await
caller `c` is at. The wrapped function is one effect that happens (`Take`) or not (`Reject`). A lock
carries no owner, so `Release` and `Store` act on whatever is there, as in the code. The TTLs are
`LockExpires` and `ResultExpires`. Troubles come in two sets: `Benign`, which cannot cause a
second effect, and `Harmful`, which can; `Harmless` says that no harmful one occurs.

### RefreshSessions

`stored[x]` is the JTI under the family's key, `cookie` the one refresh cookie all tabs share, `signedIn` the
tabs with an access token. A fetch `f` is one `apiFetch`, silent refresh (`Mount`), login or logout; `at[f]` is
the await it is at, on the client or in the route, `tok[f]` the token its request, then its reply, carries.
`Get` is the `GET` and the comparison; `Save` is the `SET`, which replaces whatever the key holds by then;
`Revoke` is the `DEL`. `SaveUnheard`, `StoreFails` and `Lost` are a `SET` that applied although the request
failed, a refused command, and a lost reply or dead process. Three histories tell situations apart:
`overlapped` (two requests to `/auth` were under way at once), `unheard` (a stored token never reached the
browser) and `ended` (families that were deleted). Random ids are fresh in the sense that nobody holds them,
so they are reused. The user lookup only reads and is one step with what follows it. A token may be refused as
expired at any time (`Expired`), and a key may go at any time (`KeyExpires`): the one's time counts from the second it was
signed in, the other's from the `SET`, so they end up to a second or so apart.

### RateLimit

The hash is `tokens` and `last`, its expiry `present` and `touched`. A request reads its process's clock
(`Send`, time plus `ahead[p]`) and that time travels to Redis; scripts of one process stay in order, those of
several do not; an unanswered one may run again (`CheckResent`) or be given up (`FailOpen`). Tokens are counted
exactly, in units of which a request costs `Cost` and a tick refills `Refill`. The script adds them up as doubles
(`tokenBucket.ts:33`) and Redis stores the sum (`:45`); its error stays far below a unit, so that it decides only
comparisons of equals, and the model keeps its sign: `short` says that the stored double is a trifle below the exact
number, and any refill that does not exceed the capacity may come out so (`Shortfalls`). A request that finds exactly
`Cost` is then refused (`Admits`), and a wait can come out one tick longer (`Waits`). `regained` is how far the bucket's time moved back in all, `due` the earliest time a
refused request was told to come back at.

### LiveView

A count is represented by its version, the number of changes the counter went through, since only the age of
what the page shows matters. `outbox[p]` holds the events process `p` is publishing, `reserving[p]` the count a
reservation will publish again after its insert, `told` the order event a worker is about to publish;
`stockWire` and `orderWire` are the socket, `asked` and `rooms` the rooms. `page`, `mine`, `buyAt` and `quote`
are the three requests, `shown` and `rows` the page. The histories `overlapped`, `missed`, `crossed` and
`untold` name the four ways in which the code lets the page go wrong; the properties say that there is no fifth,
and how long each lasts. `overlapped` is about the latest change of the counter: an older report was under way
elsewhere when it was made. `missed` and `untold` end with the next event that is sent to the room while the page is
in it, `crossed` with the next order event that overtakes no reply. Nothing else repairs the page, and after a
reconnect, when no room is joined again (`Disconnect`), nothing does.
One browser, one product and one order: products and orders do not influence one another's events. The
relative order of stock and order events, events that Redis is sent twice, and an order whose client gave up
before it was written are not followed; a second `GET /orders/mine` starts when the first is over.

## 3. Runs

| Run | Instance | Shows |
| --- | --- | --- |
| `inv_normal` | buy of 2, reserves of 1 and 2 against 3 units, a request for an inactive product, two sweepers, one releaser, failing Mongo calls and enqueues, fairness | no unit is lost but those of a purchase answered 500, an expired hold is refunded, every hold is settled |
| `inv_faults` | three requests, one sweeper, failing Mongo calls, Redis commands and enqueues, claims that lose their answer, crashes anywhere | the inductive invariant, no overselling, no double refund, no resurrected stock, refinement of `StockPool` |
| `inv_redis` | the same with ambiguous inserts and Redis restarts | what Mongo alone decides still holds: a settled hold is final, a confirmed one keeps its units |
| `pl_normal` | one order, two workers, 3 attempts, declines and failing publish/add, fairness | one charge, failed means not charged and refunded, every order is settled or stranded by a failed hand-on |
| `pl_overlap` | 2 attempts, declines, lost locks | the inductive invariant (in it: nothing unpaid moves on), refinement of `OrderLife` |
| `pl_crash` | 2 attempts, declines, Mongo failing before or after a write, failing queue calls, crashes | every charge was announced in `paymentAttempts`, charges never exceed attempts plus forgiven stalls; an order at rest is at its end, was not handed on, or its stage's job is in the failed set; refinement of `OrderLife` |
| `pl_double` (violation) | failing Mongo calls | a second charge (`orderPipeline.ts:67`) |
| `idem_normal` | four callers, benign troubles, fairness | the inductive invariant (in it: one effect), refinement of `OncePerKey`, stale locks heal |
| `idem_faults` | four callers, every trouble | a replayed result is that of a real effect |
| `rs_normal` | two tabs, two fetches, two families, key expiry, refused commands, lost replies | the inductive invariant (in it: what ended in turn is dead); requests in turn: a rotation replaces what it checked, no false alarm; overlapped: only a rotation past its check revives a family |
| `rl_clocks` | two processes with two requests each, clocks one tick apart, scripts a tick late, re-sent, keys that expire | the inductive invariant, admissions within the rate, a tick more than the promised wait suffices however sums are rounded |
| `lv_normal` | two publishers, two changes of the counter, every loss and every interleaving of replies and events | the inductive invariant (in it: never a status the order has not had); a quiet page is right unless one of the four histories says why not |

Bounds, and why they are enough. Two requests that exceed the stock together already race for the last
unit, and a third leaves room for one of them to be served from a refund; quantities 1 and 2 make a counter
cover part of a request. One sweeper races with confirm and release; `inv_normal` has two, which race with
each other. Orders never touch each other's state, so the pipeline runs use one; two workers let a stale
handler run beside a fresh delivery. Two attempts contain a first, a last and a retry; `pl_normal` uses the
code's three. `MaxStalled = 1` is BullMQ's default. Four callers let one hold the lock, one lose it, one
take it over and one arrive late. `MaxQty = 2` stands for the body schema's 10. In these modules no counter needs
a bound: all are bounded by requests, attempts and stalls. Two tabs with a fetch each overlap in every pair of
the requests' awaits; a tab's own two calls would add the same pairs; a second family is what a login opens
while the first is alive; four tokens per family are what two fetches, the cookie
and the key can hold. A capacity of 4 with cost 3 and refill 2
leaves remainders on every path, so that rounding matters; `MaxTime = 5` is past the TTL of 4, and
`MaxAdmitted = 9` three admissions. In `LiveView`, `MaxChanges = 2` gives an older and a newer change, which is
all that overtaking needs (a third makes the run too long; that a heard change repairs what an earlier one broke
shows with two when the older report is a refused purchase's, and is proved for every bound), `MaxOutbox = 1` an event per process that the other's can
overtake, and `MaxWire = 2` a queue whose order can matter. Permutations of
orders, workers, callers, publishers, processes and their requests are used as symmetry only in runs without liveness. Runs do not check deadlock: a sale that is over stops.

Properties that hold only conditionally, and where the code stops keeping them:

- With a worker that dies, `FailedIsCompensated` fails: `compensatePayment` sets the order failed before
  it returns the units, and nothing repeats it; and a job that stalls more than `MaxStalled` times fails
  with attempts left, which the listener takes for an ordinary retry.
- `ChargesAreRecorded` needs `LockKept`: two overlapping handlers read the same `paymentAttempts` and both save
  the same next number. `ChargesAreBounded` does not.
- With a failing `publish` or `add`, an order can be `Stranded`: the retry stops at the gate.
- A fulfill or notify job that exhausts its attempts changes nothing, although `api/src/models/Order.ts:9`
  speaks of compensation there. No property states it.
- `RestIsExplained` holds under every combination. It says where an order is, not that anybody will look there.
- `NoGhostStock`, `ExpiredIsRefunded` and what is proved of released holds fail as soon as an `INCRBY` is refused
  (`redis_error`), a claim's answer is lost (`ambiguous_update`) or the process between the two dies.
- With ambiguous inserts or Redis restarts `NoOversell` does not hold; `ReliableStores` excludes both. The
  reconciliation job `docs/decisions.md:36` mentions does not exist in the code.
- `AtMostOnce` needs `Harmless`: a lock that outlives its holder, and no failure after the effect.
- `CheckedIsReplacedInTurn`, `EndedIsDead` and `NoFalseAlarm` need requests that follow one another, and
  `NoFalseAlarm` replies that arrive. The client does not keep to that: two calls that get a 401 both refresh
  with the same cookie, and two tabs share it.
- `WithinRate` counts `regained`: with clocks that disagree, or scripts that overtake one another, the same
  interval is refilled more than once (`tokenBucket.ts:45` stores the caller's time even when it is earlier).
- `RetryAfterNearlySuffices` is about times after the promised one. At the promised millisecond the doubles may
  be a trifle short: with capacity 5 and refill 0.5 (`products.ts:19`), refused retries every 200 ms leave
  0.9999999999999999 tokens after the 2000 ms a client was told to wait, and it is told to wait 1 ms more.
- `ShowsTheCounter` and `ShowsTheStatus` need that the latest change or event was neither missed nor overtaken.

Where a document or comment says more than the code does. `pl_double` shows one such case; the following
are consequences of the same models, found with the conditions above removed:

- `products.ts:96`: when the price lookup or the order insert fails after the decrement, the units stay taken
  and no order exists, although `api/src/models/Order.ts:1` calls an order "the durable record of a purchase
  intent. Created the moment stock is committed". `reserve()` compensates the same failure.
- `worker/src/sweeper.ts:51`: a worker that dies between the flip and the `INCRBY`, or whose `INCRBY` throws into
  the catch at `:69`, leaves an expired hold that no later tick selects, although `sweeper.ts:12` says "refunded
  EXACTLY ONCE". `ExpiredIsRefunded` fails with `worker_crash` and with `redis_error`.
- `idempotency.ts:51`: when `fn` throws after it took units, the key is deleted and the retry takes more, although
  `README.md:16` says "retries never double-buy". `AtMostOnce` fails without `Harmless`.
- `auth.ts:142`: `README.md:281` lists the refresh JTI check among the transitions made atomic by a script in
  Redis; it is a `GET`, a comparison in JavaScript and a `SET`. `CheckedIsReplaced` fails once two refreshes overlap.
- `inventory.ts:123`: the compensation of `reserve()` publishes nothing, although `README.md:109` says "every
  stock change goes through Redis pub/sub".
- `App.tsx:151`: an order event that overtakes the 201 changes no row, so that the panel `README.md:231` tells the
  reader to watch can stay at `pending`.
- `realtime.ts:12` says of `ts` that "clients can drop obviously stale events"; the client does not read it.

## 4. Fairness

- `Inventory`: weak fairness of a begun request's next call, of time passing an `expiresAt` on the worker,
  of each sweeper's claim and of each owed refund. Clients owe nothing: confirm and release are never fair.
  The sweeper's interval (`sweeper.ts:76`) justifies its fairness; the rest is that Redis and Mongo answer.
- `OrderPipeline`: BullMQ hands out waiting jobs and rescues jobs whose worker is gone; a running handler
  goes on. Weak fairness is enough: nothing takes a waiting job back. `EnqueueProcess` is not fair, since
  the route only logs a failed enqueue.
- `Idempotency`: a begun request goes on, and Redis expires keys. A caller need never begin.
- `RefreshSessions`, `RateLimit` and `LiveView` state no liveness and assume no fairness: nothing in them is
  obliged to happen, and what they promise "once quiet" is stated as safety of the quiet states.

## 5. Proofs

All proofs are checked by `tlapm` to the last leaf, for any sets of products, requests, orders, workers,
callers, tabs, tokens, processes and publishers. The constants' assumptions are named (`ConstantsAssumption`, `RequestsFinite`, `RefundersApart`,
`PipelineAssumption`, `IdempotencyAssumption`, `SessionAssumption`,
`RateAssumption`, `LiveAssumption`) and evaluated by TLC in the runs.

**Inventory.** `IInv` joins `TypeOK`, `Ledger` (counter plus units taken equals the catalog) and
`Consistent(r)` (where a request is agrees with what it drew and returned). `Ledger` alone is not
inductive: a step that raises the counter must know that the unit it returns was taken and not yet returned,
which only `Consistent` says. Cardinalities are handled by lemmas about the set of pairs
`<<request, unit number>>`. From `IInv`, under `ReliableStores`: `NeverOversold`,
`NoResurrection` and `Implementation` (of `StockPool`).

The others each name no more faults than they need excluded. `TypeCorrect`, `ConfirmedKept` and `SettledForGood`
hold under every combination: `Decided(r)` says that a document is inserted once, that only a request that was
answered is confirmed, and that what was neither expired nor released is refunded by its compensation only. `NeverRefundedTwice` needs only `Consistent`, which needs only
that an insert that throws has not landed (`WritesAnswered`); Redis may restart. `NothingLost`
(`Accounted`) needs that what is to be returned is (`ReturnsMade`): no process dies, no Redis command is refused and
every claim of a hold is heard of; Mongo may refuse or fail to acknowledge inserts as it likes, which loses the units
of a purchase answered 500 and no others. `ExpiredReturned` and `ReleasedReturned` (`Returned`) are about one way of
ending a hold: they need the process that owes the `INCRBY`, a worker or an api process, to live, that `INCRBY` to be
answered, and inserts and claims to be answered truly; other processes may die and Redis may restart. They are
the safety half of `HoldsAreSettled`: a settled hold is confirmed, refunded or owed.

**OrderPipeline.** `IInv` joins `TypeOK`, `PaidWasCharged`, `ChargedBeforePaid` (a handler about to mark an
order paid has charged it) and `RefundsFollowFailure` (units come back only of failed orders, and one
compensation at most is about to return them, for an order that was not refunded). The last part needs the
uniqueness of the compensating handler to survive overlapping deliveries: the filter `status: "pending"`
lets one win, and no status leaves `failed`. Theorems `NothingShipsUnpaid` and `Implementation` (of
`OrderLife`) follow for every combination of troubles. Most steps are `Quiet` for the invariant, which one
lemma dispatches.

`PaymentProofs` treats one order's payment job at a time: a step of any other job leaves it `Still`.

- `ChargesBounded` holds under every combination of troubles, overlapping deliveries included. `ChargesAreBounded`
  is not inductive; `Tallied` counts, against `attemptsMade` plus stalls, the charges and the workers whose handler
  is still before its charge (`Spent`), the delivery that holds the lock being one not counted yet. A handler
  that lost its lock keeps its place in the count through the stall that took it.
- While running handlers keep their locks (`LockKept`), `PayInv` joins `Solo` (who handles the payment holds its
  lock) and `Recorded` (the number an attempt read is the stored one until it saves the next). `ChargesRecorded`
  follows, with failing writes and dying workers.
- When no Mongo call throws without effect and no worker dies either (`Attended`; a write that throws although it
  applied is allowed), `Charged` adds that a charged order is pending only under the handler that is about to set it
  paid, and that a compensation runs after the job's last delivery: `ChargedOnce` and `FailedUncharged` follow.
  `Settling` adds that an active job always has a handler, so that it never stalls and its last failure is the one the
  listener counts: `ExhaustedCompensated` follows.
- `FailedRefunded` needs other assumptions: writes that are answered truly and workers that live (`Answered`). Then
  `Returning` holds, a failed order has its units or its one compensation. `FailuresCompensated` needs both.

`SettlementProofs` proves what `OrdersAreSettled` owes to safety. `TendInv` says of the jobs of all three stages that an
active one has its handler (`Manned`) and that a job keeps up with its order (`Abreast`): it is there once its
stage is due and ends when it is not due any more. Only the stages together are inductive: that a status
waits for the handler that set it follows from the absence of the next stage's job. `NoneForgotten`: an order
for which nothing is under way is confirmed, failed or stranded by a failing call. `OrdersEndSettled`: with
declines alone (`Declines`), it is confirmed, or failed with its units returned. `RestExplained` is about every
combination of troubles, lost locks included, where none of this holds. What is left is that a job is `Honest`: it
was not added before its stage, it does not complete while its order waits for it, and a handler that is done has
seen or made the order move. So an order at rest that is not at its end waits for a job that failed for good, or for
one that was never added.

**Idempotency.** Without any assumption, `NoFalseReplay`: what is stored, or about to be, took effect. Under
`Harmless`, `IInv` adds `OneHolder` and `EffectIsRemembered`: the caller about to run finds no effect yet,
because an earlier one would still show as the marker of its own storing or as a result. `OnceForAKey` and
`Implementation` (of `OncePerKey`) follow.

**RefreshSessions.** `IInv` joins `TypeOK`, `Carries` (which token a request has at which await), `KeysAreOwn`,
`InTurn` (while requests follow one another at most one is in flight, what it checked is still there, and ended
families are empty) and `Heard` (while no token was missed, the cookie is active, its family over, or a reply
with a newer token on its way). `CheckAndReplace`, `EndsForGood` and `NeverAlarmed` follow; `NoRevival`, an
action property without any condition, follows from the step lemmas.

**RateLimit.** `IInv` joins `TypeOK`, `InTransit`, `Idle`, `Balance` and `Promise`. `Balance` is `WithinRate` with
what is left in the bucket added on the left: without it no step could be bounded. An expiry is the hard
step: it hands out a full bucket, and only `Idle` says that the time since the last script, less the skew and the
delay, would have filled it anyway. `RateAssumption` asks just that margin of the TTL. `Promise` says that by the
time promised the exact tokens are there, whatever refusals stored meanwhile. `RateHolds` follows, and `PromiseKept`:
a tick later there are more than `Cost`, so that a short sum is enough too.

**LiveView.** `IInv` joins `TypeOK`, `Reports` (no report is newer than the counter), `Loading`, `Joined`,
`Ordered`, `Truthful` and, under the histories, `InTurn`, `Heard`, `Following` and `Followed`: the last report under
way, or else the page, is up to date. `Following`, that the events on the socket end with the present status, is apart
from `Followed` because a lost event and an overtaken reply are made up for at different moments: one when the next
event is sent, the other when it arrives. `LiveStock`, `LiveOrders` and `NothingAhead` follow.

Only model-checked: liveness (`HoldsAreSettled`, `OrdersAreSettled`, `StaleLocksHeal`), which the prover
does not treat under fairness; that nothing is forgotten half way is
proved for the first two. Every other property of the passing runs is the statement of a theorem, and so are parts of
the inductive invariants that deserve a name: `NothingShipsUnpaid`, `OnceForAKey`, `EndsForGood`, `NothingAhead`.

## 6. Not modelled, and why

Registration, bcrypt and JWT are stateless checks of libraries; the remaining queries, health, middleware, configuration and
logging keep no state; the web pages are presentation; scripts and tests drive the system. Payment
amounts, messages and event payloads do not influence control. Boot and connection handling are left out;
a shutdown is a crash at an await, or a lost connection. A `DECRBY` or `INCRBY` that ioredis sends twice is not
a fault of `Inventory`: it would draw or refund twice and nothing in the code could notice. Emails are a stub.

## 7. What is left

- A composition of `Inventory` and `OrderPipeline` over one counter: the ledger with the pipeline's refunds, and
  pending orders whose job was never added. `LiveView` composes their events, not their units.
- A liveness statement for `LiveView` would need fairness of the socket that nothing in the code gives.
