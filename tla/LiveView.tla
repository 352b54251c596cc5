------------------------------ MODULE LiveView ------------------------------
(***************************************************************************)
(* What one browser shows of one product's stock and of one of its user's  *)
(* orders: App.tsx, fed by three replies (GET /products, POST /buy, GET    *)
(* /orders/mine) and by the events that api pods and workers publish to    *)
(* Redis and socket.ts forwards to the rooms the browser joined.           *)
(*                                                                         *)
(* A count stands for its version, the number of changes the counter went  *)
(* through: what matters here is only how old a number is.  Stock and      *)
(* order events keep their order among themselves, not with each other.    *)
(***************************************************************************)
EXTENDS Naturals, Sequences

CONSTANTS
  Publishers,  \* the processes that change the counter and publish events
  MaxChanges,  \* bounds: changes of the counter,
  MaxOutbox,   \* events a process has not published yet,
  MaxWire,     \* events on the socket
  Asked,       \* a request whose answer was not read yet
  None         \* nothing: no request, no number, no event

ASSUME LiveAssumption ==
  /\ MaxChanges \in Nat /\ MaxOutbox \in Nat /\ MaxWire \in Nat
  /\ Asked # None
  /\ {Asked, None} \cap (Nat \cup {"none", "pending", "paid", "fulfilled", "confirmed", "failed", "refund"}) = {}

VARIABLES
  version,     \* of the counter in Redis
  outbox,      \* outbox[p]: the counts p is publishing, oldest first
  reserving,   \* reserving[p]: the count a reservation of p found, until its row is written
  status,      \* of the order in Mongo
  told,        \* the order event a worker is publishing, or the refund before it
  stockWire,   \* the events on their way through the socket
  orderWire,
  asked,       \* the rooms the browser asked for,
  rooms,       \* and those it is in
  page,        \* GET /products: Asked, what it read, None
  mine,        \* GET /orders/mine, likewise
  buyAt,       \* POST /buy
  quote,       \* the count in its reply, 0 when there is none
  shown,       \* the count on the page
  rows,        \* the statuses of the rows that show the order
  overlapped,  \* history: the latest change left an older report under way elsewhere
  missed,      \* history: a change was not told to the browser, nor any event since
  crossed,     \* history: the last order event of the page overtook a reply
  untold       \* history: an order event did not reach the browser, nor any since

counter == <<version, outbox, reserving>>
order == <<status, told>>
socket == <<stockWire, orderWire, asked, rooms>>
buying == <<buyAt, quote>>
view == <<shown, rows>>
stockPast == <<overlapped, missed>>
orderPast == <<crossed, untold>>
vars == <<counter, order, socket, page, mine, buying, view, stockPast, orderPast>>

Statuses == {"pending", "paid", "fulfilled", "confirmed", "failed"}
Rooms == {"product", "user"}

(* The statuses an order has been through.                                 *)
Past ==
  [none |-> {}, pending |-> {"pending"}, paid |-> {"pending", "paid"},
   fulfilled |-> {"pending", "paid", "fulfilled"},
   confirmed |-> {"pending", "paid", "fulfilled", "confirmed"},
   failed |-> {"pending", "failed"}]

TypeOK ==
  /\ version \in Nat
  /\ outbox \in [Publishers -> Seq(Nat)]
  /\ reserving \in [Publishers -> Nat \cup {None}]
  /\ status \in Statuses \cup {"none"}
  /\ told \in Statuses \cup {"refund", None}
  /\ stockWire \in Seq(Nat) /\ orderWire \in Seq(Statuses)
  /\ asked \subseteq Rooms /\ rooms \subseteq Rooms
  /\ page \in Nat \cup {Asked, None}
  /\ mine \in Statuses \cup {"none", Asked, None}
  /\ buyAt \in {"no", "asked", "taken", "recorded", "refused", "over"}
  /\ quote \in Nat
  /\ shown \in Nat \cup {None}
  /\ rows \subseteq Statuses
  /\ overlapped \in BOOLEAN /\ missed \in BOOLEAN /\ crossed \in BOOLEAN /\ untold \in BOOLEAN

(* A page that was just loaded, of a user who may have ordered before.     *)
Init ==
  /\ version = 0
  /\ outbox = [p \in Publishers |-> <<>>]
  /\ reserving = [p \in Publishers |-> None]
  /\ \/ status = "none" /\ buyAt = "no"
     \/ status = "pending" /\ buyAt = "over"
  /\ told = None
  /\ stockWire = <<>> /\ orderWire = <<>>
  /\ asked = {} /\ rooms = {}
  /\ page = Asked /\ mine = None /\ quote = 0
  /\ shown = None /\ rows = {}
  /\ overlapped = FALSE /\ missed = FALSE /\ crossed = FALSE /\ untold = FALSE

-----------------------------------------------------------------------------
(* The counter and its events.                                             *)

(* A process changes the counter and sends the new count off without       *)
(* waiting for it.  Whatever still reports an older count by another way   *)
(* may come later.                                                         *)
Elsewhere(p) ==
  \/ \E q \in Publishers \ {p} : reserving[q] # None \/ outbox[q] # <<>>
  \/ buyAt \in {"taken", "recorded", "refused"}

OldCount == version
NewCount == version + 1

Change(p) ==
  /\ version < MaxChanges /\ Len(outbox[p]) < MaxOutbox
  /\ version' = version + 1
  /\ outbox' = [outbox EXCEPT ![p] = Append(@, NewCount)]
  /\ overlapped' = (Elsewhere(p) \/ reserving[p] # None)
  /\ UNCHANGED missed

(* A purchase of another client, a release or a sweep.                     *)
Other(p) ==
  /\ Change(p)
  /\ UNCHANGED <<reserving, order, socket, page, mine, buying, view, orderPast>>

(* A reservation publishes its count again once its row is written,        *)
Reserve(p) ==
  /\ reserving[p] = None
  /\ Change(p)
  /\ reserving' = [reserving EXCEPT ![p] = version + 1]
  /\ UNCHANGED <<order, socket, page, mine, buying, view, orderPast>>

Reserved(p) ==
  /\ reserving[p] # None /\ Len(outbox[p]) < MaxOutbox
  /\ outbox' = [outbox EXCEPT ![p] = Append(@, reserving[p])]
  /\ reserving' = [reserving EXCEPT ![p] = None]
  /\ UNCHANGED <<version, order, socket, page, mine, buying, view, stockPast, orderPast>>

(* or gives its units back without telling anybody: any report under way   *)
(* is older and nothing follows it.                                        *)
ReserveFails(p) ==
  /\ reserving[p] # None /\ version < MaxChanges
  /\ version' = version + 1
  /\ reserving' = [reserving EXCEPT ![p] = None]
  /\ missed' = (missed \/ page # Asked)
  /\ overlapped' = (Elsewhere(p) \/ outbox[p] # <<>>)
  /\ UNCHANGED <<outbox, order, socket, page, mine, buying, view, orderPast>>

(* Redis hands the event to the browser's pod, which sends it to the room. *)
Known == IF page \in Nat THEN page ELSE shown

Publish(p) ==
  /\ outbox[p] # <<>> /\ Len(stockWire) < MaxWire
  /\ outbox' = [outbox EXCEPT ![p] = Tail(@)]
  /\ IF "product" \in rooms
       THEN stockWire' = Append(stockWire, Head(outbox[p])) /\ missed' = FALSE
       ELSE /\ missed' = (missed \/ (Known \in Nat /\ Head(outbox[p]) > Known))
            /\ UNCHANGED stockWire
  /\ UNCHANGED <<version, reserving, order, orderWire, asked, rooms, page, mine, buying, view, overlapped, orderPast>>

(* The process dies, PUBLISH is refused or the pod is not listening.       *)
LosePublish(p) ==
  /\ outbox[p] # <<>>
  /\ outbox' = [outbox EXCEPT ![p] = Tail(@)]
  /\ missed' = (missed \/ page # Asked)
  /\ UNCHANGED <<version, reserving, order, socket, page, mine, buying, view, overlapped, orderPast>>

-----------------------------------------------------------------------------
(* The order and its events.                                               *)

After == [pending |-> "paid", paid |-> "fulfilled", fulfilled |-> "confirmed"]

(* A stage sets the status, publishes it and then lets the next stage go.  *)
AnnouncedEarly == IF After[status] = "paid" THEN "fulfilled" ELSE After[status]
Announced == After[status]

Advance ==
  /\ told = None /\ status \in DOMAIN After
  /\ status' = After[status]
  /\ told' = Announced
  /\ UNCHANGED <<counter, socket, page, mine, buying, view, stockPast, orderPast>>

(* Or the payment failed: the units go back before the order is announced. *)
Fail ==
  /\ told = None /\ status = "pending"
  /\ status' = "failed" /\ told' = "refund"
  /\ UNCHANGED <<counter, socket, page, mine, buying, view, stockPast, orderPast>>

GiveBack(p) ==
  /\ told = "refund"
  /\ Change(p)
  /\ told' = "failed"
  /\ UNCHANGED <<reserving, status, socket, page, mine, buying, view, orderPast>>

(* What the browser shows of the order, or will.                           *)
Viewed ==
  rows # {} \/ mine \in Statuses \/ buyAt = "recorded" \/ orderWire # <<>>

Tell ==
  /\ told \in Statuses /\ Len(orderWire) < MaxWire
  /\ told' = None
  /\ IF "user" \in rooms
       THEN orderWire' = Append(orderWire, told) /\ untold' = FALSE
       ELSE untold' = (untold \/ Viewed) /\ UNCHANGED orderWire
  /\ UNCHANGED <<counter, status, stockWire, asked, rooms, page, mine, buying, view, stockPast, crossed>>

(* The worker dies, a command throws, or the pod is not listening.         *)
LoseTell ==
  /\ told # None
  /\ told' = None
  /\ untold' = (untold \/ Viewed)
  /\ UNCHANGED <<counter, status, socket, page, mine, buying, view, stockPast, crossed>>

-----------------------------------------------------------------------------
(* The socket.                                                             *)

Join(r) ==
  /\ r \in asked
  /\ asked' = asked \ {r}
  /\ rooms' = rooms \cup {r}
  /\ UNCHANGED <<counter, order, stockWire, orderWire, page, mine, buying, view, stockPast, orderPast>>

(* An access token that expired joins no room.                             *)
NotJoined ==
  /\ "user" \in asked
  /\ asked' = asked \ {"user"}
  /\ UNCHANGED <<counter, order, stockWire, orderWire, rooms, page, mine, buying, view, stockPast, orderPast>>

(* A connection that is lost, or closed by its pod's shutdown, is made     *)
(* again, but nothing asks for the rooms again; what was asked meanwhile is*)
(* lost or buffered.                                                       *)
Disconnect ==
  /\ rooms' = {} /\ asked' \in SUBSET asked
  /\ stockWire' = <<>> /\ orderWire' = <<>>
  /\ missed' = (missed \/ stockWire # <<>>)
  /\ untold' = (untold \/ orderWire # <<>>)
  /\ UNCHANGED <<counter, order, page, mine, buying, view, overlapped, crossed>>

(* The listeners of the page: whatever comes last is what it shows; an     *)
(* order event changes rows that are there.                                *)
OnStock ==
  /\ stockWire # <<>>
  /\ stockWire' = Tail(stockWire)
  /\ shown' = Head(stockWire)
  /\ UNCHANGED <<counter, order, orderWire, asked, rooms, page, mine, buying, rows, stockPast, orderPast>>

RowsRefused(s) == rows
RowsUpdated(s) == IF rows = {} THEN {} ELSE {s}

OnOrder ==
  /\ orderWire # <<>>
  /\ orderWire' = Tail(orderWire)
  /\ rows' = RowsUpdated(Head(orderWire))
  /\ crossed' = (mine \in Statuses \/ buyAt = "recorded")
  /\ UNCHANGED <<counter, order, stockWire, asked, rooms, page, mine, buying, shown, stockPast, untold>>

-----------------------------------------------------------------------------
(* The requests of the page.                                               *)

(* GET /products, once; the list it fills makes the page subscribe.        *)
PageRead ==
  /\ page = Asked
  /\ page' = version
  /\ UNCHANGED <<counter, order, socket, mine, buying, view, stockPast, orderPast>>

PageShown ==
  /\ page \in Nat
  /\ shown' = page /\ page' = None
  /\ asked' = asked \cup {"product"}
  /\ UNCHANGED <<counter, order, stockWire, orderWire, rooms, mine, buying, rows, stockPast, orderPast>>

PageFails ==
  /\ page # None
  /\ page' = None
  /\ UNCHANGED <<counter, order, socket, mine, buying, view, stockPast, orderPast>>

(* A new access token: the page asks for its user's events and orders.     *)
TokenSet ==
  /\ mine = None
  /\ asked' = asked \cup {"user"}
  /\ mine' = Asked
  /\ UNCHANGED <<counter, order, stockWire, orderWire, rooms, page, buying, view, stockPast, orderPast>>

MineRead ==
  /\ mine = Asked
  /\ mine' = status
  /\ UNCHANGED <<counter, order, socket, page, buying, view, stockPast, orderPast>>

MineShown ==
  /\ mine \in Statuses \cup {"none"}
  /\ rows' = {mine} \ {"none"}
  /\ mine' = None
  /\ UNCHANGED <<counter, order, socket, page, buying, shown, stockPast, orderPast>>

MineFails ==
  /\ mine # None
  /\ mine' = None
  /\ UNCHANGED <<counter, order, socket, page, buying, view, stockPast, orderPast>>

(* A click on buy,                                                         *)
Buy ==
  /\ buyAt = "no" /\ shown # None
  /\ buyAt' = "asked"
  /\ UNCHANGED <<counter, order, socket, page, mine, quote, view, stockPast, orderPast>>

(* which takes the units, writes the order and adds its job,               *)
Take(p) ==
  /\ buyAt = "asked"
  /\ Change(p)
  /\ buyAt' = "taken" /\ quote' = version + 1
  /\ UNCHANGED <<reserving, order, socket, page, mine, view, orderPast>>

Record ==
  /\ buyAt = "taken"
  /\ status' = "pending" /\ buyAt' = "recorded"
  /\ UNCHANGED <<counter, told, socket, page, mine, quote, view, stockPast, orderPast>>

(* or finds nothing left.                                                  *)
Refuse ==
  /\ buyAt = "asked"
  /\ buyAt' = "refused" /\ quote' = version
  /\ UNCHANGED <<counter, order, socket, page, mine, view, stockPast, orderPast>>

(* The reply: a 201 with its row, or a 409 that shows zero.                *)
Bought ==
  /\ buyAt = "recorded"
  /\ shown' = quote /\ rows' = rows \cup {"pending"}
  /\ buyAt' = "over" /\ quote' = 0
  /\ UNCHANGED <<counter, order, socket, page, mine, stockPast, orderPast>>

SoldOut ==
  /\ buyAt = "refused"
  /\ shown' = quote
  /\ buyAt' = "no" /\ quote' = 0
  /\ UNCHANGED <<counter, order, socket, page, mine, rows, stockPast, orderPast>>

(* Another status, or no reply at all: a message, and nothing else.        *)
BuyFails ==
  /\ buyAt \in {"asked", "taken", "recorded", "refused"}
  /\ buyAt' = IF buyAt = "recorded" THEN "over" ELSE "no"
  /\ quote' = 0
  /\ UNCHANGED <<counter, order, socket, page, mine, view, stockPast, orderPast>>

-----------------------------------------------------------------------------
Next ==
  \/ \E p \in Publishers :
       \/ Other(p) \/ Reserve(p) \/ Reserved(p) \/ ReserveFails(p)
       \/ Publish(p) \/ LosePublish(p) \/ GiveBack(p) \/ Take(p)
  \/ Advance \/ Fail \/ Tell \/ LoseTell
  \/ (\E r \in Rooms : Join(r)) \/ NotJoined \/ Disconnect \/ OnStock \/ OnOrder
  \/ PageRead \/ PageShown \/ PageFails
  \/ TokenSet \/ MineRead \/ MineShown \/ MineFails
  \/ Buy \/ Record \/ Refuse \/ Bought \/ SoldOut \/ BuyFails

Spec == Init /\ [][Next]_vars

-----------------------------------------------------------------------------
(* Live stock: once no event and no list is under way, the page shows the  *)
(* counter, unless the latest change overtook an older report that travels *)
(* by another way, or was not told to the page.  Whatever made the page    *)
(* wrong before, one change that is heard and overtakes nothing repairs it.*)
StockQuiet ==
  /\ stockWire = <<>> /\ \A p \in Publishers : outbox[p] = <<>>
  /\ page = None

ShowsTheCounter == StockQuiet /\ ~overlapped /\ ~missed => shown \in {None, version}

(* Live orders: once no event and no reply is under way, the rows of the   *)
(* order show its status, unless the last event was lost or overtook a     *)
(* reply.  Rows that were wrong before are right with the next event.      *)
OrderQuiet == orderWire = <<>> /\ told = None /\ mine = None /\ buyAt # "recorded"

ShowsTheStatus == OrderQuiet /\ ~crossed /\ ~untold => rows \subseteq {status}

(* Whatever is lost or overtaken, the page shows no status that the order  *)
(* has not been through.                                                   *)
NeverAhead == rows \subseteq Past[status]

(* The inductive invariant.  No report of the counter is newer than it,    *)
Reports ==
  /\ \A p \in Publishers :
       /\ \A i \in 1..Len(outbox[p]) : outbox[p][i] <= version
       /\ reserving[p] \in Nat => reserving[p] <= version
  /\ \A i \in 1..Len(stockWire) : stockWire[i] <= version
  /\ page \in Nat => page <= version
  /\ shown \in Nat => shown <= version
  /\ quote <= version

(* the page shows and buys nothing before it has its list,                 *)
Loading == page # None => shown = None /\ buyAt \in {"no", "over"}

(* an event is on the socket only for a room that was joined, the product's*)
(* only after the list was shown,                                          *)
Joined ==
  /\ "product" \notin rooms => stockWire = <<>>
  /\ "user" \notin rooms => orderWire = <<>>
  /\ "product" \in asked \cup rooms => page = None

(* without overlaps one process has reports and they end with the latest,  *)
(* which is also what replies say,                                         *)
InTurn ==
  /\ \A p, q \in Publishers :
       outbox[p] # <<>> \/ reserving[p] # None =>
         p = q \/ (outbox[q] = <<>> /\ reserving[q] = None)
  /\ \A p \in Publishers : reserving[p] \in {None, version}
  /\ \A p \in Publishers : outbox[p] # <<>> => outbox[p][Len(outbox[p])] = version
  /\ buyAt \in {"taken", "recorded", "refused"} => quote = version

(* and with all of them heard the latest is known or about to be,          *)
Heard ==
  (\A p \in Publishers : outbox[p] = <<>>) =>
    IF stockWire # <<>> THEN stockWire[Len(stockWire)] = version
    ELSE /\ page \in {Asked, None, version}
         /\ page = None => shown \in {None, version}

(* nothing is known of an order before there is one,                       *)
Ordered ==
  /\ buyAt \in {"no", "asked", "taken", "refused"} => status = "none"
  /\ buyAt = "recorded" => status # "none"
  /\ told = "refund" => status = "failed"
  /\ told \in Statuses => told = status

(* what is known of it is past or present,                                 *)
Truthful ==
  /\ NeverAhead
  /\ \A i \in 1..Len(orderWire) : orderWire[i] \in Past[status]
  /\ mine \in Statuses => mine \in Past[status]

(* the events that are heard end with the present status,                  *)
Following ==
  told = None /\ orderWire # <<>> => orderWire[Len(orderWire)] = status

(* and what is known is the present status or about to be.                 *)
Followed ==
  told = None /\ orderWire = <<>> =>
    /\ rows \subseteq {status}
    /\ mine \in Statuses => mine = status
    /\ buyAt = "recorded" => status = "pending"

IInv ==
  /\ TypeOK
  /\ Reports /\ Loading /\ Joined /\ Ordered /\ Truthful
  /\ ~overlapped => InTurn
  /\ ~overlapped /\ ~missed => Heard
  /\ ~untold => Following
  /\ ~crossed /\ ~untold => Followed

=============================================================================
