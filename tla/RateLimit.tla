------------------------------ MODULE RateLimit ------------------------------
(***************************************************************************)
(* One token bucket of api/src/rateLimit: the hash rl:<scope>:<id> and the *)
(* api processes that share it.  A request reads its own process's clock,  *)
(* and that time travels to Redis, where the script refills the bucket up  *)
(* to it: scripts of several processes run in any order, on the times of   *)
(* clocks that disagree.                                                   *)
(*                                                                         *)
(* Tokens are counted exactly, in units of which a request costs Cost and  *)
(* a tick, one millisecond of Date.now(), refills Refill.  The script adds *)
(* them up as doubles and Redis stores what it computed: sums of the order *)
(* of the capacity, whose errors stay far below a unit.  Such an error     *)
(* decides nothing but a comparison of equals, so all the model keeps of   *)
(* it is its sign: the double may be a trifle short of the exact number.   *)
(***************************************************************************)
EXTENDS Integers

CONSTANTS
  Pods,          \* the api processes
  Slots,         \* requests a process may have under way
  Capacity,      \* of the bucket, in units
  Cost,          \* of a request, in units
  Refill,        \* units per tick
  FullTime,      \* ticks that fill an empty bucket
  Ttl,           \* ticks after which Redis drops an idle bucket
  MaxSkew,       \* how far a process's clock may be ahead of real time
  MaxDelay,      \* how long a script may be on its way
  MaxTime,       \* bound on real time
  MaxAdmitted,   \* bound on the units admitted
  None           \* no time

(* The script's EXPIRE is twice the time to fill: what it leaves over must *)
(* cover the disagreement of the clocks and the scripts on their way.      *)
ASSUME RateAssumption ==
  /\ Capacity \in Nat /\ Cost \in Nat \ {0} /\ Cost <= Capacity
  /\ Refill \in Nat \ {0} /\ FullTime \in Nat /\ Refill * FullTime >= Capacity
  /\ MaxSkew \in Nat /\ MaxDelay \in Nat /\ MaxTime \in Nat /\ MaxAdmitted \in Nat
  /\ Ttl \in Nat /\ Ttl >= FullTime + MaxSkew + MaxDelay
  /\ None \notin Int

VARIABLES
  time,       \* real time, by which Redis expires keys
  ahead,      \* ahead[p]: how far p's clock is ahead of it
  sent,       \* sent[q]: real time at which the request in slot q left, or None
  present,    \* the bucket has its key
  tokens,     \* t of the hash, the exact amount
  short,      \* the double stored as t is a trifle below that amount
  last,       \* l of the hash: the time of the last script
  touched,    \* real time of the last script
  used,       \* history: a script ran
  first,      \* history: the time of the first script
  admitted,   \* history: the units of the requests admitted
  regained,   \* history: how far the bucket's time moved back in all
  due         \* history: the time from which a refused request was promised
              \* to be admitted, while no other one is; or None

bucket == <<present, tokens, short, last, touched>>
history == <<used, first, admitted, regained, due>>
vars == <<time, ahead, sent, bucket, history>>

Requests == Pods \X Slots

TypeOK ==
  /\ time \in Nat
  /\ ahead \in [Pods -> 0..MaxSkew]
  /\ sent \in [Requests -> Nat \cup {None}]
  /\ present \in BOOLEAN /\ short \in BOOLEAN /\ used \in BOOLEAN
  /\ tokens \in 0..Capacity
  /\ last \in Nat /\ touched \in Nat /\ first \in Nat
  /\ admitted \in Nat /\ regained \in Nat
  /\ due \in Nat \cup {None}

Init ==
  /\ time = 0
  /\ ahead \in [Pods -> 0..MaxSkew]
  /\ sent = [q \in Requests |-> None]
  /\ present = FALSE /\ tokens = 0 /\ short = FALSE /\ last = 0 /\ touched = 0
  /\ used = FALSE /\ first = 0 /\ admitted = 0 /\ regained = 0 /\ due = None

-----------------------------------------------------------------------------
(* The time a request carries: its process's clock when it left.           *)
Now(q) == sent[q] + ahead[q[1]]

Send(q) ==
  /\ sent[q] = None
  /\ sent' = [sent EXCEPT ![q] = time]
  /\ UNCHANGED <<time, ahead, bucket, history>>

(* One connection per process: its scripts run in the order they were sent.*)
Oldest(q) ==
  /\ sent[q] # None
  /\ \A r \in Requests : r[1] = q[1] /\ sent[r] # None => sent[q] <= sent[r]

(* The script.  A clock behind the last one refills nothing, a bucket      *)
(* without a key is full, and a full bucket stays at its capacity.         *)
Elapsed(q) == IF Now(q) < last THEN 0 ELSE Now(q) - last

Uncapped(n) == n
Capped(n) == IF n > Capacity THEN Capacity ELSE n
Refilled(q) == IF present THEN Capped(tokens + Refill * Elapsed(q)) ELSE Capacity

(* Whether the sum may come out short: a bucket that is full holds exactly *)
(* its capacity, and nothing added leaves the number as it was.            *)
Shortfalls(q) ==
  {s \in BOOLEAN : /\ s => present /\ tokens + Refill * Elapsed(q) <= Capacity
                   /\ present /\ Elapsed(q) = 0 => s = short}

Admits(q, s) == Refilled(q) > Cost \/ (Refilled(q) = Cost /\ ~s)

(* ceil(deficit / refill): a deficit that the refill divides may come out  *)
(* a trifle above the whole number, as one of nothing but the error does.  *)
Wait(q) == (Cost - Refilled(q) + Refill - 1) \div Refill
Waits(q) ==
  {w \in Wait(q)..Wait(q) + 1 :
     w > 0 /\ (w > Wait(q) => (Cost - Refilled(q)) % Refill = 0)}

(* What a refusal stores is what it refilled, fractions included.          *)
KeptWhole(q) == Refilled(q) - (Refilled(q) % Cost)
Kept(q) == Refilled(q)

(* The stored time is the script's own, even if that is earlier.           *)
StampNever(q) == last
Stamp(q) == Now(q)

Earlier(a, b) == IF a = None \/ b < a THEN b ELSE a

Script(q) ==
  /\ present' = TRUE
  /\ last' = Stamp(q) /\ touched' = time
  /\ used' = TRUE
  /\ first' = IF used THEN first ELSE Now(q)
  /\ regained' = IF present /\ Now(q) < last THEN regained + (last - Now(q)) ELSE regained
  /\ \E s \in Shortfalls(q) :
       /\ short' = s
       /\ \/ /\ Admits(q, s) /\ admitted + Cost <= MaxAdmitted
             /\ tokens' = Refilled(q) - Cost
             /\ admitted' = admitted + Cost
             /\ due' = None
          \/ /\ ~Admits(q, s)
             /\ tokens' = Kept(q)
             /\ \E w \in Waits(q) : due' = Earlier(due, Now(q) + w)
             /\ UNCHANGED admitted

Check(q) ==
  /\ Oldest(q)
  /\ Script(q)
  /\ sent' = [sent EXCEPT ![q] = None]
  /\ UNCHANGED <<time, ahead>>

(* The reply is lost and ioredis sends the script again.                   *)
CheckResent(q) ==
  /\ Oldest(q)
  /\ Script(q)
  /\ UNCHANGED <<time, ahead, sent>>

(* Without a reply the request is let through.                             *)
FailOpen(q) ==
  /\ sent[q] # None
  /\ sent' = [sent EXCEPT ![q] = None]
  /\ UNCHANGED <<time, ahead, bucket, history>>

-----------------------------------------------------------------------------
Expire ==
  /\ present /\ time >= touched + Ttl
  /\ present' = FALSE
  /\ UNCHANGED <<time, ahead, sent, tokens, short, last, touched, history>>

Tick ==
  /\ time < MaxTime
  /\ \A q \in Requests : sent[q] # None => time < sent[q] + MaxDelay
  /\ time' = time + 1
  /\ UNCHANGED <<ahead, sent, bucket, history>>

Next ==
  \/ \E q \in Requests : Send(q) \/ Check(q) \/ CheckResent(q) \/ FailOpen(q)
  \/ Expire
  \/ Tick

Spec == Init /\ [][Next]_vars

-----------------------------------------------------------------------------
(* The bucket admits no more than a full bucket and what was refilled      *)
(* since the first request, plus the refill of the time that slower clocks *)
(* and late scripts moved back: with clocks that agree, exactly the rate;  *)
(* an expired key costs nothing, thanks to the margin in its TTL.          *)
WithinRate == used => admitted <= Capacity + Refill * (last - first + regained)

(* A request that was refused and told to wait is admitted by a script with*)
(* a time after the promised one, unless another was admitted first,       *)
(* whatever other refused requests and slower clocks did to the bucket.    *)
(* At the promised time itself it may find the sum a trifle short, and is  *)
(* then told to wait one tick more.                                        *)
RetryAfterNearlySuffices ==
  [][\A q \in Requests :
       due # None /\ sent[q] # None /\ Now(q) > due /\ (Check(q) \/ CheckResent(q))
         => admitted' = admitted + Cost]_vars

(* The inductive invariant.  Times that travel are neither early nor old,  *)
InTransit ==
  \A q \in Requests : sent[q] # None => sent[q] <= time /\ time <= sent[q] + MaxDelay

(* the last script's time and Redis's agree up to the skew, and a key that *)
(* is gone was idle for its whole TTL,                                     *)
Idle ==
  /\ touched <= time
  /\ last <= touched + MaxSkew
  /\ used /\ ~present => time >= touched + Ttl
  /\ present => used

(* what was admitted and what is left never exceed what was put in,        *)
Balance ==
  /\ used => admitted + tokens <= Capacity + Refill * (last - first + regained)
  /\ ~used => admitted = 0 /\ regained = 0 /\ due = None

(* and by the time promised to a request its tokens are there, but for the *)
(* error of the sum.                                                       *)
Promise == due # None /\ present => tokens + Refill * (due - last) >= Cost

IInv ==
  /\ TypeOK
  /\ InTransit
  /\ Idle
  /\ Balance
  /\ Promise

=============================================================================
