--------------------------- MODULE RateLimitProofs ---------------------------
(***************************************************************************)
(* Theorems about the token bucket for any capacity, cost, refill, number  *)
(* of processes, disagreement of their clocks and delay.                   *)
(***************************************************************************)
EXTENDS RateLimit, TLAPS

-----------------------------------------------------------------------------
(* Arithmetic.                                                             *)

LEMMA Sum == \A a, b \in Int : Refill * (a + b) = Refill * a + Refill * b
BY RateAssumption, SMT

LEMMA Product == \A a \in Int : Refill * a \in Int
BY RateAssumption, SMT

LEMMA Grows == \A a, b \in Int : a <= b => Refill * a <= Refill * b
<1> SUFFICES ASSUME NEW a \in Int, NEW b \in Int, a <= b PROVE Refill * a <= Refill * b
  OBVIOUS
<1>1. b - a \in Nat /\ Refill \in Nat
  BY RateAssumption
<1>2. Refill * (b - a) >= 0
  BY <1>1, SMT
<1>3. Refill * (a + (b - a)) = Refill * a + Refill * (b - a)
  BY Sum
<1>4. a + (b - a) = b
  OBVIOUS
<1> QED BY <1>2, <1>3, <1>4, Product, RateAssumption, SMT

(* Rounded up, the wait refills the deficit.                               *)
LEMMA RoundedUp ==
  ASSUME NEW d \in Nat
  PROVE  LET w == (d + Refill - 1) \div Refill IN w \in Nat /\ Refill * w >= d
<1> DEFINE w == (d + Refill - 1) \div Refill
<1>1. Refill \in Nat /\ Refill > 0 /\ d + Refill - 1 \in Nat
  BY RateAssumption
<1>2. w \in Int /\ w >= 0
  BY <1>1, SMT
<1>3. d + Refill - 1 < Refill * w + Refill
  BY <1>1, SMT
<1> QED BY <1>1, <1>2, <1>3, Product, SMT

-----------------------------------------------------------------------------
(* A request under way.                                                    *)

LEMMA TimeCarried ==
  ASSUME TypeOK, NEW q \in Requests, sent[q] # None
  PROVE  /\ sent[q] \in Nat /\ ahead[q[1]] \in 0..MaxSkew /\ Now(q) \in Nat
         /\ Elapsed(q) \in Nat /\ Refilled(q) \in 0..Capacity
<1>1. sent[q] \in Nat
  BY DEF TypeOK
<1>2. ahead[q[1]] \in 0..MaxSkew
  BY DEF TypeOK, Requests
<1>3. Now(q) \in Nat /\ Elapsed(q) \in Nat
  BY <1>1, <1>2, RateAssumption DEF Now, Elapsed, TypeOK
<1>4. Refill * Elapsed(q) \in Nat
  BY <1>3, RateAssumption, SMT
<1>5. Refilled(q) \in 0..Capacity
  BY <1>4, RateAssumption DEF Refilled, Capped, TypeOK
<1> QED BY <1>1, <1>2, <1>3, <1>5

(* A script that admits had the tokens, one that refuses had not more.     *)
LEMMA Verdict ==
  ASSUME TypeOK, NEW q \in Requests, sent[q] # None, NEW s
  PROVE  /\ Admits(q, s) => Refilled(q) >= Cost
         /\ ~Admits(q, s) => Refilled(q) <= Cost
BY TimeCarried, RateAssumption DEF Admits

(* Every wait a refusal may answer refills the deficit.                    *)
LEMMA RefusalWaits ==
  ASSUME NEW q, Refilled(q) \in Nat, Refilled(q) <= Cost, NEW w \in Waits(q)
  PROVE  w \in Nat /\ Refill * w >= Cost - Refilled(q)
<1>1. Cost - Refilled(q) \in Nat
  BY RateAssumption
<1>2. Wait(q) \in Nat /\ Refill * Wait(q) >= Cost - Refilled(q)
  BY <1>1, RoundedUp DEF Wait
<1>3. w \in Nat /\ Wait(q) <= w
  BY <1>2 DEF Waits
<1>4. Refill * Wait(q) <= Refill * w
  BY <1>2, <1>3, Grows
<1> QED BY <1>1, <1>2, <1>3, <1>4, Product

(* What a script leaves in the bucket, when it admits and when it refuses. *)
Runs(q) ==
  /\ sent[q] # None
  /\ Script(q)
  /\ sent' \in [Requests -> Nat \cup {None}]
  /\ \A r \in Requests : sent'[r] # None => sent'[r] = sent[r]
  /\ UNCHANGED <<time, ahead>>

LEMMA CheckRuns ==
  ASSUME TypeOK, NEW q \in Requests, Check(q) \/ CheckResent(q)
  PROVE  Runs(q)
<1>1. CASE Check(q)
  BY <1>1 DEF Check, Oldest, Runs, TypeOK
<1>2. CASE CheckResent(q)
  BY <1>2 DEF CheckResent, Oldest, Runs, TypeOK
<1> QED BY <1>1, <1>2

LEMMA TypeInit == Init => TypeOK
<1> SUFFICES ASSUME Init PROVE TypeOK
  OBVIOUS
<1>1. tokens \in 0..Capacity /\ time \in Nat /\ last \in Nat /\ touched \in Nat
      /\ first \in Nat /\ admitted \in Nat /\ regained \in Nat
  BY RateAssumption DEF Init
<1>2. sent \in [Requests -> Nat \cup {None}] /\ ahead \in [Pods -> 0..MaxSkew]
  BY DEF Init
<1>3. present \in BOOLEAN /\ short \in BOOLEAN /\ used \in BOOLEAN /\ due \in Nat \cup {None}
  BY DEF Init
<1> QED BY <1>1, <1>2, <1>3 DEF TypeOK

LEMMA ScriptType ==
  ASSUME TypeOK, NEW q \in Requests, Runs(q)
  PROVE  TypeOK'
<1>1. Now(q) \in Nat /\ Refilled(q) \in 0..Capacity
  BY TimeCarried DEF Runs
<1>2. regained' \in Nat /\ short' \in BOOLEAN
  BY <1>1 DEF Runs, Script, Shortfalls, TypeOK
<1>3. CASE /\ Refilled(q) >= Cost /\ admitted' = admitted + Cost
           /\ tokens' = Refilled(q) - Cost /\ due' = None
  <2>1. tokens' \in 0..Capacity /\ admitted' \in Nat
    BY <1>1, <1>3, RateAssumption DEF TypeOK
  <2> QED BY <1>1, <1>2, <1>3, <2>1 DEF TypeOK, Runs, Script, Stamp
<1>4. ASSUME NEW w \in Waits(q), Refilled(q) <= Cost, tokens' = Kept(q), admitted' = admitted,
             due' = Earlier(due, Now(q) + w)
      PROVE  TypeOK'
  <2>1. w \in Nat
    BY <1>1, <1>4, RefusalWaits
  <2>2. due' \in Nat \cup {None}
    BY <1>1, <1>4, <2>1 DEF Earlier, TypeOK
  <2> QED BY <1>1, <1>2, <1>4, <2>2 DEF TypeOK, Runs, Script, Stamp, Kept
<1> QED BY <1>1, <1>3, <1>4, Verdict, RateAssumption DEF Runs, Script

LEMMA TypeStep == TypeOK /\ [Next]_vars => TypeOK'
<1> SUFFICES ASSUME TypeOK, [Next]_vars PROVE TypeOK'
  OBVIOUS
<1>1. ASSUME NEW q \in Requests, Send(q) \/ FailOpen(q) PROVE TypeOK'
  BY <1>1 DEF Send, FailOpen, TypeOK, bucket, history
<1>2. ASSUME NEW q \in Requests, Check(q) \/ CheckResent(q) PROVE TypeOK'
  BY <1>2, CheckRuns, ScriptType
<1>3. CASE Expire
  BY <1>3 DEF Expire, TypeOK, history
<1>4. CASE Tick
  BY <1>4 DEF Tick, TypeOK, bucket, history
<1>5. CASE UNCHANGED vars
  BY <1>5 DEF vars, TypeOK, bucket, history
<1> QED BY <1>1, <1>2, <1>3, <1>4, <1>5 DEF Next

-----------------------------------------------------------------------------
LEMMA InvInit == Init => IInv
BY TypeInit, RateAssumption DEF Init, IInv, InTransit, Idle, Balance, Promise, TypeOK

LEMMA TransitStep ==
  ASSUME TypeOK, InTransit, [Next]_vars
  PROVE  InTransit'
<1> USE DEF InTransit, TypeOK
<1>1. ASSUME NEW q \in Requests, Send(q) \/ FailOpen(q) PROVE InTransit'
  BY <1>1, RateAssumption DEF Send, FailOpen
<1>2. ASSUME NEW q \in Requests, Check(q) \/ CheckResent(q) PROVE InTransit'
  <2>1. Runs(q)
    BY <1>2, CheckRuns
  <2> QED BY <2>1 DEF Runs
<1>3. CASE Expire
  BY <1>3 DEF Expire
<1>4. CASE Tick
  BY <1>4, RateAssumption DEF Tick
<1>5. CASE UNCHANGED vars
  BY <1>5 DEF vars
<1> QED BY <1>1, <1>2, <1>3, <1>4, <1>5 DEF Next

LEMMA IdleStep ==
  ASSUME TypeOK, InTransit, Idle, [Next]_vars
  PROVE  Idle'
<1> USE DEF Idle, TypeOK
<1>1. ASSUME NEW q \in Requests, Send(q) \/ FailOpen(q) PROVE Idle'
  BY <1>1 DEF Send, FailOpen, bucket, history
<1>2. ASSUME NEW q \in Requests, Check(q) \/ CheckResent(q) PROVE Idle'
  <2>1. Runs(q)
    BY <1>2, CheckRuns
  <2>2. Now(q) <= time + MaxSkew
    BY <2>1, TimeCarried, RateAssumption DEF Runs, InTransit, Now
  <2> QED BY <2>1, <2>2 DEF Runs, Script, Stamp
<1>3. CASE Expire
  BY <1>3 DEF Expire, history
<1>4. CASE Tick
  BY <1>4, RateAssumption DEF Tick, bucket, history
<1>5. CASE UNCHANGED vars
  BY <1>5 DEF vars, bucket, history
<1> QED BY <1>1, <1>2, <1>3, <1>4, <1>5 DEF Next

(* A key that is gone was idle longer than it takes to fill the bucket, by *)
(* the time of every script on its way.                                    *)
LEMMA GoneIsFull ==
  ASSUME TypeOK, InTransit, Idle, NEW q \in Requests, sent[q] # None, used, ~present
  PROVE  Now(q) >= last + FullTime
BY TimeCarried, RateAssumption DEF InTransit, Idle, TypeOK, Now

(* The budget after a script, before a cost is taken.                      *)
LEMMA Refills ==
  ASSUME TypeOK, InTransit, Idle, Balance, NEW q \in Requests, Runs(q)
  PROVE  admitted + Refilled(q) <= Capacity + Refill * (last' - first' + regained')
<1> DEFINE put == last - first + regained
<1>1. Now(q) \in Nat /\ Refilled(q) \in 0..Capacity /\ Elapsed(q) \in Nat
  BY TimeCarried DEF Runs
<1>2. last' = Now(q) /\ sent[q] # None /\ put \in Int
  BY DEF Runs, Script, Stamp, TypeOK
<1>3. CASE ~used
  <2>1. admitted = 0 /\ ~present /\ first' = Now(q) /\ regained' = 0
    BY <1>3 DEF Balance, Idle, Runs, Script
  <2>2. last' - first' + regained' = 0
    BY <1>1, <1>2, <2>1
  <2>3. Refill * 0 = 0
    BY RateAssumption, SMT
  <2> QED BY <2>1, <2>2, <2>3, RateAssumption DEF Refilled
<1>4. CASE used /\ ~present
  <2>1. Now(q) >= last + FullTime /\ first' = first /\ regained' = regained
    BY <1>2, <1>4, GoneIsFull DEF Runs, Script
  <2>2. FullTime + put \in Int /\ FullTime + put <= last' - first' + regained'
    BY <1>1, <1>2, <2>1, RateAssumption DEF TypeOK
  <2>3. last' - first' + regained' \in Int
    BY <1>1, <1>2, <2>1 DEF TypeOK
  <2>4. Refill * (FullTime + put) <= Refill * (last' - first' + regained')
    BY <2>2, <2>3, Grows
  <2>5. Refill * (FullTime + put) = Refill * FullTime + Refill * put
    BY <1>2, Sum, RateAssumption
  <2>6. admitted <= Capacity + Refill * put
    BY <1>2, <1>4, Product, RateAssumption DEF Balance, TypeOK
  <2>7. Refill * put \in Int /\ Refill * FullTime \in Int /\ Refill * (FullTime + put) \in Int
        /\ Refill * (last' - first' + regained') \in Int
    BY <1>2, <2>2, <2>3, Product, RateAssumption
  <2>8. Refilled(q) = Capacity /\ Refill * FullTime >= Capacity
    BY <1>4, RateAssumption DEF Refilled
  <2> HIDE DEF put
  <2> QED BY <2>4, <2>5, <2>6, <2>7, <2>8, RateAssumption DEF TypeOK
<1>5. CASE used /\ present
  <2>1. last' - first' + regained' = put + Elapsed(q)
    BY <1>1, <1>2, <1>5 DEF Runs, Script, Elapsed, TypeOK
  <2>2. Refill * (put + Elapsed(q)) = Refill * put + Refill * Elapsed(q)
    BY <1>1, <1>2, Sum
  <2>3. Refill * put \in Int /\ Refill * Elapsed(q) \in Int
    BY <1>1, <1>2, Product
  <2>4. Refilled(q) <= tokens + Refill * Elapsed(q)
    BY <1>5, <2>3, RateAssumption DEF Refilled, Capped, TypeOK
  <2>5. admitted + tokens <= Capacity + Refill * put
    BY <1>5 DEF Balance
  <2> HIDE DEF put
  <2> QED BY <1>1, <2>1, <2>2, <2>3, <2>4, <2>5, RateAssumption DEF TypeOK
<1> QED BY <1>3, <1>4, <1>5

LEMMA BalanceStep ==
  ASSUME TypeOK, InTransit, Idle, Balance, [Next]_vars
  PROVE  Balance'
<1> USE DEF Balance
<1>1. ASSUME NEW q \in Requests, Send(q) \/ FailOpen(q) PROVE Balance'
  BY <1>1 DEF Send, FailOpen, bucket, history
<1>2. ASSUME NEW q \in Requests, Check(q) \/ CheckResent(q) PROVE Balance'
  <2>1. Runs(q)
    BY <1>2, CheckRuns
  <2>2. Refilled(q) \in 0..Capacity
    BY <2>1, TimeCarried DEF Runs
  <2>3. admitted + Refilled(q) <= Capacity + Refill * (last' - first' + regained')
    BY <2>1, Refills
  <2>4. admitted' + tokens' = admitted + Refilled(q)
    BY <2>1, <2>2, RateAssumption DEF Runs, Script, Kept, TypeOK
  <2> QED BY <2>1, <2>3, <2>4 DEF Runs, Script
<1>3. CASE Expire
  BY <1>3 DEF Expire, history
<1>4. CASE Tick
  BY <1>4 DEF Tick, bucket, history
<1>5. CASE UNCHANGED vars
  BY <1>5 DEF vars, bucket, history
<1> QED BY <1>1, <1>2, <1>3, <1>4, <1>5 DEF Next

(* A promise outlives every script that refuses.                           *)
LEMMA Refused ==
  ASSUME TypeOK, Promise, NEW q \in Requests, Runs(q), NEW s \in Shortfalls(q), ~Admits(q, s),
         NEW w \in Waits(q), tokens' = Kept(q), due' = Earlier(due, Now(q) + w)
  PROVE  Promise'
<1>1. Now(q) \in Nat /\ Refilled(q) \in 0..Capacity /\ Elapsed(q) \in Nat
  BY TimeCarried DEF Runs
<1>2. present /\ Refilled(q) = tokens + Refill * Elapsed(q) /\ Refilled(q) <= Cost
  BY <1>1, Product, RateAssumption DEF Admits, Shortfalls, Refilled, Capped, TypeOK
<1>3. last' = Now(q) /\ tokens' = Refilled(q)
  BY DEF Runs, Script, Stamp, Kept
<1>4. w \in Nat /\ Refill * w >= Cost - Refilled(q)
  BY <1>1, <1>2, RefusalWaits
<1>5. CASE due' = Now(q) + w
  <2>1. due' - last' = w
    BY <1>1, <1>3, <1>4, <1>5
  <2> QED BY <1>1, <1>3, <1>4, <2>1, Product, RateAssumption DEF Promise
<1>6. CASE due' = due /\ due # None
  <2>1. due \in Nat /\ tokens + Refill * (due - last) >= Cost
    BY <1>2, <1>6 DEF Promise, TypeOK
  <2>2. due - last = (due - Now(q)) + (Now(q) - last)
    BY <1>1, <2>1 DEF TypeOK
  <2>3. Refill * (due - last) = Refill * (due - Now(q)) + Refill * (Now(q) - last)
    BY <1>1, <2>1, <2>2, Sum DEF TypeOK
  <2>4. Refill * Elapsed(q) >= Refill * (Now(q) - last)
    BY <1>1, Grows DEF Elapsed, TypeOK
  <2>5. /\ Refill * (due - last) \in Int /\ Refill * (due - Now(q)) \in Int
        /\ Refill * (Now(q) - last) \in Int /\ Refill * Elapsed(q) \in Int
    BY <1>1, <2>1, Product DEF TypeOK
  <2>6. tokens + Refill * Elapsed(q) + Refill * (due - Now(q)) >= Cost
    BY <2>1, <2>3, <2>4, <2>5, RateAssumption DEF TypeOK
  <2> QED BY <1>2, <1>3, <1>6, <2>6 DEF Promise
<1> QED BY <1>5, <1>6 DEF Earlier

LEMMA PromiseStep ==
  ASSUME TypeOK, Promise, [Next]_vars
  PROVE  Promise'
<1>1. ASSUME NEW q \in Requests, Send(q) \/ FailOpen(q) PROVE Promise'
  BY <1>1 DEF Send, FailOpen, Promise, bucket, history
<1>2. ASSUME NEW q \in Requests, Check(q) \/ CheckResent(q) PROVE Promise'
  <2>1. Runs(q)
    BY <1>2, CheckRuns
  <2>2. CASE due' = None
    BY <2>2 DEF Promise
  <2>3. ASSUME NEW s \in Shortfalls(q), ~Admits(q, s), NEW w \in Waits(q),
               tokens' = Kept(q), due' = Earlier(due, Now(q) + w)
        PROVE  Promise'
    BY <2>1, <2>3, Refused
  <2> QED BY <2>1, <2>2, <2>3 DEF Runs, Script
<1>3. CASE Expire
  BY <1>3 DEF Expire, Promise
<1>4. CASE Tick
  BY <1>4 DEF Tick, Promise, bucket, history
<1>5. CASE UNCHANGED vars
  BY <1>5 DEF vars, Promise, bucket, history
<1> QED BY <1>1, <1>2, <1>3, <1>4, <1>5 DEF Next

(* After the promised time a request finds its tokens, and a tick's refill *)
(* more, however short the sum.                                            *)
LEMMA Promised ==
  ASSUME TypeOK, Promise, NEW q \in Requests, Runs(q), due # None, Now(q) > due,
         NEW s \in Shortfalls(q)
  PROVE  Admits(q, s)
<1>1. Now(q) \in Nat /\ Refilled(q) \in 0..Capacity /\ Elapsed(q) \in Nat /\ due \in Nat
  BY TimeCarried DEF Runs, TypeOK
<1>2. CASE ~present
  BY <1>2, RateAssumption DEF Admits, Refilled, Shortfalls
<1>3. CASE present
  <2>1. (due - last) + 1 <= Elapsed(q)
    BY <1>1 DEF Elapsed, TypeOK
  <2>2. Refill * ((due - last) + 1) <= Refill * Elapsed(q)
    BY <1>1, <2>1, Grows DEF TypeOK
  <2>3. Refill * ((due - last) + 1) = Refill * (due - last) + Refill
    BY <1>1, Sum, RateAssumption, SMT DEF TypeOK
  <2>4. Refill * (due - last) \in Int /\ Refill * Elapsed(q) \in Nat
    BY <1>1, Product, RateAssumption, SMT DEF TypeOK
  <2>5. tokens + Refill * Elapsed(q) > Cost
    BY <1>3, <2>2, <2>3, <2>4, RateAssumption DEF Promise, TypeOK
  <2> QED BY <1>3, <2>4, <2>5, RateAssumption DEF Admits, Refilled, Capped, Shortfalls, TypeOK
<1> QED BY <1>2, <1>3

-----------------------------------------------------------------------------
(* The inductive invariant, for any capacity, clocks and delays within the *)
(* margin of the TTL.                                                      *)
THEOREM Invariant == Spec => []IInv
<1>1. IInv /\ [Next]_vars => IInv'
  BY TypeStep, TransitStep, IdleStep, BalanceStep, PromiseStep DEF IInv
<1> QED BY <1>1, InvInit, PTL DEF Spec

(* The bucket admits at most its capacity, its refill, and the refill of   *)
(* the time that its clock was moved back.                                 *)
THEOREM RateHolds == Spec => []WithinRate
<1>1. IInv => WithinRate
  <2> SUFFICES ASSUME IInv, used
               PROVE  admitted <= Capacity + Refill * (last - first + regained)
    BY DEF WithinRate
  <2>1. last - first + regained \in Int
    BY DEF IInv, TypeOK
  <2>2. Refill * (last - first + regained) \in Int
    BY <2>1, Product
  <2> QED BY <2>2, RateAssumption DEF IInv, TypeOK, Balance
<1> QED BY <1>1, Invariant, PTL

(* Whoever waits a tick longer than he was told is admitted, unless        *)
(* another was admitted before him.                                        *)
THEOREM PromiseKept == Spec => RetryAfterNearlySuffices
<1>1. ASSUME IInv, NEW q \in Requests, due # None, Now(q) > due, Check(q) \/ CheckResent(q)
      PROVE  admitted' = admitted + Cost
  <2>1. Runs(q)
    BY <1>1, CheckRuns DEF IInv
  <2>2. \A s \in Shortfalls(q) : Admits(q, s)
    BY <1>1, <2>1, Promised DEF IInv
  <2> QED BY <2>1, <2>2 DEF Runs, Script
<1>2. IInv => [\A q \in Requests :
                 due # None /\ sent[q] # None /\ Now(q) > due /\ (Check(q) \/ CheckResent(q))
                   => admitted' = admitted + Cost]_vars
  BY <1>1
<1> QED BY <1>2, Invariant, PTL DEF RetryAfterNearlySuffices

=============================================================================
