---------------------------- MODULE PaymentProofs ----------------------------
(***************************************************************************)
(* How often an order is charged, and what becomes of one that cannot be:  *)
(* theorems for any number of orders and workers, any attempts and stall   *)
(* limit.  Each names the troubles it excludes, if any.                    *)
(***************************************************************************)
EXTENDS OrderPipelineProofs, FiniteSets, FiniteSetTheorems

LockKept == "lock_lost" \notin Troubles

(* The troubles after which a second charge is possible, a compensation of *)
(* a charged order, or an order that stays pending for ever: a lock that is*)
(* lost, a Mongo call that throws without effect, a worker that dies.  A   *)
(* write that throws although it applied is not among them.                *)
Attended == Troubles \cap {"lock_lost", "mongo_error", "worker_crash"} = {}

(* The troubles after which the units of a failed order may stay away.     *)
Answered == Troubles \cap {"ambiguous_write", "worker_crash"} = {}

Payment(o) == <<"process", o>>
Handling == {"gate", "save", "charge", "set", "hand_on", "thrown", "done"}

(* One delivery at a time: who handles the payment holds its lock.         *)
Solo(o) ==
  /\ job[Payment(o)] # "active" => lock[Payment(o)] = NoLock
  /\ \A w \in Workers : at[<<w, Payment(o)>>] \in Handling => lock[Payment(o)] = w

(* The number an attempt was given is stored before it charges.            *)
Recorded(o) ==
  /\ charges[o] <= tries[o]
  /\ \A w \in Workers :
       /\ at[<<w, Payment(o)>>] = "save" => read[<<w, o>>] = tries[o]
       /\ at[<<w, Payment(o)>>] = "charge" => charges[o] < tries[o]

PayInv == TypeOK /\ \A o \in Orders : Solo(o) /\ Recorded(o)

(* Attended, a charged order is pending only until its handler, the only   *)
(* one, sets it paid; and a compensation follows the last delivery.        *)
Charged(o) ==
  /\ charges[o] <= 1
  /\ charges[o] > 0 /\ status[o] \in {"none", "pending", "failed"} =>
       \E w \in Workers : at[<<w, Payment(o)>>] = "set"
  /\ \A w \in Workers :
       /\ at[<<w, Payment(o)>>] \in {"save", "charge", "set"} => status[o] = "pending"
       /\ at[<<w, Payment(o)>>] = "charge" => charges[o] = 0
       /\ at[<<w, Payment(o)>>] \in {"compensate", "give_back"} => job[Payment(o)] = "failed"

OnceInv == PayInv /\ \A o \in Orders : Charged(o)

-----------------------------------------------------------------------------
(* What a step leaves alone of an order's payment: all of it, unless the   *)
(* step is one of the payment's own job.                                   *)

Delivery(o) == Solo(o) /\ Recorded(o)

SameJob(o) ==
  LET j == Payment(o) IN
  job'[j] = job[j] /\ made'[j] = made[j] /\ stalls'[j] = stalls[j] /\ lock'[j] = lock[j]

SameBooks(o) ==
  /\ tries'[o] = tries[o] /\ charges'[o] = charges[o]
  /\ \A w \in Workers : read'[<<w, o>>] = read[<<w, o>>]

SamePlaces(o) == \A w \in Workers : at'[<<w, Payment(o)>>] = at[<<w, Payment(o)>>]

Still(o) == SameJob(o) /\ SameBooks(o) /\ SamePlaces(o)

Moves(w, o, p) ==
  \A v \in Workers : at'[<<v, Payment(o)>>] = IF v = w THEN p ELSE at[<<v, Payment(o)>>]

LEMMA PaymentType ==
  ASSUME TypeOK, NEW o \in Orders
  PROVE  /\ Payment(o) \in Jobs
         /\ job[Payment(o)] \in JobStates
         /\ made[Payment(o)] \in Nat /\ stalls[Payment(o)] \in Nat
         /\ lock[Payment(o)] \in Workers \cup {NoLock}
         /\ tries[o] \in Nat /\ charges[o] \in Nat
         /\ \A w \in Workers : read[<<w, o>>] \in Nat /\ at[<<w, Payment(o)>>] \in Places
BY JobFacts DEF TypeOK, Payment

LEMMA GotoMoves ==
  ASSUME TypeOK, NEW o \in Orders, NEW w \in Workers, NEW j \in Jobs, NEW p, Goto(w, j, p)
  PROVE  /\ j = Payment(o) => Moves(w, o, p)
         /\ j # Payment(o) => SamePlaces(o)
BY GotoEffect DEF Moves, SamePlaces, Payment

LEMMA StillStep ==
  ASSUME NEW o \in Orders, Delivery(o), Still(o)
  PROVE  Delivery(o)'
BY DEF Delivery, Solo, Recorded, Still, SameJob, SameBooks, SamePlaces, Payment

LEMMA Elsewhere ==
  ASSUME TypeOK, NEW o \in Orders, NEW j \in Jobs, j # Payment(o), NEW w \in Workers,
         Take(w, j) \/ FailStalled(w, j) \/ Run(w, j) \/ Throw(w, j)
  PROVE  Still(o)
<1> USE JobFacts, PaymentType
<1>1. CASE Take(w, j)
  BY <1>1, GotoMoves DEF Take, docs, Still, SameJob, SameBooks, TypeOK
<1>2. CASE FailStalled(w, j)
  BY <1>2, GotoMoves DEF FailStalled, docs, Still, SameJob, SameBooks, TypeOK
<1>3. CASE AttemptFails(w, j)
  <2>1. PICK p \in {"compensate", "off"} : Goto(w, j, p)
    BY <1>3 DEF AttemptFails
  <2>2. SamePlaces(o)
    BY <2>1, GotoMoves
  <2> QED BY <1>3, <2>2 DEF AttemptFails, docs, Still, SameJob, SameBooks, TypeOK
<1>4. CASE Complete(w, j)
  BY <1>4, GotoMoves DEF Complete, docs, Still, SameJob, SameBooks, TypeOK
<1>5. CASE Gate(w, j)
  <2>1. SamePlaces(o)
    BY <1>5, GotoMoves DEF Gate
  <2>2. SameBooks(o)
    BY <1>5 DEF Gate, docs, SameBooks, TypeOK, Payment
  <2> QED BY <1>5, <2>1, <2>2 DEF Gate, queue, Still, SameJob
<1>6. CASE SetStatus(w, j)
  BY <1>6, GotoMoves DEF SetStatus, queue, Still, SameJob, SameBooks
<1>7. CASE HandOn(w, j)
  <2>1. Payment(o) \notin NextJob(j)
    BY DEF NextJob, Payment
  <2> QED BY <1>7, <2>1, GotoMoves DEF HandOn, docs, Still, SameJob, SameBooks
<1>8. CASE Throw(w, j)
  BY <1>8, GotoMoves DEF Throw, docs, queue, Still, SameJob, SameBooks
<1> QED BY <1>1, <1>2, <1>3, <1>4, <1>5, <1>6, <1>7, <1>8 DEF Run

LEMMA PayElsewhere ==
  ASSUME TypeOK, NEW o \in Orders, NEW x \in Orders, x # o, NEW w \in Workers, Pay(w, x)
  PROVE  Still(o)
<1> USE JobFacts, PaymentType
<1>0. <<"process", x>> # Payment(o)
  BY DEF Payment
<1>1. CASE SaveAttempt(w, x)
  <2>1. SamePlaces(o)
    BY <1>0, <1>1, GotoMoves DEF SaveAttempt
  <2> QED BY <1>1, <2>1 DEF SaveAttempt, queue, Still, SameJob, SameBooks, TypeOK
<1>2. CASE ChargePayment(w, x)
  <2>1. SamePlaces(o)
    BY <1>0, <1>2, GotoMoves DEF ChargePayment, Declined
  <2> QED BY <1>2, <2>1 DEF ChargePayment, docs, queue, Still, SameJob, SameBooks, TypeOK
<1>3. CASE Compensate(w, x)
  <2>1. SamePlaces(o)
    BY <1>0, <1>3, GotoMoves DEF Compensate
  <2> QED BY <1>3, <2>1 DEF Compensate, queue, Still, SameJob, SameBooks
<1>4. CASE GiveBack(w, x)
  BY <1>0, <1>4, GotoMoves DEF GiveBack, docs, queue, Still, SameJob, SameBooks
<1> QED BY <1>1, <1>2, <1>3, <1>4 DEF Pay

-----------------------------------------------------------------------------
(* How often an order is charged at most, whatever fails: deliveries may   *)
(* overlap, but each of them was counted, as an attempt or as a stall.     *)

(* The handlers that may still charge o,                                   *)
Before == {"gate", "save", "charge"}
Uncharged(o) == {w \in Workers : at[<<w, Payment(o)>>] \in Before}

(* the charges made and to be expected, and the deliveries that account    *)
(* for them.                                                               *)
Spent(o) == charges[o] + Cardinality(Uncharged(o))

Tallied(o) ==
  LET j == Payment(o) IN
  /\ IsFiniteSet(Uncharged(o))
  /\ job[j] # "active" => lock[j] = NoLock
  /\ Spent(o) <= JobAttempts + MaxStalled
  /\ job[j] = "absent" => Spent(o) = 0 /\ made[j] = 0 /\ stalls[j] = 0
  /\ job[j] \in {"waiting", "active"} => made[j] < JobAttempts
  /\ job[j] = "waiting" => stalls[j] <= MaxStalled + 1 /\ Spent(o) <= made[j] + stalls[j]
  /\ job[j] = "active" => stalls[j] <= MaxStalled /\ Spent(o) <= made[j] + stalls[j] + 1

LEMMA SpentType ==
  ASSUME TypeOK, NEW o \in Orders, IsFiniteSet(Uncharged(o))
  PROVE  Spent(o) \in Nat /\ Cardinality(Uncharged(o)) \in Nat
BY FS_CardinalityType DEF Spent, TypeOK

(* One handler moves: the others are where they were.                      *)
LEMMA UnchargedMove ==
  ASSUME NEW o \in Orders, NEW w \in Workers, NEW p, Moves(w, o, p),
         IsFiniteSet(Uncharged(o))
  PROVE  /\ IsFiniteSet(Uncharged(o)')
         /\ Cardinality(Uncharged(o)') =
              IF p \in Before
              THEN IF w \in Uncharged(o) THEN Cardinality(Uncharged(o))
                   ELSE Cardinality(Uncharged(o)) + 1
              ELSE IF w \in Uncharged(o) THEN Cardinality(Uncharged(o)) - 1
                   ELSE Cardinality(Uncharged(o))
<1>1. CASE p \in Before
  <2>1. Uncharged(o)' = Uncharged(o) \cup {w}
    BY <1>1 DEF Moves, Uncharged, Payment
  <2> QED BY <1>1, <2>1, FS_AddElement
<1>2. CASE p \notin Before
  <2>1. Uncharged(o)' = Uncharged(o) \ {w}
    BY <1>2 DEF Moves, Uncharged, Payment
  <2> QED BY <1>2, <2>1, FS_RemoveElement
<1> QED BY <1>1, <1>2

(* A handler that goes on neither charges without being expected to nor    *)
(* becomes one to be expected.                                             *)
LEMMA SpentMove ==
  ASSUME TypeOK, NEW o \in Orders, Tallied(o), NEW w \in Workers, NEW p, Moves(w, o, p),
         \/ charges'[o] = charges[o] /\ (p \notin Before \/ w \in Uncharged(o))
         \/ charges'[o] = charges[o] + 1 /\ p \notin Before /\ w \in Uncharged(o)
  PROVE  IsFiniteSet(Uncharged(o)') /\ Spent(o)' \in Nat /\ Spent(o)' <= Spent(o)
<1> DEFINE n == Cardinality(Uncharged(o))
           m == Cardinality(Uncharged(o)')
<1>1. charges[o] \in Nat /\ IsFiniteSet(Uncharged(o))
  BY DEF TypeOK, Tallied
<1>2. IsFiniteSet(Uncharged(o)') /\ n \in Nat /\ m \in Nat
  BY <1>1, UnchargedMove, FS_CardinalityType
<1>3. /\ charges'[o] = charges[o] => m <= n
      /\ charges'[o] = charges[o] + 1 => m = n - 1
  BY <1>1, <1>2, UnchargedMove
<1>4. Spent(o) = charges[o] + n /\ Spent(o)' = charges'[o] + m
  BY DEF Spent
<1> HIDE DEF n, m
<1> QED BY <1>1, <1>2, <1>3, <1>4

LEMMA TalliedKept ==
  ASSUME TypeOK, NEW o \in Orders, Tallied(o), SameJob(o),
         IsFiniteSet(Uncharged(o)'), Spent(o)' \in Nat, Spent(o)' <= Spent(o)
  PROVE  Tallied(o)'
<1>1. Spent(o) \in Nat
  BY SpentType DEF Tallied
<1>2. /\ Payment(o)' = Payment(o) /\ made[Payment(o)] \in Nat /\ stalls[Payment(o)] \in Nat
  BY PaymentType DEF Payment
<1> QED BY <1>1, <1>2, PipelineAssumption DEF Tallied, SameJob

LEMMA TalliedStill ==
  ASSUME TypeOK, NEW o \in Orders, Tallied(o), Still(o)
  PROVE  Tallied(o)'
<1>1. Uncharged(o)' = Uncharged(o) /\ charges'[o] = charges[o]
  BY DEF Still, SamePlaces, SameBooks, Uncharged, Payment
<1>2. Spent(o)' = Spent(o)
  BY <1>1 DEF Spent
<1>3. Spent(o) \in Nat /\ IsFiniteSet(Uncharged(o))
  BY SpentType DEF Tallied
<1> QED BY <1>1, <1>2, <1>3, TalliedKept DEF Still

(* The steps after which BullMQ has the job elsewhere.                     *)
LEMMA TalliedJob ==
  ASSUME TypeOK, NEW o \in Orders, Tallied(o), NEW w \in Workers,
         \/ Take(w, Payment(o)) \/ FailStalled(w, Payment(o))
         \/ AttemptFails(w, Payment(o)) \/ Complete(w, Payment(o))
  PROVE  Tallied(o)'
<1> DEFINE P == Payment(o)
<1> USE JobFacts, PaymentType, GotoMoves, PipelineAssumption
<1>0. P' = P /\ IsFiniteSet(Uncharged(o)) /\ Spent(o) \in Nat
  BY SpentType DEF Tallied, Payment
<1>1. CASE Take(w, P)
  <2>1. /\ job[P] = "waiting" /\ stalls[P] <= MaxStalled
        /\ job'[P] = "active" /\ Moves(w, o, "gate")
        /\ made'[P] = made[P] /\ stalls'[P] = stalls[P] /\ charges'[o] = charges[o]
    BY <1>1 DEF Take, docs, TypeOK
  <2>2. w \notin Uncharged(o)
    BY <1>1 DEF Take, Uncharged, Before
  <2>3. IsFiniteSet(Uncharged(o)') /\ Spent(o)' = Spent(o) + 1
    BY <1>0, <2>1, <2>2, UnchargedMove, SpentType DEF Spent, Before
  <2>4. Spent(o) <= made[P] + stalls[P] /\ made[P] < JobAttempts
    BY <2>1 DEF Tallied
  <2> QED BY <1>0, <2>1, <2>3, <2>4 DEF Tallied
<1>2. CASE FailStalled(w, P)
  <2>1. PICK p \in {"compensate", "off"} : Moves(w, o, p)
    BY <1>2 DEF FailStalled
  <2>2. /\ job[P] = "waiting" /\ job'[P] = "failed" /\ lock'[P] = lock[P]
        /\ charges'[o] = charges[o]
    BY <1>2 DEF FailStalled, docs, TypeOK
  <2>3. IsFiniteSet(Uncharged(o)') /\ Spent(o)' \in Nat /\ Spent(o)' <= Spent(o)
    BY <2>1, <2>2, SpentMove DEF Before
  <2> QED BY <1>0, <2>2, <2>3 DEF Tallied
<1>3. CASE AttemptFails(w, P)
  <2>1. PICK p \in {"compensate", "off"} : Moves(w, o, p)
    BY <1>3 DEF AttemptFails
  <2>2. stalls'[P] = stalls[P] /\ charges'[o] = charges[o]
    BY <1>3 DEF AttemptFails, docs
  <2>3. IsFiniteSet(Uncharged(o)') /\ Spent(o)' \in Nat /\ Spent(o)' <= Spent(o)
    BY <2>1, <2>2, SpentMove DEF Before
  <2>4. CASE lock[P] = w
    <3>1. job[P] = "active"
      BY <2>4 DEF Tallied
    <3>2. /\ made'[P] = made[P] + 1 /\ lock'[P] = NoLock
          /\ job'[P] = IF made[P] + 1 < JobAttempts THEN "waiting" ELSE "failed"
      BY <1>3, <2>4 DEF AttemptFails, Retries, TypeOK
    <3> QED BY <1>0, <2>2, <2>3, <3>1, <3>2 DEF Tallied
  <2>5. CASE lock[P] # w
    <3>1. SameJob(o)
      BY <1>3, <2>5 DEF AttemptFails, SameJob
    <3> QED BY <2>3, <3>1, TalliedKept
  <2> QED BY <2>4, <2>5
<1>4. CASE Complete(w, P)
  <2>1. Moves(w, o, "off") /\ charges'[o] = charges[o]
    BY <1>4 DEF Complete, docs
  <2>2. IsFiniteSet(Uncharged(o)') /\ Spent(o)' \in Nat /\ Spent(o)' <= Spent(o)
    BY <2>1, SpentMove DEF Before
  <2>3. CASE lock[P] = w
    <3>1. job'[P] = "completed" /\ lock'[P] = NoLock
      BY <1>4, <2>3 DEF Complete, TypeOK
    <3> QED BY <1>0, <2>2, <3>1 DEF Tallied
  <2>4. CASE lock[P] # w
    <3>1. SameJob(o)
      BY <1>4, <2>4 DEF Complete, SameJob
    <3> QED BY <2>2, <3>1, TalliedKept
  <2> QED BY <2>3, <2>4
<1> QED BY <1>1, <1>2, <1>3, <1>4

(* The steps of a handler that leave the job as it is.                     *)
LEMMA TalliedHandler ==
  ASSUME TypeOK, NEW o \in Orders, Tallied(o), NEW w \in Workers,
         \/ Gate(w, Payment(o)) \/ SetStatus(w, Payment(o)) \/ HandOn(w, Payment(o))
         \/ Throw(w, Payment(o)) \/ Pay(w, o)
  PROVE  Tallied(o)'
<1> DEFINE P == Payment(o)
<1> USE JobFacts, PaymentType, GotoMoves
<1>1. CASE Gate(w, P)
  <2>1. PICK p \in {"done", "save"} : Moves(w, o, p)
    BY <1>1 DEF Gate, Payment
  <2>2. w \in Uncharged(o) /\ SameJob(o) /\ charges'[o] = charges[o]
    BY <1>1 DEF Gate, docs, queue, SameJob, Uncharged, Before
  <2> QED BY <2>1, <2>2, SpentMove, TalliedKept
<1>2. CASE SetStatus(w, P) \/ HandOn(w, P) \/ Throw(w, P)
  <2>1. PICK p \in {"hand_on", "thrown", "done"} : Moves(w, o, p)
    BY <1>2 DEF SetStatus, HandOn, Throw
  <2>2. SameJob(o) /\ charges'[o] = charges[o]
    <3>1. Payment(o) \notin NextJob(Payment(o))
      BY DEF NextJob, Payment
    <3> QED BY <1>2, <3>1 DEF SetStatus, HandOn, Throw, docs, queue, SameJob
  <2> QED BY <2>1, <2>2, SpentMove, TalliedKept DEF Before
<1>3. CASE SaveAttempt(w, o)
  <2>1. PICK p \in {"charge", "thrown"} : Moves(w, o, p)
    BY <1>3 DEF SaveAttempt, Payment
  <2>2. w \in Uncharged(o) /\ SameJob(o) /\ charges'[o] = charges[o]
    BY <1>3 DEF SaveAttempt, queue, SameJob, Uncharged, Before, Payment
  <2> QED BY <2>1, <2>2, SpentMove, TalliedKept
<1>4. CASE ChargePayment(w, o)
  <2>1. PICK p \in {"set", "thrown"} : Moves(w, o, p)
    BY <1>4 DEF ChargePayment, Declined, Payment
  <2>2. /\ w \in Uncharged(o) /\ SameJob(o)
        /\ charges'[o] \in {charges[o], charges[o] + 1}
    BY <1>4 DEF ChargePayment, queue, SameJob, Uncharged, Before, Payment, TypeOK
  <2> QED BY <2>1, <2>2, SpentMove, TalliedKept DEF Before
<1>5. CASE Compensate(w, o) \/ GiveBack(w, o)
  <2>1. PICK p \in {"give_back", "off"} : Moves(w, o, p)
    BY <1>5 DEF Compensate, GiveBack, Payment
  <2>2. SameJob(o) /\ charges'[o] = charges[o]
    BY <1>5 DEF Compensate, GiveBack, docs, queue, SameJob
  <2> QED BY <2>1, <2>2, SpentMove, TalliedKept DEF Before
<1> QED BY <1>1, <1>2, <1>3, <1>4, <1>5 DEF Pay

LEMMA TalliedStep ==
  ASSUME TypeOK, [Next]_vars, NEW o \in Orders, Tallied(o)
  PROVE  Tallied(o)'
<1> DEFINE P == Payment(o)
<1> USE JobFacts, PaymentType
<1>0. P' = P /\ IsFiniteSet(Uncharged(o)) /\ Spent(o) \in Nat
  BY SpentType DEF Tallied, Payment
<1>1. ASSUME NEW x \in Orders, Submit(x) PROVE Still(o)
  BY <1>1 DEF Submit, queue, Still, SameJob, SameBooks, SamePlaces
<1>2. ASSUME NEW x \in Orders, EnqueueProcess(x) PROVE Tallied(o)'
  <2>1. CASE x # o
    <3>1. Still(o)
      BY <1>2, <2>1 DEF EnqueueProcess, docs, Still, SameJob, SameBooks, SamePlaces, Payment, TypeOK
    <3> QED BY <3>1, TalliedStill
  <2>2. CASE x = o
    <3>1. /\ job[P] = "absent" /\ job'[P] = "waiting"
          /\ made'[P] = made[P] /\ stalls'[P] = stalls[P] /\ lock'[P] = lock[P]
          /\ charges'[o] = charges[o] /\ SamePlaces(o)
      BY <1>2, <2>2 DEF EnqueueProcess, docs, SamePlaces, Payment, TypeOK
    <3>2. Uncharged(o)' = Uncharged(o) /\ Spent(o)' = Spent(o)
      BY <3>1 DEF Uncharged, Spent, SamePlaces, Payment
    <3> QED BY <1>0, <3>1, <3>2, PipelineAssumption DEF Tallied
  <2> QED BY <2>1, <2>2
<1>3. ASSUME NEW j \in Jobs, Stall(j) PROVE Tallied(o)'
  <2>1. SamePlaces(o) /\ charges'[o] = charges[o]
    BY <1>3 DEF Stall, docs, SamePlaces
  <2>2. Uncharged(o)' = Uncharged(o) /\ Spent(o)' = Spent(o)
    BY <2>1 DEF Uncharged, Spent, SamePlaces, Payment
  <2>3. CASE j # P
    <3>1. SameJob(o)
      BY <1>3, <2>3 DEF Stall, SameJob, TypeOK
    <3> QED BY <1>0, <2>2, <3>1, TalliedKept
  <2>4. CASE j = P
    <3>1. /\ job[P] = "active" /\ job'[P] = "waiting" /\ stalls'[P] = stalls[P] + 1
          /\ made'[P] = made[P] /\ lock'[P] = NoLock
      BY <1>3, <2>4 DEF Stall, TypeOK
    <3> QED BY <1>0, <2>2, <3>1, PipelineAssumption DEF Tallied
  <2> QED BY <2>3, <2>4
<1>4. ASSUME NEW j \in Jobs, NEW w \in Workers,
             Take(w, j) \/ FailStalled(w, j) \/ Run(w, j) \/ Throw(w, j)
      PROVE  Tallied(o)'
  <2>1. CASE j # P
    BY <1>4, <2>1, Elsewhere, TalliedStill
  <2>2. CASE j = P
    BY <1>4, <2>2, TalliedJob, TalliedHandler DEF Run
  <2> QED BY <2>1, <2>2
<1>5. ASSUME NEW w \in Workers, NEW x \in Orders, Pay(w, x) PROVE Tallied(o)'
  BY <1>5, PayElsewhere, TalliedStill, TalliedHandler
<1>6. ASSUME NEW w \in Workers, Crash(w) PROVE Tallied(o)'
  <2>1. SameJob(o) /\ charges'[o] = charges[o]
    BY <1>6 DEF Crash, docs, queue, SameJob
  <2>2. \A v \in Workers : at'[<<v, P>>] \in {at[<<v, P>>], "off"}
    BY <1>6 DEF Crash
  <2>3. Uncharged(o)' \subseteq Uncharged(o)
    BY <2>2 DEF Uncharged, Before, Payment
  <2>4. /\ IsFiniteSet(Uncharged(o)') /\ Cardinality(Uncharged(o)') \in Nat
        /\ Cardinality(Uncharged(o)') <= Cardinality(Uncharged(o))
        /\ Cardinality(Uncharged(o)) \in Nat
    BY <1>0, <2>3, FS_Subset, FS_CardinalityType
  <2>5. Spent(o)' \in Nat /\ Spent(o)' <= Spent(o)
    BY <2>1, <2>4 DEF Spent
  <2> QED BY <2>1, <2>4, <2>5, TalliedKept
<1>7. CASE UNCHANGED vars
  <2>1. Still(o)
    BY <1>7 DEF vars, Still, SameJob, SameBooks, SamePlaces
  <2> QED BY <2>1, TalliedStill
<1> QED BY <1>1, <1>2, <1>3, <1>4, <1>5, <1>6, <1>7, TalliedStill DEF Next

LEMMA TalliedInit == ASSUME Init, NEW o \in Orders PROVE Tallied(o)
<1>1. Uncharged(o) = {}
  BY JobFacts DEF Init, Uncharged, Before, Payment
<1>2. IsFiniteSet(Uncharged(o)) /\ Spent(o) = 0
  BY <1>1, FS_EmptySet DEF Init, Spent
<1>3. /\ job[Payment(o)] = "absent" /\ lock[Payment(o)] = NoLock
      /\ made[Payment(o)] = 0 /\ stalls[Payment(o)] = 0
  BY JobFacts DEF Init, Payment
<1> QED BY <1>2, <1>3, PipelineAssumption DEF Tallied

(* An order is charged at most once per attempt and per stall forgiven,    *)
(* under every combination of troubles: handlers that lost their lock and  *)
(* run on beside a fresh delivery included.                                *)
THEOREM ChargesBounded == Spec => []ChargesAreBounded
<1> DEFINE Inv == TypeOK /\ \A o \in Orders : Tallied(o)
<1>1. Init => Inv
  BY TypeInit, TalliedInit
<1>2. Inv /\ [Next]_vars => Inv'
  BY TypeStep, TalliedStep
<1>3. Inv => ChargesAreBounded
  <2> SUFFICES ASSUME Inv, NEW o \in Orders PROVE charges[o] <= JobAttempts + MaxStalled
    BY DEF ChargesAreBounded
  <2>1. IsFiniteSet(Uncharged(o)) /\ Spent(o) <= JobAttempts + MaxStalled
    BY DEF Tallied
  <2>2. charges[o] \in Nat /\ Cardinality(Uncharged(o)) \in Nat
    BY <2>1, SpentType, PaymentType
  <2> QED BY <2>1, <2>2, PipelineAssumption DEF Spent
<1> QED BY <1>1, <1>2, <1>3, PTL DEF Spec

-----------------------------------------------------------------------------
(* One delivery at a time.                                                  *)

LEMMA DeliveryInit == ASSUME Init, NEW o \in Orders PROVE Delivery(o)
BY PipelineAssumption, JobFacts
   DEF Init, Delivery, Solo, Recorded, Payment, Handling

LEMMA StallStep ==
  ASSUME LockKept, TypeOK, NEW o \in Orders, Delivery(o), NEW j \in Jobs, Stall(j)
  PROVE  Delivery(o)'
<1> DEFINE P == Payment(o)
<1> USE JobFacts, PaymentType, PipelineAssumption
<1>1. CASE j # Payment(o)
  <2>1. Still(o)
    BY <1>1 DEF Stall, docs, Still, SameJob, SameBooks, SamePlaces, TypeOK
  <2> QED BY <2>1, StillStep
<1>2. CASE j = Payment(o)
  <2>1. /\ job[P] = "active" /\ at[<<lock[P], P>>] = "off"
        /\ job'[P] = "waiting" /\ stalls'[P] = stalls[P] + 1 /\ lock'[P] = NoLock
        /\ made'[P] = made[P] /\ SameBooks(o) /\ SamePlaces(o)
    BY <1>2 DEF LockKept, Stall, docs, SameBooks, SamePlaces, TypeOK
  <2>2. \A v \in Workers : at[<<v, P>>] \notin Handling
    BY <2>1 DEF Delivery, Solo, Handling
  <2>3. Solo(o)'
    BY <2>1, <2>2 DEF Solo, SamePlaces, Payment
  <2>4. Recorded(o)'
    BY <2>1 DEF Delivery, Recorded, SameBooks, SamePlaces, Payment
  <2> QED BY <2>3, <2>4 DEF Delivery
<1> QED BY <1>1, <1>2

LEMMA OwnStep ==
  ASSUME LockKept, TypeOK, NEW o \in Orders, Delivery(o), NEW w \in Workers,
         \/ Take(w, Payment(o)) \/ FailStalled(w, Payment(o))
         \/ Run(w, Payment(o)) \/ Throw(w, Payment(o))
  PROVE  Delivery(o)'
<1> DEFINE P == Payment(o)
<1> USE JobFacts, PaymentType, GotoMoves, PipelineAssumption
<1>1. CASE Take(w, P)
  <2>1. /\ job[P] = "waiting" /\ stalls[P] <= MaxStalled
        /\ job'[P] = "active" /\ lock'[P] = w /\ Moves(w, o, "gate")
        /\ made'[P] = made[P] /\ stalls'[P] = stalls[P] /\ SameBooks(o)
    BY <1>1 DEF Take, docs, SameBooks, TypeOK
  <2>2. \A v \in Workers : at[<<v, P>>] \notin Handling
    BY <2>1 DEF Delivery, Solo
  <2>3. Solo(o)'
    BY <2>1, <2>2 DEF Solo, Moves, Payment
  <2>4. Recorded(o)'
    BY <2>1 DEF Delivery, Recorded, SameBooks, Moves, Payment
  <2> QED BY <2>3, <2>4 DEF Delivery
<1>2. CASE FailStalled(w, P)
  <2>1. PICK p \in {"compensate", "off"} : Moves(w, o, p)
    BY <1>2 DEF FailStalled
  <2>2. /\ job[P] = "waiting" /\ job'[P] = "failed"
        /\ stalls'[P] = stalls[P] /\ lock'[P] = lock[P] /\ SameBooks(o)
    BY <1>2 DEF FailStalled, docs, SameBooks, TypeOK
  <2>3. Solo(o)'
    BY <2>1, <2>2 DEF Delivery, Solo, Moves, Payment, Handling
  <2>4. Recorded(o)'
    BY <2>1, <2>2 DEF Delivery, Recorded, SameBooks, Moves, Payment
  <2> QED BY <2>3, <2>4 DEF Delivery
<1>3. CASE AttemptFails(w, P)
  <2>1. PICK p \in {"compensate", "off"} : Moves(w, o, p)
    BY <1>3 DEF AttemptFails
  <2>2. /\ at[<<w, P>>] = "thrown" /\ lock[P] = w /\ job[P] = "active"
    BY <1>3 DEF AttemptFails, Delivery, Solo, Handling
  <2>3. /\ made'[P] = made[P] + 1 /\ lock'[P] = NoLock
        /\ job'[P] = IF made[P] + 1 < JobAttempts THEN "waiting" ELSE "failed"
        /\ stalls'[P] = stalls[P] /\ SameBooks(o)
    BY <1>3, <2>2 DEF AttemptFails, Retries, docs, SameBooks, TypeOK
  <2>4. \A v \in Workers : at'[<<v, P>>] \notin Handling
    BY <2>1, <2>2 DEF Delivery, Solo, Moves, Handling
  <2>5. Solo(o)'
    BY <2>3, <2>4 DEF Solo, Payment
  <2>6. Recorded(o)'
    BY <2>3, <2>4 DEF Delivery, Recorded, SameBooks, Payment, Handling
  <2> QED BY <2>5, <2>6 DEF Delivery
<1>4. CASE Complete(w, P)
  <2>1. /\ at[<<w, P>>] = "done" /\ lock[P] = w /\ job[P] = "active"
    BY <1>4 DEF Complete, Delivery, Solo, Handling
  <2>2. /\ job'[P] = "completed" /\ lock'[P] = NoLock /\ Moves(w, o, "off")
        /\ made'[P] = made[P] /\ stalls'[P] = stalls[P] /\ SameBooks(o)
    BY <1>4, <2>1 DEF Complete, docs, SameBooks, TypeOK
  <2>3. \A v \in Workers : at'[<<v, P>>] \notin Handling
    BY <2>1, <2>2 DEF Delivery, Solo, Moves, Handling
  <2>4. Solo(o)'
    BY <2>2, <2>3 DEF Solo, Payment
  <2>5. Recorded(o)'
    BY <2>2, <2>3 DEF Delivery, Recorded, SameBooks, Payment, Handling
  <2> QED BY <2>4, <2>5 DEF Delivery
<1>5. CASE Gate(w, P)
  <2>1. PICK p \in {"done", "save"} : Moves(w, o, p)
    BY <1>5 DEF Gate, Payment
  <2>2. /\ at[<<w, P>>] = "gate" /\ SameJob(o)
        /\ charges'[o] = charges[o] /\ tries'[o] = tries[o]
        /\ \A v \in Workers : read'[<<v, o>>] = IF v = w THEN tries[o] ELSE read[<<v, o>>]
    BY <1>5 DEF Gate, docs, queue, SameJob, TypeOK, Payment
  <2>3. Solo(o)'
    BY <2>1, <2>2 DEF Delivery, Solo, SameJob, Moves, Payment, Handling
  <2>4. Recorded(o)'
    BY <2>1, <2>2 DEF Delivery, Recorded, Moves, Payment
  <2> QED BY <2>3, <2>4 DEF Delivery
<1>6. CASE SetStatus(w, P) \/ HandOn(w, P) \/ Throw(w, P)
  <2>1. PICK p \in {"hand_on", "thrown", "done"} : Moves(w, o, p)
    BY <1>6 DEF SetStatus, HandOn, Throw
  <2>2. SameJob(o) /\ SameBooks(o) /\ at[<<w, P>>] \in Handling
    <3>1. Payment(o) \notin NextJob(Payment(o))
      BY DEF NextJob, Payment
    <3> QED BY <1>6, <3>1
        DEF SetStatus, HandOn, Throw, docs, queue, SameJob, SameBooks, Handling
  <2>3. Solo(o)'
    BY <2>1, <2>2 DEF Delivery, Solo, SameJob, Moves, Payment
  <2>4. Recorded(o)'
    BY <2>1, <2>2 DEF Delivery, Recorded, SameBooks, Moves, Payment
  <2> QED BY <2>3, <2>4 DEF Delivery
<1> QED BY <1>1, <1>2, <1>3, <1>4, <1>5, <1>6 DEF Run

LEMMA PayStep ==
  ASSUME LockKept, TypeOK, NEW o \in Orders, Delivery(o), NEW w \in Workers, Pay(w, o)
  PROVE  Delivery(o)'
<1> DEFINE P == Payment(o)
<1> USE JobFacts, PaymentType, GotoMoves
<1>1. CASE SaveAttempt(w, o)
  <2>1. PICK p \in {"charge", "thrown"} : Moves(w, o, p)
    BY <1>1 DEF SaveAttempt, Payment
  <2>2. /\ at[<<w, P>>] = "save" /\ SameJob(o) /\ charges'[o] = charges[o]
        /\ tries'[o] = tries[o] + 1
        /\ \A v \in Workers : v # w => read'[<<v, o>>] = read[<<v, o>>]
    BY <1>1 DEF SaveAttempt, NextTry, queue, SameJob, TypeOK, Payment, Delivery, Recorded
  <2>3. Solo(o)'
    BY <2>1, <2>2 DEF Delivery, Solo, SameJob, Moves, Payment, Handling
  <2>4. \A v \in Workers : at[<<v, P>>] \in Handling => v = w
    BY <2>2 DEF Delivery, Solo, Handling
  <2>5. Recorded(o)'
    BY <2>1, <2>2, <2>4 DEF Delivery, Recorded, Moves, Payment, Handling
  <2> QED BY <2>3, <2>5 DEF Delivery
<1>2. CASE ChargePayment(w, o)
  <2>1. PICK p \in {"set", "thrown"} : Moves(w, o, p)
    BY <1>2 DEF ChargePayment, Declined, Payment
  <2>2. /\ at[<<w, P>>] = "charge" /\ SameJob(o) /\ tries'[o] = tries[o]
        /\ charges'[o] \in {charges[o], charges[o] + 1}
        /\ \A v \in Workers : read'[<<v, o>>] = read[<<v, o>>]
    BY <1>2 DEF ChargePayment, docs, queue, SameJob, TypeOK, Payment
  <2>3. lock[P] = w /\ job[P] = "active" /\ \A v \in Workers : at[<<v, P>>] \in Handling => v = w
    BY <2>2, PipelineAssumption DEF Delivery, Solo, Handling
  <2>4. Solo(o)'
    BY <2>1, <2>2 DEF Delivery, Solo, SameJob, Moves, Payment, Handling
  <2>5. \A v \in Workers : at'[<<v, P>>] \notin {"gate", "save", "charge"}
    BY <2>1, <2>3 DEF Moves, Handling
  <2>6. Recorded(o)'
    <3>1. charges'[o] <= tries'[o]
      <4>1. charges[o] < tries[o] /\ charges[o] \in Nat /\ tries[o] \in Nat
        BY <2>2 DEF Delivery, Recorded
      <4> QED BY <2>2, <4>1
    <3> QED BY <2>5, <3>1 DEF Recorded, Payment
  <2> QED BY <2>4, <2>6 DEF Delivery
<1>3. CASE Compensate(w, o) \/ GiveBack(w, o)
  <2>1. PICK p \in {"give_back", "off"} : Moves(w, o, p)
    BY <1>3 DEF Compensate, GiveBack, Payment
  <2>2. SameJob(o) /\ SameBooks(o)
    BY <1>3 DEF Compensate, GiveBack, docs, queue, SameJob, SameBooks
  <2>3. Solo(o)'
    BY <2>1, <2>2 DEF Delivery, Solo, SameJob, Moves, Payment, Handling
  <2>4. Recorded(o)'
    BY <2>1, <2>2 DEF Delivery, Recorded, SameBooks, Moves, Payment
  <2> QED BY <2>3, <2>4 DEF Delivery
<1> QED BY <1>1, <1>2, <1>3 DEF Pay

LEMMA DeliveryStep ==
  ASSUME LockKept, TypeOK, [Next]_vars, NEW o \in Orders, Delivery(o)
  PROVE  Delivery(o)'
<1> USE JobFacts, PaymentType
<1>1. ASSUME NEW x \in Orders, Submit(x) PROVE Still(o)
  BY <1>1 DEF Submit, queue, Still, SameJob, SameBooks, SamePlaces
<1>2. ASSUME NEW x \in Orders, EnqueueProcess(x) PROVE Delivery(o)'
  <2>1. CASE x # o
    <3>1. Still(o)
      BY <1>2, <2>1 DEF EnqueueProcess, docs, Still, SameJob, SameBooks, SamePlaces, Payment, TypeOK
    <3> QED BY <3>1, StillStep
  <2>2. CASE x = o
    <3>1. /\ job[Payment(o)] = "absent" /\ job'[Payment(o)] = "waiting"
          /\ made'[Payment(o)] = made[Payment(o)] /\ stalls'[Payment(o)] = stalls[Payment(o)]
          /\ lock'[Payment(o)] = lock[Payment(o)] /\ SameBooks(o) /\ SamePlaces(o)
      BY <1>2, <2>2 DEF EnqueueProcess, docs, SameBooks, SamePlaces, Payment, TypeOK
    <3>2. Solo(o)'
      BY <3>1 DEF Delivery, Solo, SamePlaces, Payment
    <3>3. Recorded(o)'
      BY <3>1 DEF Delivery, Recorded, SameBooks, SamePlaces, Payment
    <3> QED BY <3>2, <3>3 DEF Delivery
  <2> QED BY <2>1, <2>2
<1>3. ASSUME NEW j \in Jobs, Stall(j) PROVE Delivery(o)'
  BY <1>3, StallStep
<1>4. ASSUME NEW j \in Jobs, NEW w \in Workers,
             Take(w, j) \/ FailStalled(w, j) \/ Run(w, j) \/ Throw(w, j)
      PROVE  Delivery(o)'
  BY <1>4, Elsewhere, OwnStep, StillStep
<1>5. ASSUME NEW w \in Workers, NEW x \in Orders, Pay(w, x) PROVE Delivery(o)'
  BY <1>5, PayElsewhere, PayStep, StillStep
<1>6. ASSUME NEW w \in Workers, Crash(w) PROVE Delivery(o)'
  <2>1. SameJob(o) /\ SameBooks(o)
    BY <1>6 DEF Crash, docs, queue, SameJob, SameBooks
  <2>2. \A v \in Workers : at'[<<v, Payment(o)>>] \in {at[<<v, Payment(o)>>], "off"}
    BY <1>6 DEF Crash
  <2>3. Solo(o)'
    BY <2>1, <2>2 DEF Delivery, Solo, SameJob, Payment, Handling
  <2>4. Recorded(o)'
    BY <2>1, <2>2 DEF Delivery, Recorded, SameBooks, Payment
  <2> QED BY <2>3, <2>4 DEF Delivery
<1>7. CASE UNCHANGED vars
  BY <1>7, StillStep DEF vars, Still, SameJob, SameBooks, SamePlaces
<1> QED BY <1>1, <1>2, <1>3, <1>4, <1>5, <1>6, <1>7, StillStep DEF Next

LEMMA PayInvInit == Init => PayInv
BY TypeInit, DeliveryInit DEF PayInv, Delivery

LEMMA PayInvStep == ASSUME LockKept PROVE PayInv /\ [Next]_vars => PayInv'
BY TypeStep, DeliveryStep DEF PayInv, Delivery

(* While locks are kept, a payment has one handler at a time, and its      *)
(* stored attempts are those made.                                         *)
THEOREM PaymentInvariant == ASSUME LockKept PROVE Spec => []PayInv
BY PayInvInit, PayInvStep, PTL DEF Spec

(* No charge goes unrecorded in paymentAttempts, whatever dies or fails    *)
(* between the write and the gateway's answer.                             *)
THEOREM ChargesRecorded == ASSUME LockKept PROVE Spec => []ChargesAreRecorded
<1>1. PayInv => ChargesAreRecorded
  BY DEF PayInv, Recorded, ChargesAreRecorded
<1> QED BY <1>1, PaymentInvariant, PTL

-----------------------------------------------------------------------------
(* One charge, and none of a compensated order, unless a lock is lost, a   *)
(* Mongo call throws without effect or a worker dies.                      *)

Progress(o) ==
  \/ status'[o] = status[o]
  \/ status[o] = "none" /\ status'[o] = "pending"
  \/ status[o] \in {"paid", "fulfilled"} /\ status'[o] \in {"fulfilled", "confirmed"}

LEMMA StillCharged ==
  ASSUME NEW o \in Orders, Charged(o), Still(o), Progress(o)
  PROVE  Charged(o)'
BY DEF Charged, Still, SameJob, SameBooks, SamePlaces, Progress, Payment

LEMMA LaterStages ==
  ASSUME TypeOK, NEW o \in Orders, NEW w \in Workers, NEW j \in Jobs, j # Payment(o),
         SetStatus(w, j)
  PROVE  Progress(o)
<1>1. CASE j[2] # o
  BY <1>1, JobFacts DEF SetStatus, Progress, TypeOK
<1>2. CASE j[2] = o
  <2>1. j[1] \in {"fulfill", "notify"}
    BY <1>2, JobFacts DEF Stages, Payment
  <2> QED BY <1>2, <2>1, JobFacts DEF SetStatus, Matches, From, To, Progress, TypeOK
<1> QED BY <1>1, <1>2

(* A handler that was not about to set the order paid moves on.            *)
LEMMA ChargedMove ==
  ASSUME NEW o \in Orders, Charged(o), NEW w \in Workers, NEW p, Moves(w, o, p),
         charges'[o] = charges[o], status'[o] = status[o],
         at[<<w, Payment(o)>>] # "set", p # "set",
         p \in {"save", "charge"} => status[o] = "pending",
         p = "charge" => charges[o] = 0,
         p \in {"compensate", "give_back"} => job'[Payment(o)] = "failed",
         job[Payment(o)] = "failed" => job'[Payment(o)] = "failed"
  PROVE  Charged(o)'
<1> DEFINE P == Payment(o)
<1>1. \A v \in Workers : at'[<<v, P>>] = IF v = w THEN p ELSE at[<<v, P>>]
  BY DEF Moves
<1>2. \A v \in Workers : at[<<v, P>>] = "set" => at'[<<v, P>>] = "set"
  BY <1>1
<1>3. ASSUME charges[o] > 0, status[o] \in {"none", "pending", "failed"}
      PROVE  \E v \in Workers : at'[<<v, P>>] = "set"
  BY <1>2, <1>3 DEF Charged
<1>4. ASSUME NEW v \in Workers
      PROVE  /\ at'[<<v, P>>] \in {"save", "charge", "set"} => status[o] = "pending"
             /\ at'[<<v, P>>] = "charge" => charges[o] = 0
             /\ at'[<<v, P>>] \in {"compensate", "give_back"} => job'[P] = "failed"
  <2>1. CASE v = w
    BY <1>1, <2>1
  <2>2. CASE v # w
    BY <1>1, <2>2 DEF Charged
  <2> QED BY <2>1, <2>2
<1>5. charges[o] <= 1
  BY DEF Charged
<1> QED BY <1>3, <1>4, <1>5 DEF Charged, Payment

LEMMA OwnCharged ==
  ASSUME Attended, TypeOK, NEW o \in Orders, Delivery(o), Charged(o), NEW w \in Workers,
         \/ Take(w, Payment(o)) \/ FailStalled(w, Payment(o))
         \/ Run(w, Payment(o)) \/ Throw(w, Payment(o))
  PROVE  Charged(o)'
<1> DEFINE P == Payment(o)
<1> USE JobFacts, PaymentType, GotoMoves, PipelineAssumption
<1>1. CASE Take(w, P)
  <2>1. /\ job[P] = "waiting" /\ job'[P] = "active" /\ Moves(w, o, "gate")
        /\ at[<<w, P>>] = "off" /\ SameBooks(o) /\ status'[o] = status[o]
    BY <1>1 DEF Take, docs, SameBooks, TypeOK
  <2> QED BY <2>1, ChargedMove DEF SameBooks
<1>2. CASE FailStalled(w, P)
  <2>1. PICK p \in {"compensate", "off"} : Moves(w, o, p)
    BY <1>2 DEF FailStalled
  <2>2. /\ at[<<w, P>>] = "off" /\ job'[P] = "failed" /\ SameBooks(o)
        /\ status'[o] = status[o]
    BY <1>2 DEF FailStalled, docs, SameBooks, TypeOK
  <2> QED BY <2>1, <2>2, ChargedMove DEF SameBooks
<1>3. CASE AttemptFails(w, P)
  <2>1. at[<<w, P>>] = "thrown" /\ lock[P] = w /\ job[P] = "active"
    BY <1>3 DEF AttemptFails, Delivery, Solo, Handling
  <2>2. PICK p \in {"compensate", "off"} :
          Moves(w, o, p) /\ (p = "compensate" => job'[P] = "failed")
    <3>1. CASE Terminal(P)
      BY <1>3, <2>1, <3>1 DEF AttemptFails, Retries, Terminal, TypeOK
    <3>2. CASE ~Terminal(P)
      BY <1>3, <2>1, <3>2 DEF AttemptFails
    <3> QED BY <3>1, <3>2
  <2>3. SameBooks(o) /\ status'[o] = status[o]
    BY <1>3 DEF AttemptFails, docs, SameBooks
  <2> QED BY <2>1, <2>2, <2>3, ChargedMove DEF SameBooks
<1>4. CASE Complete(w, P)
  <2>1. at[<<w, P>>] = "done" /\ lock[P] = w /\ job[P] = "active"
    BY <1>4 DEF Complete, Delivery, Solo, Handling
  <2>2. Moves(w, o, "off") /\ SameBooks(o) /\ status'[o] = status[o]
    BY <1>4 DEF Complete, docs, SameBooks
  <2> QED BY <2>1, <2>2, ChargedMove DEF SameBooks
<1>5. CASE Gate(w, P)
  <2>1. PICK p \in {"done", "save"} :
          Moves(w, o, p) /\ (p = "save" => status[o] = "pending")
    BY <1>5 DEF Gate, Passes, From, Payment
  <2>2. /\ at[<<w, P>>] = "gate" /\ job'[P] = job[P] /\ charges'[o] = charges[o]
        /\ status'[o] = status[o]
    BY <1>5 DEF Gate, docs, queue
  <2> QED BY <2>1, <2>2, ChargedMove DEF Charged
<1>6. CASE SetStatus(w, P)
  <2>1. at[<<w, P>>] = "set" /\ lock[P] = w /\ status[o] = "pending" /\ SameBooks(o) /\ job'[P] = job[P]
    BY <1>6 DEF SetStatus, queue, SameBooks, Delivery, Solo, Handling, Charged
  <2>2. status'[o] = "paid" /\ \E p \in {"hand_on", "thrown"} : Moves(w, o, p)
    BY <1>6, <2>1 DEF SetStatus, Matches, From, To, Payment, TypeOK
  <2>3. \A v \in Workers : v # w => at[<<v, P>>] \notin Handling
    BY <2>1 DEF Delivery, Solo
  <2> QED BY <2>1, <2>2, <2>3 DEF Charged, SameBooks, Moves, Payment, Handling
<1>7. CASE HandOn(w, P) \/ Throw(w, P)
  <2>1. PICK p \in {"thrown", "done"} : Moves(w, o, p)
    BY <1>7 DEF HandOn, Throw
  <2>2. /\ at[<<w, P>>] = "hand_on" /\ job'[P] = job[P] /\ SameBooks(o)
        /\ status'[o] = status[o]
    <3>1. Payment(o) \notin NextJob(Payment(o))
      BY DEF NextJob, Payment
    <3> QED BY <1>7, <3>1 DEF HandOn, Throw, Attended, docs, queue, SameBooks
  <2> QED BY <2>1, <2>2, ChargedMove DEF SameBooks
<1> QED BY <1>1, <1>2, <1>3, <1>4, <1>5, <1>6, <1>7 DEF Run

LEMMA PayCharged ==
  ASSUME Attended, TypeOK, NEW o \in Orders, Delivery(o), Charged(o), NEW w \in Workers,
         Pay(w, o)
  PROVE  Charged(o)'
<1> DEFINE P == Payment(o)
<1> USE JobFacts, PaymentType, GotoMoves, PipelineAssumption
<1>1. CASE SaveAttempt(w, o)
  <2>0. PICK p \in {"charge", "thrown"} : Moves(w, o, p)
    BY <1>1 DEF SaveAttempt, Payment
  <2>1. /\ at[<<w, P>>] = "save" /\ job'[P] = job[P]
        /\ charges'[o] = charges[o] /\ status'[o] = status[o]
    BY <1>1 DEF SaveAttempt, queue, Payment
  <2>2. charges[o] = 0
    <3>1. status[o] = "pending"
      BY <2>1 DEF Charged
    <3>2. \A v \in Workers : at[<<v, P>>] # "set"
      BY <2>1 DEF Delivery, Solo, Handling
    <3>3. ~(charges[o] > 0)
      BY <3>1, <3>2 DEF Charged
    <3> QED BY <3>3
  <2> QED BY <2>0, <2>1, <2>2, ChargedMove DEF Charged
<1>2. CASE ChargePayment(w, o)
  <2>1. /\ at[<<w, P>>] = "charge" /\ charges[o] = 0 /\ job'[P] = job[P]
        /\ status'[o] = status[o] /\ status[o] = "pending"
    BY <1>2 DEF ChargePayment, docs, queue, Charged, Payment
  <2>2. \A v \in Workers : v # w => at[<<v, P>>] \notin Handling
    BY <2>1 DEF Delivery, Solo, Handling
  <2>3. CASE charges'[o] = 1 /\ Moves(w, o, "set")
    BY <2>1, <2>2, <2>3 DEF Charged, Moves, Payment, Handling
  <2>4. CASE charges'[o] = 0 /\ Moves(w, o, "thrown")
    BY <2>1, <2>4, ChargedMove
  <2> QED BY <1>2, <2>1, <2>3, <2>4 DEF ChargePayment, Declined, Payment, TypeOK
<1>3. CASE Compensate(w, o)
  <2>1. PICK p \in {"give_back", "off"} : Moves(w, o, p)
    BY <1>3 DEF Compensate, Payment
  <2>2. /\ at[<<w, P>>] = "compensate" /\ job[P] = "failed" /\ job'[P] = "failed" /\ SameBooks(o)
    BY <1>3 DEF Compensate, queue, SameBooks, Charged, Payment
  <2>3. \A v \in Workers : at[<<v, P>>] \notin Handling
    BY <2>2 DEF Delivery, Solo
  <2>4. status'[o] = status[o] \/ (status[o] = "pending" /\ status'[o] = "failed")
    <3>1. CASE status' = [status EXCEPT ![o] = "failed"] /\ status[o] = "pending"
      BY <3>1 DEF TypeOK
    <3>2. CASE UNCHANGED status
      BY <3>2
    <3> QED BY <1>3, <3>1, <3>2 DEF Compensate, Compensable
  <2>5. \A v \in Workers : at'[<<v, P>>] \notin Handling
    BY <2>1, <2>3 DEF Moves, Handling
  <2>6. charges[o] <= 1 /\ (charges[o] > 0 => status[o] \notin {"none", "pending", "failed"})
    BY <2>3 DEF Charged, Handling
  <2>7. charges'[o] <= 1 /\ (charges'[o] > 0 => status'[o] \notin {"none", "pending", "failed"})
    BY <2>2, <2>4, <2>6 DEF SameBooks
  <2> QED BY <2>2, <2>5, <2>7 DEF Charged, Payment, Handling
<1>4. CASE GiveBack(w, o)
  <2>1. /\ at[<<w, P>>] = "give_back" /\ Moves(w, o, "off") /\ job'[P] = job[P]
        /\ SameBooks(o) /\ status'[o] = status[o]
    BY <1>4 DEF GiveBack, docs, queue, SameBooks, Payment
  <2> QED BY <2>1, ChargedMove DEF SameBooks
<1> QED BY <1>1, <1>2, <1>3, <1>4 DEF Pay

LEMMA ChargedStep ==
  ASSUME Attended, TypeOK, [Next]_vars, NEW o \in Orders, Delivery(o), Charged(o)
  PROVE  Charged(o)'
<1> USE JobFacts, PaymentType
<1>1. ASSUME NEW x \in Orders, Submit(x) PROVE Charged(o)'
  <2>1. Still(o) /\ Progress(o)
    BY <1>1 DEF Submit, queue, Still, SameJob, SameBooks, SamePlaces, Progress, TypeOK
  <2> QED BY <2>1, StillCharged
<1>2. ASSUME NEW x \in Orders, EnqueueProcess(x) PROVE Charged(o)'
  <2>1. /\ SameBooks(o) /\ SamePlaces(o) /\ status'[o] = status[o]
        /\ job[Payment(o)] # "absent" => job'[Payment(o)] = job[Payment(o)]
    BY <1>2 DEF EnqueueProcess, docs, SameBooks, SamePlaces, Payment, TypeOK
  <2> QED BY <2>1 DEF Charged, SameBooks, SamePlaces, Payment
<1>3. ASSUME NEW j \in Jobs, Stall(j) PROVE Charged(o)'
  <2>1. /\ SameBooks(o) /\ SamePlaces(o) /\ status'[o] = status[o]
        /\ job[Payment(o)] = "failed" => job'[Payment(o)] = job[Payment(o)]
    BY <1>3 DEF Stall, docs, SameBooks, SamePlaces, TypeOK
  <2> QED BY <2>1 DEF Charged, SameBooks, SamePlaces, Payment
<1>4. ASSUME NEW j \in Jobs, NEW w \in Workers,
             Take(w, j) \/ FailStalled(w, j) \/ Run(w, j) \/ Throw(w, j)
      PROVE  Charged(o)'
  <2>1. CASE j # Payment(o)
    <3>1. Progress(o)
      <4>1. CASE SetStatus(w, j)
        BY <2>1, <4>1, LaterStages
      <4>2. CASE UNCHANGED status
        BY <4>2 DEF Progress
      <4> QED BY <1>4, <4>1, <4>2
          DEF Take, FailStalled, Run, Gate, HandOn, AttemptFails, Complete, Throw, docs
    <3>2. Still(o)
      BY <1>4, <2>1, Elsewhere
    <3> QED BY <3>1, <3>2, StillCharged
  <2>2. CASE j = Payment(o)
    BY <1>4, <2>2, OwnCharged
  <2> QED BY <2>1, <2>2
<1>5. ASSUME NEW w \in Workers, NEW x \in Orders, Pay(w, x) PROVE Charged(o)'
  <2>1. CASE x # o
    <3>1. Progress(o)
      BY <1>5, <2>1 DEF Pay, SaveAttempt, ChargePayment, Compensate, GiveBack, docs, Progress, TypeOK
    <3> QED BY <1>5, <2>1, <3>1, PayElsewhere, StillCharged
  <2>2. CASE x = o
    BY <1>5, <2>2, PayCharged
  <2> QED BY <2>1, <2>2
<1>6. ASSUME NEW w \in Workers, Crash(w) PROVE FALSE
  BY <1>6 DEF Crash, Attended
<1>7. CASE UNCHANGED vars
  BY <1>7, StillCharged DEF vars, Still, SameJob, SameBooks, SamePlaces, Progress
<1> QED BY <1>1, <1>2, <1>3, <1>4, <1>5, <1>6, <1>7 DEF Next

LEMMA OnceInvInit == Init => OnceInv
<1> SUFFICES ASSUME Init PROVE OnceInv
  OBVIOUS
<1>1. ASSUME NEW o \in Orders PROVE Charged(o)
  <2>1. charges[o] = 0 /\ \A w \in Workers : at[<<w, Payment(o)>>] = "off"
    BY JobFacts DEF Init, Payment
  <2> QED BY <2>1 DEF Charged
<1> QED BY <1>1, PayInvInit DEF OnceInv

LEMMA OnceInvStep == ASSUME Attended PROVE OnceInv /\ [Next]_vars => OnceInv'
<1>1. LockKept
  BY DEF Attended, LockKept
<1>2. PayInv /\ [Next]_vars => PayInv'
  BY <1>1, PayInvStep
<1> QED BY <1>2, ChargedStep DEF OnceInv, PayInv, Delivery

(* Declined charges, failed publishes and adds, and any interleaving of    *)
(* workers and retries leave a payment charged at most once; a compensation*)
(* comes only after the last delivery.                                     *)
THEOREM OnceInvariant == ASSUME Attended PROVE Spec => []OnceInv
BY OnceInvInit, OnceInvStep, PTL DEF Spec

(* No double charge while no Mongo call throws without effect, locks are   *)
(* kept and workers live.                                                  *)
THEOREM ChargedOnce == ASSUME Attended PROVE Spec => []ChargedAtMostOnce
<1>1. OnceInv => ChargedAtMostOnce
  BY DEF OnceInv, Charged, ChargedAtMostOnce
<1> QED BY <1>1, OnceInvariant, PTL

(* No compensated order was charged, under the same troubles.              *)
THEOREM FailedUncharged == ASSUME Attended PROVE Spec => []FailedWasNotCharged
<1>1. OnceInv => FailedWasNotCharged
  <2> SUFFICES ASSUME OnceInv, NEW o \in Orders, status[o] = "failed" PROVE charges[o] = 0
    BY DEF FailedWasNotCharged
  <2>1. Charged(o) /\ charges[o] \in Nat
    BY PaymentType DEF OnceInv, PayInv
  <2>2. ~(charges[o] > 0)
    BY <2>1 DEF Charged
  <2> QED BY <2>1, <2>2
<1> QED BY <1>1, OnceInvariant, PTL

-----------------------------------------------------------------------------
(* A failed order has its units back, or is about to, unless a write       *)
(* applies without an answer or a worker dies.                             *)

Returning(o) ==
  status[o] = "failed" =>
    refunds[o] = 1 \/ \E w \in Workers : at[<<w, Payment(o)>>] = "give_back"

LEMMA ReturningMove ==
  ASSUME NEW o \in Orders, Returning(o), NEW w \in Workers, NEW p, Moves(w, o, p),
         at[<<w, Payment(o)>>] # "give_back", refunds'[o] = refunds[o],
         status'[o] = "failed" => status[o] = "failed"
  PROVE  Returning(o)'
<1>1. \A v \in Workers :
        at[<<v, Payment(o)>>] = "give_back" => at'[<<v, Payment(o)>>] = "give_back"
  BY DEF Moves
<1> QED BY <1>1 DEF Returning, Payment

LEMMA ReturningStill ==
  ASSUME NEW o \in Orders, Returning(o), SamePlaces(o), refunds'[o] = refunds[o],
         status'[o] = "failed" => status[o] = "failed"
  PROVE  Returning(o)'
BY DEF Returning, SamePlaces, Payment

(* No handler sets the status to failed: only the compensation does.       *)
LEMMA NeverSetsFailed ==
  ASSUME TypeOK, NEW o \in Orders, NEW w \in Workers, NEW j \in Jobs,
         Take(w, j) \/ FailStalled(w, j) \/ Run(w, j) \/ Throw(w, j)
  PROVE  /\ refunds'[o] = refunds[o]
         /\ status'[o] = "failed" => status[o] = "failed"
<1>1. CASE SetStatus(w, j)
  <2>1. To[j[1]] \in {"paid", "fulfilled", "confirmed"}
    BY JobFacts DEF To, Stages
  <2>2. refunds'[o] = refunds[o]
    BY <1>1 DEF SetStatus
  <2> QED BY <1>1, <2>1, <2>2 DEF SetStatus, TypeOK
<1>2. CASE UNCHANGED <<status, refunds>>
  BY <1>2
<1> QED BY <1>1, <1>2
    DEF Take, FailStalled, Run, Gate, HandOn, AttemptFails, Complete, Throw, docs

LEMMA ReturningStep ==
  ASSUME Answered, IInv, [Next]_vars, NEW o \in Orders, Returning(o)
  PROVE  Returning(o)'
<1> DEFINE P == Payment(o)
<1>0. TypeOK
  BY DEF IInv
<1> USE <1>0, JobFacts, PaymentType, GotoMoves
<1>1. ASSUME NEW x \in Orders, Submit(x) \/ EnqueueProcess(x) PROVE Returning(o)'
  <2>1. SamePlaces(o) /\ refunds'[o] = refunds[o] /\ (status'[o] = "failed" => status[o] = "failed")
    BY <1>1 DEF Submit, EnqueueProcess, docs, SamePlaces, TypeOK
  <2> QED BY <2>1, ReturningStill
<1>2. ASSUME NEW j \in Jobs, Stall(j) PROVE Returning(o)'
  <2>1. SamePlaces(o) /\ refunds'[o] = refunds[o] /\ status'[o] = status[o]
    BY <1>2 DEF Stall, docs, SamePlaces
  <2> QED BY <2>1, ReturningStill
<1>3. ASSUME NEW j \in Jobs, NEW w \in Workers,
             Take(w, j) \/ FailStalled(w, j) \/ Run(w, j) \/ Throw(w, j)
      PROVE  Returning(o)'
  <2>1. refunds'[o] = refunds[o] /\ (status'[o] = "failed" => status[o] = "failed")
    BY <1>3, NeverSetsFailed
  <2>2. CASE j # P
    BY <1>3, <2>1, <2>2, Elsewhere, ReturningStill DEF Still
  <2>3. CASE j = P
    <3>1. at[<<w, P>>] # "give_back"
      BY <1>3, <2>3 DEF Take, FailStalled, Run, Gate, SetStatus, HandOn, AttemptFails,
         Complete, Throw
    <3>2. PICK p : Goto(w, j, p)
      BY <1>3 DEF Take, FailStalled, Run, Gate, SetStatus, HandOn, AttemptFails, Complete, Throw
    <3> QED BY <2>1, <2>3, <3>1, <3>2, ReturningMove
  <2> QED BY <2>2, <2>3
<1>4. ASSUME NEW w \in Workers, NEW x \in Orders, Pay(w, x), x # o PROVE Returning(o)'
  <2>1. refunds'[o] = refunds[o] /\ status'[o] = status[o]
    BY <1>4 DEF Pay, SaveAttempt, ChargePayment, Compensate, GiveBack, docs, TypeOK
  <2> QED BY <1>4, <2>1, PayElsewhere, ReturningStill DEF Still
<1>5. ASSUME NEW w \in Workers, Pay(w, o) PROVE Returning(o)'
  <2>1. CASE SaveAttempt(w, o) \/ ChargePayment(w, o)
    <3>1. PICK p : Moves(w, o, p)
      BY <2>1 DEF SaveAttempt, ChargePayment, Payment
    <3>2. at[<<w, P>>] # "give_back" /\ refunds'[o] = refunds[o] /\ status'[o] = status[o]
      BY <2>1 DEF SaveAttempt, ChargePayment, docs, Payment
    <3> QED BY <3>1, <3>2, ReturningMove
  <2>2. CASE Compensate(w, o)
    <3>1. at[<<w, P>>] = "compensate" /\ refunds'[o] = refunds[o]
      BY <2>2 DEF Compensate, Payment
    <3>2. CASE Moves(w, o, "give_back")
      BY <3>2 DEF Returning, Moves, Payment
    <3>3. CASE Moves(w, o, "off") /\ UNCHANGED status
      BY <3>1, <3>3, ReturningMove
    <3> QED BY <2>2, <3>2, <3>3 DEF Compensate, Answered, Payment
  <2>3. CASE GiveBack(w, o)
    <3>1. refunds[o] = 0
      BY <2>3 DEF GiveBack, IInv, RefundsFollowFailure
    <3>2. refunds'[o] = 1
      BY <2>3, <3>1 DEF GiveBack, TypeOK
    <3> QED BY <3>2 DEF Returning
  <2> QED BY <1>5, <2>1, <2>2, <2>3 DEF Pay
<1>6. ASSUME NEW w \in Workers, Crash(w) PROVE FALSE
  BY <1>6 DEF Crash, Answered
<1>7. CASE UNCHANGED vars
  BY <1>7, ReturningStill DEF vars, SamePlaces
<1> QED BY <1>1, <1>2, <1>3, <1>4, <1>5, <1>6, <1>7 DEF Next

(* A failed order has its units back, once, or a compensation about to     *)
(* return them: whatever throws, stalls or overlaps, while every write is  *)
(* answered and no worker dies.                                            *)
THEOREM FailedRefunded ==
  ASSUME Answered
  PROVE  Spec => []FailedIsRefunded
<1> DEFINE Inv == \A o \in Orders : Returning(o)
<1>1. Init => Inv
  BY DEF Init, Returning
<1>2. IInv /\ Inv /\ [Next]_vars => Inv'
  BY ReturningStep
<1>3. Inv => FailedIsRefunded
  BY DEF Returning, FailedIsRefunded, Compensating, Payment
<1> QED BY <1>1, <1>2, <1>3, Invariant, PTL DEF Spec

-----------------------------------------------------------------------------
(* A payment job that fails for good is noticed by the listener and acted  *)
(* on, unless a call throws without effect, a lock is lost or a worker dies.*)

(* No delivery is abandoned, so the job never stalls: its last failure is  *)
(* the one the listener takes for the last.                                *)
Settling(o) ==
  LET j == Payment(o) IN
  /\ stalls[j] = 0
  /\ job[j] # "absent" => status[o] # "none"
  /\ job[j] = "active" => \E w \in Workers : at[<<w, j>>] \in Handling
  /\ job[j] = "failed" =>
       status[o] # "pending" \/ \E w \in Workers : at[<<w, j>>] = "compensate"

SettleInv == PayInv /\ \A o \in Orders : Settling(o)

(* An order may leave the pending status but never comes back to it.       *)
Onward(o) ==
  \/ status'[o] = status[o]
  \/ status[o] = "none" /\ status'[o] = "pending"
  \/ status'[o] \notin {"none", "pending"}

LEMMA StillSettling ==
  ASSUME NEW o \in Orders, Settling(o), SameJob(o), SamePlaces(o), Onward(o)
  PROVE  Settling(o)'
BY DEF Settling, SameJob, SamePlaces, Onward, Payment

LEMMA SettlingMove ==
  ASSUME NEW o \in Orders, Settling(o), NEW w \in Workers, NEW p, Moves(w, o, p),
         stalls'[Payment(o)] = stalls[Payment(o)], Onward(o),
         job[Payment(o)] # "absent",
         job'[Payment(o)] = "active" => p \in Handling,
         job'[Payment(o)] = "failed" => p = "compensate"
  PROVE  Settling(o)'
<1> DEFINE P == Payment(o)
<1>1. at'[<<w, P>>] = p
  BY DEF Moves
<1>2. stalls'[P] = 0 /\ status'[o] # "none"
  BY DEF Settling, Onward
<1>3. job'[P] = "active" => at'[<<w, P>>] \in Handling
  BY <1>1
<1>4. job'[P] = "failed" => at'[<<w, P>>] = "compensate"
  BY <1>1
<1> QED BY <1>2, <1>3, <1>4 DEF Settling, Payment, Handling

LEMMA OwnSettling ==
  ASSUME Attended, TypeOK, NEW o \in Orders, Delivery(o), Settling(o), NEW w \in Workers,
         \/ Take(w, Payment(o)) \/ FailStalled(w, Payment(o))
         \/ Run(w, Payment(o)) \/ Throw(w, Payment(o))
  PROVE  Settling(o)'
<1> DEFINE P == Payment(o)
<1> USE JobFacts, PaymentType, GotoMoves, PipelineAssumption
<1>1. CASE Take(w, P)
  <2>1. /\ job[P] = "waiting" /\ job'[P] = "active" /\ Moves(w, o, "gate")
        /\ stalls'[P] = stalls[P] /\ status'[o] = status[o]
    BY <1>1 DEF Take, docs, TypeOK
  <2> QED BY <2>1, SettlingMove DEF Handling, Onward
<1>2. CASE FailStalled(w, P)
  BY <1>2 DEF FailStalled, Settling
<1>3. CASE AttemptFails(w, P)
  <2>1. at[<<w, P>>] = "thrown" /\ lock[P] = w /\ job[P] = "active"
    BY <1>3 DEF AttemptFails, Delivery, Solo, Handling
  <2>2. stalls'[P] = stalls[P] /\ status'[o] = status[o]
    BY <1>3 DEF AttemptFails, docs
  <2>3. CASE Terminal(P)
    <3>1. job'[P] = "failed" /\ Moves(w, o, "compensate")
      BY <1>3, <2>1, <2>3 DEF AttemptFails, Retries, Terminal, TypeOK
    <3> QED BY <2>1, <2>2, <3>1, SettlingMove DEF Onward
  <2>4. CASE ~Terminal(P)
    <3>1. job'[P] = "waiting" /\ Moves(w, o, "off")
      BY <1>3, <2>1, <2>4 DEF AttemptFails, Retries, Terminal, Payment, TypeOK
    <3> QED BY <2>1, <2>2, <3>1, SettlingMove DEF Onward
  <2> QED BY <2>3, <2>4
<1>4. CASE Complete(w, P)
  <2>1. at[<<w, P>>] = "done" /\ lock[P] = w /\ job[P] = "active"
    BY <1>4 DEF Complete, Delivery, Solo, Handling
  <2>2. /\ job'[P] = "completed" /\ Moves(w, o, "off") /\ stalls'[P] = stalls[P]
        /\ status'[o] = status[o]
    BY <1>4, <2>1 DEF Complete, docs, TypeOK
  <2> QED BY <2>1, <2>2, SettlingMove DEF Onward
<1>5. CASE Gate(w, P) \/ SetStatus(w, P) \/ HandOn(w, P) \/ Throw(w, P)
  <2>1. PICK p \in Handling : Moves(w, o, p)
    BY <1>5 DEF Gate, SetStatus, HandOn, Throw, Handling, Payment
  <2>2. at[<<w, P>>] \in Handling /\ SameJob(o)
    <3>1. Payment(o) \notin NextJob(Payment(o))
      BY DEF NextJob, Payment
    <3> QED BY <1>5, <3>1 DEF Gate, SetStatus, HandOn, Throw, docs, queue, SameJob, Handling
  <2>3. job[P] = "active"
    BY <2>2 DEF Delivery, Solo
  <2>4. status'[o] = status[o] \/ status'[o] = "paid"
    BY <1>5 DEF Gate, SetStatus, HandOn, Throw, docs, To, Payment, TypeOK
  <2> QED BY <2>1, <2>2, <2>3, <2>4, SettlingMove DEF SameJob, Onward
<1> QED BY <1>1, <1>2, <1>3, <1>4, <1>5 DEF Run

LEMMA PaySettling ==
  ASSUME Attended, TypeOK, NEW o \in Orders, Delivery(o), Settling(o), NEW w \in Workers,
         Pay(w, o)
  PROVE  Settling(o)'
<1> DEFINE P == Payment(o)
<1> USE JobFacts, PaymentType, GotoMoves, PipelineAssumption
<1>1. CASE SaveAttempt(w, o) \/ ChargePayment(w, o)
  <2>1. PICK p \in Handling : Moves(w, o, p)
    BY <1>1 DEF SaveAttempt, ChargePayment, Declined, Handling, Payment
  <2>2. at[<<w, P>>] \in {"save", "charge"} /\ SameJob(o) /\ status'[o] = status[o]
    BY <1>1 DEF SaveAttempt, ChargePayment, docs, queue, SameJob, Payment
  <2>3. job[P] = "active"
    BY <2>2 DEF Delivery, Solo, Handling
  <2> QED BY <2>1, <2>2, <2>3, SettlingMove DEF SameJob, Onward
<1>2. CASE Compensate(w, o) \/ GiveBack(w, o)
  <2>1. PICK p \in {"give_back", "off"} : Moves(w, o, p)
    BY <1>2 DEF Compensate, GiveBack, Payment
  <2>2. SameJob(o) /\ at[<<w, P>>] \notin Handling
    BY <1>2 DEF Compensate, GiveBack, queue, SameJob, Payment, Handling
  <2>3. /\ status[o] = "none" => status'[o] = "none"
        /\ status[o] # "none" => status'[o] # "none"
        /\ at[<<w, P>>] = "compensate" => status'[o] # "pending"
        /\ status'[o] = "pending" => status[o] = "pending"
    <3>1. CASE status[o] = "pending" /\ status' = [status EXCEPT ![o] = "failed"]
      BY <3>1 DEF TypeOK
    <3>2. CASE status[o] # "pending" /\ UNCHANGED status
      BY <3>2
    <3>3. CASE GiveBack(w, o)
      BY <3>3 DEF GiveBack, docs, Payment
    <3> QED BY <1>2, <3>1, <3>2, <3>3 DEF Compensate, Compensable, Attended
  <2>4. \A v \in Workers : at[<<v, P>>] \in Handling => at'[<<v, P>>] \in Handling
    BY <2>1, <2>2 DEF Moves
  <2>5. CASE at[<<w, P>>] = "compensate"
    BY <2>2, <2>3, <2>4, <2>5 DEF Settling, SameJob, Payment, Handling
  <2>6. CASE at[<<w, P>>] # "compensate"
    <3>1. \A v \in Workers : at[<<v, P>>] = "compensate" => at'[<<v, P>>] = "compensate"
      BY <2>1, <2>6 DEF Moves
    <3> QED BY <2>2, <2>3, <2>4, <3>1 DEF Settling, SameJob, Payment, Handling
  <2> QED BY <2>5, <2>6
<1> QED BY <1>1, <1>2 DEF Pay

LEMMA SettlingStep ==
  ASSUME Attended, TypeOK, [Next]_vars, NEW o \in Orders, Delivery(o), Settling(o)
  PROVE  Settling(o)'
<1> USE JobFacts, PaymentType
<1>1. ASSUME NEW x \in Orders, Submit(x) PROVE Settling(o)'
  <2>1. SameJob(o) /\ SamePlaces(o) /\ Onward(o)
    BY <1>1 DEF Submit, queue, SameJob, SamePlaces, Onward, TypeOK
  <2> QED BY <2>1, StillSettling
<1>2. ASSUME NEW x \in Orders, EnqueueProcess(x) PROVE Settling(o)'
  <2>1. /\ SamePlaces(o) /\ stalls'[Payment(o)] = stalls[Payment(o)] /\ status'[o] = status[o]
        /\ \/ job'[Payment(o)] = job[Payment(o)]
           \/ status[o] = "pending" /\ job'[Payment(o)] = "waiting"
    BY <1>2 DEF EnqueueProcess, docs, SamePlaces, Payment, TypeOK
  <2> QED BY <2>1 DEF Settling, SamePlaces, Payment
<1>3. ASSUME NEW j \in Jobs, Stall(j) PROVE Settling(o)'
  <2>1. j # Payment(o)
    <3> SUFFICES ASSUME j = Payment(o) PROVE FALSE
      OBVIOUS
    <3>1. job[Payment(o)] = "active" /\ at[<<lock[Payment(o)], Payment(o)>>] = "off"
      BY <1>3 DEF Stall, Attended
    <3> QED BY <3>1 DEF Settling, Delivery, Solo, Handling
  <2>2. SameJob(o) /\ SamePlaces(o) /\ Onward(o)
    BY <1>3, <2>1 DEF Stall, docs, SameJob, SamePlaces, Onward, TypeOK
  <2> QED BY <2>2, StillSettling
<1>4. ASSUME NEW j \in Jobs, NEW w \in Workers,
             Take(w, j) \/ FailStalled(w, j) \/ Run(w, j) \/ Throw(w, j)
      PROVE  Settling(o)'
  <2>1. CASE j # Payment(o)
    <3>1. Onward(o)
      <4>1. CASE SetStatus(w, j)
        BY <2>1, <4>1, LaterStages DEF Progress, Onward
      <4>2. CASE UNCHANGED status
        BY <4>2 DEF Onward
      <4> QED BY <1>4, <4>1, <4>2
          DEF Take, FailStalled, Run, Gate, HandOn, AttemptFails, Complete, Throw, docs
    <3>2. SameJob(o) /\ SamePlaces(o)
      BY <1>4, <2>1, Elsewhere DEF Still
    <3> QED BY <3>1, <3>2, StillSettling
  <2>2. CASE j = Payment(o)
    BY <1>4, <2>2, OwnSettling
  <2> QED BY <2>1, <2>2
<1>5. ASSUME NEW w \in Workers, NEW x \in Orders, Pay(w, x) PROVE Settling(o)'
  <2>1. CASE x # o
    <3>1. Onward(o)
      BY <1>5, <2>1 DEF Pay, SaveAttempt, ChargePayment, Compensate, GiveBack, docs, Onward, TypeOK
    <3>2. SameJob(o) /\ SamePlaces(o)
      BY <1>5, <2>1, PayElsewhere DEF Still
    <3> QED BY <3>1, <3>2, StillSettling
  <2>2. CASE x = o
    BY <1>5, <2>2, PaySettling
  <2> QED BY <2>1, <2>2
<1>6. ASSUME NEW w \in Workers, Crash(w) PROVE FALSE
  BY <1>6 DEF Crash, Attended
<1>7. CASE UNCHANGED vars
  BY <1>7, StillSettling DEF vars, SameJob, SamePlaces, Onward
<1> QED BY <1>1, <1>2, <1>3, <1>4, <1>5, <1>6, <1>7 DEF Next

(* A payment job that fails for good leaves no order pending for ever,     *)
(* while no Mongo call throws without effect, locks are kept and workers   *)
(* live: the listener takes that failure for the last one and compensates. *)
THEOREM ExhaustedCompensated == ASSUME Attended PROVE Spec => []ExhaustedIsCompensated
<1>1. Init => SettleInv
  <2> SUFFICES ASSUME Init, NEW o \in Orders PROVE Settling(o)
    BY PayInvInit DEF SettleInv
  <2>1. /\ status[o] = "none" /\ job[Payment(o)] = "absent" /\ stalls[Payment(o)] = 0
    BY JobFacts DEF Init, Payment
  <2> QED BY <2>1 DEF Settling
<1>2. SettleInv /\ [Next]_vars => SettleInv'
  <2> SUFFICES ASSUME SettleInv, [Next]_vars PROVE SettleInv'
    OBVIOUS
  <2>1. PayInv'
    BY PayInvStep DEF SettleInv, Attended, LockKept
  <2>2. ASSUME NEW o \in Orders PROVE Settling(o)'
    BY SettlingStep DEF SettleInv, PayInv, Delivery
  <2> QED BY <2>1, <2>2 DEF SettleInv
<1>3. SettleInv => ExhaustedIsCompensated
  BY DEF SettleInv, Settling, ExhaustedIsCompensated, Compensating, Payment
<1> QED BY <1>1, <1>2, <1>3, PTL DEF Spec

(* While every call is answered truly, locks are kept and workers live, a  *)
(* payment that fails for good is taken for lost by the listener, and a    *)
(* failed order has its units back or a compensation about to return them. *)
THEOREM FailuresCompensated == ASSUME Attended, Answered PROVE Spec => []FailedIsCompensated
<1>1. FailedIsRefunded /\ ExhaustedIsCompensated => FailedIsCompensated
  BY DEF FailedIsCompensated
<1> QED BY <1>1, FailedRefunded, ExhaustedCompensated, PTL

=============================================================================
