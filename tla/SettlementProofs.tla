-------------------------- MODULE SettlementProofs --------------------------
(***************************************************************************)
(* What OrdersAreSettled owes to safety: no order whose job was added comes*)
(* to rest half way.  That something under way goes on is fairness, which  *)
(* is TLC's; that nothing drops out of sight while it is under way is      *)
(* proved here, for any number of orders, workers and attempts.            *)
(***************************************************************************)
EXTENDS PaymentProofs

(* An active job has a handler, the one that holds its lock; no other job  *)
(* has one, and none stalls.                                               *)
Manned(j) ==
  /\ stalls[j] = 0
  /\ job[j] # "active" => lock[j] = NoLock
  /\ job[j] = "active" => \E w \in Workers : at[<<w, j>>] \in Handling
  /\ \A w \in Workers : at[<<w, j>>] \in Handling => lock[j] = w

(* The statuses of an order that no job of the stage is there for.         *)
Early == [process |-> {"none"},
          fulfill |-> {"none", "pending", "failed"},
          notify |-> {"none", "pending", "paid", "failed"}]

(* A stage's job is there once the stage is due, and ends when it is not   *)
(* due any more; only a payment may give up before.  Who has set a status  *)
(* and did not hand on yet is the one the order waits for.                 *)
Abreast(j) ==
  /\ job[j] # "absent" => status[j[2]] \notin Early[j[1]]
  /\ job[j] = "completed" => ~Due(j)
  /\ job[j] = "failed" => ~Due(j) \/ j[1] = "process"
  /\ \A w \in Workers :
       /\ at[<<w, j>>] = "done" => ~Due(j)
       /\ at[<<w, j>>] = "thrown" => ~Due(j) \/ j[1] = "process"
       /\ at[<<w, j>>] = "hand_on" =>
            status[j[2]] = To[j[1]] /\ \A k \in NextJob(j) : job[k] = "absent"

Tended(j) == Manned(j) /\ Abreast(j)

TendInv == TypeOK /\ \A j \in Jobs : Tended(j)

-----------------------------------------------------------------------------
(* What steps do to a job.                                                 *)

SameQueue(j) == job'[j] = job[j] /\ stalls'[j] = stalls[j] /\ lock'[j] = lock[j]

SameHandlers(j) == \A v \in Workers : at'[<<v, j>>] = at[<<v, j>>]

GoesTo(w, j, p) == \A v \in Workers : at'[<<v, j>>] = IF v = w THEN p ELSE at[<<v, j>>]

(* A status moves along the stages, or from pending to failed.             *)
Advances(o) ==
  \/ status'[o] = status[o]
  \/ status[o] = "none" /\ status'[o] = "pending"
  \/ status[o] = "pending" /\ status'[o] \in {"paid", "failed"}
  \/ status[o] = "paid" /\ status'[o] = "fulfilled"
  \/ status[o] = "fulfilled" /\ status'[o] = "confirmed"

LEMMA GotoGoes ==
  ASSUME TypeOK, NEW w \in Workers, NEW j \in Jobs, NEW p, Goto(w, j, p)
  PROVE  GoesTo(w, j, p) /\ \A k \in Jobs : k # j => SameHandlers(k)
BY JobFacts DEF TypeOK, Goto, GoesTo, SameHandlers

LEMMA StageOf ==
  ASSUME NEW j \in Jobs
  PROVE  /\ j[2] \in Orders
         /\ \/ j[1] = "process" /\ NextJob(j) = {<<"fulfill", j[2]>>}
            \/ j[1] = "fulfill" /\ NextJob(j) = {<<"notify", j[2]>>}
            \/ j[1] = "notify" /\ NextJob(j) = {}
BY JobFacts DEF Stages, NextJob

(* A job that a step does not touch stays tended while its order advances, *)
(* unless its handler is about to hand on.                                 *)
LEMMA TendedAside ==
  ASSUME TypeOK, NEW j \in Jobs, Tended(j), SameQueue(j), SameHandlers(j), Advances(j[2]),
         \A v \in Workers : at[<<v, j>>] = "hand_on" =>
           /\ status'[j[2]] = status[j[2]]
           /\ \A k \in NextJob(j) : job'[k] = job[k]
  PROVE  Tended(j)'
<1>1. Manned(j)'
  BY DEF Tended, Manned, SameQueue, SameHandlers
<1>2. job[j] # "absent" => status'[j[2]] \notin Early[j[1]] /\ (Due(j)' => Due(j))
  BY StageOf DEF Tended, Abreast, Advances, Early, Due, From
<1>3. \A v \in Workers : at[<<v, j>>] \in Handling => job[j] # "absent"
  BY PipelineAssumption DEF Tended, Manned
<1>4. \A v \in Workers : at[<<v, j>>] \in {"done", "thrown"} => (Due(j)' => Due(j))
  BY <1>2, <1>3 DEF Handling
<1>5. Abreast(j)'
  BY <1>2, <1>4 DEF Tended, Abreast, SameQueue, SameHandlers
<1> QED BY <1>1, <1>5 DEF Tended

(* A running handler goes from one await to the next.                      *)
LEMMA TendedMove ==
  ASSUME TypeOK, NEW j \in Jobs, Tended(j), NEW w \in Workers, NEW p \in Handling,
         at[<<w, j>>] \in Handling, GoesTo(w, j, p), SameQueue(j),
         status'[j[2]] \notin Early[j[1]],
         p = "done" => ~Due(j)',
         p = "thrown" => ~Due(j)' \/ j[1] = "process",
         p = "hand_on" =>
           status'[j[2]] = To[j[1]] /\ \A k \in NextJob(j) : job'[k] = "absent"
  PROVE  Tended(j)'
<1>1. lock[j] = w /\ job[j] = "active"
  BY PipelineAssumption DEF Tended, Manned
<1>2. \A v \in Workers : at'[<<v, j>>] \in Handling => v = w /\ at'[<<v, j>>] = p
  BY <1>1 DEF Tended, Manned, GoesTo
<1>3. at'[<<w, j>>] = p
  BY DEF GoesTo
<1>4. Manned(j)'
  BY <1>1, <1>2, <1>3 DEF Tended, Manned, SameQueue
<1>5. Abreast(j)'
  BY <1>1, <1>2 DEF Abreast, SameQueue, Handling
<1> QED BY <1>4, <1>5 DEF Tended

(* A job that no handler runs any more.                                    *)
LEMMA TendedIdle ==
  ASSUME NEW j \in Jobs, Tended(j), NEW w \in Workers, NEW p, p \notin Handling,
         GoesTo(w, j, p), \A v \in Workers : at[<<v, j>>] \in Handling => v = w,
         stalls'[j] = stalls[j], lock'[j] = NoLock,
         job'[j] \in {"waiting", "completed", "failed"},
         status'[j[2]] \notin Early[j[1]],
         job'[j] = "completed" => ~Due(j)',
         job'[j] = "failed" => ~Due(j)' \/ j[1] = "process"
  PROVE  Tended(j)'
<1>1. \A v \in Workers : at'[<<v, j>>] \notin Handling
  BY DEF GoesTo
<1>2. Manned(j)'
  BY <1>1 DEF Tended, Manned
<1>3. Abreast(j)'
  BY <1>1 DEF Abreast, Handling
<1> QED BY <1>2, <1>3 DEF Tended

-----------------------------------------------------------------------------
(* A step of BullMQ or of a handler, for the job it is about.              *)

(* While handlers keep their locks and workers live, no job stalls.        *)
LEMMA NoStalls ==
  ASSUME Attended, NEW j \in Jobs, Tended(j)
  PROVE  ~Stall(j) /\ \A w \in Workers : ~FailStalled(w, j)
<1>1. ASSUME Stall(j) PROVE FALSE
  <2>1. job[j] = "active" /\ at[<<lock[j], j>>] = "off"
    BY <1>1 DEF Stall, Attended
  <2>2. PICK w \in Workers : at[<<w, j>>] \in Handling /\ lock[j] = w
    BY <2>1 DEF Tended, Manned
  <2> QED BY <2>1, <2>2 DEF Handling
<1>2. ASSUME NEW w \in Workers, FailStalled(w, j) PROVE FALSE
  BY <1>2, PipelineAssumption DEF FailStalled, Tended, Manned
<1> QED BY <1>1, <1>2

(* Who handles a job is alone, its job active and its stage reached.       *)
LEMMA Handler ==
  ASSUME NEW j \in Jobs, Tended(j), NEW w \in Workers, at[<<w, j>>] \in Handling
  PROVE  /\ lock[j] = w /\ job[j] = "active"
         /\ \A v \in Workers : at[<<v, j>>] \in Handling => v = w
         /\ status[j[2]] \notin Early[j[1]]
BY PipelineAssumption DEF Tended, Manned, Abreast

LEMMA SetAdvances ==
  ASSUME TypeOK, NEW j \in Jobs, NEW w \in Workers, SetStatus(w, j)
  PROVE  /\ \A o \in Orders : Advances(o)
         /\ \A o \in Orders : o # j[2] => status'[o] = status[o]
         /\ \/ status' = status /\ ~Due(j) /\ Goto(w, j, "done")
            \/ /\ Due(j) /\ status'[j[2]] = To[j[1]]
               /\ Goto(w, j, "hand_on") \/ Goto(w, j, "thrown")
<1>1. CASE ~Matches(j)
  BY <1>1 DEF SetStatus, Matches, Due, Advances
<1>2. CASE Matches(j)
  <2>1. status' = [status EXCEPT ![j[2]] = To[j[1]]]
    BY <1>2 DEF SetStatus
  <2>2. \A o \in Orders : status'[o] = IF o = j[2] THEN To[j[1]] ELSE status[o]
    BY <2>1 DEF TypeOK
  <2>3. Advances(j[2])
    BY <1>2, <2>2, StageOf DEF Matches, From, To, Advances
  <2>4. Goto(w, j, "hand_on") \/ Goto(w, j, "thrown")
    BY <1>2 DEF SetStatus
  <2> QED BY <1>2, <2>2, <2>3, <2>4, StageOf DEF Advances, Matches, Due
<1> QED BY <1>1, <1>2

(* The job that BullMQ hands out, or that a handler is at, stays tended.   *)
LEMMA OwnTended ==
  ASSUME Attended, TendInv, NEW j \in Jobs, NEW w \in Workers,
         Take(w, j) \/ Run(w, j) \/ Throw(w, j)
  PROVE  Tended(j)'
<1>0. TypeOK /\ Tended(j)
  BY DEF TendInv
<1> USE <1>0, GotoGoes, PipelineAssumption
<1>1. CASE Take(w, j)
  <2>1. /\ GoesTo(w, j, "gate") /\ UNCHANGED <<status, stalls>>
        /\ job[j] = "waiting" /\ job'[j] = "active" /\ lock'[j] = w
    BY <1>1 DEF Take, docs, TypeOK
  <2>2. \A v \in Workers : at[<<v, j>>] \notin Handling
    BY <2>1 DEF Tended, Manned
  <2>3. Manned(j)'
    BY <2>1, <2>2 DEF Tended, Manned, GoesTo, Handling
  <2>4. Abreast(j)'
    BY <2>1, <2>2 DEF Tended, Abreast, GoesTo, Handling, Due
  <2> QED BY <2>3, <2>4 DEF Tended
<1>2. CASE Gate(w, j)
  <2>1. at[<<w, j>>] = "gate" /\ UNCHANGED status /\ SameQueue(j)
    BY <1>2 DEF Gate, docs, queue, SameQueue
  <2>2. PICK p \in {"done", "save", "set"} : GoesTo(w, j, p) /\ (p = "done" => ~Due(j)')
    BY <1>2, <2>1 DEF Gate, Passes, Due
  <2> QED BY <2>1, <2>2, Handler, TendedMove DEF Handling
<1>3. CASE SetStatus(w, j)
  <2>1. at[<<w, j>>] = "set" /\ job' = job /\ SameQueue(j)
    BY <1>3 DEF SetStatus, queue, SameQueue
  <2>2. status[j[2]] \notin Early[j[1]]
    BY <2>1, Handler DEF Handling
  <2>3. CASE status' = status /\ ~Due(j) /\ Goto(w, j, "done")
    BY <2>1, <2>2, <2>3, TendedMove DEF Handling, Due
  <2>4. CASE Due(j) /\ status'[j[2]] = To[j[1]]
    <3>1. status'[j[2]] \notin Early[j[1]] /\ ~Due(j)'
      BY <2>4, StageOf DEF Early, To, From, Due
    <3>2. \A k \in NextJob(j) : k \in Jobs /\ Tended(k) /\ status[j[2]] \in Early[k[1]] /\ k[2] = j[2]
      BY <2>4, StageOf, JobFacts DEF TendInv, Stages, Due, From, Early
    <3>3. \A k \in NextJob(j) : job'[k] = "absent"
      BY <2>1, <3>2 DEF Tended, Abreast
    <3>4. PICK p \in {"hand_on", "thrown"} : GoesTo(w, j, p)
      BY <1>3, SetAdvances, <2>4
    <3> QED BY <2>1, <2>4, <3>1, <3>3, <3>4, TendedMove DEF Handling
  <2> QED BY <1>3, <2>3, <2>4, SetAdvances
<1>4. CASE HandOn(w, j)
  <2>1. at[<<w, j>>] = "hand_on" /\ UNCHANGED status /\ GoesTo(w, j, "done")
    BY <1>4 DEF HandOn, docs
  <2>2. j \notin NextJob(j)
    BY StageOf
  <2>3. SameQueue(j)
    BY <1>4, <2>2 DEF HandOn, SameQueue
  <2>4. status[j[2]] = To[j[1]]
    BY <2>1 DEF Tended, Abreast
  <2>5. ~Due(j)'
    BY <2>1, <2>4, StageOf DEF Due, From, To
  <2> QED BY <2>1, <2>3, <2>5, Handler, TendedMove DEF Handling
<1>5. CASE Throw(w, j)
  <2>1. at[<<w, j>>] = "hand_on" /\ UNCHANGED status /\ GoesTo(w, j, "thrown")
    BY <1>5 DEF Throw, docs, Attended
  <2>2. SameQueue(j)
    BY <1>5 DEF Throw, queue, SameQueue
  <2>3. status[j[2]] = To[j[1]]
    BY <2>1 DEF Tended, Abreast
  <2>4. ~Due(j)'
    BY <2>1, <2>3, StageOf DEF Due, From, To
  <2> QED BY <2>1, <2>2, <2>4, Handler, TendedMove DEF Handling
<1>6. CASE AttemptFails(w, j)
  <2>1. at[<<w, j>>] = "thrown" /\ UNCHANGED <<status, stalls>>
    BY <1>6 DEF AttemptFails, docs
  <2>2. lock[j] = w
    BY <2>1, Handler DEF Handling
  <2>3. job'[j] \in {"waiting", "failed"} /\ lock'[j] = NoLock
    BY <1>6, <2>2 DEF AttemptFails, TypeOK
  <2>4. PICK p \in {"compensate", "off"} : GoesTo(w, j, p)
    BY <1>6, <2>2 DEF AttemptFails
  <2>5. ~Due(j)' \/ j[1] = "process"
    BY <2>1 DEF Tended, Abreast, Due
  <2> QED BY <2>1, <2>3, <2>4, <2>5, Handler, TendedIdle DEF Handling
<1>7. CASE Complete(w, j)
  <2>1. at[<<w, j>>] = "done" /\ UNCHANGED <<status, stalls>> /\ GoesTo(w, j, "off")
    BY <1>7 DEF Complete, docs
  <2>2. lock[j] = w
    BY <2>1, Handler DEF Handling
  <2>3. job'[j] = "completed" /\ lock'[j] = NoLock
    BY <1>7, <2>2 DEF Complete, TypeOK
  <2>4. ~Due(j)'
    BY <2>1 DEF Tended, Abreast, Due
  <2> QED BY <2>1, <2>3, <2>4, Handler, TendedIdle DEF Handling
<1> QED BY <1>1, <1>2, <1>3, <1>4, <1>5, <1>6, <1>7 DEF Run

(* The next stage's job, which is not there before its stage is due.       *)
LEMMA HandedOn ==
  ASSUME TendInv, NEW j \in Jobs, NEW w \in Workers, HandOn(w, j), NEW k \in NextJob(j)
  PROVE  k \in Jobs /\ Tended(k)'
<1>1. k \in Jobs /\ k # j /\ k[2] = j[2]
  BY StageOf, JobFacts DEF Stages
<1>2. TypeOK /\ Tended(j) /\ Tended(k)
  BY <1>1 DEF TendInv
<1>3. at[<<w, j>>] = "hand_on" /\ UNCHANGED <<status, stalls, lock>> /\ job'[k] = "waiting"
  BY <1>1 DEF HandOn, docs
<1>4. status[j[2]] = To[j[1]] /\ job[k] = "absent"
  BY <1>2, <1>3 DEF Tended, Abreast
<1>5. SameHandlers(k) /\ \A v \in Workers : at[<<v, k>>] \notin Handling
  BY <1>1, <1>2, <1>3, <1>4, GotoGoes, PipelineAssumption DEF HandOn, Tended, Manned
<1>6. status'[k[2]] \notin Early[k[1]]
  BY <1>1, <1>3, <1>4, StageOf DEF Early, To
<1>7. Manned(k)'
  BY <1>2, <1>3, <1>4, <1>5 DEF Tended, Manned, SameHandlers
<1>8. Abreast(k)'
  BY <1>3, <1>5, <1>6 DEF Abreast, SameHandlers, Handling
<1> QED BY <1>1, <1>7, <1>8 DEF Tended

(* Nobody sets the status of an order another handler of which has still to*)
(* hand on: the next stage's job is not there yet.                         *)
LEMMA OnlyAfterHandOn ==
  ASSUME TendInv, NEW j \in Jobs, NEW k \in Jobs, k # j, NEW w \in Workers, NEW v \in Workers,
         at[<<w, j>>] = "set", at[<<v, k>>] = "hand_on", Due(j)
  PROVE  j[2] # k[2]
<1> SUFFICES ASSUME j[2] = k[2] PROVE FALSE
  OBVIOUS
<1>1. Tended(j) /\ Tended(k)
  BY DEF TendInv
<1>2. From[j[1]] = To[k[1]]
  BY <1>1 DEF Tended, Abreast, Due
<1>3. j \in NextJob(k)
  BY <1>2, StageOf, JobFacts DEF From, To
<1>4. job[j] = "absent"
  BY <1>1, <1>3 DEF Tended, Abreast
<1> QED BY <1>1, <1>4, Handler DEF Handling

LEMMA OthersTended ==
  ASSUME TendInv, NEW j \in Jobs, NEW w \in Workers, Take(w, j) \/ Run(w, j) \/ Throw(w, j),
         NEW k \in Jobs, k # j
  PROVE  Tended(k)'
<1>0. TypeOK /\ Tended(k) /\ Tended(j)
  BY DEF TendInv
<1> USE <1>0
<1>1. PICK p : Goto(w, j, p)
  BY DEF Take, Run, Throw, Gate, SetStatus, HandOn, AttemptFails, Complete
<1>2. SameHandlers(k)
  BY <1>1, GotoGoes
<1>3. \A i \in NextJob(k) : i \in Jobs
  BY StageOf, JobFacts DEF Stages
<1>4. CASE SetStatus(w, j)
  <2>1. job' = job /\ SameQueue(k) /\ at[<<w, j>>] = "set"
    BY <1>4 DEF SetStatus, queue, SameQueue
  <2>2. Advances(k[2])
    BY <1>4, SetAdvances, StageOf
  <2>3. \A v \in Workers : at[<<v, k>>] = "hand_on" => status'[k[2]] = status[k[2]]
    BY <1>4, <2>1, OnlyAfterHandOn, SetAdvances, StageOf
  <2> QED BY <1>2, <2>1, <2>2, <2>3, TendedAside
<1>5. CASE HandOn(w, j)
  <2>1. CASE k \in NextJob(j)
    BY <1>5, <2>1, HandedOn
  <2>2. CASE k \notin NextJob(j)
    <3>1. \A i \in NextJob(k) : job'[i] = job[i]
      <4>1. \A i \in NextJob(k) : i \notin NextJob(j)
        BY StageOf, JobFacts
      <4> QED BY <1>3, <1>5, <4>1 DEF HandOn
    <3>2. SameQueue(k) /\ UNCHANGED status
      BY <1>5, <2>2 DEF HandOn, SameQueue, docs
    <3> QED BY <1>2, <3>1, <3>2, TendedAside DEF Advances
  <2> QED BY <2>1, <2>2
<1>6. CASE ~SetStatus(w, j) /\ ~HandOn(w, j)
  <2>1. UNCHANGED status
    BY <1>6 DEF Take, Run, Throw, Gate, AttemptFails, Complete, docs
  <2>2. \A i \in Jobs : i # j => SameQueue(i)
    BY <1>6 DEF Take, Run, Throw, Gate, AttemptFails, Complete, queue, SameQueue, TypeOK
  <2>3. \A v \in Workers : at[<<v, k>>] = "hand_on" => \A i \in NextJob(k) : job'[i] = job[i]
    <3> SUFFICES ASSUME NEW v \in Workers, at[<<v, k>>] = "hand_on", NEW i \in NextJob(k)
                 PROVE  job'[i] = job[i]
      OBVIOUS
    <3>1. job[i] = "absent" /\ i \in Jobs
      BY <1>3 DEF Tended, Abreast
    <3>2. job[j] # "absent"
      <4>1. CASE Take(w, j)
        BY <4>1 DEF Take
      <4>2. CASE ~Take(w, j)
        <5>1. at[<<w, j>>] \in Handling
          BY <1>6, <4>2 DEF Run, Throw, Gate, AttemptFails, Complete, Handling
        <5> QED BY <5>1, Handler
      <4> QED BY <4>1, <4>2
    <3> QED BY <2>2, <3>1, <3>2 DEF SameQueue
  <2> QED BY <1>2, <2>1, <2>2, <2>3, TendedAside DEF Advances
<1> QED BY <1>4, <1>5, <1>6

-----------------------------------------------------------------------------
(* The payment's own awaits, and the steps of the api.                     *)

LEMMA PayTended ==
  ASSUME TendInv, NEW o \in Orders, NEW w \in Workers, Pay(w, o), NEW k \in Jobs
  PROVE  Tended(k)'
<1> DEFINE P == <<"process", o>>
<1>0. TypeOK /\ Tended(k) /\ P \in Jobs /\ Tended(P)
  BY JobFacts DEF TendInv
<1> USE <1>0
<1>1. job' = job /\ SameQueue(k)
  BY DEF Pay, SaveAttempt, ChargePayment, Compensate, GiveBack, queue, SameQueue
<1>2. CASE SaveAttempt(w, o) \/ ChargePayment(w, o)
  <2>1. at[<<w, P>>] \in Handling /\ UNCHANGED status
    BY <1>2 DEF SaveAttempt, ChargePayment, docs, Handling
  <2>2. PICK p \in {"charge", "thrown", "set"} : Goto(w, P, p)
    BY <1>2 DEF SaveAttempt, ChargePayment, Declined
  <2>3. CASE k = P
    BY <1>1, <2>1, <2>2, <2>3, GotoGoes, Handler, TendedMove DEF Handling
  <2>4. CASE k # P
    BY <1>1, <2>1, <2>2, <2>4, GotoGoes, TendedAside DEF Advances
  <2> QED BY <2>3, <2>4
<1>3. CASE Compensate(w, o) \/ GiveBack(w, o)
  <2>1. at[<<w, P>>] \in {"compensate", "give_back"}
    BY <1>3 DEF Compensate, GiveBack
  <2>2. PICK p \in {"give_back", "off"} : Goto(w, P, p)
    BY <1>3 DEF Compensate, GiveBack
  <2>3. \/ UNCHANGED status
        \/ status[o] = "pending" /\ status' = [status EXCEPT ![o] = "failed"]
    BY <1>3 DEF Compensate, GiveBack, Compensable, docs
  <2>4. Advances(k[2]) /\ (status[k[2]] # "pending" => status'[k[2]] = status[k[2]])
    BY <2>3, StageOf DEF Advances, TypeOK
  <2>5. \A v \in Workers : at[<<v, k>>] = "hand_on" => status[k[2]] # "pending"
    BY StageOf DEF Tended, Abreast, To
  <2>6. CASE k = P
    <3>1. GoesTo(w, k, p)
      BY <2>2, <2>6, GotoGoes
    <3>2. \A v \in Workers : at'[<<v, k>>] \in Handling \/ at[<<v, k>>] \in Handling =>
            at'[<<v, k>>] = at[<<v, k>>]
      BY <2>1, <2>6, <3>1 DEF GoesTo, Handling
    <3>3. Manned(k)'
      BY <1>1, <3>2 DEF Tended, Manned, SameQueue
    <3>4. status'[k[2]] \notin Early[k[1]] \/ job[k] = "absent"
      BY <2>4, <2>6 DEF Tended, Abreast, Advances, Early
    <3>5. Due(k)' => Due(k)
      BY <2>3, <2>6 DEF Due, From, TypeOK
    <3>6. Abreast(k)'
      BY <1>1, <2>4, <2>5, <3>2, <3>4, <3>5 DEF Tended, Abreast, SameQueue, Handling
    <3> QED BY <3>3, <3>6 DEF Tended
  <2>7. CASE k # P
    BY <1>1, <2>2, <2>4, <2>5, <2>7, GotoGoes, TendedAside
  <2> QED BY <2>6, <2>7
<1> QED BY <1>2, <1>3 DEF Pay

LEMMA ApiTended ==
  ASSUME TendInv, NEW o \in Orders, Submit(o) \/ EnqueueProcess(o), NEW k \in Jobs
  PROVE  Tended(k)'
<1>0. TypeOK /\ Tended(k) /\ SameHandlers(k)
  BY DEF TendInv, Submit, EnqueueProcess, SameHandlers
<1> USE <1>0
<1>1. CASE Submit(o)
  <2>1. job' = job /\ SameQueue(k)
    BY <1>1 DEF Submit, queue, SameQueue
  <2>2. Advances(k[2]) /\ (status[k[2]] # "none" => status'[k[2]] = status[k[2]])
    BY <1>1, StageOf DEF Submit, Advances, TypeOK
  <2>3. \A v \in Workers : at[<<v, k>>] = "hand_on" => status[k[2]] # "none"
    BY StageOf DEF Tended, Abreast, To
  <2> QED BY <2>1, <2>2, <2>3, TendedAside
<1>2. CASE EnqueueProcess(o)
  <2>1. UNCHANGED <<status, stalls, lock>>
    BY <1>2 DEF EnqueueProcess, docs
  <2>2. CASE k = <<"process", o>>
    <3>1. job[k] = "absent" /\ job'[k] = "waiting" /\ status[k[2]] = "pending"
      BY <1>2, <2>2 DEF EnqueueProcess, TypeOK
    <3>2. \A v \in Workers : at[<<v, k>>] \notin Handling
      BY <3>1, Handler
    <3>3. Manned(k)'
      BY <2>1, <3>1, <3>2 DEF Tended, Manned, SameHandlers
    <3>4. Abreast(k)'
      BY <2>1, <2>2, <3>1, <3>2 DEF Abreast, SameHandlers, Handling, Early
    <3> QED BY <3>3, <3>4 DEF Tended
  <2>3. CASE k # <<"process", o>>
    <3>1. \A i \in NextJob(k) : job'[i] = job[i]
      BY <1>2, StageOf, JobFacts DEF EnqueueProcess, TypeOK, Stages
    <3>2. SameQueue(k)
      BY <1>2, <2>1, <2>3 DEF EnqueueProcess, SameQueue, TypeOK
    <3> QED BY <2>1, <3>1, <3>2, TendedAside DEF Advances
  <2> QED BY <2>2, <2>3
<1> QED BY <1>1, <1>2

LEMMA TendStep == ASSUME Attended PROVE TendInv /\ [Next]_vars => TendInv'
<1> SUFFICES ASSUME TendInv, [Next]_vars, NEW k \in Jobs PROVE Tended(k)'
  BY TypeStep DEF TendInv
<1>1. ASSUME NEW o \in Orders, Submit(o) \/ EnqueueProcess(o) PROVE Tended(k)'
  BY <1>1, ApiTended
<1>2. ASSUME NEW j \in Jobs, Stall(j) PROVE FALSE
  BY <1>2, NoStalls DEF TendInv
<1>3. ASSUME NEW j \in Jobs, NEW w \in Workers,
             Take(w, j) \/ FailStalled(w, j) \/ Run(w, j) \/ Throw(w, j)
      PROVE  Tended(k)'
  <2>1. Take(w, j) \/ Run(w, j) \/ Throw(w, j)
    BY <1>3, NoStalls DEF TendInv
  <2> QED BY <2>1, OwnTended, OthersTended
<1>4. ASSUME NEW w \in Workers, NEW o \in Orders, Pay(w, o) PROVE Tended(k)'
  BY <1>4, PayTended
<1>5. ASSUME NEW w \in Workers, Crash(w) PROVE FALSE
  BY <1>5 DEF Crash, Attended
<1>6. CASE UNCHANGED vars
  BY <1>6 DEF TendInv, Tended, Manned, Abreast, Due, vars
<1> QED BY <1>1, <1>2, <1>3, <1>4, <1>5, <1>6 DEF Next

LEMMA TendInit == Init => TendInv
<1> SUFFICES ASSUME Init, NEW j \in Jobs PROVE Tended(j)
  BY TypeInit DEF TendInv
<1>1. job[j] = "absent" /\ lock[j] = NoLock /\ stalls[j] = 0
  BY DEF Init
<1>2. \A w \in Workers : at[<<w, j>>] = "off"
  BY JobFacts DEF Init
<1> QED BY <1>1, <1>2 DEF Tended, Manned, Abreast, Handling

(* While no Mongo call throws without effect, locks are kept and workers   *)
(* live, every stage's job keeps up with its order: one handler at most, no*)
(* stall, no end before the stage's status is set.                         *)
THEOREM JobsTended == ASSUME Attended PROVE Spec => []TendInv
BY TendInit, TendStep, PTL DEF Spec

-----------------------------------------------------------------------------
(* Where an order comes to rest, half way or not.                          *)

RestIsAnEnd ==
  \A o \in Orders : AtRest(o) => status[o] \in {"confirmed", "failed"} \/ Stranded(o)

(* The safety half of OrdersAreSettled: an order never comes to rest half  *)
(* way, except where a failing publish or add left it.                     *)
THEOREM NoneForgotten == ASSUME Attended PROVE Spec => []RestIsAnEnd
<1>1. TendInv /\ ExhaustedIsCompensated => RestIsAnEnd
  <2> SUFFICES ASSUME TendInv, ExhaustedIsCompensated, NEW o \in Orders, AtRest(o)
               PROVE  status[o] \in {"confirmed", "failed"} \/ Stranded(o)
    BY DEF RestIsAnEnd
  <2> DEFINE P == <<"process", o>>
             F == <<"fulfill", o>>
             N == <<"notify", o>>
  <2>1. /\ P \in Jobs /\ F \in Jobs /\ N \in Jobs
        /\ Tended(P) /\ Tended(F) /\ Tended(N)
    BY JobFacts DEF TendInv, Stages
  <2>2. /\ job[P] \in {"completed", "failed"}
        /\ job[F] \in {"absent", "completed", "failed"}
        /\ job[N] \in {"absent", "completed", "failed"}
    BY <2>1 DEF AtRest, Unfinished, Stages, TendInv, TypeOK, JobStates
  <2>3. status[o] \notin {"none", "pending"}
    BY <2>1, <2>2 DEF Tended, Abreast, Early, Due, From, ExhaustedIsCompensated, AtRest
  <2>4. status[o] = "paid" => job[F] = "absent"
    BY <2>1, <2>2 DEF Tended, Abreast, Due, From
  <2>5. status[o] = "fulfilled" => job[N] = "absent"
    BY <2>1, <2>2 DEF Tended, Abreast, Due, From
  <2> QED BY <2>3, <2>4, <2>5 DEF Stranded, TendInv, TypeOK
<1> QED BY <1>1, JobsTended, ExhaustedCompensated, PTL

-----------------------------------------------------------------------------
(* Without failing calls no order is stranded either.                      *)

Declines == Troubles \subseteq {"decline"}

(* A status that was set and whose next job is not there yet has a handler *)
(* that is about to add it.                                                *)
Handed(j) ==
  status[j[2]] = To[j[1]] /\ NextJob(j) # {} /\ (\A k \in NextJob(j) : job[k] = "absent") =>
    \E w \in Workers : at[<<w, j>>] = "hand_on"

LEMMA HandedStep ==
  ASSUME Declines, TypeOK, [Next]_vars, NEW j \in Jobs, Handed(j)
  PROVE  Handed(j)'
<1>0. \A k \in NextJob(j) : k \in Jobs
  BY StageOf, JobFacts DEF Stages
<1> DEFINE Kept == \A v \in Workers : at[<<v, j>>] = "hand_on" => at'[<<v, j>>] = "hand_on"
           NoNewStatus == status'[j[2]] = To[j[1]] => status[j[2]] = To[j[1]]
           NoneGone == \A k \in NextJob(j) : job'[k] = "absent" => job[k] = "absent"
<1>1. Kept /\ NoNewStatus /\ NoneGone => Handed(j)'
  BY DEF Handed
<1>2. ASSUME NEW o \in Orders, Submit(o) \/ EnqueueProcess(o) PROVE Handed(j)'
  <2>1. Kept /\ NoneGone
    BY <1>0, <1>2 DEF Submit, EnqueueProcess, queue, TypeOK
  <2>2. NoNewStatus
    BY <1>2, StageOf DEF Submit, EnqueueProcess, docs, TypeOK, To
  <2> QED BY <1>1, <2>1, <2>2
<1>3. ASSUME NEW i \in Jobs, Stall(i) PROVE Handed(j)'
  BY <1>0, <1>1, <1>3 DEF Stall, docs, TypeOK
<1>4. ASSUME NEW i \in Jobs, NEW w \in Workers,
             Take(w, i) \/ FailStalled(w, i) \/ Gate(w, i) \/ AttemptFails(w, i) \/ Complete(w, i)
      PROVE  Handed(j)'
  <2>1. NoneGone /\ NoNewStatus
    BY <1>0, <1>4 DEF Take, FailStalled, Gate, AttemptFails, Complete, docs, queue, TypeOK
  <2>2. PICK p : Goto(w, i, p) /\ at[<<w, i>>] # "hand_on"
    BY <1>4 DEF Take, FailStalled, Gate, AttemptFails, Complete
  <2>3. Kept
    BY <2>2, GotoGoes DEF GoesTo, SameHandlers
  <2> QED BY <1>1, <2>1, <2>3
<1>5. ASSUME NEW i \in Jobs, NEW w \in Workers, SetStatus(w, i) PROVE Handed(j)'
  <2>1. job' = job /\ at[<<w, i>>] = "set"
    BY <1>5 DEF SetStatus, queue
  <2>2. PICK p : Goto(w, i, p)
    BY <1>5 DEF SetStatus
  <2>3. Kept
    BY <2>1, <2>2, GotoGoes DEF GoesTo, SameHandlers
  <2>4. CASE i = j /\ Due(j)
    <3>1. Goto(w, j, "hand_on")
      BY <1>5, <2>4 DEF SetStatus, Matches, Due, Declines
    <3> QED BY <3>1, GotoGoes DEF GoesTo, Handed
  <2>5. CASE ~(i = j /\ Due(j))
    <3>1. NoNewStatus
      BY <1>5, <2>5, SetAdvances, StageOf, JobFacts DEF To
    <3> QED BY <1>1, <2>1, <2>3, <3>1
  <2> QED BY <2>4, <2>5
<1>6. ASSUME NEW i \in Jobs, NEW w \in Workers, HandOn(w, i) PROVE Handed(j)'
  <2>1. NoneGone /\ NoNewStatus
    BY <1>0, <1>6 DEF HandOn, docs
  <2>2. CASE i = j
    BY <1>0, <1>6, <2>2 DEF HandOn, Handed
  <2>3. CASE i # j
    BY <1>1, <1>6, <2>1, <2>3, GotoGoes DEF HandOn, SameHandlers
  <2> QED BY <2>2, <2>3
<1>7. ASSUME NEW i \in Jobs, NEW w \in Workers, Throw(w, i) PROVE FALSE
  BY <1>7 DEF Throw, Declines
<1>8. ASSUME NEW w \in Workers, NEW o \in Orders, Pay(w, o) PROVE Handed(j)'
  <2>1. /\ NoneGone
        /\ UNCHANGED status \/ status' = [status EXCEPT ![o] = "failed"]
        /\ at[<<w, <<"process", o>>>>] # "hand_on"
    BY <1>8 DEF Pay, SaveAttempt, ChargePayment, Compensate, GiveBack, docs, queue
  <2>2. PICK p : Goto(w, <<"process", o>>, p)
    BY <1>8 DEF Pay, SaveAttempt, ChargePayment, Compensate, GiveBack
  <2>3. Kept
    BY <2>1, <2>2, GotoGoes, JobFacts DEF GoesTo, SameHandlers
  <2>4. NoNewStatus
    BY <2>1, StageOf DEF To, TypeOK
  <2> QED BY <1>1, <2>1, <2>3, <2>4
<1>9. ASSUME NEW w \in Workers, Crash(w) PROVE FALSE
  BY <1>9 DEF Crash, Declines
<1>10. CASE UNCHANGED vars
  BY <1>10 DEF vars, Handed
<1> QED BY <1>2, <1>3, <1>4, <1>5, <1>6, <1>7, <1>8, <1>9, <1>10 DEF Next, Run

(* When payments are declined and nothing else goes wrong, an order at rest*)
(* is confirmed, or failed with its units returned.                        *)
SettledAtRest ==
  \A o \in Orders :
    AtRest(o) => status[o] = "confirmed" \/ (status[o] = "failed" /\ refunds[o] = 1)

(* No sequence of declines, retries and interleaved handlers leaves an     *)
(* order behind: where its pipeline stops, it is confirmed, or failed and  *)
(* refunded.                                                               *)
THEOREM OrdersEndSettled == ASSUME Declines PROVE Spec => []SettledAtRest
<1> DEFINE Inv == \A j \in Jobs : Handed(j)
<1>1. Attended /\ Answered
  BY DEF Declines, Attended, Answered
<1>2. Init => Inv
  BY StageOf DEF Init, Handed, To
<1>3. TypeOK /\ Inv /\ [Next]_vars => Inv'
  BY HandedStep
<1>4. Inv /\ TendInv /\ RestIsAnEnd /\ FailedIsRefunded => SettledAtRest
  <2> SUFFICES ASSUME Inv, TendInv, RestIsAnEnd, FailedIsRefunded, NEW o \in Orders, AtRest(o)
               PROVE  status[o] = "confirmed" \/ (status[o] = "failed" /\ refunds[o] = 1)
    BY DEF SettledAtRest
  <2>1. CASE status[o] = "failed"
    BY <2>1 DEF FailedIsRefunded, AtRest
  <2>2. ASSUME Stranded(o) PROVE FALSE
    <3>1. PICK j \in Jobs : /\ j[2] = o /\ status[o] = To[j[1]]
                            /\ NextJob(j) # {} /\ \A k \in NextJob(j) : job[k] = "absent"
      <4>1. CASE status[o] = "paid" /\ job[<<"fulfill", o>>] = "absent"
        <5>1. NextJob(<<"process", o>>) = {<<"fulfill", o>>} /\ To["process"] = "paid"
          BY DEF NextJob, To
        <5> QED BY <4>1, <5>1, JobFacts
      <4>2. CASE status[o] = "fulfilled" /\ job[<<"notify", o>>] = "absent"
        <5>1. NextJob(<<"fulfill", o>>) = {<<"notify", o>>} /\ To["fulfill"] = "fulfilled"
          BY DEF NextJob, To
        <5>2. <<"fulfill", o>> \in Jobs
          BY JobFacts DEF Stages
        <5> QED BY <4>2, <5>1, <5>2
      <4> QED BY <2>2, <4>1, <4>2 DEF Stranded
    <3>2. PICK w \in Workers : at[<<w, j>>] = "hand_on"
      BY <3>1 DEF Handed
    <3>3. job[j] = "active"
      BY <3>2, Handler DEF TendInv, Handling
    <3> QED BY <3>1, <3>3, JobFacts DEF AtRest, Unfinished
  <2> QED BY <2>1, <2>2 DEF RestIsAnEnd
<1> QED BY <1>1, <1>2, <1>3, <1>4, TypeCorrect, JobsTended, NoneForgotten, FailedRefunded, PTL DEF Spec

-----------------------------------------------------------------------------
(* What remains of it under every trouble: a stage is not over before it   *)
(* moved its order, whichever of its deliveries did.                       *)
Honest(j) ==
  /\ job[j] # "absent" => status[j[2]] \notin Early[j[1]]
  /\ job[j] = "completed" => ~Due(j)
  /\ \A w \in Workers :
       /\ at[<<w, j>>] # "off" => job[j] # "absent"
       /\ at[<<w, j>>] = "done" => ~Due(j)
       /\ at[<<w, j>>] = "hand_on" => ~Due(j) /\ status[j[2]] # "failed"

(* A job that was added stays; a handler says no more than what it saw or  *)
(* did; and no order goes back.                                            *)
LEMMA HonestMove ==
  ASSUME NEW j \in Jobs, Honest(j), Advances(j[2]),
         job[j] # "absent" => job'[j] # "absent",
         job[j] = "absent" => job'[j] = "absent" \/ status'[j[2]] \notin Early[j[1]],
         job'[j] = "completed" => job[j] = "completed" \/ ~Due(j)',
         \A w \in Workers :
           \/ at'[<<w, j>>] \in {at[<<w, j>>], "off"}
           \/ /\ job'[j] # "absent"
              /\ at'[<<w, j>>] = "done" => ~Due(j)'
              /\ at'[<<w, j>>] = "hand_on" => ~Due(j)' /\ status'[j[2]] # "failed"
  PROVE  Honest(j)'
<1>1. job[j] # "absent" => /\ status'[j[2]] \notin Early[j[1]]
                           /\ ~Due(j) => ~Due(j)'
                           /\ ~Due(j) /\ status[j[2]] # "failed" => status'[j[2]] # "failed"
  BY StageOf DEF Honest, Advances, Early, Due, From
<1>2. job'[j] # "absent" => status'[j[2]] \notin Early[j[1]]
  BY <1>1
<1>3. job'[j] = "completed" => ~Due(j)'
  BY <1>1 DEF Honest
<1>4. ASSUME NEW w \in Workers
      PROVE  /\ at'[<<w, j>>] # "off" => job'[j] # "absent"
             /\ at'[<<w, j>>] = "done" => ~Due(j)'
             /\ at'[<<w, j>>] = "hand_on" => ~Due(j)' /\ status'[j[2]] # "failed"
  BY <1>1 DEF Honest
<1> QED BY <1>2, <1>3, <1>4 DEF Honest

LEMMA HonestStep ==
  ASSUME TypeOK, \A k \in Jobs : Honest(k), Next, NEW j \in Jobs
  PROVE  Honest(j)'
<1>0. Honest(j)
  OBVIOUS
<1> DEFINE Same == job'[j] = job[j] /\ SameHandlers(j)
<1>a. Advances(j[2]) /\ Same => Honest(j)'
  BY <1>0, HonestMove DEF SameHandlers
<1>1. ASSUME NEW o \in Orders, Submit(o) PROVE Honest(j)'
  <2>1. Advances(j[2]) /\ Same
    BY <1>1, StageOf DEF Submit, Advances, queue, SameHandlers, TypeOK
  <2> QED BY <1>a, <2>1
<1>2. ASSUME NEW o \in Orders, EnqueueProcess(o) PROVE Honest(j)'
  <2>1. Advances(j[2]) /\ SameHandlers(j)
    BY <1>2 DEF EnqueueProcess, Advances, docs, SameHandlers
  <2>2. CASE j = <<"process", o>>
    <3>1. job'[j] = "waiting" /\ status'[j[2]] \notin Early[j[1]]
      BY <1>2, <2>2 DEF EnqueueProcess, docs, Early, TypeOK
    <3> QED BY <1>0, <2>1, <3>1, HonestMove DEF SameHandlers
  <2>3. CASE j # <<"process", o>>
    BY <1>2, <1>a, <2>1, <2>3 DEF EnqueueProcess, TypeOK
  <2> QED BY <2>2, <2>3
<1>3. ASSUME NEW i \in Jobs, Stall(i) PROVE Honest(j)'
  <2>1. Advances(j[2]) /\ SameHandlers(j)
    BY <1>3 DEF Stall, Advances, docs, SameHandlers
  <2>2. job'[j] = job[j] \/ (job[j] = "active" /\ job'[j] = "waiting")
    BY <1>3 DEF Stall, TypeOK
  <2> QED BY <1>0, <2>1, <2>2, HonestMove DEF SameHandlers
<1>4. ASSUME NEW i \in Jobs, NEW w \in Workers,
             Take(w, i) \/ FailStalled(w, i) \/ AttemptFails(w, i)
      PROVE  Honest(j)'
  <2>1. Advances(j[2])
    BY <1>4 DEF Take, FailStalled, AttemptFails, Advances, docs
  <2>2. job' = job \/ \E b \in {"active", "waiting", "failed"} : job' = [job EXCEPT ![i] = b]
    BY <1>4 DEF Take, FailStalled, AttemptFails
  <2>3. PICK p \in {"gate", "compensate", "off"} : Goto(w, i, p)
    BY <1>4 DEF Take, FailStalled, AttemptFails
  <2>4. job[i] # "absent"
    BY <1>4 DEF Take, FailStalled, AttemptFails, Honest
  <2>5. CASE i = j
    <3>1. job'[j] \in {job[j], "active", "waiting", "failed"}
      BY <2>2, <2>5 DEF TypeOK
    <3>2. GoesTo(w, j, p)
      BY <2>3, <2>5, GotoGoes
    <3> QED BY <1>0, <2>1, <2>4, <2>5, <3>1, <3>2, HonestMove DEF GoesTo
  <2>6. CASE i # j
    BY <1>a, <2>1, <2>2, <2>3, <2>6, GotoGoes DEF TypeOK
  <2> QED BY <2>5, <2>6
<1>5. ASSUME NEW i \in Jobs, NEW w \in Workers, Complete(w, i) PROVE Honest(j)'
  <2>1. Advances(j[2]) /\ Goto(w, i, "off") /\ at[<<w, i>>] = "done"
    BY <1>5 DEF Complete, Advances, docs
  <2>2. job' = job \/ job' = [job EXCEPT ![i] = "completed"]
    BY <1>5 DEF Complete
  <2>3. CASE i = j
    <3>1. job'[j] \in {job[j], "completed"}
      BY <2>2, <2>3 DEF TypeOK
    <3>2. GoesTo(w, j, "off") /\ job[j] # "absent" /\ ~Due(j) /\ status' = status
      BY <1>5, <2>1, <2>3, GotoGoes DEF Honest, Complete, docs
    <3> QED BY <1>0, <2>1, <3>1, <3>2, HonestMove DEF GoesTo, Due
  <2>4. CASE i # j
    BY <1>a, <2>1, <2>2, <2>4, GotoGoes DEF TypeOK
  <2> QED BY <2>3, <2>4
<1>6. ASSUME NEW i \in Jobs, NEW w \in Workers, Gate(w, i) \/ Throw(w, i) PROVE Honest(j)'
  <2>1. status' = status /\ job' = job /\ at[<<w, i>>] # "off"
    BY <1>6 DEF Gate, Throw, docs, queue
  <2>2. PICK p \in {"done", "save", "set", "thrown"} : Goto(w, i, p) /\ (p = "done" => ~Due(i))
    BY <1>6 DEF Gate, Throw, Passes, Due
  <2>3. CASE i = j
    <3>1. GoesTo(w, j, p) /\ job'[j] = job[j] /\ job[j] # "absent" /\ (p = "done" => ~Due(j)')
      BY <2>1, <2>2, <2>3, GotoGoes DEF Honest, Due
    <3> QED BY <1>0, <2>1, <3>1, HonestMove DEF GoesTo, Advances
  <2>4. CASE i # j
    BY <1>a, <2>1, <2>2, <2>4, GotoGoes DEF Advances
  <2> QED BY <2>3, <2>4
<1>7. ASSUME NEW i \in Jobs, NEW w \in Workers, SetStatus(w, i) PROVE Honest(j)'
  <2>1. job' = job /\ at[<<w, i>>] = "set" /\ Advances(j[2])
    BY <1>7, SetAdvances, StageOf DEF SetStatus, queue
  <2>2. PICK p \in {"done", "hand_on", "thrown"} :
          /\ Goto(w, i, p)
          /\ \/ p = "done" /\ ~Due(i) /\ status' = status
             \/ status'[i[2]] = To[i[1]]
    BY <1>7, StageOf DEF SetStatus, Matches, Due, TypeOK
  <2>3. CASE i = j
    <3>1. GoesTo(w, j, p) /\ job'[j] = job[j] /\ job[j] # "absent"
      BY <2>1, <2>2, <2>3, GotoGoes DEF Honest
    <3>2. ~Due(j)' /\ (p = "hand_on" => status'[j[2]] # "failed")
      BY <2>2, <2>3, StageOf DEF Due, From, To
    <3> QED BY <1>0, <2>1, <3>1, <3>2, HonestMove DEF GoesTo
  <2>4. CASE i # j
    BY <1>a, <2>1, <2>2, <2>4, GotoGoes
  <2> QED BY <2>3, <2>4
<1>8. ASSUME NEW i \in Jobs, NEW w \in Workers, HandOn(w, i) PROVE Honest(j)'
  <2>1. status' = status /\ Goto(w, i, "done") /\ at[<<w, i>>] = "hand_on"
    BY <1>8 DEF HandOn, docs
  <2>2. job'[j] = IF j \in NextJob(i) THEN "waiting" ELSE job[j]
    BY <1>8 DEF HandOn
  <2>3. Honest(i) /\ job[i] # "absent" /\ ~Due(i) /\ status[i[2]] # "failed"
    BY <2>1 DEF Honest
  <2>4. CASE i = j
    <3>1. job'[j] = job[j] /\ GoesTo(w, j, "done")
      BY <2>1, <2>2, <2>4, StageOf, GotoGoes
    <3> QED BY <1>0, <2>1, <2>3, <2>4, <3>1, HonestMove DEF GoesTo, Advances, Due
  <2>5. CASE i # j
    <3>1. SameHandlers(j)
      BY <2>1, <2>5, GotoGoes
    <3>2. j \in NextJob(i) => status'[j[2]] \notin Early[j[1]]
      BY <2>1, <2>3, StageOf DEF Honest, Early, Due, From
    <3> QED BY <1>0, <2>1, <2>2, <3>1, <3>2, HonestMove DEF SameHandlers, Advances
  <2> QED BY <2>4, <2>5
<1>9. ASSUME NEW w \in Workers, NEW o \in Orders, Pay(w, o) PROVE Honest(j)'
  <2> DEFINE i == <<"process", o>>
  <2>1. /\ job' = job /\ at[<<w, i>>] # "off"
        /\ \/ UNCHANGED status
           \/ status[o] = "pending" /\ status' = [status EXCEPT ![o] = "failed"]
    BY <1>9 DEF Pay, SaveAttempt, ChargePayment, Compensate, Compensable, GiveBack, docs, queue
  <2>2. PICK p \in {"charge", "thrown", "set", "give_back", "off"} : Goto(w, i, p)
    BY <1>9 DEF Pay, SaveAttempt, ChargePayment, Declined, Compensate, GiveBack
  <2>3. Advances(j[2])
    BY <2>1, StageOf DEF Advances, TypeOK
  <2>4. i \in Jobs
    BY JobFacts
  <2>5. CASE i = j
    <3>1. GoesTo(w, j, p) /\ job'[j] = job[j] /\ job[j] # "absent"
      BY <2>1, <2>2, <2>4, <2>5, GotoGoes DEF Honest
    <3> QED BY <1>0, <2>3, <3>1, HonestMove DEF GoesTo
  <2>6. CASE i # j
    BY <1>a, <2>1, <2>2, <2>3, <2>4, <2>6, GotoGoes
  <2> QED BY <2>5, <2>6
<1>10. ASSUME NEW w \in Workers, Crash(w) PROVE Honest(j)'
  <2>1. Advances(j[2]) /\ job' = job
    BY <1>10 DEF Crash, Advances, docs, queue
  <2>2. \A v \in Workers : at'[<<v, j>>] \in {at[<<v, j>>], "off"}
    BY <1>10, JobFacts DEF Crash
  <2> QED BY <1>0, <2>1, <2>2, HonestMove
<1> QED BY <1>1, <1>2, <1>3, <1>4, <1>5, <1>6, <1>7, <1>8, <1>9, <1>10 DEF Next, Run

(* Whatever fails before or after it was done, dies, stalls or is delivered*)
(* twice, no order comes to rest unnoticed: it is confirmed or failed, a   *)
(* hand-on was lost, or the stage it waits for is in the failed set.       *)
THEOREM RestExplained == Spec => []RestIsExplained
<1> DEFINE Inv == \A j \in Jobs : Honest(j)
<1>1. Init => Inv
  BY JobFacts DEF Init, Honest
<1>2. TypeOK /\ Inv /\ [Next]_vars => Inv'
  <2>1. CASE UNCHANGED vars
    BY <2>1 DEF vars, Honest, Due
  <2> QED BY <2>1, HonestStep
<1>3. TypeOK /\ Inv => RestIsExplained
  <2> SUFFICES ASSUME TypeOK, Inv, NEW o \in Orders, AtRest(o),
                      status[o] \notin {"confirmed", "failed"}, ~Stranded(o)
               PROVE  \E s \in Stages : Due(<<s, o>>) /\ job[<<s, o>>] = "failed"
    BY DEF RestIsExplained
  <2>1. ASSUME NEW s \in Stages, status[o] = From[s], job[<<s, o>>] # "absent"
        PROVE  Due(<<s, o>>) /\ job[<<s, o>>] = "failed"
    <3>1. Honest(<<s, o>>) /\ Due(<<s, o>>)
      BY <2>1, JobFacts DEF Due
    <3>2. job[<<s, o>>] \in {"completed", "failed"}
      BY <2>1, JobFacts DEF AtRest, Unfinished, TypeOK, JobStates
    <3> QED BY <3>1, <3>2 DEF Honest
  <2>2. job[<<"process", o>>] # "absent" /\ status[o] # "none"
    BY JobFacts DEF AtRest, Honest, Early
  <2>3. status[o] \in {"pending", "paid", "fulfilled"}
    BY <2>2 DEF TypeOK
  <2>4. \E s \in Stages : status[o] = From[s] /\ job[<<s, o>>] # "absent"
    BY <2>2, <2>3 DEF Stages, From, Stranded
  <2> QED BY <2>1, <2>4
<1> QED BY <1>1, <1>2, <1>3, TypeCorrect, PTL DEF Spec

=============================================================================
