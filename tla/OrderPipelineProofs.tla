------------------------- MODULE OrderPipelineProofs -------------------------
(***************************************************************************)
(* Theorems about the order pipeline for any number of orders and workers, *)
(* any retry and stall limits, and every combination of troubles.          *)
(***************************************************************************)
EXTENDS OrderPipeline, TLAPS

-----------------------------------------------------------------------------
(* Type correctness.                                                       *)

LEMMA TypeInit == Init => TypeOK
BY PipelineAssumption DEF Init, TypeOK, JobStates, Places

LEMMA JobFacts ==
  /\ \A w \in Workers, o \in Orders : <<w, <<"process", o>>>> \in Workers \X Jobs
  /\ \A j \in Jobs : j[1] \in Stages /\ j[2] \in Orders /\ j = <<j[1], j[2]>>
  /\ \A s \in Stages, o \in Orders : <<s, o>> \in Jobs
  /\ \A w \in Workers, j \in Jobs : <<w, j>> \in Workers \X Jobs
  /\ \A o \in Orders : <<"process", o>> \in Jobs
BY DEF Jobs, Stages

LEMMA GotoType ==
  ASSUME TypeOK, NEW w \in Workers, NEW j \in Jobs, NEW p \in Places, Goto(w, j, p)
  PROVE  at' \in [Workers \X Jobs -> Places]
BY JobFacts DEF TypeOK, Goto

LEMMA TypeStep == TypeOK /\ [Next]_vars => TypeOK'
<1> SUFFICES ASSUME TypeOK, [Next]_vars PROVE TypeOK'
  OBVIOUS
<1> USE JobFacts DEF TypeOK, Goto, docs, queue, JobStates, Places
<1>1. ASSUME NEW o \in Orders, Submit(o) PROVE TypeOK'
  BY <1>1 DEF Submit
<1>2. ASSUME NEW o \in Orders, EnqueueProcess(o) PROVE TypeOK'
  BY <1>2 DEF EnqueueProcess
<1>3. ASSUME NEW j \in Jobs, Stall(j) PROVE TypeOK'
  <2>1. stalls[j] \in Nat
    OBVIOUS
  <2> QED BY <1>3, <2>1 DEF Stall
<1>4. ASSUME NEW j \in Jobs, NEW w \in Workers, Take(w, j) PROVE TypeOK'
  BY <1>4 DEF Take
<1>5. ASSUME NEW j \in Jobs, NEW w \in Workers, FailStalled(w, j) PROVE TypeOK'
  BY <1>5 DEF FailStalled
<1>6. ASSUME NEW j \in Jobs, NEW w \in Workers, AttemptFails(w, j) PROVE TypeOK'
  <2>1. made[j] + 1 \in Nat
    OBVIOUS
  <2>2. at' \in [Workers \X Jobs -> Places]
    <3>1. PICK p \in Places : at' = [at EXCEPT ![<<w, j>>] = p]
      BY <1>6, Zenon DEF AttemptFails
    <3> QED BY <3>1
  <2>3. CASE lock[j] = w
    <3>1. /\ made' = [made EXCEPT ![j] = made[j] + 1]
          /\ lock' = [lock EXCEPT ![j] = NoLock]
      BY <1>6, <2>3 DEF AttemptFails
    <3>2. PICK s \in JobStates : job' = [job EXCEPT ![j] = s]
      BY <1>6, <2>3 DEF AttemptFails
    <3>3. made' \in [Jobs -> Nat]
      BY <2>1, <3>1
    <3>4. job' \in [Jobs -> JobStates]
      BY <3>2
    <3>5. lock' \in [Jobs -> Workers \cup {NoLock}]
      BY <3>1
    <3> QED BY <1>6, <2>2, <3>3, <3>4, <3>5 DEF AttemptFails
  <2>4. CASE lock[j] # w
    BY <1>6, <2>2, <2>4 DEF AttemptFails
  <2> QED BY <2>3, <2>4
<1>7. ASSUME NEW j \in Jobs, NEW w \in Workers, Complete(w, j) PROVE TypeOK'
  <2>1. at' \in [Workers \X Jobs -> Places]
    BY <1>7, GotoType DEF Complete
  <2>2. job' \in [Jobs -> JobStates]
    BY <1>7 DEF Complete
  <2>3. lock' \in [Jobs -> Workers \cup {NoLock}]
    <3>1. CASE lock[j] = w
      BY <1>7, <3>1 DEF Complete
    <3>2. CASE lock[j] # w
      BY <1>7, <3>2 DEF Complete
    <3> QED BY <3>1, <3>2
  <2> QED BY <1>7, <2>1, <2>2, <2>3 DEF Complete
<1>8. ASSUME NEW j \in Jobs, NEW w \in Workers, Gate(w, j) PROVE TypeOK'
  BY <1>8 DEF Gate, Jobs
<1>9. ASSUME NEW j \in Jobs, NEW w \in Workers, SetStatus(w, j) PROVE TypeOK'
  <2>1. To[j[1]] \in {"paid", "fulfilled", "confirmed"}
    BY JobFacts DEF To, Stages
  <2>2. at' \in [Workers \X Jobs -> Places]
    <3>1. PICK p \in Places : at' = [at EXCEPT ![<<w, j>>] = p]
      BY <1>9 DEF SetStatus
    <3> QED BY <3>1
  <2>3. status' \in [Orders -> {"none", "pending", "paid", "fulfilled", "confirmed", "failed"}]
    BY <1>9, <2>1 DEF SetStatus
  <2> QED BY <1>9, <2>2, <2>3 DEF SetStatus
<1>10. ASSUME NEW j \in Jobs, NEW w \in Workers, HandOn(w, j) PROVE TypeOK'
  BY <1>10 DEF HandOn
<1>11. ASSUME NEW j \in Jobs, NEW w \in Workers, Throw(w, j) PROVE TypeOK'
  BY <1>11 DEF Throw
<1>12. ASSUME NEW w \in Workers, NEW o \in Orders, SaveAttempt(w, o) PROVE TypeOK'
  <2>1. NextTry(read[<<w, o>>]) \in Nat
    BY DEF NextTry
  <2>2. at' \in [Workers \X Jobs -> Places]
    BY <1>12, GotoType DEF SaveAttempt
  <2>3. tries' \in [Orders -> Nat]
    BY <1>12, <2>1 DEF SaveAttempt
  <2>4. read' \in [Workers \X Orders -> Nat]
    BY <1>12 DEF SaveAttempt
  <2> QED BY <1>12, <2>2, <2>3, <2>4 DEF SaveAttempt
<1>13. ASSUME NEW w \in Workers, NEW o \in Orders, ChargePayment(w, o) PROVE TypeOK'
  <2>1. charges[o] + 1 \in Nat
    OBVIOUS
  <2>2. at' \in [Workers \X Jobs -> Places]
    BY <1>13, GotoType DEF ChargePayment, Declined
  <2>3. charges' \in [Orders -> Nat]
    BY <1>13, <2>1 DEF ChargePayment
  <2> QED BY <1>13, <2>2, <2>3 DEF ChargePayment
<1>14. ASSUME NEW w \in Workers, NEW o \in Orders, Compensate(w, o) PROVE TypeOK'
  <2>1. at' \in [Workers \X Jobs -> Places]
    <3>1. PICK p \in Places : at' = [at EXCEPT ![<<w, <<"process", o>>>>] = p]
      BY <1>14 DEF Compensate
    <3> QED BY <3>1
  <2>2. status' \in [Orders -> {"none", "pending", "paid", "fulfilled", "confirmed", "failed"}]
    BY <1>14 DEF Compensate
  <2> QED BY <1>14, <2>1, <2>2 DEF Compensate
<1>15. ASSUME NEW w \in Workers, NEW o \in Orders, GiveBack(w, o) PROVE TypeOK'
  <2>1. refunds[o] + 1 \in Nat
    OBVIOUS
  <2>2. at' \in [Workers \X Jobs -> Places]
    BY <1>15 DEF GiveBack
  <2>3. refunds' \in [Orders -> Nat]
    BY <1>15, <2>1 DEF GiveBack
  <2> QED BY <1>15, <2>2, <2>3 DEF GiveBack
<1>16. ASSUME NEW w \in Workers, Crash(w) PROVE TypeOK'
  BY <1>16 DEF Crash
<1>17. CASE UNCHANGED vars
  BY <1>17 DEF vars
<1> QED
  BY <1>1, <1>2, <1>3, <1>4, <1>5, <1>6, <1>7, <1>8, <1>9, <1>10, <1>11, <1>12,
     <1>13, <1>14, <1>15, <1>16, <1>17 DEF Next, Run, Pay

(* Statuses stay within the enum of api/src/models/Order.ts although the   *)
(* worker's copy of the schema has none, and every counter is a number.    *)
THEOREM TypeCorrect == Spec => []TypeOK
BY TypeInit, TypeStep, PTL DEF Spec

-----------------------------------------------------------------------------
(* The invariant behind the safety theorems.  Most steps are quiet for it: *)
(* no status, charge or refund changes, and no payment handler reaches the *)
(* places the invariant speaks of.                                         *)

Quiet ==
  /\ UNCHANGED <<status, charges, refunds>>
  /\ \A w \in Workers, o \in Orders :
       \/ at'[<<w, <<"process", o>>>>] = at[<<w, <<"process", o>>>>]
       \/ at'[<<w, <<"process", o>>>>] \notin {"set", "give_back"}

LEMMA GotoEffect ==
  ASSUME TypeOK, NEW w \in Workers, NEW j \in Jobs, NEW p, Goto(w, j, p)
  PROVE  \A v \in Workers, o \in Orders :
           at'[<<v, <<"process", o>>>>] =
             IF v = w /\ j = <<"process", o>> THEN p ELSE at[<<v, <<"process", o>>>>]
BY JobFacts DEF TypeOK, Goto

LEMMA QuietStep == IInv /\ TypeOK' /\ Quiet => IInv'
BY DEF IInv, Quiet, PaidWasCharged, ChargedBeforePaid, RefundsFollowFailure

LEMMA InvInit == Init => IInv
<1> SUFFICES ASSUME Init PROVE IInv
  OBVIOUS
<1> USE JobFacts
<1>1. TypeOK
  BY TypeInit
<1>2. PaidWasCharged /\ ChargedBeforePaid /\ RefundsFollowFailure
  BY DEF Init, PaidWasCharged, ChargedBeforePaid, RefundsFollowFailure
<1> QED BY <1>1, <1>2 DEF IInv

LEMMA QuietSteps ==
  ASSUME TypeOK
  PROVE  /\ \A o \in Orders : EnqueueProcess(o) => Quiet
         /\ \A j \in Jobs : Stall(j) => Quiet
         /\ \A w \in Workers, j \in Jobs :
              (\/ Take(w, j) \/ FailStalled(w, j) \/ AttemptFails(w, j)
               \/ Complete(w, j) \/ Gate(w, j) \/ HandOn(w, j) \/ Throw(w, j)) => Quiet
         /\ \A w \in Workers, o \in Orders : SaveAttempt(w, o) => Quiet
         /\ \A w \in Workers : Crash(w) => Quiet
<1> USE JobFacts DEF TypeOK, Goto, docs, queue, Quiet
<1>1. ASSUME NEW o \in Orders, EnqueueProcess(o) PROVE Quiet
  BY <1>1 DEF EnqueueProcess
<1>2. ASSUME NEW j \in Jobs, Stall(j) PROVE Quiet
  BY <1>2 DEF Stall
<1>3. ASSUME NEW w \in Workers, NEW j \in Jobs, Take(w, j) PROVE Quiet
  BY <1>3 DEF Take
<1>4. ASSUME NEW w \in Workers, NEW j \in Jobs, FailStalled(w, j) PROVE Quiet
  BY <1>4 DEF FailStalled
<1>5. ASSUME NEW w \in Workers, NEW j \in Jobs, AttemptFails(w, j) PROVE Quiet
  <2>1. PICK p \in {"compensate", "off"} : Goto(w, j, p)
    BY <1>5 DEF AttemptFails
  <2> QED BY <1>5, <2>1, GotoEffect DEF AttemptFails
<1>6. ASSUME NEW w \in Workers, NEW j \in Jobs, Complete(w, j) PROVE Quiet
  BY <1>6 DEF Complete
<1>7. ASSUME NEW w \in Workers, NEW j \in Jobs, Gate(w, j) PROVE Quiet
  BY <1>7 DEF Gate
<1>8. ASSUME NEW w \in Workers, NEW j \in Jobs, HandOn(w, j) PROVE Quiet
  BY <1>8 DEF HandOn
<1>9. ASSUME NEW w \in Workers, NEW j \in Jobs, Throw(w, j) PROVE Quiet
  BY <1>9 DEF Throw
<1>10. ASSUME NEW w \in Workers, NEW o \in Orders, SaveAttempt(w, o) PROVE Quiet
  <2>1. PICK p \in {"charge", "thrown"} : Goto(w, <<"process", o>>, p)
    BY <1>10 DEF SaveAttempt
  <2> QED BY <1>10, <2>1, GotoEffect DEF SaveAttempt
<1>11. ASSUME NEW w \in Workers, Crash(w) PROVE Quiet
  BY <1>11 DEF Crash
<1> QED
  BY <1>1, <1>2, <1>3, <1>4, <1>5, <1>6, <1>7, <1>8, <1>9, <1>10, <1>11

LEMMA InvStep == IInv /\ [Next]_vars => IInv'
<1> SUFFICES ASSUME IInv, [Next]_vars PROVE IInv'
  OBVIOUS
<1>0. TypeOK /\ TypeOK'
  BY TypeStep DEF IInv
<1> USE <1>0, JobFacts
<1>1. ASSUME NEW o \in Orders, Submit(o) PROVE IInv'
  BY <1>1 DEF Submit, IInv, PaidWasCharged, ChargedBeforePaid, RefundsFollowFailure, TypeOK
<1>2. ASSUME NEW w \in Workers, NEW j \in Jobs, SetStatus(w, j) PROVE IInv'
  <2>1. PaidWasCharged'
    BY <1>2 DEF IInv, PaidWasCharged, ChargedBeforePaid, SetStatus, Matches, From, To, Stages, TypeOK
  <2>2. ChargedBeforePaid'
    BY <1>2 DEF IInv, ChargedBeforePaid, SetStatus, Goto, TypeOK
  <2>3. RefundsFollowFailure'
    <3>1. \A o \in Orders : status[o] = "failed" => status'[o] = "failed"
      BY <1>2 DEF SetStatus, Matches, From, Stages, TypeOK
    <3>2. PICK p \in {"hand_on", "thrown", "done"} : Goto(w, j, p)
      BY <1>2 DEF SetStatus
    <3> QED BY <1>2, <3>1, <3>2, GotoEffect DEF IInv, RefundsFollowFailure, SetStatus
  <2> QED BY <2>1, <2>2, <2>3 DEF IInv
<1>3. ASSUME NEW w \in Workers, NEW o \in Orders, ChargePayment(w, o) PROVE IInv'
  <2>1. UNCHANGED <<status, refunds>>
    BY <1>3 DEF ChargePayment, docs
  <2>2. CASE /\ charges' = [charges EXCEPT ![o] = charges[o] + 1]
            /\ at' = [at EXCEPT ![<<w, <<"process", o>>>>] = "set"]
    <3>1. \A x \in Orders : charges'[x] = IF x = o THEN charges[x] + 1 ELSE charges[x]
      BY <2>2 DEF TypeOK
    <3>2. \A x \in Orders : charges[x] \in Nat
      BY DEF TypeOK
    <3>3. \A v \in Workers, x \in Orders :
            at'[<<v, <<"process", x>>>>] =
              IF v = w /\ x = o THEN "set" ELSE at[<<v, <<"process", x>>>>]
      BY <2>2 DEF TypeOK
    <3>4. PaidWasCharged' /\ ChargedBeforePaid'
      BY <2>1, <3>1, <3>2, <3>3 DEF IInv, PaidWasCharged, ChargedBeforePaid
    <3>5. RefundsFollowFailure'
      BY <2>1, <3>3 DEF IInv, RefundsFollowFailure
    <3> QED BY <3>4, <3>5 DEF IInv
  <2>3. CASE UNCHANGED charges /\ Goto(w, <<"process", o>>, "thrown")
    <3>1. Quiet
      BY <2>1, <2>3, GotoEffect DEF Quiet
    <3> QED BY <3>1, QuietStep
  <2> QED BY <1>3, <2>2, <2>3 DEF ChargePayment, Declined, Goto
<1>4. ASSUME NEW w \in Workers, NEW o \in Orders, Compensate(w, o) PROVE IInv'
  <2>1. UNCHANGED <<charges, refunds>>
    BY <1>4 DEF Compensate
  <2>2. CASE status' = [status EXCEPT ![o] = "failed"] /\ status[o] = "pending"
    <3>1. \A x \in Orders : status'[x] = IF x = o THEN "failed" ELSE status[x]
      BY <2>2 DEF TypeOK
    <3>2. PICK p \in {"give_back", "off"} : at' = [at EXCEPT ![<<w, <<"process", o>>>>] = p]
      BY <1>4 DEF Compensate, Goto
    <3>3. \A v \in Workers, x \in Orders :
            at'[<<v, <<"process", x>>>>] =
              IF v = w /\ x = o THEN p ELSE at[<<v, <<"process", x>>>>]
      BY <3>2 DEF TypeOK
    <3>4. PaidWasCharged' /\ ChargedBeforePaid'
      BY <2>1, <3>1, <3>3 DEF IInv, PaidWasCharged, ChargedBeforePaid
    <3>5. refunds[o] = 0 /\ \A v \in Workers : at[<<v, <<"process", o>>>>] # "give_back"
      BY <2>2 DEF IInv, RefundsFollowFailure, TypeOK
    <3>6. RefundsFollowFailure'
      BY <2>1, <3>1, <3>3, <3>5 DEF IInv, RefundsFollowFailure
    <3> QED BY <3>4, <3>6 DEF IInv
  <2>3. CASE UNCHANGED status /\ Goto(w, <<"process", o>>, "off")
    <3>1. Quiet
      BY <2>1, <2>3, GotoEffect DEF Quiet
    <3> QED BY <3>1, QuietStep
  <2> QED BY <1>4, <2>2, <2>3 DEF Compensate, Compensable
<1>5. ASSUME NEW w \in Workers, NEW o \in Orders, GiveBack(w, o) PROVE IInv'
  <2>1. PaidWasCharged' /\ ChargedBeforePaid'
    BY <1>5 DEF IInv, PaidWasCharged, ChargedBeforePaid, GiveBack, docs, Goto, TypeOK
  <2>2. RefundsFollowFailure'
    BY <1>5 DEF IInv, RefundsFollowFailure, GiveBack, docs, Goto, TypeOK
  <2> QED BY <2>1, <2>2 DEF IInv
<1>6. CASE Quiet
  BY <1>6, QuietStep
<1>7. CASE UNCHANGED vars
  BY <1>7, QuietStep DEF vars, Quiet
<1> QED
  BY <1>1, <1>2, <1>3, <1>4, <1>5, <1>6, <1>7, QuietSteps DEF Next, Run, Pay

(* Under every combination of troubles and any number of workers, an order *)
(* marked paid was charged, and units come back once, of failed orders.    *)
THEOREM Invariant == Spec => []IInv
BY InvInit, InvStep, PTL DEF Spec

(* No free shipping: whatever is retried, redelivered or abandoned, no     *)
(* order passes pending without a charge.                                  *)
THEOREM NothingShipsUnpaid == Spec => []PaidWasCharged
<1>1. IInv => PaidWasCharged
  BY DEF IInv
<1> QED BY <1>1, Invariant, PTL

-----------------------------------------------------------------------------
(* The pipeline implements the life of an order.                           *)

LEMMA LifeInitial == Init => Life!LifeInit
BY DEF Init, Life!LifeInit

LEMMA LifeStep == IInv /\ [Next]_vars => [Life!LifeNext]_<<status, refunds>>
<1> SUFFICES ASSUME IInv, [Next]_vars, ~UNCHANGED <<status, refunds>>
             PROVE  Life!LifeNext
  BY DEF Life!lvars
<1> USE JobFacts DEF IInv
<1>1. ASSUME NEW o \in Orders, Submit(o) PROVE Life!LifeNext
  <2>1. status[o] \in DOMAIN Life!Successor /\ Life!Successor[status[o]] = "pending"
    BY <1>1 DEF Submit, Life!Successor
  <2> QED BY <1>1, <2>1 DEF Submit, Life!LifeNext, Life!Advance
<1>2. ASSUME NEW w \in Workers, NEW j \in Jobs, SetStatus(w, j) PROVE Life!LifeNext
  BY <1>2 DEF SetStatus, Matches, From, To, Stages, TypeOK,
              Life!LifeNext, Life!Advance, Life!Successor
<1>3. ASSUME NEW w \in Workers, NEW o \in Orders, Compensate(w, o) PROVE Life!LifeNext
  BY <1>3 DEF Compensate, Compensable, TypeOK, Life!LifeNext, Life!Fail
<1>4. ASSUME NEW w \in Workers, NEW o \in Orders, GiveBack(w, o) PROVE Life!LifeNext
  <2>1. refunds[o] = 0 /\ status[o] = "failed"
    BY <1>4 DEF GiveBack, RefundsFollowFailure
  <2>2. refunds' = [refunds EXCEPT ![o] = 1] /\ UNCHANGED status
    BY <1>4, <2>1 DEF GiveBack, docs
  <2> QED BY <2>1, <2>2 DEF Life!LifeNext, Life!Return
<1>5. ASSUME NEW w \in Workers, NEW o \in Orders, ChargePayment(w, o) PROVE FALSE
  BY <1>5 DEF ChargePayment, docs
<1>6. CASE Quiet
  BY <1>6 DEF Quiet
<1>7. CASE UNCHANGED vars
  BY <1>7 DEF vars
<1> QED
  BY <1>1, <1>2, <1>3, <1>4, <1>5, <1>6, <1>7, QuietSteps DEF Next, Run, Pay

(* Whatever is delivered twice, retried or abandoned, an order advances one*)
(* stage at a time, or fails before it is paid and has its units returned  *)
(* at most once.                                                           *)
THEOREM Implementation == Spec => ImplementsLife
BY LifeInitial, LifeStep, Invariant, PTL DEF Spec, ImplementsLife, Life!LifeSpec, Life!lvars

=============================================================================
