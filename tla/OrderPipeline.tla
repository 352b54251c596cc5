---------------------------- MODULE OrderPipeline ----------------------------
(***************************************************************************)
(* The three-stage order pipeline of the worker process                    *)
(* (worker/src/pipeline/orderPipeline.ts): BullMQ jobs drive an order from *)
(* pending to paid, fulfilled and confirmed, and a payment that fails for  *)
(* good is compensated.                                                    *)
(*                                                                         *)
(* Every await of a handler is a step.  BullMQ is an external library,     *)
(* modelled from how the code uses it: a job is given to one worker under  *)
(* a lock, tried again after a failed attempt while attempts remain, and   *)
(* given to another worker when its lock is lost (a stalled job).  What a  *)
(* handler that lost its lock reports at its end is ignored.               *)
(***************************************************************************)
EXTENDS Integers

CONSTANTS
  Orders,       \* the orders POST /buy creates
  Workers,      \* worker processes; one handler of a given job in each
  JobAttempts,  \* JOB_ATTEMPTS, and the `attempts` of the job options
  MaxStalled,   \* BullMQ's maxStalledCount: stalls a job survives
  Troubles,     \* which failures the environment may produce
  NoLock        \* no worker holds the lock of a job

TroubleKinds == {"decline",          \* the payment gateway declines a charge
                 "mongo_error",      \* a Mongo call throws, nothing written
                 "ambiguous_write",  \* a Mongo write throws after it applied
                 "queue_error",      \* publish or Queue.add throws
                 "worker_crash",     \* a worker process dies or is shut down
                 "lock_lost"}        \* a running handler's job lock expires

ASSUME PipelineAssumption ==
  /\ JobAttempts \in Nat \ {0}
  /\ MaxStalled \in Nat
  /\ Troubles \subseteq TroubleKinds
  /\ NoLock \notin Workers

Stages == {"process", "fulfill", "notify"}
Jobs == Stages \X Orders

(* The status a stage's handler expects, and the one it sets.  The worker  *)
(* has its own copy of the schema, without the enum: nothing there rejects *)
(* a name that drifted.                                                    *)
ToDrifted == [process |-> "paid", fulfill |-> "fulfilled", notify |-> "notified"]
From == [process |-> "pending", fulfill |-> "paid", notify |-> "fulfilled"]
To == [process |-> "paid", fulfill |-> "fulfilled", notify |-> "confirmed"]

VARIABLES
  status,    \* status[o]: the Order document's status
  tries,     \* tries[o]: its paymentAttempts
  job,       \* job[j]: where BullMQ has job j
  made,      \* made[j]: its attemptsMade
  stalls,    \* stalls[j]: how often it has stalled
  lock,      \* lock[j]: the worker that holds its lock
  at,        \* at[<<w, j>>]: the await w's handler of j is at
  read,      \* read[<<w, o>>]: paymentAttempts as w's process handler read it
  charges,   \* history: successful charges of o's payment
  refunds    \* history: INCRBYs made to compensate o

docs == <<status, tries>>
queue == <<job, made, stalls, lock>>
vars == <<status, tries, job, made, stalls, lock, at, read, charges, refunds>>

JobStates == {"absent", "waiting", "active", "completed", "failed"}

(* "gate" to "hand_on" and "compensate" and "give_back" name the next call *)
(* of a handler; "thrown" and "done" its end.                              *)
Places == {"off", "gate", "save", "charge", "set", "hand_on", "thrown", "done",
           "compensate", "give_back"}

TypeOK ==
  /\ status \in [Orders -> {"none", "pending", "paid", "fulfilled", "confirmed", "failed"}]
  /\ tries \in [Orders -> Nat]
  /\ job \in [Jobs -> JobStates]
  /\ made \in [Jobs -> Nat]
  /\ stalls \in [Jobs -> Nat]
  /\ lock \in [Jobs -> Workers \cup {NoLock}]
  /\ at \in [Workers \X Jobs -> Places]
  /\ read \in [Workers \X Orders -> Nat]
  /\ charges \in [Orders -> Nat]
  /\ refunds \in [Orders -> Nat]

Init ==
  /\ status = [o \in Orders |-> "none"]
  /\ tries = [o \in Orders |-> 0]
  /\ job = [j \in Jobs |-> "absent"]
  /\ made = [j \in Jobs |-> 0]
  /\ stalls = [j \in Jobs |-> 0]
  /\ lock = [j \in Jobs |-> NoLock]
  /\ at = [x \in Workers \X Jobs |-> "off"]
  /\ read = [x \in Workers \X Orders |-> 0]
  /\ charges = [o \in Orders |-> 0]
  /\ refunds = [o \in Orders |-> 0]

Goto(w, j, place) == at' = [at EXCEPT ![<<w, j>>] = place]

-----------------------------------------------------------------------------
(* The api's side: the order is persisted, then its job is added.  A POST  *)
(* /buy may stop in between.                                               *)
Submit(o) ==
  /\ status[o] = "none"
  /\ status' = [status EXCEPT ![o] = "pending"]
  /\ UNCHANGED <<tries, queue, at, read, charges, refunds>>

EnqueueProcess(o) ==
  /\ status[o] = "pending" /\ job[<<"process", o>>] = "absent"
  /\ job' = [job EXCEPT ![<<"process", o>>] = "waiting"]
  /\ UNCHANGED <<docs, made, stalls, lock, at, read, charges, refunds>>

-----------------------------------------------------------------------------
(* BullMQ's side of a job.                                                 *)

Take(w, j) ==
  /\ job[j] = "waiting" /\ stalls[j] <= MaxStalled
  /\ at[<<w, j>>] = "off"
  /\ job' = [job EXCEPT ![j] = "active"]
  /\ lock' = [lock EXCEPT ![j] = w]
  /\ Goto(w, j, "gate")
  /\ UNCHANGED <<docs, made, stalls, read, charges, refunds>>

(* After a failed attempt: whether BullMQ tries again, and whether the     *)
(* `failed` listener of the process worker takes it for the last one, or   *)
(* waits for one more.                                                     *)
RetriesOnceMore(j) == made[j] < JobAttempts
Retries(j) == made[j] + 1 < JobAttempts
TerminalTooLate(j) == j[1] = "process" /\ made[j] >= JobAttempts
Terminal(j) == j[1] = "process" /\ made[j] + 1 >= JobAttempts

(* An attempt that threw: another one, or the end of the job; then `failed`*)
(* is emitted in the worker that ran it.                                   *)
AttemptFails(w, j) ==
  /\ at[<<w, j>>] = "thrown"
  /\ IF lock[j] = w
     THEN /\ made' = [made EXCEPT ![j] = @ + 1]
          /\ job' = [job EXCEPT ![j] = IF Retries(j) THEN "waiting" ELSE "failed"]
          /\ lock' = [lock EXCEPT ![j] = NoLock]
          /\ Goto(w, j, IF Terminal(j) THEN "compensate" ELSE "off")
     ELSE Goto(w, j, "off") /\ UNCHANGED <<job, made, lock>>
  /\ UNCHANGED <<docs, stalls, read, charges, refunds>>

Complete(w, j) ==
  /\ at[<<w, j>>] = "done"
  /\ IF lock[j] = w
     THEN /\ job' = [job EXCEPT ![j] = "completed"]
          /\ lock' = [lock EXCEPT ![j] = NoLock]
     ELSE UNCHANGED <<job, lock>>
  /\ Goto(w, j, "off")
  /\ UNCHANGED <<docs, made, stalls, read, charges, refunds>>

(* The lock is not renewed, because its worker died or, while the handler  *)
(* runs on, because the worker could not reach Redis in time.              *)
Stall(j) ==
  /\ job[j] = "active"
  /\ at[<<lock[j], j>>] = "off" \/ "lock_lost" \in Troubles
  /\ job' = [job EXCEPT ![j] = "waiting"]
  /\ stalls' = [stalls EXCEPT ![j] = @ + 1]
  /\ lock' = [lock EXCEPT ![j] = NoLock]
  /\ UNCHANGED <<docs, made, at, read, charges, refunds>>

(* A job that stalled too often fails for good without being run, whatever *)
(* attempts remain; the worker that picks it up emits `failed`.            *)
FailStalled(w, j) ==
  /\ job[j] = "waiting" /\ stalls[j] > MaxStalled
  /\ at[<<w, j>>] = "off"
  /\ job' = [job EXCEPT ![j] = "failed"]
  /\ made' = [made EXCEPT ![j] = @ + 1]
  /\ Goto(w, j, IF Terminal(j) THEN "compensate" ELSE "off")
  /\ UNCHANGED <<docs, stalls, lock, read, charges, refunds>>

-----------------------------------------------------------------------------
(* The handlers.                                                           *)

(* findById and the idempotency gate on what it returned.                  *)
AnyPasses(j) == TRUE
Passes(j) == status[j[2]] = From[j[1]]

Gate(w, j) ==
  /\ at[<<w, j>>] = "gate"
  /\ Goto(w, j, IF ~Passes(j) THEN "done"
                ELSE IF j[1] = "process" THEN "save" ELSE "set")
  /\ read' = IF j[1] = "process" THEN [read EXCEPT ![<<w, j[2]>>] = tries[j[2]]] ELSE read
  /\ UNCHANGED <<docs, queue, charges, refunds>>

(* order.save() sets paymentAttempts to the value read plus one.           *)
FirstTry(n) == 1
NextTry(n) == n + 1

SaveAttempt(w, o) ==
  /\ at[<<w, <<"process", o>>>>] = "save"
  /\ tries' = [tries EXCEPT ![o] = NextTry(read[<<w, o>>])]
  /\ \/ Goto(w, <<"process", o>>, "charge")
     \/ "ambiguous_write" \in Troubles /\ Goto(w, <<"process", o>>, "thrown")
  /\ read' = [read EXCEPT ![<<w, o>>] = 0]
  /\ UNCHANGED <<status, queue, charges, refunds>>

(* A declined charge throws out of the handler; if it were swallowed, the  *)
(* handler would go on, and if it returned, the job would be completed.    *)
DeclineSwallowed == "set"
DeclineReturns == "done"
Declined == "thrown"

ChargePayment(w, o) ==
  /\ at[<<w, <<"process", o>>>>] = "charge"
  /\ \/ /\ charges' = [charges EXCEPT ![o] = @ + 1]
        /\ Goto(w, <<"process", o>>, "set")
     \/ /\ "decline" \in Troubles
        /\ Goto(w, <<"process", o>>, Declined)
        /\ UNCHANGED charges
  /\ UNCHANGED <<docs, queue, read, refunds>>

(* The compare-and-set to the stage's status; with no source status in its *)
(* filter it would match whatever happened since the gate.                 *)
MatchesAlways(j) == TRUE
Matches(j) == status[j[2]] = From[j[1]]

SetStatus(w, j) ==
  /\ at[<<w, j>>] = "set"
  /\ IF Matches(j)
     THEN /\ status' = [status EXCEPT ![j[2]] = To[j[1]]]
          /\ \/ Goto(w, j, "hand_on")
             \/ "ambiguous_write" \in Troubles /\ Goto(w, j, "thrown")
     ELSE Goto(w, j, "done") /\ UNCHANGED status
  /\ UNCHANGED <<tries, queue, read, charges, refunds>>

(* The order event, then the next stage's job: two awaits, but if either   *)
(* throws, or the worker dies between them, there is no job, and nothing   *)
(* here reads the event.                                                   *)
NextJob(j) ==
  IF j[1] = "process" THEN {<<"fulfill", j[2]>>}
  ELSE IF j[1] = "fulfill" THEN {<<"notify", j[2]>>}
  ELSE {}

HandOn(w, j) ==
  /\ at[<<w, j>>] = "hand_on"
  /\ job' = [k \in Jobs |-> IF k \in NextJob(j) THEN "waiting" ELSE job[k]]
  /\ Goto(w, j, "done")
  /\ UNCHANGED <<docs, made, stalls, lock, read, charges, refunds>>

Throw(w, j) ==
  /\ \/ at[<<w, j>>] \in {"gate", "save", "set"} /\ "mongo_error" \in Troubles
     \/ at[<<w, j>>] = "hand_on" /\ "queue_error" \in Troubles
  /\ Goto(w, j, "thrown")
  /\ UNCHANGED <<docs, queue, read, charges, refunds>>

-----------------------------------------------------------------------------
(* compensatePayment, which nothing awaits and nothing tries again.        *)

(* The filter of its update, and a filter that only spares finished orders.*)
CompensableUntilDone(o) == status[o] # "confirmed"
Compensable(o) == status[o] = "pending"

Compensate(w, o) ==
  LET j == <<"process", o>> IN
  /\ at[<<w, j>>] = "compensate"
  /\ \/ /\ Compensable(o)
        /\ status' = [status EXCEPT ![o] = "failed"]
        /\ \/ Goto(w, j, "give_back")
           \/ "ambiguous_write" \in Troubles /\ Goto(w, j, "off")
     \/ /\ ~Compensable(o) \/ "mongo_error" \in Troubles
        /\ Goto(w, j, "off")
        /\ UNCHANGED status
  /\ UNCHANGED <<tries, queue, read, charges, refunds>>

GiveBack(w, o) ==
  /\ at[<<w, <<"process", o>>>>] = "give_back"
  /\ refunds' = [refunds EXCEPT ![o] = @ + 1]
  /\ Goto(w, <<"process", o>>, "off")
  /\ UNCHANGED <<docs, queue, read, charges>>

(* A worker dies with whatever its handlers were doing.  A shutdown waits  *)
(* for handlers but not for a compensation.                                *)
Crash(w) ==
  /\ "worker_crash" \in Troubles
  /\ \E j \in Jobs : at[<<w, j>>] # "off"
  /\ at' = [x \in Workers \X Jobs |-> IF x[1] = w THEN "off" ELSE at[x]]
  /\ UNCHANGED <<docs, queue, read, charges, refunds>>

-----------------------------------------------------------------------------
Run(w, j) ==
  \/ Gate(w, j) \/ SetStatus(w, j) \/ HandOn(w, j)
  \/ AttemptFails(w, j) \/ Complete(w, j)

Pay(w, o) ==
  SaveAttempt(w, o) \/ ChargePayment(w, o) \/ Compensate(w, o) \/ GiveBack(w, o)

Next ==
  \/ \E o \in Orders : Submit(o) \/ EnqueueProcess(o)
  \/ \E j \in Jobs :
       \/ Stall(j)
       \/ \E w \in Workers : Take(w, j) \/ FailStalled(w, j) \/ Run(w, j) \/ Throw(w, j)
  \/ \E w \in Workers, o \in Orders : Pay(w, o)
  \/ \E w \in Workers : Crash(w)

Spec == Init /\ [][Next]_vars

(* BullMQ hands out waiting jobs and rescues abandoned ones; a handler     *)
(* that runs goes on as Mongo, Redis and the gateway answer.               *)
Fairness ==
  /\ \A j \in Jobs :
       /\ WF_vars(Stall(j) /\ at[<<lock[j], j>>] = "off")
       /\ WF_vars(\E w \in Workers : Take(w, j) \/ FailStalled(w, j))
  /\ \A w \in Workers :
       /\ \A j \in Jobs : WF_vars(Run(w, j))
       /\ \A o \in Orders : WF_vars(Pay(w, o))

FairSpec == Spec /\ Fairness

-----------------------------------------------------------------------------
Compensating(o) == \E w \in Workers : at[<<w, <<"process", o>>>>] \in {"compensate", "give_back"}

(* No free shipping: an order past pending was charged.                    *)
PaidWasCharged ==
  \A o \in Orders :
    status[o] \in {"paid", "fulfilled", "confirmed"} => charges[o] > 0

(* A handler about to mark an order paid has charged it.                   *)
ChargedBeforePaid ==
  \A w \in Workers, o \in Orders : at[<<w, <<"process", o>>>>] = "set" => charges[o] > 0

(* Units come back only of failed orders, and one compensation at most is  *)
(* about to give them back.                                                *)
RefundsFollowFailure ==
  \A o \in Orders :
    /\ refunds[o] > 0 => refunds[o] = 1 /\ status[o] = "failed"
    /\ \A w \in Workers : at[<<w, <<"process", o>>>>] = "give_back" =>
         /\ refunds[o] = 0 /\ status[o] = "failed"
         /\ \A v \in Workers : at[<<v, <<"process", o>>>>] = "give_back" => v = w

(* The inductive invariant behind the theorems: it holds whatever troubles *)
(* the environment produces.                                               *)
IInv == TypeOK /\ PaidWasCharged /\ ChargedBeforePaid /\ RefundsFollowFailure

(* No charge goes unrecorded: paymentAttempts is written before the gateway*)
(* is called, whatever dies in between.                                    *)
ChargesAreRecorded == \A o \in Orders : charges[o] <= tries[o]

(* Whatever fails, stalls or dies, retries charge no more than this: a     *)
(* delivery charges once, and there is one for every attempt and for every *)
(* stall that is forgiven.                                                 *)
ChargesAreBounded == \A o \in Orders : charges[o] <= JobAttempts + MaxStalled

(* No double charge.                                                       *)
ChargedAtMostOnce == \A o \in Orders : charges[o] <= 1

(* A compensated order was never charged.                                  *)
FailedWasNotCharged == \A o \in Orders : status[o] = "failed" => charges[o] = 0

(* A failed order has its units back, once, or is about to.                *)
FailedIsRefunded ==
  \A o \in Orders : status[o] = "failed" => refunds[o] = 1 \/ Compensating(o)

(* A payment job that failed for good leaves no order pending for ever: the*)
(* order left pending, or its compensation is under way.                   *)
ExhaustedIsCompensated ==
  \A o \in Orders :
    job[<<"process", o>>] = "failed" => status[o] # "pending" \/ Compensating(o)

(* A payment that failed for good gives the units back.                    *)
FailedIsCompensated == FailedIsRefunded /\ ExhaustedIsCompensated

(* A stage that was set and whose next job was never added: the retry of a *)
(* handler that could not hand on stops at its gate.                       *)
Stranded(o) ==
  \/ status[o] = "paid" /\ job[<<"fulfill", o>>] = "absent"
  \/ status[o] = "fulfilled" /\ job[<<"notify", o>>] = "absent"

Unfinished(o) == \E s \in Stages : job[<<s, o>>] \in {"waiting", "active"}

(* An order whose job was added is driven to its end: confirmed, or failed *)
(* with its units returned, or stranded because publish or add threw.      *)
OrdersAreSettled ==
  \A o \in Orders :
    job[<<"process", o>>] = "waiting" ~>
      \/ status[o] = "confirmed"
      \/ status[o] = "failed" /\ refunds[o] = 1
      \/ Stranded(o) /\ ~Unfinished(o)

(* The order waits for this stage.                                         *)
Due(j) == status[j[2]] = From[j[1]]

(* The job was added and nothing is under way for the order any more.      *)
AtRest(o) == job[<<"process", o>>] # "absent" /\ ~Unfinished(o) /\ ~Compensating(o)

(* No order comes to rest unnoticed, whatever fails, dies or is delivered  *)
(* twice: it is confirmed or failed, its hand-on failed, or the very stage *)
(* it waits for is in BullMQ's failed set.  A stage's job never completes  *)
(* without having moved its order.                                         *)
RestIsExplained ==
  \A o \in Orders :
    AtRest(o) =>
      \/ status[o] \in {"confirmed", "failed"}
      \/ Stranded(o)
      \/ \E s \in Stages : Due(<<s, o>>) /\ job[<<s, o>>] = "failed"

Life == INSTANCE OrderLife WITH stage <- status, returned <- refunds

(* The pipeline implements the life of an order: whatever is delivered     *)
(* twice, retried or abandoned, no order skips a stage, goes back, is      *)
(* refunded once paid, or is refunded twice.                               *)
ImplementsLife == Life!LifeSpec

=============================================================================
