----------------------------- MODULE Idempotency -----------------------------
(***************************************************************************)
(* withIdempotency (api/src/idempotency/idempotency.ts) for one key: a     *)
(* Redis cell that is first a lock and then a stored result.  A caller is  *)
(* one HTTP request with the key, a retry is a further caller.  Its fn is  *)
(* the purchase or the reservation, seen as one effect that happens or not;*)
(* a result is identified with the caller that produced it.                *)
(*                                                                         *)
(* Each await is a step.  The lock carries no owner, so Redis cannot tell  *)
(* whose lock a DEL or a SET replaces.                                     *)
(***************************************************************************)
EXTENDS Naturals

CONSTANTS
  Callers,
  Troubles,   \* what the environment may do
  Absent,     \* the cell holds nothing
  Pending,    \* the cell holds PENDING_MARKER
  Nobody,     \* nobody's effect happened
  NoAnswer,   \* a caller was not answered
  Error       \* a caller was answered with an error

(* What can go wrong without a second effect, *)
Benign == {"claim_error",   \* the SET NX is refused
           "claim_resent",  \* it applied, the reply was lost, ioredis re-sent it
           "del_error",     \* the DEL is refused
           "crash"}         \* a process dies before its fn had its effect

(* and what can go wrong with one.                                         *)
Harmful == {"fails_late",   \* fn throws although its effect happened
            "crash_late",   \* a process dies between the effect and the SET
            "store_error",  \* the SET of the result is refused
            "slow",         \* fn takes longer than LOCK_TTL_SECONDS
            "del_resent",   \* a DEL applied, its reply was lost, it is re-sent
            "late_retry"}   \* a retry comes later than RESULT_TTL_SECONDS

ASSUME IdempotencyAssumption ==
  /\ Troubles \subseteq Benign \cup Harmful
  /\ Absent \notin Callers /\ Pending \notin Callers /\ Absent # Pending
  /\ Nobody \notin Callers
  /\ NoAnswer \notin Callers /\ Error \notin Callers /\ NoAnswer # Error

(* The environment does nothing that can make the effect happen twice.     *)
Harmless == Troubles \cap Harmful = {}

VARIABLES
  cell,    \* idem:<key>: Absent, Pending, or the caller whose result it holds
  at,      \* at[c]: the await c is at
  took,    \* history: the callers whose fn had its effect
  answer   \* answer[c]: NoAnswer, Error, or the caller whose result c was given

vars == <<cell, at, took, answer>>

Places == {"new", "run", "store", "release", "poll", "over"}
Holding == {"run", "store", "release"}

TypeOK ==
  /\ cell \in Callers \cup {Absent, Pending}
  /\ at \in [Callers -> Places]
  /\ took \subseteq Callers
  /\ answer \in [Callers -> Callers \cup {NoAnswer, Error}]

Init ==
  /\ cell = Absent
  /\ at = [c \in Callers |-> "new"]
  /\ took = {}
  /\ answer = [c \in Callers |-> NoAnswer]

Goto(c, place) == at' = [at EXCEPT ![c] = place]

End(c, result) ==
  /\ Goto(c, "over")
  /\ answer' = [answer EXCEPT ![c] = result]

-----------------------------------------------------------------------------
(* SET NX EX: with no NX every caller would win.                           *)
ClaimableAlways == TRUE
Claimable == cell = Absent

Claim(c) ==
  /\ at[c] = "new"
  /\ \/ Claimable /\ cell' = Pending /\ Goto(c, "run")
     \/ ~Claimable /\ Goto(c, "poll") /\ UNCHANGED cell
     \/ Claimable /\ "claim_resent" \in Troubles /\ cell' = Pending /\ Goto(c, "poll")
  /\ UNCHANGED <<took, answer>>

ClaimFails(c) ==
  /\ at[c] = "new" /\ "claim_error" \in Troubles
  /\ End(c, Error)
  /\ UNCHANGED <<cell, took>>

(* fn: sold out or failed before its effect, or done.  A throw leads to the*)
(* catch block, not to storing what was thrown.                            *)
ThrowStored == "store"
Thrown == "release"

Reject(c) ==
  /\ at[c] = "run"
  /\ Goto(c, Thrown)
  /\ UNCHANGED <<cell, took, answer>>

Take(c) ==
  /\ at[c] = "run"
  /\ took' = took \cup {c}
  /\ \/ Goto(c, "store")
     \/ "fails_late" \in Troubles /\ Goto(c, Thrown)
  /\ UNCHANGED <<cell, answer>>

(* The result replaces the marker.                                         *)
Store(c) ==
  /\ at[c] = "store"
  /\ cell' = c
  /\ End(c, c)
  /\ UNCHANGED took

StoreFails(c) ==
  /\ at[c] = "store" /\ "store_error" \in Troubles
  /\ Goto(c, "release")
  /\ UNCHANGED <<cell, took, answer>>

(* The catch block deletes the key and rethrows.                           *)
Release(c) ==
  /\ at[c] = "release"
  /\ cell' = Absent
  /\ \/ End(c, Error)
     \/ "del_resent" \in Troubles /\ UNCHANGED <<at, answer>>
  /\ UNCHANGED took

ReleaseFails(c) ==
  /\ at[c] = "release" /\ "del_error" \in Troubles
  /\ End(c, Error)
  /\ UNCHANGED <<cell, took>>

(* A poller reads the cell until it holds a result; a marker is none.      *)
Readable == cell # Absent
IsResult == cell \notin {Absent, Pending}

Poll(c) ==
  /\ at[c] = "poll" /\ IsResult
  /\ End(c, cell)
  /\ UNCHANGED <<cell, took>>

PollTimeout(c) ==
  /\ at[c] = "poll"
  /\ End(c, Error)
  /\ UNCHANGED <<cell, took>>

(* The marker's TTL, which a live holder outruns unless fn is slow; with   *)
(* no TTL it would never go.                                               *)
NeverLapses == FALSE
Lapses == (\A c \in Callers : at[c] \notin Holding) \/ "slow" \in Troubles

LockExpires ==
  /\ cell = Pending /\ Lapses
  /\ cell' = Absent
  /\ UNCHANGED <<at, took, answer>>

ResultExpires ==
  /\ IsResult /\ "late_retry" \in Troubles
  /\ cell' = Absent
  /\ UNCHANGED <<at, took, answer>>

Crash(c) ==
  /\ \/ at[c] \in {"run", "release", "poll"} /\ "crash" \in Troubles
     \/ at[c] = "store" /\ "crash_late" \in Troubles
  /\ Goto(c, "over")
  /\ UNCHANGED <<cell, took, answer>>

-----------------------------------------------------------------------------
Step(c) ==
  Claim(c) \/ Reject(c) \/ Take(c) \/ Store(c) \/ Release(c) \/ Poll(c) \/ PollTimeout(c)

Next ==
  \/ \E c \in Callers :
       Step(c) \/ ClaimFails(c) \/ StoreFails(c) \/ ReleaseFails(c) \/ Crash(c)
  \/ LockExpires
  \/ ResultExpires

Spec == Init /\ [][Next]_vars

(* A request that was begun goes on, and Redis expires keys.               *)
Fairness ==
  /\ \A c \in Callers : WF_vars(at[c] # "new" /\ Step(c))
  /\ WF_vars(LockExpires)

FairSpec == Spec /\ Fairness

-----------------------------------------------------------------------------
(* Run fn at most once for a key.                                          *)
AtMostOnce == \A c, d \in took : c = d

(* A caller given a result is given one whose effect happened: never a     *)
(* marker, never the result of a purchase that was refused.                *)
ReplaysAreReal == \A c \in Callers : answer[c] \notin {NoAnswer, Error} => answer[c] \in took

(* The caller that took the units is the only one that holds the lock and  *)
(* is about to store its result, or its result is there to be replayed.    *)
EffectIsRemembered ==
  \A c \in took : IF at[c] = "store" THEN cell = Pending ELSE cell = c

(* The lock excludes: one holder at most, and only under the marker.       *)
OneHolder ==
  \A c \in Callers : at[c] \in Holding =>
    cell = Pending /\ \A d \in Callers : at[d] \in Holding => d = c

(* A stored result is of a purchase that happened, and only what took is   *)
(* about to be stored.                                                     *)
ResultsAreReal ==
  /\ cell \in Callers => cell \in took
  /\ \A c \in Callers :
       /\ at[c] = "store" => c \in took
       /\ at[c] \in {"new", "run", "release"} => c \notin took

(* An answer is given once, at the end.                                    *)
AnsweredAtEnd == \A c \in Callers : at[c] # "over" => answer[c] = NoAnswer

(* The inductive invariant, while nothing harmful happens.                 *)
IInv ==
  /\ TypeOK
  /\ AtMostOnce
  /\ ReplaysAreReal
  /\ EffectIsRemembered
  /\ OneHolder
  /\ ResultsAreReal
  /\ AnsweredAtEnd

(* Stale locks heal themselves, whoever died holding one.                  *)
StaleLocksHeal == cell = Pending ~> cell # Pending

DoerOf == IF took = {} THEN Nobody ELSE CHOOSE c \in took : TRUE

Once == INSTANCE OncePerKey WITH doer <- DoerOf, told <- answer

(* While nothing harmful happens the lock implements once per key.         *)
ImplementsOnce == Once!OnceSpec

=============================================================================
