-------------------------- MODULE IdempotencyProofs --------------------------
(***************************************************************************)
(* Theorems about withIdempotency for any number of callers of one key.    *)
(***************************************************************************)
EXTENDS Idempotency, TLAPS

-----------------------------------------------------------------------------
(* What holds whatever the environment does.                               *)

LEMMA TypeInit == Init => TypeOK
BY DEF Init, TypeOK, Places

LEMMA TypeStep == TypeOK /\ [Next]_vars => TypeOK'
<1> SUFFICES ASSUME TypeOK, [Next]_vars PROVE TypeOK'
  OBVIOUS
<1> USE DEF TypeOK, Goto, End, Places
<1>1. ASSUME NEW c \in Callers, Claim(c) PROVE TypeOK'
  BY <1>1 DEF Claim
<1>2. ASSUME NEW c \in Callers, Reject(c) \/ Take(c) PROVE TypeOK'
  BY <1>2 DEF Reject, Take, Thrown
<1>3. ASSUME NEW c \in Callers, Store(c) \/ StoreFails(c) PROVE TypeOK'
  BY <1>3 DEF Store, StoreFails
<1>4. ASSUME NEW c \in Callers, Release(c) \/ ReleaseFails(c) PROVE TypeOK'
  BY <1>4 DEF Release, ReleaseFails
<1>5. ASSUME NEW c \in Callers, Poll(c) \/ PollTimeout(c) PROVE TypeOK'
  BY <1>5 DEF Poll, IsResult, PollTimeout
<1>6. ASSUME NEW c \in Callers, ClaimFails(c) \/ Crash(c) PROVE TypeOK'
  BY <1>6 DEF ClaimFails, Crash
<1>7. CASE LockExpires \/ ResultExpires
  BY <1>7 DEF LockExpires, ResultExpires
<1>8. CASE UNCHANGED vars
  BY <1>8 DEF vars
<1> QED
  BY <1>1, <1>2, <1>3, <1>4, <1>5, <1>6, <1>7, <1>8 DEF Next, Step

(* The key holds nothing, the marker or a caller's result, and every caller*)
(* is at an await of the code, under every combination of troubles.        *)
THEOREM TypeCorrect == Spec => []TypeOK
BY TypeInit, TypeStep, PTL DEF Spec

(* Whatever may be stored took effect.                                     *)
Real ==
  /\ cell \in Callers => cell \in took
  /\ \A c \in Callers : at[c] = "store" => c \in took
  /\ ReplaysAreReal

LEMMA RealStep == TypeOK /\ Real /\ [Next]_vars => Real'
<1> SUFFICES ASSUME TypeOK, Real, [Next]_vars PROVE Real'
  OBVIOUS
<1> USE IdempotencyAssumption DEF TypeOK, Real, ReplaysAreReal, Goto, End
<1>1. ASSUME NEW c \in Callers, Claim(c) PROVE Real'
  BY <1>1 DEF Claim
<1>2. ASSUME NEW c \in Callers, Reject(c) \/ Take(c) PROVE Real'
  BY <1>2 DEF Reject, Take, Thrown
<1>3. ASSUME NEW c \in Callers, Store(c) \/ StoreFails(c) PROVE Real'
  BY <1>3 DEF Store, StoreFails
<1>4. ASSUME NEW c \in Callers, Release(c) \/ ReleaseFails(c) PROVE Real'
  BY <1>4 DEF Release, ReleaseFails
<1>5. ASSUME NEW c \in Callers, Poll(c) \/ PollTimeout(c) PROVE Real'
  BY <1>5 DEF Poll, IsResult, PollTimeout
<1>6. ASSUME NEW c \in Callers, ClaimFails(c) \/ Crash(c) PROVE Real'
  BY <1>6 DEF ClaimFails, Crash
<1>7. CASE LockExpires \/ ResultExpires
  BY <1>7 DEF LockExpires, ResultExpires
<1>8. CASE UNCHANGED vars
  BY <1>8 DEF vars
<1> QED
  BY <1>1, <1>2, <1>3, <1>4, <1>5, <1>6, <1>7, <1>8 DEF Next, Step

(* A caller that is given a result is given one of a purchase that took    *)
(* effect: no replay of the marker or of a refused purchase, whatever      *)
(* expires, dies, is refused or sent twice.                                *)
THEOREM NoFalseReplay == Spec => []ReplaysAreReal
<1>1. Init => Real
  BY IdempotencyAssumption DEF Init, Real, ReplaysAreReal
<1>2. Real => ReplaysAreReal
  BY DEF Real
<1> QED BY <1>1, <1>2, RealStep, TypeCorrect, PTL DEF Spec

-----------------------------------------------------------------------------
(* What holds while nothing harmful happens.                               *)

LEMMA InvInit == Init => IInv
BY TypeInit, IdempotencyAssumption
DEF Init, IInv, AtMostOnce, ReplaysAreReal, EffectIsRemembered, OneHolder,
    ResultsAreReal, AnsweredAtEnd, Holding

LEMMA NothingHarmful ==
  ASSUME Harmless
  PROVE  \A t \in {"fails_late", "crash_late", "store_error", "slow", "del_resent",
                   "late_retry"} : t \notin Troubles
BY DEF Harmless, Harmful

(* A caller about to run fn finds that no effect happened yet.             *)
LEMMA NoneTookBefore ==
  ASSUME IInv, NEW c \in Callers, at[c] \in {"run", "release"}
  PROVE  took = {}
BY IdempotencyAssumption
DEF IInv, TypeOK, EffectIsRemembered, OneHolder, ResultsAreReal, Holding

LEMMA InvStep ==
  ASSUME Harmless, IInv, [Next]_vars
  PROVE  IInv'
<1> USE IdempotencyAssumption, NothingHarmful
    DEF AtMostOnce, EffectIsRemembered, OneHolder, ResultsAreReal, AnsweredAtEnd,
        Holding, Goto, End
<1>1. TypeOK /\ TypeOK' /\ ReplaysAreReal'
  BY TypeStep, RealStep DEF IInv, Real
<1>2. ASSUME NEW c \in Callers, Claim(c) PROVE IInv'
  BY <1>1, <1>2 DEF IInv, TypeOK, Claim, Claimable
<1>3. ASSUME NEW c \in Callers, Reject(c) PROVE IInv'
  BY <1>1, <1>3 DEF IInv, TypeOK, Reject, Thrown
<1>4. ASSUME NEW c \in Callers, Take(c) PROVE IInv'
  <2>1. took = {}
    BY <1>4, NoneTookBefore DEF Take
  <2> QED BY <1>1, <1>4, <2>1 DEF IInv, TypeOK, Take, Thrown
<1>5. ASSUME NEW c \in Callers, Store(c) PROVE IInv'
  BY <1>1, <1>5 DEF IInv, TypeOK, Store
<1>6. ASSUME NEW c \in Callers, StoreFails(c) PROVE FALSE
  BY <1>6 DEF StoreFails
<1>7. ASSUME NEW c \in Callers, Release(c) \/ ReleaseFails(c) PROVE IInv'
  <2>1. took = {}
    BY <1>7, NoneTookBefore DEF Release, ReleaseFails
  <2> QED BY <1>1, <1>7, <2>1 DEF IInv, TypeOK, Release, ReleaseFails
<1>8. ASSUME NEW c \in Callers, Poll(c) \/ PollTimeout(c) PROVE IInv'
  BY <1>1, <1>8 DEF IInv, TypeOK, Poll, PollTimeout
<1>9. ASSUME NEW c \in Callers, ClaimFails(c) \/ Crash(c) PROVE IInv'
  BY <1>1, <1>9 DEF IInv, TypeOK, ClaimFails, Crash
<1>10. CASE LockExpires
  BY <1>1, <1>10 DEF IInv, TypeOK, LockExpires, Lapses
<1>11. CASE ResultExpires
  BY <1>11 DEF ResultExpires
<1>12. CASE UNCHANGED vars
  BY <1>1, <1>12 DEF IInv, vars
<1> QED
  BY <1>2, <1>3, <1>4, <1>5, <1>6, <1>7, <1>8, <1>9, <1>10, <1>11, <1>12
  DEF Next, Step

(* While no fn outlives its lock or fails after its effect, no process dies*)
(* before it stored the result and no result or deletion is lost, the lock *)
(* excludes and the effect is remembered.                                  *)
THEOREM Invariant ==
  ASSUME Harmless
  PROVE  Spec => []IInv
<1>1. IInv /\ [Next]_vars => IInv'
  BY InvStep
<1> QED BY <1>1, InvInit, PTL DEF Spec

(* Then fn has its effect once at most for a key, however many requests    *)
(* carry it.                                                               *)
THEOREM OnceForAKey ==
  ASSUME Harmless
  PROVE  Spec => []AtMostOnce
<1>1. IInv => AtMostOnce
  BY DEF IInv
<1> QED BY <1>1, Invariant, PTL

-----------------------------------------------------------------------------
(* Then withIdempotency implements once per key.                           *)

LEMMA OnceStep ==
  ASSUME Harmless, IInv, [Next]_vars
  PROVE  [Once!OnceNext]_<<DoerOf, answer>>
<1> USE IdempotencyAssumption, NothingHarmful
<1>1. ASSUME NEW c \in Callers, Take(c) PROVE Once!OnceNext
  <2>1. took = {} /\ took' = {c}
    BY <1>1, NoneTookBefore DEF Take
  <2>2. DoerOf = Nobody /\ DoerOf' = c
    BY <2>1 DEF DoerOf
  <2> QED BY <1>1, <2>2 DEF Take, Once!OnceNext, Once!Happen
<1>2. ASSUME NEW c \in Callers, Store(c) \/ Poll(c) PROVE Once!OnceNext
  <2>1. PICK d \in Callers : d \in took /\ answer' = [answer EXCEPT ![c] = d] /\ UNCHANGED took
    BY <1>2 DEF IInv, ResultsAreReal, TypeOK, Store, Poll, IsResult, End
  <2>2. took = {d}
    BY <2>1 DEF IInv, AtMostOnce
  <2>3. DoerOf = d /\ DoerOf' = DoerOf
    BY <2>1, <2>2 DEF DoerOf
  <2>4. answer[c] = NoAnswer
    BY <1>2 DEF IInv, AnsweredAtEnd, Store, Poll
  <2> QED BY <2>1, <2>3, <2>4 DEF Once!OnceNext, Once!Tell
<1>3. ASSUME NEW c \in Callers,
             \/ ClaimFails(c) \/ PollTimeout(c) \/ ReleaseFails(c)
             \/ Release(c)
      PROVE  Once!OnceNext
  <2>1. answer' = [answer EXCEPT ![c] = Error] /\ UNCHANGED took
    BY <1>3 DEF ClaimFails, PollTimeout, ReleaseFails, Release, End
  <2>2. answer[c] = NoAnswer
    BY <1>3 DEF IInv, AnsweredAtEnd, ClaimFails, PollTimeout, ReleaseFails, Release
  <2>3. DoerOf' = DoerOf
    BY <2>1 DEF DoerOf
  <2> QED BY <2>1, <2>2, <2>3 DEF Once!OnceNext, Once!Refuse
<1>4. ASSUME UNCHANGED <<took, answer>> PROVE UNCHANGED <<DoerOf, answer>>
  BY <1>4 DEF DoerOf
<1>5. ASSUME NEW c \in Callers, Claim(c) \/ Reject(c) \/ StoreFails(c) \/ Crash(c)
      PROVE  UNCHANGED <<took, answer>>
  BY <1>5 DEF Claim, Reject, StoreFails, Crash
<1>6. CASE LockExpires \/ ResultExpires \/ UNCHANGED vars
  BY <1>4, <1>6 DEF LockExpires, ResultExpires, vars
<1> QED
  BY <1>1, <1>2, <1>3, <1>4, <1>5, <1>6 DEF Next, Step

(* While nothing harmful happens, withIdempotency implements once per key. *)
THEOREM Implementation ==
  ASSUME Harmless
  PROVE  Spec => ImplementsOnce
<1>1. Init => Once!OnceInit
  BY DEF Init, Once!OnceInit, DoerOf
<1>2. IInv /\ [Next]_vars => [Once!OnceNext]_<<DoerOf, answer>>
  BY OnceStep
<1> QED BY <1>1, <1>2, Invariant, PTL DEF Spec, ImplementsOnce, Once!OnceSpec, Once!ovars

=============================================================================
