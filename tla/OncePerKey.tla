----------------------------- MODULE OncePerKey -----------------------------
(***************************************************************************)
(* What withIdempotency promises for one key: the effect happens for one   *)
(* caller at most, and whoever is told a result is told that caller's.     *)
(***************************************************************************)
CONSTANTS Callers, Nobody, NoAnswer, Error

VARIABLES
  doer,  \* the caller whose effect happened
  told   \* told[c]: what c was answered

ovars == <<doer, told>>

OnceInit ==
  /\ doer = Nobody
  /\ told = [c \in Callers |-> NoAnswer]

Happen(c) ==
  /\ doer = Nobody
  /\ doer' = c
  /\ UNCHANGED told

Tell(c) ==
  /\ told[c] = NoAnswer /\ doer # Nobody
  /\ told' = [told EXCEPT ![c] = doer]
  /\ UNCHANGED doer

Refuse(c) ==
  /\ told[c] = NoAnswer
  /\ told' = [told EXCEPT ![c] = Error]
  /\ UNCHANGED doer

OnceNext == \E c \in Callers : Happen(c) \/ Tell(c) \/ Refuse(c)

OnceSpec == OnceInit /\ [][OnceNext]_ovars

=============================================================================
