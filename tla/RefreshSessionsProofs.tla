------------------------ MODULE RefreshSessionsProofs ------------------------
(***************************************************************************)
(* Theorems about the refresh sessions of a browser with any number of     *)
(* tabs, fetches and logins.                                               *)
(***************************************************************************)
EXTENDS RefreshSessions, TLAPS

-----------------------------------------------------------------------------
(* The ids that are drawn.                                                 *)

LEMMA DrawnToken ==
  ASSUME NEW x, Fresh(x) # {}
  PROVE  NewToken(x) \in Tokens /\ NewToken(x) \notin Held /\ FamOf[NewToken(x)] = x
BY DEF NewToken, Fresh

LEMMA DrawnFamily ==
  ASSUME Closed # {}
  PROVE  NewFamily \in Closed
BY DEF NewFamily

(* What a SET does: it puts a new token of a family into the family's key. *)
Sets(f, x, t) ==
  /\ at[f] = "save"
  /\ x = IF job[f] = "login" THEN NewFamily ELSE Family(f)
  /\ job[f] = "login" => x \in Closed
  /\ t \notin Held /\ FamOf[t] = x
  /\ stored' = [stored EXCEPT ![x] = t]
  /\ ended' = IF job[f] = "login" THEN ended \ {x} ELSE ended
  /\ UNCHANGED <<cookie, signedIn, job, overlapped>>

LEMMA SaveSets ==
  ASSUME NEW f \in Fetches, Save(f) \/ SaveUnheard(f)
  PROVE  \E x \in Families, t \in Tokens :
           /\ Sets(f, x, t)
           /\ \/ /\ at' = [at EXCEPT ![f] = "reply"] /\ tok' = [tok EXCEPT ![f] = t]
                 /\ UNCHANGED unheard
              \/ Refuse(f) /\ unheard' = TRUE
<1> DEFINE x == Target(f)
           t == NewToken(x)
<1>1. Fresh(x) # {} /\ (job[f] = "login" => Closed # {})
  BY DEF Save, SaveUnheard, Store
<1>2. t \in Tokens /\ t \notin Held /\ FamOf[t] = x
  BY <1>1, DrawnToken
<1>3. x \in Families
  BY <1>2, SessionAssumption
<1>4. job[f] = "login" => x \in Closed
  BY <1>1, DrawnFamily DEF Target
<1>5. Sets(f, x, t)
  BY <1>2, <1>4 DEF Sets, Save, SaveUnheard, Store, Target, client
<1> QED
  BY <1>2, <1>3, <1>5 DEF Save, SaveUnheard, Goto

-----------------------------------------------------------------------------
LEMMA TypeInit == Init => TypeOK
BY DEF Init, TypeOK, Places, Flying, Serving, Jobs

(* Every step but the SETs keeps to the states by itself.                  *)
LEMMA TypeStep == TypeOK /\ Carries /\ [Next]_vars => TypeOK'
<1> SUFFICES ASSUME TypeOK, Carries, [Next]_vars PROVE TypeOK'
  OBVIOUS
<1> USE SessionAssumption
    DEF TypeOK, Places, Flying, Serving, Jobs, Goto, Finish, Send, Refuse, Family,
        RefreshPlace, server, client, flight
<1>0. ASSUME NEW f \in Fetches, Mount(f) PROVE TypeOK'
  BY <1>0 DEF Mount
<1>1. ASSUME NEW f \in Fetches, Unauthorized(f) PROVE TypeOK'
  BY <1>1 DEF Unauthorized
<1>2. ASSUME NEW f \in Fetches, Call(f) \/ Answered(f) PROVE TypeOK'
  BY <1>2 DEF Call, Answered
<1>3. ASSUME NEW f \in Fetches, Login(f) PROVE TypeOK'
  BY <1>3 DEF Login
<1>4. ASSUME NEW f \in Fetches, Logout(f) PROVE TypeOK'
  BY <1>4 DEF Logout
<1>5. ASSUME NEW f \in Fetches, Reply(f) PROVE TypeOK'
  BY <1>5 DEF Reply, CookieSet
<1>6. ASSUME NEW f \in Fetches, Denied(f) \/ Lost(f) PROVE TypeOK'
  BY <1>6 DEF Denied, Lost
<1>7. ASSUME NEW f \in Fetches, Get(f) \/ UserRefused(f) PROVE TypeOK'
  BY <1>7 DEF Get, UserRefused, Verdict
<1>8. ASSUME NEW f \in Fetches, Save(f) \/ SaveUnheard(f) PROVE TypeOK'
  <2> PICK x \in Families, t \in Tokens :
        /\ Sets(f, x, t)
        /\ \/ /\ at' = [at EXCEPT ![f] = "reply"] /\ tok' = [tok EXCEPT ![f] = t]
              /\ UNCHANGED unheard
           \/ Refuse(f) /\ unheard' = TRUE
    BY <1>8, SaveSets
  <2>1. UNCHANGED <<cookie, signedIn, job, overlapped>>
    BY DEF Sets
  <2>2. stored' \in [Families -> Tokens \cup {None}] /\ ended' \in SUBSET Families
    BY DEF Sets
  <2>3. CASE at' = [at EXCEPT ![f] = "reply"] /\ tok' = [tok EXCEPT ![f] = t] /\ UNCHANGED unheard
    BY <2>1, <2>2, <2>3
  <2>4. CASE Refuse(f) /\ unheard' = TRUE
    BY <2>1, <2>2, <2>4
  <2> QED BY <2>3, <2>4
<1>9. ASSUME NEW f \in Fetches, Revoke(f) PROVE TypeOK'
  BY <1>9 DEF Revoke, Carries
<1>11. ASSUME NEW f \in Fetches, Expired(f) \/ StoreFails(f) PROVE TypeOK'
  BY <1>11 DEF Expired, StoreFails
<1>12. ASSUME NEW x \in Families, KeyExpires(x) PROVE TypeOK'
  BY <1>12 DEF KeyExpires
<1>13. CASE UNCHANGED vars
  BY <1>13 DEF vars
<1> QED
  BY <1>0, <1>1, <1>2, <1>3, <1>4, <1>5, <1>6, <1>7, <1>8, <1>9, <1>11, <1>12, <1>13 DEF Next
-----------------------------------------------------------------------------
(* The invariant, conjunct by conjunct.                                    *)

(* What a request carries follows from where it is.                       *)
LEMMA CarriesStep ==
  ASSUME TypeOK, Carries, [Next]_vars
  PROVE  Carries'
<1> USE SessionAssumption
    DEF TypeOK, Goto, Finish, Send, Refuse, Family, RefreshPlace, server, client, flight,
        Carries
<1>1. ASSUME NEW f \in Fetches, Mount(f) PROVE Carries'
  BY <1>1 DEF Mount
<1>2. ASSUME NEW f \in Fetches, Unauthorized(f) PROVE Carries'
  BY <1>2 DEF Unauthorized
<1>3. ASSUME NEW f \in Fetches, Call(f) \/ Answered(f) PROVE Carries'
  BY <1>3 DEF Call, Answered
<1>4. ASSUME NEW f \in Fetches, Login(f) PROVE Carries'
  BY <1>4 DEF Login
<1>5. ASSUME NEW f \in Fetches, Logout(f) PROVE Carries'
  BY <1>5 DEF Logout
<1>6. ASSUME NEW f \in Fetches, Reply(f) PROVE Carries'
  BY <1>6 DEF Reply, CookieSet
<1>7. ASSUME NEW f \in Fetches, Denied(f) \/ Lost(f) PROVE Carries'
  BY <1>7 DEF Denied, Lost
<1>8. ASSUME NEW f \in Fetches, Get(f) \/ UserRefused(f) PROVE Carries'
  BY <1>8 DEF Get, UserRefused, Verdict
<1>9. ASSUME NEW f \in Fetches, Save(f) \/ SaveUnheard(f) PROVE Carries'
  <2> PICK x \in Families, t \in Tokens :
        /\ Sets(f, x, t)
        /\ \/ /\ at' = [at EXCEPT ![f] = "reply"] /\ tok' = [tok EXCEPT ![f] = t]
              /\ UNCHANGED unheard
           \/ Refuse(f) /\ unheard' = TRUE
    BY <1>9, SaveSets
  <2> QED BY DEF Sets
<1>10. ASSUME NEW f \in Fetches, Revoke(f) PROVE Carries'
  BY <1>10 DEF Revoke
<1>11. ASSUME NEW f \in Fetches, Expired(f) \/ StoreFails(f) PROVE Carries'
  BY <1>11 DEF Expired, StoreFails
<1>12. ASSUME NEW x \in Families, KeyExpires(x) PROVE Carries'
  BY <1>12 DEF KeyExpires
<1>13. CASE UNCHANGED vars
  BY <1>13 DEF vars
<1> QED
  BY <1>1, <1>2, <1>3, <1>4, <1>5, <1>6, <1>7, <1>8, <1>9, <1>10, <1>11, <1>12, <1>13 DEF Next

(* A key holds a token of its own family.                                  *)
LEMMA KeysStep ==
  ASSUME TypeOK, Carries, KeysAreOwn, [Next]_vars
  PROVE  KeysAreOwn'
<1> USE SessionAssumption
    DEF TypeOK, Goto, Finish, Send, Refuse, Family, RefreshPlace, server, client, flight,
        KeysAreOwn
<1>1. ASSUME NEW f \in Fetches, Mount(f) PROVE KeysAreOwn'
  BY <1>1 DEF Mount
<1>2. ASSUME NEW f \in Fetches, Unauthorized(f) PROVE KeysAreOwn'
  BY <1>2 DEF Unauthorized
<1>3. ASSUME NEW f \in Fetches, Call(f) \/ Answered(f) PROVE KeysAreOwn'
  BY <1>3 DEF Call, Answered
<1>4. ASSUME NEW f \in Fetches, Login(f) PROVE KeysAreOwn'
  BY <1>4 DEF Login
<1>5. ASSUME NEW f \in Fetches, Logout(f) PROVE KeysAreOwn'
  BY <1>5 DEF Logout
<1>6. ASSUME NEW f \in Fetches, Reply(f) PROVE KeysAreOwn'
  BY <1>6 DEF Reply, CookieSet
<1>7. ASSUME NEW f \in Fetches, Denied(f) \/ Lost(f) PROVE KeysAreOwn'
  BY <1>7 DEF Denied, Lost
<1>8. ASSUME NEW f \in Fetches, Get(f) \/ UserRefused(f) PROVE KeysAreOwn'
  BY <1>8 DEF Get, UserRefused, Verdict
<1>9. ASSUME NEW f \in Fetches, Save(f) \/ SaveUnheard(f) PROVE KeysAreOwn'
  <2> PICK x \in Families, t \in Tokens :
        /\ Sets(f, x, t)
        /\ \/ /\ at' = [at EXCEPT ![f] = "reply"] /\ tok' = [tok EXCEPT ![f] = t]
              /\ UNCHANGED unheard
           \/ Refuse(f) /\ unheard' = TRUE
    BY <1>9, SaveSets
  <2> QED BY DEF Sets
<1>10. ASSUME NEW f \in Fetches, Revoke(f) PROVE KeysAreOwn'
  BY <1>10 DEF Revoke
<1>11. ASSUME NEW f \in Fetches, Expired(f) \/ StoreFails(f) PROVE KeysAreOwn'
  BY <1>11 DEF Expired, StoreFails
<1>12. ASSUME NEW x \in Families, KeyExpires(x) PROVE KeysAreOwn'
  BY <1>12 DEF KeyExpires
<1>13. CASE UNCHANGED vars
  BY <1>13 DEF vars
<1> QED
  BY <1>1, <1>2, <1>3, <1>4, <1>5, <1>6, <1>7, <1>8, <1>9, <1>10, <1>11, <1>12, <1>13 DEF Next

(* A request that leaves without an overlap is the only one on its way.    *)
LEMMA SentAlone ==
  ASSUME TypeOK, NEW f \in Fetches, NEW for, NEW place, Send(f, for, place), ~overlapped'
  PROVE  /\ \A g \in Fetches \ {f} :
              /\ at[g] \notin Flying /\ at'[g] = at[g]
              /\ job'[g] = job[g] /\ tok'[g] = tok[g]
         /\ at'[f] = place /\ job'[f] = for
<1>1. \A g \in Fetches \ {f} : at[g] \notin Flying
  BY DEF Send
<1>2. \A g \in Fetches \ {f} : at'[g] = at[g] /\ job'[g] = job[g] /\ tok'[g] = tok[g]
  BY DEF Send, Goto, TypeOK
<1>3. at'[f] = place /\ job'[f] = for
  BY DEF Send, Goto, TypeOK
<1> QED BY <1>1, <1>2, <1>3

(* While requests follow one another nothing changes a key between its GET *)
(* and its SET.                                                            *)
LEMMA TurnStep ==
  ASSUME TypeOK, Carries, KeysAreOwn, InTurn, ~overlapped', [Next]_vars
  PROVE  InTurn'
<1> USE SessionAssumption
    DEF TypeOK, Goto, Finish, Refuse, Family, RefreshPlace, server, client, flight,
        Carries, KeysAreOwn, InTurn, CheckedIsReplaced, Flying, Serving, Held, Closed
<1>1. ASSUME NEW f \in Fetches, Mount(f) PROVE InTurn'
  <2>1. UNCHANGED <<stored, ended>> /\ Send(f, "mount", RefreshPlace)
    BY <1>1 DEF Mount
  <2> QED BY <2>1, SentAlone
<1>2. ASSUME NEW f \in Fetches, Unauthorized(f) PROVE InTurn'
  <2>1. UNCHANGED <<stored, ended>> /\ Send(f, "call", RefreshPlace)
    BY <1>2 DEF Unauthorized
  <2> QED BY <2>1, SentAlone
<1>3. ASSUME NEW f \in Fetches, Call(f) \/ Answered(f) PROVE InTurn'
  <2>1. CASE Call(f)
    BY <2>1 DEF Call
  <2>2. CASE Answered(f)
    BY <2>2 DEF Answered
  <2> QED BY <1>3, <2>1, <2>2
<1>4. ASSUME NEW f \in Fetches, Login(f) PROVE InTurn'
  <2>1. UNCHANGED <<stored, ended>> /\ Send(f, "login", "save")
    BY <1>4 DEF Login
  <2> QED BY <2>1, SentAlone
<1>5. ASSUME NEW f \in Fetches, Logout(f) PROVE InTurn'
  <2>1. UNCHANGED <<stored, ended>>
    BY <1>5 DEF Logout
  <2>2. Send(f, "logout", IF cookie = None THEN "reply" ELSE "revoke")
    BY <1>5 DEF Logout
  <2> QED BY <2>1, <2>2, SentAlone
<1>6. ASSUME NEW f \in Fetches, Reply(f) PROVE InTurn'
  BY <1>6 DEF Reply, CookieSet
<1>7. ASSUME NEW f \in Fetches, Denied(f) \/ Lost(f) PROVE InTurn'
  <2>1. CASE Denied(f)
    BY <2>1 DEF Denied
  <2>2. CASE Lost(f)
    BY <2>2 DEF Lost
  <2> QED BY <1>7, <2>1, <2>2
<1>8. ASSUME NEW f \in Fetches, Get(f) \/ UserRefused(f) PROVE InTurn'
  BY <1>8 DEF Get, UserRefused, Verdict
<1>9. ASSUME NEW f \in Fetches, Save(f) \/ SaveUnheard(f) PROVE InTurn'
  <2> PICK x \in Families, t \in Tokens :
        /\ Sets(f, x, t)
        /\ \/ /\ at' = [at EXCEPT ![f] = "reply"] /\ tok' = [tok EXCEPT ![f] = t]
              /\ UNCHANGED unheard
           \/ Refuse(f) /\ unheard' = TRUE
    BY <1>9, SaveSets
  <2> QED BY DEF Sets
<1>10. ASSUME NEW f \in Fetches, Revoke(f) PROVE InTurn'
  BY <1>10 DEF Revoke
<1>11. ASSUME NEW f \in Fetches, Expired(f) \/ StoreFails(f) PROVE InTurn'
  BY <1>11 DEF Expired, StoreFails
<1>12. ASSUME NEW x \in Families, KeyExpires(x) PROVE InTurn'
  BY <1>12 DEF KeyExpires
<1>13. CASE UNCHANGED vars
  BY <1>13 DEF vars
<1> QED
  BY <1>1, <1>2, <1>3, <1>4, <1>5, <1>6, <1>7, <1>8, <1>9, <1>10, <1>11, <1>12, <1>13 DEF Next

(* The browser's token stays the active one while it hears of every one.   *)
LEMMA HeardStep ==
  ASSUME TypeOK, Carries, KeysAreOwn, InTurn, Heard, ~overlapped', ~unheard', [Next]_vars
  PROVE  Heard'
<1> USE SessionAssumption
    DEF TypeOK, Goto, Finish, Send, Refuse, Family, RefreshPlace, server, client, flight,
        Carries, KeysAreOwn, InTurn, Heard, Active, Flying, Serving, Held, Closed
<1>1. ASSUME NEW f \in Fetches, Mount(f) PROVE Heard'
  BY <1>1 DEF Mount
<1>2. ASSUME NEW f \in Fetches, Unauthorized(f) PROVE Heard'
  BY <1>2 DEF Unauthorized
<1>3. ASSUME NEW f \in Fetches, Call(f) \/ Answered(f) PROVE Heard'
  BY <1>3 DEF Call, Answered
<1>4. ASSUME NEW f \in Fetches, Login(f) PROVE Heard'
  BY <1>4 DEF Login
<1>5. ASSUME NEW f \in Fetches, Logout(f) PROVE Heard'
  BY <1>5 DEF Logout
<1>6. ASSUME NEW f \in Fetches, Reply(f) PROVE Heard'
  BY <1>6 DEF Reply, CookieSet
<1>7. ASSUME NEW f \in Fetches, Denied(f) PROVE Heard'
  BY <1>7 DEF Denied
<1>14. ASSUME NEW f \in Fetches, Lost(f) PROVE Heard'
  BY <1>14 DEF Lost
<1>8. ASSUME NEW f \in Fetches, Get(f) \/ UserRefused(f) PROVE Heard'
  BY <1>8 DEF Get, UserRefused, Verdict
<1>9. ASSUME NEW f \in Fetches, Save(f) \/ SaveUnheard(f) PROVE Heard'
  <2> PICK x \in Families, t \in Tokens :
        /\ Sets(f, x, t)
        /\ \/ /\ at' = [at EXCEPT ![f] = "reply"] /\ tok' = [tok EXCEPT ![f] = t]
              /\ UNCHANGED unheard
           \/ Refuse(f) /\ unheard' = TRUE
    BY <1>9, SaveSets
  <2> QED BY DEF Sets
<1>10. ASSUME NEW f \in Fetches, Revoke(f) PROVE Heard'
  BY <1>10 DEF Revoke
<1>11. ASSUME NEW f \in Fetches, Expired(f) \/ StoreFails(f) PROVE Heard'
  BY <1>11 DEF Expired, StoreFails
<1>12. ASSUME NEW x \in Families, KeyExpires(x) PROVE Heard'
  BY <1>12 DEF KeyExpires
<1>13. CASE UNCHANGED vars
  BY <1>13 DEF vars
<1> QED
  BY <1>1, <1>2, <1>3, <1>4, <1>5, <1>6, <1>7, <1>8, <1>9, <1>10, <1>11, <1>12, <1>13, <1>14 DEF Next

LEMMA InvInit == Init => IInv
<1> SUFFICES ASSUME Init PROVE IInv
  OBVIOUS
<1> QED
  BY TypeInit DEF Init, IInv, Carries, KeysAreOwn, InTurn, CheckedIsReplaced, Heard, Flying, Serving

LEMMA InvStep == IInv /\ [Next]_vars => IInv'
<1> SUFFICES ASSUME IInv, [Next]_vars PROVE IInv'
  OBVIOUS
<1>1. TypeOK' /\ Carries' /\ KeysAreOwn'
  BY TypeStep, CarriesStep, KeysStep DEF IInv
<1>2. ~overlapped' => ~overlapped
  BY DEF IInv, TypeOK, Next, vars, Mount, Call, Login, Logout, Answered, Unauthorized, Reply,
         Denied, Get, UserRefused, Save, SaveUnheard, Revoke, Expired, StoreFails, Lost,
         KeyExpires, Send
<1>3. ~unheard' => ~unheard
  BY DEF IInv, TypeOK, Next, vars, Mount, Call, Login, Logout, Answered, Unauthorized, Reply,
         Denied, Get, UserRefused, Save, SaveUnheard, Revoke, Expired, StoreFails, Lost,
         KeyExpires
<1>4. ~overlapped' => InTurn'
  BY <1>2, TurnStep DEF IInv
<1>5. ~overlapped' /\ ~unheard' => Heard'
  BY <1>2, <1>3, HeardStep DEF IInv
<1> QED
  BY <1>1, <1>4, <1>5 DEF IInv

(* The inductive invariant, for any number of tabs, fetches and families.  *)
THEOREM Invariant == Spec => []IInv
BY InvInit, InvStep, PTL DEF Spec

(* While requests follow one another a rotation replaces the token that it *)
(* found active, although GET and SET are two commands.                    *)
THEOREM CheckAndReplace == Spec => []CheckedIsReplacedInTurn
<1>1. IInv => CheckedIsReplacedInTurn
  BY DEF IInv, InTurn, CheckedIsReplacedInTurn
<1> QED BY <1>1, Invariant, PTL

(* A logout or a detected reuse then ends the family for good.             *)
THEOREM EndsForGood == Spec => []EndedIsDead
<1>1. IInv => EndedIsDead
  BY DEF IInv, InTurn, EndedIsDead
<1> QED BY <1>1, Invariant, PTL

(* And a browser that hears of every token never trips the reuse detection.*)
THEOREM NeverAlarmed == Spec => []NoFalseAlarm
<1>1. IInv => NoFalseAlarm
  <2> SUFFICES ASSUME IInv, ~overlapped, ~unheard, NEW f \in Fetches, at[f] = "get"
               PROVE  stored[Family(f)] \in {None, tok[f]}
    BY DEF NoFalseAlarm
  <2>1. tok[f] = cookie /\ cookie # None
    BY DEF IInv, Heard, Carries, Serving
  <2>2. \A g \in Fetches : at[g] # "reply"
    BY DEF IInv, InTurn, Flying, Serving
  <2> QED BY <2>1, <2>2 DEF IInv, Heard, Active, Family
<1> QED BY <1>1, Invariant, PTL

(* Whatever overlaps or is lost, only a rotation that had passed the check *)
(* before brings a family back.                                            *)
THEOREM NoRevival == Spec => OverStaysOver
<1>1. ASSUME IInv, [Next]_vars, NEW x \in Families, Over(x)
      PROVE  Over(x)' \/ Opened(x)
  <2> USE SessionAssumption
      DEF IInv, TypeOK, Carries, Over, Passed, Goto, Finish, Send, Refuse, Family, RefreshPlace,
          server, client, flight
  <2>1. ASSUME NEW f \in Fetches, Mount(f) \/ Unauthorized(f) PROVE Over(x)'
    BY <1>1, <2>1 DEF Mount, Unauthorized
  <2>2. ASSUME NEW f \in Fetches, Call(f) \/ Answered(f) PROVE Over(x)'
    BY <1>1, <2>2 DEF Call, Answered
  <2>3. ASSUME NEW f \in Fetches, Login(f) \/ Logout(f) PROVE Over(x)'
    BY <1>1, <2>3 DEF Login, Logout
  <2>4. ASSUME NEW f \in Fetches, Reply(f) \/ Denied(f) \/ Lost(f) PROVE Over(x)'
    BY <1>1, <2>4 DEF Reply, Denied, Lost
  <2>5. ASSUME NEW f \in Fetches, Get(f) \/ UserRefused(f) PROVE Over(x)'
    BY <1>1, <2>5 DEF Get, UserRefused, Verdict
  <2>6. ASSUME NEW f \in Fetches, Save(f) \/ SaveUnheard(f) PROVE Over(x)' \/ Opened(x)
    <3> PICK y \in Families, t \in Tokens :
          /\ Sets(f, y, t)
          /\ \/ /\ at' = [at EXCEPT ![f] = "reply"] /\ tok' = [tok EXCEPT ![f] = t]
                /\ UNCHANGED unheard
             \/ Refuse(f) /\ unheard' = TRUE
      BY <2>6, SaveSets
    <3>1. CASE x = y
      BY <1>1, <3>1 DEF Sets, Opened
    <3>2. CASE x # y
      BY <1>1, <3>2 DEF Sets
    <3> QED BY <3>1, <3>2
  <2>7. ASSUME NEW f \in Fetches, Revoke(f) \/ Expired(f) \/ StoreFails(f) PROVE Over(x)'
    BY <1>1, <2>7 DEF Revoke, Expired, StoreFails
  <2>8. ASSUME NEW y \in Families, KeyExpires(y) PROVE Over(x)'
    BY <1>1, <2>8 DEF KeyExpires
  <2>9. CASE UNCHANGED vars
    BY <1>1, <2>9 DEF vars
  <2> QED
    BY <1>1, <2>1, <2>2, <2>3, <2>4, <2>5, <2>6, <2>7, <2>8, <2>9 DEF Next
<1>2. IInv /\ [Next]_vars => [\A x \in Families : Over(x) => Over(x)' \/ Opened(x)]_vars
  BY <1>1
<1> QED BY <1>2, Invariant, PTL DEF Spec, OverStaysOver

=============================================================================
