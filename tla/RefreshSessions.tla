--------------------------- MODULE RefreshSessions ---------------------------
(***************************************************************************)
(* The refresh sessions of one user in one browser: routes/auth.ts and     *)
(* auth/refreshStore.ts on the server, the fetch wrapper of web/src/App.tsx*)
(* on the client.  A login opens a family; a refresh replaces the family's *)
(* active token by a new one in three awaits, GET, user lookup and SET,    *)
(* between which other requests run.                                       *)
(*                                                                         *)
(* The tabs share the browser's cookie and each remembers whether it is    *)
(* signed in.  A fetch is one call of apiFetch (with its refresh and its   *)
(* retry), one silent refresh, one login or one logout of a tab.           *)
(*                                                                         *)
(* A random id is one that nobody holds, so ids no longer held are reused: *)
(* the instances are finite without a bound on the number of rotations.    *)
(***************************************************************************)
CONSTANTS
  Fetches,    \* what the tabs may have under way at once
  Tabs,
  TabOf,      \* TabOf[f]: the tab f runs in
  Tokens,     \* refresh tokens, each with its jti
  Families,   \* family ids: the bound on the sessions alive at once
  FamOf,      \* FamOf[t]: the family in the payload of t
  None        \* no token: no cookie, no key

ASSUME SessionAssumption ==
  /\ TabOf \in [Fetches -> Tabs]
  /\ FamOf \in [Tokens -> Families]
  /\ None \notin Tokens

VARIABLES
  stored,     \* stored[x]: the jti under refresh:<user>:<x>, or None
  cookie,     \* the browser's refresh cookie
  signedIn,   \* the tabs that hold a user and an access token
  at,         \* at[f]: the await f is at
  job,        \* job[f]: what f is for
  tok,        \* tok[f]: the token f's request, then its reply, carries
  ended,      \* history: the families revokeFamily deleted
  overlapped, \* history: two requests to /auth were under way at once
  unheard     \* history: the browser missed a token that was stored

server == <<stored, ended>>
client == <<cookie, signedIn>>
flight == <<at, job, tok>>
vars == <<server, client, flight, overlapped, unheard>>

(* The awaits of a request to /auth, on its way and on its way back.       *)
Serving == {"get", "save", "revoke"}
Flying == Serving \cup {"reply", "denied"}
Places == Flying \cup {"idle", "call"}
Jobs == {"none", "call", "recall", "mount", "login", "logout"}

TypeOK ==
  /\ stored \in [Families -> Tokens \cup {None}]
  /\ cookie \in Tokens \cup {None}
  /\ signedIn \subseteq Tabs
  /\ at \in [Fetches -> Places]
  /\ job \in [Fetches -> Jobs]
  /\ tok \in [Fetches -> Tokens \cup {None}]
  /\ ended \subseteq Families
  /\ overlapped \in BOOLEAN /\ unheard \in BOOLEAN

Init ==
  /\ stored = [x \in Families |-> None]
  /\ cookie = None /\ signedIn = {}
  /\ at = [f \in Fetches |-> "idle"]
  /\ job = [f \in Fetches |-> "none"]
  /\ tok = [f \in Fetches |-> None]
  /\ ended = {} /\ overlapped = FALSE /\ unheard = FALSE

-----------------------------------------------------------------------------
(* randomUUID(): an id nobody holds.                                       *)
Held == {cookie} \cup {stored[x] : x \in Families} \cup {tok[f] : f \in Fetches}
Fresh(x) == {t \in Tokens \ Held : FamOf[t] = x}
NewToken(x) == CHOOSE t \in Fresh(x) : TRUE

Closed == {x \in Families : stored[x] = None /\ \A t \in Tokens \cap Held : FamOf[t] # x}
NewFamily == CHOOSE x \in Closed : TRUE

Goto(f, place) == at' = [at EXCEPT ![f] = place]

Finish(f) ==
  /\ Goto(f, "idle")
  /\ job' = [job EXCEPT ![f] = "none"]
  /\ tok' = [tok EXCEPT ![f] = None]

(* A request leaves with the cookie of that moment.                        *)
Send(f, for, place) ==
  /\ Goto(f, place)
  /\ job' = [job EXCEPT ![f] = for]
  /\ tok' = [tok EXCEPT ![f] = IF for = "login" THEN None ELSE cookie]
  /\ overlapped' = (overlapped \/ \E g \in Fetches \ {f} : at[g] \in Flying)

(* A refresh without a cookie is refused at once.                          *)
RefreshPlace == IF cookie = None THEN "denied" ELSE "get"

(* A request that fails: an error, but for a logout a reply like any other.*)
Refuse(f) ==
  /\ Goto(f, IF job[f] = "logout" THEN "reply" ELSE "denied")
  /\ tok' = [tok EXCEPT ![f] = None]

Family(f) == FamOf[tok[f]]

-----------------------------------------------------------------------------
(* The client.                                                             *)

(* A page that is loaded knows no user and tries the cookie.               *)
Mount(f) ==
  /\ \A g \in Fetches : TabOf[g] = TabOf[f] => at[g] = "idle"
  /\ signedIn' = signedIn \ {TabOf[f]}
  /\ Send(f, "mount", RefreshPlace)
  /\ UNCHANGED <<server, cookie, unheard>>

(* apiFetch: the call itself,                                              *)
Call(f) ==
  /\ at[f] = "idle" /\ TabOf[f] \in signedIn
  /\ Goto(f, "call")
  /\ job' = [job EXCEPT ![f] = "call"]
  /\ UNCHANGED <<server, client, tok, overlapped, unheard>>

(* an answer that is handed to the caller,                                 *)
Answered(f) ==
  /\ at[f] = "call"
  /\ Finish(f)
  /\ UNCHANGED <<server, client, overlapped, unheard>>

(* or a 401, which is refreshed once.                                      *)
Unauthorized(f) ==
  /\ at[f] = "call" /\ job[f] = "call"
  /\ Send(f, "call", RefreshPlace)
  /\ UNCHANGED <<server, client, unheard>>

(* A login, at most one at a time and while a family id is free.           *)
Login(f) ==
  /\ \A g \in Fetches : TabOf[g] = TabOf[f] => at[g] = "idle"
  /\ TabOf[f] \notin signedIn
  /\ Closed # {} /\ \A g \in Fetches : job[g] # "login"
  /\ Send(f, "login", "save")
  /\ UNCHANGED <<server, client, unheard>>

Logout(f) ==
  /\ at[f] = "idle" /\ TabOf[f] \in signedIn
  /\ Send(f, "logout", IF cookie = None THEN "reply" ELSE "revoke")
  /\ UNCHANGED <<server, client, unheard>>

(* The reply sets the cookie to the token it carries, a logout's clears it;*)
(* apiFetch goes on to its retry.                                          *)
CookieKept(f) == IF job[f] \in {"login", "logout"} THEN tok[f] ELSE cookie
CookieSet(f) == tok[f]

Reply(f) ==
  /\ at[f] = "reply"
  /\ cookie' = CookieSet(f)
  /\ signedIn' = IF job[f] = "logout" THEN signedIn \ {TabOf[f]} ELSE signedIn \cup {TabOf[f]}
  /\ IF job[f] = "call"
       THEN /\ Goto(f, "call")
            /\ job' = [job EXCEPT ![f] = "recall"]
            /\ tok' = [tok EXCEPT ![f] = None]
       ELSE Finish(f)
  /\ UNCHANGED <<server, overlapped, unheard>>

(* A refused refresh signs the tab out and leaves the cookie.              *)
Denied(f) ==
  /\ at[f] = "denied"
  /\ signedIn' = IF job[f] = "call" THEN signedIn \ {TabOf[f]} ELSE signedIn
  /\ Finish(f)
  /\ UNCHANGED <<server, cookie, overlapped, unheard>>

-----------------------------------------------------------------------------
(* The server.                                                             *)

(* GET, and the comparison with the token's jti: a family without a key is *)
(* over, another jti means that the token was replaced before.             *)
VerdictIfPresent(f) ==
  IF stored[Family(f)] \in {None, tok[f]} THEN "save" ELSE "revoke"
VerdictUncompared(f) == IF stored[Family(f)] = None THEN "denied" ELSE "save"
Verdict(f) ==
  IF stored[Family(f)] = None THEN "denied"
  ELSE IF stored[Family(f)] = tok[f] THEN "save" ELSE "revoke"

Get(f) ==
  /\ at[f] = "get"
  /\ IF Verdict(f) = "denied" THEN Refuse(f) ELSE Goto(f, Verdict(f)) /\ UNCHANGED tok
  /\ UNCHANGED <<server, client, job, overlapped, unheard>>

(* The user lookup only reads: it is one step with what it leads to.  The  *)
(* user is gone or inactive, or the password is wrong,                     *)
UserRefused(f) ==
  /\ at[f] = "save"
  /\ IF job[f] = "login" THEN Refuse(f) ELSE Goto(f, "revoke") /\ UNCHANGED tok
  /\ UNCHANGED <<server, client, job, overlapped, unheard>>

(* or SET: a login's first token, or the successor of the token that came. *)
Target(f) == IF job[f] = "login" THEN NewFamily ELSE Family(f)

Store(f, x, t) ==
  /\ Fresh(x) # {} /\ (job[f] = "login" => Closed # {})
  /\ stored' = [stored EXCEPT ![x] = t]
  /\ ended' = IF job[f] = "login" THEN ended \ {x} ELSE ended

Save(f) ==
  /\ at[f] = "save"
  /\ Store(f, Target(f), NewToken(Target(f)))
  /\ Goto(f, "reply") /\ tok' = [tok EXCEPT ![f] = NewToken(Target(f))]
  /\ UNCHANGED <<client, job, overlapped, unheard>>

(* The SET applied, but the request fails.                                 *)
SaveUnheard(f) ==
  /\ at[f] = "save"
  /\ Store(f, Target(f), NewToken(Target(f)))
  /\ Refuse(f)
  /\ unheard' = TRUE
  /\ UNCHANGED <<client, job, overlapped>>

(* revokeFamily, for a reuse, an inactive user or a logout.                *)
Revoke(f) ==
  /\ at[f] = "revoke"
  /\ stored' = [stored EXCEPT ![Family(f)] = None]
  /\ ended' = ended \cup {Family(f)}
  /\ Refuse(f)
  /\ UNCHANGED <<client, job, overlapped, unheard>>

(* The token itself is past its expiry.  It counts from the second it was  *)
(* signed in, its key's TTL from the SET: the active token too can be past *)
(* its expiry, a moment before its key is.                                 *)
Expired(f) ==
  /\ at[f] = "get" \/ (at[f] = "revoke" /\ job[f] = "logout")
  /\ Refuse(f)
  /\ UNCHANGED <<server, client, job, overlapped, unheard>>

-----------------------------------------------------------------------------
(* The environment.                                                        *)

KeyExpires(x) ==
  /\ stored[x] # None
  /\ stored' = [stored EXCEPT ![x] = None]
  /\ UNCHANGED <<ended, client, flight, overlapped, unheard>>

(* Redis or Mongo refuses a command: a 500, or a logout that swallows it.  *)
StoreFails(f) ==
  /\ at[f] \in Serving
  /\ Refuse(f)
  /\ UNCHANGED <<server, client, job, overlapped, unheard>>

(* The process dies, the reply is lost or nobody waits for it any more.    *)
Lost(f) ==
  /\ at[f] \in Flying
  /\ Finish(f)
  /\ unheard' = (unheard \/ (at[f] = "reply" /\ job[f] # "logout"))
  /\ UNCHANGED <<server, client, overlapped>>

-----------------------------------------------------------------------------
Next ==
  \/ \E f \in Fetches :
       \/ Mount(f) \/ Call(f) \/ Login(f) \/ Logout(f)
       \/ Answered(f) \/ Unauthorized(f) \/ Reply(f) \/ Denied(f)
       \/ Get(f) \/ UserRefused(f) \/ Save(f) \/ SaveUnheard(f) \/ Revoke(f) \/ Expired(f)
       \/ StoreFails(f) \/ Lost(f)
  \/ \E x \in Families : KeyExpires(x)

Spec == Init /\ [][Next]_vars

-----------------------------------------------------------------------------
(* README: the check of the jti is atomic with its replacement: what a     *)
(* rotation replaces is what it found active, unless the key expired.      *)
CheckedIsReplaced ==
  \A f \in Fetches : at[f] = "save" /\ job[f] # "login" => stored[Family(f)] \in {None, tok[f]}

(* It is so while the requests of the browser follow one another, whatever *)
(* of them and of their replies is lost.                                   *)
CheckedIsReplacedInTurn == ~overlapped => CheckedIsReplaced

(* A browser whose requests follow one another, and that heard of every    *)
(* token, never trips the reuse detection: what it presents is active, or  *)
(* the family is over.                                                     *)
NoFalseAlarm ==
  ~overlapped /\ ~unheard =>
    \A f \in Fetches : at[f] = "get" => stored[Family(f)] \in {None, tok[f]}

(* After a logout or a detected reuse all sessions of the family are dead, *)
(* when no rotation was on its way.                                        *)
EndedIsDead == ~overlapped => \A x \in ended : stored[x] = None

(* With a rotation on its way the family can come back, but only through   *)
(* one that had passed the check before: a family without a key and without*)
(* such a request stays over until its id is opened by a new login.        *)
Passed(x) ==
  \E f \in Fetches : at[f] = "save" /\ job[f] # "login" /\ Family(f) = x

Opened(x) ==
  \E f \in Fetches : at[f] = "save" /\ job[f] = "login" /\ at'[f] # "save" /\ x \in Closed

Over(x) == stored[x] = None /\ ~Passed(x)

OverStaysOver == [][\A x \in Families : Over(x) => Over(x)' \/ Opened(x)]_vars

(* The inductive invariant.  What a request carries, by where it is,       *)
Carries ==
  \A f \in Fetches :
    /\ at[f] \in {"idle", "call", "denied"} => tok[f] = None
    /\ at[f] = "get" => job[f] \in {"call", "mount"} /\ tok[f] # None
    /\ at[f] = "save" => job[f] = "login" \/ (job[f] \in {"call", "mount"} /\ tok[f] # None)
    /\ at[f] = "revoke" => job[f] \in {"call", "mount", "logout"} /\ tok[f] # None
    /\ at[f] = "reply" => (job[f] = "logout" <=> tok[f] = None)

KeysAreOwn == \A x \in Families : stored[x] # None => FamOf[stored[x]] = x

(* what holds while requests follow one another,                           *)
InTurn ==
  /\ \A f, g \in Fetches : at[f] \in Flying /\ at[g] \in Flying => f = g
  /\ CheckedIsReplaced
  /\ \A f \in Fetches : at[f] = "save" /\ job[f] # "login" => Family(f) \notin ended
  /\ \A x \in ended : stored[x] = None

(* and what holds while the browser also hears of every token: a token it  *)
(* has or is being told of is the active one of its family, if any.        *)
Active(t) == stored[FamOf[t]] \in {None, t}

Heard ==
  /\ \A f \in Fetches : at[f] \in Serving /\ job[f] # "login" => tok[f] = cookie
  /\ \A f \in Fetches : at[f] = "reply" /\ tok[f] # None => Active(tok[f])
  /\ cookie # None =>
       Active(cookie) \/ \E f \in Fetches : at[f] = "reply" /\ tok[f] # None

IInv ==
  /\ TypeOK
  /\ Carries
  /\ KeysAreOwn
  /\ ~overlapped => InTurn
  /\ ~overlapped /\ ~unheard => Heard

=============================================================================
