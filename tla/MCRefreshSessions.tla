------------------------- MODULE MCRefreshSessions -------------------------
(* A small instance of RefreshSessions for TLC: two tabs of a browser.     *)
EXTENDS RefreshSessions, TLC

CONSTANTS f1, f2, tab1, tab2, t1, t2, t3, t4, u1, u2, u3, u4, x1, x2

MCTabOf == (f1 :> tab1) @@ (f2 :> tab2)

(* Tokens enough for what two fetches, the cookie and the key can hold.    *)
MCFamOf == (t1 :> x1) @@ (t2 :> x1) @@ (t3 :> x1) @@ (t4 :> x1)
        @@ (u1 :> x2) @@ (u2 :> x2) @@ (u3 :> x2) @@ (u4 :> x2)

=============================================================================
