----------------------------- MODULE WebSession -----------------------------
(***************************************************************************)
(* What a tab of the web UI believes about its session, and which page     *)
(* that puts it on: the session query (hooks/use-auth.ts), the handler     *)
(* that drops the session after a 401 (lib/query-client.ts), the guards of *)
(* the two routes (components/route-guards.tsx), sign-in and sign-out.     *)
(* Other tabs share the cookie and sign in and out as they like.           *)
(* A request and the arrival of its answer are steps of their own where    *)
(* the tab may change its mind in between.                                 *)
(***************************************************************************)
EXTENDS UpdateServer

VARIABLES
    session,    \* the session query: pending (no answer yet), in, or out
    probe,      \* its fetch: idle, or the answer that is on its way
    route,      \* the page: "/" or "/login"
    login,      \* the form's mutation: idle, or waiting for the probe
    expired,    \* a 401 to some query of the shell is on its way
    everLost    \* history: a session of this browser has ended

tabVars == <<session, probe, route, login, expired>>
sessionVars == <<tabVars, everLost>>

SessionTypeOK ==
    /\ session \in {"pending", "in", "out"}
    /\ probe \in {"idle", "in", "out", "failed"}
    /\ route \in {"/", "/login"}
    /\ login \in {"idle", "probing"}
    /\ expired \in BOOLEAN
    /\ everLost \in BOOLEAN

\* What is rendered: the application, the form, or a spinner.
Shell     == route = "/" /\ session = "in"
LoginForm == route = "/login" /\ session = "out"

Session_AnyError(reply) == IF reply = "ok" THEN "in" ELSE "out"

\* checkSession: 401 is an answer (no session), not an error.
Session(reply) ==
    CASE reply = "ok" -> "in" [] reply = "unauthorized" -> "out" [] OTHER -> "failed"

\* A page that is (re)loaded knows nothing and mounts a guard, which asks.
SessionInit ==
    /\ session = "pending"
    /\ \E reply \in Reply : probe = Session(reply)
    /\ route \in {"/", "/login"}
    /\ login = "idle"
    /\ expired = FALSE
    /\ everLost = FALSE

\* A fetch is sent and answered at once; the answer arrives later.
Ask == \E reply \in Reply' : probe' = Session(reply)

\* Mounting an observer of a query that is idle starts a fetch; a fetch that
\* is under way is joined.
Refetch == IF probe = "idle" THEN Ask ELSE UNCHANGED probe

Reload ==
    /\ session' = "pending"
    /\ login' = "idle"
    /\ expired' = FALSE
    /\ UNCHANGED <<route, everLost, serverVars>>
    /\ Ask

-----------------------------------------------------------------------------
(* The session query.                                                       *)

Focus ==
    /\ probe = "idle"
    /\ UNCHANGED <<session, route, login, expired, everLost, serverVars>>
    /\ Refetch

\* A failure keeps the data there is; with none yet, the tab is signed out.
ReceiveProbe ==
    /\ probe \in {"in", "out", "failed"}
    /\ session' = IF probe # "failed" THEN probe
                  ELSE IF session = "pending" THEN "out" ELSE session
    /\ probe' = "idle"
    /\ login' = IF login = "probing" THEN "idle" ELSE login
    /\ UNCHANGED <<route, expired, everLost, serverVars>>

-----------------------------------------------------------------------------
(* The guards.                                                              *)

Navigate ==
    /\ \/ route = "/" /\ session = "out" /\ route' = "/login"
       \/ route = "/login" /\ session = "in" /\ route' = "/"
    /\ UNCHANGED <<session, login, expired, everLost, serverVars>>
    /\ Refetch

-----------------------------------------------------------------------------
(* Sign-in and sign-out.  Neither changes the tab before it is answered, so *)
(* sending and answering are one step.                                      *)

\* The right password: the session query is fetched, or the fetch joined.
\* (The wrong one, or no answer, is an error in the form and changes nothing.)
LogIn ==
    /\ LoginForm /\ login = "idle"
    /\ SignIn
    /\ login' = "probing"
    /\ UNCHANGED <<session, route, expired, everLost>>
    /\ Refetch

\* The session is gone: destroyed now, or found gone (a 401 of a mutation).
LogOut ==
    /\ Shell /\ up
    /\ \/ SignOut
       \/ ~signedIn /\ UNCHANGED serverVars
    /\ session' = "out"
    /\ everLost' = TRUE
    /\ UNCHANGED <<probe, route, login, expired>>

\* The server has acted, but no answer comes.
LogOutUnheard ==
    /\ Shell
    /\ SignOut
    /\ everLost' = TRUE
    /\ UNCHANGED <<session, probe, route, login, expired>>

-----------------------------------------------------------------------------
(* Any query of the shell that meets a 401 (the shell polls all the time).  *)

Refused ==
    /\ Shell /\ "unauthorized" \in Reply
    /\ expired' = TRUE
    /\ UNCHANGED <<session, probe, route, login, everLost, serverVars>>

Expire_Ignored ==
    /\ expired
    /\ expired' = FALSE
    /\ UNCHANGED <<session, probe, route, login, everLost, serverVars>>

\* handleError of the query cache.
Expire ==
    /\ expired
    /\ expired' = FALSE
    /\ session' = "out"
    /\ UNCHANGED <<probe, route, login, everLost, serverVars>>

-----------------------------------------------------------------------------
(* The other tabs of the browser.                                           *)

ElsewhereSignIn  == SignIn /\ UNCHANGED sessionVars
ElsewhereSignOut == SignOut /\ everLost' = TRUE /\ UNCHANGED tabVars

TabStep ==
    \/ Focus \/ ReceiveProbe \/ Navigate
    \/ LogIn \/ LogOut \/ LogOutUnheard
    \/ Refused \/ Expire
    \/ ElsewhereSignIn \/ ElsewhereSignOut
=============================================================================
