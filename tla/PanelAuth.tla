----------------------------- MODULE PanelAuth -----------------------------
(***************************************************************************)
(* Who the panel in the browser believes to be logged in: AuthContext.tsx, *)
(* the interceptor of api/client.ts, ProtectedRoute of App.tsx and         *)
(* LoginPage.tsx, against the session that Django keeps (AuthLoginView,    *)
(* AuthLogoutView, AuthMeView of api/views.py).                            *)
(***************************************************************************)
EXTENDS Integers

CONSTANT
    MaxTroubles \* bound: requests that fail for other reasons than a missing
                \* session (network, throttling), and changes of the session
                \* from outside

ASSUME PanelAuthAssumption == MaxTroubles \in Nat

VARIABLES
    session,    \* the server's session: none, of an administrator, of another user
    troubles,   \* counts to MaxTroubles
    path,       \* the route: login, or one that is protected
    user,       \* AuthContext: somebody is logged in ...
    loading,    \* ... or it is not known yet
    me, login, logout, page,    \* the requests of the tab
    leaving     \* window.location.href was set: the tab is about to reload

vars == <<session, troubles, path, user, loading, me, login, logout, page, leaving>>
requests == <<me, login, logout, page>>

-----------------------------------------------------------------------------

(* A request is on its way, or its answer is: denied is 401 or 403, failed *)
(* any other error.                                                        *)
Request == {"none", "sent", "ok", "denied", "failed"}
Errors == {"denied", "failed"}

(* The types of the variables.                                             *)
TypeOK ==
    /\ session \in {"none", "admin", "other"}
    /\ troubles \in 0..MaxTroubles
    /\ path \in {"login", "app"}
    /\ user \in BOOLEAN /\ loading \in BOOLEAN /\ leaving \in BOOLEAN
    /\ me \in Request /\ login \in Request /\ logout \in Request /\ page \in Request

(* The tab is opened anywhere, with or without a session.                  *)
Init ==
    /\ session \in {"none", "admin"}
    /\ troubles = 0
    /\ path \in {"login", "app"}
    /\ user = FALSE /\ loading = TRUE
    /\ me = "sent" /\ login = "none" /\ logout = "none" /\ page = "none"
    /\ leaving = FALSE

Trouble == troubles < MaxTroubles /\ troubles' = troubles + 1

(* What comes back for a request that is granted or not                    *)
Answer(request, granted) ==
    \/ /\ request' = IF granted THEN "ok" ELSE "denied"
       /\ UNCHANGED troubles
    \/ request' = "failed" /\ Trouble

(* The interceptor: 401 and 403 lead to the login page, unless it is shown.*)
Intercept == leaving' = (leaving \/ path = "app")

(* The tab loads the login page afresh; the answers to its requests are    *)
(* lost.                                                                   *)
Reload ==
    /\ leaving
    /\ leaving' = FALSE
    /\ path' = "login" /\ user' = FALSE /\ loading' = TRUE
    /\ me' = "sent" /\ login' = "none" /\ logout' = "none" /\ page' = "none"
    /\ UNCHANGED <<session, troubles>>

-----------------------------------------------------------------------------
(* The server.                                                             *)

ServeMe ==
    /\ me = "sent"
    /\ Answer(me, session # "none")
    /\ UNCHANGED <<session, path, user, loading, login, logout, page, leaving>>

(* AuthLoginView: the password is wrong or the user no administrator, or a *)
(* session begins.                                                         *)
ServeLogin ==
    /\ login = "sent"
    /\ \/ Answer(login, FALSE) /\ UNCHANGED session
       \/ Answer(login, TRUE) /\ session' = "admin"
    /\ UNCHANGED <<path, user, loading, me, logout, page, leaving>>

(* AuthLogoutView ends the session, unless the request fails on its way.   *)
ServeLogout ==
    /\ logout = "sent"
    /\ \/ Answer(logout, session # "none") /\ session' = "none"
       \/ logout' = "failed" /\ Trouble /\ UNCHANGED session
    /\ UNCHANGED <<path, user, loading, me, login, page, leaving>>

(* Every other endpoint asks for an administrator.                         *)
ServePage ==
    /\ page = "sent"
    /\ Answer(page, session = "admin")
    /\ UNCHANGED <<session, path, user, loading, me, login, logout, leaving>>

(* The session expires, is ended in another tab, or its user loses the     *)
(* rights of an administrator.                                             *)
SessionEvent ==
    /\ session = "admin"
    /\ session' \in {"none", "other"}
    /\ Trouble
    /\ UNCHANGED <<path, user, loading, requests, leaving>>

-----------------------------------------------------------------------------
(* The tab.                                                                *)

MeArrives ==
    /\ me \in {"ok"} \cup Errors
    /\ me' = "none"
    /\ user' = (me = "ok")
    /\ loading' = FALSE
    /\ IF me = "denied" THEN Intercept ELSE UNCHANGED leaving
    /\ UNCHANGED <<session, troubles, path, login, logout, page>>

(* ProtectedRoute and LoginPage, once it is known who is there             *)
Navigate ==
    /\ ~loading
    /\ \/ path = "app" /\ ~user /\ path' = "login"
       \/ path = "login" /\ user /\ path' = "app"
    /\ UNCHANGED <<session, troubles, user, loading, requests, leaving>>

(* Mutation: the form is shown while it is not known who is there.         *)
LoginFormEarly == path = "login" /\ ~user

LoginForm == path = "login" /\ ~loading /\ ~user

SubmitLogin ==
    /\ LoginForm /\ login = "none"
    /\ login' = "sent"
    /\ UNCHANGED <<session, troubles, path, user, loading, me, logout, page, leaving>>

LoginArrives ==
    /\ login \in {"ok"} \cup Errors
    /\ login' = "none"
    /\ user' = (user \/ login = "ok")
    /\ IF login = "denied" THEN Intercept ELSE UNCHANGED leaving
    /\ UNCHANGED <<session, troubles, path, loading, me, logout, page>>

SubmitLogout ==
    /\ path = "app" /\ user /\ logout = "none"
    /\ logout' = "sent"
    /\ UNCHANGED <<session, troubles, path, user, loading, me, login, page, leaving>>

LogoutArrives ==
    /\ logout \in {"ok"} \cup Errors
    /\ logout' = "none"
    /\ user' = (user /\ logout # "ok")
    /\ IF logout = "denied" THEN Intercept ELSE UNCHANGED leaving
    /\ UNCHANGED <<session, troubles, path, loading, me, login, page>>

(* A page of the panel reads its data.                                     *)
FetchPage ==
    /\ path = "app" /\ user /\ page = "none"
    /\ page' = "sent"
    /\ UNCHANGED <<session, troubles, path, user, loading, me, login, logout, leaving>>

(* Mutation: the interceptor is not installed.                             *)
PageArrivesUnheeded ==
    /\ page \in {"ok"} \cup Errors
    /\ page' = "none"
    /\ UNCHANGED <<session, troubles, path, user, loading, me, login, logout, leaving>>

PageArrives ==
    /\ page \in {"ok"} \cup Errors
    /\ page' = "none"
    /\ IF page = "denied" THEN Intercept ELSE UNCHANGED leaving
    /\ UNCHANGED <<session, troubles, path, user, loading, me, login, logout>>

-----------------------------------------------------------------------------

Server == ServeMe \/ ServeLogin \/ ServeLogout \/ ServePage
Tab == Reload \/ MeArrives \/ Navigate \/ LoginArrives \/ LogoutArrives \/ PageArrives

Next == Server \/ Tab \/ SessionEvent \/ SubmitLogin \/ SubmitLogout \/ FetchPage

Spec == Init /\ [][Next]_vars

-----------------------------------------------------------------------------

(* Somebody who is logged in is only logged out by a logout of theirs or   *)
(* by a reload: the late answer of AuthMeView never undoes a login.        *)
LoginSticks == [][user /\ ~user' => logout = "ok" \/ leaving]_vars
=============================================================================
