------------------------------- MODULE Panel -------------------------------
(***************************************************************************)
(* A tab of the administration panel as a whole: PanelAuth, who is logged  *)
(* in, with PanelPage, the accounts page that ProtectedRoute shows only to *)
(* somebody who is.                                                        *)
(*                                                                         *)
(* While the accounts page is not shown another one is: the dashboard or   *)
(* the list of sessions, which ask for their data again and again, or one  *)
(* of the servers, the plans, the logs and a single account, which ask     *)
(* once, and again only after something the user does.  Their requests are *)
(* page of PanelAuth.  Every answer of 401 or 403 passes the interceptor   *)
(* of api/client.ts, also one that belongs to a page that is gone.         *)
(***************************************************************************)
EXTENDS PanelAuth, FiniteSets

CONSTANTS Filters, Commands, MaxChanges, MaxMounts

ASSUME PanelAssumption ==
    /\ Filters # {} /\ IsFiniteSet(Commands)
    /\ MaxChanges \in Nat /\ MaxMounts \in Nat

VARIABLES
    version, deps, changes, dirty, fetches, fetching, error, data,
    command, confirmed, mounted, mount,
    view    \* the other page on the screen: none, one that polls, or one that
            \* asks once and has yet to do it (fresh) or has done it (still)

Page == INSTANCE PanelPage WITH loading <- fetching

pageVars == <<version, deps, changes, dirty, fetches, fetching, error, data, command, confirmed,
              mounted, mount>>
allVars == <<vars, pageVars, view>>

Others == {"polling", "fresh"}

PanelInit ==
    /\ Init /\ Page!Init
    /\ view \in IF path = "app" THEN Others ELSE {"none"}

-----------------------------------------------------------------------------
(* What PanelAuth does, and what becomes of the page.                      *)

(* ProtectedRoute shows its children no longer; LoginPage leads to the     *)
(* dashboard.                                                              *)
Follow ==
    /\ IF mounted /\ ~(path' = "app" /\ user') THEN Page!Unmount ELSE UNCHANGED pageVars
    /\ view' = IF path' = path THEN view ELSE IF path' = "app" THEN "polling" ELSE "none"

(* A document that is reloaded takes its handlers and requests with it;    *)
(* what the server has received it executes.                               *)
Forget ==
    /\ mounted' = FALSE /\ view' = "none" /\ dirty' = FALSE /\ fetches' = << >>
    /\ deps' = Page!FirstFilter /\ fetching' = FALSE /\ error' = FALSE /\ data' = Page!NoData
    /\ command' = [c \in Commands |->
                     IF command[c].state = "sent" THEN [command[c] EXCEPT !.mount = 0]
                     ELSE IF command[c].state = "none" THEN command[c]
                     ELSE Page!Done]
    /\ UNCHANGED <<version, changes, confirmed, mount>>

Rendered == MeArrives \/ Navigate \/ LoginArrives \/ LogoutArrives \/ PageArrives

(* What is on the screen stays there.                                      *)
Elsewhere == UNCHANGED <<pageVars, view>>

Auth ==
    \/ (Server \/ SessionEvent \/ SubmitLogin \/ SubmitLogout) /\ Elsewhere
    \/ Rendered /\ Follow
    \/ Reload /\ Forget

(* The interval of DashboardPage and SessionsPage                          *)
Poll == view = "polling" /\ FetchPage /\ Elsewhere

(* useFetch on a page that asks once; React runs the effect of a page that *)
(* it shows before it shows another one.                                   *)
Ask == view = "fresh" /\ view' = "still" /\ FetchPage /\ UNCHANGED pageVars

(* The user goes to another page than the accounts, or does something that *)
(* makes the page on the screen ask again.                                 *)
OpenOther ==
    /\ view \in {"polling", "still"} /\ path = "app" /\ user /\ ~loading
    /\ view' \in Others
    /\ UNCHANGED <<vars, pageVars>>

-----------------------------------------------------------------------------
(* What PanelPage does, and what becomes of the login.                     *)

(* AdminPermission: who is no administrator is denied, and the request may *)
(* fail for other reasons.                                                 *)
Granted(state) ==
    /\ state \in {"served", "executed"} => session = "admin"
    /\ state = "denied" => session # "admin"
    /\ IF state = "failed" THEN Trouble ELSE UNCHANGED troubles
    /\ UNCHANGED <<session, path, user, loading, requests, leaving>>

ServePageRequest(i) == Page!Serve(i) /\ Granted(fetches'[i].state)

(* A command that was executed was granted, whatever becomes of its answer.*)
ServeCommand(c) ==
    /\ Page!Execute(c) /\ Granted(command'[c].state)
    /\ version' # version => session = "admin"

(* The answer of a request that was denied                                 *)
Heed(state) ==
    /\ IF state = "denied" THEN Intercept ELSE UNCHANGED leaving
    /\ UNCHANGED <<session, troubles, path, user, loading, requests>>

ArriveOnPage(i) == Page!Arrive(i) /\ Heed(fetches[i].state)

(* Nobody waits for the answer to a command of a document that is gone.    *)
FinishCommand(c) ==
    Page!Finish(c) /\ IF command[c].mount = 0 THEN UNCHANGED vars ELSE Heed(command[c].state)

OpenPage ==
    /\ view \in {"polling", "still"} /\ path = "app" /\ user /\ ~loading
    /\ Page!Mount /\ view' = "none" /\ UNCHANGED vars

LeavePage == Page!Unmount /\ view' \in Others /\ UNCHANGED vars

RunEffect == Page!Effect /\ UNCHANGED <<vars, view>>

OnPage ==
    \/ OpenPage \/ LeavePage \/ RunEffect
    \/ /\ \/ \E f \in Filters : Page!ChangeFilter(f)
          \/ \E c \in Commands : Page!Click(c)
       /\ UNCHANGED <<vars, view>>
    \/ /\ \/ \E i \in DOMAIN fetches : ServePageRequest(i) \/ ArriveOnPage(i)
          \/ \E c \in Commands : ServeCommand(c) \/ FinishCommand(c)
       /\ UNCHANGED view

-----------------------------------------------------------------------------

PanelNext == Auth \/ Poll \/ Ask \/ OpenOther \/ OnPage

PanelSpec == PanelInit /\ [][PanelNext]_allVars

(* Requests are answered, the browser renders, runs effects, reloads and   *)
(* delivers answers, and the pages that poll ask every 15 or 30 seconds.   *)
(* Each of the page's requests takes two steps and their number is bounded,*)
(* so that it is fair to each of them to be fair to all together.          *)
FairSpec ==
    /\ PanelSpec
    /\ WF_allVars(ServeMe /\ Elsewhere) /\ WF_allVars(ServeLogin /\ Elsewhere)
    /\ WF_allVars(ServeLogout /\ Elsewhere) /\ WF_allVars(ServePage /\ Elsewhere)
    /\ WF_allVars(MeArrives /\ Follow) /\ WF_allVars(LoginArrives /\ Follow)
    /\ WF_allVars(LogoutArrives /\ Follow) /\ WF_allVars(PageArrives /\ Follow)
    /\ WF_allVars(Navigate /\ Follow) /\ WF_allVars(Reload /\ Forget)
    /\ WF_allVars(Poll) /\ WF_allVars(Ask) /\ WF_allVars(RunEffect)
    /\ WF_allVars(/\ \E i \in DOMAIN fetches : ServePageRequest(i) \/ ArriveOnPage(i)
                  /\ UNCHANGED view)

-----------------------------------------------------------------------------

ShowsWhatWasAsked == Page!ShowsWhatWasAsked
Settles == Page!Settles

(* A page that asks no more until the user does something has asked, and   *)
(* the answer did not send the tab to the login page.                      *)
AtRest ==
    /\ ~leaving
    /\ \/ mounted /\ ~fetching /\ ~dirty
       \/ view = "still" /\ page = "none"

(* A tab does not for ever take somebody to be logged in whose session has *)
(* ended: it finds out from a page that polls or from one that it opens,   *)
(* and shows the login page, or a login begins a new session.  The pages   *)
(* of the accounts, one account, the servers, the plans and the logs, once *)
(* they have asked, may go on showing what they have read before, or the   *)
(* error with which that failed (useFetch).                                *)
LossIsNoticed ==
    []<>(session # "none" \/ (path = "login" /\ ~user) \/ AtRest)
=============================================================================
