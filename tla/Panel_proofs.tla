---------------------------- MODULE Panel_proofs ----------------------------
(***************************************************************************)
(* Proofs about Panel, for any filters and commands and any number of      *)
(* changes, mounts and requests that fail.                                 *)
(***************************************************************************)
EXTENDS Panel, SequenceTheorems, TLAPS

-----------------------------------------------------------------------------
(* The login.  The answer of AuthMeView cannot undo a login because no     *)
(* form is shown, and so no login sent, before it has arrived.             *)

AskedFirst ==
    /\ me # "none" => loading
    /\ loading => ~user /\ login = "none"

AuthInv == TypeOK /\ AskedFirst

LEMMA AuthInvInit == PanelInit => AuthInv
  <1>1. 0 \in 0..MaxTroubles
    BY PanelAuthAssumption
  <1> QED
    BY <1>1 DEF PanelInit, Init, AuthInv, TypeOK, Request, AskedFirst

LEMMA AuthInvNext == AuthInv /\ [PanelNext]_allVars => AuthInv'
  <1> SUFFICES ASSUME AuthInv, [PanelNext]_allVars PROVE AuthInv'
    OBVIOUS
  <1> USE DEF AuthInv, AskedFirst, TypeOK, Request, requests
  <1>1. Trouble => troubles' \in 0..MaxTroubles
    BY PanelAuthAssumption DEF Trouble
  <1>2. CASE Server \/ SessionEvent
    BY <1>1, <1>2 DEF Server, SessionEvent, ServeMe, ServeLogin, ServeLogout, ServePage, Answer
  <1>3. CASE SubmitLogin \/ SubmitLogout
    BY <1>3 DEF SubmitLogin, SubmitLogout, LoginForm
  <1>4. CASE Rendered
    <2>1. leaving' \in BOOLEAN
      BY <1>4 DEF Rendered, MeArrives, Navigate, LoginArrives, LogoutArrives, PageArrives, Intercept
    <2>2. CASE MeArrives
      BY <2>1, <2>2 DEF MeArrives, Errors
    <2>3. CASE Navigate
      BY <2>1, <2>3 DEF Navigate
    <2>4. CASE LoginArrives
      BY <2>1, <2>4 DEF LoginArrives, Errors
    <2>5. CASE LogoutArrives
      BY <2>1, <2>5 DEF LogoutArrives
    <2>6. CASE PageArrives
      BY <2>1, <2>6 DEF PageArrives
    <2> QED
      BY <1>4, <2>2, <2>3, <2>4, <2>5, <2>6 DEF Rendered
  <1>5. CASE Reload
    BY <1>5 DEF Reload
  <1>6. CASE Poll \/ Ask
    BY <1>6 DEF Poll, Ask, FetchPage
  <1>7. ASSUME NEW state, Granted(state) PROVE AuthInv'
    BY <1>1, <1>7 DEF Granted
  <1>8. ASSUME NEW state, Heed(state) PROVE AuthInv'
    BY <1>8 DEF Heed, Intercept
  <1>9. CASE UNCHANGED vars
    BY <1>9 DEF vars
  <1>10. CASE OnPage
    BY <1>7, <1>8, <1>9, <1>10
       DEF OnPage, OpenPage, LeavePage, RunEffect, ServePageRequest, ArriveOnPage, ServeCommand,
           FinishCommand
  <1> QED
    BY <1>2, <1>3, <1>4, <1>5, <1>6, <1>9, <1>10 DEF PanelNext, Auth, OpenOther, allVars

(* Somebody who is logged in is only logged out by a logout of theirs or   *)
(* by a reload (AuthContext.tsx): the late answer of AuthMeView never      *)
(* undoes a login, whatever is on the screen and whichever requests fail.  *)
THEOREM LoginsStick == PanelSpec => LoginSticks
  <1>1. ASSUME AuthInv, [PanelNext]_allVars, user, ~user' PROVE logout = "ok" \/ leaving
    <2>1. ~loading /\ me = "none"
      BY <1>1 DEF AuthInv, AskedFirst
    <2>2. Rendered \/ Reload
      BY <1>1 DEF PanelNext, Auth, Poll, Ask, OpenOther, OnPage, OpenPage, LeavePage, RunEffect,
                  ServePageRequest, ArriveOnPage, ServeCommand, FinishCommand, Granted, Heed, allVars,
                  vars, FetchPage, Server, ServeMe, ServeLogin, ServeLogout, ServePage, SessionEvent,
                  SubmitLogin, SubmitLogout
    <2> QED
      BY <1>1, <2>1, <2>2 DEF Rendered, Reload, MeArrives, Navigate, LoginArrives, LogoutArrives,
                              PageArrives, Errors
  <1>2. AuthInv /\ [PanelNext]_allVars => [user /\ ~user' => logout = "ok" \/ leaving]_vars
    BY <1>1
  <1> QED
    BY <1>2, AuthInvInit, AuthInvNext, PTL DEF PanelSpec, LoginSticks

-----------------------------------------------------------------------------
(* The page.  What is shown is up to date because every request whose      *)
(* answer still counts was sent with the present filter, and read after    *)
(* every command that was reported as done.                                *)

Asked == [state : {"sent", "served", "failed", "denied"}, deps : Filters,
          version : Nat, cancelled : BOOLEAN]
Handler == [state : {"none", "sent", "executed", "done", "failed", "denied"},
            version : Nat, mount : Nat]

PageTypes ==
    /\ version \in Nat /\ confirmed \in Nat /\ mount \in Nat
    /\ deps \in Filters
    /\ mounted \in BOOLEAN /\ dirty \in BOOLEAN /\ fetching \in BOOLEAN /\ error \in BOOLEAN
    /\ fetches \in Seq(Asked)
    /\ command \in [Commands -> Handler]

Reported == confirmed <= version /\ \A c \in Commands : command[c].version <= version

(* A request whose answer the page would show                              *)
UpToDate(f) == f.deps = deps /\ (f.state = "served" => f.version >= confirmed)

Fresh ==
    mounted /\ ~dirty =>
        \A i \in DOMAIN fetches : ~fetches[i].cancelled => UpToDate(fetches[i])

PageInv == PageTypes /\ Reported /\ Fresh /\ ShowsWhatWasAsked

LEMMA FirstFilterIsOne == Page!FirstFilter \in Filters
  BY PanelAssumption DEF Page!FirstFilter

LEMMA PageInvInit == PanelInit => PageInv
  <1> SUFFICES ASSUME Page!Init PROVE PageInv
    BY DEF PanelInit
  <1>1. Page!NoCommand \in Handler /\ Page!NoCommand.version = 0
    BY DEF Page!NoCommand, Handler
  <1>2. PageTypes
    <2>1. command \in [Commands -> Handler]
      BY <1>1 DEF Page!Init
    <2>2. fetches \in Seq(Asked)
      BY DEF Page!Init
    <2> QED
      BY <2>1, <2>2, FirstFilterIsOne DEF Page!Init, PageTypes
  <1>3. Reported
    BY <1>1 DEF Page!Init, Reported
  <1> QED
    BY <1>2, <1>3 DEF Page!Init, PageInv, Fresh, ShowsWhatWasAsked, Page!ShowsWhatWasAsked

(* RemoveAt leaves elements of the sequence.                               *)
LEMMA RemoveAtKeeps ==
    ASSUME NEW S, NEW s \in Seq(S), NEW i \in DOMAIN s
    PROVE  /\ Page!RemoveAt(s, i) \in Seq(S)
           /\ \A j \in DOMAIN Page!RemoveAt(s, i) :
                \E k \in DOMAIN s : Page!RemoveAt(s, i)[j] = s[k]
  <1> DEFINE a == SubSeq(s, 1, i - 1)
             b == SubSeq(s, i + 1, Len(s))
  <1>1. i \in 1..Len(s) /\ DOMAIN s = 1..Len(s) /\ Len(s) \in Nat
    OBVIOUS
  <1>2. /\ a \in Seq(S) /\ Len(a) = i - 1
        /\ \A k \in 1..(i - 1) : a[k] = s[k]
    BY <1>1
  <1>3. /\ b \in Seq(S) /\ Len(b) = Len(s) - i
        /\ \A k \in 1..(Len(s) - i) : b[k] = s[i + k]
    BY <1>1
  <1> HIDE DEF a, b
  <1>4. /\ a \o b \in Seq(S) /\ Len(a \o b) = Len(s) - 1
        /\ \A j \in 1..(Len(s) - 1) : (a \o b)[j] = IF j <= i - 1 THEN a[j] ELSE b[j - (i - 1)]
    <2>1. Len(a) + Len(b) = Len(s) - 1
      BY <1>1, <1>2, <1>3
    <2>2. /\ a \o b \in Seq(S) /\ Len(a \o b) = Len(a) + Len(b)
          /\ \A j \in 1..(Len(a) + Len(b)) :
                (a \o b)[j] = IF j <= Len(a) THEN a[j] ELSE b[j - Len(a)]
      BY <1>2, <1>3, ConcatProperties
    <2> QED
      BY <1>2, <2>1, <2>2
  <1>5. ASSUME NEW j \in 1..(Len(s) - 1) PROVE \E k \in DOMAIN s : (a \o b)[j] = s[k]
    <2>1. CASE j <= i - 1
      <3>1. j \in 1..(i - 1) /\ j \in DOMAIN s
        BY <1>1, <2>1
      <3>2. (a \o b)[j] = a[j]
        BY <1>4, <2>1
      <3> QED
        BY <1>2, <3>1, <3>2
    <2>2. CASE ~(j <= i - 1)
      <3>1. j - (i - 1) \in 1..(Len(s) - i) /\ i + (j - (i - 1)) \in 1..Len(s)
        BY <1>1, <2>2
      <3>2. (a \o b)[j] = s[i + (j - (i - 1))]
        BY <1>3, <1>4, <2>2, <3>1
      <3> QED
        BY <1>1, <3>1, <3>2
    <2> QED
      BY <2>1, <2>2
  <1>6. Page!RemoveAt(s, i) = a \o b
    BY DEF Page!RemoveAt, a, b
  <1>7. DOMAIN (a \o b) = 1..(Len(s) - 1)
    BY <1>4
  <1> QED
    BY <1>4, <1>5, <1>6, <1>7

(* The cleanup of an effect.                                               *)
LEMMA CleanupCancels ==
    ASSUME PageTypes
    PROVE  /\ Page!Cleanup \in Seq(Asked) /\ DOMAIN Page!Cleanup = DOMAIN fetches
           /\ \A i \in DOMAIN fetches : Page!Cleanup[i].cancelled = TRUE
  <1>1. fetches \in Seq(Asked) /\ DOMAIN fetches = 1..Len(fetches) /\ Len(fetches) \in Nat
    BY DEF PageTypes
  <1>2. \A i \in DOMAIN fetches : fetches[i] \in Asked
    BY <1>1
  <1>3. \A f \in Asked : [f EXCEPT !.cancelled = TRUE] \in Asked
                         /\ [f EXCEPT !.cancelled = TRUE].cancelled = TRUE
    BY DEF Asked
  <1>4. \A i \in DOMAIN fetches : Page!Cleanup[i] \in Asked /\ Page!Cleanup[i].cancelled = TRUE
    BY <1>2, <1>3 DEF Page!Cleanup
  <1>5. Page!Cleanup \in [1..Len(fetches) -> Asked]
    BY <1>1, <1>4 DEF Page!Cleanup
  <1> QED
    BY <1>1, <1>4, <1>5, SeqDef

(* The steps of the hook.                                                  *)
LEMMA MountStep == PageInv /\ Page!Mount => PageInv'
  BY DEF PageInv, PageTypes, Reported, Fresh, ShowsWhatWasAsked, Page!ShowsWhatWasAsked,
         Page!Mount, Page!server, Page!filter

LEMMA UnmountStep == PageInv /\ Page!Unmount => PageInv'
  <1> SUFFICES ASSUME PageInv, Page!Unmount PROVE PageInv'
    OBVIOUS
  <1>1. /\ mounted' = FALSE /\ fetches' = Page!Cleanup /\ deps' = Page!FirstFilter
        /\ dirty' = FALSE /\ fetching' = FALSE /\ error' = FALSE
        /\ UNCHANGED <<version, command, confirmed, mount>>
    BY DEF Page!Unmount, Page!server
  <1>2. PageTypes'
    BY <1>1, FirstFilterIsOne, CleanupCancels DEF PageInv, PageTypes
  <1> QED
    BY <1>1, <1>2 DEF PageInv, Reported, Fresh, ShowsWhatWasAsked, Page!ShowsWhatWasAsked

LEMMA FilterStep ==
    ASSUME PageInv, NEW f \in Filters, Page!ChangeFilter(f)
    PROVE  PageInv'
  BY DEF PageInv, PageTypes, Reported, Fresh, ShowsWhatWasAsked, Page!ShowsWhatWasAsked,
         Page!ChangeFilter, Page!Usable, Page!server, Page!shown, Page!screen

LEMMA EffectStep == PageInv /\ Page!Effect => PageInv'
  <1> SUFFICES ASSUME PageInv, Page!Effect PROVE PageInv'
    OBVIOUS
  <1> DEFINE new == [state |-> "sent", deps |-> deps, version |-> 0, cancelled |-> FALSE]
             old == Page!Cleanup
  <1>1. /\ fetches' = Append(old, new) /\ fetching' = TRUE /\ error' = FALSE /\ dirty' = FALSE
        /\ UNCHANGED <<version, deps, command, confirmed, mounted, mount>>
    BY DEF Page!Effect, Page!server, Page!filter, Page!screen
  <1>2. new \in Asked /\ new.deps = deps /\ new.state = "sent"
    BY DEF PageInv, PageTypes, Asked
  <1>3. /\ old \in Seq(Asked) /\ DOMAIN old = 1..Len(old) /\ Len(old) \in Nat
        /\ \A i \in DOMAIN old : old[i].cancelled = TRUE
    <2>1. /\ old \in Seq(Asked) /\ DOMAIN old = DOMAIN fetches
          /\ \A i \in DOMAIN fetches : old[i].cancelled = TRUE
      BY CleanupCancels DEF PageInv
    <2> HIDE DEF old
    <2> QED
      BY <2>1
  <1> HIDE DEF new, old
  <1>4. /\ fetches' \in Seq(Asked) /\ DOMAIN fetches' = 1..(Len(old) + 1)
        /\ fetches'[Len(old) + 1] = new
        /\ \A i \in 1..Len(old) : fetches'[i] = old[i]
    BY <1>1, <1>2, <1>3
  <1>5. PageTypes'
    BY <1>1, <1>4 DEF PageInv, PageTypes
  <1>6. ASSUME NEW i \in DOMAIN fetches', ~fetches'[i].cancelled PROVE UpToDate(fetches[i])'
    <2>1. i \notin 1..Len(old)
      BY <1>3, <1>4, <1>6
    <2>2. fetches'[i] = new
      BY <1>3, <1>4, <2>1
    <2> QED
      BY <1>1, <1>2, <2>2 DEF UpToDate
  <1> QED
    BY <1>1, <1>5, <1>6 DEF PageInv, Reported, Fresh, ShowsWhatWasAsked, Page!ShowsWhatWasAsked

LEMMA ServeStep ==
    ASSUME PageInv, NEW i \in DOMAIN fetches, Page!Serve(i)
    PROVE  PageInv'
  <1>1. fetches \in Seq(Asked) /\ version \in Nat /\ confirmed <= version
    BY DEF PageInv, PageTypes, Reported
  <1>2. fetches[i] \in Asked
    BY <1>1
  <1>3. PICK f \in Asked : /\ fetches' = [fetches EXCEPT ![i] = f]
                           /\ f.deps = fetches[i].deps /\ f.cancelled = fetches[i].cancelled
                           /\ f.state = "served" => f.version = version
    <2>1. CASE fetches' = [fetches EXCEPT ![i].state = "served", ![i].version = version]
      <3> DEFINE f == [fetches[i] EXCEPT !.state = "served", !.version = version]
      <3>1. f \in Asked /\ f.deps = fetches[i].deps /\ f.cancelled = fetches[i].cancelled
            /\ f.version = version
        BY <1>1, <1>2 DEF Asked
      <3>2. fetches' = [fetches EXCEPT ![i] = f]
        BY <2>1
      <3> QED
        BY <3>1, <3>2
    <2>2. ASSUME NEW s \in Page!Failures, fetches' = [fetches EXCEPT ![i].state = s]
          PROVE  \E f \in Asked : /\ fetches' = [fetches EXCEPT ![i] = f]
                                  /\ f.deps = fetches[i].deps
                                  /\ f.cancelled = fetches[i].cancelled
                                  /\ f.state = "served" => f.version = version
      <3> DEFINE f == [fetches[i] EXCEPT !.state = s]
      <3>1. f \in Asked /\ f.deps = fetches[i].deps /\ f.cancelled = fetches[i].cancelled
            /\ f.state # "served"
        BY <1>2 DEF Asked, Page!Failures
      <3>2. fetches' = [fetches EXCEPT ![i] = f]
        BY <2>2
      <3> QED
        BY <3>1, <3>2
    <2> QED
      BY <2>1, <2>2 DEF Page!Serve
  <1>4. UNCHANGED <<version, deps, dirty, fetching, error, data, command, confirmed, mounted, mount>>
    BY DEF Page!Serve, Page!server, Page!filter, Page!shown, Page!screen
  <1>5. /\ fetches' \in Seq(Asked) /\ DOMAIN fetches' = DOMAIN fetches /\ fetches'[i] = f
        /\ \A j \in DOMAIN fetches : j # i => fetches'[j] = fetches[j]
    BY <1>1, <1>3
  <1>6. PageTypes' /\ Reported'
    BY <1>4, <1>5 DEF PageInv, PageTypes, Reported
  <1>7. Fresh'
    <2> SUFFICES ASSUME mounted, ~dirty, NEW j \in DOMAIN fetches, ~fetches'[j].cancelled
                 PROVE  UpToDate(fetches[j])'
      BY <1>4, <1>5 DEF Fresh
    <2>1. CASE j # i
      BY <1>4, <1>5, <2>1 DEF PageInv, Fresh, UpToDate
    <2>2. CASE j = i
      BY <1>1, <1>3, <1>4, <1>5, <2>2 DEF PageInv, Fresh, UpToDate
    <2> QED
      BY <2>1, <2>2
  <1> QED
    BY <1>4, <1>6, <1>7 DEF PageInv, ShowsWhatWasAsked, Page!ShowsWhatWasAsked

LEMMA ArriveStep ==
    ASSUME PageInv, NEW i \in DOMAIN fetches, Page!Arrive(i)
    PROVE  PageInv'
  <1> DEFINE f == fetches[i]
  <1>1. fetches \in Seq(Asked) /\ f \in Asked
    BY DEF PageInv, PageTypes
  <1>2. /\ f.state \in {"served"} \cup Page!Failures
        /\ fetches' = Page!RemoveAt(fetches, i)
        /\ IF f.cancelled
             THEN UNCHANGED <<data, error, fetching>>
             ELSE /\ fetching' = FALSE
                  /\ data' = IF f.state = "served" THEN [deps |-> f.deps, version |-> f.version]
                                                   ELSE data
                  /\ error' = (error \/ f.state \in Page!Failures)
        /\ UNCHANGED <<version, deps, dirty, command, confirmed, mounted, mount>>
    BY DEF Page!Arrive, Page!server, Page!filter, Page!screen
  <1>3. /\ fetches' \in Seq(Asked)
        /\ \A j \in DOMAIN fetches' : \E k \in DOMAIN fetches : fetches'[j] = fetches[k]
    BY <1>1, <1>2, RemoveAtKeeps
  <1> HIDE DEF f
  <1>4. PageTypes' /\ Reported'
    BY <1>2, <1>3 DEF PageInv, PageTypes, Reported
  <1>5. Fresh'
    BY <1>2, <1>3 DEF PageInv, Fresh, UpToDate
  <1>6. ShowsWhatWasAsked'
    <2>1. CASE f.cancelled
      BY <1>2, <2>1 DEF PageInv, ShowsWhatWasAsked, Page!ShowsWhatWasAsked
    <2>2. CASE ~f.cancelled /\ f.state \in Page!Failures
      BY <1>2, <2>2 DEF ShowsWhatWasAsked, Page!ShowsWhatWasAsked
    <2>3. CASE ~f.cancelled /\ f.state = "served"
      <3>1. mounted /\ ~dirty => UpToDate(f)
        BY <2>3 DEF PageInv, Fresh, f
      <3>2. data' = [deps |-> f.deps, version |-> f.version]
        BY <1>2, <2>3
      <3> QED
        BY <1>2, <2>3, <3>1, <3>2 DEF ShowsWhatWasAsked, Page!ShowsWhatWasAsked, UpToDate
    <2> QED
      BY <1>2, <2>1, <2>2, <2>3
  <1> QED
    BY <1>4, <1>5, <1>6 DEF PageInv

(* The steps of the handlers.  The table of commands changes at one place. *)
LEMMA CommandStep ==
    ASSUME PageInv, NEW c \in Commands, NEW h \in Handler,
           command' = [command EXCEPT ![c] = h], h.version <= version',
           version' \in Nat, version <= version',
           UNCHANGED <<confirmed, deps, dirty, fetches, fetching, error, data, mounted, mount>>
    PROVE  PageInv'
  <1>1. command \in [Commands -> Handler] /\ version \in Nat /\ confirmed \in Nat
    BY DEF PageInv, PageTypes
  <1>2. PageTypes'
    BY <1>1 DEF PageInv, PageTypes
  <1>3. Reported'
    <2>1. confirmed' <= version'
      BY <1>1 DEF PageInv, Reported
    <2>2. ASSUME NEW d \in Commands PROVE command'[d].version <= version'
      <3>1. command[d] \in Handler /\ command[d].version <= version
        BY <1>1 DEF PageInv, Reported
      <3>2. command[d].version \in Nat
        BY <3>1 DEF Handler
      <3> QED
        BY <1>1, <3>1, <3>2
    <2> QED
      BY <2>1, <2>2 DEF Reported
  <1>4. Fresh' /\ ShowsWhatWasAsked'
    BY DEF PageInv, Fresh, UpToDate, ShowsWhatWasAsked, Page!ShowsWhatWasAsked
  <1> QED
    BY <1>2, <1>3, <1>4 DEF PageInv

LEMMA ClickStep ==
    ASSUME PageInv, NEW c \in Commands, Page!Click(c)
    PROVE  PageInv'
  <1> DEFINE h == [command[c] EXCEPT !.state = "sent", !.mount = mount]
  <1>1. command \in [Commands -> Handler] /\ command[c].version <= version /\ mount \in Nat
        /\ version \in Nat
    BY DEF PageInv, PageTypes, Reported
  <1>2. command[c] \in Handler
    BY <1>1
  <1>3. h \in Handler /\ h.version = command[c].version
    BY <1>1, <1>2 DEF Handler
  <1>4. command' = [command EXCEPT ![c] = h]
    BY <1>1 DEF Page!Click
  <1>5. UNCHANGED <<version, confirmed, deps, dirty, fetches, fetching, error, data, mounted, mount>>
    BY DEF Page!Click, Page!server, Page!filter, Page!shown, Page!screen
  <1> HIDE DEF h
  <1>6. version' \in Nat /\ version <= version' /\ h.version <= version'
    BY <1>1, <1>3, <1>5
  <1> QED
    BY <1>3, <1>4, <1>5, <1>6, CommandStep

LEMMA ExecuteStep ==
    ASSUME PageInv, NEW c \in Commands, Page!Execute(c)
    PROVE  PageInv'
  <1>1. command \in [Commands -> Handler] /\ command[c].version <= version /\ version \in Nat
    BY DEF PageInv, PageTypes, Reported
  <1>2. command[c] \in Handler
    BY <1>1
  <1>3. UNCHANGED <<confirmed, deps, dirty, fetches, fetching, error, data, mounted, mount>>
    BY DEF Page!Execute, Page!filter, Page!shown, Page!screen
  <1>4. ASSUME NEW s \in {"executed", "failed"}, version' = version + 1,
               command' = [command EXCEPT ![c].state = s, ![c].version = version']
        PROVE  PageInv'
    <2> DEFINE h == [command[c] EXCEPT !.state = s, !.version = version']
    <2>1. version' \in Nat /\ version <= version' /\ version' <= version'
      BY <1>1, <1>4
    <2>2. h \in Handler /\ h.version = version'
      BY <1>2, <2>1 DEF Handler
    <2>3. command' = [command EXCEPT ![c] = h]
      BY <1>1, <1>4
    <2>4. PICK g \in Handler : g.version = version' /\ command' = [command EXCEPT ![c] = g]
      BY <2>2, <2>3
    <2> HIDE DEF h
    <2> QED
      BY <1>3, <2>1, <2>4, CommandStep
  <1>5. ASSUME NEW s \in Page!Failures, UNCHANGED version,
               command' = [command EXCEPT ![c].state = s]
        PROVE  PageInv'
    <2> DEFINE h == [command[c] EXCEPT !.state = s]
    <2>2. h \in Handler /\ h.version = command[c].version
      BY <1>2 DEF Handler, Page!Failures
    <2>3. command' = [command EXCEPT ![c] = h]
      BY <1>1, <1>5
    <2> HIDE DEF h
    <2>4. version' \in Nat /\ version <= version' /\ h.version <= version'
      BY <1>1, <1>5, <2>2
    <2> QED
      BY <1>3, <2>2, <2>3, <2>4, CommandStep
  <1> QED
    BY <1>4, <1>5 DEF Page!Execute

LEMMA FinishStep ==
    ASSUME PageInv, NEW c \in Commands, Page!Finish(c)
    PROVE  PageInv'
  <1>1. /\ command \in [Commands -> Handler] /\ command[c].version <= version
        /\ version \in Nat /\ confirmed \in Nat /\ confirmed <= version
    BY DEF PageInv, PageTypes, Reported
  <1>2. command[c] \in Handler /\ command[c].version \in Nat
    BY <1>1 DEF Handler
  <1>3. Page!Done \in Handler /\ Page!Done.version = 0
    BY DEF Page!Done, Page!NoCommand, Handler
  <1>4. /\ command' = [command EXCEPT ![c] = Page!Done]
        /\ UNCHANGED <<version, deps, fetches, fetching, error, data, mounted, mount>>
    BY DEF Page!Finish, Page!server, Page!filter, Page!shown, Page!screen
  <1>5. CASE UNCHANGED <<dirty, confirmed>>
    <2>1. version' \in Nat /\ version <= version' /\ Page!Done.version <= version'
      BY <1>1, <1>3, <1>4
    <2> QED
      BY <1>3, <1>4, <1>5, <2>1, CommandStep
  <1>6. CASE ~(UNCHANGED <<dirty, confirmed>>)
    <2>1. /\ command[c].state = "executed"
          /\ dirty' = (dirty \/ (mounted /\ command[c].mount = mount))
          /\ confirmed' = IF command[c].mount = mount /\ command[c].version > confirmed
                            THEN command[c].version ELSE confirmed
      BY <1>6 DEF Page!Finish, Page!refetch
    <2>2. mounted => dirty'
      BY <1>6, <2>1 DEF PageInv, PageTypes
    <2>3. confirmed' \in Nat /\ confirmed' <= version
      BY <1>1, <1>2, <2>1
    <2>4. PageTypes'
      BY <1>1, <1>3, <1>4, <2>1, <2>3 DEF PageInv, PageTypes
    <2>5. Reported'
      BY <1>1, <1>3, <1>4, <2>3 DEF PageInv, Reported
    <2> QED
      BY <1>4, <2>2, <2>4, <2>5
         DEF PageInv, Fresh, ShowsWhatWasAsked, Page!ShowsWhatWasAsked
  <1> QED
    BY <1>5, <1>6

(* The document is reloaded.                                               *)
LEMMA ForgetStep == PageInv /\ Forget => PageInv'
  <1> SUFFICES ASSUME PageInv, Forget PROVE PageInv'
    OBVIOUS
  <1>1. /\ command \in [Commands -> Handler] /\ version \in Nat
        /\ \A c \in Commands : command[c].version <= version
    BY DEF PageInv, PageTypes, Reported
  <1>2. /\ mounted' = FALSE /\ dirty' = FALSE /\ fetches' = << >>
        /\ deps' = Page!FirstFilter /\ fetching' = FALSE /\ error' = FALSE
        /\ UNCHANGED <<version, confirmed, mount>>
    BY DEF Forget
  <1>3. Page!Done \in Handler /\ Page!Done.version = 0
    BY DEF Page!Done, Page!NoCommand, Handler
  <1>4. ASSUME NEW c \in Commands PROVE command'[c] \in Handler /\ command'[c].version <= version
    <2>1. command[c] \in Handler /\ command[c].version <= version
      BY <1>1
    <2>2. /\ [command[c] EXCEPT !.mount = 0] \in Handler
          /\ [command[c] EXCEPT !.mount = 0].version = command[c].version
      BY <2>1 DEF Handler
    <2> QED
      BY <1>1, <1>3, <2>1, <2>2 DEF Forget
  <1>5. command' \in [Commands -> Handler]
    BY <1>4 DEF Forget
  <1>7. fetches' \in Seq(Asked)
    BY <1>2
  <1>6. PageTypes'
    BY <1>2, <1>5, <1>7, FirstFilterIsOne DEF PageInv, PageTypes
  <1> QED
    BY <1>2, <1>4, <1>6 DEF PageInv, Reported, Fresh, ShowsWhatWasAsked, Page!ShowsWhatWasAsked

LEMMA PageInvNext == PageInv /\ [PanelNext]_allVars => PageInv'
  <1> SUFFICES ASSUME PageInv, [PanelNext]_allVars PROVE PageInv'
    OBVIOUS
  <1>1. CASE UNCHANGED pageVars
    BY <1>1 DEF pageVars, PageInv, PageTypes, Reported, Fresh, UpToDate, ShowsWhatWasAsked,
                Page!ShowsWhatWasAsked
  <1>2. CASE Auth
    BY <1>1, <1>2, UnmountStep, ForgetStep DEF Auth, Follow, Elsewhere
  <1>3. CASE OnPage
    BY <1>3, MountStep, UnmountStep, FilterStep, EffectStep, ServeStep, ArriveStep, ClickStep,
       ExecuteStep, FinishStep
       DEF OnPage, OpenPage, LeavePage, RunEffect, ServePageRequest, ArriveOnPage, ServeCommand,
           FinishCommand
  <1> QED
    BY <1>1, <1>2, <1>3 DEF PanelNext, Poll, Ask, OpenOther, Elsewhere, allVars

(* When the page has settled without an error it shows the answer to its   *)
(* present filter, read after every command it has reported as done        *)
(* (useFetch, AccountsPage.tsx), in whatever order requests are served and *)
(* answers arrive, whatever was left by earlier instances of the page and  *)
(* whenever the interceptor reloads the document.                          *)
THEOREM PageShowsWhatWasAsked == PanelSpec => []ShowsWhatWasAsked
  BY PageInvInit, PageInvNext, PTL DEF PanelSpec, PageInv

=============================================================================
