----------------------------- MODULE PanelPage -----------------------------
(***************************************************************************)
(* A page of the administration panel in the browser: the hook useFetch of *)
(* frontend/src/hooks/useFetch.ts and the handlers of AccountsPage.tsx,    *)
(* which send a command to the server and then read the list again.        *)
(*                                                                         *)
(* The server's accounts are a version number that every command raises;   *)
(* an answer carries the filter it was asked for and the version it read.  *)
(* The page is shown any number of times; what an instance of it has left  *)
(* on its way arrives when another one may be on the screen.               *)
(***************************************************************************)
EXTENDS Integers, SequencesExt

CONSTANTS
    Filters,    \* page number, search text and status: the deps of the hook
    Commands,   \* clicks that suspend, activate, extend, create, delete ...
    MaxChanges, \* bound: changes of the filter in a behaviour
    MaxMounts   \* bound: how often the page is shown

VARIABLES
    version,    \* how many commands the server has executed
    deps,       \* the filter that the page shows
    changes,    \* how often it was changed
    dirty,      \* deps or tick have changed and the effect has yet to run
    fetches,    \* the requests of the hook, until their answers have arrived
    loading, error, data,   \* what the hook returns
    command,    \* the state of each handler
    confirmed,  \* history: the newest version that a finished handler made
    mounted,    \* the page is on the screen
    mount       \* the number of its instance

server == <<version>>
filter == <<deps, changes>>
shown == <<loading, error, data>>
screen == <<mounted, mount>>
vars == <<server, filter, dirty, fetches, shown, command, confirmed, screen>>

-----------------------------------------------------------------------------

Versions == 0..Cardinality(Commands)
FirstFilter == CHOOSE f \in Filters : TRUE
NoData == [deps |-> FirstFilter, version |-> -1]
Failures == {"failed", "denied"}
Fetch == [state : {"sent", "served"} \cup Failures, deps : Filters,
          version : Versions, cancelled : BOOLEAN]
Command == [state : {"none", "sent", "executed", "done"} \cup Failures,
            version : Versions, mount : 0..MaxMounts]

(* The types of the variables; no command is executed twice.               *)
TypeOK ==
    /\ version \in Versions /\ confirmed \in Versions
    /\ deps \in Filters /\ changes \in 0..MaxChanges
    /\ dirty \in BOOLEAN /\ loading \in BOOLEAN /\ error \in BOOLEAN /\ mounted \in BOOLEAN
    /\ data = NoData \/ data \in [deps : Filters, version : Versions]
    /\ command \in [Commands -> Command]
    /\ \A i \in DOMAIN fetches : fetches[i] \in Fetch
    /\ mount \in 0..MaxMounts

NoCommand == [state |-> "none", version |-> 0, mount |-> 0]
Done == [NoCommand EXCEPT !.state = "done"]

(* Another page is on the screen.                                          *)
Init ==
    /\ version = 0 /\ confirmed = 0
    /\ deps = FirstFilter /\ changes = 0
    /\ dirty = FALSE /\ loading = FALSE /\ error = FALSE /\ data = NoData
    /\ fetches = << >>
    /\ command = [c \in Commands |-> NoCommand]
    /\ mounted = FALSE /\ mount = 0

-----------------------------------------------------------------------------
(* useFetch                                                                *)

(* The first render of an instance asks for its effect.                    *)
Mount ==
    /\ ~mounted /\ mount < MaxMounts
    /\ mounted' = TRUE /\ mount' = mount + 1
    /\ dirty' = TRUE /\ loading' = TRUE
    /\ UNCHANGED <<server, filter, fetches, error, data, command, confirmed>>

(* The page shows its buttons and inputs, and no spinner in their place.   *)
Usable == mounted /\ ~(loading /\ data = NoData)

ChangeFilter(f) ==
    /\ Usable /\ f # deps /\ changes < MaxChanges
    /\ deps' = f /\ changes' = changes + 1 /\ dirty' = TRUE
    /\ UNCHANGED <<server, fetches, shown, command, confirmed, screen>>

(* Mutation: the effect has no cleanup.                                    *)
CleanupNothing == fetches

(* The cleanup of an effect: the request that it sent is ignored from now. *)
Cleanup == [i \in DOMAIN fetches |-> [fetches[i] EXCEPT !.cancelled = TRUE]]

(* The effect, with the filter of the last render.                         *)
Effect ==
    /\ mounted /\ dirty
    /\ fetches' = Append(Cleanup, [state |-> "sent", deps |-> deps, version |-> 0,
                                   cancelled |-> FALSE])
    /\ loading' = TRUE /\ error' = FALSE /\ dirty' = FALSE
    /\ UNCHANGED <<server, filter, data, command, confirmed, screen>>

(* The server reads the accounts, or the request fails or is denied.       *)
Serve(i) ==
    /\ fetches[i].state = "sent"
    /\ \/ fetches' = [fetches EXCEPT ![i].state = "served", ![i].version = version]
       \/ \E s \in Failures : fetches' = [fetches EXCEPT ![i].state = s]
    /\ UNCHANGED <<server, filter, dirty, shown, command, confirmed, screen>>

(* Mutation: loading ends with an answer and not with an error.            *)
ArriveSilently(i) ==
    LET f == fetches[i] IN
    /\ f.state \in {"served"} \cup Failures
    /\ fetches' = RemoveAt(fetches, i)
    /\ IF f.cancelled \/ f.state \in Failures
         THEN UNCHANGED <<data, error, loading>>
         ELSE /\ loading' = FALSE
              /\ data' = [deps |-> f.deps, version |-> f.version]
              /\ UNCHANGED error
    /\ UNCHANGED <<server, filter, dirty, command, confirmed, screen>>

(* The answer arrives: then or catch, and finally.                         *)
Arrive(i) ==
    LET f == fetches[i] IN
    /\ f.state \in {"served"} \cup Failures
    /\ fetches' = RemoveAt(fetches, i)
    /\ IF f.cancelled
         THEN UNCHANGED <<data, error, loading>>
         ELSE /\ loading' = FALSE
              /\ data' = IF f.state = "served" THEN [deps |-> f.deps, version |-> f.version]
                                               ELSE data
              /\ error' = (error \/ f.state \in Failures)
    /\ UNCHANGED <<server, filter, dirty, command, confirmed, screen>>

(* Another page takes its place, and the instance's state is gone.         *)
Unmount ==
    /\ mounted
    /\ mounted' = FALSE
    /\ fetches' = Cleanup
    /\ deps' = FirstFilter
    /\ dirty' = FALSE /\ loading' = FALSE /\ error' = FALSE /\ data' = NoData
    /\ UNCHANGED <<server, changes, command, confirmed, mount>>

-----------------------------------------------------------------------------
(* handleSuspend, handleActivate, handleExtend, handleCreate, handleDelete *)

Click(c) ==
    /\ Usable /\ command[c].state = "none"
    /\ command' = [command EXCEPT ![c].state = "sent", ![c].mount = mount]
    /\ UNCHANGED <<server, filter, dirty, fetches, shown, confirmed, screen>>

(* The server executes the command, and the answer may be lost; or it does *)
(* not.                                                                    *)
Execute(c) ==
    /\ command[c].state = "sent"
    /\ \/ /\ version' = version + 1
          /\ \E s \in {"executed", "failed"} :
               command' = [command EXCEPT ![c].state = s, ![c].version = version']
       \/ /\ \E s \in Failures : command' = [command EXCEPT ![c].state = s]
          /\ UNCHANGED version
    /\ UNCHANGED <<filter, dirty, fetches, shown, confirmed, screen>>

(* setTick, which does nothing once the instance is gone.                  *)
refetch(c) == dirty' = (dirty \/ (mounted /\ command[c].mount = mount))

(* The handler goes on after its await; a failed one only shows a message. *)
Finish(c) ==
    /\ command[c].state \in {"executed"} \cup Failures
    /\ command' = [command EXCEPT ![c] = Done]
    /\ IF command[c].state = "executed"
         THEN /\ refetch(c)
              /\ confirmed' = IF command[c].mount = mount /\ command[c].version > confirmed
                                THEN command[c].version ELSE confirmed
         ELSE UNCHANGED <<dirty, confirmed>>
    /\ UNCHANGED <<server, filter, fetches, shown, screen>>

-----------------------------------------------------------------------------

Hook == Effect \/ \E i \in DOMAIN fetches : Serve(i) \/ Arrive(i)

Next ==
    \/ Hook \/ Mount \/ Unmount
    \/ \E f \in Filters : ChangeFilter(f)
    \/ \E c \in Commands : Click(c) \/ Execute(c) \/ Finish(c)

Spec == Init /\ [][Next]_vars

-----------------------------------------------------------------------------

(* When the hook has settled without an error, the page shows the answer   *)
(* to its present filter, read after every command that it has reported as *)
(* done: answers to earlier requests, or to those of an earlier instance,  *)
(* never win, in whatever order requests are served and answers arrive.    *)
ShowsWhatWasAsked ==
    mounted /\ ~dirty /\ ~loading /\ ~error
        => data.deps = deps /\ data.version >= confirmed

(* The spinner goes away: the page settles, or is left (useFetch).         *)
Settles == []<>~(mounted /\ (dirty \/ loading))
=============================================================================
