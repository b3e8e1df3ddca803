----------------------------- MODULE Placement -----------------------------
(***************************************************************************)
(* Which server an account lands on: pick_best_server and its callers,     *)
(* that is create_account (the API, the payment webhook),                  *)
(* bulk_create_accounts and rebalance_users.                               *)
(*                                                                         *)
(* A server is picked by counting committed rows; the row that follows is  *)
(* committed only after the node has been provisioned over SSH, so any     *)
(* number of jobs may count the same free place.                           *)
(***************************************************************************)
EXTENDS Integers, FiniteSets

CONSTANTS
    Servers,
    Users,      \* usernames
    Workers,    \* web threads and Celery worker processes
    None,       \* "no server", "no user"
    MaxUsers    \* max_users of each server

ASSUME PlacementAssumption ==
    /\ None \notin Servers /\ None \notin Users
    /\ IsFiniteSet(Users)
    /\ IsFiniteSet(Workers) /\ Workers # {}
    /\ MaxUsers \in [Servers -> Nat]

VARIABLES
    status,     \* Server.status
    row,        \* the committed accounts: the state of each key (server, username)
    job,        \* what each worker is doing
    revived     \* observer: deleted accounts that were put back in service

vars == <<status, row, job, revived>>

-----------------------------------------------------------------------------

(* open stands for ACTIVE and EXPIRED, which the webhook extends.          *)
RowState == {"none", "open", "suspended", "deleted"}
Keys == Servers \X Users

(* todo holds the usernames that are still to be created, user the one     *)
(* that is being created; left the servers that pick_best_server has       *)
(* fetched and not yet looked at; from is the server that a row is moved   *)
(* away from, None in a creation.                                          *)
PC == {"idle", "pick", "scan", "insert", "provision", "commit"}
Job == [pc : PC, todo : SUBSET Users, user : Users \cup {None},
        want : Servers \cup {None}, left : SUBSET Servers, srv : Servers \cup {None},
        from : Servers \cup {None}]
Idle == [pc |-> "idle", todo |-> {}, user |-> None, want |-> None, left |-> {}, srv |-> None,
         from |-> None]

(* The types of the variables; a job has a user, and past pick_best_server *)
(* a server.                                                               *)
TypeOK ==
    /\ status \in [Servers -> {"active", "other"}]
    /\ row \in [Keys -> RowState]
    /\ job \in [Workers -> Job]
    /\ \A w \in Workers :
        /\ job[w].pc # "idle" => job[w].user \in Users
        /\ job[w].pc \in {"insert", "provision", "commit"} => job[w].srv \in Servers
    /\ revived \subseteq Keys

Init ==
    /\ status = [s \in Servers |-> "active"]
    /\ row = [k \in Keys |-> "none"]
    /\ job = [w \in Workers |-> Idle]
    /\ revived = {}

(* current_user_count, and the second half of is_available                 *)
Live(s) == {u \in Users : row[<<s, u>>] \in {"open", "suspended"}}

(* Mutation: a server that is exactly full is available.                   *)
HasRoomInclusive(s) == Cardinality(Live(s)) <= MaxUsers[s]

HasRoom(s) == Cardinality(Live(s)) < MaxUsers[s]

-----------------------------------------------------------------------------

Begin(w, users, want) ==
    /\ job[w].pc = "idle"
    /\ \E u \in users :
        job' = [job EXCEPT ![w] = [Idle EXCEPT !.pc = "pick", !.todo = users, !.user = u,
                                               !.want = want]]
    /\ UNCHANGED <<status, row, revived>>

(* CreateAccountView, CreateShadowLinkAccountView                          *)
StartCreate(w) ==
    \E u \in Users, s \in Servers \cup {None} : Begin(w, {u}, s)

(* PaymentWebhookView: an account of this name that is ACTIVE or EXPIRED,  *)
(* on any server, is extended; without one a new account is created.       *)
StartWebhook(w) ==
    \E u \in Users :
        /\ \A s \in Servers : row[<<s, u>>] # "open"
        /\ Begin(w, {u}, None)

(* BulkCreateAccountView                                                   *)
StartBulk(w) ==
    \E us \in SUBSET Users, s \in Servers \cup {None} : Begin(w, us, s)

(* One account in the loop of rebalance_users.  The list was read when the *)
(* task began, of the accounts active then: this row was one of them, and  *)
(* may have changed since.                                                 *)
StartMove(w) ==
    /\ job[w].pc = "idle"
    /\ \E k \in Keys :
        /\ row[k] # "none"
        /\ job' = [job EXCEPT ![w] = [Idle EXCEPT !.pc = "pick", !.user = k[2], !.from = k[1]]]
    /\ UNCHANGED <<status, row, revived>>

-----------------------------------------------------------------------------

(* The request ends, with an answer or with an exception; bulk creation    *)
(* breaks off at the first AccountError.                                   *)
Stop(w) == job' = [job EXCEPT ![w] = Idle]

Chosen(w, s) ==
    job' = [job EXCEPT ![w].pc = IF job[w].from = None THEN "insert" ELSE "provision",
                       ![w].srv = s, ![w].left = {}]

(* pick_best_server: the preferred server if it is available; if not, the  *)
(* active servers are fetched ...                                          *)
Pick(w) ==
    LET s == job[w].want IN
    /\ job[w].pc = "pick"
    /\ IF s # None /\ status[s] = "active" /\ HasRoom(s)
         THEN Chosen(w, s)
         ELSE job' = [job EXCEPT ![w].pc = "scan",
                                 ![w].left = {t \in Servers : status[t] = "active"}]
    /\ UNCHANGED <<status, row, revived>>

(* ... and looked at one by one, each with a count of its own, in the      *)
(* order of their last cpu_usage, which is any order here.                 *)
Scan(w) ==
    /\ job[w].pc = "scan"
    /\ \E s \in job[w].left :
        IF HasRoom(s) THEN Chosen(w, s)
                      ELSE job' = [job EXCEPT ![w].left = @ \ {s}]
    /\ UNCHANGED <<status, row, revived>>

(* AccountError: "No available servers. All are full or offline."          *)
Refuse(w) ==
    /\ job[w].pc = "scan" /\ job[w].left = {}
    /\ Stop(w)
    /\ UNCHANGED <<status, row, revived>>

Key(w) == <<job[w].srv, job[w].user>>

KeyHeld(k) ==
    \E v \in Workers :
        job[v].pc \in {"provision", "commit"} /\ job[v].from = None /\ Key(v) = k

(* The INSERT waits for an open transaction that holds the key, and raises *)
(* an IntegrityError when the key is taken, by a deleted row too.          *)
Insert(w) ==
    /\ job[w].pc = "insert"
    /\ ~KeyHeld(Key(w))
    /\ IF row[Key(w)] = "none" THEN job' = [job EXCEPT ![w].pc = "provision"]
                               ELSE Stop(w)
    /\ UNCHANGED <<status, row, revived>>

(* The node is provisioned, or the call fails and the transaction is       *)
(* rolled back.                                                            *)
Provision(w) ==
    /\ job[w].pc = "provision"
    /\ \/ job' = [job EXCEPT ![w].pc = "commit"]
       \/ Stop(w)
    /\ UNCHANGED <<status, row, revived>>

(* The row is committed; bulk creation picks a server for the next user.   *)
Commit(w) ==
    LET rest == job[w].todo \ {job[w].user} IN
    /\ job[w].pc = "commit" /\ job[w].from = None
    /\ row' = [row EXCEPT ![Key(w)] = "open"]
    /\ \/ rest = {} /\ Stop(w)
       \/ \E u \in rest :
            job' = [job EXCEPT ![w] = [Idle EXCEPT !.pc = "pick", !.todo = rest, !.user = u,
                                                   !.want = job[w].want]]
    /\ UNCHANGED <<status, revived>>

(* A row gets another server; it is still the one that other jobs hold.    *)
Moved(old, new) ==
    /\ row' = [row EXCEPT ![new] = row[old], ![old] = "none"]
    /\ revived' = (revived \ {old, new}) \cup (IF old \in revived THEN {new} ELSE {})
Following(old, new) ==
    [v \in Workers |-> IF <<job[v].from, job[v].user>> = old
                         THEN [job[v] EXCEPT !.from = new[1]] ELSE job[v]]

(* The account is saved with its new server: its old OS user stays behind, *)
(* and a taken key ends the attempt with an IntegrityError.                *)
Move(w) ==
    LET old == <<job[w].from, job[w].user>>
        new == Key(w)
    IN  /\ job[w].pc = "commit" /\ job[w].from # None
        /\ ~KeyHeld(new)
        /\ IF row[new] = "none"
             THEN /\ Moved(old, new)
                  /\ job' = [Following(old, new) EXCEPT ![w] = Idle]
             ELSE Stop(w) /\ UNCHANGED <<row, revived>>
        /\ UNCHANGED status

-----------------------------------------------------------------------------

(* The rest of the panel (AccountLifecycle): suspension and activation,    *)
(* deletion, and the extension or activation of a deleted account.         *)
SetRow(k) ==
    /\ row[k] # "none"
    /\ \E r \in {"open", "suspended", "deleted"} :
        /\ row' = [row EXCEPT ![k] = r]
        /\ revived' = IF row[k] = "deleted" /\ r # "deleted" THEN revived \cup {k} ELSE revived
    /\ UNCHANGED <<status, job>>

(* Health checks and administrators (ServerHealth); only ACTIVE matters.   *)
SetStatus(s) ==
    /\ status' = [status EXCEPT ![s] = IF @ = "active" THEN "other" ELSE "active"]
    /\ UNCHANGED <<row, job, revived>>

Start(w) == StartCreate(w) \/ StartWebhook(w) \/ StartBulk(w) \/ StartMove(w)
Step(w) ==
    Pick(w) \/ Scan(w) \/ Refuse(w) \/ Insert(w) \/ Provision(w) \/ Commit(w) \/ Move(w)

Next ==
    \/ \E w \in Workers : Start(w) \/ Step(w)
    \/ \E k \in Keys : SetRow(k)
    \/ \E s \in Servers : SetStatus(s)

Spec == Init /\ [][Next]_vars

-----------------------------------------------------------------------------

(* The jobs that have counted a free place on the server and have not yet  *)
(* committed their row.                                                    *)
Pending(s) ==
    {w \in Workers : job[w].pc \in {"insert", "provision", "commit"} /\ job[w].srv = s}

(* The users of a server without the accounts that were put back.          *)
Counted(s) == {u \in Live(s) : <<s, u>> \notin revived}

(* Without revived accounts, a server never has more users than max_users  *)
(* and one for each further worker: every job in flight may have counted   *)
(* the same last place, and none of them stays unnoticed by the next count.*)
(* With a single worker this is max_users itself.                          *)
OvershootBounded ==
    \A s \in Servers :
        Cardinality(Counted(s)) <= MaxUsers[s] + Cardinality(Workers) - 1

(* The inductive form: the jobs in flight count against the same bound.    *)
PlacesBounded ==
    \A s \in Servers :
        Cardinality(Counted(s)) + Cardinality(Pending(s))
            <= MaxUsers[s] + Cardinality(Workers) - 1
=============================================================================
