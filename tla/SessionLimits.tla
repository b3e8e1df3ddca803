--------------------------- MODULE SessionLimits ---------------------------
(***************************************************************************)
(* How many sessions an account may have on a node: sync_active_sessions   *)
(* of accounts/tasks.py, which copies the node's sessions into the table   *)
(* ActiveSession and kills those beyond max_connections, and               *)
(* set_max_logins of servers/ssh.py, which has the node itself turn logins *)
(* away.                                                                   *)
(*                                                                         *)
(* There is one node.  A session is known by its process number; numbers   *)
(* are handed out in ascending order and not reused.                       *)
(***************************************************************************)
EXTENDS Integers, Sequences, FiniteSets, FiniteSetsExt

CONSTANTS
    Users,          \* usernames
    StartsWith,     \* for each username, the usernames that start with it
    Workers,        \* Celery worker processes, which may run the task at once
    Limits,         \* values of max_connections
    MaxStartups,    \* bound: logins of an account that sshd handles at once
    MaxPid,         \* bound: sessions in a behaviour
    MaxEvents       \* bound: edits, failures of SSH and of commands, deaths of workers, and
                    \* how often an account or the server ceases to be ACTIVE

ASSUME SessionLimitsAssumption ==
    /\ StartsWith \in [Users -> SUBSET Users]
    /\ \A u \in Users : u \in StartsWith[u]
    /\ Limits \subseteq Nat
    /\ MaxStartups \in Nat /\ MaxPid \in Nat /\ MaxEvents \in Nat

VARIABLES
    account,    \* status of each account
    conns,      \* max_connections of each account
    file,       \* the lines of /etc/security/limits.conf
    patch,      \* calls of set_max_logins that requests have yet to make
    serving,    \* the server's status is ACTIVE
    passed,     \* logins that have passed the script and are yet to become sessions
    user,       \* the user of each session, by process number
    alive,      \* the sessions that are running
    rows,       \* the table ActiveSession
    sync,       \* sync_active_sessions in each worker
    events,     \* how many edits and failures there were
    excess,     \* history: sessions that were beyond the limit at some time
    resolved,   \* history: since all workers were idle, a run of the task has
                \* completed, or was cut short by a failure
    unwritten,  \* history: the accounts for which a set_max_logins failed
    crowd       \* history: how many were in passed when the latest login passed

panel == <<account, conns, patch, serving>>
node == <<file, unwritten, passed, crowd>>
sessionVars == <<panel, node, user, alive, rows, sync, events, excess, resolved>>

-----------------------------------------------------------------------------

Pids == 1..MaxPid
NotFound == -1      \* no account, or none in acc_map
PC == {"idle", "listed", "fetched", "insert", "kill"}
NoSync == [pc |-> "idle", todo |-> {}, found |-> {}, limit |-> [u \in Users |-> NotFound]]

(* The types of the variables; the table only holds sessions that existed. *)
SessionTypeOK ==
    /\ account \in [Users -> {"none", "active", "other"}]
    /\ conns \in [Users -> Limits \cup {NotFound}]
    /\ \A u \in Users : account[u] # "none" => conns[u] \in Limits
    /\ file \in Seq([user : Users, max : Limits])
    /\ patch \subseteq [user : Users, max : Limits]
    /\ serving \in BOOLEAN
    /\ passed \in [Users -> 0..MaxStartups]
    /\ crowd \in [Users -> 0..MaxStartups]
    /\ unwritten \subseteq Users
    /\ user \in Seq(Users) /\ Len(user) <= MaxPid
    /\ alive \subseteq 1..Len(user)
    /\ rows \subseteq 1..Len(user)
    /\ sync \in [Workers -> [pc : PC, todo : SUBSET Pids, found : SUBSET Pids,
                             limit : [Users -> Limits \cup {NotFound}]]]
    /\ excess \subseteq 1..Len(user)
    /\ events \in 0..MaxEvents
    /\ resolved \in BOOLEAN

SessionInit ==
    /\ account = [u \in Users |-> "none"]
    /\ conns = [u \in Users |-> NotFound]
    /\ file = << >>
    /\ patch = {}
    /\ serving = TRUE
    /\ passed = [u \in Users |-> 0]
    /\ crowd = [u \in Users |-> 0]
    /\ unwritten = {}
    /\ user = << >>
    /\ alive = {}
    /\ rows = {}
    /\ sync = [w \in Workers |-> NoSync]
    /\ events = 0
    /\ excess = {}
    /\ resolved = FALSE

Event == events < MaxEvents /\ events' = events + 1

-----------------------------------------------------------------------------
(* The limit that the node enforces.                                       *)

(* The lines that start with a username                                    *)
Hit(u) == {i \in DOMAIN file : file[i].user \in StartsWith[u]}

(* Mutation: a line is added without a look at those that are there.       *)
SetMaxLoginsAppends(u, n) == file' = Append(file, [user |-> u, max |-> n])

(* set_max_logins: a line that starts with the username is replaced, every *)
(* such line; without one, a line is added.                                *)
SetMaxLogins(u, n) ==
    LET line == [user |-> u, max |-> n]
    IN  file' = IF Hit(u) = {} THEN Append(file, line)
                               ELSE [i \in DOMAIN file |-> IF i \in Hit(u) THEN line ELSE file[i]]

(* Its command fails, on a full disk say, and nobody looks at the result:  *)
(* the line is not written, or, if sed is what failed, one line is added.  *)
SetMaxLoginsFails(u, n) ==
    /\ unwritten' = unwritten \cup {u}
    /\ \/ UNCHANGED file
       \/ Hit(u) # {} /\ file' = Append(file, [user |-> u, max |-> n])

(* check_maxlogins.sh, which set_max_logins installs and PAM is taken to   *)
(* run: no line, more than one, or 0 is no limit, which 0 stands for.      *)
Maxima(u) == {i \in DOMAIN file : file[i].user = u}
Enforced(u) == IF Cardinality(Maxima(u)) = 1 THEN file[CHOOSE i \in Maxima(u) : TRUE].max
                                             ELSE 0

LiveOf(u) == {p \in alive : user[p] = u}
Before(p, S) == {q \in S : q < p /\ user[q] = user[p]}

(* The sessions that are beyond max_connections.                           *)
Beyond == {p \in alive : Cardinality(Before(p, alive)) >= conns[user[p]]}

(* create_account                                                          *)
Create(u, n) ==
    /\ account[u] = "none"
    /\ account' = [account EXCEPT ![u] = "active"]
    /\ conns' = [conns EXCEPT ![u] = n]
    /\ \/ SetMaxLogins(u, n) /\ UNCHANGED <<unwritten, events>>
       \/ SetMaxLoginsFails(u, n) /\ Event
    /\ UNCHANGED <<patch, serving, passed, crowd, user, alive, rows, sync, excess, resolved>>

(* A creation that raises after set_max_logins leaves no account, and its  *)
(* line.                                                                   *)
CreateFails(u, n) ==
    /\ account[u] = "none" /\ Event
    /\ \/ SetMaxLogins(u, n) /\ UNCHANGED unwritten
       \/ SetMaxLoginsFails(u, n)
    /\ UNCHANGED <<panel, passed, crowd, user, alive, rows, sync, excess, resolved>>

(* AccountUpdateView saves the row ...                                     *)
PatchSave(u, n) ==
    /\ account[u] # "none" /\ Event
    /\ conns' = [conns EXCEPT ![u] = n]
    /\ patch' = patch \cup {[user |-> u, max |-> n]}
    /\ UNCHANGED <<account, serving, node, user, alive, rows, sync, resolved>>
    /\ excess' = excess \cup Beyond'

(* ... and then calls the node; its exceptions are passed over.            *)
PatchCall(c) ==
    /\ patch' = patch \ {c}
    /\ \/ SetMaxLogins(c.user, c.max) /\ UNCHANGED <<unwritten, events>>
       \/ SetMaxLoginsFails(c.user, c.max) /\ Event
       \/ UNCHANGED <<file, unwritten, events>>
    /\ UNCHANGED <<account, conns, serving, passed, crowd, user, alive, rows, sync, excess, resolved>>

(* The account is suspended, expires, is put back (AccountLifecycle); only *)
(* ACTIVE matters here.                                                    *)
ChangeStatus(u) ==
    /\ account[u] # "none"
    /\ account' = [account EXCEPT ![u] = IF @ = "active" THEN "other" ELSE "active"]
    /\ IF account[u] = "active" THEN Event ELSE UNCHANGED events
    /\ UNCHANGED <<conns, patch, serving, node, user, alive, rows, sync, excess, resolved>>

(* The server becomes ACTIVE, or FULL, DOWN or in MAINTENANCE.             *)
ChangeServer ==
    /\ serving' = ~serving
    /\ IF serving THEN Event ELSE UNCHANGED events
    /\ UNCHANGED <<account, conns, patch, node, user, alive, rows, sync, excess, resolved>>

(* A login passes the script, which counts the sessions that are there.    *)
(* It runs while sshd authenticates the login, which has no process of its *)
(* user's until that is over; sshd authenticates several at once.          *)
CheckLogin(u) ==
    /\ account[u] # "none" /\ passed[u] < MaxStartups /\ Len(user) + passed[u] < MaxPid
    /\ Enforced(u) = 0 \/ Cardinality(LiveOf(u)) <= Enforced(u)
    /\ passed' = [passed EXCEPT ![u] = @ + 1]
    /\ crowd' = [crowd EXCEPT ![u] = passed[u] + 1]
    /\ UNCHANGED <<panel, file, unwritten, user, alive, rows, sync, events, excess, resolved>>

(* Its session begins ...                                                  *)
Login(u) ==
    /\ passed[u] > 0 /\ Len(user) < MaxPid
    /\ passed' = [passed EXCEPT ![u] = @ - 1]
    /\ user' = Append(user, u)
    /\ alive' = alive \cup {Len(user')}
    /\ UNCHANGED <<panel, file, unwritten, crowd, rows, sync, events, resolved>>
    /\ excess' = excess \cup Beyond'

(* ... or the password is wrong, the account locked, the client gone.      *)
LoginFails(u) ==
    /\ passed[u] > 0
    /\ passed' = [passed EXCEPT ![u] = @ - 1]
    /\ UNCHANGED <<panel, file, unwritten, crowd, user, alive, rows, sync, events, excess, resolved>>

Logout(p) ==
    /\ alive' = alive \ {p}
    /\ excess' = excess \ {p}
    /\ UNCHANGED <<panel, node, user, rows, sync, events, resolved>>

-----------------------------------------------------------------------------
(* sync_active_sessions.  Every statement on the table is a transaction of *)
(* its own.                                                                *)

AllIdle == \A w \in Workers : sync[w].pc = "idle"

(* The task visits the servers that are ACTIVE.  get_active_sessions: one  *)
(* listing of the node's processes, empty when the command fails.  (A run  *)
(* may get to a server that has since lost the status: the same as one     *)
(* that loses it after its visit.)                                         *)
StartSync(w) ==
    /\ serving /\ sync[w].pc = "idle"
    /\ \E seen \in {alive, {}} :
        /\ sync' = [sync EXCEPT ![w].pc = "listed", ![w].todo = seen]
        /\ IF seen = alive THEN UNCHANGED events ELSE Event
    /\ resolved' = (resolved /\ ~AllIdle)
    /\ UNCHANGED <<panel, node, user, alive, rows, excess>>

(* Mutation: an account is granted one session more than it has.           *)
FetchGenerous(w) ==
    LET limit == [u \in Users |-> IF account[u] = "active" THEN conns[u] + 1 ELSE NotFound] IN
    /\ sync[w].pc = "listed"
    /\ sync' = [sync EXCEPT ![w].pc = "fetched", ![w].limit = limit,
                            ![w].todo = {p \in @ : limit[user[p]] # NotFound}]
    /\ UNCHANGED <<panel, node, user, alive, rows, events, excess, resolved>>

(* The active accounts among their users, with their limits (acc_map)      *)
Fetch(w) ==
    LET limit == [u \in Users |-> IF account[u] = "active" THEN conns[u] ELSE NotFound] IN
    /\ sync[w].pc = "listed"
    /\ sync' = [sync EXCEPT ![w].pc = "fetched", ![w].limit = limit,
                            ![w].todo = {p \in @ : limit[user[p]] # NotFound}]
    /\ UNCHANGED <<panel, node, user, alive, rows, events, excess, resolved>>

(* Mutation: the old rows are kept.                                        *)
DeleteNothing(w) ==
    /\ sync[w].pc = "fetched"
    /\ sync' = [sync EXCEPT ![w].pc = "insert"]
    /\ UNCHANGED <<panel, node, user, alive, rows, events, excess, resolved>>

DeleteRows(w) ==
    /\ sync[w].pc = "fetched"
    /\ rows' = {}
    /\ sync' = [sync EXCEPT ![w].pc = "insert"]
    /\ UNCHANGED <<panel, node, user, alive, events, excess, resolved>>

(* Mutation: the rows are created in any order.                            *)
InsertUnordered(w) ==
    /\ sync[w].pc = "insert"
    /\ \E p \in sync[w].todo :
         IF p \in rows THEN sync' = [sync EXCEPT ![w] = NoSync] /\ UNCHANGED rows
                       ELSE /\ rows' = rows \cup {p}
                            /\ sync' = [sync EXCEPT ![w].todo = @ \ {p}, ![w].found = @ \cup {p}]
    /\ UNCHANGED <<panel, node, user, alive, events, excess, resolved>>

(* A row is created, in the order of the listing, which is that of the     *)
(* process numbers.  One that another run of the task has created is an    *)
(* IntegrityError, which ends this run.                                    *)
Insert(w) ==
    LET p == Min(sync[w].todo) IN
    /\ sync[w].pc = "insert" /\ sync[w].todo # {}
    /\ IF p \in rows THEN sync' = [sync EXCEPT ![w] = NoSync] /\ UNCHANGED rows
                     ELSE /\ rows' = rows \cup {p}
                          /\ sync' = [sync EXCEPT ![w].todo = @ \ {p}, ![w].found = @ \cup {p}]
    /\ UNCHANGED <<panel, node, user, alive, events, excess, resolved>>

(* Mutation: the sessions with the highest numbers are kept.               *)
ExcessOldest(found, limit) ==
    {p \in found : Cardinality({q \in found : q > p /\ user[q] = user[p]}) >= limit[user[p]]}

(* The sessions of an account but the max_connections with the lowest      *)
(* process numbers                                                         *)
Excess(found, limit) ==
    {p \in found : Cardinality(Before(p, found)) >= limit[user[p]]}

Count(w) ==
    /\ sync[w].pc = "insert" /\ sync[w].todo = {}
    /\ sync' = [sync EXCEPT ![w] = [NoSync EXCEPT !.pc = "kill",
                                        !.todo = Excess(sync[w].found, sync[w].limit)]]
    /\ UNCHANGED <<panel, node, user, alive, rows, events, excess, resolved>>

(* kill -9, for one account after the other                                *)
Kill(w) ==
    /\ sync[w].pc = "kill"
    /\ \E u \in {user[p] : p \in sync[w].todo} :
        LET victims == {p \in sync[w].todo : user[p] = u} IN
        /\ alive' = alive \ victims
        /\ excess' = excess \ victims
        /\ sync' = [sync EXCEPT ![w].todo = @ \ victims]
    /\ UNCHANGED <<panel, node, user, rows, events, resolved>>

EndSync(w) ==
    /\ sync[w].pc = "kill" /\ sync[w].todo = {}
    /\ sync' = [sync EXCEPT ![w] = NoSync]
    /\ resolved' = TRUE
    /\ UNCHANGED <<panel, node, user, alive, rows, events, excess>>

(* An SSH command raises, or the worker process dies.                      *)
Interrupt(w) ==
    /\ Event /\ sync[w].pc # "idle"
    /\ sync' = [sync EXCEPT ![w] = NoSync]
    /\ resolved' = TRUE
    /\ UNCHANGED <<panel, node, user, alive, rows, excess>>

-----------------------------------------------------------------------------

SyncStep(w) == Fetch(w) \/ DeleteRows(w) \/ Insert(w) \/ Count(w) \/ Kill(w) \/ EndSync(w)

SessionNext ==
    \/ \E u \in Users, n \in Limits : Create(u, n) \/ CreateFails(u, n) \/ PatchSave(u, n)
    \/ \E c \in patch : PatchCall(c)
    \/ \E u \in Users : ChangeStatus(u) \/ CheckLogin(u) \/ Login(u) \/ LoginFails(u)
    \/ ChangeServer
    \/ \E p \in alive : Logout(p)
    \/ \E w \in Workers : StartSync(w) \/ SyncStep(w) \/ Interrupt(w)

SessionSpec == SessionInit /\ [][SessionNext]_sessionVars

(* Beat sends the task every 30 seconds and the workers run what they have.*)
SessionFairSpec == SessionSpec /\ \A w \in Workers : WF_sessionVars(StartSync(w) \/ SyncStep(w))

-----------------------------------------------------------------------------

(* A session that was within its account's limit when it began is never    *)
(* killed, however old the listing is that a run acts on: sessions that    *)
(* begin later have higher numbers, so its rank can only improve.  (For    *)
(* limits that do not change.)                                             *)
OnlyExcessIsKilled ==
    [][\A w \in Workers :
         sync[w].pc = "kill" /\ sync'[w] # sync[w] => alive \ alive' \subseteq excess]_sessionVars

(* Runs of the task that overlap make each other fail on the rows that     *)
(* they both create, but never all of them: unless SSH fails or a worker   *)
(* dies, one of them completes, and with it the limits are enforced.       *)
SomeRunCompletes ==
    [][~AllIdle /\ AllIdle' => resolved']_sessionVars

(* A session beyond the limit of an active account does not stay, while    *)
(* the server is ACTIVE: on the others the task enforces nothing.          *)
LimitIsEnforced ==
    \A p \in Pids : []<>~(serving /\ p \in Beyond /\ account[user[p]] = "active")

(* The row of a session that has ended does not stay, while the server is  *)
(* ACTIVE.                                                                 *)
GhostRowsVanish == \A p \in Pids : []<>~(serving /\ p \in rows \ alive)

(* The node admits at most as many sessions beyond max_connections as      *)
(* there were logins that sshd handled at once: the script counts the      *)
(* sessions, and not the logins that have passed it and are yet to become  *)
(* sessions.  Edits, repeated calls of set_max_logins and creations that   *)
(* are tried again leave exactly one line for an account, unless a command *)
(* of theirs failed.  (For limits above 0 that do not change, and names of *)
(* which none starts another.)                                             *)
LoginsBounded ==
    \A u \in Users \ unwritten :
        account[u] # "none" => Cardinality(LiveOf(u)) <= conns[u] + crowd[u]
=============================================================================
