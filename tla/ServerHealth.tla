---------------------------- MODULE ServerHealth ----------------------------
(***************************************************************************)
(* The status of the servers: the per-minute health check and the check    *)
(* that an administrator asks for, which run in the processes of the       *)
(* Celery worker, and the requests that set a status, edit a server or     *)
(* delete it.                                                              *)
(*                                                                         *)
(* Every process has its own _health_fail_counts, and every save writes    *)
(* the status that the process loaded before it probed the server.         *)
(***************************************************************************)
EXTENDS Naturals

CONSTANTS
    Servers,    \* the rows of servers.Server
    Procs,      \* worker processes, of Celery (--concurrency=4) and of the web server
    None,       \* "no server": not an element of Servers
    Ops,        \* the operations that are issued, a subset of AllOps
    Strikes     \* failures that mark a server DOWN: 3 in the code

AllOps == {"all", "single", "edit", "set", "delete"}

ASSUME HealthAssumption ==
    /\ None \notin Servers
    /\ Ops \subseteq AllOps
    /\ Strikes \in Nat \ {0}

VARIABLES
    status,     \* Server.status in the database
    reach,      \* the server answers a probe
    fails,      \* _health_fail_counts of each process, up to Strikes
    job,        \* what each process is doing
    held        \* observer: servers whose maintenance or deletion nothing disputes

vars == <<status, reach, fails, job, held>>

-----------------------------------------------------------------------------

Status == {"active", "maintenance", "full", "down"}
Gone == "gone"      \* the row is deleted

(* todo are the rows that the task has still to check, and snap their      *)
(* status when it loaded them.                                             *)
Outcome == {"none", "ok", "hot", "failed"}
Job == [op : AllOps \cup {"none"}, todo : SUBSET Servers, srv : Servers \cup {None},
        snap : [Servers -> Status \cup {Gone}], res : Outcome]
Idle == [op |-> "none", todo |-> {}, srv |-> None,
         snap |-> [s \in Servers |-> "active"], res |-> "none"]

(* The types of the variables.                                             *)
TypeOK ==
    /\ status \in [Servers -> Status \cup {Gone}]
    /\ reach \in [Servers -> BOOLEAN]
    /\ fails \in [Procs -> [Servers -> 0..Strikes]]
    /\ job \in [Procs -> Job]
    /\ held \subseteq Servers

Init ==
    /\ status = [s \in Servers |-> "active"]
    /\ reach = [s \in Servers |-> TRUE]
    /\ fails = [p \in Procs |-> [s \in Servers |-> 0]]
    /\ job = [p \in Procs |-> Idle]
    /\ held = {}

More(n) == IF n < Strikes THEN n + 1 ELSE n

InFlight(s) == \E p \in Procs : s \in job[p].todo

-----------------------------------------------------------------------------

Begin(p, o, S) ==
    /\ o \in Ops
    /\ job[p].op = "none"
    /\ S # {}
    /\ job' = [job EXCEPT ![p] = [op |-> o, todo |-> S, srv |-> None,
                                  snap |-> status, res |-> "none"]]
    /\ UNCHANGED <<status, reach, fails, held>>

(* check_all_servers_health leaves out the servers that are DOWN.          *)
StartAll(p) == Begin(p, "all", {s \in Servers : status[s] \notin {"down", Gone}})

(* check_single_server, which server_health_check enqueues                 *)
StartSingle(p) == \E s \in Servers : status[s] # Gone /\ Begin(p, "single", {s})

(* ServerDetailView (PUT, PATCH) and setup_server load the row and save    *)
(* all of it.                                                              *)
StartEdit(p) == \E s \in Servers : status[s] # Gone /\ Begin(p, "edit", {s})

(* get_health over SSH: an exception of any kind is a failure, and "hot"   *)
(* is a CPU above 95%.                                                     *)
Probe(p, s) ==
    /\ job[p].op \in {"all", "single"} /\ job[p].res = "none" /\ s \in job[p].todo
    /\ \E res \in (IF reach[s] THEN {"ok", "hot"} ELSE {"failed"}) :
        job' = [job EXCEPT ![p].srv = s, ![p].res = res]
    /\ UNCHANGED <<status, reach, fails, held>>

(* The next server of the loop, or the end of the task.                    *)
Done(p, s) ==
    LET rest == job[p].todo \ {s}
    IN  job' = [job EXCEPT ![p] =
                  IF rest = {} THEN Idle
                  ELSE [@ EXCEPT !.todo = rest, !.srv = None, !.res = "none"]]

Counted(p, s) == IF job[p].res = "failed" THEN More(fails[p][s]) ELSE 0

(* Mutation: a check that succeeds puts the server into service.           *)
CheckedRevives(p, s) ==
    IF job[p].res # "failed" THEN "active"
    ELSE IF Counted(p, s) >= Strikes THEN "down" ELSE job[p].snap[s]

(* Mutation: the failures are counted and never acted upon.                *)
CheckedNever(p, s) == job[p].snap[s]

Checked(p, s) ==
    CASE job[p].res = "hot" /\ job[p].snap[s] = "active"          -> "full"
      [] job[p].res = "failed" /\ Counted(p, s) >= Strikes        -> "down"
      [] OTHER                                                    -> job[p].snap[s]

(* The row is saved and the task goes on.  Of a row that was deleted       *)
(* meanwhile srv.save() makes a new one; a save with update_fields raises, *)
(* and the task is over.                                                   *)
Store(p, s, new) ==
    IF status[s] = Gone /\ job[p].res = "failed"
      THEN job' = [job EXCEPT ![p] = Idle] /\ UNCHANGED status
      ELSE status' = [status EXCEPT ![s] = new] /\ Done(p, s)

(* The rest of the loop body: count, decide, and save the status either    *)
(* way, with srv.save() or with update_fields=["status", ...].             *)
SaveAll(p) ==
    LET s == job[p].srv IN
    /\ job[p].op = "all" /\ job[p].res # "none"
    /\ fails' = [fails EXCEPT ![p][s] = Counted(p, s)]
    /\ Store(p, s, Checked(p, s))
    /\ UNCHANGED <<reach, held>>

(* check_single_server: one answer revives a DOWN server, one failure      *)
(* takes any server down.                                                  *)
SaveSingle(p) ==
    LET s == job[p].srv IN
    /\ job[p].op = "single" /\ job[p].res # "none"
    /\ Store(p, s, CASE job[p].res = "failed"    -> "down"
                      [] job[p].snap[s] = "down"  -> "active"
                      [] OTHER                    -> job[p].snap[s])
    /\ UNCHANGED <<reach, fails, held>>

(* The request may name a status (ServerSerializer); the row that was      *)
(* loaded has the rest.                                                    *)
SaveEdit(p, s) ==
    /\ job[p].op = "edit" /\ s \in job[p].todo
    /\ \E v \in Status :
        /\ Store(p, s, v)
        /\ held' = IF v = job[p].snap[s] THEN held ELSE held \ {s}
    /\ UNCHANGED <<reach, fails>>

(* server_set_status: update_fields=["status", ...].  The observer takes a *)
(* maintenance as undisputed when no task has the old status in hand and   *)
(* the server answers.                                                     *)
SetStatus(s) ==
    /\ "set" \in Ops /\ status[s] # Gone
    /\ \E v \in Status :
        /\ status' = [status EXCEPT ![s] = v]
        /\ held' = IF v = "maintenance" /\ ~InFlight(s) /\ reach[s]
                     THEN held \cup {s} ELSE held \ {s}
    /\ UNCHANGED <<reach, fails, job>>

(* ServerDetailView (DELETE) of a server that has no accounts              *)
Delete(s) ==
    /\ "delete" \in Ops /\ status[s] # Gone
    /\ status' = [status EXCEPT ![s] = Gone]
    /\ held' = IF InFlight(s) THEN held \ {s} ELSE held \cup {s}
    /\ UNCHANGED <<reach, fails, job>>

(* The server or the way to it fails, or comes back.                       *)
Flip(s) ==
    /\ reach' = [reach EXCEPT ![s] = ~@]
    /\ held' = IF status[s] = Gone THEN held ELSE held \ {s}
    /\ UNCHANGED <<status, fails, job>>

Step(p) ==
    \/ SaveAll(p)
    \/ SaveSingle(p)
    \/ \E s \in Servers : Probe(p, s) \/ SaveEdit(p, s)

Next ==
    \/ \E p \in Procs : StartAll(p) \/ StartSingle(p) \/ StartEdit(p) \/ Step(p)
    \/ \E s \in Servers : SetStatus(s) \/ Delete(s) \/ Flip(s)

Spec == Init /\ [][Next]_vars

(* Celery Beat enqueues the check every minute and some process takes it;  *)
(* a task that has begun ends, because the probes time out.                *)
FairSpec ==
    /\ Spec
    /\ SF_vars(\E p \in Procs : StartAll(p))
    /\ \A p \in Procs : WF_vars(Step(p))

-----------------------------------------------------------------------------

(* What an administrator orders while no task has the server in hand       *)
(* stands: a maintenance as long as the server answers, a deletion for     *)
(* good.  The checks and edits that come after it do not undo it           *)
(* (check_all_servers_health, check_single_server, ServerDetailView).      *)
OrdersHold == \A s \in held : status[s] \in {"maintenance", Gone}

(* A server that stays unreachable is DOWN again and again, or deleted,    *)
(* whatever an administrator sets in between and however the failures are  *)
(* spread over the processes (check_all_servers_health).                   *)
DeadIsMarkedDown ==
    \A s \in Servers : <>[](~reach[s]) => []<>(status[s] \in {"down", Gone})
=============================================================================
