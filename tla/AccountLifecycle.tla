-------------------------- MODULE AccountLifecycle --------------------------
(***************************************************************************)
(* The life of the accounts of one server: the SSHAccount rows of the      *)
(* panel's database, the credentials that the node itself enforces (the OS *)
(* user, or the ShadowLink token), and the requests and Celery tasks that  *)
(* keep the two in step.                                                   *)
(*                                                                         *)
(* Nothing in the panel locks a row: a request or a task reads it, calls   *)
(* the node over SSH or over the bridge, and then writes the row back, and *)
(* any other job may run in between.  A job is therefore a record of how   *)
(* far it has got, and every database write and every remote call is a     *)
(* step of its own.                                                        *)
(*                                                                         *)
(* An element of Accounts stands for a username on this server, which is   *)
(* the key of a row (unique_together in accounts/models.py).               *)
(***************************************************************************)
EXTENDS Integers

CONSTANTS
    Accounts,       \* usernames on the server
    Workers,        \* web threads and Celery worker processes
    None,           \* "no account": not an element of Accounts
    Protocol,       \* protocol_type of each account: "ssh" or "shadowlink"
    Ops,            \* the operations that are issued, a subset of AllOps
    Faults,         \* the faults that happen, a subset of AllFaults
    TicksPerDay,    \* resolution of the clock
    PlanDays,       \* durations on sale, in days
    DateInputs,     \* expire dates an administrator types in, in ticks
    GraceDays,      \* grace_days of cleanup_expired_accounts
    MaxTime,        \* bound: the last tick of the clock
    MaxExpire       \* bound: the latest expire_date, in ticks

CallFirst == {"suspend", "activate", "delete", "cleanup", "expire", "bandwidth", "reset"}
WriteFirst == {"extend", "update"}
Creating == {"create", "provision"}
AllOps == CallFirst \cup WriteFirst \cup Creating

(* nonzero: the command ran and failed, and left the node as it was;       *)
(* lost: the call raised and the node never saw it;                        *)
(* unacked: the call raised after the node had acted on it;                *)
(* crash: the process that runs a job dies.                                *)
AllFaults == {"nonzero", "lost", "unacked", "crash"}

ASSUME LifecycleAssumption ==
    /\ None \notin Accounts
    /\ Protocol \in [Accounts -> {"ssh", "shadowlink"}]
    /\ Ops \subseteq AllOps
    /\ Faults \subseteq AllFaults
    /\ TicksPerDay \in Nat \ {0}
    /\ PlanDays \subseteq Nat
    /\ DateInputs \subseteq Nat
    /\ GraceDays \in Nat
    /\ MaxTime \in Nat
    /\ MaxExpire \in Nat

VARIABLES
    now,        \* the clock, in ticks
    row,        \* the committed SSHAccount rows
    remote,     \* what the node holds for each account
    audit,      \* the newest AuditLog action of each account
    job,        \* what each worker is doing
    disturbed   \* observer, read by no guard: see Marks below

vars == <<now, row, remote, audit, job, disturbed>>

-----------------------------------------------------------------------------

Status == {"none", "active", "suspended", "expired", "deleted"}
Row == [status : Status, expire : Nat]
NoRow == [status |-> "none", expire |-> 0]

(* An OS user with its password lock and its chage date (a day), or a      *)
(* ShadowLink token with its Active flag; a token has no date.  reset is   *)
(* history: it was a new password that opened the account.                 *)
Never == -1
Credential == [exists : BOOLEAN, locked : BOOLEAN, expiry : Int, reset : BOOLEAN]
Absent == [exists |-> FALSE, locked |-> FALSE, expiry |-> Never, reset |-> FALSE]

(* inst is the model instance that the job loaded and mutates; clean is an *)
(* observer: no other job has overlapped this one and no call has failed.  *)
PC == {"idle", "call", "save", "log", "write", "expiry", "commit"}
Job == [op : AllOps \cup {"none"}, pc : PC, todo : SUBSET Accounts,
        acct : Accounts \cup {None}, inst : Row, clean : BOOLEAN]
Idle == [op |-> "none", pc |-> "idle", todo |-> {}, acct |-> None,
         inst |-> NoRow, clean |-> TRUE]

AuditActions == {"none", "create", "delete", "suspend", "activate", "extend", "reset"}

(* What a disturbance may leave wrong: whether the account can log in, the *)
(* date on the node, and the audit trail.                                  *)
Kinds == {"access", "date", "log"}

TypeOK ==
    /\ now \in Nat
    /\ row \in [Accounts -> Row]
    /\ remote \in [Accounts -> Credential]
    /\ audit \in [Accounts -> AuditActions]
    /\ job \in [Workers -> Job]
    /\ disturbed \subseteq (Accounts \X Kinds)

Init ==
    /\ now = 0
    /\ row = [a \in Accounts |-> NoRow]
    /\ remote = [a \in Accounts |-> Absent]
    /\ audit = [a \in Accounts |-> "none"]
    /\ job = [w \in Workers |-> Idle]
    /\ disturbed = {}

-----------------------------------------------------------------------------
(* Helpers.                                                                *)

(* strftime("%Y-%m-%d"): the time of day is cut off.                       *)
DayOf(t) == t \div TicksPerDay

InUse(a) == \E w \in Workers : a \in job[w].todo

(* Marks: an account becomes disturbed when a job starts on it while       *)
(* another job still holds it, and when a job on it is cut short or        *)
(* carries on after a remote call that failed.  A later job that meets     *)
(* neither repairs what it writes on both sides.                           *)
Overlaps(S) == {a \in S : InUse(a)}

Repairs(o) ==
    CASE o \in {"suspend", "activate"}  -> {"access", "log"}
      [] o \in {"expire", "bandwidth"}  -> {"access"}
      [] o = "extend"                   -> {"date", "log"}
      [] o = "update"                   -> {"date"}
      [] o = "reset"                    -> {}
      [] OTHER                          -> Kinds

Repaired(w, a) == IF job[w].clean THEN {a} \X Repairs(job[w].op) ELSE {}

(* The next item of the loop, or the end of the request or task.           *)
Finish(w, a) ==
    LET rest == job[w].todo \ {a}
    IN  job' = [job EXCEPT ![w] =
                  IF rest = {} THEN Idle
                  ELSE [@ EXCEPT !.pc = "call", !.todo = rest, !.acct = None]]

GoTo(w, a, pc, ok) ==
    job' = [job EXCEPT ![w].pc = pc, ![w].acct = a, ![w].clean = @ /\ ok]

(* A call reaches the bridge for the token operations of a ShadowLink      *)
(* account, and the node's shell in every other case.                      *)
ViaBridge(o, a) ==
    /\ Protocol[a] = "shadowlink"
    /\ o \in {"suspend", "activate", "delete", "cleanup", "create"}

Outcomes(o, a) ==
    {"ok"} \cup (Faults \cap (IF ViaBridge(o, a) THEN {"lost", "unacked"}
                                                 ELSE {"nonzero", "lost", "unacked"}))
Raises(out) == out \in {"lost", "unacked"}
Applied(out) == out \in {"ok", "unacked"}
Marks(a, out) == IF out = "ok" THEN {} ELSE {a} \X Kinds

-----------------------------------------------------------------------------
(* Requests and tasks start: what they load and which rows they select.    *)

Begin(w, o, S, pc, i) ==
    /\ o \in Ops
    /\ job[w].pc = "idle"
    /\ S # {}
    /\ job' = [v \in Workers |->
                  IF v = w
                  THEN [op |-> o, pc |-> pc, todo |-> S, acct |-> None,
                        inst |-> i, clean |-> Overlaps(S) = {}]
                  ELSE [job[v] EXCEPT !.clean = @ /\ job[v].todo \cap S = {}]]
    /\ disturbed' = disturbed \cup (Overlaps(S) \X Kinds)
    /\ UNCHANGED <<now, row, remote, audit>>

(* delete_account_view, suspend_account_view, activate_account_view and    *)
(* reset_password_view                                                     *)
StartRequest(w, a) ==
    /\ row[a].status # "none"
    /\ \E o \in {"suspend", "activate", "delete", "reset"} : Begin(w, o, {a}, "call", NoRow)

(* The actions of SSHAccountAdmin run over a selection of accounts.        *)
Eligible(o) ==
    {a \in Accounts :
        CASE o = "suspend"  -> row[a].status = "active"
          [] o = "activate" -> row[a].status = "suspended"
          [] OTHER          -> row[a].status \notin {"none", "deleted"}}

StartSelection(w) ==
    \E o \in {"suspend", "activate", "delete"} :
        \E S \in SUBSET Eligible(o) : Begin(w, o, S, "call", NoRow)

(* extend_account_view, and the payment webhook for a known customer       *)
StartExtend(w, a) ==
    /\ row[a].status # "none"
    /\ \A d \in PlanDays : row[a].expire + d * TicksPerDay <= MaxExpire
    /\ Begin(w, "extend", {a}, "write", row[a])

(* AccountUpdateView.patch                                                 *)
StartUpdate(w, a) ==
    /\ row[a].status # "none"
    /\ Begin(w, "update", {a}, "write", row[a])

StartExpire(w) ==
    Begin(w, "expire",
          {a \in Accounts : row[a].status = "active" /\ row[a].expire <= now},
          "call", NoRow)

StartCleanup(w) ==
    Begin(w, "cleanup",
          {a \in Accounts : /\ row[a].status = "expired"
                            /\ row[a].expire + GraceDays * TicksPerDay <= now},
          "call", NoRow)

(* sync_bandwidth_usage visits the servers that are ACTIVE; it does not    *)
(* have to run for anything that is claimed here.                          *)
StartBandwidth(w) ==
    Begin(w, "bandwidth", {a \in Accounts : row[a].status = "active"}, "call", NoRow)

(* The INSERT of create_account holds the unique key until the transaction *)
(* ends: a second INSERT waits for it, and fails if it commits.            *)
KeyHeld(a) == \E w \in Workers : job[w].op = "create" /\ a \in job[w].todo

Fresh(d) == [status |-> "active", expire |-> now + d * TicksPerDay]

StartCreate(w, a) ==
    /\ row[a].status = "none"
    /\ ~KeyHeld(a)
    /\ \E d \in PlanDays : Begin(w, "create", {a}, "call", Fresh(d))

(* setup_server, and _provision_default_user for a server that is new:     *)
(* they look for a live row, and reach the database again only at the end. *)
StartProvision(w, a) ==
    /\ Protocol[a] = "ssh"
    /\ row[a].status \in {"none", "deleted"}
    /\ \E d \in PlanDays : Begin(w, "provision", {a}, "call", Fresh(d))

-----------------------------------------------------------------------------
(* delete_account, suspend_account, activate_account, reset_password, and  *)
(* the loop bodies of expire_users and sync_bandwidth_usage: call the      *)
(* node, then write the row.                                               *)

Opens(o) == o \in {"activate", "reset"}

(* Mutation: sync_bandwidth_usage writes the status and does not lock.     *)
EffectNoQuotaLock(o, a) ==
    IF o \in {"delete", "cleanup"} THEN Absent
    ELSE IF ~remote[a].exists \/ o = "bandwidth" THEN remote[a]
    ELSE [remote[a] EXCEPT !.locked = ~Opens(o)]

(* Mutation: delete_account locks the credential and leaves it in place.   *)
EffectDeleteLocks(o, a) ==
    IF remote[a].exists THEN [remote[a] EXCEPT !.locked = ~Opens(o)] ELSE remote[a]

(* The shell commands of the two tasks find no OS user for a ShadowLink    *)
(* account, and leave the node as it is.  chpasswd replaces the hash, and  *)
(* with it the mark by which usermod -L locks it.                          *)
Effect(o, a) ==
    LET r == remote[a]
    IN  IF o \in {"delete", "cleanup"} THEN Absent
        ELSE IF ~r.exists \/ (Protocol[a] = "shadowlink" /\ o \in {"expire", "bandwidth"})
             THEN r
             ELSE [r EXCEPT !.locked = ~Opens(o),
                            !.reset = o = "reset" /\ (r.locked \/ r.reset)]

(* The usage of an account is below its limit: nothing to do.  The counter *)
(* of a ShadowLink account is always 0.                                    *)
UnderLimit(w, a) ==
    /\ job[w].pc = "call" /\ job[w].op = "bandwidth" /\ a \in job[w].todo
    /\ Finish(w, a)
    /\ UNCHANGED <<now, row, remote, audit, disturbed>>

(* An exception of the SSH layer ends the request or the bandwidth task    *)
(* and skips the item in the other two tasks; one of the bridge is logged  *)
(* and swallowed.  Only reset_password looks at the exit status of the     *)
(* command; it opens an account that is locked, whatever its status.       *)
Refused(o, a, out) ==
    o = "reset" /\ (out = "nonzero" \/ ~remote[a].exists \/ Protocol[a] = "shadowlink")

Call(w, a) ==
    LET o == job[w].op IN
    /\ job[w].pc = "call" /\ o \in CallFirst /\ a \in job[w].todo
    /\ o = "bandwidth" => Protocol[a] = "ssh"
    /\ \E out \in Outcomes(o, a) :
        /\ remote' = IF Applied(out) /\ ~Refused(o, a, out)
                       THEN [remote EXCEPT ![a] = Effect(o, a)] ELSE remote
        /\ disturbed' = disturbed
             \cup (IF Refused(o, a, out) THEN {} ELSE Marks(a, out))
        /\ IF (Raises(out) /\ ~ViaBridge(o, a)) \/ Refused(o, a, out)
             THEN IF o = "bandwidth" THEN job' = [job EXCEPT ![w] = Idle]
                                     ELSE Finish(w, a)
             ELSE GoTo(w, a, "save", out = "ok")
    /\ UNCHANGED <<now, row, audit>>

(* Mutation: the loop body of process_expirations does not set the status. *)
NewStatusUnset(o, status) ==
    CASE o \in {"suspend", "bandwidth"} -> "suspended"
      [] o \in {"activate", "expire"}   -> "active"
      [] o = "reset"                    -> status
      [] OTHER                          -> "deleted"

(* Mutation: the loop body of cleanup_expired_accounts does not set it.    *)
NewStatusNoCleanup(o, status) ==
    CASE o \in {"suspend", "bandwidth"} -> "suspended"
      [] o = "activate"                 -> "active"
      [] o = "reset"                    -> status
      [] o \in {"expire", "cleanup"}    -> "expired"
      [] OTHER                          -> "deleted"

NewStatus(o, status) ==
    CASE o \in {"suspend", "bandwidth"} -> "suspended"
      [] o = "activate"                 -> "active"
      [] o = "reset"                    -> status
      [] o = "expire"                   -> "expired"
      [] OTHER                          -> "deleted"

(* Mutation: delete_account returns before it writes its AuditLog entry.   *)
SaveUnlogged(w) ==
    LET o == job[w].op
        a == job[w].acct
    IN  /\ job[w].pc = "save"
        /\ row' = [row EXCEPT ![a].status = NewStatus(o, @)]
        /\ IF o \in {"expire", "bandwidth", "delete", "cleanup"}
             THEN Finish(w, a) /\ disturbed' = disturbed \ Repaired(w, a)
             ELSE GoTo(w, a, "log", TRUE) /\ UNCHANGED disturbed
        /\ UNCHANGED <<now, remote, audit>>

(* Mutation: a status change stamps the date too.                          *)
SaveStampsDate(w) ==
    LET o == job[w].op
        a == job[w].acct
    IN  /\ job[w].pc = "save"
        /\ row' = [row EXCEPT ![a] = [status |-> NewStatus(o, @.status), expire |-> now]]
        /\ IF o \in {"expire", "bandwidth"}
             THEN Finish(w, a) /\ disturbed' = disturbed \ Repaired(w, a)
             ELSE GoTo(w, a, "log", TRUE) /\ UNCHANGED disturbed
        /\ UNCHANGED <<now, remote, audit>>

(* save(update_fields=["status", ...]): the tasks write no AuditLog entry  *)
(* of their own.                                                           *)
Save(w) ==
    LET o == job[w].op
        a == job[w].acct
    IN  /\ job[w].pc = "save"
        /\ row' = [row EXCEPT ![a].status = NewStatus(o, @)]
        /\ IF o \in {"expire", "bandwidth"}
             THEN /\ Finish(w, a)
                  /\ disturbed' = disturbed \ Repaired(w, a)
             ELSE /\ GoTo(w, a, "log", TRUE)
                  /\ UNCHANGED disturbed
        /\ UNCHANGED <<now, remote, audit>>

(* Mutation: the task logs an action that AuditLog.Action does not have.   *)
AuditActionRaw(o) == o

AuditAction(o) == IF o = "cleanup" THEN "delete" ELSE o

Log(w) ==
    LET a == job[w].acct IN
    /\ job[w].pc = "log"
    /\ audit' = [audit EXCEPT ![a] = AuditAction(job[w].op)]
    /\ Finish(w, a)
    /\ disturbed' = disturbed \ Repaired(w, a)
    /\ UNCHANGED <<now, row, remote>>

-----------------------------------------------------------------------------
(* extend_account and AccountUpdateView.patch: write the row, then call    *)
(* the node.                                                               *)

Later(s, t) == IF s < t THEN t ELSE s

(* SSHAccount.extend mutates the instance and saves both fields.           *)
WriteExtend(w, a) ==
    /\ job[w].pc = "write" /\ job[w].op = "extend" /\ a \in job[w].todo
    /\ \E d \in PlanDays :
        LET e == Later(job[w].inst.expire, now) + d * TicksPerDay
            i == [status |-> "active", expire |-> e]
        IN  /\ row' = [row EXCEPT ![a] = i]
            /\ job' = [job EXCEPT ![w].pc = "expiry", ![w].acct = a, ![w].inst = i]
    /\ UNCHANGED <<now, remote, audit, disturbed>>

(* account.save() writes every field of the instance that was loaded, the  *)
(* status too; without a new date the node is not told anything.           *)
WriteUpdate(w, a) ==
    /\ job[w].pc = "write" /\ job[w].op = "update" /\ a \in job[w].todo
    /\ \/ /\ row' = [row EXCEPT ![a] = job[w].inst]
          /\ Finish(w, a)
       \/ \E e \in DateInputs \cup {now + d * TicksPerDay : d \in PlanDays} :
            LET i == [job[w].inst EXCEPT !.expire = e]
            IN  /\ row' = [row EXCEPT ![a] = i]
                /\ job' = [job EXCEPT ![w].pc = "expiry", ![w].acct = a, ![w].inst = i]
    /\ UNCHANGED <<now, remote, audit, disturbed>>

(* Mutation: the date sent to the node is the day after.                   *)
DatedNextDay(w, a) ==
    IF ~remote[a].exists \/ Protocol[a] = "shadowlink" THEN remote[a]
    ELSE [remote[a] EXCEPT !.expiry = DayOf(job[w].inst.expire) + 1]

(* chage -E, and what follows it in the handler: extend_account unlocks    *)
(* the user when the instance is EXPIRED.                                  *)
Dated(w, a) ==
    LET r == remote[a]
    IN  IF ~r.exists \/ Protocol[a] = "shadowlink" THEN r
        ELSE [r EXCEPT !.expiry = DayOf(job[w].inst.expire),
                       !.locked = @ /\ ~(job[w].op = "extend"
                                         /\ job[w].inst.status = "expired")]

SetExpiry(w) ==
    LET o == job[w].op
        a == job[w].acct
    IN  /\ job[w].pc = "expiry"
        /\ \E out \in Outcomes(o, a) :
            /\ remote' = IF Applied(out) THEN [remote EXCEPT ![a] = Dated(w, a)] ELSE remote
            /\ disturbed' = IF out = "ok" /\ o = "update"
                              THEN disturbed \ Repaired(w, a)
                              ELSE disturbed \cup Marks(a, out)
            /\ IF o = "update" \/ Raises(out)
                 THEN Finish(w, a)
                 ELSE GoTo(w, a, IF o = "extend" THEN "log" ELSE "commit", out = "ok")
        /\ UNCHANGED <<now, row, audit>>

-----------------------------------------------------------------------------
(* create_account and the default-user provisioning.                       *)

(* useradd, whose result is ignored, then chpasswd, whose result is        *)
(* checked.  useradd leaves the password locked and chpasswd unlocks it;   *)
(* an OS user that is already there is taken over with its date.           *)
WithPassword(r) == [exists |-> TRUE, locked |-> FALSE, expiry |-> r.expiry, reset |-> FALSE]
WithoutPassword(r) == IF r.exists THEN r ELSE [r EXCEPT !.exists = TRUE, !.locked = TRUE]

Created(r, out) ==
    CASE out = "ok"                  -> {WithPassword(r)}
      [] out \in {"nonzero", "lost"} -> {r, WithoutPassword(r)}
      [] OTHER                       -> {WithoutPassword(r), WithPassword(r)}

(* Mutation: the result of chpasswd is not checked.                        *)
CreateUserUnchecked(w, a) ==
    /\ job[w].pc = "call" /\ job[w].op \in Creating /\ a \in job[w].todo
    /\ Protocol[a] = "ssh"
    /\ \E out \in Outcomes(job[w].op, a) :
        /\ \E r \in Created(remote[a], out) : remote' = [remote EXCEPT ![a] = r]
        /\ disturbed' = disturbed \cup Marks(a, out)
        /\ IF ~Raises(out) THEN GoTo(w, a, "expiry", out = "ok") ELSE Finish(w, a)
    /\ UNCHANGED <<now, row, audit>>

(* user_exists guards create_user in the provisioning of a default user    *)
(* only: an OS user that is there keeps its password and its lock.         *)
CreateUser(w, a) ==
    LET skip == job[w].op = "provision" /\ remote[a].exists IN
    /\ job[w].pc = "call" /\ job[w].op \in Creating /\ a \in job[w].todo
    /\ Protocol[a] = "ssh"
    /\ \E out \in Outcomes(job[w].op, a) \ (IF skip THEN {"nonzero"} ELSE {}) :
        /\ \E r \in (IF skip THEN {remote[a]} ELSE Created(remote[a], out)) :
              remote' = [remote EXCEPT ![a] = r]
        /\ disturbed' = disturbed \cup Marks(a, out)
        /\ IF out = "ok" THEN GoTo(w, a, "expiry", TRUE) ELSE Finish(w, a)
    /\ UNCHANGED <<now, row, audit>>

(* _provision_shadowlink_account registers the fresh auth_token of the     *)
(* row that is being inserted; every exception becomes an AccountError.  A *)
(* token that is registered all the same is one that no row ever knows,    *)
(* and a later creation registers another: remote is the row's own token.  *)
RegisterToken(w, a) ==
    /\ job[w].pc = "call" /\ job[w].op = "create" /\ a \in job[w].todo
    /\ Protocol[a] = "shadowlink"
    /\ \E out \in Outcomes("create", a) :
        /\ disturbed' = disturbed \cup Marks(a, out)
        /\ IF out = "ok"
             THEN /\ remote' = [remote EXCEPT ![a] = WithPassword(Absent)]
                  /\ GoTo(w, a, "commit", TRUE)
             ELSE /\ Finish(w, a)
                  /\ UNCHANGED remote
    /\ UNCHANGED <<now, row, audit>>

(* The transaction of create_account commits the row and its AuditLog      *)
(* entry together.                                                         *)
CommitCreate(w) ==
    LET a == job[w].acct IN
    /\ job[w].pc = "commit" /\ job[w].op = "create"
    /\ row' = [row EXCEPT ![a] = job[w].inst]
    /\ audit' = [audit EXCEPT ![a] = "create"]
    /\ Finish(w, a)
    /\ disturbed' = disturbed \ Repaired(w, a)
    /\ UNCHANGED <<now, remote>>

(* The INSERT of the default user fails when the key is taken, by a        *)
(* deleted row too.                                                        *)
CommitProvision(w) ==
    LET a == job[w].acct IN
    /\ job[w].pc = "commit" /\ job[w].op = "provision"
    /\ ~KeyHeld(a)
    /\ IF row[a].status = "none"
         THEN /\ row' = [row EXCEPT ![a] = job[w].inst]
              /\ disturbed' = disturbed \ Repaired(w, a)
         ELSE /\ disturbed' = disturbed \cup ({a} \X Kinds)
              /\ UNCHANGED row
    /\ Finish(w, a)
    /\ UNCHANGED <<now, remote, audit>>

-----------------------------------------------------------------------------

(* The process dies: an open transaction is rolled back, and the token     *)
(* registered for its row is no longer any row's.  Nothing redelivers the  *)
(* job.                                                                    *)
Crash(w) ==
    LET a == job[w].acct
        orphan == job[w].pc = "commit" /\ Protocol[a] = "shadowlink"
    IN  /\ "crash" \in Faults
        /\ job[w].pc # "idle"
        /\ job' = [job EXCEPT ![w] = Idle]
        /\ disturbed' = disturbed \cup (({a} \ {None}) \X Kinds)
        /\ remote' = IF orphan THEN [remote EXCEPT ![a] = Absent] ELSE remote
        /\ UNCHANGED <<now, row, audit>>

Tick ==
    /\ now < MaxTime
    /\ now' = now + 1
    /\ UNCHANGED <<row, remote, audit, job, disturbed>>

Start(w) ==
    \/ \E a \in Accounts : \/ StartRequest(w, a)
                           \/ StartExtend(w, a)
                           \/ StartUpdate(w, a)
                           \/ StartCreate(w, a)
                           \/ StartProvision(w, a)
    \/ StartSelection(w)
    \/ StartExpire(w)
    \/ StartCleanup(w)
    \/ StartBandwidth(w)

Step(w) ==
    \/ \E a \in Accounts : \/ UnderLimit(w, a)
                           \/ Call(w, a)
                           \/ WriteExtend(w, a)
                           \/ WriteUpdate(w, a)
                           \/ CreateUser(w, a)
                           \/ RegisterToken(w, a)
    \/ Save(w)
    \/ Log(w)
    \/ SetExpiry(w)
    \/ CommitCreate(w)
    \/ CommitProvision(w)

Next == Tick \/ \E w \in Workers : Start(w) \/ Step(w) \/ Crash(w)

Spec == Init /\ [][Next]_vars

(* Requests and tasks run to their end (paramiko and requests time out),   *)
(* and Celery Beat enqueues the two tasks again and again, whatever else   *)
(* the workers are asked to do in between.                                 *)
FairSpec ==
    /\ Spec
    /\ WF_vars(Tick)
    /\ \A w \in Workers : WF_vars(Step(w))
    /\ SF_vars(\E w \in Workers : StartExpire(w))
    /\ SF_vars(\E w \in Workers : StartCleanup(w))

-----------------------------------------------------------------------------
(* What the database says of an account against what the node enforces.    *)

Access(a) == remote[a].exists /\ ~remote[a].locked

(* No job is at work on the account, and everything that ever went wrong   *)
(* for it in this respect has been repaired since.                         *)
Settled(a, kind) == ~InUse(a) /\ <<a, kind>> \notin disturbed

(* The statuses that take the access away.  expire_users never tells the   *)
(* bridge, so EXPIRED is not among them for a ShadowLink account.          *)
Blocked(a) ==
    IF Protocol[a] = "ssh" THEN {"suspended", "expired", "deleted"}
                           ELSE {"suspended", "deleted"}

(* An account that the panel shows as suspended, expired or deleted cannot *)
(* log in to the node, unless reset_password has opened it since it was    *)
(* locked, which it does whatever the status: suspend_account,             *)
(* delete_account and the tasks act on the node before they write the      *)
(* status, so this survives any sequence of operations, and any failure    *)
(* followed by a clean retry.                                              *)
BlockedIsLockedOut ==
    \A a \in Accounts :
        Settled(a, "access") /\ row[a].status \in Blocked(a) /\ Access(a)
            => remote[a].reset

(* A deleted account leaves no credential on the node, a locked one or one *)
(* that a reset has opened neither (delete_account,                        *)
(* cleanup_expired_accounts).                                              *)
NoOrphanCredential ==
    \A a \in Accounts :
        Settled(a, "access") /\ row[a].status = "deleted" => ~remote[a].exists

(* The date that chage enforces is the day of the row's expire_date, after *)
(* every mix of creations, extensions and edits.                           *)
ExpiryInStep ==
    \A a \in Accounts :
        /\ Settled(a, "date") /\ row[a].status # "none"
        /\ Protocol[a] = "ssh" /\ remote[a].exists
        => remote[a].expiry = DayOf(row[a].expire)

(* The newest AuditLog entry agrees with the status: a deletion is the     *)
(* last entry of a deleted account and of no other, and an account that    *)
(* is in service or has run out was not last suspended by an admin.        *)
AuditMatchesStatus ==
    \A a \in Accounts :
        Settled(a, "log") =>
            /\ row[a].status = "deleted" <=> audit[a] = "delete"
            /\ row[a].status \in {"active", "expired"} => audit[a] # "suspend"

(* Whatever fails or overlaps, a row is only ever committed for an account *)
(* that exists on the node at that moment (create_account, setup_server).  *)
CommitProvisioned ==
    [][\A a \in Accounts :
         row[a].status = "none" /\ row'[a].status # "none" => remote[a].exists]_vars

(* Whatever fails or overlaps, only an extension or an edit moves an       *)
(* expire_date, so no task and no status change sells or takes time.       *)
OnlySalesMoveDates ==
    [][\A a \in Accounts :
         /\ row[a].status # "none"
         /\ row'[a].expire # row[a].expire
         => \E w \in Workers : job[w].op \in WriteFirst /\ job[w].todo = {a}]_vars

(* An account past its date loses its access, whatever protocol it speaks: *)
(* expire_users locks the OS user; a token stays valid for the grace       *)
(* period and goes when cleanup_expired_accounts deletes the account (the  *)
(* Beat schedule of sshvpn/celery.py).  Failed calls are excepted, because *)
(* nobody repeats the lock or the deletion that failed, and accounts that  *)
(* reset_password has opened again.                                        *)
Deadline(a) ==
    row[a].expire + IF Protocol[a] = "ssh" THEN 0 ELSE GraceDays * TicksPerDay
Overstays(a) ==
    /\ row[a].status # "none" /\ Deadline(a) <= now
    /\ Access(a) /\ ~remote[a].reset /\ <<a, "access">> \notin disturbed
OverdueLosesAccess == \A a \in Accounts : []<>~Overstays(a)

(* An account past the grace period leaves EXPIRED.                        *)
PastGrace(a) ==
    row[a].status = "expired" /\ row[a].expire + GraceDays * TicksPerDay <= now
AutoCleanup ==
    \A a \in Accounts : []<>~PastGrace(a)

-----------------------------------------------------------------------------
(* What the repository says of the program and the code does not do.       *)

(* An account that the panel shows as active can log in.                   *)
ActiveCanLogIn ==
    \A a \in Accounts :
        Settled(a, "access") /\ row[a].status = "active" => Access(a)
=============================================================================
