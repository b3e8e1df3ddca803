---------------------------- MODULE NodeAccount ----------------------------
(***************************************************************************)
(* One SSH account at the grain of single shell commands: its password,    *)
(* which create_account, reset_password and setup_server set on the node   *)
(* and show in the panel, and the iptables chain that measures its traffic *)
(* for sync_bandwidth_usage (servers/ssh.py, accounts/services.py and      *)
(* accounts/tasks.py).                                                     *)
(*                                                                         *)
(* AccountLifecycle has a call to the node as one step with one outcome;   *)
(* here it is the commands it consists of, and jobs interleave between any *)
(* two of them.  Accounts share none of this state, so one is enough.      *)
(***************************************************************************)
EXTENDS Integers, Sequences, FiniteSets

CONSTANTS
    Workers,    \* web threads and Celery worker processes
    Passwords,  \* results of generate_password
    None,       \* "no password"
    Grain,      \* bytes in the last of the six decimals of bandwidth_used_gb
    Limit,      \* bandwidth_limit_gb in such steps; 0 is no limit
    Mixes,      \* bound: the sets of operations that meet in a behaviour
    MaxTraffic, \* bound: bytes that the account transfers
    MaxFaults   \* bound: failing commands, lost connections, dying processes, reboots

PasswordOps == {"create", "provision", "reset"}
Ops == PasswordOps \cup {"sync", "delete", "activate"}

ASSUME NodeAccountAssumption ==
    /\ IsFiniteSet(Workers) /\ Workers # {}
    /\ None \notin Passwords
    /\ IsFiniteSet(Passwords) => Cardinality(Passwords) > Cardinality(Workers) + 1
    /\ Mixes # {} /\ \A m \in Mixes : m \subseteq Ops
    /\ Grain \in Nat \ {0} /\ Limit \in Nat
    /\ MaxTraffic \in Nat /\ MaxFaults \in Nat

VARIABLES
    mix,        \* the operations of this behaviour
    serving,    \* the server's status is ACTIVE
    row,        \* the committed row
    node,       \* the OS user and its chain
    sent,       \* history: bytes that the account has transferred
    job,        \* what each worker is doing
    faults,     \* faults so far
    doubt,      \* observer: a job on the password was cut short or overlapped
    tangled     \* observer: two set-ups overlapped, or one missed the chain

vars == <<mix, serving, row, node, sent, job, faults, doubt, tangled>>

-----------------------------------------------------------------------------

Row == [status : {"none", "active", "suspended", "deleted"},
        pw : Passwords \cup {None}, used : Nat]

(* chain: SSHVPN_<user> exists; jumps: how many rules of OUTPUT lead to    *)
(* it; rules: the byte counter of each of its RETURN rules.  usermod -L    *)
(* and -U are steps without effect here: AccountLifecycle has the lock.    *)
Node == [exists : BOOLEAN, pw : Passwords \cup {None},
         chain : BOOLEAN, jumps : Nat, rules : Seq(Nat)]
NoUser(n) == [n EXCEPT !.exists = FALSE, !.pw = None]
NoRules(n) == [n EXCEPT !.chain = FALSE, !.jumps = 0, !.rules = << >>]

Making == {"new", "jump", "return"}
PC == Making \cup {"idle", "exists", "useradd", "chpasswd", "id", "list", "read", "lock",
                   "userdel", "unlock", "save", "status"}

(* pw: the password in the job's hand; seen: the usage that it has loaded, *)
(* then read; live: its SSH connection stands; clean: an observer.         *)
Job == [op : Ops \cup {"none"}, pc : PC, pw : Passwords \cup {None}, seen : Nat,
        live : BOOLEAN, clean : BOOLEAN]
Idle == [op |-> "none", pc |-> "idle", pw |-> None, seen |-> 0, live |-> TRUE, clean |-> TRUE]

(* The types of the variables.                                             *)
TypeOK ==
    /\ mix \in Mixes /\ serving \in BOOLEAN
    /\ row \in Row /\ node \in Node
    /\ sent \in Nat /\ faults \in Nat
    /\ job \in [Workers -> Job]
    /\ doubt \in BOOLEAN /\ tangled \in BOOLEAN

Init ==
    /\ mix \in Mixes /\ serving = TRUE
    /\ row = [status |-> "none", pw |-> None, used |-> 0]
    /\ node = [exists |-> FALSE, pw |-> None, chain |-> FALSE, jumps |-> 0, rules |-> << >>]
    /\ sent = 0 /\ faults = 0
    /\ job = [w \in Workers |-> Idle]
    /\ doubt = FALSE /\ tangled = FALSE

-----------------------------------------------------------------------------
(* Steps of a job.                                                         *)

GoTo(w, pc) ==
    job' = [job EXCEPT ![w] = IF pc = "idle" THEN Idle ELSE [@ EXCEPT !.pc = pc]]
Done(w) == GoTo(w, "idle")
Stopped(w) == Done(w) /\ doubt' = (doubt \/ job[w].op \in PasswordOps)

Fault == faults < MaxFaults /\ faults' = faults + 1

(* SSHManager.run of a command that turns node into after and leads to pc: *)
(* it succeeds; or it fails with an exit status, which leads to other; or  *)
(* it raises, before or after the node has acted.  On a connection that a  *)
(* reboot has cut it can only raise.                                       *)
Run(w, after, pc, other) ==
    /\ \/ /\ job[w].live
          /\ node' = after /\ GoTo(w, pc)
          /\ UNCHANGED <<faults, doubt>>
       \/ /\ job[w].live /\ Fault
          /\ GoTo(w, other)
          /\ doubt' = (doubt \/ (other = "idle" /\ job[w].op # "reset"))
          /\ UNCHANGED node
       \/ /\ job[w].live /\ Fault
          /\ node' \in {node, after} /\ Stopped(w)
       \/ ~job[w].live /\ Stopped(w) /\ UNCHANGED <<node, faults>>
    /\ UNCHANGED <<row, sent>>

(* A password in nobody's use: there are more than the row, the node and   *)
(* the other workers can hold (NodeAccountAssumption).                     *)
generate_password ==
    CHOOSE p \in Passwords : p \notin {row.pw, node.pw} \cup {job[w].pw : w \in Workers}

Begin(w, o, pc) ==
    LET others == {v \in Workers : {o, job[v].op} \subseteq PasswordOps}
    IN  /\ job[w].pc = "idle" /\ o \in mix
        /\ job' = [v \in Workers |->
                     IF v = w THEN [op |-> o, pc |-> pc, seen |-> row.used, live |-> TRUE,
                                    pw |-> IF o \in PasswordOps THEN generate_password ELSE None,
                                    clean |-> others = {} /\ ~(o = "provision" /\ node.exists)]
                     ELSE [job[v] EXCEPT !.clean = @ /\ v \notin others]]
        /\ doubt' = (doubt \/ others # {})
        /\ UNCHANGED <<mix, serving, row, node, sent, faults, tangled>>

(* create_account: the key is free, and no open transaction holds it.      *)
StartCreate(w) ==
    /\ row.status = "none"
    /\ \A v \in Workers : job[v].op # "create"
    /\ Begin(w, "create", "useradd")

(* setup_server, and _provision_default_user for a new server              *)
StartProvision(w) == row.status \in {"none", "deleted"} /\ Begin(w, "provision", "exists")

(* reset_password, delete_account and activate_account look at no status.  *)
StartRequest(w) ==
    /\ row.status # "none"
    /\ \/ Begin(w, "reset", "chpasswd")
       \/ Begin(w, "delete", "userdel")
       \/ Begin(w, "activate", "unlock")

(* sync_bandwidth_usage loads the active accounts of the servers that are  *)
(* ACTIVE.                                                                 *)
StartSync(w) == serving /\ row.status = "active" /\ Begin(w, "sync", "id")

-----------------------------------------------------------------------------
(* The OS user                                                             *)

(* setup_traffic_accounting, for an account with a limit                   *)
AfterUser == IF Limit > 0 THEN "id" ELSE "save"

(* user_exists in setup_server: a user who is there keeps the password.    *)
UserExists(w) ==
    /\ job[w].pc = "exists"
    /\ Run(w, node, IF node.exists THEN AfterUser ELSE "useradd", "useradd")
    /\ UNCHANGED tangled

(* useradd, whose result is dropped; the uid may be a new one, which the   *)
(* rule that leads to an old chain does not name.                          *)
UserAdd(w) ==
    /\ job[w].pc = "useradd"
    /\ \E j \in {0, node.jumps} :
          Run(w, IF node.exists THEN node ELSE [node EXCEPT !.exists = TRUE, !.jumps = j],
              "chpasswd", "chpasswd")
    /\ UNCHANGED tangled

SetPassword(w, failed) ==
    /\ job[w].pc = "chpasswd"
    /\ IF node.exists
         THEN Run(w, [node EXCEPT !.pw = job[w].pw],
                  IF job[w].op = "reset" THEN "save" ELSE AfterUser, failed)
         ELSE Run(w, node, failed, failed)
    /\ UNCHANGED tangled

(* Mutation: reset_password does not look at the result of chpasswd.       *)
ChPasswdUnchecked(w) == SetPassword(w, IF job[w].op = "reset" THEN "save" ELSE "idle")

(* chpasswd in create_user and change_password; its result is looked at.   *)
ChPasswd(w) == SetPassword(w, "idle")

(* delete_user, and the node's side of activate_account                    *)
UserDel(w) ==
    /\ job[w].pc = "userdel"
    /\ Run(w, NoUser(node), "save", "save")
    /\ UNCHANGED tangled
Unlock(w) ==
    /\ job[w].pc = "unlock"
    /\ Run(w, node, "save", "save")
    /\ UNCHANGED tangled

-----------------------------------------------------------------------------
(* setup_traffic_accounting                                                *)

AfterSetUp(w) == IF job[w].op = "sync" THEN "read" ELSE "save"

(* id -u <user>                                                            *)
IdU(w) ==
    /\ job[w].pc = "id"
    /\ Run(w, node, IF node.exists THEN "list" ELSE AfterSetUp(w), AfterSetUp(w))
    /\ UNCHANGED tangled

(* iptables -L <chain>: any failure counts as "there is none".             *)
List(w) ==
    /\ job[w].pc = "list"
    /\ Run(w, node, IF node.chain THEN AfterSetUp(w) ELSE "new", "new")
    /\ tangled' = (tangled \/ /\ job'[w].pc = "new"
                              /\ node.chain \/ \E v \in Workers \ {w} : job[v].pc \in Making)

(* iptables -N, -A OUTPUT -m owner --uid-owner <uid> -j <chain>, and       *)
(* -A <chain> -j RETURN: none of the results is looked at.                 *)
Chain(w) ==
    /\ \/ /\ job[w].pc = "new"
          /\ Run(w, [node EXCEPT !.chain = TRUE], "jump", "jump")
       \/ /\ job[w].pc = "jump"
          /\ Run(w, [node EXCEPT !.jumps = @ + IF node.chain THEN 1 ELSE 0], "return", "return")
       \/ /\ job[w].pc = "return"
          /\ Run(w, IF node.chain THEN [node EXCEPT !.rules = Append(@, 0)] ELSE node,
                 AfterSetUp(w), AfterSetUp(w))
    /\ UNCHANGED tangled

-----------------------------------------------------------------------------
(* get_user_bandwidth_bytes and the rest of sync_bandwidth_usage           *)

(* The counter of the last rule; a chain without rules ends in a heading.  *)
Reading == IF node.rules = << >> THEN 0 ELSE node.rules[Len(node.rules)]

(* round(bytes / 1024 ** 3, 6)                                             *)
GB(bytes) == (2 * bytes + Grain) \div (2 * Grain)

(* Mutation: the reading is added to the usage.                            *)
gb_usedAdded(w) == job[w].seen + GB(Reading)

gb_used(w) == GB(Reading)

(* Mutation: the limit is looked at only when the usage has changed.       *)
OverLimitOnce(used) == Limit > 0 /\ used >= Limit /\ used # row.used

OverLimit(used) == Limit > 0 /\ used >= Limit

AfterSave(w, used) ==
    job' = [job EXCEPT ![w] = IF OverLimit(used) THEN [@ EXCEPT !.pc = "lock", !.seen = used]
                              ELSE Idle]

(* A command that fails reads as 0 bytes.                                  *)
Read(w) ==
    /\ job[w].pc = "read"
    /\ \/ /\ job[w].live
          /\ \E used \in {gb_used(w)} \cup (IF faults < MaxFaults THEN {0} ELSE {}) :
                /\ faults' = faults + (IF used = gb_used(w) THEN 0 ELSE 1)
                /\ IF used # job[w].seen
                     THEN job' = [job EXCEPT ![w].pc = "save", ![w].seen = used]
                     ELSE AfterSave(w, used)
       \/ job[w].live /\ Fault /\ Done(w)
       \/ ~job[w].live /\ Done(w) /\ UNCHANGED faults
    /\ UNCHANGED <<row, node, sent, doubt, tangled>>

Lock(w) == job[w].pc = "lock" /\ Run(w, node, "status", "status") /\ UNCHANGED tangled

(* save(update_fields = ["status"]) of sync_bandwidth_usage                *)
Suspend(w) ==
    /\ job[w].pc = "status"
    /\ row' = [row EXCEPT !.status = "suspended"]
    /\ Done(w)
    /\ UNCHANGED <<node, sent, faults, doubt, tangled>>

-----------------------------------------------------------------------------

(* The row that the job commits; a key is used once, whatever its status.  *)
Save(w) ==
    LET j == job[w]
        taken == j.op = "provision" /\ row.status # "none"
    IN  /\ j.pc = "save"
        /\ j.op = "provision" => \A v \in Workers : job[v].op # "create"
        /\ row' = CASE taken -> row
                    [] j.op \in {"create", "provision"} /\ ~taken ->
                         [status |-> "active", pw |-> j.pw, used |-> 0]
                    [] j.op = "reset" -> [row EXCEPT !.pw = j.pw]
                    [] j.op = "sync" -> [row EXCEPT !.used = j.seen]
                    [] j.op = "delete" -> [row EXCEPT !.status = "deleted"]
                    [] j.op = "activate" -> [row EXCEPT !.status = "active"]
        /\ doubt' = IF j.op \in PasswordOps THEN taken \/ ~j.clean ELSE doubt
        /\ IF j.op = "sync" THEN AfterSave(w, j.seen) ELSE Done(w)
        /\ UNCHANGED <<node, sent, faults, tangled>>

(* The process dies; an open transaction is rolled back.                   *)
Crash(w) ==
    /\ job[w].pc # "idle" /\ Fault /\ Stopped(w)
    /\ UNCHANGED <<mix, serving, row, node, sent, tangled>>

(* The account transfers; a lock does not end sessions that are running.   *)
Transfer ==
    /\ node.exists /\ sent < MaxTraffic
    /\ sent' = sent + 1
    /\ node' = [node EXCEPT !.rules = [i \in DOMAIN @ |-> @[i] + (IF i = 1 THEN node.jumps ELSE 0)]]
    /\ UNCHANGED <<mix, serving, row, job, faults, doubt, tangled>>

(* The node restarts: nobody has saved its rules.                          *)
Reboot ==
    /\ Fault
    /\ node' = NoRules(node)
    /\ job' = [w \in Workers |-> IF job[w].pc = "idle" THEN Idle ELSE [job[w] EXCEPT !.live = FALSE]]
    /\ UNCHANGED <<mix, serving, row, sent, doubt, tangled>>

(* The server becomes ACTIVE, or FULL, DOWN or in MAINTENANCE, which       *)
(* matters to sync_bandwidth_usage only.                                   *)
ChangeServer ==
    /\ "sync" \in mix
    /\ serving' = ~serving
    /\ UNCHANGED <<mix, row, node, sent, job, faults, doubt, tangled>>

Step(w) ==
    /\ UNCHANGED <<mix, serving>>
    /\ \/ UserExists(w) \/ UserAdd(w) \/ ChPasswd(w) \/ UserDel(w) \/ Unlock(w)
       \/ IdU(w) \/ List(w) \/ Chain(w) \/ Read(w) \/ Lock(w) \/ Suspend(w) \/ Save(w)

Next ==
    \/ \E w \in Workers :
          \/ StartCreate(w) \/ StartProvision(w) \/ StartRequest(w) \/ StartSync(w)
          \/ Step(w) \/ Crash(w)
    \/ Transfer \/ Reboot \/ ChangeServer

Spec == Init /\ [][Next]_vars

(* A command returns or times out, so that a job goes on; Celery beat      *)
(* starts sync_bandwidth_usage again and again and some worker takes it.   *)
FairSpec ==
    /\ Spec
    /\ \A w \in Workers : WF_vars(Step(w))
    /\ SF_vars(\E w \in Workers : StartSync(w))

-----------------------------------------------------------------------------
(* Properties.                                                             *)

(* The password that the panel shows opens the OS user, whatever jobs have *)
(* interleaved and failed, unless one on the password was cut short, or    *)
(* overlapped with another, or found a user that it had not made, and none *)
(* has succeeded since (create_account, reset_password, setup_server).     *)
ShownOpens ==
    \/ row.status \in {"none", "deleted"} \/ ~node.exists \/ doubt
    \/ \E w \in Workers : job[w].op \in PasswordOps
    \/ node.pw = row.pw

(* An account is never charged for more than it has transferred, but once  *)
(* for each set-up of the chain that did not see another's                 *)
(* (setup_traffic_accounting, sync_bandwidth_usage).                       *)
ChargeBounded ==
    row.used <= GB((IF tangled THEN Cardinality(Workers) + faults ELSE 1) * sent)

OverQuota ==
    serving /\ "sync" \in mix /\ row.status = "active" /\ GB(Reading) >= Limit

(* An account whose counter stands at its limit does not stay active on a  *)
(* server that is ACTIVE: sync suspends it again after every activation.   *)
(* On a FULL server and on one in maintenance it stays as it is            *)
(* (sync_bandwidth_usage).                                                 *)
QuotaEnds == []<>~OverQuota

=============================================================================
