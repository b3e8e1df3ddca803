----------------------- MODULE AccountLifecycle_proofs -----------------------
(***************************************************************************)
(* Proofs about AccountLifecycle, for any number of accounts and workers,  *)
(* any mix of operations and faults, and any clock: first what every       *)
(* record and job looks like, then that the database and the node are in   *)
(* step whenever nothing is under way and nothing unmended went wrong.     *)
(***************************************************************************)
EXTENDS AccountLifecycle, TLAPS

-----------------------------------------------------------------------------
(* The inductive invariant.                                                *)

Logging == {"suspend", "activate", "delete", "cleanup", "extend", "reset"}
Single == WriteFirst \cup Creating

(* Which operation can be at which point, and over which accounts.         *)
JobShape(j) ==
    /\ j.pc = "idle" => j = Idle
    /\ j.pc # "idle" => j.op \in AllOps
    /\ j.pc = "call" => j.op \in CallFirst \cup Creating
    /\ j.pc = "save" => j.op \in CallFirst
    /\ j.pc = "log" => j.op \in Logging
    /\ j.pc = "write" => j.op \in WriteFirst
    /\ j.pc = "expiry" => j.op \in Single
    /\ j.pc = "commit" => j.op \in Creating
    /\ j.pc \in {"save", "log", "expiry", "commit"} => j.acct \in j.todo
    /\ j.pc \in {"idle", "call", "write"} => j.acct = None
    /\ j.op \in Single => \A a, b \in j.todo : a = b
    /\ j.op \in WriteFirst => j.inst.status # "none"
    /\ j.op \in Creating => j.inst.status = "active"

Shape == \A w \in Workers : JobShape(job[w])

(* A job that is not creating an account works on rows that exist.         *)
RowsExist ==
    \A w \in Workers : job[w].op \in CallFirst \cup WriteFirst =>
        \A a \in job[w].todo : row[a].status # "none"

(* The unique key: create_account has it to itself until it ends.          *)
KeysFree ==
    \A w \in Workers : job[w].op = "create" =>
        \A a \in job[w].todo : row[a].status = "none"

OneCreator ==
    \A v, w \in Workers :
        job[v].op = "create" /\ job[w].op = "create"
        /\ job[v].todo \cap job[w].todo # {} => v = w

SshProvision ==
    \A w \in Workers : job[w].op = "provision" =>
        \A a \in job[w].todo : Protocol[a] = "ssh"

(* A creation that has got past the node has left a credential there, for  *)
(* as long as no row exists.                                               *)
Provisioned ==
    \A w \in Workers :
        /\ job[w].op \in Creating /\ job[w].pc \in {"expiry", "commit"}
        /\ row[job[w].acct].status = "none"
        => remote[job[w].acct].exists

Inv ==
    /\ TypeOK
    /\ Shape
    /\ RowsExist
    /\ KeysFree
    /\ OneCreator
    /\ SshProvision
    /\ Provisioned

-----------------------------------------------------------------------------

(* A worker that has nothing to do is well formed.                         *)
LEMMA IdleJob == Idle \in Job /\ JobShape(Idle)
  BY DEF Idle, Job, NoRow, Row, Status, PC, JobShape, Single, WriteFirst, Creating

(* The panel starts with the invariant.                                    *)
LEMMA InvInit == Init => Inv
  <1> SUFFICES ASSUME Init PROVE Inv
    OBVIOUS
  <1>1. NoRow \in Row /\ Absent \in Credential
    BY DEF NoRow, Row, Status, Absent, Credential, Never
  <1>2. TypeOK
    BY <1>1, IdleJob DEF Init, TypeOK, AuditActions
  <1>3. \A w \in Workers : job[w] = Idle
    BY DEF Init
  <1>4. Shape
    BY <1>3, IdleJob DEF Shape
  <1>5. RowsExist /\ KeysFree /\ OneCreator /\ SshProvision /\ Provisioned
    BY <1>3 DEF RowsExist, KeysFree, OneCreator, SshProvision, Provisioned, Idle,
                CallFirst, WriteFirst, Creating
  <1> QED
    BY <1>2, <1>4, <1>5 DEF Inv

(* The end of an item: the job goes on with the accounts that are left,    *)
(* which only a task or an action over a selection has.                    *)
LEMMA FinishJob ==
    ASSUME TypeOK, Shape, NEW w \in Workers, NEW a \in job[w].todo, Finish(w, a)
    PROVE  /\ job' \in [Workers -> Job]
           /\ Shape'
           /\ \A v \in Workers : v # w => job'[v] = job[v]
           /\ \/ job'[w] = Idle
              \/ /\ job'[w].op = job[w].op /\ job'[w].op \in CallFirst
                 /\ job'[w].pc = "call"
                 /\ job'[w].todo \subseteq job[w].todo
  <1> DEFINE rest == job[w].todo \ {a}
             next == [job[w] EXCEPT !.pc = "call", !.todo = rest, !.acct = None]
  <1>1. job[w] \in Job /\ JobShape(job[w])
    BY DEF TypeOK, Shape
  <1>2. job[w].op \in AllOps
    BY <1>1 DEF JobShape, Idle
  <1>3. job' = [job EXCEPT ![w] = IF rest = {} THEN Idle ELSE next]
    BY DEF Finish
  <1>4. CASE rest = {}
    <2>1. job' = [job EXCEPT ![w] = Idle]
      BY <1>3, <1>4
    <2> QED
      BY <2>1, IdleJob DEF TypeOK, Shape
  <1>5. CASE rest # {}
    <2>1. job[w].op \in CallFirst
      BY <1>1, <1>2, <1>5 DEF JobShape, AllOps, Single
    <2>2. next \in Job
      BY <1>1 DEF Job, PC
    <2>3. /\ next.op = job[w].op /\ next.pc = "call" /\ next.todo = rest
          /\ next.acct = None
      BY <1>1 DEF Job
    <2>4. JobShape(next)
      BY <1>2, <2>1, <2>3 DEF JobShape, Single, CallFirst, WriteFirst, Creating
    <2>5. job' = [job EXCEPT ![w] = next]
      BY <1>3, <1>5
    <2> HIDE DEF next
    <2> QED
      BY <2>1, <2>2, <2>3, <2>4, <2>5 DEF TypeOK, Shape
  <1> QED
    BY <1>4, <1>5

(* One step further within an item.                                        *)
LEMMA GoToJob ==
    ASSUME TypeOK, Shape, NEW w \in Workers, NEW a \in job[w].todo, NEW ok \in BOOLEAN,
           NEW pc \in {"save", "log", "expiry", "commit"}, GoTo(w, a, pc, ok),
           pc = "save" => job[w].op \in CallFirst,
           pc = "log" => job[w].op \in Logging,
           pc = "expiry" => job[w].op \in Single,
           pc = "commit" => job[w].op \in Creating
    PROVE  /\ job' \in [Workers -> Job]
           /\ Shape'
           /\ \A v \in Workers : v # w => job'[v] = job[v]
           /\ job'[w].op = job[w].op /\ job'[w].todo = job[w].todo
           /\ job'[w].acct = a /\ job'[w].pc = pc
  <1> DEFINE next == [job[w] EXCEPT !.pc = pc, !.acct = a, !.clean = @ /\ ok]
  <1>1. job[w] \in Job /\ JobShape(job[w])
    BY DEF TypeOK, Shape
  <1>2. job[w].op \in AllOps
    BY <1>1 DEF JobShape, Idle
  <1>3. job' = [job EXCEPT ![w] = next]
    BY <1>1 DEF GoTo, TypeOK, Job
  <1>4. a \in Accounts
    BY <1>1 DEF Job
  <1>5. next \in Job
    BY <1>1, <1>4 DEF Job, PC
  <1>6. /\ next.op = job[w].op /\ next.pc = pc /\ next.todo = job[w].todo
        /\ next.acct = a /\ next.inst = job[w].inst
    BY <1>1 DEF Job
  <1>7. JobShape(next)
    BY <1>1, <1>2, <1>6 DEF JobShape
  <1> HIDE DEF next
  <1> QED
    BY <1>3, <1>5, <1>6, <1>7 DEF TypeOK, Shape

-----------------------------------------------------------------------------
(* What a step of a job may do to the jobs, the rows and the credentials.  *)

JobsShrink ==
    \A v \in Workers :
        \/ job'[v] = Idle
        \/ job'[v].op = job[v].op /\ job'[v].todo \subseteq job[v].todo

RowsStay == \A a \in Accounts : row[a].status # "none" => row'[a].status # "none"

NoRowIsNew == \A a \in Accounts : row[a].status = "none" => row'[a].status = "none"

NoneProvisions ==
    \A v \in Workers :
        job'[v].op \in Creating /\ job'[v].pc \in {"expiry", "commit"} =>
            /\ job[v].op \in Creating /\ job[v].pc \in {"expiry", "commit"}
            /\ job'[v].acct = job[v].acct

CredentialsStay ==
    \A a \in Accounts :
        row'[a].status = "none" /\ remote[a].exists => remote'[a].exists

(* Most of the invariant is kept by every step of this kind.               *)
LEMMA Kept ==
    ASSUME Inv, JobsShrink, RowsStay
    PROVE  RowsExist' /\ OneCreator' /\ SshProvision'
  <1>1. \A v \in Workers : job[v].todo \subseteq Accounts
    BY DEF Inv, TypeOK, Job
  <1>2. Idle.op = "none"
    BY DEF Idle
  <1>3. RowsExist'
    <2> SUFFICES ASSUME NEW v \in Workers, job'[v].op \in CallFirst \cup WriteFirst,
                        NEW a \in job'[v].todo
                 PROVE  row'[a].status # "none"
      BY DEF RowsExist
    <2>1. job'[v].op = job[v].op /\ a \in job[v].todo
      BY <1>2 DEF JobsShrink, CallFirst, WriteFirst
    <2> QED
      BY <1>1, <2>1 DEF Inv, RowsExist, RowsStay
  <1>4. OneCreator'
    BY <1>2 DEF Inv, OneCreator, JobsShrink
  <1>5. SshProvision'
    BY <1>2 DEF Inv, SshProvision, JobsShrink
  <1> QED
    BY <1>3, <1>4, <1>5

(* The unique keys stay free as long as no row appears.                    *)
LEMMA KeysKept ==
    ASSUME Inv, JobsShrink, NoRowIsNew
    PROVE  KeysFree'
  <1>1. \A v \in Workers : job[v].todo \subseteq Accounts
    BY DEF Inv, TypeOK, Job
  <1>2. Idle.op = "none"
    BY DEF Idle
  <1> QED
    BY <1>1, <1>2 DEF Inv, KeysFree, JobsShrink, NoRowIsNew

(* Nothing takes a credential away from a creation that is under way.      *)
LEMMA ProvisionedKept ==
    ASSUME Inv, NoneProvisions, RowsStay, CredentialsStay
    PROVE  Provisioned'
  <1> SUFFICES ASSUME NEW v \in Workers, job'[v].op \in Creating,
                      job'[v].pc \in {"expiry", "commit"},
                      row'[job'[v].acct].status = "none"
               PROVE  remote'[job'[v].acct].exists
    BY DEF Provisioned
  <1>1. /\ job[v].op \in Creating /\ job[v].pc \in {"expiry", "commit"}
        /\ job'[v].acct = job[v].acct
    BY DEF NoneProvisions
  <1>2. job[v].acct \in Accounts
    BY <1>1 DEF Inv, TypeOK, Job, Shape, JobShape
  <1> QED
    BY <1>1, <1>2 DEF Inv, Provisioned, RowsStay, CredentialsStay

-----------------------------------------------------------------------------
(* Requests and tasks start.                                               *)

(* A job starts on rows that are there, or with the key of a new one.      *)
LEMMA BeginInv ==
    ASSUME Inv, NEW w \in Workers, NEW o \in AllOps, NEW S \in SUBSET Accounts,
           NEW pc \in {"call", "write"}, NEW i \in Row, Begin(w, o, S, pc, i),
           pc = "call" => o \in CallFirst \cup Creating,
           pc = "write" => o \in WriteFirst,
           o \in Single => \A a, b \in S : a = b,
           o \in WriteFirst => i.status # "none",
           o \in Creating => i.status = "active",
           o \in CallFirst \cup WriteFirst => \A a \in S : row[a].status # "none",
           o = "create" => \A a \in S : row[a].status = "none" /\ ~KeyHeld(a),
           o = "provision" => \A a \in S : Protocol[a] = "ssh"
    PROVE  Inv'
  <1> DEFINE new == [op |-> o, pc |-> pc, todo |-> S, acct |-> None,
                     inst |-> i, clean |-> Overlaps(S) = {}]
             kept(v) == [job[v] EXCEPT !.clean = @ /\ job[v].todo \cap S = {}]
  <1>1. /\ job' = [v \in Workers |-> IF v = w THEN new ELSE kept(v)]
        /\ disturbed' = disturbed \cup (Overlaps(S) \X Kinds)
        /\ UNCHANGED <<now, row, remote, audit>>
    BY DEF Begin
  <1>2. new \in Job
    BY DEF Job, PC
  <1>3. JobShape(new)
    BY DEF JobShape
  <1>4. \A v \in Workers :
            /\ kept(v) \in Job
            /\ kept(v).op = job[v].op /\ kept(v).pc = job[v].pc
            /\ kept(v).todo = job[v].todo /\ kept(v).acct = job[v].acct
            /\ kept(v).inst = job[v].inst
            /\ job[v].pc = "idle" => kept(v) = job[v]
    <2> SUFFICES ASSUME NEW v \in Workers
                 PROVE  /\ kept(v) \in Job
                        /\ kept(v).op = job[v].op /\ kept(v).pc = job[v].pc
                        /\ kept(v).todo = job[v].todo /\ kept(v).acct = job[v].acct
                        /\ kept(v).inst = job[v].inst
                        /\ job[v].pc = "idle" => kept(v) = job[v]
      OBVIOUS
    <2>1. job[v] \in Job
      BY DEF Inv, TypeOK
    <2>2. job[v].pc = "idle" => job[v] = Idle
      BY DEF Inv, Shape, JobShape
    <2>3. kept(v) \in Job
      BY <2>1 DEF Job
    <2>4. job[v].pc = "idle" => kept(v) = job[v]
      <3> SUFFICES ASSUME job[v].pc = "idle" PROVE kept(v) = job[v]
        OBVIOUS
      <3>1. job[v].todo = {} /\ job[v].clean = TRUE
        BY <2>2 DEF Idle
      <3>2. (job[v].clean /\ job[v].todo \cap S = {}) = job[v].clean
        BY <3>1
      <3> QED
        BY <2>1, <3>2 DEF Job
    <2> QED
      BY <2>1, <2>3, <2>4 DEF Job
  <1>5. \A v \in Workers : JobShape(kept(v))
    <2> SUFFICES ASSUME NEW v \in Workers PROVE JobShape(kept(v))
      OBVIOUS
    <2>1. JobShape(job[v])
      BY DEF Inv, Shape
    <2> HIDE DEF kept
    <2> QED
      BY <1>4, <2>1 DEF JobShape
  <1>6. /\ new.op = o /\ new.pc = pc /\ new.todo = S
    OBVIOUS
  <1>7. \A v \in Workers : job'[v] = IF v = w THEN new ELSE kept(v)
    BY <1>1
  <1> HIDE DEF new, kept
  <1>8. TypeOK'
    <2>1. job' \in [Workers -> Job]
      BY <1>1, <1>2, <1>4
    <2>2. disturbed' \subseteq Accounts \X Kinds
      BY <1>1 DEF Inv, TypeOK, Overlaps
    <2> QED
      BY <1>1, <2>1, <2>2 DEF Inv, TypeOK
  <1>9. Shape'
    BY <1>3, <1>5, <1>7 DEF Shape
  <1>10. RowsExist'
    BY <1>1, <1>4, <1>6, <1>7 DEF Inv, RowsExist
  <1>11. KeysFree'
    BY <1>1, <1>4, <1>6, <1>7 DEF Inv, KeysFree
  <1>12. OneCreator'
    <2> SUFFICES ASSUME NEW u \in Workers, NEW v \in Workers,
                        job'[u].op = "create", job'[v].op = "create",
                        NEW a \in job'[u].todo, a \in job'[v].todo
                 PROVE  u = v
      BY DEF OneCreator
    <2>1. CASE u # w /\ v # w
      BY <1>4, <1>7, <2>1 DEF Inv, OneCreator
    <2>2. ASSUME NEW x \in Workers, x # w, job'[x].op = "create", a \in job'[x].todo,
                 a \in job'[w].todo, job'[w].op = "create"
          PROVE  FALSE
      BY <1>4, <1>6, <1>7, <2>2 DEF KeyHeld
    <2> QED
      BY <2>1, <2>2
  <1>13. SshProvision'
    BY <1>4, <1>6, <1>7 DEF Inv, SshProvision
  <1>14. Provisioned'
    BY <1>1, <1>4, <1>6, <1>7 DEF Inv, Provisioned
  <1> QED
    BY <1>8, <1>9, <1>10, <1>11, <1>12, <1>13, <1>14 DEF Inv

(* Every request and every task starts in this way.                        *)
LEMMA StartInv ==
    ASSUME Inv, NEW w \in Workers, Start(w)
    PROVE  Inv'
  <1> USE DEF AllOps, CallFirst, WriteFirst, Creating, Single
  <1>1. NoRow \in Row
    BY DEF NoRow, Row, Status
  <1>2. ASSUME NEW a \in Accounts, StartRequest(w, a)
        PROVE  Inv'
    <2>1. PICK o \in {"suspend", "activate", "delete", "reset"} : Begin(w, o, {a}, "call", NoRow)
      BY <1>2 DEF StartRequest
    <2>2. row[a].status # "none"
      BY <1>2 DEF StartRequest
    <2> QED
      BY <1>1, <2>1, <2>2, BeginInv
  <1>3. ASSUME StartSelection(w)
        PROVE  Inv'
    <2>1. PICK o \in {"suspend", "activate", "delete"} :
            \E S \in SUBSET Eligible(o) : Begin(w, o, S, "call", NoRow)
      BY <1>3 DEF StartSelection
    <2>2. PICK S \in SUBSET Eligible(o) : Begin(w, o, S, "call", NoRow)
      BY <2>1
    <2>3. S \in SUBSET Accounts /\ \A a \in S : row[a].status # "none"
      BY DEF Eligible
    <2> QED
      BY <1>1, <2>2, <2>3, BeginInv
  <1>4. ASSUME NEW a \in Accounts, StartExtend(w, a) \/ StartUpdate(w, a)
        PROVE  Inv'
    <2>1. PICK o \in {"extend", "update"} : Begin(w, o, {a}, "write", row[a])
      BY <1>4 DEF StartExtend, StartUpdate
    <2>2. row[a].status # "none" /\ row[a] \in Row
      BY <1>4 DEF StartExtend, StartUpdate, Inv, TypeOK
    <2> QED
      BY <2>1, <2>2, BeginInv
  <1>5. ASSUME StartExpire(w) \/ StartCleanup(w) \/ StartBandwidth(w)
        PROVE  Inv'
    <2>1. PICK o \in {"expire", "cleanup", "bandwidth"} : \E S \in SUBSET Accounts :
            /\ \A a \in S : row[a].status # "none"
            /\ Begin(w, o, S, "call", NoRow)
      <3>1. CASE StartExpire(w)
        <4> DEFINE S == {a \in Accounts : row[a].status = "active" /\ row[a].expire <= now}
        <4>1. Begin(w, "expire", S, "call", NoRow)
          BY <3>1 DEF StartExpire
        <4>2. S \in SUBSET Accounts /\ \A a \in S : row[a].status # "none"
          OBVIOUS
        <4> HIDE DEF S
        <4> QED
          BY <4>1, <4>2
      <3>2. CASE StartCleanup(w)
        <4> DEFINE S == {a \in Accounts : /\ row[a].status = "expired"
                                          /\ row[a].expire + GraceDays * TicksPerDay <= now}
        <4>1. Begin(w, "cleanup", S, "call", NoRow)
          BY <3>2 DEF StartCleanup
        <4>2. S \in SUBSET Accounts /\ \A a \in S : row[a].status # "none"
          OBVIOUS
        <4> HIDE DEF S
        <4> QED
          BY <4>1, <4>2
      <3>3. CASE StartBandwidth(w)
        <4> DEFINE S == {a \in Accounts : row[a].status = "active"}
        <4>1. Begin(w, "bandwidth", S, "call", NoRow)
          BY <3>3 DEF StartBandwidth
        <4>2. S \in SUBSET Accounts /\ \A a \in S : row[a].status # "none"
          OBVIOUS
        <4> HIDE DEF S
        <4> QED
          BY <4>1, <4>2
      <3> QED
        BY <1>5, <3>1, <3>2, <3>3
    <2>2. PICK S \in SUBSET Accounts :
            /\ \A a \in S : row[a].status # "none"
            /\ Begin(w, o, S, "call", NoRow)
      BY <2>1
    <2> QED
      BY <1>1, <2>2, BeginInv
  <1>6. ASSUME NEW d \in PlanDays
        PROVE  Fresh(d) \in Row /\ Fresh(d).status = "active"
    <2>1. d \in Nat /\ TicksPerDay \in Nat /\ now \in Nat
      BY LifecycleAssumption DEF Inv, TypeOK
    <2>2. d * TicksPerDay \in Nat
      BY <2>1
    <2>3. now + d * TicksPerDay \in Nat
      BY <2>1, <2>2
    <2> QED
      BY <2>3 DEF Fresh, Row, Status
  <1>7. ASSUME NEW a \in Accounts, StartCreate(w, a)
        PROVE  Inv'
    <2>1. PICK d \in PlanDays : Begin(w, "create", {a}, "call", Fresh(d))
      BY <1>7 DEF StartCreate
    <2>2. row[a].status = "none" /\ ~KeyHeld(a)
      BY <1>7 DEF StartCreate
    <2> QED
      BY <1>6, <2>1, <2>2, BeginInv
  <1>8. ASSUME NEW a \in Accounts, StartProvision(w, a)
        PROVE  Inv'
    <2>1. PICK d \in PlanDays : Begin(w, "provision", {a}, "call", Fresh(d))
      BY <1>8 DEF StartProvision
    <2>2. Protocol[a] = "ssh"
      BY <1>8 DEF StartProvision
    <2> QED
      BY <1>6, <2>1, <2>2, BeginInv
  <1> QED
    BY <1>2, <1>3, <1>4, <1>5, <1>7, <1>8 DEF Start

-----------------------------------------------------------------------------
(* The steps of a job.                                                     *)

(* A step that leaves the rows alone, shortens or advances one job, and    *)
(* takes no credential from an account without a row.                      *)
LEMMA QuietStep ==
    ASSUME Inv, TypeOK', Shape', UNCHANGED row, JobsShrink, NoneProvisions, CredentialsStay
    PROVE  Inv'
  <1>1. RowsStay /\ NoRowIsNew
    BY DEF RowsStay, NoRowIsNew
  <1> QED
    BY <1>1, Kept, KeysKept, ProvisionedKept DEF Inv

(* The end of an item shortens one job and provisions nothing.             *)
LEMMA FinishShrinks ==
    ASSUME Inv, NEW w \in Workers, NEW a \in job[w].todo, Finish(w, a)
    PROVE  /\ job' \in [Workers -> Job] /\ Shape' /\ JobsShrink /\ NoneProvisions
           /\ \A v \in Workers : v # w => job'[v] = job[v]
           /\ job'[w] = Idle \/ job'[w].op \in CallFirst
  <1>1. TypeOK /\ Shape
    BY DEF Inv
  <1>2. Idle.op = "none"
    BY DEF Idle
  <1>3. /\ job' \in [Workers -> Job] /\ Shape'
        /\ \A v \in Workers : v # w => job'[v] = job[v]
        /\ \/ job'[w] = Idle
           \/ /\ job'[w].op = job[w].op /\ job'[w].op \in CallFirst
              /\ job'[w].pc = "call"
              /\ job'[w].todo \subseteq job[w].todo
    BY <1>1, FinishJob
  <1> QED
    BY <1>2, <1>3 DEF JobsShrink, NoneProvisions, CallFirst, Creating

(* The effect of a remote call is a credential again.                      *)
LEMMA EffectType ==
    ASSUME TypeOK, NEW o, NEW a \in Accounts
    PROVE  Effect(o, a) \in Credential
  <1>1. remote[a] \in Credential /\ Absent \in Credential
    BY DEF TypeOK, Credential, Absent, Never
  <1>2. \A x, y \in BOOLEAN : [remote[a] EXCEPT !.locked = x, !.reset = y] \in Credential
    BY <1>1 DEF Credential
  <1>3. (~Opens(o)) \in BOOLEAN
    BY DEF Opens
  <1>4. (o = "reset" /\ (remote[a].locked \/ remote[a].reset)) \in BOOLEAN
    OBVIOUS
  <1> QED
    BY <1>1, <1>2, <1>3, <1>4, Zenon DEF Effect

(* An account below its quota is passed over.                              *)
LEMMA UnderLimitInv ==
    ASSUME Inv, NEW w \in Workers, NEW a \in Accounts, UnderLimit(w, a)
    PROVE  Inv'
  <1>1. a \in job[w].todo /\ Finish(w, a)
        /\ UNCHANGED <<now, row, remote, audit, disturbed>>
    BY DEF UnderLimit
  <1>2. job' \in [Workers -> Job] /\ Shape' /\ JobsShrink /\ NoneProvisions
    BY <1>1, FinishShrinks
  <1>3. TypeOK'
    BY <1>1, <1>2 DEF Inv, TypeOK
  <1>4. CredentialsStay
    BY <1>1 DEF CredentialsStay
  <1> QED
    BY <1>1, <1>2, <1>3, <1>4, QuietStep

(* A remote call of a job that works on rows that exist: what it does to   *)
(* the credential of such a row is of no concern to a creation.            *)
LEMMA CallInv ==
    ASSUME Inv, NEW w \in Workers, NEW a \in Accounts, Call(w, a)
    PROVE  Inv'
  <1> DEFINE o == job[w].op
  <1>1. /\ job[w].pc = "call" /\ o \in CallFirst /\ a \in job[w].todo
        /\ UNCHANGED <<now, row, audit>>
    BY DEF Call
  <1>2. PICK out \in Outcomes(o, a) :
        /\ remote' = IF Applied(out) /\ ~Refused(o, a, out)
                       THEN [remote EXCEPT ![a] = Effect(o, a)] ELSE remote
        /\ disturbed' = disturbed
             \cup (IF Refused(o, a, out) THEN {} ELSE Marks(a, out))
        /\ IF (Raises(out) /\ ~ViaBridge(o, a)) \/ Refused(o, a, out)
             THEN IF o = "bandwidth" THEN job' = [job EXCEPT ![w] = Idle]
                                     ELSE Finish(w, a)
             ELSE GoTo(w, a, "save", out = "ok")
    BY DEF Call
  <1>3. row[a].status # "none"
    BY <1>1 DEF Inv, RowsExist
  <1>4. remote' \in [Accounts -> Credential]
    BY <1>2, EffectType DEF Inv, TypeOK
  <1>5. CredentialsStay
    BY <1>1, <1>2, <1>3 DEF CredentialsStay, Inv, TypeOK
  <1>6. disturbed' \subseteq Accounts \X Kinds
    BY <1>2 DEF Marks, Kinds, Inv, TypeOK
  <1>7. job' \in [Workers -> Job] /\ Shape' /\ JobsShrink /\ NoneProvisions
    <2>1. CASE Finish(w, a)
      BY <1>1, <2>1, FinishShrinks
    <2>2. CASE job' = [job EXCEPT ![w] = Idle]
      BY <2>2, IdleJob
         DEF Inv, TypeOK, Shape, JobsShrink, NoneProvisions, Idle, Creating
    <2>3. CASE GoTo(w, a, "save", out = "ok")
      <3>1. TypeOK /\ Shape /\ (out = "ok") \in BOOLEAN
        BY DEF Inv
      <3>2. /\ job' \in [Workers -> Job] /\ Shape'
            /\ \A v \in Workers : v # w => job'[v] = job[v]
            /\ job'[w].op = job[w].op /\ job'[w].todo = job[w].todo
            /\ job'[w].acct = a /\ job'[w].pc = "save"
        BY <1>1, <2>3, <3>1, GoToJob
      <3> QED
        BY <3>2 DEF JobsShrink, NoneProvisions
    <2> QED
      BY <1>2, <2>1, <2>2, <2>3
  <1>8. TypeOK'
    BY <1>1, <1>4, <1>6, <1>7 DEF Inv, TypeOK
  <1> QED
    BY <1>1, <1>5, <1>7, <1>8, QuietStep

(* The status of a row that exists changes to another status.              *)
LEMMA SaveInv ==
    ASSUME Inv, NEW w \in Workers, Save(w)
    PROVE  Inv'
  <1> DEFINE o == job[w].op
             a == job[w].acct
  <1>1. /\ job[w].pc = "save"
        /\ row' = [row EXCEPT ![a].status = NewStatus(o, @)]
        /\ \/ Finish(w, a) /\ disturbed' = disturbed \ Repaired(w, a)
           \/ o \notin {"expire", "bandwidth"} /\ GoTo(w, a, "log", TRUE)
              /\ UNCHANGED disturbed
        /\ UNCHANGED <<now, remote, audit>>
    BY DEF Save
  <1>2. o \in CallFirst /\ a \in job[w].todo /\ a \in Accounts
    BY <1>1 DEF Inv, Shape, JobShape, TypeOK, Job
  <1>3. row[a].status \in Status \ {"none"}
    BY <1>2 DEF Inv, RowsExist, TypeOK, Row
  <1>4. NewStatus(o, row[a].status) \in Status \ {"none"}
    BY <1>3 DEF NewStatus, Status
  <1>5. row' \in [Accounts -> Row]
    BY <1>1, <1>2, <1>4 DEF Inv, TypeOK, Row
  <1>6. RowsStay /\ NoRowIsNew
    BY <1>1, <1>2, <1>3, <1>4 DEF RowsStay, NoRowIsNew, Inv, TypeOK, Row
  <1>7. job' \in [Workers -> Job] /\ Shape' /\ JobsShrink /\ NoneProvisions
    <2>1. CASE Finish(w, a)
      BY <1>2, <2>1, FinishShrinks
    <2>2. CASE o \notin {"expire", "bandwidth"} /\ GoTo(w, a, "log", TRUE)
      <3>1. TypeOK /\ Shape /\ o \in Logging
        BY <1>2, <2>2 DEF Inv, CallFirst, Logging
      <3>2. /\ job' \in [Workers -> Job] /\ Shape'
            /\ \A v \in Workers : v # w => job'[v] = job[v]
            /\ job'[w].op = job[w].op /\ job'[w].todo = job[w].todo
            /\ job'[w].acct = a /\ job'[w].pc = "log"
        BY <1>2, <2>2, <3>1, GoToJob
      <3> QED
        BY <3>2 DEF JobsShrink, NoneProvisions
    <2> QED
      BY <1>1, <2>1, <2>2
  <1>8. CredentialsStay
    BY <1>1 DEF CredentialsStay
  <1>9. disturbed' \subseteq Accounts \X Kinds
    BY <1>1 DEF Inv, TypeOK
  <1>10. TypeOK'
    BY <1>1, <1>5, <1>7, <1>9 DEF Inv, TypeOK
  <1> QED
    BY <1>6, <1>7, <1>8, <1>10, Kept, KeysKept, ProvisionedKept DEF Inv

(* An entry is added to the audit trail, and the item ends.                *)
LEMMA LogInv ==
    ASSUME Inv, NEW w \in Workers, Log(w)
    PROVE  Inv'
  <1> DEFINE a == job[w].acct
  <1>1. /\ job[w].pc = "log"
        /\ audit' = [audit EXCEPT ![a] = AuditAction(job[w].op)]
        /\ Finish(w, a)
        /\ disturbed' = disturbed \ Repaired(w, a)
        /\ UNCHANGED <<now, row, remote>>
    BY DEF Log
  <1>2. job[w].op \in Logging /\ a \in job[w].todo
    BY <1>1 DEF Inv, Shape, JobShape
  <1>3. AuditAction(job[w].op) \in AuditActions
    BY <1>2 DEF AuditAction, AuditActions, Logging
  <1>4. job' \in [Workers -> Job] /\ Shape' /\ JobsShrink /\ NoneProvisions
    BY <1>1, <1>2, FinishShrinks
  <1>5. TypeOK'
    BY <1>1, <1>3, <1>4 DEF Inv, TypeOK
  <1>6. CredentialsStay
    BY <1>1 DEF CredentialsStay
  <1> QED
    BY <1>1, <1>4, <1>5, <1>6, QuietStep

(* The new date of an extension or an edit is a point in time.             *)
LEMMA DateType ==
    ASSUME TypeOK, NEW e \in Nat, NEW d \in PlanDays
    PROVE  Later(e, now) + d * TicksPerDay \in Nat /\ now + d * TicksPerDay \in Nat
  <1>1. d \in Nat /\ TicksPerDay \in Nat /\ now \in Nat
    BY LifecycleAssumption DEF TypeOK
  <1>2. d * TicksPerDay \in Nat
    BY <1>1
  <1>3. Later(e, now) \in Nat
    BY <1>1 DEF Later
  <1> QED
    BY <1>1, <1>2, <1>3

(* The row of an account that exists is written from the instance, and the *)
(* node is called next.                                                    *)
LEMMA WriteInv ==
    ASSUME Inv, NEW w \in Workers, NEW a \in job[w].todo, NEW i \in Row,
           job[w].pc = "write", job[w].op \in WriteFirst, i.status # "none",
           row' = [row EXCEPT ![a] = i],
           \/ Finish(w, a)
           \/ job' = [job EXCEPT ![w].pc = "expiry", ![w].acct = a, ![w].inst = i],
           UNCHANGED <<now, remote, audit, disturbed>>
    PROVE  Inv'
  <1>1. a \in Accounts /\ row[a].status # "none"
    BY DEF Inv, TypeOK, Job, RowsExist
  <1>2. RowsStay /\ NoRowIsNew /\ row' \in [Accounts -> Row]
    BY <1>1 DEF RowsStay, NoRowIsNew, Inv, TypeOK
  <1>3. job' \in [Workers -> Job] /\ Shape' /\ JobsShrink /\ NoneProvisions
    <2>1. CASE Finish(w, a)
      BY <2>1, FinishShrinks
    <2>2. CASE job' = [job EXCEPT ![w].pc = "expiry", ![w].acct = a, ![w].inst = i]
      <3> DEFINE next == [job[w] EXCEPT !.pc = "expiry", !.acct = a, !.inst = i]
      <3>1. job[w] \in Job /\ JobShape(job[w])
        BY DEF Inv, TypeOK, Shape
      <3>2. next \in Job
        BY <1>1, <3>1 DEF Job, PC
      <3>3. /\ next.op = job[w].op /\ next.pc = "expiry" /\ next.todo = job[w].todo
            /\ next.acct = a /\ next.inst = i
        BY <3>1 DEF Job
      <3>4. job' = [job EXCEPT ![w] = next]
        BY <2>2, <3>1 DEF Inv, TypeOK, Job
      <3> HIDE DEF next
      <3>5. JobShape(next)
        BY <3>1, <3>3 DEF JobShape, Single, AllOps, WriteFirst, Creating
      <3> QED
        BY <3>2, <3>3, <3>4, <3>5
           DEF Inv, TypeOK, Shape, JobsShrink, NoneProvisions, WriteFirst, Creating
    <2> QED
      BY <2>1, <2>2
  <1>4. TypeOK'
    BY <1>2, <1>3 DEF Inv, TypeOK
  <1>5. CredentialsStay
    BY DEF CredentialsStay
  <1> QED
    BY <1>2, <1>3, <1>4, <1>5, Kept, KeysKept, ProvisionedKept DEF Inv

(* SSHAccount.extend writes an instance that is active.                    *)
LEMMA WriteExtendInv ==
    ASSUME Inv, NEW w \in Workers, NEW a \in Accounts, WriteExtend(w, a)
    PROVE  Inv'
  <1>1. job[w].pc = "write" /\ job[w].op = "extend" /\ a \in job[w].todo
        /\ UNCHANGED <<now, remote, audit, disturbed>>
    BY DEF WriteExtend
  <1> DEFINE e(d) == Later(job[w].inst.expire, now) + d * TicksPerDay
             i(d) == [status |-> "active", expire |-> e(d)]
  <1>2. PICK d \in PlanDays :
            /\ row' = [row EXCEPT ![a] = i(d)]
            /\ job' = [job EXCEPT ![w].pc = "expiry", ![w].acct = a, ![w].inst = i(d)]
    BY DEF WriteExtend
  <1>3. job[w].inst.expire \in Nat
    BY DEF Inv, TypeOK, Job, Row
  <1>4. e(d) \in Nat
    BY <1>3, DateType DEF Inv
  <1>5. i(d) \in Row /\ i(d).status # "none"
    BY <1>4 DEF Row, Status
  <1>6. job[w].op \in WriteFirst
    BY <1>1 DEF WriteFirst
  <1> HIDE DEF i
  <1> QED
    BY <1>1, <1>2, <1>5, <1>6, WriteInv

(* AccountUpdateView.patch writes back an instance of a row that existed.  *)
LEMMA WriteUpdateInv ==
    ASSUME Inv, NEW w \in Workers, NEW a \in Accounts, WriteUpdate(w, a)
    PROVE  Inv'
  <1>1. job[w].pc = "write" /\ job[w].op = "update" /\ a \in job[w].todo
        /\ UNCHANGED <<now, remote, audit, disturbed>>
    BY DEF WriteUpdate
  <1>2. job[w].op \in WriteFirst
    BY <1>1 DEF WriteFirst
  <1>3. job[w].inst \in Row /\ job[w].inst.status # "none"
    BY <1>2 DEF Inv, TypeOK, Job, Shape, JobShape
  <1> DEFINE i(e) == [job[w].inst EXCEPT !.expire = e]
  <1>4. CASE row' = [row EXCEPT ![a] = job[w].inst] /\ Finish(w, a)
    BY <1>1, <1>2, <1>3, <1>4, WriteInv
  <1>5. CASE \E e \in DateInputs \cup {now + d * TicksPerDay : d \in PlanDays} :
              /\ row' = [row EXCEPT ![a] = i(e)]
              /\ job' = [job EXCEPT ![w].pc = "expiry", ![w].acct = a, ![w].inst = i(e)]
    <2>1. PICK e \in DateInputs \cup {now + d * TicksPerDay : d \in PlanDays} :
              /\ row' = [row EXCEPT ![a] = i(e)]
              /\ job' = [job EXCEPT ![w].pc = "expiry", ![w].acct = a, ![w].inst = i(e)]
      BY <1>5
    <2>2. e \in Nat
      <3>1. \A d \in PlanDays : now + d * TicksPerDay \in Nat
        BY DateType DEF Inv
      <3> QED
        BY <3>1, LifecycleAssumption
    <2>3. i(e) \in Row /\ i(e).status # "none"
      BY <1>3, <2>2 DEF Row
    <2> HIDE DEF i
    <2> QED
      BY <1>1, <1>2, <2>1, <2>3, WriteInv
  <1> QED
    BY <1>4, <1>5 DEF WriteUpdate

(* chage leaves the existence of the user as it is.                        *)
LEMMA DatedType ==
    ASSUME TypeOK, NEW w \in Workers, NEW a \in Accounts
    PROVE  Dated(w, a) \in Credential /\ Dated(w, a).exists = remote[a].exists
  <1>1. remote[a] \in Credential /\ job[w].inst.expire \in Nat
    BY DEF TypeOK, Job, Row
  <1>2. DayOf(job[w].inst.expire) \in Int
    BY <1>1, LifecycleAssumption DEF DayOf
  <1> QED
    BY <1>1, <1>2 DEF Dated, Credential

(* chage, in an extension, in an edit and in a creation.                   *)
LEMMA SetExpiryInv ==
    ASSUME Inv, NEW w \in Workers, SetExpiry(w)
    PROVE  Inv'
  <1> DEFINE o == job[w].op
             a == job[w].acct
             pc == IF o = "extend" THEN "log" ELSE "commit"
  <1>1. job[w].pc = "expiry" /\ UNCHANGED <<now, row, audit>>
    BY DEF SetExpiry
  <1>2. PICK out \in Outcomes(o, a) :
            /\ remote' = IF Applied(out) THEN [remote EXCEPT ![a] = Dated(w, a)] ELSE remote
            /\ disturbed' = IF out = "ok" /\ o = "update"
                              THEN disturbed \ Repaired(w, a)
                              ELSE disturbed \cup Marks(a, out)
            /\ \/ Finish(w, a)
               \/ o # "update" /\ GoTo(w, a, pc, out = "ok")
    BY DEF SetExpiry
  <1>3. o \in Single /\ a \in job[w].todo /\ a \in Accounts
    BY <1>1 DEF Inv, Shape, JobShape, TypeOK, Job
  <1>4. /\ remote' \in [Accounts -> Credential]
        /\ \A b \in Accounts : remote'[b].exists = remote[b].exists
    BY <1>2, <1>3, DatedType DEF Inv, TypeOK
  <1>5. disturbed' \subseteq Accounts \X Kinds
    BY <1>2, <1>3 DEF Marks, Inv, TypeOK
  <1>6. job' \in [Workers -> Job] /\ Shape' /\ JobsShrink /\ NoneProvisions
    <2>1. CASE Finish(w, a)
      BY <1>3, <2>1, FinishShrinks
    <2>2. CASE o # "update" /\ GoTo(w, a, pc, out = "ok")
      <3>1. /\ TypeOK /\ Shape /\ (out = "ok") \in BOOLEAN
            /\ o = "extend" => o \in Logging
            /\ o # "extend" => o \in Creating
        BY <1>3, <2>2 DEF Inv, Single, WriteFirst, Creating, Logging
      <3>2. /\ job' \in [Workers -> Job] /\ Shape'
            /\ \A v \in Workers : v # w => job'[v] = job[v]
            /\ job'[w].op = job[w].op /\ job'[w].todo = job[w].todo
            /\ job'[w].acct = a /\ job'[w].pc = pc
        <4>1. CASE o = "extend"
          <5>1. pc = "log" /\ GoTo(w, a, "log", out = "ok")
            BY <2>2, <4>1
          <5> HIDE DEF pc
          <5> QED
            BY <1>3, <3>1, <4>1, <5>1, GoToJob
        <4>2. CASE o # "extend"
          <5>1. pc = "commit" /\ GoTo(w, a, "commit", out = "ok")
            BY <2>2, <4>2
          <5> HIDE DEF pc
          <5> QED
            BY <1>3, <3>1, <4>2, <5>1, GoToJob
        <4> QED
          BY <4>1, <4>2
      <3> QED
        BY <1>1, <3>2 DEF JobsShrink, NoneProvisions
    <2> QED
      BY <1>2, <2>1, <2>2
  <1>7. TypeOK'
    BY <1>1, <1>4, <1>5, <1>6 DEF Inv, TypeOK
  <1>8. CredentialsStay
    BY <1>4 DEF CredentialsStay
  <1> QED
    BY <1>1, <1>6, <1>7, <1>8, QuietStep

-----------------------------------------------------------------------------
(* Creations.                                                              *)

(* What useradd and chpasswd leave behind is a credential, and no outcome  *)
(* takes a user away.                                                      *)
LEMMA CreatedType ==
    ASSUME NEW r \in Credential, NEW out, NEW c \in Created(r, out)
    PROVE  c \in Credential /\ (r.exists => c.exists) /\ (out = "ok" => c.exists)
  <1>1. WithPassword(r) \in Credential /\ WithPassword(r).exists
    BY DEF WithPassword, Credential
  <1>2. WithoutPassword(r) \in Credential /\ WithoutPassword(r).exists
    BY DEF WithoutPassword, Credential
  <1>3. c \in {r, WithPassword(r), WithoutPassword(r)}
    BY DEF Created
  <1>4. out = "ok" => c = WithPassword(r)
    BY DEF Created
  <1> QED
    BY <1>1, <1>2, <1>3, <1>4

(* A creation that has just got past the node joins the ones that have.    *)
LEMMA NewlyProvisioned ==
    ASSUME Inv, NEW w \in Workers, NEW a \in Accounts, UNCHANGED row, CredentialsStay,
           \A v \in Workers : v # w => job'[v] = job[v],
           job'[w].acct = a, remote'[a].exists
    PROVE  Provisioned'
  <1> SUFFICES ASSUME NEW v \in Workers, job'[v].op \in Creating,
                      job'[v].pc \in {"expiry", "commit"},
                      row'[job'[v].acct].status = "none"
               PROVE  remote'[job'[v].acct].exists
    BY DEF Provisioned
  <1>1. CASE v = w
    BY <1>1
  <1>2. CASE v # w
    <2>1. job'[v] = job[v]
      BY <1>2
    <2>2. job[v].acct \in Accounts
      BY <2>1 DEF Inv, TypeOK, Job, Shape, JobShape
    <2> QED
      BY <2>1, <2>2 DEF Inv, Provisioned, CredentialsStay
  <1> QED
    BY <1>1, <1>2

(* A row appears under a key that no other creation holds.                 *)
LEMMA CommitInv ==
    ASSUME Inv, NEW w \in Workers, NEW a, a = job[w].acct,
           job[w].pc = "commit", job[w].op \in Creating,
           row' = [row EXCEPT ![a] = job[w].inst],
           audit' \in [Accounts -> AuditActions],
           Finish(w, a),
           disturbed' = disturbed \ Repaired(w, a),
           UNCHANGED <<now, remote>>,
           \A v \in Workers : v # w /\ job[v].op = "create" => a \notin job[v].todo
    PROVE  Inv'
  <1>1. a \in job[w].todo /\ a \in Accounts
    BY DEF Inv, Shape, JobShape, TypeOK, Job
  <1>2. job[w].inst \in Row /\ job[w].inst.status = "active"
    BY DEF Inv, TypeOK, Job, Shape, JobShape
  <1>3. /\ job' \in [Workers -> Job] /\ Shape' /\ JobsShrink /\ NoneProvisions
        /\ \A v \in Workers : v # w => job'[v] = job[v]
        /\ job'[w] = Idle \/ job'[w].op \in CallFirst
    BY <1>1, FinishShrinks
  <1>4. RowsStay /\ row' \in [Accounts -> Row]
    BY <1>1, <1>2 DEF RowsStay, Inv, TypeOK
  <1>5. CredentialsStay
    BY DEF CredentialsStay
  <1>6. TypeOK'
    BY <1>3, <1>4 DEF Inv, TypeOK
  <1>7. KeysFree'
    <2> SUFFICES ASSUME NEW v \in Workers, job'[v].op = "create", NEW b \in job'[v].todo
                 PROVE  row'[b].status = "none"
      BY DEF KeysFree
    <2>1. v # w
      BY <1>3 DEF Idle, CallFirst
    <2>2. job'[v] = job[v]
      BY <1>3, <2>1
    <2>3. b # a /\ b \in Accounts
      BY <2>1, <2>2 DEF Inv, TypeOK, Job
    <2> QED
      BY <2>2, <2>3 DEF Inv, KeysFree, TypeOK
  <1> QED
    BY <1>3, <1>4, <1>5, <1>6, <1>7, Kept, ProvisionedKept DEF Inv

(* create_user, or the check that finds the user there already.            *)
LEMMA CreateUserInv ==
    ASSUME Inv, NEW w \in Workers, NEW a \in Accounts, CreateUser(w, a)
    PROVE  Inv'
  <1> DEFINE skip == job[w].op = "provision" /\ remote[a].exists
  <1>1. /\ job[w].pc = "call" /\ job[w].op \in Creating /\ a \in job[w].todo
        /\ UNCHANGED <<now, row, audit>>
    BY DEF CreateUser
  <1>2. PICK out \in Outcomes(job[w].op, a) :
            /\ \E r \in (IF skip THEN {remote[a]} ELSE Created(remote[a], out)) :
                  remote' = [remote EXCEPT ![a] = r]
            /\ disturbed' = disturbed \cup Marks(a, out)
            /\ IF out = "ok" THEN GoTo(w, a, "expiry", TRUE) ELSE Finish(w, a)
    BY DEF CreateUser
  <1>3. PICK r \in (IF skip THEN {remote[a]} ELSE Created(remote[a], out)) :
            remote' = [remote EXCEPT ![a] = r]
    BY <1>2
  <1>4. r \in Credential /\ (remote[a].exists => r.exists) /\ (out = "ok" => r.exists)
    <2>1. remote[a] \in Credential
      BY DEF Inv, TypeOK
    <2>2. CASE skip
      BY <1>3, <2>1, <2>2
    <2>3. CASE ~skip
      <3>1. r \in Created(remote[a], out)
        BY <1>3, <2>3
      <3> QED
        BY <2>1, <3>1, CreatedType
    <2> QED
      BY <2>2, <2>3
  <1> HIDE DEF skip
  <1>5. /\ remote' \in [Accounts -> Credential]
        /\ CredentialsStay
        /\ out = "ok" => remote'[a].exists
    BY <1>3, <1>4 DEF Inv, TypeOK, CredentialsStay
  <1>6. disturbed' \subseteq Accounts \X Kinds
    BY <1>2 DEF Marks, Inv, TypeOK
  <1>7. CASE Finish(w, a)
    <2>1. job' \in [Workers -> Job] /\ Shape' /\ JobsShrink /\ NoneProvisions
      BY <1>1, <1>7, FinishShrinks
    <2>2. TypeOK'
      BY <1>1, <1>5, <1>6, <2>1 DEF Inv, TypeOK
    <2> QED
      BY <1>1, <1>5, <2>1, <2>2, QuietStep
  <1>8. CASE out = "ok" /\ GoTo(w, a, "expiry", TRUE)
    <2>1. TypeOK /\ Shape /\ job[w].op \in Single
      BY <1>1 DEF Inv, Single
    <2>2. /\ job' \in [Workers -> Job] /\ Shape'
          /\ \A v \in Workers : v # w => job'[v] = job[v]
          /\ job'[w].op = job[w].op /\ job'[w].todo = job[w].todo
          /\ job'[w].acct = a /\ job'[w].pc = "expiry"
      BY <1>1, <1>8, <2>1, GoToJob
    <2>3. TypeOK'
      BY <1>1, <1>5, <1>6, <2>2 DEF Inv, TypeOK
    <2>4. JobsShrink /\ RowsStay /\ NoRowIsNew
      BY <1>1, <2>2 DEF JobsShrink, RowsStay, NoRowIsNew
    <2>5. Provisioned'
      BY <1>1, <1>5, <1>8, <2>2, NewlyProvisioned
    <2> QED
      BY <2>2, <2>3, <2>4, <2>5, Kept, KeysKept DEF Inv
  <1> QED
    BY <1>2, <1>7, <1>8

(* _provision_shadowlink_account: the token is registered, or the creation *)
(* ends.                                                                   *)
LEMMA RegisterTokenInv ==
    ASSUME Inv, NEW w \in Workers, NEW a \in Accounts, RegisterToken(w, a)
    PROVE  Inv'
  <1>1. /\ job[w].pc = "call" /\ job[w].op = "create" /\ a \in job[w].todo
        /\ UNCHANGED <<now, row, audit>>
    BY DEF RegisterToken
  <1>2. PICK out \in Outcomes("create", a) :
        /\ disturbed' = disturbed \cup Marks(a, out)
        /\ IF out = "ok"
             THEN /\ remote' = [remote EXCEPT ![a] = WithPassword(Absent)]
                  /\ GoTo(w, a, "commit", TRUE)
             ELSE /\ Finish(w, a)
                  /\ UNCHANGED remote
    BY DEF RegisterToken
  <1>3. disturbed' \subseteq Accounts \X Kinds
    BY <1>2 DEF Marks, Inv, TypeOK
  <1>4. CASE Finish(w, a) /\ UNCHANGED remote
    <2>1. job' \in [Workers -> Job] /\ Shape' /\ JobsShrink /\ NoneProvisions
      BY <1>1, <1>4, FinishShrinks
    <2>2. TypeOK' /\ CredentialsStay
      BY <1>1, <1>3, <1>4, <2>1 DEF Inv, TypeOK, CredentialsStay
    <2> QED
      BY <1>1, <2>1, <2>2, QuietStep
  <1>5. CASE remote' = [remote EXCEPT ![a] = WithPassword(Absent)]
             /\ GoTo(w, a, "commit", TRUE)
    <2>1. TypeOK /\ Shape /\ job[w].op \in Creating
      BY <1>1 DEF Inv, Creating
    <2>2. /\ job' \in [Workers -> Job] /\ Shape'
          /\ \A v \in Workers : v # w => job'[v] = job[v]
          /\ job'[w].op = job[w].op /\ job'[w].todo = job[w].todo
          /\ job'[w].acct = a /\ job'[w].pc = "commit"
      BY <1>1, <1>5, <2>1, GoToJob
    <2>3. WithPassword(Absent) \in Credential /\ WithPassword(Absent).exists
      BY DEF WithPassword, Absent, Credential, Never
    <2>4. remote' \in [Accounts -> Credential] /\ CredentialsStay /\ remote'[a].exists
      BY <1>5, <2>3 DEF Inv, TypeOK, CredentialsStay
    <2>5. TypeOK'
      BY <1>1, <1>3, <2>2, <2>4 DEF Inv, TypeOK
    <2>6. JobsShrink /\ RowsStay /\ NoRowIsNew
      BY <1>1, <2>2 DEF JobsShrink, RowsStay, NoRowIsNew
    <2>7. Provisioned'
      BY <1>1, <2>2, <2>4, NewlyProvisioned
    <2> QED
      BY <2>2, <2>5, <2>6, <2>7, Kept, KeysKept DEF Inv
  <1> QED
    BY <1>2, <1>4, <1>5

(* The row of a new account is committed: no other creation has its key.   *)
LEMMA CommitCreateInv ==
    ASSUME Inv, NEW w \in Workers, CommitCreate(w)
    PROVE  Inv'
  <1> DEFINE a == job[w].acct
  <1>1. /\ job[w].pc = "commit" /\ job[w].op = "create"
        /\ row' = [row EXCEPT ![a] = job[w].inst]
        /\ audit' = [audit EXCEPT ![a] = "create"]
        /\ Finish(w, a)
        /\ disturbed' = disturbed \ Repaired(w, a)
        /\ UNCHANGED <<now, remote>>
    BY DEF CommitCreate
  <1>2. \A v \in Workers : v # w /\ job[v].op = "create" => a \notin job[v].todo
    <2>1. a \in job[w].todo
      BY <1>1 DEF Inv, Shape, JobShape
    <2> QED
      BY <1>1, <2>1 DEF Inv, OneCreator
  <1>3. job[w].op \in Creating
    BY <1>1 DEF Creating
  <1>4. audit' \in [Accounts -> AuditActions]
    BY <1>1 DEF Inv, TypeOK, AuditActions
  <1> QED
    BY <1>1, <1>2, <1>3, <1>4, CommitInv

(* The row of a default user is inserted, or the key is found taken.       *)
LEMMA CommitProvisionInv ==
    ASSUME Inv, NEW w \in Workers, CommitProvision(w)
    PROVE  Inv'
  <1> DEFINE a == job[w].acct
  <1>1. /\ job[w].pc = "commit" /\ job[w].op = "provision" /\ ~KeyHeld(a)
        /\ Finish(w, a)
        /\ UNCHANGED <<now, remote, audit>>
    BY DEF CommitProvision
  <1>2. a \in job[w].todo /\ a \in Accounts /\ job[w].op \in Creating
    BY <1>1 DEF Inv, Shape, JobShape, TypeOK, Job, Creating
  <1>3. CASE row' = [row EXCEPT ![a] = job[w].inst] /\ disturbed' = disturbed \ Repaired(w, a)
    <2>1. \A v \in Workers : v # w /\ job[v].op = "create" => a \notin job[v].todo
      BY <1>1 DEF KeyHeld
    <2>2. audit' \in [Accounts -> AuditActions]
      BY <1>1 DEF Inv, TypeOK
    <2> QED
      BY <1>1, <1>2, <1>3, <2>1, <2>2, CommitInv
  <1>4. CASE UNCHANGED row /\ disturbed' = disturbed \cup ({a} \X Kinds)
    <2>1. job' \in [Workers -> Job] /\ Shape' /\ JobsShrink /\ NoneProvisions
      BY <1>1, <1>2, FinishShrinks
    <2>2. TypeOK' /\ CredentialsStay
      BY <1>1, <1>2, <1>4, <2>1 DEF Inv, TypeOK, CredentialsStay
    <2> QED
      BY <1>4, <2>1, <2>2, QuietStep
  <1> QED
    BY <1>1, <1>3, <1>4 DEF CommitProvision

-----------------------------------------------------------------------------
(* The whole panel.                                                        *)

(* A process dies: the only credential that goes with it is the token of a *)
(* creation that nobody else is making.                                    *)
LEMMA CrashInv ==
    ASSUME Inv, NEW w \in Workers, Crash(w)
    PROVE  Inv'
  <1> DEFINE a == job[w].acct
             orphan == job[w].pc = "commit" /\ Protocol[a] = "shadowlink"
  <1>1. /\ job' = [job EXCEPT ![w] = Idle]
        /\ disturbed' = disturbed \cup (({a} \ {None}) \X Kinds)
        /\ remote' = IF orphan THEN [remote EXCEPT ![a] = Absent] ELSE remote
        /\ UNCHANGED <<now, row, audit>>
    BY DEF Crash
  <1>2. /\ job' \in [Workers -> Job] /\ Shape' /\ JobsShrink /\ NoneProvisions
        /\ \A v \in Workers : v # w => job'[v] = job[v]
        /\ job'[w] = Idle
    BY <1>1, IdleJob DEF Inv, TypeOK, Shape, JobsShrink, NoneProvisions, Idle, Creating
  <1>3. disturbed' \subseteq Accounts \X Kinds
    <2>1. a \in Accounts \cup {None}
      BY DEF Inv, TypeOK, Job
    <2> QED
      BY <1>1, <2>1 DEF Inv, TypeOK
  <1>4. Absent \in Credential
    BY DEF Absent, Credential, Never
  <1>5. orphan => a \in Accounts /\ a \in job[w].todo /\ job[w].op = "create"
    <2> SUFFICES ASSUME orphan
                 PROVE  a \in Accounts /\ a \in job[w].todo /\ job[w].op = "create"
      OBVIOUS
    <2>1. a \in job[w].todo /\ job[w].op \in Creating
      BY DEF Inv, Shape, JobShape
    <2>2. job[w].op # "provision"
      BY <2>1 DEF Inv, SshProvision
    <2> QED
      BY <2>1, <2>2 DEF Inv, TypeOK, Job, Creating
  <1> HIDE DEF orphan
  <1>6. TypeOK'
    BY <1>1, <1>2, <1>3, <1>4, <1>5 DEF Inv, TypeOK
  <1>7. RowsStay /\ NoRowIsNew
    BY <1>1 DEF RowsStay, NoRowIsNew
  <1>8. Provisioned'
    <2>1. CASE ~orphan
      <3>1. CredentialsStay
        BY <1>1, <2>1 DEF CredentialsStay
      <3> QED
        BY <1>2, <1>7, <3>1, ProvisionedKept
    <2>2. CASE orphan
      <3> SUFFICES ASSUME NEW v \in Workers, job'[v].op \in Creating,
                          job'[v].pc \in {"expiry", "commit"},
                          row'[job'[v].acct].status = "none"
                   PROVE  remote'[job'[v].acct].exists
        BY DEF Provisioned
      <3>1. v # w /\ job'[v] = job[v]
        BY <1>2 DEF Idle, Creating
      <3>2. job[v].acct \in job[v].todo /\ job[v].acct \in Accounts
        BY <3>1 DEF Inv, TypeOK, Job, Shape, JobShape
      <3>3. job[v].op = "create" => job[v].acct # a
        BY <1>5, <2>2, <3>1, <3>2 DEF Inv, OneCreator
      <3>4. job[v].op = "provision" => job[v].acct # a
        BY <2>2, <3>2 DEF Inv, SshProvision, orphan
      <3>5. job[v].acct # a
        BY <3>1, <3>3, <3>4 DEF Creating
      <3>6. remote[job[v].acct].exists
        BY <1>1, <3>1 DEF Inv, Provisioned
      <3> QED
        BY <1>1, <2>2, <3>1, <3>2, <3>5, <3>6 DEF Inv, TypeOK
    <2> QED
      BY <2>1, <2>2
  <1> QED
    BY <1>2, <1>6, <1>7, <1>8, Kept, KeysKept DEF Inv

(* Time passes, or nothing happens.                                        *)
LEMMA TickInv ==
    ASSUME Inv, Tick \/ UNCHANGED vars
    PROVE  Inv'
  <1>1. /\ now' \in Nat
        /\ UNCHANGED <<row, remote, audit, job, disturbed>>
    BY DEF Tick, vars, Inv, TypeOK
  <1> QED
    BY <1>1 DEF Inv, TypeOK, Shape, RowsExist, KeysFree, OneCreator, SshProvision,
                Provisioned

(* Every step keeps the invariant.                                         *)
LEMMA InvNext == Inv /\ [Next]_vars => Inv'
  <1> SUFFICES ASSUME Inv, [Next]_vars PROVE Inv'
    OBVIOUS
  <1>1. CASE Tick \/ UNCHANGED vars
    BY <1>1, TickInv
  <1>2. ASSUME NEW w \in Workers, Start(w) \/ Crash(w)
        PROVE  Inv'
    BY <1>2, StartInv, CrashInv
  <1>3. ASSUME NEW w \in Workers, Step(w)
        PROVE  Inv'
    BY <1>3, UnderLimitInv, CallInv, WriteExtendInv, WriteUpdateInv, CreateUserInv,
       RegisterTokenInv, SaveInv, LogInv, SetExpiryInv, CommitCreateInv,
       CommitProvisionInv DEF Step
  <1> QED
    BY <1>1, <1>2, <1>3 DEF Next

(* The invariant holds throughout every run of the panel.                  *)
THEOREM LifecycleInvariant == Spec => []Inv
  BY InvInit, InvNext, PTL DEF Spec

(* Type correctness: among the rest, every audit entry that a task or a    *)
(* request writes is one of AuditLog.Action.                               *)
THEOREM LifecycleTypeCorrect == Spec => []TypeOK
  <1>1. Inv => TypeOK
    BY DEF Inv
  <1> QED
    BY <1>1, LifecycleInvariant, PTL

-----------------------------------------------------------------------------
(* What a step may do to a row.                                            *)

(* A status change, a sale or an edit, or the commit of a creation.        *)
Changes(w, a) ==
    \/ row[a].status # "none" /\ row'[a].expire = row[a].expire
    \/ row[a].status # "none" /\ job[w].op \in WriteFirst /\ job[w].todo = {a}
    \/ /\ row[a].status = "none" /\ job[w].op \in Creating
       /\ job[w].pc = "commit" /\ job[w].acct = a

(* The new value of one row, and all the others as they were.              *)
LEMMA OneRow ==
    ASSUME TypeOK, NEW a \in Accounts, NEW b \in Accounts, NEW i,
           row' = [row EXCEPT ![b] = i], row'[a] # row[a]
    PROVE  a = b /\ row'[a] = i
  BY DEF TypeOK

(* Every write of every request and task is one of the three.              *)
LEMMA RowChanges ==
    ASSUME Inv, [Next]_vars, NEW a \in Accounts, row'[a] # row[a]
    PROVE  \E w \in Workers : Changes(w, a)
  <1>1. PICK w \in Workers :
            \/ Save(w) \/ CommitCreate(w) \/ CommitProvision(w)
            \/ \E b \in Accounts : WriteExtend(w, b) \/ WriteUpdate(w, b)
    <2>1. PICK w \in Workers : Start(w) \/ Step(w) \/ Crash(w)
      BY DEF Next, Tick, vars
    <2>2. ~Start(w)
      <3>1. ASSUME NEW o, NEW S, NEW pc, NEW i, Begin(w, o, S, pc, i)
            PROVE  FALSE
        BY <3>1 DEF Begin
      <3> QED
        BY <3>1 DEF Start, StartRequest, StartSelection, StartExtend, StartUpdate,
                    StartExpire, StartCleanup, StartBandwidth, StartCreate, StartProvision
    <2>3. ~Crash(w) /\ ~Log(w) /\ ~SetExpiry(w)
      BY DEF Crash, Log, SetExpiry
    <2>4. \A b \in Accounts : /\ ~UnderLimit(w, b) /\ ~Call(w, b)
                             /\ ~CreateUser(w, b) /\ ~RegisterToken(w, b)
      BY DEF UnderLimit, Call, CreateUser, RegisterToken
    <2> QED
      BY <2>1, <2>2, <2>3, <2>4 DEF Step
  <1>2. job[w] \in Job /\ JobShape(job[w]) /\ row \in [Accounts -> Row]
    BY DEF Inv, TypeOK, Shape
  <1>3. CASE Save(w)
    <2>1. /\ job[w].op \in CallFirst /\ job[w].acct \in job[w].todo
          /\ job[w].acct \in Accounts
      BY <1>2, <1>3 DEF Save, JobShape, Job
    <2>2. row' = [row EXCEPT ![job[w].acct].status = NewStatus(job[w].op, @)]
      BY <1>3 DEF Save
    <2>3. a = job[w].acct /\ row'[a].expire = row[a].expire
      BY <1>2, <2>1, <2>2 DEF Row
    <2> QED
      BY <2>1, <2>3 DEF Inv, RowsExist, Changes
  <1>4. ASSUME NEW b \in Accounts, WriteExtend(w, b) \/ WriteUpdate(w, b)
        PROVE  Changes(w, a)
    <2>1. job[w].op \in WriteFirst /\ b \in job[w].todo
      BY <1>4 DEF WriteExtend, WriteUpdate, WriteFirst
    <2>2. \E i : row' = [row EXCEPT ![b] = i]
      BY <1>4 DEF WriteExtend, WriteUpdate
    <2>3. a = b
      BY <2>2, OneRow DEF Inv
    <2>4. job[w].todo = {a}
      BY <1>2, <2>1, <2>3 DEF JobShape, Single
    <2> QED
      BY <2>1, <2>3, <2>4 DEF Inv, RowsExist, Changes
  <1>5. CASE CommitCreate(w)
    <2>1. /\ job[w].op = "create" /\ job[w].pc = "commit"
          /\ row' = [row EXCEPT ![job[w].acct] = job[w].inst]
      BY <1>5 DEF CommitCreate
    <2>2. job[w].acct \in job[w].todo /\ job[w].acct \in Accounts
      BY <1>2, <2>1 DEF JobShape, Job
    <2>3. a = job[w].acct
      BY <2>1, <2>2, OneRow DEF Inv
    <2> QED
      BY <2>1, <2>2, <2>3 DEF Inv, KeysFree, Changes, Creating
  <1>6. CASE CommitProvision(w)
    <2>1. /\ job[w].op = "provision" /\ job[w].pc = "commit"
          /\ row[job[w].acct].status = "none"
          /\ row' = [row EXCEPT ![job[w].acct] = job[w].inst]
      BY <1>6 DEF CommitProvision
    <2>2. job[w].acct \in Accounts
      BY <1>2, <2>1 DEF JobShape, Job
    <2>3. a = job[w].acct
      BY <2>1, <2>2, OneRow DEF Inv
    <2> QED
      BY <2>1, <2>3 DEF Changes, Creating
  <1> QED
    BY <1>1, <1>3, <1>4, <1>5, <1>6

(* CommitProvisioned: a row is only committed for an account that exists   *)
(* on the node, whatever fails, dies or overlaps.                          *)
THEOREM RowsAreProvisioned == Spec => CommitProvisioned
  <1> DEFINE P == \A a \in Accounts :
                     row[a].status = "none" /\ row'[a].status # "none" => remote[a].exists
  <1>1. Inv /\ [Next]_vars => P
    <2> SUFFICES ASSUME Inv, [Next]_vars, NEW a \in Accounts,
                        row[a].status = "none", row'[a].status # "none"
                 PROVE  remote[a].exists
      OBVIOUS
    <2>1. PICK w \in Workers : Changes(w, a)
      BY RowChanges
    <2> QED
      BY <2>1 DEF Changes, Inv, Provisioned
  <1> QED
    BY <1>1, LifecycleInvariant, PTL DEF Spec, CommitProvisioned

(* OnlySalesMoveDates: only an extension or an edit moves the date of an   *)
(* account that exists, whatever fails, dies or overlaps.                  *)
THEOREM DatesMoveBySales == Spec => OnlySalesMoveDates
  <1> DEFINE P == \A a \in Accounts :
                     /\ row[a].status # "none"
                     /\ row'[a].expire # row[a].expire
                     => \E w \in Workers : job[w].op \in WriteFirst /\ job[w].todo = {a}
  <1>1. Inv /\ [Next]_vars => P
    <2> SUFFICES ASSUME Inv, [Next]_vars, NEW a \in Accounts,
                        row[a].status # "none", row'[a].expire # row[a].expire
                 PROVE  \E w \in Workers : job[w].op \in WriteFirst /\ job[w].todo = {a}
      OBVIOUS
    <2>1. PICK w \in Workers : Changes(w, a)
      BY RowChanges
    <2> QED
      BY <2>1 DEF Changes
  <1> QED
    BY <1>1, LifecycleInvariant, PTL DEF Spec, OnlySalesMoveDates
-----------------------------------------------------------------------------
(* The database and the node in step.                                      *)
(*                                                                         *)
(* A job writes the row and the node one after the other, and any other    *)
(* job may come between the two.  The argument has three parts: two jobs   *)
(* on one account have marked it, and neither of them is clean, so neither *)
(* will lift the mark (Overlapped); an account that no job has begun to    *)
(* change is right or marked (Untouched); and an account that one job is   *)
(* changing is marked, or that job finds the node and the row in a state   *)
(* from which the rest of the item puts it right (Underway).               *)

(* What BlockedIsLockedOut and NoOrphanCredential, ExpiryInStep and        *)
(* AuditMatchesStatus say of one account.                                  *)
AccessRight(a) ==
    /\ row[a].status \in Blocked(a) /\ Access(a) => remote[a].reset
    /\ row[a].status = "deleted" => ~remote[a].exists

DateRight(a) ==
    row[a].status # "none" /\ Protocol[a] = "ssh" /\ remote[a].exists
        => remote[a].expiry = DayOf(row[a].expire)

(* The last conjunct is what reset_password relies on: there is nothing to *)
(* reset for a deleted account.                                            *)
LogRight(a) ==
    /\ row[a].status = "deleted" <=> audit[a] = "delete"
    /\ row[a].status \in {"active", "expired"} => audit[a] # "suspend"
    /\ row[a].status = "deleted" => ~remote[a].exists

Right(a, k) ==
    /\ k = "access" => AccessRight(a)
    /\ k = "date" => DateRight(a)
    /\ k = "log" => LogRight(a)

(* The half of an item that a job has done: what the node and the row have *)
(* to say for the rest of it to put things right.                          *)
AccessDue(w, a) ==
    LET o == job[w].op IN
    /\ job[w].pc = "save" =>
         /\ o \in {"delete", "cleanup"} => ~remote[a].exists
         /\ o \in {"suspend", "bandwidth"} => ~Access(a)
         /\ o = "expire" /\ Protocol[a] = "ssh" => ~Access(a)
         /\ o = "reset" => AccessRight(a)
    /\ job[w].pc = "log" => AccessRight(a)
    /\ job[w].pc = "expiry" =>
         /\ o = "extend" => row[a].status = "active"
         /\ o = "update" => AccessRight(a)

DateDue(w, a) ==
    LET o == job[w].op IN
    /\ job[w].pc = "save" =>
         IF o \in {"delete", "cleanup"} THEN ~remote[a].exists ELSE DateRight(a)
    /\ job[w].pc = "log" => DateRight(a)
    /\ job[w].pc = "expiry" /\ o \in WriteFirst => row[a] = job[w].inst
    /\ job[w].pc = "commit" /\ Protocol[a] = "ssh" /\ remote[a].exists
         => remote[a].expiry = DayOf(job[w].inst.expire)

LogDue(w, a) ==
    LET o == job[w].op IN
    /\ job[w].pc = "save" =>
         /\ o \in {"delete", "cleanup"} => ~remote[a].exists
         /\ o \in {"expire", "bandwidth"} => LogRight(a)
         /\ o = "reset" => row[a].status # "deleted"
    /\ job[w].pc = "log" =>
         /\ o \in {"delete", "cleanup"} => row[a].status = "deleted" /\ ~remote[a].exists
         /\ o = "suspend" => row[a].status = "suspended"
         /\ o \in {"activate", "extend"} => row[a].status = "active"
         /\ o = "reset" => row[a].status # "deleted"
    /\ job[w].pc = "expiry" =>
         /\ o = "extend" => row[a].status = "active"
         /\ o = "update" => LogRight(a)

Due(w, a, k) ==
    /\ k = "access" => AccessDue(w, a)
    /\ k = "date" => DateDue(w, a)
    /\ k = "log" => LogDue(w, a)

(* Nothing is wrong in this respect, or the job will mend it at its end.   *)
Sure(w, a, k) ==
    <<a, k>> \notin disturbed \/ (job[w].clean /\ k \in Repairs(job[w].op))

(* Two jobs on one account: it is disturbed and neither of them mends it.  *)
Alone(w, a) == \A v \in Workers : v # w => a \notin job[v].todo

Overlapped ==
    \A w \in Workers : \A a \in job[w].todo :
        Alone(w, a) \/ (~job[w].clean /\ \A k \in Kinds : <<a, k>> \in disturbed)

(* An account that no job has begun to change is right, or disturbed.      *)
Untouched ==
    \A a \in Accounts, k \in Kinds :
        <<a, k>> \notin disturbed /\ (\A w \in Workers : job[w].acct # a) => Right(a, k)

Underway ==
    \A w \in Workers, a \in Accounts, k \in Kinds :
        job[w].acct = a /\ Sure(w, a, k) => Due(w, a, k)

(* The instance that a job has loaded, and the rows that it has selected,  *)
(* stay as they were as long as no other job comes across them.            *)
Loaded ==
    \A w \in Workers : job[w].pc = "write" =>
        \A a \in job[w].todo :
            job[w].clean \/ (\E k \in Kinds : <<a, k>> \notin disturbed)
                => row[a] = job[w].inst

Selected ==
    \A w \in Workers : job[w].op \in {"expire", "bandwidth"} =>
        \A a \in job[w].todo : <<a, "log">> \notin disturbed => row[a].status = "active"

Unaudited == \A a \in Accounts : row[a].status = "none" => audit[a] = "none"

SyncInv ==
    /\ Overlapped
    /\ Untouched
    /\ Underway
    /\ Loaded
    /\ Selected
    /\ Unaudited

-----------------------------------------------------------------------------
(* The pieces of the proof.                                                *)

(* What is right of an account depends on that account alone.              *)
LEMMA RightStays ==
    ASSUME NEW a \in Accounts, NEW k,
           row'[a] = row[a], remote'[a] = remote[a], audit'[a] = audit[a],
           Right(a, k)
    PROVE  Right(a, k)'
  BY DEF Right, AccessRight, DateRight, LogRight, Access

LEMMA DueStays ==
    ASSUME NEW w \in Workers, NEW a \in Accounts, NEW k, job'[w] = job[w],
           row'[a] = row[a], remote'[a] = remote[a], audit'[a] = audit[a],
           Due(w, a, k)
    PROVE  Due(w, a, k)'
  BY DEF Due, AccessDue, DateDue, LogDue, AccessRight, DateRight, LogRight, Access

(* A job that has begun with an account still holds it.                    *)
LEMMA Holds ==
    ASSUME Inv, NEW w \in Workers, NEW a \in Accounts, job[w].acct = a
    PROVE  a \in job[w].todo /\ job[w].pc \in {"save", "log", "expiry", "commit"}
  <1>1. job[w] \in Job /\ JobShape(job[w])
    BY DEF Inv, TypeOK, Shape
  <1> QED
    BY <1>1, LifecycleAssumption DEF JobShape, Job, PC

(* An account of one job, which the job has not touched, is right.         *)
LEMMA AloneRight ==
    ASSUME Inv, SyncInv, NEW w \in Workers, NEW a \in Accounts, Alone(w, a),
           job[w].acct # a, NEW k \in Kinds, <<a, k>> \notin disturbed
    PROVE  Right(a, k)
  <1>1. \A v \in Workers : job[v].acct # a
    BY Holds DEF Alone
  <1> QED
    BY <1>1 DEF SyncInv, Untouched

(* One step of a job on one of its accounts: the other jobs and the other  *)
(* accounts are not concerned, and only a clean job that is done with the  *)
(* account mends it.                                                       *)
ItemStep(w, a) ==
    /\ \A v \in Workers : v # w => job'[v] = job[v]
    /\ \A b \in Accounts : b # a =>
         /\ row'[b] = row[b] /\ remote'[b] = remote[b] /\ audit'[b] = audit[b]
         /\ \A k \in Kinds : <<b, k>> \in disturbed' <=> <<b, k>> \in disturbed
    /\ \A k \in Kinds :
         <<a, k>> \in disturbed /\ <<a, k>> \notin disturbed' =>
           job[w].clean /\ k \in Repairs(job[w].op) /\ a \notin job'[w].todo
    /\ \/ job'[w] = Idle
       \/ /\ job'[w].op = job[w].op /\ job'[w].todo \subseteq job[w].todo
          /\ job'[w].clean => job[w].clean
          /\ job'[w].acct \in {None, a} /\ job'[w].pc # "write"
    /\ job'[w].op \in {"expire", "bandwidth"} /\ a \in job'[w].todo => row'[a] = row[a]

(* What is left to show of such a step: the account is right, or the rest  *)
(* of the item will put it right, if no other job is at work on it.        *)
LEMMA ItemKeeps ==
    ASSUME Inv, Inv', SyncInv, NEW w \in Workers, NEW a \in job[w].todo,
           ItemStep(w, a), job[w].acct \in {None, a},
           row'[a].status = "none" => audit'[a] = "none",
           Alone(w, a) => \A k \in Kinds :
              /\ job'[w].acct = a /\ Sure(w, a, k)' => Due(w, a, k)'
              /\ job'[w].acct # a /\ <<a, k>> \notin disturbed' => Right(a, k)'
    PROVE  SyncInv'
  <1>1. a \in Accounts /\ None \notin Accounts
    BY LifecycleAssumption DEF Inv, TypeOK, Job
  <1>2. Idle.op = "none" /\ Idle.todo = {} /\ Idle.acct = None /\ Idle.pc = "idle"
    BY DEF Idle
  <1>3. \A v \in Workers : job'[v].todo \subseteq job[v].todo
    BY <1>2 DEF ItemStep
  <1>4. \A v \in Workers : job[v].todo \subseteq Accounts
    BY DEF Inv, TypeOK, Job
  <1>5. ~Alone(w, a) => ~job[w].clean /\ \A k \in Kinds : <<a, k>> \in disturbed'
    BY DEF SyncInv, Overlapped, ItemStep
  <1>6. ASSUME NEW v \in Workers, v # w, a \in job[v].todo
        PROVE  ~Alone(w, a) /\ ~job[v].clean
    BY <1>6 DEF SyncInv, Overlapped, Alone
  <1>7. Overlapped'
    <2> SUFFICES ASSUME NEW v \in Workers, NEW b \in job'[v].todo, ~Alone(v, b)'
                 PROVE  ~job'[v].clean /\ \A k \in Kinds : <<b, k>> \in disturbed'
      BY DEF Overlapped
    <2>1. b \in job[v].todo /\ ~Alone(v, b)
      BY <1>3 DEF Alone
    <2>2. ~job[v].clean /\ \A k \in Kinds : <<b, k>> \in disturbed
      BY <2>1 DEF SyncInv, Overlapped
    <2>3. ~job'[v].clean
      BY <1>2, <2>2 DEF ItemStep
    <2>4. b = a => ~Alone(w, a)
      BY <1>6, <2>1 DEF Alone
    <2> QED
      BY <1>4, <1>5, <2>1, <2>2, <2>3, <2>4 DEF ItemStep
  <1>8. Untouched'
    <2> SUFFICES ASSUME NEW b \in Accounts, NEW k \in Kinds, <<b, k>> \notin disturbed',
                        \A v \in Workers : job'[v].acct # b
                 PROVE  Right(b, k)'
      BY DEF Untouched
    <2>1. CASE b = a
      BY <1>5, <2>1
    <2>2. CASE b # a
      <3>1. \A v \in Workers : job[v].acct # b
        BY <1>1, <2>2 DEF ItemStep
      <3>2. Right(b, k)
        BY <2>2, <3>1 DEF SyncInv, Untouched, ItemStep
      <3> QED
        BY <2>2, <3>2, RightStays DEF ItemStep
    <2> QED
      BY <2>1, <2>2
  <1>9. Underway'
    <2> SUFFICES ASSUME NEW v \in Workers, NEW b \in Accounts, NEW k \in Kinds,
                        job'[v].acct = b, Sure(v, b, k)'
                 PROVE  Due(v, b, k)'
      BY DEF Underway
    <2>1. CASE v = w
      <3>1. b = a /\ job'[w] # Idle
        BY <1>1, <1>2, <2>1 DEF ItemStep
      <3>2. Alone(w, a)
        BY <1>2, <1>5, <2>1, <3>1 DEF ItemStep, Sure
      <3> QED
        BY <2>1, <3>1, <3>2
    <2>2. CASE v # w
      <3>1. job'[v] = job[v]
        BY <2>2 DEF ItemStep
      <3>2. b # a
        <4> SUFFICES ASSUME b = a PROVE FALSE
          OBVIOUS
        <4>1. a \in job[v].todo
          BY <3>1, Holds
        <4>2. ~job'[v].clean /\ <<a, k>> \in disturbed'
          BY <1>5, <1>6, <2>2, <3>1, <4>1
        <4> QED
          BY <4>2 DEF Sure
      <3>3. Sure(v, b, k)
        BY <3>1, <3>2 DEF Sure, ItemStep
      <3>4. Due(v, b, k)
        BY <3>1, <3>3 DEF SyncInv, Underway
      <3> QED
        BY <3>1, <3>2, <3>4, DueStays DEF ItemStep
    <2> QED
      BY <2>1, <2>2
  <1>10. Loaded'
    <2> SUFFICES ASSUME NEW v \in Workers, job'[v].pc = "write", NEW b \in job'[v].todo,
                        job'[v].clean \/ (\E k \in Kinds : <<b, k>> \notin disturbed')
                 PROVE  row'[b] = job'[v].inst
      BY DEF Loaded
    <2>1. v # w /\ job'[v] = job[v]
      BY <1>2 DEF ItemStep
    <2>2. a \in job[v].todo => ~job'[v].clean /\ \A k \in Kinds : <<a, k>> \in disturbed'
      BY <1>5, <1>6, <2>1
    <2>3. b # a
      BY <2>1, <2>2
    <2>4. b \in Accounts /\ job[v].pc = "write" /\ b \in job[v].todo
      BY <1>4, <2>1
    <2>5. job[v].clean \/ \E k \in Kinds : <<b, k>> \notin disturbed
      BY <2>1, <2>3, <2>4 DEF ItemStep
    <2>6. row[b] = job[v].inst
      BY <2>4, <2>5 DEF SyncInv, Loaded
    <2> QED
      BY <2>1, <2>3, <2>4, <2>6 DEF ItemStep
  <1>11. Selected'
    <2> SUFFICES ASSUME NEW v \in Workers, job'[v].op \in {"expire", "bandwidth"},
                        NEW b \in job'[v].todo, <<b, "log">> \notin disturbed'
                 PROVE  row'[b].status = "active"
      BY DEF Selected
    <2>1. job[v].op = job'[v].op /\ b \in job[v].todo
      BY <1>2, <1>3 DEF ItemStep
    <2>2. "log" \in Kinds
      BY DEF Kinds
    <2>3. b = a => v = w
      BY <1>5, <1>6, <2>1, <2>2
    <2>4. <<b, "log">> \notin disturbed /\ row'[b] = row[b]
      BY <1>4, <2>1, <2>2, <2>3 DEF ItemStep
    <2> QED
      BY <2>1, <2>4 DEF SyncInv, Selected
  <1>12. Unaudited'
    BY DEF SyncInv, Unaudited, ItemStep
  <1> QED
    BY <1>7, <1>8, <1>9, <1>10, <1>11, <1>12 DEF SyncInv

(* A job without an account in its hands ends.                             *)
LEMMA DropKeeps ==
    ASSUME Inv, SyncInv, NEW w \in Workers, job[w].acct = None,
           job' = [job EXCEPT ![w] = Idle],
           UNCHANGED <<row, remote, audit, disturbed>>
    PROVE  SyncInv'
  <1>1. /\ job'[w] = Idle
        /\ \A v \in Workers : v # w => job'[v] = job[v]
    BY DEF Inv, TypeOK
  <1>2. Idle.op = "none" /\ Idle.todo = {} /\ Idle.acct = None /\ Idle.pc = "idle"
    BY DEF Idle
  <1>3. None \notin Accounts
    BY LifecycleAssumption
  <1>4. Overlapped'
    BY <1>1, <1>2 DEF SyncInv, Overlapped, Alone
  <1>5. Untouched'
    <2> SUFFICES ASSUME NEW b \in Accounts, NEW k \in Kinds, <<b, k>> \notin disturbed',
                        \A v \in Workers : job'[v].acct # b
                 PROVE  Right(b, k)'
      BY DEF Untouched
    <2>1. \A v \in Workers : job[v].acct # b
      BY <1>1, <1>3
    <2> QED
      BY <2>1, RightStays DEF SyncInv, Untouched
  <1>6. Underway'
    <2> SUFFICES ASSUME NEW v \in Workers, NEW b \in Accounts, NEW k \in Kinds,
                        job'[v].acct = b, Sure(v, b, k)'
                 PROVE  Due(v, b, k)'
      BY DEF Underway
    <2>1. v # w
      BY <1>1, <1>2, <1>3
    <2>2. Due(v, b, k)
      BY <1>1, <2>1 DEF SyncInv, Underway, Sure
    <2> QED
      BY <1>1, <2>1, <2>2, DueStays
  <1>7. Loaded' /\ Selected' /\ Unaudited'
    BY <1>1, <1>2 DEF SyncInv, Loaded, Selected, Unaudited
  <1> QED
    BY <1>4, <1>5, <1>6, <1>7 DEF SyncInv

(* The end of an item, and one step further within it.                     *)
LEMMA FinishItem ==
    ASSUME Inv, NEW w \in Workers, NEW a \in job[w].todo, Finish(w, a)
    PROVE  /\ \A v \in Workers : v # w => job'[v] = job[v]
           /\ job'[w].acct = None /\ a \notin job'[w].todo
           /\ \/ job'[w] = Idle
              \/ /\ job'[w].op = job[w].op /\ job'[w].todo \subseteq job[w].todo
                 /\ job'[w].clean = job[w].clean /\ job'[w].pc = "call"
  <1>1. job \in [Workers -> Job] /\ job[w] \in Job
    BY DEF Inv, TypeOK
  <1>2. Idle.acct = None /\ Idle.todo = {}
    BY DEF Idle
  <1> QED
    BY <1>1, <1>2 DEF Finish, Job

LEMMA GoToItem ==
    ASSUME Inv, NEW w \in Workers, NEW a \in job[w].todo, NEW pc \in PC, NEW ok \in BOOLEAN,
           GoTo(w, a, pc, ok)
    PROVE  /\ \A v \in Workers : v # w => job'[v] = job[v]
           /\ job'[w].op = job[w].op /\ job'[w].todo = job[w].todo
           /\ job'[w].inst = job[w].inst /\ job'[w].acct = a /\ job'[w].pc = pc
           /\ job'[w].clean = (job[w].clean /\ ok)
  <1>1. job \in [Workers -> Job] /\ job[w] \in Job
    BY DEF Inv, TypeOK
  <1> QED
    BY <1>1 DEF GoTo, Job

(* The accounts and points of a job.                                       *)
LEMMA JobFacts ==
    ASSUME Inv, NEW w \in Workers
    PROVE  /\ job[w] \in Job /\ JobShape(job[w]) /\ job[w].todo \subseteq Accounts
           /\ \A a \in job[w].todo : a \in Accounts /\ a # None
  BY LifecycleAssumption DEF Inv, TypeOK, Shape, Job

-----------------------------------------------------------------------------
(* The steps, one by one.                                                  *)

(* The panel starts with nothing to put right.                             *)
LEMMA SyncInit == Init => SyncInv
  <1> SUFFICES ASSUME Init PROVE SyncInv
    OBVIOUS
  <1>1. \A w \in Workers : job[w] = Idle
    BY DEF Init
  <1>2. /\ Idle.op = "none" /\ Idle.todo = {} /\ Idle.acct = None /\ Idle.pc = "idle"
        /\ NoRow.status = "none" /\ Absent.exists = FALSE
    BY DEF Idle, NoRow, Absent
  <1>3. None \notin Accounts
    BY LifecycleAssumption
  <1>4. Untouched
    <2> SUFFICES ASSUME NEW a \in Accounts, NEW k \in Kinds PROVE Right(a, k)
      BY DEF Untouched
    <2>1. row[a] = NoRow /\ remote[a] = Absent /\ audit[a] = "none"
      BY DEF Init
    <2> QED
      BY <1>2, <2>1 DEF Right, AccessRight, DateRight, LogRight, Access
  <1>5. Overlapped /\ Underway /\ Loaded /\ Selected
    BY <1>1, <1>2, <1>3 DEF Overlapped, Underway, Loaded, Selected
  <1>6. Unaudited
    BY DEF Init, Unaudited
  <1> QED
    BY <1>4, <1>5, <1>6 DEF SyncInv

(* A job that starts marks the accounts that another job still holds, and  *)
(* neither of the two is clean from then on.                               *)
LEMMA BeginSync ==
    ASSUME Inv, Inv', SyncInv, NEW w \in Workers, NEW o, NEW S \in SUBSET Accounts,
           NEW pc \in {"call", "write"}, NEW i, Begin(w, o, S, pc, i),
           pc = "write" => \A a \in S : row[a] = i,
           o \in {"expire", "bandwidth"} => \A a \in S : row[a].status = "active"
    PROVE  SyncInv'
  <1>1. /\ \A a \in Accounts : row'[a] = row[a] /\ remote'[a] = remote[a]
                               /\ audit'[a] = audit[a]
        /\ disturbed' = disturbed \cup (Overlaps(S) \X Kinds)
        /\ \A v \in Workers : job'[v] =
             IF v = w
             THEN [op |-> o, pc |-> pc, todo |-> S, acct |-> None,
                   inst |-> i, clean |-> Overlaps(S) = {}]
             ELSE [job[v] EXCEPT !.clean = @ /\ job[v].todo \cap S = {}]
    BY DEF Begin
  <1>2. /\ job'[w].op = o /\ job'[w].pc = pc /\ job'[w].todo = S /\ job'[w].acct = None
        /\ job'[w].inst = i /\ job'[w].clean = (Overlaps(S) = {})
    <2>1. job'[w] = [op |-> o, pc |-> pc, todo |-> S, acct |-> None,
                     inst |-> i, clean |-> Overlaps(S) = {}]
      BY <1>1
    <2> QED
      BY <2>1
  <1>3. ASSUME NEW v \in Workers, v # w
        PROVE  /\ job'[v].op = job[v].op /\ job'[v].pc = job[v].pc
               /\ job'[v].todo = job[v].todo /\ job'[v].acct = job[v].acct
               /\ job'[v].inst = job[v].inst
               /\ job'[v].clean = (job[v].clean /\ job[v].todo \cap S = {})
    <2>1. job[v] \in Job
      BY DEF Inv, TypeOK
    <2> QED
      BY <1>1, <1>3, <2>1 DEF Job
  <1>4. job[w].todo = {} /\ job[w].acct = None
    BY JobFacts DEF Begin, JobShape, Idle
  <1>5. \A v \in Workers : job[v].todo \subseteq Accounts
    BY JobFacts
  <1>6. None \notin Accounts
    BY LifecycleAssumption
  <1>7. \A a \in S : InUse(a) => \A k \in Kinds : <<a, k>> \in disturbed'
    BY <1>1 DEF Overlaps
  <1>8. Overlapped'
    <2> SUFFICES ASSUME NEW v \in Workers, NEW a \in job'[v].todo, ~Alone(v, a)'
                 PROVE  ~job'[v].clean /\ \A k \in Kinds : <<a, k>> \in disturbed'
      BY DEF Overlapped
    <2>1. PICK u \in Workers : u # v /\ a \in job'[u].todo
      BY DEF Alone
    <2>2. CASE v = w
      <3>1. a \in S /\ a \in job[u].todo
        BY <1>2, <1>3, <2>1, <2>2
      <3>2. a \in Overlaps(S) /\ InUse(a)
        BY <3>1 DEF Overlaps, InUse
      <3> QED
        BY <1>2, <1>7, <2>2, <3>1, <3>2
    <2>3. CASE v # w /\ u = w
      <3>1. a \in S /\ a \in job[v].todo
        BY <1>2, <1>3, <2>1, <2>3
      <3>2. InUse(a) /\ job[v].todo \cap S # {}
        BY <3>1 DEF InUse
      <3> QED
        BY <1>3, <1>7, <2>3, <3>1, <3>2
    <2>4. CASE v # w /\ u # w
      <3>1. a \in job[v].todo /\ ~Alone(v, a)
        BY <1>3, <2>1, <2>4 DEF Alone
      <3> QED
        BY <1>1, <1>3, <2>4, <3>1 DEF SyncInv, Overlapped
    <2> QED
      BY <2>2, <2>3, <2>4
  <1>9. Untouched'
    <2> SUFFICES ASSUME NEW a \in Accounts, NEW k \in Kinds, <<a, k>> \notin disturbed',
                        \A v \in Workers : job'[v].acct # a
                 PROVE  Right(a, k)'
      BY DEF Untouched
    <2>1. \A v \in Workers : job[v].acct # a
      BY <1>3, <1>4, <1>6
    <2>2. Right(a, k)
      BY <1>1, <2>1 DEF SyncInv, Untouched
    <2> QED
      BY <1>1, <2>2, RightStays
  <1>10. Underway'
    <2> SUFFICES ASSUME NEW v \in Workers, NEW a \in Accounts, NEW k \in Kinds,
                        job'[v].acct = a, Sure(v, a, k)'
                 PROVE  Due(v, a, k)'
      BY DEF Underway
    <2>1. v # w
      BY <1>2, <1>6
    <2>2. Sure(v, a, k) /\ job[v].acct = a
      BY <1>1, <1>3, <2>1 DEF Sure
    <2>3. Due(v, a, k)
      BY <2>2 DEF SyncInv, Underway
    <2>4. /\ job'[v].op = job[v].op /\ job'[v].pc = job[v].pc
          /\ job'[v].inst = job[v].inst
      BY <1>3, <2>1
    <2> QED
      BY <1>1, <2>3, <2>4 DEF Due, AccessDue, DateDue, LogDue, AccessRight, DateRight,
                              LogRight, Access
  <1>11. Loaded'
    <2> SUFFICES ASSUME NEW v \in Workers, job'[v].pc = "write", NEW a \in job'[v].todo,
                        job'[v].clean \/ (\E k \in Kinds : <<a, k>> \notin disturbed')
                 PROVE  row'[a] = job'[v].inst
      BY DEF Loaded
    <2>1. CASE v = w
      BY <1>1, <1>2, <2>1
    <2>2. CASE v # w
      <3>1. /\ job[v].pc = "write" /\ a \in job[v].todo /\ job'[v].inst = job[v].inst
            /\ job[v].clean \/ (\E k \in Kinds : <<a, k>> \notin disturbed)
        BY <1>1, <1>3, <2>2
      <3> QED
        BY <1>1, <1>5, <3>1 DEF SyncInv, Loaded
    <2> QED
      BY <2>1, <2>2
  <1>12. Selected'
    BY <1>1, <1>2, <1>3, <1>5 DEF SyncInv, Selected
  <1>13. Unaudited'
    BY <1>1 DEF SyncInv, Unaudited
  <1> QED
    BY <1>8, <1>9, <1>10, <1>11, <1>12, <1>13 DEF SyncInv

LEMMA StartSync ==
    ASSUME Inv, Inv', SyncInv, NEW w \in Workers, Start(w)
    PROVE  SyncInv'
  <1>1. ASSUME NEW a \in Accounts, StartRequest(w, a)
        PROVE  SyncInv'
    BY <1>1, BeginSync DEF StartRequest
  <1>2. ASSUME StartSelection(w)
        PROVE  SyncInv'
    <2>1. PICK o \in {"suspend", "activate", "delete"} :
            \E S \in SUBSET Eligible(o) : Begin(w, o, S, "call", NoRow)
      BY <1>2 DEF StartSelection
    <2>2. PICK S \in SUBSET Eligible(o) : Begin(w, o, S, "call", NoRow)
      BY <2>1
    <2>3. S \in SUBSET Accounts
      BY DEF Eligible
    <2> QED
      BY <2>2, <2>3, BeginSync
  <1>3. ASSUME NEW a \in Accounts, StartExtend(w, a) \/ StartUpdate(w, a)
        PROVE  SyncInv'
    <2>1. PICK o \in {"extend", "update"} : Begin(w, o, {a}, "write", row[a])
      BY <1>3 DEF StartExtend, StartUpdate
    <2>2. {a} \in SUBSET Accounts /\ \A b \in {a} : row[b] = row[a]
      OBVIOUS
    <2> QED
      BY <2>1, <2>2, BeginSync
  <1>4. CASE StartExpire(w)
    <2> DEFINE S == {a \in Accounts : row[a].status = "active" /\ row[a].expire <= now}
    <2>1. Begin(w, "expire", S, "call", NoRow)
      BY <1>4 DEF StartExpire
    <2>2. S \in SUBSET Accounts /\ \A a \in S : row[a].status = "active"
      OBVIOUS
    <2> HIDE DEF S
    <2> QED
      BY <2>1, <2>2, BeginSync
  <1>5. CASE StartCleanup(w)
    <2> DEFINE S == {a \in Accounts : /\ row[a].status = "expired"
                                      /\ row[a].expire + GraceDays * TicksPerDay <= now}
    <2>1. Begin(w, "cleanup", S, "call", NoRow)
      BY <1>5 DEF StartCleanup
    <2>2. S \in SUBSET Accounts
      OBVIOUS
    <2> HIDE DEF S
    <2> QED
      BY <2>1, <2>2, BeginSync
  <1>6. CASE StartBandwidth(w)
    <2> DEFINE S == {a \in Accounts : row[a].status = "active"}
    <2>1. Begin(w, "bandwidth", S, "call", NoRow)
      BY <1>6 DEF StartBandwidth
    <2>2. S \in SUBSET Accounts /\ \A a \in S : row[a].status = "active"
      OBVIOUS
    <2> HIDE DEF S
    <2> QED
      BY <2>1, <2>2, BeginSync
  <1>7. ASSUME NEW a \in Accounts, StartCreate(w, a) \/ StartProvision(w, a)
        PROVE  SyncInv'
    <2>1. PICK o \in {"create", "provision"}, d \in PlanDays :
            Begin(w, o, {a}, "call", Fresh(d))
      BY <1>7 DEF StartCreate, StartProvision
    <2> QED
      BY <2>1, BeginSync
  <1> QED
    BY <1>1, <1>2, <1>3, <1>4, <1>5, <1>6, <1>7 DEF Start

(* A step that changes nothing of the account, and drops it.               *)
LEMMA UnderLimitSync ==
    ASSUME Inv, Inv', SyncInv, NEW w \in Workers, NEW a \in Accounts, UnderLimit(w, a)
    PROVE  SyncInv'
  <1>1. a \in job[w].todo /\ Finish(w, a) /\ job[w].pc = "call"
        /\ UNCHANGED <<now, row, remote, audit, disturbed>>
    BY DEF UnderLimit
  <1>2. job[w].acct = None /\ a # None
    BY <1>1, JobFacts DEF JobShape
  <1>3. ItemStep(w, a) /\ job'[w].acct # a
    BY <1>1, <1>2, FinishItem DEF ItemStep
  <1>4. \A k \in Kinds : Alone(w, a) /\ <<a, k>> \notin disturbed' => Right(a, k)'
    BY <1>1, <1>2, AloneRight, RightStays
  <1> QED
    BY <1>1, <1>2, <1>3, <1>4, ItemKeeps DEF SyncInv, Unaudited

(* A call that is refused or fails leaves the account right or marks it;   *)
(* one that succeeds leaves the node as the status to be written needs it. *)
LEMMA CallSync ==
    ASSUME Inv, Inv', SyncInv, NEW w \in Workers, NEW a \in Accounts, Call(w, a)
    PROVE  SyncInv'
  <1> DEFINE o == job[w].op
  <1>1. /\ job[w].pc = "call" /\ o \in CallFirst /\ a \in job[w].todo
        /\ o = "bandwidth" => Protocol[a] = "ssh"
        /\ UNCHANGED <<now, row, audit>>
    BY DEF Call
  <1>2. PICK out \in Outcomes(o, a) :
        /\ remote' = IF Applied(out) /\ ~Refused(o, a, out)
                       THEN [remote EXCEPT ![a] = Effect(o, a)] ELSE remote
        /\ disturbed' = disturbed
             \cup (IF Refused(o, a, out) THEN {} ELSE Marks(a, out))
        /\ IF (Raises(out) /\ ~ViaBridge(o, a)) \/ Refused(o, a, out)
             THEN IF o = "bandwidth" THEN job' = [job EXCEPT ![w] = Idle]
                                     ELSE Finish(w, a)
             ELSE GoTo(w, a, "save", out = "ok")
    BY DEF Call
  <1>3. job[w].acct = None /\ a # None /\ job[w] \in Job
    BY <1>1, JobFacts DEF JobShape
  <1>4. Idle.acct = None /\ Idle.op = "none"
    BY DEF Idle
  <1>5. row[a].status # "none"
    BY <1>1 DEF Inv, RowsExist
  <1>6. ASSUME NEW b \in Accounts, b # a
        PROVE  /\ remote'[b] = remote[b]
               /\ \A k \in Kinds : <<b, k>> \in disturbed' <=> <<b, k>> \in disturbed
    BY <1>2, <1>6 DEF Marks, Inv, TypeOK
  <1>7. disturbed \subseteq disturbed'
    BY <1>2
  <1>8. CASE job' = [job EXCEPT ![w] = Idle] \/ Finish(w, a)
    <2>1. /\ \A v \in Workers : v # w => job'[v] = job[v]
          /\ job'[w].acct = None
          /\ \/ job'[w] = Idle
             \/ /\ job'[w].op = o /\ job'[w].todo \subseteq job[w].todo
                /\ job'[w].clean = job[w].clean /\ job'[w].pc = "call"
      BY <1>1, <1>4, <1>8, FinishItem DEF Inv, TypeOK
    <2>2. ItemStep(w, a)
      BY <1>1, <1>6, <1>7, <2>1 DEF ItemStep
    <2>3. Refused(o, a, out) \/ out # "ok"
      <3>1. CASE Raises(out)
        BY <3>1 DEF Raises
      <3>2. CASE ~Raises(out) /\ ~Refused(o, a, out)
        <4>1. GoTo(w, a, "save", out = "ok")
          BY <1>2, <3>2
        <4>2. job'[w].acct = a
          BY <1>1, <4>1, GoToItem DEF PC
        <4> QED
          BY <1>3, <2>1, <4>2
      <3> QED
        BY <3>1, <3>2
    <2>4. ASSUME Alone(w, a), NEW k \in Kinds, <<a, k>> \notin disturbed'
          PROVE  Right(a, k)'
      <3>1. Refused(o, a, out)
        BY <1>2, <2>3, <2>4 DEF Marks
      <3>2. remote' = remote /\ <<a, k>> \notin disturbed
        BY <1>2, <2>4, <3>1
      <3> QED
        BY <1>1, <1>3, <2>4, <3>2, AloneRight, RightStays
    <2> QED
      BY <1>1, <1>3, <1>5, <2>1, <2>2, <2>4, ItemKeeps
  <1>9. CASE ~Refused(o, a, out) /\ GoTo(w, a, "save", out = "ok")
    <2>1. /\ \A v \in Workers : v # w => job'[v] = job[v]
          /\ job'[w].op = o /\ job'[w].todo = job[w].todo
          /\ job'[w].acct = a /\ job'[w].pc = "save"
          /\ job'[w].clean = (job[w].clean /\ out = "ok")
      BY <1>1, <1>9, GoToItem DEF PC
    <2>2. ItemStep(w, a)
      BY <1>1, <1>6, <1>7, <2>1 DEF ItemStep
    <2>3. ASSUME Alone(w, a), NEW k \in Kinds, Sure(w, a, k)'
          PROVE  Due(w, a, k)'
      <3>1. out = "ok"
        <4>1. out # "ok" => <<a, k>> \in disturbed' /\ ~job'[w].clean
          BY <1>2, <1>9, <2>1 DEF Marks
        <4> QED
          BY <2>3, <4>1 DEF Sure
      <3>2. remote'[a] = Effect(o, a)
        BY <1>2, <1>9, <3>1 DEF Applied, Inv, TypeOK
      <3>3. <<a, k>> \notin disturbed' \/ k \in Repairs(o)
        BY <2>1, <2>3 DEF Sure
      <3>4. <<a, k>> \notin disturbed' => Right(a, k)
        BY <1>3, <1>7, <2>3, AloneRight
      <3>5. row'[a] = row[a] /\ audit'[a] = audit[a]
        BY <1>1
      <3>6. o \notin {"delete", "cleanup"} =>
               /\ remote'[a].exists = remote[a].exists
               /\ remote'[a].expiry = remote[a].expiry
        BY <3>2 DEF Effect, Inv, TypeOK, Credential
      <3>7. o \in {"delete", "cleanup"} => ~remote'[a].exists
        BY <3>2 DEF Effect, Absent
      <3>8. CASE k = "access"
        <4>1. o \in {"suspend", "bandwidth"} \/ (o = "expire" /\ Protocol[a] = "ssh")
                => ~Access(a)'
          BY <1>1, <3>2 DEF Effect, Opens, Access, Inv, TypeOK, Credential
        <4>2. o = "reset" => AccessRight(a)'
          <5> SUFFICES ASSUME o = "reset" PROVE AccessRight(a)'
            OBVIOUS
          <5>1. AccessRight(a)
            BY <3>3, <3>4, <3>8 DEF Repairs, Right
          <5>2. /\ remote'[a].exists = remote[a].exists
                /\ remote[a].exists =>
                      remote'[a].reset = (remote[a].locked \/ remote[a].reset)
            BY <3>2 DEF Effect, Inv, TypeOK, Credential
          <5> QED
            BY <3>5, <5>1, <5>2 DEF AccessRight, Access, Blocked
        <4> QED
          BY <2>1, <3>7, <3>8, <4>1, <4>2 DEF Due, AccessDue
      <3>9. CASE k = "date"
        <4>1. o \notin {"delete", "cleanup"} => DateRight(a)
          BY <1>1, <3>3, <3>4, <3>9 DEF Repairs, Right, CallFirst
        <4>2. o \notin {"delete", "cleanup"} => DateRight(a)'
          BY <3>5, <3>6, <4>1 DEF DateRight
        <4> QED
          BY <2>1, <3>7, <3>9, <4>2 DEF Due, DateDue, WriteFirst
      <3>10. CASE k = "log"
        <4>1. o \in {"expire", "bandwidth", "reset"} => LogRight(a)
          BY <3>3, <3>4, <3>10 DEF Repairs, Right
        <4>2. o \in {"expire", "bandwidth"} => LogRight(a)'
          BY <3>5, <3>6, <4>1 DEF LogRight
        <4>3. o = "reset" => row'[a].status # "deleted"
          BY <1>9, <3>5, <4>1 DEF LogRight, Refused
        <4> QED
          BY <2>1, <3>7, <3>10, <4>2, <4>3 DEF Due, LogDue
      <3> QED
        BY <3>8, <3>9, <3>10 DEF Kinds
    <2> QED
      BY <1>1, <1>3, <1>5, <2>1, <2>2, <2>3, ItemKeeps
  <1> QED
    BY <1>2, <1>8, <1>9

(* What holds at the end of an item for a kind that nothing disputes then. *)
LEMMA SureAtEnd ==
    ASSUME Inv, SyncInv, NEW w \in Workers, NEW a \in Accounts, job[w].acct = a,
           NEW k \in Kinds, disturbed' = disturbed \ Repaired(w, a),
           <<a, k>> \notin disturbed'
    PROVE  Due(w, a, k)
  <1>1. Sure(w, a, k)
    BY DEF Repaired, Sure
  <1> QED
    BY <1>1 DEF SyncInv, Underway

(* What a repair does to the marks of the other accounts.                  *)
LEMMA RepairMarks ==
    ASSUME NEW w \in Workers, NEW a \in Accounts, disturbed' = disturbed \ Repaired(w, a)
    PROVE  /\ \A b \in Accounts : b # a =>
                \A k \in Kinds : <<b, k>> \in disturbed' <=> <<b, k>> \in disturbed
           /\ \A k \in Kinds :
                <<a, k>> \in disturbed /\ <<a, k>> \notin disturbed' =>
                  job[w].clean /\ k \in Repairs(job[w].op)
  BY DEF Repaired

(* The new status, on a node that has been told.                           *)
LEMMA SaveSync ==
    ASSUME Inv, Inv', SyncInv, NEW w \in Workers, Save(w)
    PROVE  SyncInv'
  <1>0. PICK o, a : o = job[w].op /\ a = job[w].acct
    OBVIOUS
  <1>1. /\ job[w].pc = "save"
        /\ row' = [row EXCEPT ![a].status = NewStatus(o, @)]
        /\ \/ /\ o \in {"expire", "bandwidth"} /\ Finish(w, a)
              /\ disturbed' = disturbed \ Repaired(w, a)
           \/ /\ o \notin {"expire", "bandwidth"} /\ GoTo(w, a, "log", TRUE)
              /\ UNCHANGED disturbed
        /\ UNCHANGED <<now, remote, audit>>
    BY <1>0 DEF Save
  <1>2. o \in CallFirst /\ a \in job[w].todo /\ a \in Accounts /\ a # None
    BY <1>0, <1>1, JobFacts DEF JobShape
  <1>3. row[a].status # "none" /\ row[a] \in Row
    BY <1>0, <1>2 DEF Inv, RowsExist, TypeOK
  <1>4. /\ row'[a].status = NewStatus(o, row[a].status)
        /\ row'[a].expire = row[a].expire
        /\ \A b \in Accounts : b # a => row'[b] = row[b]
    BY <1>1, <1>2, <1>3 DEF Inv, TypeOK, Row
  <1>5. row'[a].status # "none"
    BY <1>3, <1>4 DEF NewStatus
  <1>6. UNCHANGED remote[a] /\ UNCHANGED audit[a]
    BY <1>1
  <1>7. DateRight(a) => DateRight(a)'
    BY <1>3, <1>4, <1>6 DEF DateRight
  <1>8. CASE /\ o \in {"expire", "bandwidth"} /\ Finish(w, a)
             /\ disturbed' = disturbed \ Repaired(w, a)
    <2>1. ItemStep(w, a) /\ job'[w].acct # a
      BY <1>1, <1>2, <1>4, <1>8, FinishItem, RepairMarks DEF ItemStep
    <2>2. ASSUME NEW k \in Kinds, <<a, k>> \notin disturbed'
          PROVE  Right(a, k)'
      <3>1. Due(w, a, k)
        BY <1>0, <1>2, <1>8, <2>2, SureAtEnd
      <3>2. CASE k = "access"
        <4>1. o = "bandwidth" \/ Protocol[a] = "ssh" => ~Access(a)
          BY <1>0, <1>1, <1>8, <3>1, <3>2 DEF Due, AccessDue
        <4> QED
          BY <1>4, <1>6, <1>8, <3>2, <4>1
             DEF Right, AccessRight, NewStatus, Blocked, Access
      <3>3. CASE k = "date"
        BY <1>0, <1>1, <1>7, <1>8, <3>1, <3>3 DEF Right, Due, DateDue
      <3>4. CASE k = "log"
        <4>1. LogRight(a)
          BY <1>0, <1>1, <1>8, <3>1, <3>4 DEF Due, LogDue
        <4>2. <<a, "log">> \notin disturbed
          BY <1>0, <1>8, <2>2, <3>4 DEF Repaired, Repairs
        <4>3. row[a].status = "active"
          BY <1>0, <1>2, <1>8, <4>2 DEF SyncInv, Selected
        <4> QED
          BY <1>4, <1>6, <1>8, <3>4, <4>1, <4>3 DEF Right, LogRight, NewStatus
      <3> QED
        BY <3>2, <3>3, <3>4 DEF Kinds
    <2> QED
      BY <1>0, <1>2, <1>5, <2>1, <2>2, ItemKeeps
  <1>9. CASE /\ o \notin {"expire", "bandwidth"} /\ GoTo(w, a, "log", TRUE)
             /\ UNCHANGED disturbed
    <2>1. /\ \A v \in Workers : v # w => job'[v] = job[v]
          /\ job'[w].op = o /\ job'[w].todo = job[w].todo
          /\ job'[w].acct = a /\ job'[w].pc = "log"
          /\ job'[w].clean = (job[w].clean /\ TRUE)
      BY <1>0, <1>2, <1>9, GoToItem DEF PC
    <2>2. ItemStep(w, a)
      BY <1>0, <1>1, <1>4, <1>9, <2>1 DEF ItemStep
    <2>3. ASSUME NEW k \in Kinds, Sure(w, a, k)'
          PROVE  Due(w, a, k)'
      <3>1. Due(w, a, k)
        BY <1>0, <1>2, <1>9, <2>1, <2>3 DEF SyncInv, Underway, Sure
      <3>2. CASE k = "access"
        <4>1. AccessRight(a)'
          BY <1>0, <1>1, <1>2, <1>4, <1>6, <1>9, <3>1, <3>2
             DEF Due, AccessDue, AccessRight, NewStatus, Blocked, Access, CallFirst
        <4> QED
          BY <2>1, <3>2, <4>1 DEF Due, AccessDue
      <3>3. CASE k = "date"
        <4>1. DateRight(a)'
          <5>1. CASE o \in {"delete", "cleanup"}
            BY <1>0, <1>1, <1>6, <3>1, <3>3, <5>1 DEF Due, DateDue, DateRight
          <5>2. CASE o \notin {"delete", "cleanup"}
            BY <1>0, <1>1, <1>7, <3>1, <3>3, <5>2 DEF Due, DateDue
          <5> QED
            BY <5>1, <5>2
        <4> QED
          BY <2>1, <3>3, <4>1 DEF Due, DateDue
      <3>4. CASE k = "log"
        BY <1>0, <1>1, <1>2, <1>4, <1>6, <1>9, <2>1, <3>1, <3>4
           DEF Due, LogDue, NewStatus, CallFirst
      <3> QED
        BY <3>2, <3>3, <3>4 DEF Kinds
    <2> QED
      BY <1>0, <1>2, <1>5, <2>1, <2>2, <2>3, ItemKeeps
  <1> QED
    BY <1>1, <1>8, <1>9

(* The entry of the audit trail, for the status that was written.          *)
LEMMA LogSync ==
    ASSUME Inv, Inv', SyncInv, NEW w \in Workers, Log(w)
    PROVE  SyncInv'
  <1>0. PICK o, a : o = job[w].op /\ a = job[w].acct
    OBVIOUS
  <1>1. /\ job[w].pc = "log"
        /\ audit' = [audit EXCEPT ![a] = AuditAction(o)]
        /\ Finish(w, a)
        /\ disturbed' = disturbed \ Repaired(w, a)
        /\ UNCHANGED <<now, row, remote>>
    BY <1>0 DEF Log
  <1>2. o \in Logging /\ a \in job[w].todo /\ a \in Accounts /\ a # None
    BY <1>0, <1>1, JobFacts DEF JobShape
  <1>3. /\ audit'[a] = AuditAction(o)
        /\ \A b \in Accounts : b # a => audit'[b] = audit[b]
        /\ UNCHANGED row[a] /\ UNCHANGED remote[a]
    BY <1>1, <1>2 DEF Inv, TypeOK
  <1>4. row[a].status # "none"
    BY <1>0, <1>2 DEF Inv, RowsExist, Logging, CallFirst, WriteFirst
  <1>5. ItemStep(w, a) /\ job'[w].acct # a
    BY <1>1, <1>2, <1>3, FinishItem, RepairMarks DEF ItemStep
  <1>6. ASSUME NEW k \in Kinds, <<a, k>> \notin disturbed'
        PROVE  Right(a, k)'
    <2>1. Due(w, a, k)
      BY <1>0, <1>1, <1>2, <1>6, SureAtEnd
    <2>2. CASE k = "access"
      BY <1>1, <1>3, <2>1, <2>2 DEF Due, AccessDue, Right, AccessRight, Access
    <2>3. CASE k = "date"
      BY <1>1, <1>3, <2>1, <2>3 DEF Due, DateDue, Right, DateRight
    <2>4. CASE k = "log"
      BY <1>0, <1>1, <1>2, <1>3, <2>1, <2>4 DEF Due, LogDue, Right, LogRight, AuditAction,
                                          Logging
    <2> QED
      BY <2>2, <2>3, <2>4 DEF Kinds
  <1> QED
    BY <1>0, <1>2, <1>3, <1>4, <1>5, <1>6, ItemKeeps

(* A row that is written before the node is called: the job loaded it when *)
(* it started, and what it knows is what the row still says.               *)
LEMMA WriteSync ==
    ASSUME Inv, Inv', SyncInv, NEW w \in Workers, NEW a \in job[w].todo,
           job[w].pc = "write", NEW i \in Row, row' = [row EXCEPT ![a] = i],
           \/ i = job[w].inst /\ Finish(w, a)
           \/ /\ job' = [job EXCEPT ![w].pc = "expiry", ![w].acct = a, ![w].inst = i]
              /\ job[w].op = "extend" => i.status = "active"
              /\ job[w].op = "update" => i.status = job[w].inst.status,
           UNCHANGED <<now, remote, audit, disturbed>>
    PROVE  SyncInv'
  <1>1. /\ a \in Accounts /\ a # None /\ job[w].acct = None /\ job[w].op \in WriteFirst
        /\ job[w] \in Job
    BY JobFacts DEF JobShape
  <1>2. /\ row'[a] = i
        /\ \A b \in Accounts : b # a => row'[b] = row[b]
    BY <1>1 DEF Inv, TypeOK
  <1>3. row'[a].status # "none"
    <2>1. job[w].inst.status # "none"
      BY <1>1, JobFacts DEF JobShape
    <2> QED
      BY <1>1, <1>2, <2>1 DEF WriteFirst
  <1>4. ASSUME job[w].clean \/ \E k \in Kinds : <<a, k>> \notin disturbed
        PROVE  row[a] = job[w].inst
    BY <1>4 DEF SyncInv, Loaded
  <1>5. CASE i = job[w].inst /\ Finish(w, a)
    <2>1. ItemStep(w, a) /\ job'[w].acct # a
      BY <1>1, <1>2, <1>5, FinishItem DEF ItemStep, WriteFirst
    <2>2. ASSUME Alone(w, a), NEW k \in Kinds, <<a, k>> \notin disturbed'
          PROVE  Right(a, k)'
      <3>1. row'[a] = row[a] /\ Right(a, k)
        BY <1>1, <1>2, <1>4, <1>5, <2>2, AloneRight
      <3> QED
        BY <1>1, <3>1, RightStays
    <2> QED
      BY <1>1, <1>3, <2>1, <2>2, ItemKeeps
  <1>6. CASE /\ job' = [job EXCEPT ![w].pc = "expiry", ![w].acct = a, ![w].inst = i]
             /\ job[w].op = "extend" => i.status = "active"
             /\ job[w].op = "update" => i.status = job[w].inst.status
    <2>1. /\ \A v \in Workers : v # w => job'[v] = job[v]
          /\ job'[w].op = job[w].op /\ job'[w].todo = job[w].todo
          /\ job'[w].inst = i /\ job'[w].acct = a /\ job'[w].pc = "expiry"
          /\ job'[w].clean = job[w].clean
      BY <1>1, <1>6 DEF Inv, TypeOK, Job
    <2>2. ItemStep(w, a)
      BY <1>1, <1>2, <2>1 DEF ItemStep, WriteFirst
    <2>3. ASSUME Alone(w, a), NEW k \in Kinds, Sure(w, a, k)'
          PROVE  Due(w, a, k)'
      <3>1. row[a] = job[w].inst /\ Sure(w, a, k)
        BY <1>4, <2>1, <2>3 DEF Sure
      <3>2. job[w].op = "update" /\ k # "date" => Right(a, k)
        BY <1>1, <2>3, <3>1, AloneRight DEF Sure, Repairs
      <3>3. job[w].op = "update" => row'[a].status = row[a].status
        BY <1>2, <1>6, <3>1
      <3>4. CASE k = "access"
        BY <1>1, <1>2, <1>6, <2>1, <3>2, <3>3, <3>4
           DEF Due, AccessDue, Right, AccessRight, Access, WriteFirst
      <3>5. CASE k = "date"
        BY <1>2, <2>1, <3>5 DEF Due, DateDue
      <3>6. CASE k = "log"
        BY <1>1, <1>2, <1>6, <2>1, <3>2, <3>3, <3>6
           DEF Due, LogDue, Right, LogRight, WriteFirst
      <3> QED
        BY <3>4, <3>5, <3>6 DEF Kinds
    <2> QED
      BY <1>1, <1>3, <2>1, <2>2, <2>3, ItemKeeps
  <1> QED
    BY <1>5, <1>6

LEMMA WriteExtendSync ==
    ASSUME Inv, Inv', SyncInv, NEW w \in Workers, NEW a \in Accounts, WriteExtend(w, a)
    PROVE  SyncInv'
  <1> DEFINE e(d) == Later(job[w].inst.expire, now) + d * TicksPerDay
             i(d) == [status |-> "active", expire |-> e(d)]
  <1>1. job[w].pc = "write" /\ job[w].op = "extend" /\ a \in job[w].todo
        /\ UNCHANGED <<now, remote, audit, disturbed>>
    BY DEF WriteExtend
  <1>2. PICK d \in PlanDays :
            /\ row' = [row EXCEPT ![a] = i(d)]
            /\ job' = [job EXCEPT ![w].pc = "expiry", ![w].acct = a, ![w].inst = i(d)]
    BY DEF WriteExtend
  <1>3. job[w].inst.expire \in Nat
    BY DEF Inv, TypeOK, Job, Row
  <1>4. e(d) \in Nat
    BY <1>3, DateType DEF Inv
  <1>5. i(d) \in Row /\ i(d).status = "active"
    BY <1>4 DEF Row, Status
  <1> HIDE DEF i
  <1> QED
    BY <1>1, <1>2, <1>5, WriteSync

LEMMA WriteUpdateSync ==
    ASSUME Inv, Inv', SyncInv, NEW w \in Workers, NEW a \in Accounts, WriteUpdate(w, a)
    PROVE  SyncInv'
  <1> DEFINE i(e) == [job[w].inst EXCEPT !.expire = e]
  <1>1. job[w].pc = "write" /\ job[w].op = "update" /\ a \in job[w].todo
        /\ UNCHANGED <<now, remote, audit, disturbed>>
    BY DEF WriteUpdate
  <1>2. job[w].inst \in Row
    BY DEF Inv, TypeOK, Job
  <1>3. CASE row' = [row EXCEPT ![a] = job[w].inst] /\ Finish(w, a)
    BY <1>1, <1>2, <1>3, WriteSync
  <1>4. CASE \E e \in DateInputs \cup {now + d * TicksPerDay : d \in PlanDays} :
              /\ row' = [row EXCEPT ![a] = i(e)]
              /\ job' = [job EXCEPT ![w].pc = "expiry", ![w].acct = a, ![w].inst = i(e)]
    <2>1. PICK e \in DateInputs \cup {now + d * TicksPerDay : d \in PlanDays} :
              /\ row' = [row EXCEPT ![a] = i(e)]
              /\ job' = [job EXCEPT ![w].pc = "expiry", ![w].acct = a, ![w].inst = i(e)]
      BY <1>4
    <2>2. e \in Nat
      <3>1. \A d \in PlanDays : now + d * TicksPerDay \in Nat
        BY DateType DEF Inv
      <3> QED
        BY <3>1, LifecycleAssumption
    <2>3. i(e) \in Row /\ i(e).status = job[w].inst.status
      BY <1>2, <2>2 DEF Row
    <2> HIDE DEF i
    <2> QED
      BY <1>1, <2>1, <2>3, WriteSync
  <1> QED
    BY <1>3, <1>4 DEF WriteUpdate

(* A call that fails or dies marks the account for every kind: nothing is  *)
(* left to show for it.                                                    *)
LEMMA MarkedSync ==
    ASSUME Inv, Inv', SyncInv, NEW w \in Workers, NEW a \in job[w].todo,
           \A v \in Workers : v # w => job'[v] = job[v],
           \A b \in Accounts : b # a =>
              /\ row'[b] = row[b] /\ remote'[b] = remote[b] /\ audit'[b] = audit[b],
           disturbed' = disturbed \cup ({a} \X Kinds),
           job[w].acct \in {None, a},
           row'[a] = row[a], audit'[a] = audit[a],
           \/ job'[w] = Idle
           \/ /\ job'[w].op = job[w].op /\ job'[w].todo \subseteq job[w].todo
              /\ job'[w].clean => job[w].clean
              /\ \/ job'[w].acct = None
                 \/ job'[w].acct = a /\ ~job'[w].clean
              /\ job'[w].pc # "write"
    PROVE  SyncInv'
  <1>1. a \in Accounts /\ a # None
    BY JobFacts
  <1>2. \A k \in Kinds : <<a, k>> \in disturbed'
    OBVIOUS
  <1>3. ItemStep(w, a)
    BY <1>1, <1>2 DEF ItemStep
  <1>4. job'[w].acct = a => ~job'[w].clean
    BY <1>1 DEF Idle
  <1>5. row'[a].status = "none" => audit'[a] = "none"
    BY <1>1 DEF SyncInv, Unaudited
  <1> QED
    BY <1>2, <1>3, <1>4, <1>5, ItemKeeps DEF Sure

(* chage: the date of the row goes to the node.                            *)
LEMMA SetExpirySync ==
    ASSUME Inv, Inv', SyncInv, NEW w \in Workers, SetExpiry(w)
    PROVE  SyncInv'
  <1>0. PICK o, a : o = job[w].op /\ a = job[w].acct
    OBVIOUS
  <1>1. /\ job[w].pc = "expiry"
        /\ UNCHANGED <<now, row, audit>>
    BY DEF SetExpiry
  <1>2. PICK out \in Outcomes(o, a) :
        /\ remote' = IF Applied(out) THEN [remote EXCEPT ![a] = Dated(w, a)] ELSE remote
        /\ disturbed' = IF out = "ok" /\ o = "update"
                          THEN disturbed \ Repaired(w, a)
                          ELSE disturbed \cup Marks(a, out)
        /\ IF o = "update" \/ Raises(out)
             THEN Finish(w, a)
             ELSE GoTo(w, a, IF o = "extend" THEN "log" ELSE "commit", out = "ok")
    BY <1>0 DEF SetExpiry
  <1>3. /\ o \in Single /\ a \in job[w].todo /\ a \in Accounts /\ a # None
        /\ job[w] \in Job
    BY <1>0, <1>1, JobFacts DEF JobShape
  <1>4. \A b \in Accounts : b # a => remote'[b] = remote[b]
    BY <1>2 DEF Inv, TypeOK
  <1>5. UNCHANGED row[a] /\ UNCHANGED audit[a]
    BY <1>1
  <1>6. row'[a].status = "none" => audit'[a] = "none"
    BY <1>3, <1>5 DEF SyncInv, Unaudited
  <1>7. CASE out # "ok"
    <2>1. disturbed' = disturbed \cup ({a} \X Kinds)
      BY <1>2, <1>7 DEF Marks
    <2>2. CASE Finish(w, a)
      BY <1>0, <1>1, <1>3, <1>4, <2>1, <2>2, FinishItem, MarkedSync
    <2>3. ASSUME NEW pc \in {"log", "commit"}, GoTo(w, a, pc, out = "ok")
          PROVE  SyncInv'
      <3>1. /\ \A v \in Workers : v # w => job'[v] = job[v]
            /\ job'[w].op = job[w].op /\ job'[w].todo = job[w].todo
            /\ job'[w].acct = a /\ job'[w].pc = pc /\ ~job'[w].clean
        <4>1. pc \in PC /\ (out = "ok") \in BOOLEAN
          BY DEF PC
        <4>2. job'[w].clean = (job[w].clean /\ out = "ok")
          BY <1>3, <2>3, <4>1, GoToItem
        <4>3. ~job'[w].clean
          BY <1>7, <4>2
        <4> QED
          BY <1>3, <2>3, <4>1, <4>3, GoToItem
      <3> QED
        BY <1>0, <1>1, <1>3, <1>4, <2>1, <3>1, MarkedSync
    <2> QED
      BY <1>2, <2>2, <2>3
  <1>8. CASE out = "ok"
    <2>1. remote'[a] = Dated(w, a)
      BY <1>2, <1>3, <1>8 DEF Applied, Inv, TypeOK
    <2>2. /\ remote'[a].exists = remote[a].exists
          /\ Protocol[a] = "ssh" /\ remote[a].exists
               => remote'[a].expiry = DayOf(job[w].inst.expire)
          /\ o = "update" => remote'[a].locked = remote[a].locked
          /\ remote'[a].reset = remote[a].reset
      BY <1>0, <1>3, <2>1 DEF Dated, Inv, TypeOK, Credential
    <2>3. CASE o = "update"
      <3>1. Finish(w, a) /\ disturbed' = disturbed \ Repaired(w, a)
        BY <1>2, <1>8, <2>3
      <3>2. ItemStep(w, a) /\ job'[w].acct # a
        BY <1>0, <1>1, <1>3, <1>4, <3>1, FinishItem, RepairMarks DEF ItemStep
      <3>3. ASSUME NEW k \in Kinds, <<a, k>> \notin disturbed'
            PROVE  Right(a, k)'
        <4>1. Due(w, a, k)
          BY <1>0, <1>3, <3>1, <3>3, SureAtEnd
        <4>2. CASE k = "access"
          BY <1>0, <1>1, <1>5, <2>2, <2>3, <4>1, <4>2
             DEF Due, AccessDue, Right, AccessRight, Access
        <4>3. CASE k = "date"
          <5>1. row[a] = job[w].inst
            BY <1>0, <1>1, <2>3, <4>1, <4>3 DEF Due, DateDue, WriteFirst
          <5> QED
            BY <1>5, <2>2, <4>3, <5>1 DEF Right, DateRight
        <4>4. CASE k = "log"
          BY <1>0, <1>1, <1>5, <2>2, <2>3, <4>1, <4>4 DEF Due, LogDue, Right, LogRight
        <4> QED
          BY <4>2, <4>3, <4>4 DEF Kinds
      <3> QED
        BY <1>0, <1>3, <1>6, <3>2, <3>3, ItemKeeps
    <2>4. CASE o # "update"
      <3>1. PICK pc \in {"log", "commit"} :
              /\ GoTo(w, a, pc, out = "ok")
              /\ pc = IF o = "extend" THEN "log" ELSE "commit"
        BY <1>2, <1>8, <2>4 DEF Raises
      <3>2. /\ \A v \in Workers : v # w => job'[v] = job[v]
            /\ job'[w].op = job[w].op /\ job'[w].todo = job[w].todo
            /\ job'[w].inst = job[w].inst /\ job'[w].acct = a /\ job'[w].pc = pc
            /\ job'[w].clean = (job[w].clean /\ out = "ok")
        BY <1>3, <3>1, GoToItem DEF PC
      <3>3. disturbed' = disturbed
        BY <1>2, <1>8, <2>4 DEF Marks
      <3>4. ItemStep(w, a)
        BY <1>0, <1>1, <1>3, <1>4, <3>2, <3>3 DEF ItemStep
      <3>5. ASSUME NEW k \in Kinds, Sure(w, a, k)'
            PROVE  Due(w, a, k)'
        <4>1. Due(w, a, k)
          BY <1>0, <1>3, <3>2, <3>3, <3>5 DEF Sure, SyncInv, Underway
        <4>2. CASE k = "access"
          BY <1>0, <1>1, <1>5, <3>1, <3>2, <4>1, <4>2
             DEF Due, AccessDue, AccessRight, Blocked
        <4>3. CASE k = "date"
          <5>1. o = "extend" => DateRight(a)'
            BY <1>0, <1>1, <1>5, <2>2, <4>1, <4>3 DEF Due, DateDue, DateRight, WriteFirst
          <5> QED
            BY <1>0, <2>2, <3>1, <3>2, <4>3, <5>1 DEF Due, DateDue
        <4>4. CASE k = "log"
          BY <1>0, <1>1, <1>3, <1>5, <2>4, <3>1, <3>2, <4>1, <4>4
             DEF Due, LogDue, Single, WriteFirst, Creating
        <4> QED
          BY <4>2, <4>3, <4>4 DEF Kinds
      <3> QED
        BY <1>0, <1>3, <1>6, <3>2, <3>4, <3>5, ItemKeeps
    <2> QED
      BY <2>3, <2>4
  <1> QED
    BY <1>7, <1>8

(* create_account and the provisioning: what they left on the node counts  *)
(* from the commit on, and a call that fails marks the account.            *)
LEMMA CreateUserSync ==
    ASSUME Inv, Inv', SyncInv, NEW w \in Workers, NEW a \in Accounts, CreateUser(w, a)
    PROVE  SyncInv'
  <1>1. /\ job[w].pc = "call" /\ job[w].op \in Creating /\ a \in job[w].todo
        /\ UNCHANGED <<now, row, audit>>
    BY DEF CreateUser
  <1>2. PICK out \in Outcomes(job[w].op, a) :
        /\ \E r : remote' = [remote EXCEPT ![a] = r]
        /\ disturbed' = disturbed \cup Marks(a, out)
        /\ IF out = "ok" THEN GoTo(w, a, "expiry", TRUE) ELSE Finish(w, a)
    BY DEF CreateUser
  <1>3. job[w].acct = None /\ a # None
    BY <1>1, JobFacts DEF JobShape
  <1>4. \A b \in Accounts : b # a => remote'[b] = remote[b]
    BY <1>2 DEF Inv, TypeOK
  <1>5. CASE out # "ok"
    <2>1. disturbed' = disturbed \cup ({a} \X Kinds) /\ Finish(w, a)
      BY <1>2, <1>5 DEF Marks
    <2> QED
      BY <1>1, <1>3, <1>4, <2>1, FinishItem, MarkedSync
  <1>6. CASE out = "ok"
    <2>1. disturbed' = disturbed /\ GoTo(w, a, "expiry", TRUE)
      BY <1>2, <1>6 DEF Marks
    <2>2. /\ \A v \in Workers : v # w => job'[v] = job[v]
          /\ job'[w].op = job[w].op /\ job'[w].todo = job[w].todo
          /\ job'[w].acct = a /\ job'[w].pc = "expiry"
          /\ job'[w].clean = (job[w].clean /\ TRUE)
      BY <1>1, <2>1, GoToItem DEF PC
    <2>3. ItemStep(w, a)
      BY <1>1, <1>4, <2>1, <2>2 DEF ItemStep
    <2>4. \A k \in Kinds : Due(w, a, k)'
      BY <1>1, <2>2 DEF Due, AccessDue, DateDue, LogDue, Creating, WriteFirst
    <2>5. row'[a].status = "none" => audit'[a] = "none"
      BY <1>1 DEF SyncInv, Unaudited
    <2> QED
      BY <1>1, <1>3, <2>2, <2>3, <2>4, <2>5, ItemKeeps
  <1> QED
    BY <1>5, <1>6

LEMMA RegisterTokenSync ==
    ASSUME Inv, Inv', SyncInv, NEW w \in Workers, NEW a \in Accounts, RegisterToken(w, a)
    PROVE  SyncInv'
  <1>1. /\ job[w].pc = "call" /\ job[w].op = "create" /\ a \in job[w].todo
        /\ Protocol[a] = "shadowlink" /\ UNCHANGED <<now, row, audit>>
    BY DEF RegisterToken
  <1>2. PICK out \in Outcomes("create", a) :
        /\ disturbed' = disturbed \cup Marks(a, out)
        /\ IF out = "ok"
             THEN /\ remote' = [remote EXCEPT ![a] = WithPassword(Absent)]
                  /\ GoTo(w, a, "commit", TRUE)
             ELSE /\ Finish(w, a)
                  /\ UNCHANGED remote
    BY DEF RegisterToken
  <1>3. job[w].acct = None /\ a # None
    BY <1>1, JobFacts DEF JobShape
  <1>4. \A b \in Accounts : b # a => remote'[b] = remote[b]
    BY <1>2 DEF Inv, TypeOK
  <1>5. CASE out # "ok"
    <2>1. disturbed' = disturbed \cup ({a} \X Kinds) /\ Finish(w, a)
      BY <1>2, <1>5 DEF Marks
    <2> QED
      BY <1>1, <1>3, <1>4, <2>1, FinishItem, MarkedSync
  <1>6. CASE out = "ok"
    <2>1. disturbed' = disturbed /\ GoTo(w, a, "commit", TRUE)
      BY <1>2, <1>6 DEF Marks
    <2>2. /\ \A v \in Workers : v # w => job'[v] = job[v]
          /\ job'[w].op = job[w].op /\ job'[w].todo = job[w].todo
          /\ job'[w].acct = a /\ job'[w].pc = "commit"
          /\ job'[w].clean = (job[w].clean /\ TRUE)
      BY <1>1, <2>1, GoToItem DEF PC
    <2>3. ItemStep(w, a)
      BY <1>1, <1>4, <2>1, <2>2 DEF ItemStep
    <2>4. \A k \in Kinds : Due(w, a, k)'
      BY <1>1, <2>2 DEF Due, AccessDue, DateDue, LogDue
    <2>5. row'[a].status = "none" => audit'[a] = "none"
      BY <1>1 DEF SyncInv, Unaudited
    <2> QED
      BY <1>1, <1>3, <2>2, <2>3, <2>4, <2>5, ItemKeeps
  <1> QED
    BY <1>5, <1>6

(* The row of a creation is committed: it is active, with the date that    *)
(* the node was told, and its only audit entry is the creation.            *)
LEMMA CommitSync ==
    ASSUME Inv, Inv', SyncInv, NEW w \in Workers, NEW a \in Accounts, job[w].acct = a,
           job[w].pc = "commit", job[w].op \in Creating, row[a].status = "none",
           row' = [row EXCEPT ![a] = job[w].inst],
           \/ audit' = [audit EXCEPT ![a] = "create"]
           \/ UNCHANGED audit,
           Finish(w, a), disturbed' = disturbed \ Repaired(w, a),
           UNCHANGED <<now, remote>>
    PROVE  SyncInv'
  <1>1. a \in job[w].todo /\ a # None /\ job[w].inst.status = "active"
    BY JobFacts DEF JobShape
  <1>2. /\ row'[a] = job[w].inst /\ UNCHANGED remote[a]
        /\ \A b \in Accounts : b # a => row'[b] = row[b] /\ audit'[b] = audit[b]
    BY DEF Inv, TypeOK
  <1>3. audit'[a] \in {"none", "create"}
    BY DEF Inv, TypeOK, SyncInv, Unaudited
  <1>4. ItemStep(w, a) /\ job'[w].acct # a
    BY <1>1, <1>2, FinishItem, RepairMarks DEF ItemStep
  <1>5. ASSUME NEW k \in Kinds, <<a, k>> \notin disturbed'
        PROVE  Right(a, k)'
    <2>1. Due(w, a, k)
      BY <1>5, SureAtEnd
    <2>2. CASE k = "access"
      BY <1>1, <1>2, <2>2 DEF Right, AccessRight, Blocked
    <2>3. CASE k = "date"
      BY <1>2, <2>1, <2>3 DEF Right, DateRight, Due, DateDue
    <2>4. CASE k = "log"
      BY <1>1, <1>2, <1>3, <2>4 DEF Right, LogRight
    <2> QED
      BY <2>2, <2>3, <2>4 DEF Kinds
  <1> QED
    BY <1>1, <1>2, <1>4, <1>5, ItemKeeps

LEMMA CommitCreateSync ==
    ASSUME Inv, Inv', SyncInv, NEW w \in Workers, CommitCreate(w)
    PROVE  SyncInv'
  <1>0. PICK a : a = job[w].acct
    OBVIOUS
  <1>1. /\ job[w].pc = "commit" /\ job[w].op = "create"
        /\ row' = [row EXCEPT ![a] = job[w].inst]
        /\ audit' = [audit EXCEPT ![a] = "create"]
        /\ Finish(w, a) /\ disturbed' = disturbed \ Repaired(w, a)
        /\ UNCHANGED <<now, remote>>
    BY <1>0 DEF CommitCreate
  <1>2. a \in job[w].todo /\ a \in Accounts
    BY <1>0, <1>1, JobFacts DEF JobShape
  <1>3. row[a].status = "none"
    BY <1>1, <1>2 DEF Inv, KeysFree
  <1> QED
    BY <1>0, <1>1, <1>2, <1>3, CommitSync DEF Creating

LEMMA CommitProvisionSync ==
    ASSUME Inv, Inv', SyncInv, NEW w \in Workers, CommitProvision(w)
    PROVE  SyncInv'
  <1>0. PICK a : a = job[w].acct
    OBVIOUS
  <1>1. /\ job[w].pc = "commit" /\ job[w].op = "provision" /\ Finish(w, a)
        /\ UNCHANGED <<now, remote, audit>>
        /\ \/ /\ row[a].status = "none"
              /\ row' = [row EXCEPT ![a] = job[w].inst]
              /\ disturbed' = disturbed \ Repaired(w, a)
           \/ /\ disturbed' = disturbed \cup ({a} \X Kinds)
              /\ UNCHANGED row
    BY <1>0 DEF CommitProvision
  <1>2. a \in job[w].todo /\ a \in Accounts
    BY <1>0, <1>1, JobFacts DEF JobShape
  <1>3. CASE UNCHANGED row /\ disturbed' = disturbed \cup ({a} \X Kinds)
    BY <1>0, <1>1, <1>2, <1>3, FinishItem, MarkedSync
  <1> QED
    BY <1>0, <1>1, <1>2, <1>3, CommitSync DEF Creating

(* A process that dies marks the account that it had in its hands, and     *)
(* leaves the others as they were.                                         *)
LEMMA CrashSync ==
    ASSUME Inv, Inv', SyncInv, NEW w \in Workers, Crash(w)
    PROVE  SyncInv'
  <1>0. PICK a : a = job[w].acct
    OBVIOUS
  <1> DEFINE orphan == job[w].pc = "commit" /\ Protocol[a] = "shadowlink"
  <1>1. /\ job[w].pc # "idle" /\ job' = [job EXCEPT ![w] = Idle]
        /\ disturbed' = disturbed \cup (({a} \ {None}) \X Kinds)
        /\ remote' = IF orphan THEN [remote EXCEPT ![a] = Absent] ELSE remote
        /\ UNCHANGED <<now, row, audit>>
    BY <1>0 DEF Crash
  <1>2. job[w] \in Job /\ JobShape(job[w])
    BY JobFacts
  <1>3. CASE a = None
    <2>1. ~orphan
      BY <1>0, <1>2, <1>3, JobFacts DEF JobShape
    <2>2. disturbed' = disturbed
      BY <1>1, <1>3
    <2> QED
      BY <1>0, <1>1, <1>3, <2>1, <2>2, DropKeeps
  <1>4. CASE a # None
    <2>1. a \in Accounts /\ a \in job[w].todo
      BY <1>0, <1>2, <1>4, Holds DEF Job
    <2>2. /\ \A v \in Workers : v # w => job'[v] = job[v]
          /\ job'[w] = Idle
      BY <1>1 DEF Inv, TypeOK
    <2>3. \A b \in Accounts : b # a =>
              /\ row'[b] = row[b] /\ remote'[b] = remote[b] /\ audit'[b] = audit[b]
      BY <1>1, <2>1 DEF Inv, TypeOK
    <2>4. disturbed' = disturbed \cup ({a} \X Kinds)
      BY <1>1, <1>4
    <2> QED
      BY <1>0, <1>1, <2>1, <2>2, <2>3, <2>4, MarkedSync
  <1> QED
    BY <1>3, <1>4

LEMMA QuietSync ==
    ASSUME SyncInv, Tick \/ UNCHANGED vars
    PROVE  SyncInv'
  <1>1. UNCHANGED <<row, remote, audit, job, disturbed>>
    BY DEF Tick, vars
  <1>2. \A a, k : Right(a, k)' <=> Right(a, k)
    BY <1>1 DEF Right, AccessRight, DateRight, LogRight, Access
  <1>3. \A w, a, k : (Due(w, a, k)' <=> Due(w, a, k)) /\ (Sure(w, a, k)' <=> Sure(w, a, k))
    BY <1>1 DEF Due, AccessDue, DateDue, LogDue, AccessRight, DateRight, LogRight,
                Access, Sure
  <1> QED
    BY <1>1, <1>2, <1>3 DEF SyncInv, Overlapped, Alone, Untouched, Underway, Loaded,
                            Selected, Unaudited

LEMMA SyncNext == Inv /\ SyncInv /\ [Next]_vars => SyncInv'
  <1> SUFFICES ASSUME Inv, SyncInv, [Next]_vars PROVE SyncInv'
    OBVIOUS
  <1>1. Inv'
    BY InvNext
  <1>2. CASE Tick \/ UNCHANGED vars
    BY <1>2, QuietSync
  <1>3. ASSUME NEW w \in Workers, Start(w) \/ Crash(w)
        PROVE  SyncInv'
    BY <1>1, <1>3, StartSync, CrashSync
  <1>4. ASSUME NEW w \in Workers, Step(w)
        PROVE  SyncInv'
    BY <1>1, <1>4, UnderLimitSync, CallSync, WriteExtendSync, WriteUpdateSync,
       CreateUserSync, RegisterTokenSync, SaveSync, LogSync, SetExpirySync,
       CommitCreateSync, CommitProvisionSync DEF Step
  <1> QED
    BY <1>2, <1>3, <1>4 DEF Next

(* In every run, what is amiss with an account is disturbed, or in the     *)
(* hands of a job that will mend it.                                       *)
THEOREM SyncInvariant == Spec => []SyncInv
  BY SyncInit, SyncNext, LifecycleInvariant, PTL DEF Spec

(* A settled account is in nobody's hands, and therefore right.            *)
LEMMA SettledRight ==
    ASSUME Inv, SyncInv, NEW a \in Accounts, NEW k \in Kinds, Settled(a, k)
    PROVE  Right(a, k)
  <1>1. \A w \in Workers : job[w].acct # a
    BY Holds DEF Settled, InUse
  <1> QED
    BY <1>1 DEF SyncInv, Untouched, Settled

(* BlockedIsLockedOut: an account that the panel shows as suspended,       *)
(* expired or deleted cannot log in to the node, unless reset_password has *)
(* opened it.                                                              *)
THEOREM BlockedStaysLockedOut == Spec => []BlockedIsLockedOut
  <1>1. Inv /\ SyncInv => BlockedIsLockedOut
    BY SettledRight DEF BlockedIsLockedOut, Right, AccessRight, Kinds
  <1> QED
    BY <1>1, LifecycleInvariant, SyncInvariant, PTL

(* NoOrphanCredential: what the panel has deleted has no credential on the *)
(* node, a locked one neither.                                             *)
THEOREM NothingIsOrphaned == Spec => []NoOrphanCredential
  <1>1. Inv /\ SyncInv => NoOrphanCredential
    BY SettledRight DEF NoOrphanCredential, Right, AccessRight, Kinds
  <1> QED
    BY <1>1, LifecycleInvariant, SyncInvariant, PTL

(* ExpiryInStep: the node enforces the day of the row's date.              *)
THEOREM ExpiryStaysInStep == Spec => []ExpiryInStep
  <1>1. Inv /\ SyncInv => ExpiryInStep
    BY SettledRight DEF ExpiryInStep, Right, DateRight, Kinds
  <1> QED
    BY <1>1, LifecycleInvariant, SyncInvariant, PTL

(* AuditMatchesStatus: the newest audit entry agrees with the status.      *)
THEOREM AuditStaysInStep == Spec => []AuditMatchesStatus
  <1>1. Inv /\ SyncInv => AuditMatchesStatus
    BY SettledRight DEF AuditMatchesStatus, Right, LogRight, Kinds
  <1> QED
    BY <1>1, LifecycleInvariant, SyncInvariant, PTL
=============================================================================
