---------------------------- MODULE Tasks_proofs ----------------------------
(***************************************************************************)
(* Proofs about the periodic tasks: ServerHealth, for any number of        *)
(* servers and of processes, any choice of operations and any number of    *)
(* strikes, and SessionLimits, for any users, workers and sessions.        *)
(***************************************************************************)
EXTENDS ServerHealth, SessionLimits, FiniteSetTheorems, SequenceTheorems, WellFoundedInduction,
        TLAPS

-----------------------------------------------------------------------------
(* ServerHealth, the inductive invariant.  An order stands because every   *)
(* save writes the status that its task loaded: what has to be known is    *)
(* that no task loaded it before the order was given.                      *)

(* A probe is about a server that the task has still to check.             *)
ProbedIsDue == \A p \in Procs : job[p].res # "none" => job[p].srv \in job[p].todo

(* A deleted server is in no task's hands.                                 *)
DeletedIsLeft(s) == status[s] = Gone /\ ~InFlight(s)

(* A server in maintenance answers, and every task that has it in hand     *)
(* loaded it after the order: the task has not found it dead, and would    *)
(* write back the maintenance.                                             *)
MaintenanceIsKnown(s) ==
    /\ status[s] = "maintenance" /\ reach[s]
    /\ \A p \in Procs : s \in job[p].todo =>
         /\ job[p].snap[s] = "maintenance"
         /\ job[p].srv = s => job[p].res # "failed"

OrdersKnown == \A s \in held : DeletedIsLeft(s) \/ MaintenanceIsKnown(s)

HealthInv ==
    /\ TypeOK
    /\ ProbedIsDue
    /\ OrdersKnown

-----------------------------------------------------------------------------

(* A process that has nothing to do.                                       *)
LEMMA IdleProc ==
    /\ Idle \in Job
    /\ Idle.op = "none" /\ Idle.todo = {} /\ Idle.srv = None /\ Idle.res = "none"
  BY DEF Idle, Job, Status, Outcome

LEMMA HealthInit == Init => HealthInv
  <1> SUFFICES ASSUME Init PROVE HealthInv
    OBVIOUS
  <1>1. TypeOK
    BY IdleProc, HealthAssumption DEF Init, TypeOK, Status
  <1>2. ProbedIsDue /\ OrdersKnown
    BY IdleProc DEF Init, ProbedIsDue, OrdersKnown
  <1> QED
    BY <1>1, <1>2 DEF HealthInv

(* A task starts on rows that are there: it knows the status of each.      *)
LEMMA BeginHealth ==
    ASSUME HealthInv, NEW p \in Procs, NEW o, NEW S \in SUBSET Servers, Begin(p, o, S),
           \A s \in S : status[s] # Gone
    PROVE  HealthInv'
  <1> DEFINE new == [op |-> o, todo |-> S, srv |-> None, snap |-> status, res |-> "none"]
  <1>1. /\ o \in AllOps
        /\ job' = [job EXCEPT ![p] = new]
        /\ UNCHANGED <<status, reach, fails, held>>
    BY HealthAssumption DEF Begin
  <1>2. new \in Job
    BY <1>1 DEF Job, Outcome, HealthInv, TypeOK
  <1>3. /\ new.todo = S /\ new.srv = None /\ new.snap = status /\ new.res = "none"
        /\ job'[p] = new
        /\ \A q \in Procs : q # p => job'[q] = job[q]
    BY <1>1 DEF HealthInv, TypeOK
  <1>4. TypeOK'
    BY <1>1, <1>2 DEF HealthInv, TypeOK
  <1> HIDE DEF new
  <1>5. ProbedIsDue'
    BY <1>3 DEF HealthInv, ProbedIsDue
  <1>6. OrdersKnown'
    <2> SUFFICES ASSUME NEW s \in held
                 PROVE  DeletedIsLeft(s)' \/ MaintenanceIsKnown(s)'
      BY <1>1 DEF OrdersKnown
    <2>1. CASE DeletedIsLeft(s)
      BY <1>1, <1>3, <2>1 DEF DeletedIsLeft, InFlight
    <2>2. CASE MaintenanceIsKnown(s)
      BY <1>1, <1>3, <2>2 DEF MaintenanceIsKnown
    <2> QED
      BY <2>1, <2>2 DEF HealthInv, OrdersKnown
  <1> QED
    BY <1>4, <1>5, <1>6 DEF HealthInv

LEMMA StartHealth ==
    ASSUME HealthInv, NEW p \in Procs, StartAll(p) \/ StartSingle(p) \/ StartEdit(p)
    PROVE  HealthInv'
  <1>1. CASE StartAll(p)
    <2> DEFINE S == {s \in Servers : status[s] \notin {"down", Gone}}
    <2>1. Begin(p, "all", S)
      BY <1>1 DEF StartAll
    <2>2. S \in SUBSET Servers /\ \A s \in S : status[s] # Gone
      OBVIOUS
    <2> HIDE DEF S
    <2> QED
      BY <2>1, <2>2, BeginHealth
  <1>2. CASE StartSingle(p)
    BY <1>2, BeginHealth DEF StartSingle
  <1>3. CASE StartEdit(p)
    BY <1>3, BeginHealth DEF StartEdit
  <1> QED
    BY <1>1, <1>2, <1>3

(* A probe finds a server dead only when it does not answer.               *)
LEMMA ProbeHealth ==
    ASSUME HealthInv, NEW p \in Procs, NEW s \in Servers, Probe(p, s)
    PROVE  HealthInv'
  <1>1. s \in job[p].todo /\ UNCHANGED <<status, reach, fails, held>>
    BY DEF Probe
  <1>2. PICK res \in {"ok", "hot", "failed"} :
          /\ reach[s] => res # "failed"
          /\ job' = [job EXCEPT ![p].srv = s, ![p].res = res]
    BY DEF Probe
  <1> DEFINE next == [job[p] EXCEPT !.srv = s, !.res = res]
  <1>3. job[p] \in Job
    BY DEF HealthInv, TypeOK
  <1>4. next \in Job
    BY <1>3 DEF Job, Outcome
  <1>5. /\ job'[p] = next /\ next.srv = s /\ next.res = res
        /\ next.todo = job[p].todo /\ next.snap = job[p].snap
        /\ \A q \in Procs : q # p => job'[q] = job[q]
        /\ job' = [job EXCEPT ![p] = next]
    BY <1>2, <1>3 DEF HealthInv, TypeOK, Job
  <1>6. TypeOK'
    BY <1>1, <1>4, <1>5 DEF HealthInv, TypeOK
  <1> HIDE DEF next
  <1>7. ProbedIsDue'
    BY <1>1, <1>5 DEF HealthInv, ProbedIsDue
  <1>8. OrdersKnown'
    <2> SUFFICES ASSUME NEW t \in held
                 PROVE  DeletedIsLeft(t)' \/ MaintenanceIsKnown(t)'
      BY <1>1 DEF OrdersKnown
    <2>1. CASE DeletedIsLeft(t)
      BY <1>1, <1>5, <2>1 DEF DeletedIsLeft, InFlight
    <2>2. CASE MaintenanceIsKnown(t)
      <3>1. job[p].todo = job'[p].todo /\ job[p].snap = job'[p].snap
        BY <1>5
      <3>2. t = s => job'[p].res # "failed"
        BY <1>2, <1>5, <2>2 DEF MaintenanceIsKnown
      <3>3. job'[p].srv = t => job'[p].res # "failed"
        BY <1>5, <3>2
      <3>4. \A q \in Procs : t \in job'[q].todo =>
              job'[q].snap[t] = "maintenance" /\ (job'[q].srv = t => job'[q].res # "failed")
        <4> SUFFICES ASSUME NEW q \in Procs, t \in job'[q].todo
                     PROVE  /\ job'[q].snap[t] = "maintenance"
                            /\ job'[q].srv = t => job'[q].res # "failed"
          OBVIOUS
        <4>1. CASE q = p
          BY <2>2, <3>1, <3>3, <4>1 DEF MaintenanceIsKnown
        <4>2. CASE q # p
          BY <1>5, <2>2, <4>2 DEF MaintenanceIsKnown
        <4> QED
          BY <4>1, <4>2
      <3> QED
        BY <1>1, <2>2, <3>4 DEF MaintenanceIsKnown
    <2> QED
      BY <2>1, <2>2 DEF HealthInv, OrdersKnown
  <1> QED
    BY <1>6, <1>7, <1>8 DEF HealthInv

(* The end of a server: the task forgets it, and what it found out.        *)
LEMMA DoneHealth ==
    ASSUME HealthInv, NEW p \in Procs, NEW s,
           Done(p, s) \/ job' = [job EXCEPT ![p] = Idle]
    PROVE  /\ job' \in [Procs -> Job]
           /\ \A q \in Procs : q # p => job'[q] = job[q]
           /\ job'[p].res = "none" /\ job'[p].srv = None
           /\ job'[p] = Idle \/ job'[p].snap = job[p].snap
           /\ job'[p].todo \subseteq job[p].todo
  <1> DEFINE rest == job[p].todo \ {s}
             next == [job[p] EXCEPT !.todo = rest, !.srv = None, !.res = "none"]
  <1>1. job \in [Procs -> Job] /\ job[p] \in Job
    BY DEF HealthInv, TypeOK
  <1>2. /\ next \in Job /\ next.res = "none" /\ next.srv = None
        /\ next.snap = job[p].snap /\ next.todo \subseteq job[p].todo
    BY <1>1 DEF Job, Outcome
  <1>3. job' = [job EXCEPT ![p] = Idle] \/ job' = [job EXCEPT ![p] = next]
    <2>1. CASE Done(p, s)
      <3>1. job' = [job EXCEPT ![p] = IF rest = {} THEN Idle ELSE next]
        BY <2>1 DEF Done
      <3>2. CASE rest = {}
        BY <3>1, <3>2
      <3>3. CASE rest # {}
        BY <3>1, <3>3
      <3> QED
        BY <3>2, <3>3
    <2> QED
      BY <2>1
  <1> HIDE DEF next
  <1> QED
    BY <1>1, <1>2, <1>3, IdleProc

(* A row is written back: of a server that is held it is the status that   *)
(* the task loaded.                                                        *)
LEMMA StoreHealth ==
    ASSUME HealthInv, NEW p \in Procs, NEW s \in job[p].todo, NEW new \in Status \cup {Gone},
           Store(p, s, new), fails' \in [Procs -> [Servers -> 0..Strikes]],
           UNCHANGED reach, held' \subseteq held,
           s \in held' /\ MaintenanceIsKnown(s) => new = "maintenance"
    PROVE  HealthInv'
  <1>1. s \in Servers
    BY DEF HealthInv, TypeOK, Job
  <1>2. /\ job' \in [Procs -> Job]
        /\ \A q \in Procs : q # p => job'[q] = job[q]
        /\ job'[p].res = "none" /\ job'[p].srv = None
        /\ job'[p] = Idle \/ job'[p].snap = job[p].snap
        /\ job'[p].todo \subseteq job[p].todo
    BY DoneHealth DEF Store
  <1>3. status' = status \/ status' = [status EXCEPT ![s] = new]
    BY DEF Store
  <1>4. TypeOK'
    BY <1>1, <1>2, <1>3 DEF HealthInv, TypeOK
  <1>5. ProbedIsDue'
    BY <1>2 DEF HealthInv, ProbedIsDue
  <1>6. OrdersKnown'
    <2> SUFFICES ASSUME NEW t \in held, t \in held'
                 PROVE  DeletedIsLeft(t)' \/ MaintenanceIsKnown(t)'
      BY DEF OrdersKnown
    <2>1. t \in Servers
      BY DEF HealthInv, TypeOK
    <2>2. CASE DeletedIsLeft(t)
      <3>1. t # s
        BY <2>2 DEF DeletedIsLeft, InFlight
      <3> QED
        BY <1>2, <1>3, <2>1, <2>2, <3>1 DEF DeletedIsLeft, InFlight, HealthInv, TypeOK
    <2>3. CASE MaintenanceIsKnown(t)
      <3>1. status'[t] = "maintenance"
        BY <1>1, <1>3, <2>1, <2>3 DEF MaintenanceIsKnown, HealthInv, TypeOK
      <3>2. \A q \in Procs : t \in job'[q].todo =>
              job'[q].snap[t] = "maintenance" /\ (job'[q].srv = t => job'[q].res # "failed")
        BY <1>2, <2>3, IdleProc DEF MaintenanceIsKnown
      <3> QED
        BY <2>3, <3>1, <3>2 DEF MaintenanceIsKnown
    <2> QED
      BY <2>2, <2>3 DEF HealthInv, OrdersKnown
  <1> QED
    BY <1>4, <1>5, <1>6 DEF HealthInv

(* The strikes are counted up to the limit.                                *)
LEMMA CountedType ==
    ASSUME HealthInv, NEW p \in Procs, NEW s \in Servers
    PROVE  Counted(p, s) \in 0..Strikes
  <1>1. fails[p][s] \in 0..Strikes /\ Strikes \in Nat
    BY HealthAssumption DEF HealthInv, TypeOK
  <1> QED
    BY <1>1 DEF Counted, More

LEMMA SaveAllHealth ==
    ASSUME HealthInv, NEW p \in Procs, SaveAll(p)
    PROVE  HealthInv'
  <1>0. PICK s : s = job[p].srv
    OBVIOUS
  <1>1. /\ job[p].op = "all" /\ job[p].res # "none"
        /\ fails' = [fails EXCEPT ![p][s] = Counted(p, s)]
        /\ Store(p, s, Checked(p, s))
        /\ UNCHANGED <<reach, held>>
    BY <1>0 DEF SaveAll
  <1>2. s \in job[p].todo /\ s \in Servers /\ job[p] \in Job
    BY <1>0, <1>1 DEF HealthInv, ProbedIsDue, TypeOK, Job
  <1>3. fails' \in [Procs -> [Servers -> 0..Strikes]]
    BY <1>1, <1>2, CountedType DEF HealthInv, TypeOK
  <1>4. Checked(p, s) \in Status \cup {Gone}
    BY <1>2 DEF Checked, Status, Job
  <1>5. MaintenanceIsKnown(s) => Checked(p, s) = "maintenance"
    BY <1>0, <1>2 DEF MaintenanceIsKnown, Checked
  <1> QED
    BY <1>1, <1>2, <1>3, <1>4, <1>5, StoreHealth

LEMMA SaveSingleHealth ==
    ASSUME HealthInv, NEW p \in Procs, SaveSingle(p)
    PROVE  HealthInv'
  <1>0. PICK s : s = job[p].srv
    OBVIOUS
  <1> DEFINE new == CASE job[p].res = "failed"   -> "down"
                      [] job[p].snap[s] = "down" -> "active"
                      [] OTHER                   -> job[p].snap[s]
  <1>1. /\ job[p].op = "single" /\ job[p].res # "none"
        /\ Store(p, s, new)
        /\ UNCHANGED <<reach, fails, held>>
    BY <1>0 DEF SaveSingle
  <1>2. s \in job[p].todo /\ s \in Servers /\ job[p] \in Job
    BY <1>0, <1>1 DEF HealthInv, ProbedIsDue, TypeOK, Job
  <1>3. new \in Status \cup {Gone}
    BY <1>2 DEF Status, Job
  <1>4. MaintenanceIsKnown(s) => new = "maintenance"
    BY <1>0, <1>2 DEF MaintenanceIsKnown
  <1>5. fails' \in [Procs -> [Servers -> 0..Strikes]]
    BY <1>1 DEF HealthInv, TypeOK
  <1> HIDE DEF new
  <1> QED
    BY <1>1, <1>2, <1>3, <1>4, <1>5, StoreHealth

(* An edit that names another status ends the order.                       *)
LEMMA SaveEditHealth ==
    ASSUME HealthInv, NEW p \in Procs, NEW s \in Servers, SaveEdit(p, s)
    PROVE  HealthInv'
  <1>1. s \in job[p].todo /\ UNCHANGED <<reach, fails>>
    BY DEF SaveEdit
  <1>2. PICK v \in Status :
          /\ Store(p, s, v)
          /\ held' = IF v = job[p].snap[s] THEN held ELSE held \ {s}
    BY DEF SaveEdit
  <1>3. held' \subseteq held /\ (s \in held' => v = job[p].snap[s])
    BY <1>2
  <1>4. s \in held' /\ MaintenanceIsKnown(s) => v = "maintenance"
    BY <1>1, <1>3 DEF MaintenanceIsKnown
  <1>5. fails' \in [Procs -> [Servers -> 0..Strikes]]
    BY <1>1 DEF HealthInv, TypeOK
  <1> QED
    BY <1>1, <1>2, <1>3, <1>4, <1>5, StoreHealth

(* An order is held from the moment it is given, if nobody has the server  *)
(* in hand, and every other setting of the status ends it.                 *)
LEMMA OrderHealth ==
    ASSUME HealthInv, NEW s \in Servers, SetStatus(s) \/ Delete(s)
    PROVE  HealthInv'
  <1>1. /\ UNCHANGED <<reach, fails, job>> /\ status[s] # Gone
        /\ \E v \in Status \cup {Gone} :
             /\ status' = [status EXCEPT ![s] = v]
             /\ \/ held' = held \ {s}
                \/ /\ held' = held \cup {s} /\ ~InFlight(s)
                   /\ v = Gone \/ (v = "maintenance" /\ reach[s])
    BY DEF SetStatus, Delete
  <1>2. PICK v \in Status \cup {Gone} :
             /\ status' = [status EXCEPT ![s] = v]
             /\ \/ held' = held \ {s}
                \/ /\ held' = held \cup {s} /\ ~InFlight(s)
                   /\ v = Gone \/ (v = "maintenance" /\ reach[s])
    BY <1>1
  <1>3. status'[s] = v /\ \A t \in Servers : t # s => status'[t] = status[t]
    BY <1>2 DEF HealthInv, TypeOK
  <1>4. TypeOK'
    BY <1>1, <1>2 DEF HealthInv, TypeOK
  <1>5. ProbedIsDue'
    BY <1>1 DEF HealthInv, ProbedIsDue
  <1>6. OrdersKnown'
    <2> SUFFICES ASSUME NEW t \in held'
                 PROVE  DeletedIsLeft(t)' \/ MaintenanceIsKnown(t)'
      BY DEF OrdersKnown
    <2>1. CASE t = s
      BY <1>1, <1>2, <1>3, <2>1 DEF DeletedIsLeft, MaintenanceIsKnown, InFlight
    <2>2. CASE t # s
      <3>1. t \in held /\ t \in Servers /\ status'[t] = status[t]
        BY <1>2, <1>3, <2>2 DEF HealthInv, TypeOK
      <3> QED
        BY <1>1, <3>1 DEF HealthInv, OrdersKnown, DeletedIsLeft, MaintenanceIsKnown, InFlight
    <2> QED
      BY <2>1, <2>2
  <1> QED
    BY <1>4, <1>5, <1>6 DEF HealthInv

(* A server that fails ends its maintenance, and a deleted one stays so.   *)
LEMMA FlipHealth ==
    ASSUME HealthInv, NEW s \in Servers, Flip(s)
    PROVE  HealthInv'
  <1>1. /\ reach' = [reach EXCEPT ![s] = ~@]
        /\ held' = IF status[s] = Gone THEN held ELSE held \ {s}
        /\ UNCHANGED <<status, fails, job>>
    BY DEF Flip
  <1>2. TypeOK' /\ ProbedIsDue'
    BY <1>1 DEF HealthInv, TypeOK, ProbedIsDue
  <1>3. OrdersKnown'
    <2> SUFFICES ASSUME NEW t \in held'
                 PROVE  DeletedIsLeft(t)' \/ MaintenanceIsKnown(t)'
      BY DEF OrdersKnown
    <2>1. t \in held /\ t \in Servers /\ (t = s => status[t] = Gone)
      BY <1>1 DEF HealthInv, TypeOK
    <2>2. CASE DeletedIsLeft(t)
      BY <1>1, <2>2 DEF DeletedIsLeft, InFlight
    <2>3. CASE MaintenanceIsKnown(t)
      <3>1. t # s /\ reach'[t] = reach[t]
        BY <1>1, <2>1, <2>3 DEF MaintenanceIsKnown, Gone, HealthInv, TypeOK
      <3> QED
        BY <1>1, <2>3, <3>1 DEF MaintenanceIsKnown
    <2> QED
      BY <2>1, <2>2, <2>3 DEF HealthInv, OrdersKnown
  <1> QED
    BY <1>2, <1>3 DEF HealthInv

LEMMA HealthNext == HealthInv /\ [Next]_vars => HealthInv'
  <1> SUFFICES ASSUME HealthInv, [Next]_vars PROVE HealthInv'
    OBVIOUS
  <1>1. CASE UNCHANGED vars
    BY <1>1 DEF vars, HealthInv, TypeOK, ProbedIsDue, OrdersKnown, DeletedIsLeft,
                MaintenanceIsKnown, InFlight
  <1>2. ASSUME NEW p \in Procs, StartAll(p) \/ StartSingle(p) \/ StartEdit(p)
        PROVE  HealthInv'
    BY <1>2, StartHealth
  <1>3. ASSUME NEW p \in Procs, Step(p)
        PROVE  HealthInv'
    BY <1>3, SaveAllHealth, SaveSingleHealth, SaveEditHealth, ProbeHealth DEF Step
  <1>4. ASSUME NEW s \in Servers, SetStatus(s) \/ Delete(s) \/ Flip(s)
        PROVE  HealthInv'
    BY <1>4, OrderHealth, FlipHealth
  <1> QED
    BY <1>1, <1>2, <1>3, <1>4 DEF Next

(* In every run of the checks, edits and orders, no task has an undisputed *)
(* order in hand that it does not know.                                    *)
THEOREM HealthInvariant == Spec => []HealthInv
  BY HealthInit, HealthNext, PTL DEF Spec

(* OrdersHold: a maintenance or a deletion that nobody disputes is not     *)
(* undone by any check or edit.                                            *)
THEOREM OrdersStand == Spec => []OrdersHold
  <1>1. HealthInv => OrdersHold
    BY DEF HealthInv, OrdersKnown, DeletedIsLeft, MaintenanceIsKnown, OrdersHold
  <1> QED
    BY <1>1, HealthInvariant, PTL

-----------------------------------------------------------------------------
(* SessionLimits.  Types first.                                            *)

SyncJob == [pc : PC, todo : SUBSET Pids, found : SUBSET Pids,
            limit : [Users -> Limits \cup {NotFound}]]
Line == [user : Users, max : Limits]

LEMMA SyncTypes ==
    /\ NoSync \in SyncJob /\ NoSync.pc = "idle" /\ NoSync.todo = {} /\ NoSync.found = {}
    /\ NotFound \notin Limits
  BY SessionLimitsAssumption DEF NoSync, SyncJob, PC, NotFound

(* A session of a listing existed.                                         *)
Existed == \A w \in Workers : sync[w].todo \cup sync[w].found \subseteq 1..Len(user)

SessionTypes == SessionTypeOK /\ Existed

LEMMA MinIsLeast ==
    ASSUME NEW S \in SUBSET Pids, S # {}
    PROVE  Min(S) \in S /\ \A y \in S : Min(S) <= y
  <1>1. PICK n \in Nat : n = MaxPid
    BY SessionLimitsAssumption
  <1> DEFINE R == {ss \in Nat \X Nat : ss[1] < ss[2]}
  <1>2. \E x \in S : \A y \in S : x <= y
    <2>1. IsWellFoundedOn(OpToRel(<, Nat), Nat)
      BY NatLessThanWellFounded
    <2>2. R = OpToRel(<, Nat)
      BY DEF OpToRel
    <2>3. S \subseteq Nat
      BY <1>1 DEF Pids
    <2>4. PICK x \in S : \A y \in S : ~(<<y, x>> \in R)
      BY <2>1, <2>2, <2>3, WFMin
    <2>5. ASSUME NEW y \in S PROVE x <= y
      <3>1. x \in Nat /\ y \in Nat
        BY <2>3
      <3>2. y < x => <<y, x>> \in R
        BY <3>1
      <3> QED
        BY <2>4, <3>1, <3>2
    <2> QED
      BY <2>5
  <1> QED
    BY <1>2 DEF Min

LEMMA InitTypes == SessionInit => SessionTypes
  <1> SUFFICES ASSUME SessionInit PROVE SessionTypes
    OBVIOUS
  <1>1. file \in Seq(Line) /\ user \in Seq(Users) /\ Len(user) = 0
    BY DEF SessionInit
  <1>2. sync \in [Workers -> SyncJob]
    BY SyncTypes DEF SessionInit
  <1>3. 0 \in 0..MaxEvents /\ 0 <= MaxPid /\ 0 \in 0..MaxStartups
    BY SessionLimitsAssumption
  <1>4. SessionTypeOK
    BY <1>1, <1>2, <1>3 DEF SessionInit, SessionTypeOK, SyncJob, Line
  <1>5. Existed
    BY SyncTypes DEF SessionInit, Existed
  <1> QED
    BY <1>4, <1>5 DEF SessionTypes

(* set_max_logins: the lines of the file are lines of accounts.            *)
LEMMA LinesStay ==
    ASSUME SessionTypeOK, NEW u \in Users, NEW n \in Limits,
           SetMaxLogins(u, n) \/ SetMaxLoginsFails(u, n)
    PROVE  file' \in Seq(Line)
  <1> DEFINE line == [user |-> u, max |-> n]
  <1>1. file \in Seq(Line) /\ line \in Line
    BY DEF SessionTypeOK, Line
  <1>2. CASE file' = Append(file, line)
    <2> HIDE DEF line
    <2> QED
      BY <1>1, <1>2
  <1>3. CASE file' = [i \in DOMAIN file |-> IF i \in Hit(u) THEN line ELSE file[i]]
    <2> HIDE DEF line
    <2>2. DOMAIN file = 1..Len(file) /\ Len(file) \in Nat /\ \A i \in DOMAIN file : file[i] \in Line
      BY <1>1
    <2>3. file' \in [1..Len(file) -> Line]
      BY <1>1, <1>3, <2>2
    <2> QED
      BY <2>2, <2>3, SeqDef
  <1>4. CASE UNCHANGED file
    BY <1>1, <1>4
  <1> QED
    BY <1>2, <1>3, <1>4 DEF SetMaxLogins, SetMaxLoginsFails

LEMMA EventTypes ==
    ASSUME SessionTypeOK, Event \/ UNCHANGED events
    PROVE  events' \in 0..MaxEvents
  BY SessionLimitsAssumption DEF Event, SessionTypeOK

(* create_account and AccountUpdateView                                    *)
LEMMA NodeTypes ==
    ASSUME SessionTypes, NEW u \in Users, NEW n \in Limits,
           \/ Create(u, n) \/ CreateFails(u, n) \/ PatchSave(u, n)
           \/ \E c \in patch : PatchCall(c)
    PROVE  SessionTypes'
  <1> USE DEF SessionTypes
  <1>0. /\ Line = [user : Users, max : Limits]
        /\ SyncJob = [pc : PC, todo : SUBSET Pids, found : SUBSET Pids,
                      limit : [Users -> Limits \cup {NotFound}]]
    BY DEF Line, SyncJob
  <1>1. CASE Create(u, n)
    <2>1. file' \in Seq(Line)
      BY <1>1, LinesStay DEF Create
    <2>2. UNCHANGED <<patch, serving, passed, crowd, user, alive, rows, sync, excess, resolved>>
      BY <1>1 DEF Create
    <2>3. account' \in [Users -> {"none", "active", "other"}] /\ conns' \in [Users -> Limits \cup {NotFound}]
      BY <1>1 DEF Create, SessionTypeOK
    <2>4. \A v \in Users : account'[v] # "none" => conns'[v] \in Limits
      BY <1>1 DEF Create, SessionTypeOK
    <2>5. unwritten' \subseteq Users
      BY <1>1 DEF Create, SetMaxLoginsFails, SessionTypeOK
    <2>6. events' \in 0..MaxEvents
      BY <1>1, EventTypes DEF Create
    <2> QED
      BY <1>0, <2>1, <2>2, <2>3, <2>4, <2>5, <2>6 DEF SessionTypeOK, Existed
  <1>2. CASE CreateFails(u, n)
    <2>1. file' \in Seq(Line)
      BY <1>2, LinesStay DEF CreateFails
    <2>2. UNCHANGED <<account, conns, patch, serving, passed, crowd, user, alive, rows, sync,
                      excess, resolved>>
      BY <1>2 DEF CreateFails, panel
    <2>3. unwritten' \subseteq Users
      BY <1>2 DEF CreateFails, SetMaxLoginsFails, SessionTypeOK
    <2>4. events' \in 0..MaxEvents
      BY <1>2, EventTypes DEF CreateFails
    <2> QED
      BY <1>0, <2>1, <2>2, <2>3, <2>4 DEF SessionTypeOK, Existed
  <1>3. CASE PatchSave(u, n)
    <2>1. UNCHANGED <<account, serving, file, unwritten, passed, crowd, user, alive, rows, sync,
                      resolved>>
      BY <1>3 DEF PatchSave, node
    <2>2. /\ conns' \in [Users -> Limits \cup {NotFound}]
          /\ \A v \in Users : account'[v] # "none" => conns'[v] \in Limits
      BY <1>3 DEF PatchSave, SessionTypeOK
    <2>3. patch' \subseteq [user : Users, max : Limits]
      BY <1>3 DEF PatchSave, SessionTypeOK
    <2>4. excess' \subseteq 1..Len(user')
      BY <1>3, <2>1 DEF PatchSave, SessionTypeOK, Beyond
    <2>5. events' \in 0..MaxEvents
      BY <1>3, EventTypes DEF PatchSave
    <2> QED
      BY <1>0, <2>1, <2>2, <2>3, <2>4, <2>5 DEF SessionTypeOK, Existed
  <1>4. CASE \E c \in patch : PatchCall(c)
    <2>1. PICK c \in patch : PatchCall(c)
      BY <1>4
    <2>2. UNCHANGED <<account, conns, serving, passed, crowd, user, alive, rows, sync, excess, resolved>>
      BY <2>1 DEF PatchCall
    <2>3. c.user \in Users /\ c.max \in Limits
      BY DEF SessionTypeOK
    <2>4. file' \in Seq(Line)
      BY <1>0, <2>1, <2>3, LinesStay DEF PatchCall, SessionTypeOK
    <2>5. patch' \subseteq [user : Users, max : Limits]
      BY <2>1 DEF PatchCall, SessionTypeOK
    <2>6. unwritten' \subseteq Users
      BY <2>1, <2>3 DEF PatchCall, SetMaxLoginsFails, SessionTypeOK
    <2>7. events' \in 0..MaxEvents
      BY <2>1, EventTypes DEF PatchCall
    <2> QED
      BY <1>0, <2>2, <2>4, <2>5, <2>6, <2>7 DEF SessionTypeOK, Existed
  <1> QED
    BY <1>1, <1>2, <1>3, <1>4

(* Logins, and the statuses                                                *)
LEMMA LoginTypes ==
    ASSUME SessionTypes, NEW u \in Users,
           ChangeStatus(u) \/ CheckLogin(u) \/ Login(u) \/ LoginFails(u)
    PROVE  SessionTypes'
  <1> USE DEF SessionTypes
  <1>0. /\ Line = [user : Users, max : Limits]
        /\ SyncJob = [pc : PC, todo : SUBSET Pids, found : SUBSET Pids,
                      limit : [Users -> Limits \cup {NotFound}]]
    BY DEF Line, SyncJob
  <1>1. CASE ChangeStatus(u)
    <2>1. UNCHANGED <<conns, patch, serving, file, unwritten, passed, crowd, user, alive, rows, sync,
                      excess, resolved>>
      BY <1>1 DEF ChangeStatus, node
    <2>2. account' \in [Users -> {"none", "active", "other"}]
      BY <1>1 DEF ChangeStatus, SessionTypeOK
    <2>3. \A v \in Users : account'[v] # "none" => account[v] # "none"
      BY <1>1 DEF ChangeStatus, SessionTypeOK
    <2>4. events' \in 0..MaxEvents
      BY <1>1, EventTypes DEF ChangeStatus
    <2> QED
      BY <1>0, <2>1, <2>2, <2>3, <2>4 DEF SessionTypeOK, Existed
  <1>2. ASSUME CheckLogin(u) \/ Login(u) \/ LoginFails(u)
        PROVE  passed' \in [Users -> 0..MaxStartups] /\ crowd' \in [Users -> 0..MaxStartups]
    <2>1. /\ passed[u] \in 0..MaxStartups /\ MaxStartups \in Nat
          /\ passed \in [Users -> 0..MaxStartups] /\ crowd \in [Users -> 0..MaxStartups]
      BY SessionLimitsAssumption DEF SessionTypeOK
    <2>2. CASE CheckLogin(u)
      <3>1. passed[u] + 1 \in 0..MaxStartups
        BY <2>1, <2>2 DEF CheckLogin
      <3> QED
        BY <2>1, <2>2, <3>1 DEF CheckLogin
    <2>3. CASE Login(u) \/ LoginFails(u)
      <3>1. passed[u] - 1 \in 0..MaxStartups
        BY <2>1, <2>3 DEF Login, LoginFails
      <3> QED
        BY <2>1, <2>3, <3>1 DEF Login, LoginFails
    <2> QED
      BY <1>2, <2>2, <2>3
  <1>3. CASE CheckLogin(u) \/ LoginFails(u)
    <2>1. UNCHANGED <<account, conns, patch, serving, file, unwritten, user, alive, rows, sync, events,
                      excess, resolved>>
      BY <1>3 DEF CheckLogin, LoginFails, panel
    <2> QED
      BY <1>0, <1>2, <1>3, <2>1 DEF SessionTypeOK, Existed
  <1>4. CASE Login(u)
    <2>1. UNCHANGED <<account, conns, patch, serving, file, unwritten, rows, sync, events, resolved>>
      BY <1>4 DEF Login, panel
    <2>2. user' \in Seq(Users) /\ Len(user') = Len(user) + 1 /\ Len(user') <= MaxPid
      BY <1>4, SessionLimitsAssumption DEF Login, SessionTypeOK
    <2>3. Len(user) \in Nat /\ 1..Len(user) \subseteq 1..Len(user')
      BY <2>2 DEF SessionTypeOK
    <2>4. alive' \subseteq 1..Len(user')
      <3>1. alive' = alive \cup {Len(user')} /\ alive \subseteq 1..Len(user)
        BY <1>4 DEF Login, SessionTypeOK
      <3>2. Len(user') \in 1..Len(user')
        BY <2>2, <2>3
      <3> QED
        BY <2>3, <3>1, <3>2
    <2>5. excess' \subseteq 1..Len(user') /\ rows' \subseteq 1..Len(user')
      BY <1>4, <2>1, <2>3, <2>4 DEF Login, SessionTypeOK, Beyond
    <2>6. Existed'
      BY <2>1, <2>3 DEF Existed
    <2> QED
      BY <1>0, <1>2, <1>4, <2>1, <2>2, <2>4, <2>5, <2>6 DEF SessionTypeOK
  <1> QED
    BY <1>1, <1>3, <1>4

LEMMA SyncStepTypes ==
    ASSUME SessionTypes, NEW w \in Workers, StartSync(w) \/ SyncStep(w) \/ Interrupt(w)
    PROVE  SessionTypes'
  <1> USE DEF SessionTypes
  <1>0. /\ SyncJob = [pc : PC, todo : SUBSET Pids, found : SUBSET Pids,
                      limit : [Users -> Limits \cup {NotFound}]]
        /\ PC = {"idle", "listed", "fetched", "insert", "kill"}
        /\ sync \in [Workers -> SyncJob]
    BY DEF SyncJob, PC, SessionTypeOK
  <1>1. 1..Len(user) \subseteq Pids /\ Len(user) \in Nat
    BY SessionLimitsAssumption DEF SessionTypeOK, Pids
  <1>2. /\ UNCHANGED <<panel, node, user>>
        /\ rows' \subseteq 1..Len(user) /\ alive' \subseteq 1..Len(user) /\ excess' \subseteq 1..Len(user)
        /\ events' \in 0..MaxEvents /\ resolved' \in BOOLEAN
        /\ \E j \in SyncJob : /\ sync' = [sync EXCEPT ![w] = j]
                              /\ j.todo \cup j.found \subseteq 1..Len(user)
    <2>1. CASE StartSync(w)
      <3>1. PICK seen \in {alive, {}} : sync' = [sync EXCEPT ![w].pc = "listed", ![w].todo = seen]
        BY <2>1 DEF StartSync
      <3>2. events' \in 0..MaxEvents
        BY <2>1, SessionLimitsAssumption DEF StartSync, Event, SessionTypeOK
      <3> DEFINE j == [sync[w] EXCEPT !.pc = "listed", !.todo = seen]
      <3>3. j \in SyncJob
        BY <1>0, <1>1 DEF SessionTypeOK
      <3>4. j.todo \cup j.found \subseteq 1..Len(user)
        BY <1>0 DEF Existed, SessionTypeOK
      <3>5. sync' = [sync EXCEPT ![w] = j]
        BY <3>1
      <3>6. resolved' \in BOOLEAN
        BY <2>1 DEF StartSync, SessionTypeOK
      <3>7. UNCHANGED <<panel, node, user, alive, rows, excess>>
        BY <2>1 DEF StartSync
      <3> HIDE DEF j
      <3> QED
        BY <3>2, <3>3, <3>4, <3>5, <3>6, <3>7 DEF SessionTypeOK
    <2>2. CASE Fetch(w)
      <3> DEFINE lim == [u \in Users |-> IF account[u] = "active" THEN conns[u] ELSE NotFound]
                 j == [sync[w] EXCEPT !.pc = "fetched", !.limit = lim,
                                      !.todo = {p \in @ : lim[user[p]] # NotFound}]
      <3>1. lim \in [Users -> Limits \cup {NotFound}]
        BY DEF SessionTypeOK
      <3>2. sync' = [sync EXCEPT ![w] = j]
        BY <2>2 DEF Fetch
      <3>3. j \in SyncJob /\ j.todo \cup j.found \subseteq 1..Len(user)
        <4> HIDE DEF lim
        <4> QED BY <1>0, <3>1 DEF Existed
      <3> QED
        BY <2>2, <3>2, <3>3 DEF Fetch, SessionTypeOK
    <2>3. CASE DeleteRows(w)
      <3>1. [sync[w] EXCEPT !.pc = "insert"] \in SyncJob
        BY <1>0
      <3> QED
        BY <1>0, <2>3, <3>1 DEF DeleteRows, SessionTypeOK, Existed
    <2>4. CASE Insert(w)
      <3> DEFINE p == Min(sync[w].todo)
                 j == [sync[w] EXCEPT !.todo = @ \ {p}, !.found = @ \cup {p}]
      <3>1. p \in sync[w].todo
        BY <1>0, <2>4, MinIsLeast DEF Insert
      <3>2. p \in 1..Len(user)
        BY <3>1 DEF Existed
      <3>3. j \in SyncJob /\ j.todo \cup j.found \subseteq 1..Len(user)
        <4> HIDE DEF p
        <4> QED BY <1>0, <1>1, <3>2 DEF Existed
      <3>4. CASE p \in rows
        <4>1. sync' = [sync EXCEPT ![w] = NoSync]
          BY <2>4, <3>4 DEF Insert
        <4> QED
          BY <2>4, <3>4, <4>1, SyncTypes DEF Insert, SessionTypeOK
      <3>5. CASE p \notin rows
        <4>1. sync' = [sync EXCEPT ![w] = j] /\ rows' = rows \cup {p}
          BY <2>4, <3>5 DEF Insert
        <4> HIDE DEF j, p
        <4> QED
          BY <2>4, <3>2, <3>3, <4>1 DEF Insert, SessionTypeOK
      <3> QED
        BY <3>4, <3>5
    <2>5. CASE Count(w)
      <3> DEFINE x == Excess(sync[w].found, sync[w].limit)
                 j == [NoSync EXCEPT !.pc = "kill", !.todo = x]
      <3>1. x \subseteq sync[w].found
        BY DEF Excess
      <3>2. sync' = [sync EXCEPT ![w] = j]
        BY <2>5 DEF Count
      <3>3. j \in SyncJob /\ j.todo \cup j.found \subseteq 1..Len(user)
        <4>1. x \in SUBSET Pids /\ x \subseteq 1..Len(user)
          BY <1>0, <3>1 DEF Existed
        <4> HIDE DEF x
        <4> QED BY <1>0, <4>1, SyncTypes
      <3> HIDE DEF j
      <3> QED
        BY <2>5, <3>2, <3>3 DEF Count, SessionTypeOK
    <2>6. CASE Kill(w)
      <3>1. PICK v : v \subseteq sync[w].todo /\ alive' = alive \ v /\ excess' = excess \ v
                     /\ sync' = [sync EXCEPT ![w].todo = @ \ v]
        BY <2>6 DEF Kill
      <3>2. [sync[w] EXCEPT !.todo = @ \ v] \in SyncJob
        BY <1>0
      <3> QED
        BY <1>0, <2>6, <3>1, <3>2 DEF Kill, SessionTypeOK, Existed
    <2>7. CASE EndSync(w)
      BY <2>7, SyncTypes DEF EndSync, SessionTypeOK
    <2>8. CASE Interrupt(w)
      <3>1. events' \in 0..MaxEvents
        BY <2>8, SessionLimitsAssumption DEF Interrupt, Event, SessionTypeOK
      <3> QED
        BY <2>8, <3>1, SyncTypes DEF Interrupt, SessionTypeOK
    <2> QED
      BY <2>1, <2>2, <2>3, <2>4, <2>5, <2>6, <2>7, <2>8 DEF SyncStep
  <1>3. PICK j \in SyncJob : sync' = [sync EXCEPT ![w] = j] /\ j.todo \cup j.found \subseteq 1..Len(user)
    BY <1>2
  <1>4. sync' \in [Workers -> SyncJob]
    BY <1>0, <1>3
  <1>5. Existed'
    BY <1>0, <1>2, <1>3 DEF Existed
  <1>6. SessionTypeOK'
    BY <1>0, <1>2, <1>4 DEF panel, node, SessionTypeOK
  <1> QED
    BY <1>5, <1>6

LEMMA NextTypes == SessionTypes /\ [SessionNext]_sessionVars => SessionTypes'
  <1> SUFFICES ASSUME SessionTypes, [SessionNext]_sessionVars PROVE SessionTypes'
    OBVIOUS
  <1>1. ASSUME NEW u \in Users, NEW n \in Limits, Create(u, n) \/ CreateFails(u, n) \/ PatchSave(u, n)
        PROVE  SessionTypes'
    BY <1>1, NodeTypes
  <1>2. ASSUME NEW c \in patch, PatchCall(c) PROVE SessionTypes'
    <2>1. c.user \in Users /\ c.max \in Limits
      BY DEF SessionTypes, SessionTypeOK
    <2> QED
      BY <1>2, <2>1, NodeTypes
  <1>3. ASSUME NEW u \in Users, ChangeStatus(u) \/ CheckLogin(u) \/ Login(u) \/ LoginFails(u)
        PROVE  SessionTypes'
    BY <1>3, LoginTypes
  <1>4. ASSUME NEW p \in alive, Logout(p) PROVE SessionTypes'
    BY <1>4 DEF Logout, panel, node, SessionTypes, SessionTypeOK, Existed
  <1>5. CASE ChangeServer
    <2>1. events' \in 0..MaxEvents
      BY <1>5, EventTypes DEF ChangeServer, SessionTypes
    <2> QED
      BY <1>5, <2>1 DEF ChangeServer, node, SessionTypes, SessionTypeOK, Existed
  <1>6. CASE UNCHANGED sessionVars
    BY <1>6 DEF sessionVars, panel, node, SessionTypes, SessionTypeOK, Existed
  <1> QED
    BY <1>1, <1>2, <1>3, <1>4, <1>5, <1>6, SyncStepTypes DEF SessionNext

-----------------------------------------------------------------------------
(* Runs of the task that overlap.  Rows are created in the order of the    *)
(* listing, so of the runs that create rows, the one that is ahead of all  *)
(* rows cannot meet one that is there already.                             *)

(* A run that nothing but an interruption keeps from its end: it has yet   *)
(* to empty the table, or is past it, or it is ahead.                      *)
Ahead(w) ==
    \/ sync[w].pc \in {"listed", "fetched", "kill"}
    \/ sync[w].pc = "insert" /\ \A r \in rows, t \in sync[w].todo : r < t

Promise == resolved \/ \E w \in Workers : Ahead(w)

Promised == ~AllIdle => Promise

(* Whoever creates the row of p is ahead, or leaves the one ahead in front.*)
LEMMA InsertAhead ==
    ASSUME SessionTypes, NEW v \in Workers, Insert(v), NEW w \in Workers, Ahead(w)
    PROVE  Ahead(w)' \/ Ahead(v)'
  <1> DEFINE p == Min(sync[v].todo)
  <1>1. /\ sync \in [Workers -> SyncJob]
        /\ sync[v].todo \in SUBSET Pids /\ sync[w].todo \in SUBSET Pids
        /\ rows \in SUBSET Pids /\ Pids \subseteq Int
    <2>1. Len(user) \in Nat /\ Len(user) <= MaxPid /\ rows \subseteq 1..Len(user) /\ MaxPid \in Nat
      BY SessionLimitsAssumption DEF SessionTypes, SessionTypeOK
    <2>2. rows \in SUBSET Pids /\ Pids \subseteq Int
      BY <2>1 DEF Pids
    <2>3. sync \in [Workers -> SyncJob]
      BY DEF SessionTypes, SessionTypeOK, SyncJob
    <2> QED
      BY <2>2, <2>3 DEF SyncJob
  <1>2. p \in sync[v].todo /\ \A y \in sync[v].todo : p <= y
    BY <1>1, MinIsLeast DEF Insert
  <1>2a. /\ \A t \in sync[v].todo \cup sync[w].todo : t \in Int
        /\ \A r \in rows : r \in Int
    BY <1>1
  <1>3. sync[v].pc = "insert" /\ \A x \in Workers : x # v => sync'[x] = sync[x]
    BY <1>1 DEF Insert
  <1> HIDE DEF p
  <1>4. CASE p \in rows
    <2>1. v # w
      BY <1>1, <1>2, <1>3, <1>4 DEF Ahead
    <2>2. UNCHANGED rows
      BY <1>4 DEF Insert, p
    <2> QED
      BY <1>3, <2>1, <2>2 DEF Ahead
  <1>5. CASE p \notin rows
    <2>1. /\ rows' = rows \cup {p}
          /\ sync'[v].pc = "insert" /\ sync'[v].todo = sync[v].todo \ {p}
      BY <1>1, <1>3, <1>5 DEF Insert, p, SyncJob
    <2>2. CASE \A r \in rows : r < p
      <3>1. CASE v = w \/ (sync[w].pc = "insert" /\ \E t \in sync[w].todo : t <= p)
        <4>1. ASSUME NEW r \in rows', NEW t \in sync'[v].todo PROVE r < t
          <5>1. p <= t /\ t # p /\ r <= p /\ r \in Int /\ t \in Int /\ p \in Int
            <6>1. t \in sync[v].todo /\ t # p /\ p \in sync[v].todo
              BY <1>2, <2>1
            <6>2. r = p \/ (r \in rows /\ r < p)
              BY <2>1, <2>2
            <6>3. p \in Int /\ t \in Int /\ r \in Int
              BY <1>2a, <6>1, <6>2
            <6> QED
              BY <1>2, <6>1, <6>2, <6>3
          <5> QED
            BY <5>1
        <4> QED
          BY <2>1, <4>1 DEF Ahead
      <3>2. CASE v # w /\ ~(sync[w].pc = "insert" /\ \E t \in sync[w].todo : t <= p)
        <4>1. sync'[w] = sync[w]
          BY <1>3, <3>2
        <4>2. CASE sync[w].pc = "insert"
          <5>1. ASSUME NEW r \in rows', NEW t \in sync[w].todo PROVE r < t
            <6>1. p < t
              BY <1>2, <1>2a, <3>2, <4>2
            <6>2. r \in rows => r < t
              BY <4>2 DEF Ahead
            <6> QED
              BY <2>1, <6>1, <6>2
          <5> QED
            BY <4>1, <4>2, <5>1 DEF Ahead
        <4>3. CASE sync[w].pc # "insert"
          BY <4>1, <4>3 DEF Ahead
        <4> QED
          BY <4>2, <4>3
      <3> QED
        BY <3>1, <3>2
    <2>3. CASE \E r \in rows : ~(r < p)
      <3>1. PICK q \in rows : ~(q < p)
        BY <2>3
      <3>2. v # w
        BY <1>2, <1>3, <3>1 DEF Ahead
      <3>3. CASE sync[w].pc = "insert"
        <4>1. ASSUME NEW r \in rows', NEW t \in sync[w].todo PROVE r < t
          <5>1. q < t
            BY <3>3 DEF Ahead
          <5>2. p < t
            BY <1>2, <1>2a, <3>1, <5>1
          <5>3. r \in rows => r < t
            BY <3>3 DEF Ahead
          <5> QED
            BY <2>1, <5>2, <5>3
        <4> QED
          BY <1>3, <3>2, <3>3, <4>1 DEF Ahead
      <3>4. CASE sync[w].pc # "insert"
        BY <1>3, <3>2, <3>4 DEF Ahead
      <3> QED
        BY <3>3, <3>4
    <2> QED
      BY <2>2, <2>3
  <1> QED
    BY <1>4, <1>5

(* While a run is at work, one of them can complete, or one has, or one    *)
(* was cut short (resolved).                                               *)
LEMMA PromiseStep ==
    ASSUME SessionTypes, Promised, ~AllIdle, [SessionNext]_sessionVars
    PROVE  Promise'
  <1>1. sync \in [Workers -> SyncJob]
    BY DEF SessionTypes, SessionTypeOK, SyncJob
  <1>2. Promise
    BY DEF Promised
  <1>3. ASSUME UNCHANGED <<rows, sync, resolved>> PROVE Promise'
    BY <1>2, <1>3 DEF Promise, Ahead
  <1>4. ASSUME NEW v \in Workers, StartSync(v) PROVE Promise'
    <2>1. sync'[v].pc = "listed"
      BY <1>1, <1>4 DEF StartSync
    <2> QED
      BY <2>1 DEF Promise, Ahead
  <1>5. ASSUME NEW v \in Workers, Interrupt(v) PROVE Promise'
    BY <1>5 DEF Interrupt, Promise
  <1>6. ASSUME NEW v \in Workers, SyncStep(v), resolved PROVE Promise'
    <2>1. CASE EndSync(v)
      BY <2>1 DEF EndSync, Promise
    <2>2. CASE Kill(v)
      BY <1>6, <2>2 DEF Kill, Promise
    <2>3. CASE Fetch(v) \/ DeleteRows(v) \/ Insert(v) \/ Count(v)
      BY <1>6, <2>3 DEF Fetch, DeleteRows, Insert, Count, Promise
    <2> QED
      BY <1>6, <2>1, <2>2, <2>3 DEF SyncStep
  <1>7. ASSUME NEW v \in Workers, SyncStep(v), NEW w \in Workers, Ahead(w) PROVE Promise'
    <2>1. CASE Fetch(v) \/ Kill(v)
      <3>1. CASE Fetch(v)
        <4>1. sync'[v].pc = "fetched"
          BY <1>1, <3>1 DEF Fetch, SyncJob
        <4> QED
          BY <4>1 DEF Ahead, Promise
      <3>2. CASE Kill(v)
        <4>1. sync'[v].pc = "kill"
          BY <1>1, <3>2 DEF Kill, SyncJob
        <4> QED
          BY <4>1 DEF Ahead, Promise
      <3> QED
        BY <2>1, <3>1, <3>2
    <2>2. CASE DeleteRows(v)
      <3>1. sync'[v].pc = "insert" /\ rows' = {}
        BY <1>1, <2>2 DEF DeleteRows
      <3> QED
        BY <3>1 DEF Ahead, Promise
    <2>3. CASE Insert(v)
      BY <1>7, <2>3, InsertAhead DEF Promise
    <2>4. CASE Count(v)
      <3>1. sync'[v].pc = "kill"
        BY <1>1, <2>4 DEF Count
      <3> QED
        BY <3>1 DEF Ahead, Promise
    <2>5. CASE EndSync(v)
      BY <2>5 DEF EndSync, Promise
    <2> QED
      BY <1>7, <2>1, <2>2, <2>3, <2>4, <2>5 DEF SyncStep
  <1>8. ASSUME NEW v \in Workers, SyncStep(v) PROVE Promise'
    BY <1>2, <1>6, <1>7, <1>8 DEF Promise
  <1>9. ASSUME \/ \E u \in Users, n \in Limits : Create(u, n) \/ CreateFails(u, n) \/ PatchSave(u, n)
               \/ \E c \in patch : PatchCall(c)
               \/ \E u \in Users : ChangeStatus(u) \/ CheckLogin(u) \/ Login(u) \/ LoginFails(u)
               \/ ChangeServer
               \/ \E p \in alive : Logout(p)
        PROVE  Promise'
    BY <1>3, <1>9 DEF Create, CreateFails, PatchSave, PatchCall, ChangeStatus, CheckLogin, Login,
                      LoginFails, ChangeServer, Logout
  <1> QED
    BY <1>3, <1>4, <1>5, <1>8, <1>9 DEF SessionNext, sessionVars

LEMMA PromisedStep == SessionTypes /\ Promised /\ [SessionNext]_sessionVars => Promised'
  <1> SUFFICES ASSUME SessionTypes, Promised, [SessionNext]_sessionVars, ~AllIdle' PROVE Promise'
    BY DEF Promised
  <1>1. CASE ~AllIdle
    BY <1>1, PromiseStep
  <1>2. CASE AllIdle
    <2>1. sync \in [Workers -> SyncJob]
      BY DEF SessionTypes, SessionTypeOK, SyncJob
    <2>2. PICK v \in Workers : StartSync(v)
      <3>1. sync' # sync
        BY <1>2 DEF AllIdle
      <3>2. \A w \in Workers : sync[w].pc = "idle"
        BY <1>2 DEF AllIdle
      <3>3. \A w \in Workers : ~SyncStep(w) /\ ~Interrupt(w)
        BY <3>2 DEF SyncStep, Fetch, DeleteRows, Insert, Count, Kill, EndSync, Interrupt
      <3> QED
        BY <3>1, <3>3 DEF SessionNext, sessionVars, Create, CreateFails, PatchSave,
               PatchCall, ChangeStatus, CheckLogin, Login, LoginFails, ChangeServer, Logout
    <2>3. sync'[v].pc = "listed"
      BY <2>1, <2>2 DEF StartSync
    <2> QED
      BY <2>3 DEF Promise, Ahead
  <1> QED
    BY <1>1, <1>2

(* Runs of the task that overlap make each other fail, but never all of    *)
(* them: when the last of them is over, one has completed, or SSH has      *)
(* failed or a worker died (sync_active_sessions).                         *)
THEOREM OneRunCompletes == SessionSpec => SomeRunCompletes
  <1>1. SessionInit => SessionTypes /\ Promised
    BY InitTypes, SyncTypes DEF SessionInit, Promised, AllIdle
  <1>2. SessionTypes /\ Promised /\ [SessionNext]_sessionVars => (SessionTypes /\ Promised)'
    BY NextTypes, PromisedStep
  <1>3. SessionTypes /\ Promised /\ [SessionNext]_sessionVars =>
            [~AllIdle /\ AllIdle' => resolved']_sessionVars
    <2> SUFFICES ASSUME SessionTypes, Promised, [SessionNext]_sessionVars, ~AllIdle, AllIdle'
                 PROVE  resolved'
      OBVIOUS
    <2>1. Promise'
      BY PromiseStep
    <2>2. \A w \in Workers : ~Ahead(w)'
      BY DEF AllIdle, Ahead
    <2> QED
      BY <2>1, <2>2 DEF Promise
  <1> QED
    BY <1>1, <1>2, <1>3, PTL DEF SessionSpec, SomeRunCompletes

-----------------------------------------------------------------------------
(* Limits that do not change.  An edit may save the limit of an account    *)
(* again, and another one for an account that has yet to be created.       *)

LimitsStay == [][\A u \in Users : account[u] # "none" => conns'[u] = conns[u]]_sessionVars

Stay == \A u \in Users : account[u] # "none" => conns'[u] = conns[u]

(* Only accounts have sessions, and log in.                                *)
HasAccount ==
    /\ \A p \in 1..Len(user) : account[user[p]] # "none"
    /\ \A u \in Users : passed[u] > 0 => account[u] # "none"

Known == SessionTypes /\ HasAccount

(* A session that has been in excess, or is over.                          *)
Doomed(p) == p \in excess \/ p \notin alive

(* What no step changes: who a session belongs to, and what was in excess. *)
Kept ==
    /\ Len(user) <= Len(user') /\ Len(user) \in Nat /\ Len(user') \in Nat
    /\ \A p \in 1..Len(user) : Doomed(p) => Doomed(p)'
    /\ \A u \in Users : account[u] # "none" => account'[u] # "none"
    /\ \A p \in 1..Len(user) : user'[p] = user[p] /\ user[p] \in Users

LEMMA StepKeeps ==
    ASSUME SessionTypes, [SessionNext]_sessionVars
    PROVE  Kept
  <1>1. Len(user) \in Nat /\ \A p \in 1..Len(user) : user[p] \in Users
    BY DEF SessionTypes, SessionTypeOK
  <1>2. account \in [Users -> {"none", "active", "other"}]
    BY DEF SessionTypes, SessionTypeOK
  <1>3. ASSUME UNCHANGED <<account, user>>, alive' \subseteq alive, excess \cap alive' \subseteq excess'
        PROVE  Kept
    BY <1>1, <1>3 DEF Kept, Doomed
  <1>4. ASSUME NEW u \in Users, NEW n \in Limits, Create(u, n) PROVE Kept
    BY <1>1, <1>2, <1>4 DEF Create, Kept, Doomed
  <1>5. ASSUME NEW u \in Users, NEW n \in Limits, PatchSave(u, n) PROVE Kept
    BY <1>3, <1>5 DEF PatchSave
  <1>6. ASSUME NEW u \in Users, ChangeStatus(u) PROVE Kept
    BY <1>1, <1>2, <1>6 DEF ChangeStatus, Kept, Doomed
  <1>7. ASSUME NEW u \in Users, Login(u) PROVE Kept
    <2>1. user' = Append(user, u) /\ excess \subseteq excess' /\ account' = account
          /\ alive' = alive \cup {Len(user')}
      BY <1>7 DEF Login, panel
    <2>2. user \in Seq(Users)
      BY DEF SessionTypes, SessionTypeOK
    <2>3. Len(user') = Len(user) + 1 /\ \A p \in 1..Len(user) : user'[p] = user[p]
      BY <2>1, <2>2
    <2>4. \A p \in 1..Len(user) : p # Len(user')
      BY <1>1, <2>3
    <2> QED
      BY <1>1, <2>1, <2>3, <2>4 DEF Kept, Doomed
  <1>8. ASSUME NEW w \in Workers, StartSync(w) \/ SyncStep(w) \/ Interrupt(w) PROVE Kept
    <2>1. CASE Kill(w)
      BY <1>3, <2>1 DEF Kill, panel
    <2>2. CASE ~Kill(w)
      BY <1>3, <1>8, <2>2 DEF StartSync, SyncStep, Interrupt, Fetch, DeleteRows, Insert, Count, EndSync, panel
    <2> QED
      BY <2>1, <2>2
  <1>9. ASSUME \/ \E u \in Users, n \in Limits : CreateFails(u, n)
               \/ \E u \in Users : CheckLogin(u) \/ LoginFails(u)
               \/ \E c \in patch : PatchCall(c)
               \/ \E p \in alive : Logout(p)
               \/ ChangeServer \/ UNCHANGED sessionVars
        PROVE  Kept
    BY <1>3, <1>9 DEF CreateFails, CheckLogin, LoginFails, PatchCall, Logout, ChangeServer, sessionVars, panel
  <1> QED
    BY <1>4, <1>5, <1>6, <1>7, <1>8, <1>9 DEF SessionNext

LEMMA KnownStep ==
    ASSUME Known, [SessionNext]_sessionVars
    PROVE  Known' /\ Kept
  <1>1. SessionTypes' /\ Kept
    BY NextTypes, StepKeeps DEF Known
  <1>2. /\ passed \in [Users -> 0..MaxStartups] /\ account \in [Users -> {"none", "active", "other"}]
        /\ MaxStartups \in Nat /\ user \in Seq(Users)
    BY SessionLimitsAssumption DEF Known, SessionTypes, SessionTypeOK
  <1>3. ASSUME UNCHANGED <<user, passed>> PROVE HasAccount'
    BY <1>1, <1>3 DEF Known, HasAccount, Kept
  <1>4. ASSUME NEW u \in Users, CheckLogin(u) \/ LoginFails(u) PROVE HasAccount'
    <2>1. /\ account' = account /\ user' = user
          /\ \A v \in Users : v # u => passed'[v] = passed[v]
      BY <1>2, <1>4 DEF CheckLogin, LoginFails, panel
    <2>2. account[u] # "none"
      BY <1>4 DEF CheckLogin, LoginFails, Known, HasAccount
    <2> QED
      BY <2>1, <2>2 DEF Known, HasAccount
  <1>5. ASSUME NEW u \in Users, Login(u) PROVE HasAccount'
    <2>1. user' = Append(user, u) /\ passed[u] > 0 /\ account' = account
          /\ \A v \in Users : v # u => passed'[v] = passed[v]
      BY <1>2, <1>5 DEF Login, panel
    <2>2. account[u] # "none"
      BY <2>1 DEF Known, HasAccount
    <2>3. \A p \in 1..Len(user') : (p \in 1..Len(user) /\ user'[p] = user[p]) \/ user'[p] = u
      BY <1>2, <2>1
    <2> QED
      BY <2>1, <2>2, <2>3 DEF Known, HasAccount
  <1>6. \/ UNCHANGED <<user, passed>>
        \/ \E u \in Users : CheckLogin(u) \/ Login(u) \/ LoginFails(u)
    BY DEF SessionNext, sessionVars, node, Create, CreateFails, PatchSave, ChangeStatus, ChangeServer, PatchCall,
           Logout, StartSync, SyncStep, Interrupt, Fetch, DeleteRows, Insert, Count, Kill, EndSync
  <1> QED
    BY <1>1, <1>3, <1>4, <1>5, <1>6 DEF Known

LEMMA LimitTypes == \A n \in Limits : n \in Nat /\ n \in Int
  <1> SUFFICES ASSUME NEW n \in Limits PROVE n \in Nat /\ n \in Int
    OBVIOUS
  <1>1. n \in Nat
    BY SessionLimitsAssumption
  <1> QED
    BY <1>1

(* Fewer sessions, no worse rank.                                          *)
LEMMA RankImproves ==
    ASSUME SessionTypes, NEW T \in SUBSET (1..Len(user)), NEW S \in SUBSET T, NEW p
    PROVE  /\ Cardinality(Before(p, S)) \in Nat /\ Cardinality(Before(p, T)) \in Nat
           /\ Cardinality(Before(p, S)) <= Cardinality(Before(p, T))
  <1>1. Len(user) \in Nat
    BY DEF SessionTypes, SessionTypeOK
  <1>2. IsFiniteSet(1..Len(user))
    BY <1>1, FS_Interval
  <1>3. Before(p, T) \in SUBSET (1..Len(user)) /\ Before(p, S) \in SUBSET Before(p, T)
    BY DEF Before
  <1>4. IsFiniteSet(Before(p, T))
    BY <1>2, <1>3, FS_Subset
  <1>5. IsFiniteSet(Before(p, S)) /\ Cardinality(Before(p, S)) <= Cardinality(Before(p, T))
    BY <1>3, <1>4, FS_Subset
  <1> QED
    BY <1>4, <1>5, FS_CardinalityType

-----------------------------------------------------------------------------
(* Who is killed.  A run kills by a listing that may be old; but the       *)
(* sessions of a listing were there together, so whoever ranks beyond the  *)
(* limit in it was beyond it then.                                         *)

Marked == Beyond \subseteq excess

Listed(w) == sync[w].todo \cup sync[w].found

FoundLater(w) == sync[w].pc \in {"idle", "listed", "fetched"} => sync[w].found = {}

Ranked(w) ==
    sync[w].pc \in {"listed", "fetched", "insert"} =>
        \A p \in Listed(w) :
            Cardinality(Before(p, Listed(w))) >= conns[user[p]] => Doomed(p)

Looked(w) ==
    sync[w].pc \in {"fetched", "insert"} =>
        \A p \in Listed(w) : sync[w].limit[user[p]] = conns[user[p]]

Condemned(w) == sync[w].pc = "kill" => \A p \in sync[w].todo : Doomed(p)

Justified(w) == FoundLater(w) /\ Ranked(w) /\ Looked(w) /\ Condemned(w)

KillInv == Known /\ Marked /\ \A w \in Workers : Justified(w)

LEMMA InitKill == SessionInit => KillInv
  <1> SUFFICES ASSUME SessionInit PROVE KillInv
    OBVIOUS
  <1>1. user = << >> /\ alive = {} /\ Len(user) = 0 /\ \A u \in Users : ~(passed[u] > 0)
    BY DEF SessionInit
  <1>2. Known
    BY <1>1, InitTypes DEF Known, HasAccount
  <1>3. Marked
    BY <1>1 DEF Marked, Beyond
  <1>4. \A w \in Workers : sync[w].pc = "idle" /\ sync[w].found = {}
    BY SyncTypes DEF SessionInit
  <1>5. \A w \in Workers : Justified(w)
    BY <1>4 DEF Justified, FoundLater, Ranked, Looked, Condemned
  <1> QED
    BY <1>2, <1>3, <1>5 DEF KillInv

LEMMA SameLimits ==
    ASSUME Known, Stay, Kept
    PROVE  \A p \in 1..Len(user) : conns'[user'[p]] = conns[user[p]]
  BY DEF Known, HasAccount, Stay, Kept

LEMMA MarkedStep ==
    ASSUME KillInv, [SessionNext]_sessionVars, Stay
    PROVE  Marked'
  <1>1. Known' /\ Kept
    BY KnownStep DEF KillInv
  <1>2. ASSUME Beyond' \subseteq excess' PROVE Marked'
    BY <1>2 DEF Marked
  <1>3. ASSUME alive' \subseteq alive, UNCHANGED user, excess \cap alive' \subseteq excess'
        PROVE  Marked'
    <2> SUFFICES ASSUME NEW p \in Beyond' PROVE p \in Beyond
      BY <1>3 DEF KillInv, Marked, Beyond
    <2>1. p \in alive' /\ Cardinality(Before(p, alive)') >= conns'[user'[p]]
      BY DEF Beyond
    <2>2. alive \subseteq 1..Len(user) /\ p \in 1..Len(user)
      BY <1>3, <2>1 DEF KillInv, Known, SessionTypes, SessionTypeOK
    <2>3. conns'[user'[p]] = conns[user[p]] /\ conns[user[p]] \in Int
      <3>1. conns[user[p]] \in Limits
        BY <2>2 DEF KillInv, Known, HasAccount, SessionTypes, SessionTypeOK
      <3>2. conns[user[p]] \in Int
        BY ONLY <3>1, LimitTypes
      <3>3. conns'[user'[p]] = conns[user[p]]
        BY <1>1, <2>2, SameLimits DEF KillInv
      <3> QED
        BY <3>2, <3>3
    <2>4. Before(p, alive)' = Before(p, alive')
      BY <1>3 DEF Before
    <2>5. /\ Cardinality(Before(p, alive')) <= Cardinality(Before(p, alive))
          /\ Cardinality(Before(p, alive')) \in Nat /\ Cardinality(Before(p, alive)) \in Nat
      BY <1>3, <2>2, RankImproves DEF KillInv, Known
    <2>6. Cardinality(Before(p, alive)) >= conns[user[p]]
      BY <2>1, <2>3, <2>4, <2>5
    <2> QED
      BY <1>3, <2>1, <2>6 DEF Beyond
  <1>4. ASSUME NEW u \in Users, NEW n \in Limits, PatchSave(u, n) PROVE Marked'
    BY <1>2, <1>4 DEF PatchSave
  <1>5. ASSUME NEW u \in Users, Login(u) PROVE Marked'
    BY <1>2, <1>5 DEF Login
  <1>6. ASSUME NEW w \in Workers, StartSync(w) \/ SyncStep(w) \/ Interrupt(w) PROVE Marked'
    <2>1. CASE Kill(w)
      BY <1>3, <2>1 DEF Kill
    <2>2. CASE ~Kill(w)
      BY <1>3, <1>6, <2>2 DEF StartSync, SyncStep, Interrupt, Fetch, DeleteRows, Insert, Count, EndSync
    <2> QED
      BY <2>1, <2>2
  <1>7. ASSUME NEW u \in Users, NEW n \in Limits, Create(u, n) PROVE Marked'
    BY <1>3, <1>7 DEF Create
  <1>8. ASSUME \/ \E u \in Users, n \in Limits : CreateFails(u, n)
               \/ \E u \in Users : ChangeStatus(u) \/ CheckLogin(u) \/ LoginFails(u)
               \/ \E c \in patch : PatchCall(c)
               \/ \E p \in alive : Logout(p)
               \/ ChangeServer \/ UNCHANGED sessionVars
        PROVE  Marked'
    BY <1>3, <1>8 DEF CreateFails, ChangeStatus, CheckLogin, LoginFails, PatchCall, Logout, ChangeServer,
                      sessionVars
  <1> QED
    BY <1>4, <1>5, <1>6, <1>7, <1>8 DEF SessionNext

(* A run that does nothing stays justified, whatever the others do.        *)
LEMMA OthersJustified ==
    ASSUME KillInv, Kept, Stay, NEW w \in Workers, sync'[w] = sync[w]
    PROVE  Justified(w)'
  <1>1. Justified(w) /\ Known
    BY DEF KillInv
  <1>2. Listed(w)' = Listed(w) /\ Listed(w) \subseteq 1..Len(user)
    BY <1>1 DEF Listed, Known, SessionTypes, Existed
  <1>3. \A p \in Listed(w) : /\ conns'[user'[p]] = conns[user[p]] /\ user'[p] = user[p]
                             /\ Before(p, Listed(w))' = Before(p, Listed(w))
    <2> SUFFICES ASSUME NEW p \in Listed(w)
                 PROVE  /\ conns'[user'[p]] = conns[user[p]] /\ user'[p] = user[p]
                        /\ Before(p, Listed(w))' = Before(p, Listed(w))
      OBVIOUS
    <2>1. conns'[user'[p]] = conns[user[p]] /\ user'[p] = user[p]
      BY <1>1, <1>2, SameLimits DEF Kept
    <2>2. Before(p, Listed(w))' = Before(p, Listed(w))
      BY <1>2 DEF Before, Kept
    <2> QED
      BY <1>2, <2>1, <2>2
  <1>4. FoundLater(w)' /\ Condemned(w)'
    BY <1>1, <1>2 DEF Justified, FoundLater, Condemned, Kept, Listed
  <1>5. Looked(w)'
    BY <1>1, <1>2, <1>3 DEF Justified, Looked
  <1>6. Ranked(w)'
    BY <1>1, <1>2, <1>3 DEF Justified, Ranked, Kept
  <1> QED
    BY <1>4, <1>5, <1>6 DEF Justified

LEMMA JustifiedStep ==
    ASSUME KillInv, Kept, Stay, NEW w \in Workers, StartSync(w) \/ SyncStep(w) \/ Interrupt(w)
    PROVE  Justified(w)'
  <1>0. sync \in [Workers -> SyncJob]
    BY DEF KillInv, Known, SessionTypes, SessionTypeOK, SyncJob
  <1>1. Justified(w) /\ Known /\ Marked
    BY DEF KillInv
  <1>2. UNCHANGED <<user, conns, account>>
    BY DEF StartSync, SyncStep, Interrupt, Fetch, DeleteRows, Insert, Count, Kill, EndSync, panel
  <1>2a. \A p \in 1..Len(user) : Doomed(p) => Doomed(p)'
    BY DEF Kept
  <1>3. /\ alive \subseteq 1..Len(user) /\ Listed(w) \subseteq 1..Len(user)
        /\ sync[w].found \subseteq 1..Len(user)
    BY <1>1 DEF Listed, Known, SessionTypes, SessionTypeOK, Existed
  <1>4. CASE StartSync(w)
    <2>1. PICK seen \in {alive, {}} : sync' = [sync EXCEPT ![w].pc = "listed", ![w].todo = seen]
      BY <1>4 DEF StartSync
    <2>2. sync'[w].pc = "listed" /\ sync'[w].todo = seen /\ sync'[w].found = {}
      BY <1>0, <1>1, <1>4, <2>1 DEF StartSync, SyncJob, Justified, FoundLater
    <2>3. Listed(w)' = seen
      BY <2>2 DEF Listed
    <2>4. ASSUME NEW p \in seen, Cardinality(Before(p, seen)) >= conns[user[p]] PROVE Doomed(p)
      BY <1>1, <2>4 DEF Marked, Beyond, Doomed
    <2>5. \A p : Before(p, Listed(w))' = Before(p, seen)
      BY <1>2, <2>3 DEF Before
    <2>6. Ranked(w)'
      BY <1>2, <1>2a, <1>3, <2>3, <2>4, <2>5 DEF Ranked
    <2> QED
      BY <2>2, <2>6 DEF Justified, FoundLater, Looked, Condemned
  <1>5. CASE Fetch(w)
    <2> DEFINE lim == [u \in Users |-> IF account[u] = "active" THEN conns[u] ELSE NotFound]
               kept == {p \in sync[w].todo : lim[user[p]] # NotFound}
    <2>1. /\ sync[w].pc = "listed" /\ sync'[w].pc = "fetched"
          /\ sync'[w].limit = lim /\ sync'[w].todo = kept /\ sync'[w].found = sync[w].found
      BY <1>0, <1>5 DEF Fetch, SyncJob
    <2>2. sync[w].found = {} /\ sync'[w].found = {}
      BY <1>1, <2>1 DEF Justified, FoundLater
    <2>3. Listed(w) = sync[w].todo /\ Listed(w)' = kept /\ kept \in SUBSET Listed(w)
      BY <2>1, <2>2 DEF Listed
    <2>4. \A p \in kept : user[p] \in Users /\ lim[user[p]] = conns[user[p]]
      <3>1. \A p \in 1..Len(user) : user[p] \in Users
        BY <1>1 DEF Known, SessionTypes, SessionTypeOK
      <3> QED
        BY <1>3, <2>3, <3>1
    <2> HIDE DEF lim, kept
    <2>5. ASSUME NEW p \in kept, Cardinality(Before(p, kept)) >= conns[user[p]] PROVE Doomed(p)
      <3>1. /\ Cardinality(Before(p, kept)) <= Cardinality(Before(p, Listed(w)))
            /\ Cardinality(Before(p, kept)) \in Nat /\ Cardinality(Before(p, Listed(w))) \in Nat
        BY <1>1, <1>3, <2>3, RankImproves DEF Known
      <3>2. conns[user[p]] \in Int
        <4>1. p \in 1..Len(user)
          BY <1>3, <2>3
        <4>2. conns[user[p]] \in Limits
          BY <1>1, <4>1 DEF Known, HasAccount, SessionTypes, SessionTypeOK
        <4> QED
          BY ONLY <4>2, LimitTypes
      <3>3. PICK a \in Nat, b \in Nat : a = Cardinality(Before(p, kept)) /\ b = Cardinality(Before(p, Listed(w)))
        BY <3>1
      <3>4. PICK c \in Int : c = conns[user[p]]
        BY <3>2
      <3>5. a <= b /\ a >= c
        BY <2>5, <3>1, <3>3, <3>4
      <3>6. Cardinality(Before(p, Listed(w))) >= conns[user[p]]
        BY ONLY <3>3, <3>4, <3>5
      <3> QED
        BY <1>1, <2>1, <2>3, <3>6 DEF Justified, Ranked
    <2>6. \A p : Before(p, Listed(w))' = Before(p, kept)
      BY <1>2, <2>3 DEF Before
    <2>7. Ranked(w)'
      BY <1>2, <1>2a, <1>3, <2>3, <2>5, <2>6 DEF Ranked
    <2>8. Looked(w)'
      BY <1>2, <2>1, <2>3, <2>4 DEF Looked
    <2> QED
      BY <2>1, <2>2, <2>7, <2>8 DEF Justified, FoundLater, Condemned
  <1>6. CASE DeleteRows(w)
    <2>1. /\ sync[w].pc = "fetched" /\ sync'[w].pc = "insert" /\ sync'[w].limit = sync[w].limit
          /\ sync'[w].todo = sync[w].todo /\ sync'[w].found = sync[w].found
      BY <1>0, <1>6 DEF DeleteRows, SyncJob
    <2>2. Listed(w)' = Listed(w)
      BY <2>1 DEF Listed
    <2>3. \A p : Before(p, Listed(w))' = Before(p, Listed(w))
      BY <1>2, <2>2 DEF Before
    <2> QED
      BY <1>1, <1>2, <1>2a, <1>3, <2>1, <2>2, <2>3 DEF Justified, FoundLater, Ranked, Looked, Condemned
  <1>7. CASE Insert(w)
    <2> DEFINE p == Min(sync[w].todo)
    <2>1. p \in sync[w].todo
      BY <1>0, <1>7, MinIsLeast DEF Insert, SyncJob
    <2>2. CASE p \in rows
      <3>1. sync'[w] = NoSync
        BY <1>0, <1>7, <2>2 DEF Insert
      <3> QED
        BY <3>1, SyncTypes DEF Justified, FoundLater, Ranked, Looked, Condemned
    <2>3. CASE p \notin rows
      <3>1. /\ sync[w].pc = "insert" /\ sync'[w].pc = "insert" /\ sync'[w].limit = sync[w].limit
            /\ sync'[w].todo = sync[w].todo \ {p} /\ sync'[w].found = sync[w].found \cup {p}
        BY <1>0, <1>7, <2>3 DEF Insert, SyncJob
      <3> HIDE DEF p
      <3>2. Listed(w)' = Listed(w)
        BY <2>1, <3>1 DEF Listed
      <3>3. \A q : Before(q, Listed(w))' = Before(q, Listed(w))
        BY <1>2, <3>2 DEF Before
      <3> QED
        BY <1>1, <1>2, <1>2a, <1>3, <3>1, <3>2, <3>3 DEF Justified, FoundLater, Ranked, Looked, Condemned
    <2> QED
      BY <2>2, <2>3
  <1>8. CASE Count(w)
    <2>1. /\ sync[w].pc = "insert" /\ sync[w].todo = {} /\ sync'[w].pc = "kill"
          /\ sync'[w].todo = Excess(sync[w].found, sync[w].limit)
      BY <1>0, <1>8, SyncTypes DEF Count, SyncJob
    <2>2. Listed(w) = sync[w].found
      BY <2>1 DEF Listed
    <2>3. ASSUME NEW p \in sync[w].found, Cardinality(Before(p, sync[w].found)) >= sync[w].limit[user[p]]
          PROVE  Doomed(p)
      BY <1>1, <2>1, <2>2, <2>3 DEF Justified, Ranked, Looked
    <2>4. \A p \in Excess(sync[w].found, sync[w].limit) : p \in 1..Len(user) /\ Doomed(p)
      BY <1>3, <2>3 DEF Excess
    <2> QED
      BY <1>2a, <2>1, <2>4 DEF Justified, FoundLater, Ranked, Looked, Condemned
  <1>9. CASE Kill(w)
    <2>1. PICK v \in SUBSET sync[w].todo : sync' = [sync EXCEPT ![w].todo = @ \ v]
      BY <1>9 DEF Kill
    <2>2. sync[w].pc = "kill" /\ sync'[w].pc = "kill" /\ sync'[w].todo \subseteq sync[w].todo
      BY <1>0, <1>9, <2>1 DEF Kill, SyncJob
    <2>3. \A p \in sync'[w].todo : p \in 1..Len(user) /\ Doomed(p)
      BY <1>1, <1>3, <2>2 DEF Justified, Condemned, Listed
    <2> QED
      BY <1>2a, <2>2, <2>3 DEF Justified, FoundLater, Ranked, Looked, Condemned
  <1>10. CASE EndSync(w) \/ Interrupt(w)
    <2>1. sync'[w] = NoSync
      BY <1>0, <1>10 DEF EndSync, Interrupt
    <2> QED
      BY <2>1, SyncTypes DEF Justified, FoundLater, Ranked, Looked, Condemned
  <1> QED
    BY <1>4, <1>5, <1>6, <1>7, <1>8, <1>9, <1>10 DEF SyncStep

LEMMA KillStep ==
    ASSUME KillInv, [SessionNext]_sessionVars, Stay
    PROVE  KillInv'
  <1>1. Known' /\ Kept /\ Marked'
    BY KnownStep, MarkedStep DEF KillInv
  <1>2. ASSUME NEW w \in Workers PROVE Justified(w)'
    <2>0. sync \in [Workers -> SyncJob]
      BY DEF KillInv, Known, SessionTypes, SessionTypeOK, SyncJob
    <2>1. CASE sync'[w] = sync[w]
      BY <1>1, <2>1, OthersJustified
    <2>2. CASE sync'[w] # sync[w]
      <3>1. PICK v \in Workers : StartSync(v) \/ SyncStep(v) \/ Interrupt(v)
        BY <2>2 DEF SessionNext, sessionVars, Create, CreateFails, PatchSave,
               PatchCall, ChangeStatus, CheckLogin, Login, LoginFails, ChangeServer, Logout
      <3>2. \A x \in Workers : x # v => sync'[x] = sync[x]
        <4>1. CASE Insert(v)
          BY <2>0, <4>1 DEF Insert
        <4>2. CASE StartSync(v)
          BY <2>0, <4>2 DEF StartSync
        <4> QED
          BY <2>0, <3>1, <4>1, <4>2 DEF SyncStep, Interrupt, Fetch, DeleteRows, Count, Kill, EndSync
      <3> QED
        BY <1>1, <2>2, <3>1, <3>2, JustifiedStep
    <2> QED
      BY <2>1, <2>2
  <1> QED
    BY <1>1, <1>2 DEF KillInv

(* A session that was within its account's limit when it began is never    *)
(* killed, however old the listing is that a run acts on, for any number   *)
(* of runs that overlap and as long as no limit is changed                 *)
(* (sync_active_sessions).                                                 *)
THEOREM NobodyElseIsKilled == SessionSpec /\ LimitsStay => OnlyExcessIsKilled
  <1>1. KillInv /\ [SessionNext]_sessionVars /\ [Stay]_sessionVars => KillInv'
    <2>1. ASSUME KillInv, UNCHANGED sessionVars PROVE KillInv'
      BY <2>1, KillStep DEF sessionVars, panel, Stay
    <2> QED
      BY <2>1, KillStep
  <1>2. KillInv /\ [SessionNext]_sessionVars =>
            [\A w \in Workers :
                sync[w].pc = "kill" /\ sync'[w] # sync[w] => alive \ alive' \subseteq excess]_sessionVars
    <2> SUFFICES ASSUME KillInv, [SessionNext]_sessionVars, NEW w \in Workers,
                        sync[w].pc = "kill", sync'[w] # sync[w]
                 PROVE  alive \ alive' \subseteq excess
      OBVIOUS
    <2>0. sync \in [Workers -> SyncJob]
      BY DEF KillInv, Known, SessionTypes, SessionTypeOK, SyncJob
    <2>1. PICK v \in Workers : StartSync(v) \/ SyncStep(v) \/ Interrupt(v)
      BY DEF SessionNext, sessionVars, Create, CreateFails, PatchSave,
               PatchCall, ChangeStatus, CheckLogin, Login, LoginFails, ChangeServer, Logout
    <2>2. CASE Kill(v)
      <3>1. sync[v].pc = "kill" /\ alive \ alive' \subseteq sync[v].todo
        BY <2>2 DEF Kill
      <3> QED
        BY <3>1 DEF KillInv, Justified, Condemned, Doomed
    <2>3. CASE ~Kill(v)
      BY <2>1, <2>3 DEF StartSync, SyncStep, Interrupt, Fetch, DeleteRows, Insert, Count, EndSync
    <2> QED
      BY <2>2, <2>3
  <1>3. LimitsStay <=> [][Stay]_sessionVars
    BY DEF LimitsStay, Stay
  <1> QED
    BY <1>1, <1>2, <1>3, InitKill, PTL DEF SessionSpec, OnlyExcessIsKilled

-----------------------------------------------------------------------------
(* How many sessions an account has.  The node turns logins away only if   *)
(* it finds exactly one line for the account, so the invariant is about    *)
(* the lines of limits.conf, and about the calls that are yet to be made.  *)

NamesUnrelated == \A u \in Users : StartsWith[u] = {u}

AtMostOneLine(u) ==
    \A i, j \in 1..Len(file) : file[i].user = u /\ file[j].user = u => i = j

HasLine(u) == \E i \in 1..Len(file) : file[i].user = u /\ file[i].max = conns[u]

(* An account has its line, and a creation that failed may have left one.  *)
OneLine ==
    \A u \in Users \ unwritten :
        AtMostOneLine(u) /\ (account[u] # "none" => HasLine(u))

PatchesKnown == \A c \in patch : account[c.user] # "none" /\ c.max = conns[c.user]

LineInv == Known /\ OneLine /\ PatchesKnown

LEMMA InitLine == SessionInit => LineInv
  <1> SUFFICES ASSUME SessionInit PROVE LineInv
    OBVIOUS
  <1>1. Known
    BY InitKill DEF KillInv
  <1>2. Len(file) = 0 /\ patch = {} /\ \A u \in Users : account[u] = "none"
    BY DEF SessionInit
  <1> QED
    BY <1>1, <1>2 DEF LineInv, OneLine, AtMostOneLine, PatchesKnown

LEMMA FileType ==
    ASSUME SessionTypes
    PROVE  file \in Seq(Line) /\ DOMAIN file = 1..Len(file) /\ Len(file) \in Nat
  BY DEF SessionTypes, SessionTypeOK, Line

(* What a call of set_max_logins does to the file, if no other name starts *)
(* with the name.                                                          *)
LEMMA FileChanges ==
    ASSUME NamesUnrelated, SessionTypes, NEW u \in Users, NEW n \in Limits,
           SetMaxLogins(u, n) \/ SetMaxLoginsFails(u, n)
    PROVE  LET line == [user |-> u, max |-> n] IN
           \/ ~SetMaxLogins(u, n) /\ UNCHANGED file
           \/ /\ SetMaxLogins(u, n) => \A j \in 1..Len(file) : file[j].user # u
              /\ Len(file') = Len(file) + 1
              /\ file'[Len(file) + 1] = line
              /\ \A j \in 1..Len(file) : file'[j] = file[j]
           \/ /\ \E j \in 1..Len(file) : file[j].user = u
              /\ Len(file') = Len(file)
              /\ \A j \in 1..Len(file) : file'[j] = IF file[j].user = u THEN line ELSE file[j]
  <1> DEFINE line == [user |-> u, max |-> n]
  <1>1. file \in Seq(Line) /\ DOMAIN file = 1..Len(file) /\ Len(file) \in Nat
    BY FileType
  <1>2. Hit(u) = {i \in 1..Len(file) : file[i].user = u}
    BY <1>1 DEF NamesUnrelated, Hit
  <1>3. line \in Line
    BY DEF Line
  <1>4. ASSUME file' = Append(file, line)
        PROVE  /\ Len(file') = Len(file) + 1 /\ file'[Len(file) + 1] = line
               /\ \A j \in 1..Len(file) : file'[j] = file[j]
    <2> HIDE DEF line
    <2> QED
      BY <1>1, <1>3, <1>4
  <1>5. CASE SetMaxLogins(u, n) /\ Hit(u) = {}
    <2>1. file' = Append(file, line) /\ \A j \in 1..Len(file) : file[j].user # u
      BY <1>2, <1>5 DEF SetMaxLogins
    <2> QED
      BY <1>4, <2>1
  <1>6. CASE SetMaxLogins(u, n) /\ Hit(u) # {}
    <2>1. file' = [i \in DOMAIN file |-> IF i \in Hit(u) THEN line ELSE file[i]]
      BY <1>6 DEF SetMaxLogins
    <2>2. \E j \in 1..Len(file) : file[j].user = u
      BY <1>2, <1>6
    <2> HIDE DEF line
    <2>3. Len(file') = Len(file)
      <3>1. file' \in Seq(Line) /\ DOMAIN file' = 1..Len(file)
        BY <1>1, <1>6, <2>1, LinesStay DEF SessionTypes
      <3>2. DOMAIN file' = 1..Len(file') /\ Len(file') \in Nat
        BY <3>1
      <3> QED
        BY <1>1, <3>1, <3>2
    <2>4. \A j \in 1..Len(file) : file'[j] = IF file[j].user = u THEN line ELSE file[j]
      BY <1>1, <1>2, <2>1
    <2> QED
      BY <2>2, <2>3, <2>4 DEF line
  <1>7. CASE ~SetMaxLogins(u, n)
    BY <1>4, <1>7 DEF SetMaxLoginsFails
  <1> QED
    BY <1>5, <1>6, <1>7

(* The lines of the others are left alone, whether the call fails or not.  *)
LEMMA LinesOfOthers ==
    ASSUME NamesUnrelated, SessionTypes, NEW u \in Users, NEW n \in Limits,
           SetMaxLogins(u, n) \/ SetMaxLoginsFails(u, n) \/ UNCHANGED file,
           NEW v \in Users, v # u, conns'[v] = conns[v]
    PROVE  (AtMostOneLine(v) => AtMostOneLine(v)') /\ (HasLine(v) => HasLine(v)')
  <1> DEFINE line == [user |-> u, max |-> n]
  <1>1. Len(file) \in Nat /\ line.user = u
    BY FileType
  <1>2. CASE UNCHANGED file
    BY <1>2 DEF AtMostOneLine, HasLine
  <1>3. CASE /\ Len(file') = Len(file) + 1 /\ file'[Len(file) + 1] = line
             /\ \A j \in 1..Len(file) : file'[j] = file[j]
    <2>1. \A j \in 1..Len(file') : j \in 1..Len(file) \/ file'[j].user = u
      BY <1>1, <1>3
    <2>2. \A j \in 1..Len(file) : j \in 1..Len(file')
      BY <1>1, <1>3
    <2> QED
      BY <1>3, <2>1, <2>2 DEF AtMostOneLine, HasLine
  <1>4. CASE /\ Len(file') = Len(file)
             /\ \A j \in 1..Len(file) : file'[j] = IF file[j].user = u THEN line ELSE file[j]
    <2>1. \A j \in 1..Len(file) : /\ file'[j].user = file[j].user
                                  /\ file[j].user = v => file'[j] = file[j]
      BY <1>1, <1>4
    <2> QED
      BY <1>4, <2>1 DEF AtMostOneLine, HasLine
  <1> QED
    BY <1>2, <1>3, <1>4, FileChanges

(* A call that succeeds leaves one line, with the limit that it was given. *)
LEMMA OwnLine ==
    ASSUME NamesUnrelated, SessionTypes, NEW u \in Users, NEW n \in Limits,
           SetMaxLogins(u, n), AtMostOneLine(u)
    PROVE  AtMostOneLine(u)' /\ (conns'[u] = n => HasLine(u)')
  <1> DEFINE line == [user |-> u, max |-> n]
  <1>1. Len(file) \in Nat /\ line.user = u /\ line.max = n
    BY FileType
  <1>2. CASE /\ \A j \in 1..Len(file) : file[j].user # u
             /\ Len(file') = Len(file) + 1 /\ file'[Len(file) + 1] = line
             /\ \A j \in 1..Len(file) : file'[j] = file[j]
    <2>1. PICK e \in Nat : e = Len(file) + 1
      BY <1>1
    <2>2. e \in 1..Len(file') /\ file'[e].user = u /\ file'[e].max = n
      BY <1>1, <1>2, <2>1
    <2>3. \A j \in 1..Len(file') : j \in 1..Len(file) \/ j = e
      BY <1>1, <1>2, <2>1
    <2> HIDE DEF line
    <2>4. \A j \in 1..Len(file') : file'[j].user = u => j = e
      BY <1>2, <2>3
    <2>5. AtMostOneLine(u)'
      BY <2>4 DEF AtMostOneLine
    <2> QED
      BY <2>2, <2>5 DEF HasLine
  <1>3. CASE /\ \E j \in 1..Len(file) : file[j].user = u
             /\ Len(file') = Len(file)
             /\ \A j \in 1..Len(file) : file'[j] = IF file[j].user = u THEN line ELSE file[j]
    <2>1. \A j \in 1..Len(file) : /\ file'[j].user = file[j].user
                                  /\ file[j].user = u => file'[j].max = n
      BY <1>1, <1>3
    <2> QED
      BY <1>3, <2>1 DEF AtMostOneLine, HasLine
  <1> QED
    BY <1>2, <1>3, FileChanges

(* A call for an account, or for a creation, with the limit that it has.   *)
LEMMA LineOfAccount ==
    ASSUME NamesUnrelated, SessionTypes, OneLine, NEW u \in Users, NEW n \in Limits,
           \/ SetMaxLogins(u, n) /\ UNCHANGED unwritten
           \/ SetMaxLoginsFails(u, n),
           account'[u] # "none" => conns'[u] = n,
           \A v \in Users : v # u => account'[v] = account[v] /\ conns'[v] = conns[v]
    PROVE  OneLine'
  <1> SUFFICES ASSUME NEW v \in Users, v \notin unwritten'
               PROVE  AtMostOneLine(v)' /\ (account'[v] # "none" => HasLine(v)')
    BY DEF OneLine
  <1>1. v \notin unwritten /\ (v = u => SetMaxLogins(u, n))
    BY DEF SetMaxLoginsFails
  <1>2. AtMostOneLine(v) /\ (account[v] # "none" => HasLine(v))
    BY <1>1 DEF OneLine
  <1>3. CASE v = u
    BY <1>1, <1>2, <1>3, OwnLine
  <1>4. CASE v # u
    <2>1. conns'[v] = conns[v] /\ account'[v] = account[v]
      BY <1>4
    <2>2. (AtMostOneLine(v) => AtMostOneLine(v)') /\ (HasLine(v) => HasLine(v)')
      BY <1>4, <2>1, LinesOfOthers
    <2> QED
      BY <1>2, <2>1, <2>2
  <1> QED
    BY <1>3, <1>4

(* Steps that leave the file alone.                                        *)
LEMMA LinesAlone ==
    ASSUME OneLine, UNCHANGED <<file, unwritten>>, \A v \in Users : conns'[v] = conns[v],
           \A v \in Users : account'[v] # "none" => account[v] # "none"
    PROVE  OneLine'
  <1> SUFFICES ASSUME NEW v \in Users, v \notin unwritten
               PROVE  AtMostOneLine(v)' /\ (account'[v] # "none" => HasLine(v)')
    BY DEF OneLine
  <1> QED
    BY DEF OneLine, AtMostOneLine, HasLine

LEMMA LineStep ==
    ASSUME NamesUnrelated, LineInv, [SessionNext]_sessionVars, Stay
    PROVE  LineInv'
  <1>1. Known' /\ Kept /\ Known
    BY KnownStep DEF LineInv
  <1>2. SessionTypes /\ OneLine /\ PatchesKnown
    BY <1>1 DEF LineInv, Known
  <1>3. conns \in [Users -> Limits \cup {NotFound}] /\ patch \subseteq Line
        /\ account \in [Users -> {"none", "active", "other"}]
    BY <1>2 DEF SessionTypes, SessionTypeOK, Line
  <1>4. ASSUME NEW u \in Users, NEW n \in Limits, Create(u, n) PROVE OneLine' /\ PatchesKnown'
    <2>1. /\ account[u] = "none" /\ patch' = patch
          /\ account' = [account EXCEPT ![u] = "active"] /\ conns' = [conns EXCEPT ![u] = n]
          /\ (SetMaxLogins(u, n) /\ UNCHANGED unwritten) \/ SetMaxLoginsFails(u, n)
      BY <1>4 DEF Create
    <2>2. /\ account'[u] # "none" /\ conns'[u] = n
          /\ \A v \in Users : v # u => account'[v] = account[v] /\ conns'[v] = conns[v]
      BY <1>3, <2>1
    <2>3. \A c \in patch : c.user \in Users /\ c.user # u
      BY <1>2, <1>3, <2>1 DEF PatchesKnown, Line
    <2>4. PatchesKnown'
      BY <1>2, <2>1, <2>2, <2>3 DEF PatchesKnown
    <2>5. OneLine'
      BY <1>2, <2>1, <2>2, LineOfAccount
    <2> QED
      BY <2>4, <2>5
  <1>5. ASSUME NEW u \in Users, NEW n \in Limits, CreateFails(u, n) PROVE OneLine' /\ PatchesKnown'
    <2>1. /\ account[u] = "none" /\ UNCHANGED <<account, conns, patch>>
          /\ (SetMaxLogins(u, n) /\ UNCHANGED unwritten) \/ SetMaxLoginsFails(u, n)
      BY <1>5 DEF CreateFails, panel
    <2>2. PatchesKnown'
      BY <1>2, <2>1 DEF PatchesKnown
    <2> QED
      BY <1>2, <2>1, <2>2, LineOfAccount
  <1>6. ASSUME NEW u \in Users, NEW n \in Limits, PatchSave(u, n) PROVE OneLine' /\ PatchesKnown'
    <2>1. /\ account[u] # "none" /\ UNCHANGED <<account, file, unwritten>>
          /\ patch' = patch \cup {[user |-> u, max |-> n]} /\ conns' = [conns EXCEPT ![u] = n]
      BY <1>6 DEF PatchSave, node
    <2>2. conns'[u] = n /\ conns[u] = n
      BY <1>3, <2>1 DEF Stay
    <2>3. \A v \in Users : conns'[v] = conns[v]
      BY <1>3, <2>1, <2>2
    <2>4. OneLine'
      BY <1>2, <2>1, <2>3, LinesAlone
    <2>5. PatchesKnown'
      <3> SUFFICES ASSUME NEW c \in patch' PROVE account'[c.user] # "none" /\ c.max = conns'[c.user]
        BY DEF PatchesKnown
      <3>1. CASE c \in patch
        BY <1>2, <1>3, <2>1, <2>3, <3>1 DEF PatchesKnown, Line
      <3>2. CASE c \notin patch
        <4>1. c = [user |-> u, max |-> n]
          BY <2>1, <3>2
        <4>2. c.user = u /\ c.max = n
          BY <4>1
        <4> QED
          BY <2>1, <2>2, <4>2
      <3> QED
        BY <3>1, <3>2
    <2> QED
      BY <2>4, <2>5
  <1>7. ASSUME NEW c \in patch, PatchCall(c) PROVE OneLine' /\ PatchesKnown'
    <2>1. UNCHANGED <<account, conns>> /\ patch' \subseteq patch
      BY <1>7 DEF PatchCall
    <2>2. c.user \in Users /\ c.max \in Limits /\ account[c.user] # "none" /\ c.max = conns[c.user]
      BY <1>2, <1>3 DEF PatchesKnown, Line
    <2>3. ASSUME \/ SetMaxLogins(c.user, c.max) /\ UNCHANGED unwritten
                 \/ SetMaxLoginsFails(c.user, c.max)
          PROVE  OneLine'
      <3>1. PICK u \in Users, n \in Limits : u = c.user /\ n = c.max
        BY <2>2
      <3>2. /\ conns'[u] = n
            /\ (SetMaxLogins(u, n) /\ UNCHANGED unwritten) \/ SetMaxLoginsFails(u, n)
        BY <2>1, <2>2, <2>3, <3>1
      <3>3. \A v \in Users : v # u => account'[v] = account[v] /\ conns'[v] = conns[v]
        BY <2>1
      <3> QED
        BY <1>2, <3>2, <3>3, LineOfAccount
    <2>4. ASSUME UNCHANGED <<file, unwritten>> PROVE OneLine'
      BY <1>2, <2>1, <2>4, LinesAlone
    <2>5. OneLine'
      BY <1>7, <2>3, <2>4 DEF PatchCall
    <2> QED
      BY <1>2, <2>1, <2>5 DEF PatchesKnown
  <1>8. ASSUME NEW u \in Users, ChangeStatus(u) PROVE OneLine' /\ PatchesKnown'
    <2>1. /\ UNCHANGED <<conns, file, unwritten, patch>> /\ account[u] # "none" /\ account'[u] # "none"
          /\ \A v \in Users : v # u => account'[v] = account[v]
      BY <1>3, <1>8 DEF ChangeStatus, node
    <2>2. \A v \in Users : account'[v] = "none" <=> account[v] = "none"
      BY <2>1
    <2>3. PatchesKnown'
      BY <1>2, <1>3, <2>1, <2>2 DEF PatchesKnown, Line
    <2> QED
      BY <1>2, <2>1, <2>2, <2>3, LinesAlone
  <1>9. ASSUME UNCHANGED <<account, conns, patch, file, unwritten>> PROVE OneLine' /\ PatchesKnown'
    BY <1>2, <1>9, LinesAlone DEF PatchesKnown
  <1>10. ASSUME \/ \E w \in Workers : StartSync(w) \/ SyncStep(w) \/ Interrupt(w)
                \/ \E u \in Users : CheckLogin(u) \/ Login(u) \/ LoginFails(u)
                \/ \E p \in alive : Logout(p)
                \/ ChangeServer \/ UNCHANGED sessionVars
         PROVE  UNCHANGED <<account, conns, patch, file, unwritten>>
    BY <1>10 DEF StartSync, SyncStep, Interrupt, Fetch, DeleteRows, Insert, Count, Kill, EndSync, CheckLogin,
                 Login, LoginFails, Logout, ChangeServer, sessionVars, panel, node
  <1>11. OneLine' /\ PatchesKnown'
    BY <1>4, <1>5, <1>6, <1>7, <1>8, <1>9, <1>10 DEF SessionNext
  <1> QED
    BY <1>1, <1>11 DEF LineInv

(* What the script that counts sessions compares with.                     *)
LEMMA EnforcedIsTheLimit ==
    ASSUME LineInv, NEW u \in Users \ unwritten, account[u] # "none"
    PROVE  Enforced(u) = conns[u]
  <1>1. DOMAIN file = 1..Len(file)
    BY FileType DEF LineInv, Known
  <1>2. PICK i \in 1..Len(file) : file[i].user = u /\ file[i].max = conns[u]
    BY DEF LineInv, OneLine, HasLine
  <1>3. Maxima(u) = {i}
    BY <1>1, <1>2 DEF Maxima, LineInv, OneLine, AtMostOneLine
  <1>4. Cardinality(Maxima(u)) = 1 /\ (CHOOSE j \in Maxima(u) : TRUE) = i
    BY <1>3, FS_Singleton
  <1> QED
    BY <1>2, <1>4 DEF Enforced

LEMMA FewerSessions ==
    ASSUME Known, NEW u \in Users, NEW S \in SUBSET LiveOf(u)
    PROVE  /\ IsFiniteSet(LiveOf(u)) /\ Cardinality(LiveOf(u)) \in Nat
           /\ Cardinality(S) \in Nat /\ Cardinality(S) <= Cardinality(LiveOf(u))
  <1>1. Len(user) \in Nat /\ alive \subseteq 1..Len(user)
    BY DEF Known, SessionTypes, SessionTypeOK
  <1>4. LiveOf(u) \in SUBSET (1..Len(user))
    BY <1>1 DEF LiveOf
  <1>5. IsFiniteSet(1..Len(user))
    BY <1>1, FS_Interval
  <1>2. IsFiniteSet(LiveOf(u))
    BY <1>4, <1>5, FS_Subset
  <1>3. IsFiniteSet(S) /\ Cardinality(S) <= Cardinality(LiveOf(u))
    BY <1>2, FS_Subset
  <1> QED
    BY <1>2, <1>3, FS_CardinalityType

(* The bound holds for the sessions and the logins that have passed the    *)
(* script together.                                                        *)
Within(u) ==
    u \notin unwritten /\ account[u] # "none" =>
        Cardinality(LiveOf(u)) + passed[u] <= conns[u] + crowd[u]

BoundInv == \A u \in Users : Within(u)

LEMMA CountTypes ==
    ASSUME Known, NEW u \in Users
    PROVE  /\ passed[u] \in Nat /\ crowd[u] \in Nat /\ Cardinality(LiveOf(u)) \in Nat
           /\ account[u] # "none" => conns[u] \in Nat
  <1>1. passed[u] \in 0..MaxStartups /\ crowd[u] \in 0..MaxStartups /\ MaxStartups \in Nat
    BY SessionLimitsAssumption DEF Known, SessionTypes, SessionTypeOK
  <1>2. passed[u] \in Nat /\ crowd[u] \in Nat
    BY <1>1
  <1>3. account[u] # "none" => conns[u] \in Limits
    BY DEF Known, SessionTypes, SessionTypeOK
  <1>4. Cardinality(LiveOf(u)) \in Nat
    BY FewerSessions
  <1> QED
    BY <1>2, <1>3, <1>4, LimitTypes

(* Nobody logs in, and the limits stay.                                    *)
LEMMA NoMoreSessions ==
    ASSUME Known, NEW u \in Users, Within(u), LiveOf(u)' \subseteq LiveOf(u),
           passed'[u] \in Int, passed'[u] <= passed[u], crowd'[u] = crowd[u],
           unwritten \subseteq unwritten',
           account'[u] # "none" => account[u] # "none" /\ conns'[u] = conns[u]
    PROVE  Within(u)'
  <1> SUFFICES ASSUME u \notin unwritten', account'[u] # "none"
               PROVE  Cardinality(LiveOf(u)') + passed'[u] <= conns'[u] + crowd'[u]
    BY DEF Within
  <1>1. PICK S \in SUBSET LiveOf(u) : S = LiveOf(u)'
    OBVIOUS
  <1>2. PICK a \in Nat, b \in Nat : a = Cardinality(S) /\ b = Cardinality(LiveOf(u)) /\ a <= b
    BY FewerSessions
  <1>3. PICK c \in Nat, k \in Nat, p \in Nat :
            c = conns[u] /\ c = conns'[u] /\ k = crowd[u] /\ p = passed[u]
    BY CountTypes
  <1>4. b + p <= c + k
    BY <1>2, <1>3 DEF Within
  <1>5. PICK q \in Int : q = passed'[u] /\ q <= p
    BY <1>3
  <1>6. a + q <= c + k
    BY <1>2, <1>3, <1>4, <1>5
  <1> QED
    BY <1>1, <1>2, <1>3, <1>5, <1>6

(* The script counts at most as many sessions as the limit allows.         *)
LEMMA CheckBound ==
    ASSUME 0 \notin Limits, LineInv, NEW u \in Users, CheckLogin(u)
    PROVE  Within(u)'
  <1> SUFFICES ASSUME u \notin unwritten
               PROVE  Cardinality(LiveOf(u)) + passed'[u] <= conns[u] + crowd'[u]
    <2>1. UNCHANGED <<unwritten, account, conns, alive, user>>
      BY DEF CheckLogin, panel
    <2>2. LiveOf(u)' = LiveOf(u)
      BY <2>1 DEF LiveOf
    <2> QED
      BY <2>1, <2>2 DEF Within
  <1>1. Known /\ account[u] # "none"
    BY DEF LineInv, CheckLogin
  <1>2. conns[u] \in Limits
    BY <1>1 DEF Known, SessionTypes, SessionTypeOK
  <1>3. PICK a \in Nat, c \in Nat, p \in Nat :
            a = Cardinality(LiveOf(u)) /\ c = conns[u] /\ p = passed[u]
    BY <1>1, CountTypes
  <1>4. a <= c
    BY <1>1, <1>2, <1>3, EnforcedIsTheLimit DEF CheckLogin
  <1>5. passed'[u] = p + 1 /\ crowd'[u] = p + 1
    BY <1>1, <1>3 DEF CheckLogin, Known, SessionTypes, SessionTypeOK
  <1> QED
    BY <1>3, <1>4, <1>5

(* A login becomes a session.                                              *)
LEMMA LoginBound ==
    ASSUME Known, NEW u \in Users, Within(u), Login(u)
    PROVE  Within(u)'
  <1> DEFINE new == Len(user) + 1
  <1>1. /\ user' = Append(user, u) /\ alive' = alive \cup {Len(user')}
        /\ UNCHANGED <<unwritten, account, conns, crowd>>
    BY DEF Login, panel
  <1>2. /\ alive \subseteq 1..Len(user) /\ Len(user) \in Nat /\ user \in Seq(Users)
        /\ passed \in [Users -> 0..MaxStartups]
    BY DEF Known, SessionTypes, SessionTypeOK
  <1>3. Len(user') = new /\ user'[new] = u /\ \A p \in alive : user'[p] = user[p] /\ p # new
    BY <1>1, <1>2
  <1>4. LiveOf(u)' = LiveOf(u) \cup {new} /\ new \notin LiveOf(u)
    BY <1>1, <1>3 DEF LiveOf
  <1>5. IsFiniteSet(LiveOf(u)) /\ Cardinality(LiveOf(u)) \in Nat
    BY FewerSessions
  <1>6. Cardinality(LiveOf(u)') = Cardinality(LiveOf(u)) + 1
    BY <1>4, <1>5, FS_AddElement
  <1>7. passed'[u] = passed[u] - 1 /\ passed[u] \in Nat
    BY <1>2, CountTypes DEF Login
  <1>8. Cardinality(LiveOf(u)') + passed'[u] = Cardinality(LiveOf(u)) + passed[u]
    BY <1>5, <1>6, <1>7
  <1> QED
    BY <1>1, <1>8 DEF Within

(* What becomes of the others when an account logs in or out.              *)
LEMMA OthersLogins ==
    ASSUME Known, NEW u \in Users, NEW v \in Users, v # u, CheckLogin(v) \/ Login(v) \/ LoginFails(v)
    PROVE  /\ LiveOf(u)' \subseteq LiveOf(u)
           /\ passed'[u] = passed[u] /\ crowd'[u] = crowd[u]
           /\ UNCHANGED <<unwritten, account, conns>>
  <1>1. /\ alive \subseteq 1..Len(user) /\ Len(user) \in Nat /\ user \in Seq(Users)
        /\ passed \in [Users -> 0..MaxStartups] /\ crowd \in [Users -> 0..MaxStartups]
    BY DEF Known, SessionTypes, SessionTypeOK
  <1>2. /\ passed'[u] = passed[u] /\ crowd'[u] = crowd[u]
        /\ UNCHANGED <<unwritten, account, conns>>
    BY <1>1 DEF CheckLogin, Login, LoginFails, panel
  <1>3. CASE CheckLogin(v) \/ LoginFails(v)
    BY <1>2, <1>3 DEF CheckLogin, LoginFails, LiveOf
  <1>4. CASE Login(v)
    <2>1. user' = Append(user, v) /\ alive' = alive \cup {Len(user')}
      BY <1>4 DEF Login
    <2>2. Len(user') = Len(user) + 1 /\ user'[Len(user')] = v /\ \A p \in alive : user'[p] = user[p]
      BY <1>1, <2>1
    <2> QED
      BY <1>2, <2>1, <2>2 DEF LiveOf
  <1> QED
    BY <1>3, <1>4

LEMMA BoundStep ==
    ASSUME NamesUnrelated, 0 \notin Limits, LineInv, BoundInv, [SessionNext]_sessionVars, Stay
    PROVE  BoundInv'
  <1>1. Known /\ Kept
    BY KnownStep DEF LineInv
  <1>2. /\ conns \in [Users -> Limits \cup {NotFound}]
        /\ account \in [Users -> {"none", "active", "other"}]
        /\ passed \in [Users -> 0..MaxStartups]
    BY <1>1 DEF Known, SessionTypes, SessionTypeOK
  <1> SUFFICES ASSUME NEW u \in Users PROVE Within(u)'
    BY DEF BoundInv
  <1>3. Within(u) /\ passed[u] \in Int
    BY <1>1, CountTypes DEF BoundInv
  <1>4. ASSUME alive' \subseteq alive, UNCHANGED <<user, passed, crowd>>, unwritten \subseteq unwritten',
               account'[u] # "none" => account[u] # "none" /\ conns'[u] = conns[u]
        PROVE  Within(u)'
    <2>1. LiveOf(u)' \subseteq LiveOf(u)
      BY <1>4 DEF LiveOf
    <2>2. passed'[u] \in Int /\ passed'[u] <= passed[u] /\ crowd'[u] = crowd[u]
      BY <1>3, <1>4
    <2> QED
      BY <1>1, <1>3, <1>4, <2>1, <2>2, NoMoreSessions
  <1>5. ASSUME NEW v \in Users, NEW n \in Limits, Create(v, n) PROVE Within(u)'
    <2>1. /\ account[v] = "none" /\ UNCHANGED <<user, alive, passed, crowd>>
          /\ conns' = [conns EXCEPT ![v] = n] /\ account' = [account EXCEPT ![v] = "active"]
          /\ unwritten \subseteq unwritten'
      BY <1>5 DEF Create, SetMaxLoginsFails
    <2>2. CASE v # u
      <3>1. conns'[u] = conns[u] /\ account'[u] = account[u]
        BY <1>2, <2>1, <2>2
      <3> QED
        BY <1>4, <2>1, <3>1
    <2>3. CASE v = u
      <3>1. LiveOf(u)' = {}
        <4>1. LiveOf(u)' = LiveOf(u)
          BY <2>1 DEF LiveOf
        <4>2. \A p \in alive : user[p] # u
          BY <1>1, <2>1, <2>3 DEF Known, HasAccount, SessionTypes, SessionTypeOK
        <4> QED
          BY <4>1, <4>2 DEF LiveOf
      <3>2. conns'[u] = n /\ n \in Nat
        BY <1>2, <2>1, <2>3, LimitTypes
      <3>3. passed'[u] = 0
        <4>1. passed[u] \in Nat /\ ~(passed[u] > 0)
          BY <1>1, <2>1, <2>3, CountTypes DEF Known, HasAccount
        <4> QED
          BY <2>1, <4>1
      <3>4. crowd'[u] \in Nat
        BY <1>1, <2>1, CountTypes
      <3> QED
        BY <3>1, <3>2, <3>3, <3>4, FS_EmptySet DEF Within
    <2> QED
      BY <2>2, <2>3
  <1>6. ASSUME NEW v \in Users, NEW n \in Limits, PatchSave(v, n) PROVE Within(u)'
    <2>1. /\ account[v] # "none" /\ conns' = [conns EXCEPT ![v] = n]
          /\ UNCHANGED <<account, user, alive, passed, crowd, unwritten>>
      BY <1>6 DEF PatchSave, node
    <2>2. conns'[u] = conns[u]
      BY <1>2, <2>1 DEF Stay
    <2> QED
      BY <1>4, <2>1, <2>2
  <1>7. ASSUME NEW v \in Users, CheckLogin(v) \/ Login(v) \/ LoginFails(v) PROVE Within(u)'
    <2>1. CASE v # u
      <3>1. /\ LiveOf(u)' \subseteq LiveOf(u) /\ passed'[u] = passed[u] /\ crowd'[u] = crowd[u]
            /\ UNCHANGED <<unwritten, account, conns>>
        BY <1>1, <1>7, <2>1, OthersLogins
      <3> QED
        BY <1>1, <1>3, <3>1, NoMoreSessions
    <2>2. CASE v = u /\ LoginFails(v)
      <3>1. /\ passed'[u] = passed[u] - 1 /\ UNCHANGED <<panel, unwritten, crowd, alive, user>>
        BY <1>2, <2>2 DEF LoginFails
      <3>2. LiveOf(u)' = LiveOf(u)
        BY <3>1 DEF LiveOf
      <3> QED
        BY <1>1, <1>3, <3>1, <3>2, NoMoreSessions DEF panel
    <2> QED
      BY <1>1, <1>3, <1>7, <2>1, <2>2, CheckBound, LoginBound
  <1>8. ASSUME \/ \E w \in Workers : StartSync(w) \/ SyncStep(w) \/ Interrupt(w)
               \/ \E p \in alive : Logout(p)
               \/ ChangeServer \/ UNCHANGED sessionVars
        PROVE  alive' \subseteq alive /\ UNCHANGED <<user, account, conns, passed, crowd, unwritten>>
    BY <1>8 DEF StartSync, SyncStep, Interrupt, Fetch, DeleteRows, Insert, Count, Kill, EndSync, Logout,
                ChangeServer, sessionVars, panel, node
  <1>9. ASSUME \/ \E v \in Users, n \in Limits : CreateFails(v, n)
               \/ \E c \in patch : PatchCall(c)
        PROVE  UNCHANGED <<user, alive, account, conns, passed, crowd>> /\ unwritten \subseteq unwritten'
    BY <1>9 DEF CreateFails, PatchCall, SetMaxLoginsFails, panel
  <1>10. ASSUME NEW v \in Users, ChangeStatus(v) PROVE Within(u)'
    <2>1. /\ UNCHANGED <<user, alive, conns, passed, crowd, unwritten>>
          /\ account'[u] # "none" => account[u] # "none"
      BY <1>2, <1>10 DEF ChangeStatus, node
    <2> QED
      BY <1>4, <2>1
  <1>11. CASE \/ \E w \in Workers : StartSync(w) \/ SyncStep(w) \/ Interrupt(w)
              \/ \E p \in alive : Logout(p)
              \/ ChangeServer \/ UNCHANGED sessionVars
    BY <1>4, <1>8, <1>11
  <1>12. CASE \/ \E v \in Users, n \in Limits : CreateFails(v, n)
              \/ \E c \in patch : PatchCall(c)
    BY <1>4, <1>9, <1>12
  <1> QED
    BY <1>5, <1>6, <1>7, <1>10, <1>11, <1>12 DEF SessionNext

(* The node admits at most as many sessions beyond max_connections as sshd *)
(* handled logins of the account at once (the script of set_max_logins     *)
(* counts the sessions and not the logins that are about to become some),  *)
(* however often limits.conf is written and however many creations are     *)
(* tried again: for accounts of which no call of set_max_logins failed on  *)
(* the node, usernames of which none starts another, limits above 0, which *)
(* are no limit to the script, and limits that no edit changes.            *)
THEOREM LoginsStayBounded ==
    ASSUME NamesUnrelated, 0 \notin Limits
    PROVE  SessionSpec /\ LimitsStay => []LoginsBounded
  <1>1. SessionInit => BoundInv
    BY DEF SessionInit, BoundInv, Within
  <1>2. LineInv /\ BoundInv /\ [SessionNext]_sessionVars /\ [Stay]_sessionVars => LineInv' /\ BoundInv'
    <2>1. ASSUME LineInv, BoundInv, UNCHANGED sessionVars PROVE Stay
      BY <2>1 DEF sessionVars, panel, Stay
    <2> QED
      BY <2>1, LineStep, BoundStep
  <1>3. LineInv /\ BoundInv => LoginsBounded
    <2> SUFFICES ASSUME LineInv, BoundInv, NEW u \in Users \ unwritten, account[u] # "none"
                 PROVE  Cardinality(LiveOf(u)) <= conns[u] + crowd[u]
      BY DEF LoginsBounded
    <2>1. PICK a \in Nat, c \in Nat, k \in Nat, p \in Nat :
              a = Cardinality(LiveOf(u)) /\ c = conns[u] /\ k = crowd[u] /\ p = passed[u]
      BY CountTypes DEF LineInv
    <2>2. a + p <= c + k
      BY <2>1 DEF BoundInv, Within
    <2> QED
      BY <2>1, <2>2
  <1>4. LimitsStay <=> [][Stay]_sessionVars
    BY DEF LimitsStay, Stay
  <1> QED
    BY <1>1, <1>2, <1>3, <1>4, InitLine, PTL DEF SessionSpec

=============================================================================
