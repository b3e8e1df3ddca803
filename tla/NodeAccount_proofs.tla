------------------------- MODULE NodeAccount_proofs -------------------------
(***************************************************************************)
(* Proofs about NodeAccount, for any number of workers, any mix of         *)
(* operations, any limit and any number of transfers and faults.           *)
(***************************************************************************)
EXTENDS NodeAccount, FiniteSetTheorems, TLAPS

-----------------------------------------------------------------------------
(* What a job can be at, and what it holds.                                *)

SettingUp == {"id", "list"} \cup Making

(* The commands that an operation consists of.                             *)
Points(o) ==
    CASE o = "create"    -> {"useradd", "chpasswd", "save"} \cup SettingUp
      [] o = "provision" -> {"exists", "useradd", "chpasswd", "save"} \cup SettingUp
      [] o = "reset"     -> {"chpasswd", "save"}
      [] o = "sync"      -> {"read", "save", "lock", "status"} \cup SettingUp
      [] o = "delete"    -> {"userdel", "save"}
      [] o = "activate"  -> {"unlock", "save"}
      [] OTHER           -> {"idle"}

AtPoints == \A w \in Workers : job[w].pc \in Points(job[w].op)

OnPassword(w) == job[w].op \in PasswordOps

(* Only a job on the password has one in its hand.                         *)
InHand == \A w \in Workers : ~OnPassword(w) => job[w].pw = None

(* Requests and syncs are about an account that there is.                  *)
Known ==
    \A w \in Workers : job[w].op \in Ops \ {"create", "provision"} => row.status # "none"

JobInv == TypeOK /\ AtPoints /\ InHand /\ Known

(* The commands of each operation, one set at a time.                      *)
LEMMA PointsOf ==
    /\ Points("create") = {"useradd", "chpasswd", "save", "id", "list", "new", "jump", "return"}
    /\ Points("provision") = {"exists", "useradd", "chpasswd", "save", "id", "list",
                              "new", "jump", "return"}
    /\ Points("reset") = {"chpasswd", "save"}
    /\ Points("sync") = {"read", "save", "lock", "status", "id", "list",
                         "new", "jump", "return"}
    /\ Points("delete") = {"userdel", "save"}
    /\ Points("activate") = {"unlock", "save"}
    /\ Points("none") = {"idle"}
  <1>1. SettingUp = {"id", "list", "new", "jump", "return"}
    BY DEF SettingUp, Making
  <1> QED
    BY <1>1 DEF Points

(* Which operations a command belongs to.                                  *)
LEMMA OpsAt ==
    ASSUME JobInv, NEW w \in Workers
    PROVE  LET o == job[w].op
               c == job[w].pc
           IN  /\ o \in Ops \cup {"none"} /\ job[w] \in Job
               /\ c = "idle" <=> o = "none"
               /\ c = "exists" => o = "provision"
               /\ c = "useradd" => o \in {"create", "provision"}
               /\ c = "chpasswd" => o \in PasswordOps
               /\ c = "userdel" => o = "delete"
               /\ c = "unlock" => o = "activate"
               /\ c \in {"read", "lock", "status"} => o = "sync"
               /\ c \in SettingUp => o \in {"create", "provision", "sync"}
               /\ c \in SettingUp \cup {"useradd", "chpasswd", "userdel", "unlock", "lock"}
                    => o # "none"
  <1> PICK o, c : o = job[w].op /\ c = job[w].pc
    OBVIOUS
  <1>1. o \in Ops \cup {"none"} /\ job[w] \in Job /\ c \in Points(o)
    BY DEF JobInv, TypeOK, AtPoints, Job
  <1>2. Ops = {"create", "provision", "reset", "sync", "delete", "activate"}
    BY DEF Ops, PasswordOps
  <1>3. SettingUp = {"id", "list", "new", "jump", "return"}
    BY DEF SettingUp, Making
  <1>4. \/ o = "create" /\ c \in {"useradd", "chpasswd", "save", "id", "list", "new", "jump", "return"}
        \/ o = "provision" /\ c \in {"exists", "useradd", "chpasswd", "save", "id", "list",
                                     "new", "jump", "return"}
        \/ o = "reset" /\ c \in {"chpasswd", "save"}
        \/ o = "sync" /\ c \in {"read", "save", "lock", "status", "id", "list",
                                "new", "jump", "return"}
        \/ o = "delete" /\ c \in {"userdel", "save"}
        \/ o = "activate" /\ c \in {"unlock", "save"}
        \/ o = "none" /\ c = "idle"
    BY <1>1, <1>2, PointsOf
  <1> QED
    BY <1>1, <1>3, <1>4 DEF PasswordOps

-----------------------------------------------------------------------------
(* Passwords never run out.                                                *)
LEMMA FreshPassword ==
    ASSUME JobInv, NEW w \in Workers, job[w].pc = "idle"
    PROVE  /\ generate_password \in Passwords
           /\ generate_password \notin {row.pw, node.pw} \cup {job[v].pw : v \in Workers}
  <1> DEFINE H == {job[v].pw : v \in Workers}
  <1>1. \E p \in Passwords : p \notin {row.pw, node.pw} \cup H
    <2> SUFFICES ASSUME Passwords \subseteq {row.pw, node.pw} \cup H PROVE FALSE
      OBVIOUS
    <2> DEFINE f == [v \in Workers |-> job[v].pw]
    <2>1. f \in Surjection(Workers, H)
      BY DEF Surjection
    <2>2. IsFiniteSet(H) /\ Cardinality(H) <= Cardinality(Workers)
      BY <2>1, FS_Surjection, NodeAccountAssumption, Zenon
    <2>3. job[w].pw = None
      BY OpsAt DEF JobInv, InHand, OnPassword, PasswordOps
    <2>4. None \in H
      BY <2>3
    <2> HIDE DEF H, f
    <2> DEFINE G == H \ {None}
    <2>5. IsFiniteSet(G) /\ Cardinality(G) = Cardinality(H) - 1
      BY <2>2, <2>4, FS_RemoveElement
    <2>6. Cardinality(H) \in Nat /\ Cardinality(Workers) \in Nat
      BY <2>2, FS_CardinalityType, NodeAccountAssumption
    <2> HIDE DEF G
    <2>7. IsFiniteSet(G \cup {row.pw}) /\ Cardinality(G \cup {row.pw}) <= Cardinality(H)
      <3>1. /\ IsFiniteSet(G \cup {row.pw})
            /\ Cardinality(G \cup {row.pw}) \in {Cardinality(G), Cardinality(G) + 1}
        BY <2>5, FS_AddElement
      <3> QED
        BY <2>5, <2>6, <3>1
    <2> DEFINE K == (G \cup {row.pw}) \cup {node.pw}
    <2>8. Cardinality(G \cup {row.pw}) \in Nat
      BY <2>7, FS_CardinalityType
    <2>9. IsFiniteSet(K) /\ Cardinality(K) <= Cardinality(H) + 1
      <3>1. /\ IsFiniteSet(K)
            /\ Cardinality(K) \in {Cardinality(G \cup {row.pw}), Cardinality(G \cup {row.pw}) + 1}
        BY <2>7, FS_AddElement
      <3> QED
        BY <2>6, <2>7, <2>8, <3>1
    <2>10. Passwords \in SUBSET K
      BY NodeAccountAssumption DEF G
    <2>11. IsFiniteSet(Passwords) /\ Cardinality(Passwords) <= Cardinality(K)
      BY <2>9, <2>10, FS_Subset
    <2>12. Cardinality(K) \in Nat /\ Cardinality(Passwords) \in Nat
      BY <2>9, <2>11, FS_CardinalityType
    <2> QED
      BY <2>2, <2>6, <2>9, <2>11, <2>12, NodeAccountAssumption
  <1> QED
    BY <1>1, Zenon DEF generate_password

-----------------------------------------------------------------------------
(* How the steps of a job move it.                                         *)

Moved(w, pc) == IF pc = "idle" THEN Idle ELSE [job[w] EXCEPT !.pc = pc]

LEMMA GoToMoves ==
    ASSUME TypeOK, NEW w \in Workers, NEW pc, GoTo(w, pc)
    PROVE  /\ job' = [job EXCEPT ![w] = Moved(w, pc)]
           /\ job'[w] = Moved(w, pc)
           /\ \A v \in Workers : v # w => job'[v] = job[v]
  BY DEF GoTo, TypeOK, Moved

LEMMA IdleJob ==
    /\ Idle \in Job
    /\ Idle.op = "none" /\ Idle.pc = "idle" /\ Idle.pw = None /\ Idle.seen = 0
  BY DEF Idle, Job, PC

(* A job that has moved is the same job.                                   *)
LEMMA MovedJob ==
    ASSUME TypeOK, NEW w \in Workers, NEW pc \in PC, pc # "idle"
    PROVE  LET j == Moved(w, pc)
           IN  /\ j \in Job
               /\ j.op = job[w].op /\ j.pc = pc /\ j.pw = job[w].pw
               /\ j.seen = job[w].seen /\ j.clean = job[w].clean
  <1>1. job[w] \in Job
    BY DEF TypeOK
  <1> QED
    BY <1>1 DEF Moved, Job

(* The outcomes of a command: it does its work and the job goes on; it     *)
(* fails; or it raises, which ends the job.                                *)
Works(w, after, pc) ==
    /\ node' = after /\ GoTo(w, pc) /\ UNCHANGED <<faults, doubt>>
Fails(w, other) ==
    /\ GoTo(w, other) /\ Fault /\ UNCHANGED node
    /\ doubt' = (doubt \/ (other = "idle" /\ job[w].op # "reset"))
Raises(w, after) ==
    /\ node' \in {node, after} /\ GoTo(w, "idle")
    /\ faults' \in {faults, faults + 1}
    /\ doubt' = (doubt \/ OnPassword(w))

LEMMA RunOutcomes ==
    ASSUME NEW w \in Workers, NEW after, NEW pc, NEW other, Run(w, after, pc, other)
    PROVE  /\ Works(w, after, pc) \/ Fails(w, other) \/ Raises(w, after)
           /\ UNCHANGED <<row, sent>>
  BY DEF Run, Works, Fails, Raises, Stopped, Done, Fault, OnPassword

-----------------------------------------------------------------------------
(* The first layer: jobs are at commands of theirs.                        *)

(* A step that moves one job, or ends it, or gives it new usage.           *)
LEMMA JobStep ==
    ASSUME JobInv, NEW w \in Workers, NEW j \in Job,
           job' = [job EXCEPT ![w] = j],
           j = Idle \/ (j.op = job[w].op /\ j.pw = job[w].pw /\ j.pc \in Points(j.op)),
           UNCHANGED <<mix, serving>>, row' \in Row, node' \in Node, sent' \in Nat, faults' \in Nat,
           doubt' \in BOOLEAN, tangled' \in BOOLEAN,
           row.status # "none" => row'.status # "none"
    PROVE  JobInv'
  <1>1. job'[w] = j /\ \A v \in Workers : v # w => job'[v] = job[v]
    BY DEF JobInv, TypeOK
  <1>2. TypeOK'
    BY DEF JobInv, TypeOK
  <1>3. AtPoints'
    <2>1. j.pc \in Points(j.op)
      BY IdleJob, PointsOf
    <2> QED
      BY <1>1, <2>1 DEF JobInv, AtPoints
  <1>4. InHand'
    BY <1>1, IdleJob DEF JobInv, InHand, OnPassword
  <1>5. Known'
    <2>1. "none" \notin Ops
      BY DEF Ops, PasswordOps
    <2> QED
      BY <1>1, <2>1, IdleJob DEF JobInv, Known
  <1> QED
    BY <1>2, <1>3, <1>4, <1>5 DEF JobInv

LEMMA PointsAreCommands ==
    ASSUME NEW o \in Ops \cup {"none"}
    PROVE  Points(o) \subseteq PC /\ ("idle" \in Points(o) <=> o = "none")
  <1>1. o \in {"create", "provision", "reset", "sync", "delete", "activate", "none"}
    BY DEF Ops, PasswordOps
  <1> QED
    BY <1>1, PointsOf DEF PC, Making

LEMMA MoveIsJob ==
    ASSUME JobInv, NEW w \in Workers, NEW pc \in Points(job[w].op) \cup {"idle"}
    PROVE  LET j == Moved(w, pc)
           IN  /\ j \in Job
               /\ j = Idle \/ (j.op = job[w].op /\ j.pw = job[w].pw /\ j.pc \in Points(j.op))
  <1>1. job[w].op \in Ops \cup {"none"}
    BY OpsAt
  <1>2. pc \in PC
    BY <1>1, PointsAreCommands DEF PC
  <1>3. CASE pc = "idle"
    BY <1>3, IdleJob DEF Moved
  <1>4. CASE pc # "idle"
    BY <1>2, <1>4, MovedJob DEF JobInv
  <1> QED
    BY <1>3, <1>4

LEMMA RunJob ==
    ASSUME JobInv, NEW w \in Workers, NEW after \in Node,
           NEW pc \in Points(job[w].op) \cup {"idle"},
           NEW other \in Points(job[w].op) \cup {"idle"},
           Run(w, after, pc, other), UNCHANGED <<mix, serving>>, tangled' \in BOOLEAN
    PROVE  JobInv'
  <1>1. /\ Works(w, after, pc) \/ Fails(w, other) \/ Raises(w, after)
        /\ UNCHANGED <<row, sent>>
    BY RunOutcomes
  <1>2. /\ node' \in Node /\ faults' \in Nat /\ doubt' \in BOOLEAN
        /\ \E c \in {pc, other, "idle"} : GoTo(w, c)
    <2>0. node \in Node /\ faults \in Nat /\ doubt \in BOOLEAN
      BY DEF JobInv, TypeOK
    <2>1. CASE Works(w, after, pc)
      BY <2>0, <2>1 DEF Works
    <2>2. CASE Fails(w, other)
      <3>1. doubt' \in BOOLEAN
        BY <2>0, <2>2, Zenon DEF Fails
      <3> QED
        BY <2>0, <2>2, <3>1 DEF Fails, Fault
    <2>3. CASE Raises(w, after)
      <3>1. doubt' \in BOOLEAN
        BY <2>0, <2>3, Zenon DEF Raises
      <3> QED
        BY <2>0, <2>3, <3>1 DEF Raises
    <2> QED
      BY <1>1, <2>1, <2>2, <2>3
  <1>3. PICK c \in {pc, other, "idle"} : GoTo(w, c)
    BY <1>2
  <1>4. job' = [job EXCEPT ![w] = Moved(w, c)]
    BY <1>3, GoToMoves DEF JobInv
  <1>5. row' \in Row /\ sent' \in Nat
    BY <1>1 DEF JobInv, TypeOK
  <1>6. /\ Moved(w, c) \in Job
        /\ \/ Moved(w, c) = Idle
           \/ /\ Moved(w, c).op = job[w].op /\ Moved(w, c).pw = job[w].pw
              /\ Moved(w, c).pc \in Points(Moved(w, c).op)
    BY MoveIsJob
  <1> QED
    BY <1>1, <1>2, <1>4, <1>5, <1>6, JobStep

(* The nodes that the commands leave.                                      *)
LEMMA NodesAfter ==
    ASSUME node \in Node
    PROVE  /\ NoUser(node) \in Node /\ NoRules(node) \in Node
           /\ \A j \in {0, node.jumps} : [node EXCEPT !.exists = TRUE, !.jumps = j] \in Node
           /\ \A p \in Passwords \cup {None} : [node EXCEPT !.pw = p] \in Node
           /\ [node EXCEPT !.chain = TRUE] \in Node
           /\ [node EXCEPT !.jumps = @ + IF node.chain THEN 1 ELSE 0] \in Node
           /\ [node EXCEPT !.rules = Append(@, 0)] \in Node
  <1>1. NoUser(node) \in Node /\ NoRules(node) \in Node
    <2>1. NoUser(node) \in Node
      BY DEF Node, NoUser
    <2>2. << >> \in Seq(Nat)
      OBVIOUS
    <2>3. NoRules(node) \in Node
      BY <2>2 DEF Node, NoRules
    <2> QED
      BY <2>1, <2>3
  <1>2. /\ \A j \in {0, node.jumps} : [node EXCEPT !.exists = TRUE, !.jumps = j] \in Node
        /\ \A p \in Passwords \cup {None} : [node EXCEPT !.pw = p] \in Node
        /\ [node EXCEPT !.chain = TRUE] \in Node
    <2>1. \A j \in {0, node.jumps} : [node EXCEPT !.exists = TRUE, !.jumps = j] \in Node
      <3>1. \A j \in {0, node.jumps} : j \in Nat
        BY DEF Node
      <3> QED
        BY <3>1 DEF Node
    <2>2. \A p \in Passwords \cup {None} : [node EXCEPT !.pw = p] \in Node
      BY DEF Node
    <2>3. [node EXCEPT !.chain = TRUE] \in Node
      BY DEF Node
    <2> QED
      BY <2>1, <2>2, <2>3
  <1>3. [node EXCEPT !.jumps = @ + IF node.chain THEN 1 ELSE 0] \in Node
    <2>1. node.jumps + (IF node.chain THEN 1 ELSE 0) \in Nat
      BY DEF Node
    <2> QED
      BY <2>1 DEF Node
  <1>4. [node EXCEPT !.rules = Append(@, 0)] \in Node
    <2>1. Append(node.rules, 0) \in Seq(Nat)
      BY DEF Node
    <2> QED
      BY <2>1 DEF Node
  <1> QED
    BY <1>1, <1>2, <1>3, <1>4

LEMMA UserJob ==
    ASSUME JobInv, NEW w \in Workers, UNCHANGED <<mix, serving>>,
           UserExists(w) \/ UserAdd(w) \/ ChPasswd(w) \/ UserDel(w) \/ Unlock(w)
    PROVE  JobInv'
  <1> PICK o : o = job[w].op
    OBVIOUS
  <1>0. node \in Node /\ job[w].pw \in Passwords \cup {None} /\ tangled \in BOOLEAN
    BY DEF JobInv, TypeOK, Job
  <1>1. CASE UserExists(w)
    <2>1. o = "provision"
      BY <1>1, OpsAt DEF UserExists
    <2>2. /\ (IF node.exists THEN AfterUser ELSE "useradd") \in Points(o) \cup {"idle"}
          /\ "useradd" \in Points(o) \cup {"idle"}
      BY <2>1, PointsOf DEF AfterUser
    <2> QED
      BY <1>0, <1>1, <2>2, RunJob DEF UserExists
  <1>2. CASE UserAdd(w)
    <2>1. o \in {"create", "provision"}
      BY <1>2, OpsAt DEF UserAdd
    <2>2. "chpasswd" \in Points(o) \cup {"idle"}
      BY <2>1, PointsOf
    <2>3. PICK j \in {0, node.jumps} :
             Run(w, IF node.exists THEN node ELSE [node EXCEPT !.exists = TRUE, !.jumps = j],
                 "chpasswd", "chpasswd")
      BY <1>2 DEF UserAdd
    <2>4. (IF node.exists THEN node ELSE [node EXCEPT !.exists = TRUE, !.jumps = j]) \in Node
      BY <1>0, NodesAfter
    <2> QED
      BY <1>0, <1>2, <2>2, <2>3, <2>4, RunJob DEF UserAdd
  <1>3. CASE ChPasswd(w)
    <2>1. o \in PasswordOps
      BY <1>3, OpsAt DEF ChPasswd, SetPassword
    <2>2. (IF o = "reset" THEN "save" ELSE AfterUser) \in Points(o)
      BY <2>1, PointsOf DEF AfterUser, PasswordOps
    <2>3. [node EXCEPT !.pw = job[w].pw] \in Node
      BY <1>0, NodesAfter
    <2>4. CASE node.exists
      BY <1>0, <1>3, <2>2, <2>3, <2>4, RunJob DEF ChPasswd, SetPassword
    <2>5. CASE ~node.exists
      BY <1>0, <1>3, <2>5, RunJob DEF ChPasswd, SetPassword
    <2> QED
      BY <2>4, <2>5
  <1>4. CASE UserDel(w)
    <2>1. "save" \in Points(o)
      BY <1>4, OpsAt, PointsOf DEF UserDel
    <2> QED
      BY <1>0, <1>4, <2>1, NodesAfter, RunJob DEF UserDel
  <1>5. CASE Unlock(w)
    <2>1. "save" \in Points(o)
      BY <1>5, OpsAt, PointsOf DEF Unlock
    <2> QED
      BY <1>0, <1>5, <2>1, RunJob DEF Unlock
  <1> QED
    BY <1>1, <1>2, <1>3, <1>4, <1>5

LEMMA ChainJob ==
    ASSUME JobInv, NEW w \in Workers, UNCHANGED <<mix, serving>>,
           IdU(w) \/ List(w) \/ Chain(w) \/ Lock(w)
    PROVE  JobInv'
  <1> PICK o : o = job[w].op
    OBVIOUS
  <1>0. node \in Node /\ tangled \in BOOLEAN
    BY DEF JobInv, TypeOK
  <1>a. o \in {"create", "provision", "sync"} =>
          /\ AfterSetUp(w) \in Points(o)
          /\ {"list", "new", "jump", "return"} \subseteq Points(o)
    BY PointsOf DEF AfterSetUp
  <1>b. job[w].pc \in SettingUp => o \in {"create", "provision", "sync"}
    BY OpsAt
  <1>1. CASE IdU(w)
    <2>1. o \in {"create", "provision", "sync"}
      BY <1>1, <1>b DEF IdU, SettingUp
    <2> QED
      BY <1>0, <1>1, <1>a, <2>1, RunJob DEF IdU
  <1>2. CASE List(w)
    <2>1. o \in {"create", "provision", "sync"}
      BY <1>2, <1>b DEF List, SettingUp
    <2>2. tangled' \in BOOLEAN
      BY <1>0, <1>2 DEF List
    <2> QED
      BY <1>0, <1>2, <1>a, <2>1, <2>2, RunJob DEF List
  <1>3. CASE Chain(w)
    <2>1. o \in {"create", "provision", "sync"}
      BY <1>3, <1>b DEF Chain, SettingUp, Making
    <2>2. CASE job[w].pc = "new"
      BY <1>0, <1>3, <1>a, <2>1, <2>2, NodesAfter, RunJob DEF Chain
    <2>3. CASE job[w].pc = "jump"
      BY <1>0, <1>3, <1>a, <2>1, <2>3, NodesAfter, RunJob DEF Chain
    <2>4. CASE job[w].pc = "return"
      <3>1. (IF node.chain THEN [node EXCEPT !.rules = Append(@, 0)] ELSE node) \in Node
        BY <1>0, NodesAfter
      <3> QED
        BY <1>0, <1>3, <1>a, <2>1, <2>4, <3>1, RunJob DEF Chain
    <2> QED
      BY <1>3, <2>2, <2>3, <2>4 DEF Chain
  <1>4. CASE Lock(w)
    <2>1. "status" \in Points(o)
      BY <1>4, OpsAt, PointsOf DEF Lock
    <2> QED
      BY <1>0, <1>4, <2>1, RunJob DEF Lock
  <1> QED
    BY <1>1, <1>2, <1>3, <1>4

(* round(bytes / 1024 ** 3, 6) is a number, and grows with the bytes.      *)
LEMMA GBGrows ==
    /\ \A b \in Nat : GB(b) \in Nat
    /\ GB(0) = 0
    /\ \A b, c \in Nat : b <= c => GB(b) <= GB(c)
  <1>0. Grain \in Nat \ {0}
    BY NodeAccountAssumption
  <1>1. ASSUME NEW n \in Nat, NEW d \in Nat, d > 0
        PROVE  n \div d \in Nat /\ (n < d => n \div d = 0)
    <2>1. n \div d \in Int /\ n \div d >= 0
      BY <1>1
    <2>2. n < d => n \div d = 0
      BY <1>1
    <2> QED
      BY <2>1, <2>2
  <1>2. ASSUME NEW n \in Nat, NEW m \in Nat, NEW d \in Nat, d > 0, n <= m
        PROVE  n \div d <= m \div d
    BY <1>2
  <1>3. \A b \in Nat : GB(b) \in Nat
    <2> SUFFICES ASSUME NEW b \in Nat PROVE GB(b) \in Nat
      OBVIOUS
    <2>1. 2 * b + Grain \in Nat /\ 2 * Grain \in Nat /\ 2 * Grain > 0
      BY <1>0
    <2> QED
      BY <1>1, <2>1 DEF GB
  <1>4. GB(0) = 0
    <2>1. 2 * 0 + Grain \in Nat /\ 2 * Grain \in Nat /\ 2 * Grain > 0
          /\ 2 * 0 + Grain < 2 * Grain
      BY <1>0
    <2> QED
      BY <1>1, <2>1 DEF GB
  <1>5. \A b, c \in Nat : b <= c => GB(b) <= GB(c)
    <2> SUFFICES ASSUME NEW b \in Nat, NEW c \in Nat, b <= c PROVE GB(b) <= GB(c)
      OBVIOUS
    <2>1. /\ 2 * b + Grain \in Nat /\ 2 * c + Grain \in Nat
          /\ 2 * Grain \in Nat /\ 2 * Grain > 0
          /\ 2 * b + Grain <= 2 * c + Grain
      BY <1>0
    <2> QED
      BY <1>2, <2>1 DEF GB
  <1> QED
    BY <1>3, <1>4, <1>5

LEMMA ReadingIsNumber ==
    ASSUME node \in Node
    PROVE  /\ Reading \in Nat
           /\ node.rules = << >> \/ \E i \in DOMAIN node.rules : Reading = node.rules[i]
  <1>1. node.rules \in Seq(Nat)
    BY DEF Node
  <1> PICK r \in Seq(Nat) : r = node.rules
    BY <1>1
  <1>2. CASE r = << >>
    BY <1>2 DEF Reading
  <1>3. CASE r # << >>
    <2>1. Len(r) \in DOMAIN r /\ r[Len(r)] \in Nat
      BY <1>3
    <2> QED
      BY <1>3, <2>1 DEF Reading
  <1> QED
    BY <1>2, <1>3

(* What a job is after a read, or a save of sync_bandwidth_usage.          *)
LEMMA AfterSaveMoves ==
    ASSUME JobInv, NEW w \in Workers, job[w].op = "sync", NEW used \in Nat, AfterSave(w, used)
    PROVE  \E j \in Job :
              /\ job' = [job EXCEPT ![w] = j]
              /\ \/ j = Idle
                 \/ /\ j.op = job[w].op /\ j.pw = job[w].pw /\ j.pc = "lock"
                    /\ j.clean = job[w].clean /\ j.seen = used
  <1> DEFINE j == IF OverLimit(used) THEN [job[w] EXCEPT !.pc = "lock", !.seen = used] ELSE Idle
  <1>1. job[w] \in Job
    BY DEF JobInv, TypeOK
  <1>2. j \in Job
    BY <1>1, IdleJob DEF Job, PC
  <1>3. job' = [job EXCEPT ![w] = j]
    BY DEF AfterSave
  <1>4. \/ j = Idle
        \/ /\ j.op = job[w].op /\ j.pw = job[w].pw /\ j.pc = "lock"
           /\ j.clean = job[w].clean /\ j.seen = used
    BY <1>1 DEF Job
  <1> QED
    BY <1>2, <1>3, <1>4

LEMMA ReadMoves ==
    ASSUME JobInv, NEW w \in Workers, Read(w)
    PROVE  /\ job[w].op = "sync"
           /\ faults' \in {faults, faults + 1}
           /\ \E j \in Job :
                 /\ job' = [job EXCEPT ![w] = j]
                 /\ \/ j = Idle
                    \/ /\ j.op = job[w].op /\ j.pw = job[w].pw /\ j.pc \in {"save", "lock"}
                       /\ j.clean = job[w].clean /\ j.seen \in {0, GB(Reading)}
  <1>0. job[w] \in Job /\ job[w].op = "sync" /\ faults \in Nat
    BY OpsAt DEF Read, JobInv, TypeOK
  <1>1. GB(Reading) \in Nat
    BY ReadingIsNumber, GBGrows DEF JobInv, TypeOK
  <1>2. CASE Done(w)
    <2>1. job' = [job EXCEPT ![w] = Idle] /\ Idle \in Job
      BY <1>2, GoToMoves, IdleJob DEF Done, Moved, JobInv
    <2>2. faults' \in {faults, faults + 1}
      BY <1>0 DEF Read, Fault
    <2> QED
      BY <1>0, <2>1, <2>2
  <1>3. ASSUME NEW used \in {GB(Reading), 0},
               faults' = faults + (IF used = gb_used(w) THEN 0 ELSE 1),
               IF used # job[w].seen
                 THEN job' = [job EXCEPT ![w].pc = "save", ![w].seen = used]
                 ELSE AfterSave(w, used)
        PROVE  /\ faults' \in {faults, faults + 1}
               /\ \E j \in Job :
                     /\ job' = [job EXCEPT ![w] = j]
                     /\ \/ j = Idle
                        \/ /\ j.op = job[w].op /\ j.pw = job[w].pw /\ j.pc \in {"save", "lock"}
                           /\ j.clean = job[w].clean /\ j.seen \in {0, GB(Reading)}
    <2>0. used \in Nat /\ faults' \in {faults, faults + 1}
      BY <1>0, <1>1, <1>3
    <2>1. CASE used # job[w].seen
      <3> DEFINE j == [job[w] EXCEPT !.pc = "save", !.seen = used]
      <3>1. j \in Job
        BY <1>0, <2>0 DEF Job, PC
      <3>2. job' = [job EXCEPT ![w] = j]
        BY <1>0, <1>3, <2>1 DEF JobInv, TypeOK, Job
      <3>3. j.op = job[w].op /\ j.pw = job[w].pw /\ j.pc = "save" /\ j.clean = job[w].clean
            /\ j.seen = used
        BY <1>0 DEF Job
      <3> QED
        BY <1>3, <2>0, <3>1, <3>2, <3>3
    <2>2. CASE used = job[w].seen
      <3>1. AfterSave(w, used)
        BY <1>3, <2>2
      <3>2. PICK j \in Job :
              /\ job' = [job EXCEPT ![w] = j]
              /\ \/ j = Idle
                 \/ /\ j.op = job[w].op /\ j.pw = job[w].pw /\ j.pc = "lock"
                    /\ j.clean = job[w].clean /\ j.seen = used
        BY <1>0, <2>0, <3>1, AfterSaveMoves
      <3> QED
        BY <1>3, <2>0, <3>2
    <2> QED
      BY <2>1, <2>2
  <1>4. \/ Done(w)
        \/ \E used \in {GB(Reading), 0} :
              /\ faults' = faults + (IF used = gb_used(w) THEN 0 ELSE 1)
              /\ IF used # job[w].seen
                   THEN job' = [job EXCEPT ![w].pc = "save", ![w].seen = used]
                   ELSE AfterSave(w, used)
    BY DEF Read, gb_used
  <1> QED
    BY <1>0, <1>2, <1>3, <1>4

(* What a save writes.                                                     *)
LEMMA SaveWrites ==
    ASSUME JobInv, NEW w \in Workers, Save(w)
    PROVE  /\ job[w].op \in Ops
           /\ row' \in Row
           /\ row.status # "none" => row'.status # "none"
           /\ job[w].op \in {"create", "provision"} =>
                 \/ row' = row /\ row.status # "none" /\ doubt'
                 \/ row' = [status |-> "active", pw |-> job[w].pw, used |-> 0]
           /\ job[w].op \in {"reset", "sync", "delete", "activate"} =>
                 /\ row'.used = IF job[w].op = "sync" THEN job[w].seen ELSE row.used
                 /\ row'.pw = IF job[w].op = "reset" THEN job[w].pw ELSE row.pw
           /\ \E j \in Job :
                 /\ job' = [job EXCEPT ![w] = j]
                 /\ \/ j = Idle
                    \/ /\ job[w].op = "sync"
                       /\ j.op = job[w].op /\ j.pw = job[w].pw /\ j.pc = "lock"
                       /\ j.clean = job[w].clean /\ j.seen = job[w].seen
  <1> PICK o : o = job[w].op
    OBVIOUS
  <1>0. job[w] \in Job /\ row \in Row /\ o \in Ops /\ job[w].pc = "save"
    BY OpsAt DEF Save, JobInv, TypeOK
  <1>1. o \in {"create", "provision", "reset", "sync", "delete", "activate"}
    BY <1>0 DEF Ops, PasswordOps
  <1>2. \E j \in Job :
           /\ job' = [job EXCEPT ![w] = j]
           /\ \/ j = Idle
              \/ /\ job[w].op = "sync"
                 /\ j.op = job[w].op /\ j.pw = job[w].pw /\ j.pc = "lock"
                 /\ j.clean = job[w].clean /\ j.seen = job[w].seen
    <2>1. CASE o = "sync"
      <3>1. AfterSave(w, job[w].seen) /\ job[w].seen \in Nat
        BY <1>0, <2>1 DEF Save, Job
      <3>2. PICK j \in Job :
              /\ job' = [job EXCEPT ![w] = j]
              /\ \/ j = Idle
                 \/ /\ j.op = job[w].op /\ j.pw = job[w].pw /\ j.pc = "lock"
                    /\ j.clean = job[w].clean /\ j.seen = job[w].seen
        BY <2>1, <3>1, AfterSaveMoves
      <3> QED
        BY <2>1, <3>2
    <2>2. CASE o # "sync"
      <3>1. Done(w)
        BY <2>2 DEF Save
      <3>2. job' = [job EXCEPT ![w] = Idle] /\ Idle \in Job
        BY <3>1, GoToMoves, IdleJob DEF Done, Moved, JobInv
      <3> QED
        BY <3>2
    <2> QED
      BY <2>1, <2>2
  <1>3. CASE o \in {"create", "provision"}
    <2>1. \/ row' = row /\ o = "provision" /\ row.status # "none"
          \/ row' = [status |-> "active", pw |-> job[w].pw, used |-> 0]
      BY <1>3 DEF Save
    <2>2. row' = row /\ o = "provision" /\ row.status # "none" => doubt'
      BY <2>1 DEF Save, PasswordOps
    <2>3. [status |-> "active", pw |-> job[w].pw, used |-> 0] \in Row
      BY <1>0 DEF Row, Job
    <2>4. row' \in Row /\ (row.status # "none" => row'.status # "none")
      BY <1>0, <2>1, <2>3
    <2> QED
      BY <1>0, <1>2, <1>3, <2>1, <2>2, <2>4
  <1>4. CASE o = "reset"
    <2>1. row' = [row EXCEPT !.pw = job[w].pw]
      BY <1>4 DEF Save
    <2> QED
      BY <1>0, <1>2, <1>4, <2>1 DEF Row, Job
  <1>5. CASE o = "sync"
    <2>1. row' = [row EXCEPT !.used = job[w].seen]
      BY <1>5 DEF Save
    <2> QED
      BY <1>0, <1>2, <1>5, <2>1 DEF Row, Job
  <1>6. CASE o = "delete"
    <2>1. row' = [row EXCEPT !.status = "deleted"]
      BY <1>6 DEF Save
    <2> QED
      BY <1>0, <1>2, <1>6, <2>1 DEF Row
  <1>7. CASE o = "activate"
    <2>1. row' = [row EXCEPT !.status = "active"]
      BY <1>7 DEF Save
    <2> QED
      BY <1>0, <1>2, <1>7, <2>1 DEF Row
  <1> QED
    BY <1>1, <1>3, <1>4, <1>5, <1>6, <1>7

LEMMA SyncJob ==
    ASSUME JobInv, NEW w \in Workers, UNCHANGED <<mix, serving>>, Read(w) \/ Suspend(w) \/ Save(w)
    PROVE  JobInv'
  <1>0. /\ UNCHANGED <<mix, serving>> /\ row \in Row /\ node \in Node /\ sent \in Nat /\ faults \in Nat
        /\ doubt \in BOOLEAN /\ tangled \in BOOLEAN
    BY DEF JobInv, TypeOK
  <1>1. CASE Read(w)
    <2>1. job[w].op = "sync" /\ faults' \in {faults, faults + 1}
      BY <1>1, ReadMoves
    <2>2. PICK j \in Job :
             /\ job' = [job EXCEPT ![w] = j]
             /\ \/ j = Idle
                \/ /\ j.op = job[w].op /\ j.pw = job[w].pw /\ j.pc \in {"save", "lock"}
                   /\ j.clean = job[w].clean /\ j.seen \in {0, GB(Reading)}
      BY <1>1, ReadMoves
    <2>3. {"save", "lock"} \subseteq Points(job[w].op)
      BY <2>1, PointsOf
    <2>4. UNCHANGED <<row, node, sent, doubt, tangled>> /\ faults' \in Nat
      BY <1>0, <1>1, <2>1 DEF Read
    <2> QED
      BY <1>0, <2>2, <2>3, <2>4, JobStep
  <1>2. CASE Suspend(w)
    <2>1. job' = [job EXCEPT ![w] = Idle] /\ Idle \in Job
      BY <1>2, GoToMoves, IdleJob DEF Suspend, Done, Moved, JobInv
    <2>2. row' \in Row /\ (row.status # "none" => row'.status # "none")
      BY <1>0, <1>2 DEF Suspend, Row
    <2>3. UNCHANGED <<node, sent, faults, doubt, tangled>>
      BY <1>2 DEF Suspend
    <2> QED
      BY <1>0, <2>1, <2>2, <2>3, JobStep
  <1>3. CASE Save(w)
    <2>1. row' \in Row /\ (row.status # "none" => row'.status # "none")
      BY <1>3, SaveWrites
    <2>2. PICK j \in Job :
             /\ job' = [job EXCEPT ![w] = j]
             /\ \/ j = Idle
                \/ /\ job[w].op = "sync"
                   /\ j.op = job[w].op /\ j.pw = job[w].pw /\ j.pc = "lock"
                   /\ j.clean = job[w].clean /\ j.seen = job[w].seen
      BY <1>3, SaveWrites
    <2>3. j = Idle \/ (j.op = job[w].op /\ j.pw = job[w].pw /\ j.pc \in Points(j.op))
      BY <2>2, PointsOf
    <2>4. UNCHANGED <<node, sent, faults, tangled>>
      BY <1>3 DEF Save
    <2>5. doubt' \in BOOLEAN
      <3>1. job[w] \in Job
        BY DEF JobInv, TypeOK
      <3>2. job[w].clean \in BOOLEAN
        BY <3>1 DEF Job
      <3> QED
        BY <1>0, <1>3, <3>2, Zenon DEF Save
    <2> QED
      BY <1>0, <2>1, <2>2, <2>3, <2>4, <2>5, JobStep
  <1> QED
    BY <1>1, <1>2, <1>3

(* The start of a job.                                                     *)
Fresh(w, o, pc) ==
    /\ job'[w].op = o /\ job'[w].pc = pc /\ job'[w].seen = row.used
    /\ job'[w].pw = IF o \in PasswordOps THEN generate_password ELSE None

LEMMA BeginMoves ==
    ASSUME JobInv, NEW w \in Workers, NEW o \in Ops, NEW pc \in PC, Begin(w, o, pc)
    PROVE  /\ job' \in [Workers -> Job]
           /\ job[w].op = "none"
           /\ Fresh(w, o, pc)
           /\ \A v \in Workers : v # w =>
                 /\ job'[v].op = job[v].op /\ job'[v].pc = job[v].pc
                 /\ job'[v].pw = job[v].pw /\ job'[v].seen = job[v].seen
                 /\ job'[v].clean =>
                      job[v].clean /\ ~(o \in PasswordOps /\ OnPassword(v))
           /\ job'[w].clean =>
                 /\ o \in PasswordOps => \A v \in Workers : ~OnPassword(v)
                 /\ o = "provision" => ~node.exists
           /\ doubt' \in BOOLEAN
           /\ doubt => doubt'
           /\ o \in PasswordOps /\ (\E v \in Workers : OnPassword(v)) => doubt'
           /\ UNCHANGED <<mix, serving, row, node, sent, faults, tangled>>
  <1> PICK others : others = {v \in Workers : {o, job[v].op} \subseteq PasswordOps}
    OBVIOUS
  <1> PICK pw : pw = IF o \in PasswordOps THEN generate_password ELSE None
    OBVIOUS
  <1> PICK clean : clean = (others = {} /\ ~(o = "provision" /\ node.exists))
    OBVIOUS
  <1> DEFINE new == [op |-> o, pc |-> pc, seen |-> row.used, live |-> TRUE,
                     pw |-> pw, clean |-> clean]
             old(v) == [job[v] EXCEPT !.clean = job[v].clean /\ v \notin others]
  <1>0. /\ job \in [Workers -> Job] /\ row \in Row /\ doubt \in BOOLEAN
        /\ job[w].pc = "idle" /\ UNCHANGED <<mix, serving, row, node, sent, faults, tangled>>
    BY DEF JobInv, TypeOK, Begin
  <1>1. job[w].op = "none"
    BY <1>0, OpsAt
  <1>2. job' = [v \in Workers |-> IF v = w THEN new ELSE old(v)]
    BY Zenon DEF Begin
  <1>3. doubt' = (doubt \/ others # {})
    BY Zenon DEF Begin
  <1>4. pw \in Passwords \cup {None}
    BY <1>0, FreshPassword
  <1>5. clean \in BOOLEAN
    BY Zenon
  <1>6. new \in Job
    BY <1>0, <1>4, <1>5 DEF Job, Row
  <1>7. \A v \in Workers :
           /\ old(v) \in Job
           /\ old(v).op = job[v].op /\ old(v).pc = job[v].pc
           /\ old(v).pw = job[v].pw /\ old(v).seen = job[v].seen
           /\ old(v).clean = (job[v].clean /\ v \notin others)
    <2> SUFFICES ASSUME NEW v \in Workers
                 PROVE  /\ old(v) \in Job
                        /\ old(v).op = job[v].op /\ old(v).pc = job[v].pc
                        /\ old(v).pw = job[v].pw /\ old(v).seen = job[v].seen
                        /\ old(v).clean = (job[v].clean /\ v \notin others)
      OBVIOUS
    <2>1. PICK b \in BOOLEAN : b = (job[v].clean /\ v \notin others)
      OBVIOUS
    <2>2. job[v] \in Job
      BY <1>0
    <2> QED
      BY <2>1, <2>2 DEF Job
  <1>8. /\ new.op = o /\ new.pc = pc /\ new.seen = row.used /\ new.pw = pw
        /\ new.clean = clean
    OBVIOUS
  <1> HIDE DEF new, old
  <1>9. job' \in [Workers -> Job]
    BY <1>2, <1>6, <1>7
  <1>10. job'[w] = new /\ \A v \in Workers : v # w => job'[v] = old(v)
    BY <1>2
  <1>11. Fresh(w, o, pc)
    BY <1>8, <1>10 DEF Fresh
  <1>12. \A v \in Workers : v # w =>
           /\ job'[v].op = job[v].op /\ job'[v].pc = job[v].pc
           /\ job'[v].pw = job[v].pw /\ job'[v].seen = job[v].seen
           /\ job'[v].clean = (job[v].clean /\ v \notin others)
    BY <1>7, <1>10
  <1>13. \A v \in Workers : v \in others <=> (o \in PasswordOps /\ OnPassword(v))
    BY DEF OnPassword
  <1>14. job'[w].clean =>
           /\ o \in PasswordOps => \A v \in Workers : ~OnPassword(v)
           /\ o = "provision" => ~node.exists
    BY <1>8, <1>10, <1>13
  <1>15. /\ doubt' \in BOOLEAN
         /\ doubt => doubt'
         /\ o \in PasswordOps /\ (\E v \in Workers : OnPassword(v)) => doubt'
    BY <1>0, <1>3, <1>13
  <1> QED
    BY <1>0, <1>1, <1>9, <1>11, <1>12, <1>13, <1>14, <1>15

LEMMA BeginJob ==
    ASSUME JobInv, NEW w \in Workers, NEW o \in Ops, NEW pc \in Points(o), Begin(w, o, pc),
           o \in Ops \ {"create", "provision"} => row.status # "none"
    PROVE  JobInv'
  <1>0. pc \in PC
    BY PointsAreCommands
  <1>1. /\ job' \in [Workers -> Job]
        /\ Fresh(w, o, pc)
        /\ \A v \in Workers : v # w =>
              /\ job'[v].op = job[v].op /\ job'[v].pc = job[v].pc /\ job'[v].pw = job[v].pw
        /\ doubt' \in BOOLEAN
        /\ UNCHANGED <<mix, serving, row, node, sent, faults, tangled>>
    BY <1>0, BeginMoves
  <1>2. TypeOK'
    BY <1>1 DEF JobInv, TypeOK
  <1>3. AtPoints'
    BY <1>1 DEF JobInv, AtPoints, Fresh
  <1>4. InHand'
    BY <1>1 DEF JobInv, InHand, Fresh, OnPassword
  <1>5. Known'
    BY <1>1 DEF JobInv, Known, Fresh
  <1> QED
    BY <1>2, <1>3, <1>4, <1>5 DEF JobInv

(* Every start is one of these.                                            *)
LEMMA Starts ==
    ASSUME NEW w \in Workers,
           StartCreate(w) \/ StartProvision(w) \/ StartRequest(w) \/ StartSync(w)
    PROVE  \E o \in Ops : \E pc \in Points(o) :
              /\ Begin(w, o, pc)
              /\ o \in Ops \ {"create", "provision"} => row.status # "none"
              /\ o \in {"create", "provision"} => pc \in {"useradd", "exists"}
              /\ o = "reset" => pc = "chpasswd"
              /\ pc \notin {"new", "jump", "save"}
              /\ pc = "exists" => o = "provision"
  <1>1. /\ "create" \in Ops /\ "provision" \in Ops /\ "reset" \in Ops
        /\ "delete" \in Ops /\ "activate" \in Ops /\ "sync" \in Ops
    BY DEF Ops, PasswordOps
  <1>2. CASE StartCreate(w)
    BY <1>1, <1>2, PointsOf DEF StartCreate
  <1>3. CASE StartProvision(w)
    BY <1>1, <1>3, PointsOf DEF StartProvision
  <1>4. CASE StartRequest(w)
    BY <1>1, <1>4, PointsOf DEF StartRequest
  <1>5. CASE StartSync(w)
    BY <1>1, <1>5, PointsOf DEF StartSync
  <1> QED
    BY <1>2, <1>3, <1>4, <1>5

LEMMA OthersJob ==
    ASSUME JobInv, (\E w \in Workers : Crash(w)) \/ Transfer \/ Reboot
    PROVE  JobInv'
  <1>0. /\ row \in Row /\ node \in Node /\ sent \in Nat /\ faults \in Nat
        /\ job \in [Workers -> Job] /\ doubt \in BOOLEAN /\ tangled \in BOOLEAN
    BY DEF JobInv, TypeOK
  <1>1. ASSUME NEW w \in Workers, Crash(w) PROVE JobInv'
    <2>1. job' = [job EXCEPT ![w] = Idle] /\ Idle \in Job
      BY <1>1, GoToMoves, IdleJob DEF Crash, Stopped, Done, Moved, JobInv
    <2>2. doubt' \in BOOLEAN
      BY <1>0, <1>1, Zenon DEF Crash, Stopped
    <2>3. faults' \in Nat /\ UNCHANGED <<mix, serving, row, node, sent, tangled>>
      BY <1>0, <1>1 DEF Crash, Fault
    <2> QED
      BY <1>0, <2>1, <2>2, <2>3, JobStep
  <1>2. CASE Transfer
    <2> PICK r : r = [i \in DOMAIN node.rules |-> node.rules[i] + (IF i = 1 THEN node.jumps ELSE 0)]
      OBVIOUS
    <2>1. node.rules \in Seq(Nat) /\ node.jumps \in Nat
      BY <1>0 DEF Node
    <2>2. PICK q \in Seq(Nat) : q = node.rules
      BY <2>1
    <2>3. r \in [1 .. Len(q) -> Nat]
      BY <2>1, <2>2
    <2>4. r \in Seq(Nat)
      BY <2>2, <2>3
    <2>5. node' = [node EXCEPT !.rules = r]
      BY <1>2, Zenon DEF Transfer
    <2>6. node' \in Node
      BY <1>0, <2>4, <2>5 DEF Node
    <2>7. sent' \in Nat /\ UNCHANGED <<mix, serving, row, job, faults, doubt, tangled>>
      BY <1>0, <1>2 DEF Transfer
    <2> QED
      BY <2>6, <2>7 DEF JobInv, TypeOK, AtPoints, InHand, Known, OnPassword
  <1>3. CASE Reboot
    <2>1. \A w \in Workers :
             /\ job'[w] \in Job /\ job'[w].op = job[w].op /\ job'[w].pc = job[w].pc
             /\ job'[w].pw = job[w].pw
      <3> SUFFICES ASSUME NEW w \in Workers
                   PROVE  /\ job'[w] \in Job /\ job'[w].op = job[w].op /\ job'[w].pc = job[w].pc
                          /\ job'[w].pw = job[w].pw
        OBVIOUS
      <3>1. job[w] \in Job
        BY <1>0
      <3>2. CASE job[w].pc = "idle"
        <4>1. job[w].op = "none" /\ job[w].pw = None
          BY <3>2, OpsAt DEF JobInv, InHand, OnPassword, PasswordOps
        <4> QED
          BY <1>3, <3>2, <4>1, IdleJob DEF Reboot
      <3>3. CASE job[w].pc # "idle"
        <4>1. job'[w] = [job[w] EXCEPT !.live = FALSE]
          BY <1>3, <3>3 DEF Reboot
        <4> QED
          BY <3>1, <4>1 DEF Job
      <3> QED
        BY <3>2, <3>3
    <2>2. job' \in [Workers -> Job]
      <3>1. job' = [w \in Workers |-> job'[w]]
        BY <1>3 DEF Reboot
      <3> QED
        BY <2>1, <3>1
    <2>3. node' \in Node
      BY <1>0, <1>3, NodesAfter DEF Reboot
    <2>4. faults' \in Nat /\ UNCHANGED <<mix, serving, row, sent, doubt, tangled>>
      BY <1>0, <1>3 DEF Reboot, Fault
    <2> QED
      BY <2>1, <2>2, <2>3, <2>4 DEF JobInv, TypeOK, AtPoints, InHand, Known, OnPassword
  <1> QED
    BY <1>1, <1>2, <1>3

LEMMA JobInit == Init => JobInv
  <1> SUFFICES ASSUME Init PROVE JobInv
    OBVIOUS
  <1>1. << >> \in Seq(Nat)
    OBVIOUS
  <1>2. row \in Row /\ node \in Node
    BY <1>1 DEF Init, Row, Node
  <1>3. TypeOK
    BY <1>2, IdleJob DEF Init, TypeOK
  <1>4. "none" \notin Ops
    BY DEF Ops, PasswordOps
  <1>5. AtPoints /\ InHand /\ Known
    BY <1>4, IdleJob, PointsOf DEF Init, AtPoints, InHand, Known
  <1> QED
    BY <1>3, <1>5 DEF JobInv

LEMMA JobNext == JobInv /\ [Next]_vars => JobInv'
  <1> SUFFICES ASSUME JobInv, [Next]_vars PROVE JobInv'
    OBVIOUS
  <1>1. ASSUME NEW w \in Workers,
               StartCreate(w) \/ StartProvision(w) \/ StartRequest(w) \/ StartSync(w)
        PROVE  JobInv'
    <2>1. PICK o \in Ops : \E pc \in Points(o) :
             /\ Begin(w, o, pc)
             /\ o \in Ops \ {"create", "provision"} => row.status # "none"
      BY <1>1, Starts
    <2> QED
      BY <2>1, BeginJob
  <1>2. ASSUME NEW w \in Workers, Step(w) PROVE JobInv'
    BY <1>2, UserJob, ChainJob, SyncJob DEF Step
  <1>3. CASE UNCHANGED vars
    BY <1>3 DEF vars, JobInv, TypeOK, AtPoints, InHand, Known, OnPassword
  <1>4. CASE ChangeServer
    BY <1>4 DEF ChangeServer, JobInv, TypeOK, AtPoints, InHand, Known, OnPassword
  <1> QED
    BY <1>1, <1>2, <1>3, <1>4, OthersJob DEF Next

(* The types of the variables hold: a job is at a command of its           *)
(* operation, and generate_password always finds a password that nobody    *)
(* holds.                                                                  *)
THEOREM JobInvariant == Spec => []JobInv
  <1> QED
    BY JobInit, JobNext, PTL DEF Spec

(* The variables keep their types, whatever jobs interleave and fail.      *)
THEOREM NodeTypeCorrect == Spec => []TypeOK
  <1>1. JobInv => TypeOK
    BY DEF JobInv
  <1> QED
    BY <1>1, JobInvariant, PTL

-----------------------------------------------------------------------------
(* The second layer: the password.  A job on it that runs alone is clean   *)
(* or has met a user that it had not made; two of them are in doubt, and   *)
(* neither is clean.                                                       *)

InStep == row.status = "none" \/ ~node.exists \/ node.pw = row.pw

Alone ==
    \A v, w \in Workers :
        v # w /\ OnPassword(v) /\ OnPassword(w) => doubt /\ ~job[v].clean

(* A reset before chpasswd has changed nothing.                            *)
AtRest == \A w \in Workers : OnPassword(w) => job[w].op = "reset" /\ job[w].pc = "chpasswd"

Settled == AtRest /\ ~doubt => InStep

(* What a clean job has told the node is what it will show.                *)
Telling(w) == OnPassword(w) /\ job[w].clean /\ job[w].pc \in {"save"} \cup SettingUp
Told == \A w \in Workers : Telling(w) /\ node.exists => node.pw = job[w].pw

(* Nobody makes the user while a clean provisioning looks for it.          *)
NotThereYet ==
    \A w \in Workers : job[w].pc = "exists" /\ job[w].clean => ~node.exists

PasswordInv == Alone /\ Settled /\ Told /\ NotThereYet

(* A step of one job that leaves the user of the others alone.             *)
SameUser == node'.exists => node.exists /\ node'.pw = node.pw

LEMMA PasswordStep ==
    ASSUME JobInv, PasswordInv, NEW w \in Workers, NEW j,
           job'[w] = j, \A v \in Workers : v # w => job'[v] = job[v],
           j = Idle \/ (j.op = job[w].op /\ j.clean = job[w].clean /\ j.pc # "exists"),
           SameUser \/ OnPassword(w),
           doubt => doubt' \/ (OnPassword(w) /\ job[w].clean /\ j = Idle),
           Telling(w)' /\ node'.exists => node'.pw = j.pw,
           Settled'
    PROVE  PasswordInv'
  <1>1. Idle.op \notin PasswordOps /\ Idle.pc # "exists"
    BY IdleJob DEF PasswordOps
  <1>2. Alone'
    <2> SUFFICES ASSUME NEW u \in Workers, NEW v \in Workers, u # v,
                        OnPassword(u)', OnPassword(v)'
                 PROVE  doubt' /\ ~job'[u].clean
      BY DEF Alone
    <2>1. OnPassword(u) /\ OnPassword(v)
      BY <1>1 DEF OnPassword
    <2>2. doubt /\ ~job[u].clean
      BY <2>1 DEF PasswordInv, Alone
    <2>3. ~job'[u].clean
      BY <1>1, <2>2 DEF OnPassword
    <2>4. OnPassword(w) /\ job[w].clean /\ j = Idle => FALSE
      <3> SUFFICES ASSUME OnPassword(w), job[w].clean, j = Idle PROVE FALSE
        OBVIOUS
      <3>1. u # w
        BY <1>1 DEF OnPassword
      <3> QED
        BY <2>1, <3>1 DEF PasswordInv, Alone
    <2> QED
      BY <2>2, <2>3, <2>4
  <1>3. Told'
    <2> SUFFICES ASSUME NEW v \in Workers, Telling(v)', node'.exists
                 PROVE  node'.pw = job'[v].pw
      BY DEF Told
    <2>1. CASE v = w
      BY <2>1
    <2>2. CASE v # w
      <3>1. Telling(v)
        BY <2>2 DEF Telling, OnPassword
      <3>2. ~OnPassword(w)
        BY <2>2, <3>1 DEF PasswordInv, Alone, Telling
      <3> QED
        BY <2>2, <3>1, <3>2 DEF PasswordInv, Told, SameUser
    <2> QED
      BY <2>1, <2>2
  <1>4. NotThereYet'
    <2> SUFFICES ASSUME NEW v \in Workers, job'[v].pc = "exists", job'[v].clean
                 PROVE  ~node'.exists
      BY DEF NotThereYet
    <2>1. v # w
      BY <1>1
    <2>2. job[v].op = "provision" /\ job[v].pc = "exists" /\ job[v].clean
      BY <2>1, OpsAt
    <2>3. OnPassword(v)
      BY <2>2 DEF OnPassword, PasswordOps
    <2>4. ~OnPassword(w)
      BY <2>1, <2>2, <2>3 DEF PasswordInv, Alone
    <2> QED
      BY <2>2, <2>4 DEF PasswordInv, NotThereYet, SameUser
  <1> QED
    BY <1>2, <1>3, <1>4 DEF PasswordInv

(* A step of a job that is not on the password.                            *)
LEMMA OtherPassword ==
    ASSUME JobInv, PasswordInv, NEW w \in Workers, ~OnPassword(w), NEW j,
           job'[w] = j, \A v \in Workers : v # w => job'[v] = job[v],
           j = Idle \/ (j.op = job[w].op /\ j.clean = job[w].clean /\ j.pc # "exists"),
           SameUser, doubt' = doubt, InStep => InStep'
    PROVE  PasswordInv'
  <1>1. ~OnPassword(w)'
    BY IdleJob DEF OnPassword, PasswordOps
  <1>2. Settled'
    <2>1. AtRest' => AtRest
      BY DEF AtRest, OnPassword
    <2> QED
      BY <2>1 DEF PasswordInv, Settled
  <1>3. ~Telling(w)'
    BY <1>1 DEF Telling
  <1> QED
    BY <1>2, <1>3, PasswordStep

(* The outcomes of a command of a job on the password: raising leaves the  *)
(* password in doubt, and so does failing at the end of a creation.        *)
LEMMA RunPassword ==
    ASSUME JobInv, PasswordInv, NEW w \in Workers, OnPassword(w),
           NEW after \in Node, NEW pc \in Points(job[w].op) \cup {"idle"},
           NEW other \in Points(job[w].op) \cup {"idle"},
           pc # "exists", other # "exists",
           Run(w, after, pc, other),
           \* when the command works
           job[w].clean /\ pc \in {"save"} \cup SettingUp /\ after.exists => after.pw = job[w].pw,
           pc = "idle" => ~after.exists /\ after = node,
           job[w].op = "reset" => pc # "chpasswd",
           \* when it fails
           job[w].clean /\ other \in {"save"} \cup SettingUp /\ node.exists => node.pw = job[w].pw,
           job[w].op = "reset" => other = "idle" /\ job[w].pc = "chpasswd"
    PROVE  PasswordInv'
  <1>0. /\ Works(w, after, pc) \/ Fails(w, other) \/ Raises(w, after)
        /\ UNCHANGED <<row, sent>>
    BY RunOutcomes
  <1>i. Idle.op \notin PasswordOps /\ Idle.op = "none" /\ Idle.pc = "idle"
    BY IdleJob DEF PasswordOps
  <1>p. pc \in PC /\ other \in PC
    BY OpsAt, PointsAreCommands DEF PC
  <1>1. CASE Works(w, after, pc)
    <2>0. /\ job'[w] = Moved(w, pc) /\ \A v \in Workers : v # w => job'[v] = job[v]
          /\ node' = after /\ doubt' = doubt
      BY <1>1, GoToMoves DEF Works, JobInv
    <2>1. CASE pc = "idle"
      <3>1. job'[w] = Idle
        BY <2>0, <2>1 DEF Moved
      <3>2. InStep'
        BY <2>0, <2>1 DEF InStep
      <3>3. ~Telling(w)'
        BY <1>i, <3>1 DEF Telling, OnPassword
      <3> QED
        BY <2>0, <3>1, <3>2, <3>3, PasswordStep DEF Settled
    <2>2. CASE pc # "idle"
      <3>1. /\ job'[w].op = job[w].op /\ job'[w].pc = pc /\ job'[w].pw = job[w].pw
            /\ job'[w].clean = job[w].clean
        BY <1>p, <2>0, <2>2, MovedJob DEF JobInv
      <3>2. ~AtRest'
        BY <3>1 DEF AtRest, OnPassword
      <3>3. Telling(w)' /\ node'.exists => node'.pw = job'[w].pw
        BY <2>0, <3>1 DEF Telling
      <3> QED
        BY <2>0, <3>1, <3>2, <3>3, PasswordStep DEF Settled
    <2> QED
      BY <2>1, <2>2
  <1>2. CASE Fails(w, other)
    <2>0. /\ job'[w] = Moved(w, other) /\ \A v \in Workers : v # w => job'[v] = job[v]
          /\ node' = node /\ doubt' = (doubt \/ (other = "idle" /\ job[w].op # "reset"))
      BY <1>2, GoToMoves DEF Fails, JobInv
    <2>d. doubt => doubt'
      BY <2>0
    <2>1. CASE other = "idle"
      <3>1. job'[w] = Idle
        BY <2>0, <2>1 DEF Moved
      <3>2. ~Telling(w)'
        BY <1>i, <3>1 DEF Telling, OnPassword
      <3>3. Settled'
        <4>1. CASE job[w].op = "reset"
          <5>1. AtRest' => AtRest
            BY <2>0, <4>1 DEF AtRest, OnPassword
          <5>2. doubt' = doubt
            BY <2>0, <4>1 DEF JobInv, TypeOK
          <5>3. InStep => InStep'
            BY <1>0, <2>0 DEF InStep
          <5> QED
            BY <5>1, <5>2, <5>3 DEF PasswordInv, Settled
        <4>2. CASE job[w].op # "reset"
          BY <2>0, <2>1, <4>2 DEF Settled
        <4> QED
          BY <4>1, <4>2
      <3> QED
        BY <2>0, <2>d, <3>1, <3>2, <3>3, PasswordStep
    <2>2. CASE other # "idle"
      <3>1. /\ job'[w].op = job[w].op /\ job'[w].pc = other /\ job'[w].pw = job[w].pw
            /\ job'[w].clean = job[w].clean
        BY <1>p, <2>0, <2>2, MovedJob DEF JobInv
      <3>2. ~AtRest'
        BY <2>2, <3>1 DEF AtRest, OnPassword
      <3>3. Telling(w)' /\ node'.exists => node'.pw = job'[w].pw
        BY <2>0, <3>1 DEF Telling
      <3> QED
        BY <2>0, <2>d, <3>1, <3>2, <3>3, PasswordStep DEF Settled
    <2> QED
      BY <2>1, <2>2
  <1>3. CASE Raises(w, after)
    <2>1. /\ job'[w] = Idle /\ \A v \in Workers : v # w => job'[v] = job[v]
          /\ doubt' = (doubt \/ OnPassword(w))
      BY <1>3, GoToMoves DEF Raises, JobInv, Moved
    <2>2. doubt'
      BY <2>1
    <2>3. ~Telling(w)'
      BY <1>i, <2>1 DEF Telling, OnPassword
    <2> QED
      BY <2>1, <2>2, <2>3, PasswordStep DEF Settled
  <1> QED
    BY <1>0, <1>1, <1>2, <1>3

(* The commands of a job that is not on the password do not touch it.      *)
LEMMA RunOther ==
    ASSUME JobInv, PasswordInv, NEW w \in Workers, ~OnPassword(w), NEW after,
           NEW pc \in Points(job[w].op) \cup {"idle"},
           NEW other \in Points(job[w].op) \ {"idle"},
           pc # "exists", other # "exists",
           Run(w, after, pc, other),
           after.exists => node.exists /\ after.pw = node.pw
    PROVE  PasswordInv'
  <1>0. /\ Works(w, after, pc) \/ Fails(w, other) \/ Raises(w, after)
        /\ UNCHANGED <<row, sent>>
    BY RunOutcomes
  <1>1. node' \in {node, after} /\ \E c \in {pc, other, "idle"} : GoTo(w, c)
    BY <1>0 DEF Works, Fails, Raises
  <1>2. doubt' = doubt
    <2>1. doubt \in BOOLEAN
      BY DEF JobInv, TypeOK
    <2> QED
      BY <1>0, <2>1 DEF Works, Fails, Raises
  <1>3. PICK c \in {pc, other, "idle"} : GoTo(w, c)
    BY <1>1
  <1>4. job'[w] = Moved(w, c) /\ \A v \in Workers : v # w => job'[v] = job[v]
    BY <1>3, GoToMoves DEF JobInv
  <1>5. /\ SameUser
        /\ InStep => InStep'
    BY <1>0, <1>1 DEF SameUser, InStep
  <1>6. c \in PC /\ c # "exists"
    BY OpsAt, PointsAreCommands DEF PC
  <1>7. \/ Moved(w, c) = Idle
        \/ /\ Moved(w, c).op = job[w].op /\ Moved(w, c).clean = job[w].clean
           /\ Moved(w, c).pc # "exists"
    BY <1>6, MovedJob DEF JobInv, Moved
  <1> QED
    BY <1>2, <1>4, <1>5, <1>7, OtherPassword

LEMMA UserPassword ==
    ASSUME JobInv, PasswordInv, NEW w \in Workers,
           UserExists(w) \/ UserAdd(w) \/ ChPasswd(w) \/ UserDel(w) \/ Unlock(w)
    PROVE  PasswordInv'
  <1> PICK o : o = job[w].op
    OBVIOUS
  <1>0. node \in Node /\ job[w] \in Job /\ job[w].pw \in Passwords \cup {None}
    BY DEF JobInv, TypeOK, Job
  <1>s. SettingUp = {"id", "list", "new", "jump", "return"}
    BY DEF SettingUp, Making
  <1>1. CASE UserExists(w)
    <2>1. o = "provision" /\ job[w].pc = "exists"
      BY <1>1, OpsAt DEF UserExists
    <2> PICK pc : pc = IF node.exists THEN AfterUser ELSE "useradd"
      OBVIOUS
    <2>2. /\ pc \in Points(o) \cup {"idle"} /\ "useradd" \in Points(o) \cup {"idle"}
          /\ pc # "exists" /\ pc # "idle"
      BY <2>1, PointsOf DEF AfterUser
    <2>3. job[w].clean => ~node.exists
      BY <2>1 DEF PasswordInv, NotThereYet
    <2>4. OnPassword(w) /\ Run(w, node, pc, "useradd")
      BY <1>1, <2>1 DEF UserExists, OnPassword, PasswordOps
    <2> QED
      BY <1>0, <2>1, <2>2, <2>3, <2>4, RunPassword
  <1>2. CASE UserAdd(w)
    <2>1. o \in {"create", "provision"}
      BY <1>2, OpsAt DEF UserAdd
    <2>2. "chpasswd" \in Points(o) \cup {"idle"} /\ "chpasswd" \notin {"save"} \cup SettingUp
      BY <1>s, <2>1, PointsOf
    <2>3. PICK j \in {0, node.jumps} :
             Run(w, IF node.exists THEN node ELSE [node EXCEPT !.exists = TRUE, !.jumps = j],
                 "chpasswd", "chpasswd")
      BY <1>2 DEF UserAdd
    <2>4. (IF node.exists THEN node ELSE [node EXCEPT !.exists = TRUE, !.jumps = j]) \in Node
      BY <1>0, NodesAfter
    <2>5. OnPassword(w)
      BY <2>1 DEF OnPassword, PasswordOps
    <2> QED
      BY <2>1, <2>2, <2>3, <2>4, <2>5, RunPassword
  <1>3. CASE ChPasswd(w)
    <2>1. o \in PasswordOps /\ job[w].pc = "chpasswd" /\ OnPassword(w)
      BY <1>3, OpsAt DEF ChPasswd, SetPassword, OnPassword
    <2>2. CASE node.exists
      <3> PICK pc : pc = IF o = "reset" THEN "save" ELSE AfterUser
        OBVIOUS
      <3> PICK after : after = [node EXCEPT !.pw = job[w].pw]
        OBVIOUS
      <3>1. pc \in Points(o) /\ pc \notin {"exists", "idle", "chpasswd"}
        BY <2>1, PointsOf DEF AfterUser, PasswordOps
      <3>2. after \in Node /\ after.pw = job[w].pw
        BY <1>0, NodesAfter DEF Node
      <3>3. Run(w, after, pc, "idle")
        BY <1>3, <2>2 DEF ChPasswd, SetPassword
      <3>4. "idle" \notin {"save"} \cup SettingUp
        BY <1>s
      <3> QED
        BY <2>1, <3>1, <3>2, <3>3, <3>4, RunPassword
    <2>3. CASE ~node.exists
      <3>1. Run(w, node, "idle", "idle")
        BY <1>3, <2>3 DEF ChPasswd, SetPassword
      <3> QED
        BY <1>0, <2>1, <2>3, <3>1, RunPassword
    <2> QED
      BY <2>2, <2>3
  <1>4. CASE UserDel(w)
    <2>1. o = "delete" /\ ~OnPassword(w)
      BY <1>4, OpsAt DEF UserDel, OnPassword, PasswordOps
    <2>2. ~NoUser(node).exists
      BY <1>0 DEF Node, NoUser
    <2>3. "save" \in Points(o) \ {"idle"}
      BY <2>1, PointsOf
    <2> QED
      BY <1>4, <2>1, <2>2, <2>3, RunOther DEF UserDel
  <1>5. CASE Unlock(w)
    <2>1. o = "activate" /\ ~OnPassword(w)
      BY <1>5, OpsAt DEF Unlock, OnPassword, PasswordOps
    <2>2. "save" \in Points(o) \ {"idle"}
      BY <2>1, PointsOf
    <2> QED
      BY <1>5, <2>1, <2>2, RunOther DEF Unlock
  <1> QED
    BY <1>1, <1>2, <1>3, <1>4, <1>5

(* A command of a set-up: no user, no password.                            *)
LEMMA SettingUpPassword ==
    ASSUME JobInv, PasswordInv, NEW w \in Workers, job[w].pc \in SettingUp,
           NEW after \in Node, after.exists = node.exists, after.pw = node.pw,
           NEW pc \in SettingUp \cup {AfterSetUp(w)},
           NEW other \in SettingUp \cup {AfterSetUp(w)},
           Run(w, after, pc, other)
    PROVE  PasswordInv'
  <1> PICK o : o = job[w].op
    OBVIOUS
  <1>s. SettingUp = {"id", "list", "new", "jump", "return"}
    BY DEF SettingUp, Making
  <1>1. o \in {"create", "provision", "sync"}
    BY OpsAt
  <1>2. SettingUp \cup {AfterSetUp(w)} \subseteq Points(o) \ {"idle", "exists"}
    BY <1>s, <1>1, PointsOf DEF AfterSetUp
  <1>3. CASE OnPassword(w)
    <2>1. o # "reset"
      BY <1>1
    <2>2. job[w].clean /\ node.exists => node.pw = job[w].pw
      BY <1>3 DEF PasswordInv, Told, Telling
    <2> QED
      BY <1>2, <1>3, <2>1, <2>2, RunPassword
  <1>4. CASE ~OnPassword(w)
    BY <1>2, <1>4, RunOther
  <1> QED
    BY <1>3, <1>4

LEMMA ChainPassword ==
    ASSUME JobInv, PasswordInv, NEW w \in Workers,
           IdU(w) \/ List(w) \/ Chain(w) \/ Lock(w)
    PROVE  PasswordInv'
  <1>0. node \in Node
    BY DEF JobInv, TypeOK
  <1>s. SettingUp = {"id", "list", "new", "jump", "return"}
    BY DEF SettingUp, Making
  <1>1. CASE IdU(w)
    BY <1>0, <1>s, <1>1, SettingUpPassword DEF IdU
  <1>2. CASE List(w)
    BY <1>0, <1>s, <1>2, SettingUpPassword DEF List
  <1>3. CASE Chain(w)
    <2>1. /\ [node EXCEPT !.chain = TRUE].exists = node.exists
          /\ [node EXCEPT !.chain = TRUE].pw = node.pw
      BY <1>0 DEF Node
    <2>2. /\ [node EXCEPT !.jumps = @ + IF node.chain THEN 1 ELSE 0].exists = node.exists
          /\ [node EXCEPT !.jumps = @ + IF node.chain THEN 1 ELSE 0].pw = node.pw
      BY <1>0 DEF Node
    <2>3. /\ [node EXCEPT !.rules = Append(@, 0)].exists = node.exists
          /\ [node EXCEPT !.rules = Append(@, 0)].pw = node.pw
      BY <1>0 DEF Node
    <2>4. CASE job[w].pc = "new"
      BY <1>0, <1>s, <1>3, <2>1, <2>4, NodesAfter, SettingUpPassword DEF Chain
    <2>5. CASE job[w].pc = "jump"
      BY <1>0, <1>s, <1>3, <2>2, <2>5, NodesAfter, SettingUpPassword DEF Chain
    <2>6. CASE job[w].pc = "return"
      <3> PICK after : after = IF node.chain THEN [node EXCEPT !.rules = Append(@, 0)] ELSE node
        OBVIOUS
      <3>1. after \in Node /\ after.exists = node.exists /\ after.pw = node.pw
        BY <1>0, <2>3, NodesAfter
      <3>2. Run(w, after, AfterSetUp(w), AfterSetUp(w))
        BY <1>3, <2>6 DEF Chain
      <3> QED
        BY <1>s, <2>6, <3>1, <3>2, SettingUpPassword
    <2> QED
      BY <1>3, <2>4, <2>5, <2>6 DEF Chain
  <1>4. CASE Lock(w)
    <2>1. job[w].op = "sync" /\ ~OnPassword(w)
      BY <1>4, OpsAt DEF Lock, OnPassword, PasswordOps
    <2>2. "status" \in Points(job[w].op) \ {"idle"}
      BY <2>1, PointsOf
    <2> QED
      BY <1>4, <2>1, <2>2, RunOther DEF Lock
  <1> QED
    BY <1>1, <1>2, <1>3, <1>4

LEMMA SyncPassword ==
    ASSUME JobInv, PasswordInv, NEW w \in Workers, Read(w) \/ Suspend(w)
    PROVE  PasswordInv'
  <1>1. CASE Read(w)
    <2>1. job[w].op = "sync" /\ ~OnPassword(w)
      BY <1>1, ReadMoves DEF OnPassword, PasswordOps
    <2>2. PICK j \in Job :
             /\ job' = [job EXCEPT ![w] = j]
             /\ \/ j = Idle
                \/ /\ j.op = job[w].op /\ j.pw = job[w].pw /\ j.pc \in {"save", "lock"}
                   /\ j.clean = job[w].clean /\ j.seen \in {0, GB(Reading)}
      BY <1>1, ReadMoves
    <2>3. job'[w] = j /\ \A v \in Workers : v # w => job'[v] = job[v]
      BY <2>2 DEF JobInv, TypeOK
    <2>4. UNCHANGED <<row, node, doubt>>
      BY <1>1 DEF Read
    <2> QED
      BY <2>1, <2>2, <2>3, <2>4, OtherPassword DEF SameUser, InStep
  <1>2. CASE Suspend(w)
    <2>1. job[w].op = "sync" /\ ~OnPassword(w)
      BY <1>2, OpsAt DEF Suspend, OnPassword, PasswordOps
    <2>2. row.status # "none"
      BY <2>1 DEF JobInv, Known, Ops
    <2>3. job'[w] = Idle /\ \A v \in Workers : v # w => job'[v] = job[v]
      BY <1>2, GoToMoves DEF Suspend, Done, Moved, JobInv
    <2>4. UNCHANGED <<node, doubt>> /\ row' = [row EXCEPT !.status = "suspended"]
      BY <1>2 DEF Suspend
    <2>5. row'.pw = row.pw
      BY <2>4 DEF JobInv, TypeOK, Row
    <2> QED
      BY <2>1, <2>2, <2>3, <2>4, <2>5, OtherPassword DEF SameUser, InStep
  <1> QED
    BY <1>1, <1>2

(* A job saves the password that it has told the node, unless another has  *)
(* been at it.                                                             *)
LEMMA SavePassword ==
    ASSUME JobInv, PasswordInv, NEW w \in Workers, Save(w)
    PROVE  PasswordInv'
  <1>0. job[w] \in Job /\ job[w].pc = "save" /\ node' = node
    BY DEF Save, JobInv, TypeOK
  <1>1. PICK j \in Job :
           /\ job' = [job EXCEPT ![w] = j]
           /\ \/ j = Idle
              \/ /\ job[w].op = "sync"
                 /\ j.op = job[w].op /\ j.pw = job[w].pw /\ j.pc = "lock"
                 /\ j.clean = job[w].clean /\ j.seen = job[w].seen
    BY SaveWrites
  <1>2. job'[w] = j /\ \A v \in Workers : v # w => job'[v] = job[v]
    BY <1>1 DEF JobInv, TypeOK
  <1>3. CASE OnPassword(w)
    <2>1. job[w].op # "sync" /\ job[w].op \in PasswordOps
      BY <1>3 DEF OnPassword, PasswordOps
    <2>2. j = Idle
      BY <1>1, <2>1
    <2>3. ~Telling(w)'
      BY <1>2, <2>2, IdleJob DEF Telling, OnPassword, PasswordOps
    <2>4. doubt' = ((job[w].op = "provision" /\ row.status # "none") \/ ~job[w].clean)
      BY <2>1 DEF Save
    <2>5. ~doubt' => row'.pw = job[w].pw
      <3> SUFFICES ASSUME ~doubt' PROVE row'.pw = job[w].pw
        OBVIOUS
      <3>1. CASE job[w].op \in {"create", "provision"}
        <4>1. row' = [status |-> "active", pw |-> job[w].pw, used |-> 0]
          BY <3>1, SaveWrites
        <4> QED
          BY <4>1
      <3>2. CASE job[w].op = "reset"
        BY <3>2, SaveWrites
      <3> QED
        BY <2>1, <3>1, <3>2 DEF PasswordOps
    <2>6. ~doubt' /\ node.exists => node.pw = job[w].pw
      BY <1>0, <1>3, <2>4 DEF PasswordInv, Told, Telling
    <2>7. Settled'
      BY <1>0, <2>5, <2>6 DEF Settled, InStep
    <2>8. doubt' \/ job[w].clean
      BY <2>4
    <2> QED
      BY <1>2, <1>3, <2>2, <2>3, <2>7, <2>8, PasswordStep
  <1>4. CASE ~OnPassword(w)
    <2>1. job[w].op \in {"sync", "delete", "activate"}
      BY <1>4, SaveWrites DEF OnPassword, Ops
    <2>2. row.status # "none" /\ row'.pw = row.pw
      <3>1. row'.pw = row.pw
        BY <2>1, SaveWrites
      <3>2. row.status # "none"
        BY <2>1 DEF JobInv, Known, Ops
      <3> QED
        BY <3>1, <3>2
    <2>3. doubt' = doubt
      BY <1>4 DEF Save, OnPassword
    <2> QED
      BY <1>0, <1>1, <1>2, <1>4, <2>2, <2>3, OtherPassword DEF SameUser, InStep
  <1> QED
    BY <1>3, <1>4

LEMMA BeginPassword ==
    ASSUME JobInv, PasswordInv, NEW w \in Workers, NEW o \in Ops, NEW pc \in Points(o),
           Begin(w, o, pc),
           o \in {"create", "provision"} => pc \in {"useradd", "exists"},
           o = "reset" => pc = "chpasswd",
           pc = "exists" => o = "provision"
    PROVE  PasswordInv'
  <1>0. pc \in PC
    BY PointsAreCommands
  <1>s. SettingUp = {"id", "list", "new", "jump", "return"}
    BY DEF SettingUp, Making
  <1>1. /\ Fresh(w, o, pc)
        /\ \A v \in Workers : v # w =>
              /\ job'[v].op = job[v].op /\ job'[v].pc = job[v].pc /\ job'[v].pw = job[v].pw
              /\ job'[v].clean => job[v].clean /\ ~(o \in PasswordOps /\ OnPassword(v))
        /\ job'[w].clean =>
              /\ o \in PasswordOps => \A v \in Workers : ~OnPassword(v)
              /\ o = "provision" => ~node.exists
    BY <1>0, BeginMoves
  <1>2. /\ doubt => doubt'
        /\ o \in PasswordOps /\ (\E v \in Workers : OnPassword(v)) => doubt'
        /\ UNCHANGED <<row, node>> /\ job[w].op = "none"
    BY <1>0, BeginMoves
  <1>3. /\ OnPassword(w)' <=> o \in PasswordOps
        /\ \A v \in Workers : v # w => (OnPassword(v)' <=> OnPassword(v))
        /\ ~OnPassword(w)
    BY <1>1, <1>2 DEF OnPassword, Fresh, PasswordOps
  <1>4. Alone'
    <2> SUFFICES ASSUME NEW u \in Workers, NEW v \in Workers, u # v,
                        OnPassword(u)', OnPassword(v)'
                 PROVE  doubt' /\ ~job'[u].clean
      BY DEF Alone
    <2>1. CASE u = w
      BY <1>1, <1>2, <1>3, <2>1
    <2>2. CASE v = w
      BY <1>1, <1>2, <1>3, <2>2
    <2>3. CASE u # w /\ v # w
      BY <1>1, <1>2, <1>3, <2>3 DEF PasswordInv, Alone
    <2> QED
      BY <2>1, <2>2, <2>3
  <1>5. Settled'
    <2> SUFFICES ASSUME AtRest', ~doubt' PROVE InStep'
      BY DEF Settled
    <2>1. AtRest
      BY <1>1, <1>3 DEF AtRest
    <2> QED
      BY <1>2, <2>1 DEF PasswordInv, Settled, InStep
  <1>6. Told'
    <2> SUFFICES ASSUME NEW v \in Workers, Telling(v)', node'.exists
                 PROVE  node'.pw = job'[v].pw
      BY DEF Told
    <2>1. v # w
      <3>1. o \in PasswordOps => pc \in {"useradd", "exists", "chpasswd"}
        BY DEF PasswordOps
      <3> QED
        BY <1>1, <1>s, <1>3, <3>1 DEF Telling, Fresh
    <2> QED
      BY <1>1, <1>2, <1>3, <2>1 DEF PasswordInv, Told, Telling
  <1>7. NotThereYet'
    <2> SUFFICES ASSUME NEW v \in Workers, job'[v].pc = "exists", job'[v].clean
                 PROVE  ~node'.exists
      BY DEF NotThereYet
    <2>1. CASE v = w
      BY <1>1, <1>2, <2>1 DEF Fresh
    <2>2. CASE v # w
      BY <1>1, <1>2, <2>2 DEF PasswordInv, NotThereYet
    <2> QED
      BY <2>1, <2>2
  <1> QED
    BY <1>4, <1>5, <1>6, <1>7 DEF PasswordInv

(* What is left of a job after a reboot.                                   *)
LEMMA RebootKeeps ==
    ASSUME JobInv, Reboot
    PROVE  /\ \A v \in Workers :
                 /\ job'[v].op = job[v].op /\ job'[v].pc = job[v].pc /\ job'[v].pw = job[v].pw
                 /\ OnPassword(v) => job'[v].clean = job[v].clean
                 /\ job'[v].seen \in {0, job[v].seen}
                 /\ job[v].pc # "idle" => job'[v].clean = job[v].clean
           /\ node'.exists = node.exists /\ node'.pw = node.pw
           /\ UNCHANGED <<row, sent, doubt, tangled>>
  <1>1. ASSUME NEW v \in Workers
        PROVE  /\ job'[v].op = job[v].op /\ job'[v].pc = job[v].pc /\ job'[v].pw = job[v].pw
               /\ OnPassword(v) => job'[v].clean = job[v].clean
               /\ job'[v].seen \in {0, job[v].seen}
               /\ job[v].pc # "idle" => job'[v].clean = job[v].clean
    <2>1. job[v] \in Job
      BY DEF JobInv, TypeOK
    <2>2. CASE job[v].pc = "idle"
      <3>1. job[v].op = "none" /\ job[v].pw = None /\ ~OnPassword(v)
        BY <2>2, OpsAt DEF JobInv, InHand, OnPassword, PasswordOps
      <3>2. job'[v] = Idle
        BY <2>2 DEF Reboot
      <3> QED
        BY <2>2, <3>1, <3>2, IdleJob
    <2>3. CASE job[v].pc # "idle"
      <3>1. job'[v] = [job[v] EXCEPT !.live = FALSE]
        BY <2>3 DEF Reboot
      <3> QED
        BY <2>1, <3>1 DEF Job
    <2> QED
      BY <2>2, <2>3
  <1>2. node'.exists = node.exists /\ node'.pw = node.pw
    BY DEF Reboot, NoRules, JobInv, TypeOK, Node
  <1> QED
    BY <1>1, <1>2 DEF Reboot

LEMMA OthersPassword ==
    ASSUME JobInv, PasswordInv, (\E w \in Workers : Crash(w)) \/ Transfer \/ Reboot
    PROVE  PasswordInv'
  <1>1. ASSUME NEW w \in Workers, Crash(w) PROVE PasswordInv'
    <2>1. job'[w] = Idle /\ \A v \in Workers : v # w => job'[v] = job[v]
      BY <1>1, GoToMoves DEF Crash, Stopped, Done, Moved, JobInv
    <2>2. doubt' = (doubt \/ OnPassword(w)) /\ UNCHANGED <<row, node>>
      BY <1>1 DEF Crash, Stopped, OnPassword
    <2>3. CASE OnPassword(w)
      <3>1. doubt'
        BY <2>2, <2>3
      <3>2. ~Telling(w)'
        BY <2>1, IdleJob DEF Telling, OnPassword, PasswordOps
      <3> QED
        BY <2>1, <2>2, <3>1, <3>2, PasswordStep DEF SameUser, Settled
    <2>4. CASE ~OnPassword(w)
      <3>1. doubt' = doubt
        BY <2>2, <2>4 DEF JobInv, TypeOK
      <3> QED
        BY <2>1, <2>2, <2>4, <3>1, OtherPassword DEF SameUser, InStep
    <2> QED
      BY <2>3, <2>4
  <1>2. CASE Transfer
    <2>1. node'.exists = node.exists /\ node'.pw = node.pw /\ UNCHANGED <<row, job, doubt>>
      BY <1>2 DEF Transfer, JobInv, TypeOK, Node
    <2> QED
      BY <2>1 DEF PasswordInv, Alone, Settled, AtRest, InStep, Told, Telling, NotThereYet,
                  OnPassword
  <1>3. CASE Reboot
    <2>1. \A v \in Workers :
             /\ job'[v].op = job[v].op /\ job'[v].pc = job[v].pc /\ job'[v].pw = job[v].pw
             /\ job[v].pc # "idle" => job'[v].clean = job[v].clean
             /\ OnPassword(v) => job'[v].clean = job[v].clean
      BY <1>3, RebootKeeps
    <2>2. node'.exists = node.exists /\ node'.pw = node.pw /\ UNCHANGED <<row, doubt>>
      BY <1>3, RebootKeeps
    <2>3. \A v \in Workers : OnPassword(v)' <=> OnPassword(v)
      BY <2>1 DEF OnPassword
    <2>4. Alone'
      BY <2>1, <2>2, <2>3 DEF PasswordInv, Alone
    <2>5. Settled'
      BY <2>1, <2>2, <2>3 DEF PasswordInv, Settled, AtRest, InStep
    <2>6. Told'
      BY <2>1, <2>2, <2>3 DEF PasswordInv, Told, Telling
    <2>7. NotThereYet'
      BY <2>1, <2>2 DEF PasswordInv, NotThereYet
    <2> QED
      BY <2>4, <2>5, <2>6, <2>7 DEF PasswordInv
  <1> QED
    BY <1>1, <1>2, <1>3

LEMMA PasswordInit == Init => PasswordInv
  <1> SUFFICES ASSUME Init PROVE PasswordInv
    OBVIOUS
  <1>1. \A w \in Workers : job[w] = Idle /\ ~OnPassword(w)
    BY IdleJob DEF Init, OnPassword, PasswordOps
  <1> QED
    BY <1>1, IdleJob DEF Init, PasswordInv, Alone, Settled, InStep, Told, Telling, NotThereYet

LEMMA PasswordNext == JobInv /\ PasswordInv /\ [Next]_vars => PasswordInv'
  <1> SUFFICES ASSUME JobInv, PasswordInv, [Next]_vars PROVE PasswordInv'
    OBVIOUS
  <1>1. ASSUME NEW w \in Workers,
               StartCreate(w) \/ StartProvision(w) \/ StartRequest(w) \/ StartSync(w)
        PROVE  PasswordInv'
    <2>1. PICK o \in Ops : \E pc \in Points(o) :
             /\ Begin(w, o, pc)
             /\ o \in {"create", "provision"} => pc \in {"useradd", "exists"}
             /\ o = "reset" => pc = "chpasswd"
             /\ pc = "exists" => o = "provision"
      BY <1>1, Starts
    <2> QED
      BY <2>1, BeginPassword
  <1>2. ASSUME NEW w \in Workers, Step(w) PROVE PasswordInv'
    BY <1>2, UserPassword, ChainPassword, SyncPassword, SavePassword DEF Step
  <1>3. CASE UNCHANGED vars \/ ChangeServer
    BY <1>3 DEF vars, ChangeServer, PasswordInv, Alone, Settled, AtRest, InStep, Told, Telling,
                NotThereYet, OnPassword
  <1> QED
    BY <1>1, <1>2, <1>3, OthersPassword DEF Next

(* A password that nobody disputes is the one that the panel shows, or the *)
(* one in the hand of the only job that is at work on it (chpasswd and the *)
(* save that follows it).                                                  *)
THEOREM PasswordInvariant == Spec => []PasswordInv
  <1>1. JobInv /\ PasswordInv /\ [Next]_vars => PasswordInv'
    BY PasswordNext
  <1> QED
    BY <1>1, PasswordInit, JobInvariant, PTL DEF Spec

(* The password that the panel shows opens the OS user, whatever jobs have *)
(* interleaved and failed, unless one on the password was cut short, or    *)
(* overlapped with another, or found a user that it had not made, and none *)
(* has succeeded since (create_account, reset_password, setup_server).     *)
THEOREM ShownPasswordOpens == Spec => []ShownOpens
  <1>1. PasswordInv => ShownOpens
    BY DEF PasswordInv, Settled, AtRest, InStep, ShownOpens, OnPassword
  <1> QED
    BY <1>1, PasswordInvariant, PTL

-----------------------------------------------------------------------------
(* The third layer: the counters.  Every rule of OUTPUT that leads to the  *)
(* chain comes from a set-up that found no chain, which only the first of  *)
(* those that run side by side can do, or whose listing failed.            *)

Jumpers == {w \in Workers : job[w].pc \in {"new", "jump"}}
Factor == IF tangled THEN Cardinality(Workers) + faults ELSE 1

NoChainNoJump == ~node.chain => node.jumps = 0
JumpsBounded == node.jumps + Cardinality(Jumpers) <= Factor

(* No rule has counted more than the jumps to it can have brought, and no  *)
(* job has read more.                                                      *)
RulesBounded == \A i \in DOMAIN node.rules : node.rules[i] <= Factor * sent
SeenBounded == \A w \in Workers : job[w].seen <= GB(Factor * sent)

ChargeInv ==
    /\ NoChainNoJump /\ JumpsBounded
    /\ RulesBounded /\ SeenBounded /\ ChargeBounded

LEMMA FactorGrows ==
    ASSUME JobInv, faults' \in Nat, faults <= faults', tangled => tangled'
    PROVE  /\ Cardinality(Workers) \in Nat \ {0}
           /\ Factor \in Nat \ {0} /\ Factor' \in Nat \ {0} /\ Factor <= Factor'
           /\ tangled' => Cardinality(Workers) + faults' = Factor'
           /\ tangled /\ faults < faults' => Factor < Factor'
  <1>1. Cardinality(Workers) \in Nat \ {0}
    BY FS_CardinalityType, FS_EmptySet, NodeAccountAssumption
  <1>2. faults \in Nat
    BY DEF JobInv, TypeOK
  <1> QED
    BY <1>1, <1>2 DEF Factor

LEMMA JumpersCount ==
    /\ IsFiniteSet(Jumpers) /\ Cardinality(Jumpers) \in Nat
    /\ Cardinality(Jumpers) <= Cardinality(Workers)
  <1>1. Jumpers \in SUBSET Workers
    BY DEF Jumpers
  <1> QED
    BY <1>1, FS_Subset, FS_CardinalityType, NodeAccountAssumption

(* A step of one job adds it to those that set up the chain, or takes it   *)
(* away.                                                                   *)
LEMMA JumpersStep ==
    ASSUME NEW w \in Workers, \A v \in Workers : v # w => job'[v].pc = job[v].pc
    PROVE  /\ Cardinality(Jumpers') \in Nat
           /\ Cardinality(Jumpers') =
                 Cardinality(Jumpers)
                 + (IF w \in Jumpers THEN 0 ELSE IF w \in Jumpers' THEN 1 ELSE 0)
                 - (IF w \in Jumpers /\ w \notin Jumpers' THEN 1 ELSE 0)
  <1>0. IsFiniteSet(Jumpers) /\ Cardinality(Jumpers) \in Nat
    BY JumpersCount
  <1>1. CASE w \in Jumpers'
    <2>1. Jumpers' = Jumpers \cup {w}
      BY <1>1 DEF Jumpers
    <2>2. Cardinality(Jumpers') = IF w \in Jumpers THEN Cardinality(Jumpers)
                                                   ELSE Cardinality(Jumpers) + 1
      BY <1>0, <2>1, FS_AddElement
    <2> QED
      BY <1>0, <1>1, <2>2
  <1>2. CASE w \notin Jumpers'
    <2>1. Jumpers' = Jumpers \ {w}
      BY <1>2 DEF Jumpers
    <2>2. /\ IsFiniteSet(Jumpers')
          /\ Cardinality(Jumpers') = IF w \in Jumpers THEN Cardinality(Jumpers) - 1
                                                      ELSE Cardinality(Jumpers)
      BY <1>0, <2>1, FS_RemoveElement
    <2>3. Cardinality(Jumpers') \in Nat
      BY <2>2, FS_CardinalityType
    <2> QED
      BY <1>0, <1>2, <2>2, <2>3
  <1> QED
    BY <1>1, <1>2

LEMMA TimesGrows ==
    ASSUME NEW a \in Nat, NEW b \in Nat, NEW c \in Nat, NEW d \in Nat, a <= c, b <= d
    PROVE  a * b <= c * d /\ a * b \in Nat /\ c * d \in Nat
  <1>1. PICK x \in Nat, y \in Nat : c = a + x /\ d = b + y
    <2>1. c - a \in Nat /\ c = a + (c - a) /\ d - b \in Nat /\ d = b + (d - b)
      OBVIOUS
    <2> QED
      BY <2>1
  <1>2. c * d = a * b + a * y + x * b + x * y
    BY <1>1
  <1>3. a * b \in Nat /\ a * y \in Nat /\ x * b \in Nat /\ x * y \in Nat
    BY <1>1
  <1>4. c * d \in Nat
    OBVIOUS
  <1> QED
    BY <1>2, <1>3, <1>4

(* What the counters can show never shrinks.                               *)
LEMMA BoundGrows ==
    ASSUME JobInv, faults' \in Nat, faults <= faults', tangled => tangled',
           sent' \in Nat, sent <= sent'
    PROVE  /\ Factor * sent \in Nat /\ (Factor * sent)' \in Nat
           /\ Factor * sent <= (Factor * sent)'
           /\ GB(Factor * sent) \in Nat /\ GB(Factor * sent)' \in Nat
           /\ GB(Factor * sent) <= GB(Factor * sent)'
  <1>1. Factor \in Nat /\ Factor' \in Nat /\ Factor <= Factor'
    BY FactorGrows
  <1>2. sent \in Nat
    BY DEF JobInv, TypeOK
  <1>3. /\ Factor * sent \in Nat /\ Factor' * sent' \in Nat
        /\ Factor * sent <= Factor' * sent'
    BY <1>1, <1>2, TimesGrows
  <1>4. /\ GB(Factor * sent) \in Nat /\ GB(Factor' * sent') \in Nat
        /\ GB(Factor * sent) <= GB(Factor' * sent')
    BY <1>3, GBGrows
  <1>5. GB(Factor * sent)' = GB(Factor' * sent')
    BY DEF GB
  <1> QED
    BY <1>3, <1>4, <1>5

(* A reading is never more than that.                                      *)
LEMMA ReadingBounded ==
    ASSUME JobInv, RulesBounded
    PROVE  GB(Reading) \in Nat /\ GB(Reading) <= GB(Factor * sent)
  <1>0. sent \in Nat /\ node \in Node /\ faults \in Nat
    BY DEF JobInv, TypeOK
  <1>1. Cardinality(Workers) \in Nat
    BY FS_CardinalityType, NodeAccountAssumption
  <1>2. Factor \in Nat
    BY <1>0, <1>1 DEF Factor
  <1>3. Factor * sent \in Nat
    BY <1>0, <1>2
  <1>4. Reading \in Nat /\ Reading <= Factor * sent
    <2>1. CASE node.rules = << >>
      BY <1>3, <2>1 DEF Reading
    <2>2. CASE node.rules # << >>
      BY <1>0, <2>2, ReadingIsNumber DEF RulesBounded
    <2> QED
      BY <2>1, <2>2
  <1> QED
    BY <1>3, <1>4, GBGrows

(* A step that starts no rule above zero and counts nothing: what the jobs *)
(* hold and what the row shows has been read before.                       *)
LEMMA ChargeStep ==
    ASSUME JobInv, JobInv', ChargeInv,
           faults <= faults', tangled => tangled', sent' = sent,
           NoChainNoJump', JumpsBounded',
           \A i \in DOMAIN node'.rules :
              \/ node'.rules[i] = 0
              \/ i \in DOMAIN node.rules /\ node'.rules[i] = node.rules[i],
           \A v \in Workers :
              \/ job'[v].seen \in {0, row.used, GB(Reading)}
              \/ job'[v].seen = job[v].seen,
           row'.used \in {0, row.used} \cup {job[v].seen : v \in Workers}
    PROVE  ChargeInv'
  <1>1. /\ Factor * sent \in Nat /\ (Factor * sent)' \in Nat
        /\ Factor * sent <= (Factor * sent)'
        /\ GB(Factor * sent) \in Nat /\ GB(Factor * sent)' \in Nat
        /\ GB(Factor * sent) <= GB(Factor * sent)'
    <2>1. faults' \in Nat /\ sent' \in Nat /\ sent <= sent'
      BY DEF JobInv, TypeOK
    <2> QED
      BY <2>1, BoundGrows
  <1>2. GB(Reading) \in Nat /\ GB(Reading) <= GB(Factor * sent)
    BY ReadingBounded DEF ChargeInv
  <1>3. row.used \in Nat /\ row.used <= GB(Factor * sent)
    BY DEF ChargeInv, ChargeBounded, Factor, JobInv, TypeOK, Row
  <1>4. \A v \in Workers : job[v].seen \in Nat /\ job[v].seen <= GB(Factor * sent)
    BY DEF ChargeInv, SeenBounded, JobInv, TypeOK, Job
  <1>5. \A i \in DOMAIN node.rules : node.rules[i] \in Nat
    <2>1. node.rules \in Seq(Nat)
      BY DEF JobInv, TypeOK, Node
    <2> QED
      BY <2>1
  <1>6. RulesBounded'
    <2> SUFFICES ASSUME NEW i \in DOMAIN node'.rules
                 PROVE  node'.rules[i] <= (Factor * sent)'
      BY DEF RulesBounded
    <2> QED
      BY <1>1, <1>5 DEF ChargeInv, RulesBounded
  <1>7. SeenBounded'
    <2> SUFFICES ASSUME NEW v \in Workers PROVE job'[v].seen <= GB(Factor * sent)'
      BY DEF SeenBounded
    <2> QED
      BY <1>1, <1>2, <1>3, <1>4
  <1>8. ChargeBounded'
    <2>1. row'.used <= GB(Factor * sent)'
      BY <1>1, <1>3, <1>4
    <2> QED
      BY <2>1 DEF ChargeBounded, Factor
  <1> QED
    BY <1>6, <1>7, <1>8 DEF ChargeInv

(* The jumps stay bounded: the job only leaves the set-up, or has put in   *)
(* the one that it was counted for.                                        *)
LEMMA JumpsStep ==
    ASSUME JobInv, JobInv', ChargeInv, NEW w \in Workers,
           faults <= faults', tangled => tangled',
           \A v \in Workers : v # w => job'[v].pc = job[v].pc,
           job'[w].pc \in {"new", "jump"} => w \in Jumpers,
           \/ node'.jumps <= node.jumps
           \/ /\ node'.jumps <= node.jumps + 1
              /\ w \in Jumpers /\ job'[w].pc \notin {"new", "jump"}
    PROVE  JumpsBounded'
  <1>1. node.jumps \in Nat /\ node'.jumps \in Nat /\ faults' \in Nat
    BY DEF JobInv, TypeOK, Node
  <1>2. Factor \in Nat /\ Factor' \in Nat /\ Factor <= Factor'
    BY <1>1, FactorGrows
  <1>3. node.jumps + Cardinality(Jumpers) <= Factor
    BY DEF ChargeInv, JumpsBounded
  <1>4. w \in Jumpers' <=> job'[w].pc \in {"new", "jump"}
    BY DEF Jumpers
  <1>5. /\ Cardinality(Jumpers') \in Nat
        /\ Cardinality(Jumpers) \in Nat
        /\ Cardinality(Jumpers') =
              Cardinality(Jumpers)
              + (IF w \in Jumpers THEN 0 ELSE IF w \in Jumpers' THEN 1 ELSE 0)
              - (IF w \in Jumpers /\ w \notin Jumpers' THEN 1 ELSE 0)
    BY JumpersStep, JumpersCount
  <1>6. node'.jumps + Cardinality(Jumpers') <= Factor'
    BY <1>1, <1>2, <1>3, <1>4, <1>5
  <1> QED
    BY <1>6 DEF JumpsBounded

(* What a command leaves, whichever its outcome.                           *)
LEMMA RunLeaves ==
    ASSUME JobInv, NEW w \in Workers, NEW after,
           NEW pc \in Points(job[w].op) \cup {"idle"},
           NEW other \in Points(job[w].op) \cup {"idle"},
           Run(w, after, pc, other)
    PROVE  /\ \/ node' = after /\ job'[w].pc = pc /\ faults' = faults
              \/ node' = node /\ job'[w].pc = other /\ faults' = faults + 1
              \/ node' \in {node, after} /\ job'[w].pc = "idle"
           /\ faults' \in Nat /\ faults <= faults'
           /\ job'[w].seen \in {0, job[w].seen}
           /\ \A v \in Workers : v # w => job'[v] = job[v]
           /\ UNCHANGED <<row, sent>>
  <1>0. /\ Works(w, after, pc) \/ Fails(w, other) \/ Raises(w, after)
        /\ UNCHANGED <<row, sent>>
    BY RunOutcomes
  <1>1. /\ pc \in PC /\ other \in PC /\ "idle" \in PC
        /\ faults \in Nat
    BY OpsAt, PointsAreCommands DEF PC, JobInv, TypeOK
  <1>2. ASSUME NEW c \in PC
        PROVE  /\ Moved(w, c).pc = c
               /\ Moved(w, c).seen \in {0, job[w].seen}
    <2>1. CASE c = "idle"
      BY <2>1, IdleJob DEF Moved
    <2>2. CASE c # "idle"
      BY <2>2, MovedJob DEF JobInv
    <2> QED
      BY <2>1, <2>2
  <1>3. CASE Works(w, after, pc)
    <2>1. /\ job'[w] = Moved(w, pc) /\ \A v \in Workers : v # w => job'[v] = job[v]
          /\ node' = after /\ faults' = faults
      BY <1>3, GoToMoves DEF Works, JobInv
    <2> QED
      BY <1>0, <1>1, <1>2, <2>1
  <1>4. CASE Fails(w, other)
    <2>1. /\ job'[w] = Moved(w, other) /\ \A v \in Workers : v # w => job'[v] = job[v]
          /\ node' = node /\ faults' = faults + 1
      BY <1>4, GoToMoves DEF Fails, Fault, JobInv
    <2> QED
      BY <1>0, <1>1, <1>2, <2>1
  <1>5. CASE Raises(w, after)
    <2>1. /\ job'[w] = Moved(w, "idle") /\ \A v \in Workers : v # w => job'[v] = job[v]
          /\ node' \in {node, after} /\ faults' \in {faults, faults + 1}
      BY <1>5, GoToMoves DEF Raises, JobInv
    <2> QED
      BY <1>0, <1>1, <1>2, <2>1
  <1> QED
    BY <1>0, <1>3, <1>4, <1>5

LEMMA RunCharge ==
    ASSUME JobInv, JobInv', ChargeInv, NEW w \in Workers, NEW after,
           NEW pc \in Points(job[w].op) \cup {"idle"},
           NEW other \in Points(job[w].op) \cup {"idle"},
           Run(w, after, pc, other), tangled' = tangled,
           after.jumps \in Nat,
           pc \in {"new", "jump"} => w \in Jumpers,
           other \in {"new", "jump"} => w \in Jumpers,
           \A i \in DOMAIN after.rules :
              \/ after.rules[i] = 0
              \/ i \in DOMAIN node.rules /\ after.rules[i] = node.rules[i],
           ~after.chain => after.jumps = 0,
           \/ after.jumps <= node.jumps
           \/ /\ after.jumps <= node.jumps + 1
              /\ w \in Jumpers /\ pc \notin {"new", "jump"}
    PROVE  ChargeInv'
  <1>1. /\ \/ node' = after /\ job'[w].pc = pc /\ faults' = faults
           \/ node' = node /\ job'[w].pc = other /\ faults' = faults + 1
           \/ node' \in {node, after} /\ job'[w].pc = "idle"
        /\ faults' \in Nat /\ faults <= faults'
        /\ job'[w].seen \in {0, job[w].seen}
        /\ \A v \in Workers : v # w => job'[v] = job[v]
        /\ UNCHANGED <<row, sent>>
    BY RunLeaves
  <1>2. NoChainNoJump'
    BY <1>1 DEF ChargeInv, NoChainNoJump
  <1>3. node.jumps \in Nat
    BY DEF JobInv, TypeOK, Node
  <1>4. JumpsBounded'
    <2>1. job'[w].pc \in {"new", "jump"} => w \in Jumpers
      BY <1>1
    <2>2. \/ node'.jumps <= node.jumps
          \/ /\ node'.jumps <= node.jumps + 1
             /\ w \in Jumpers /\ job'[w].pc \notin {"new", "jump"}
      BY <1>1, <1>3
    <2> QED
      BY <1>1, <2>1, <2>2, JumpsStep
  <1>5. \A i \in DOMAIN node'.rules :
           \/ node'.rules[i] = 0
           \/ i \in DOMAIN node.rules /\ node'.rules[i] = node.rules[i]
    BY <1>1
  <1> QED
    BY <1>1, <1>2, <1>4, <1>5, ChargeStep

LEMMA UserCharge ==
    ASSUME JobInv, JobInv', ChargeInv, NEW w \in Workers,
           UserExists(w) \/ UserAdd(w) \/ ChPasswd(w) \/ UserDel(w) \/ Unlock(w)
    PROVE  ChargeInv'
  <1> PICK o : o = job[w].op
    OBVIOUS
  <1>0. node \in Node /\ NoChainNoJump
    BY DEF JobInv, TypeOK, ChargeInv
  <1>1. /\ node.jumps \in Nat /\ node.jumps <= node.jumps
        /\ ~node.chain => node.jumps = 0
    BY <1>0 DEF Node, NoChainNoJump
  <1>2. CASE UserExists(w)
    <2>1. o = "provision"
      BY <1>2, OpsAt DEF UserExists
    <2> PICK pc : pc = IF node.exists THEN AfterUser ELSE "useradd"
      OBVIOUS
    <2>2. /\ pc \in Points(o) \cup {"idle"} /\ "useradd" \in Points(o) \cup {"idle"}
          /\ pc \notin {"new", "jump"}
      BY <2>1, PointsOf DEF AfterUser
    <2>3. Run(w, node, pc, "useradd") /\ tangled' = tangled
      BY <1>2 DEF UserExists
    <2> QED
      BY <1>1, <2>2, <2>3, RunCharge
  <1>3. CASE UserAdd(w)
    <2>1. o \in {"create", "provision"}
      BY <1>3, OpsAt DEF UserAdd
    <2>2. "chpasswd" \in Points(o) \cup {"idle"}
      BY <2>1, PointsOf
    <2>3. PICK j \in {0, node.jumps} :
             Run(w, IF node.exists THEN node ELSE [node EXCEPT !.exists = TRUE, !.jumps = j],
                 "chpasswd", "chpasswd")
      BY <1>3 DEF UserAdd
    <2> PICK after : after = IF node.exists THEN node
                             ELSE [node EXCEPT !.exists = TRUE, !.jumps = j]
      OBVIOUS
    <2>4. /\ after.jumps \in {0, node.jumps} /\ after.rules = node.rules
          /\ after.chain = node.chain
      BY <1>0 DEF Node
    <2>5. Run(w, after, "chpasswd", "chpasswd") /\ tangled' = tangled
      BY <1>3, <2>3 DEF UserAdd
    <2>6. /\ after.jumps \in Nat /\ after.jumps <= node.jumps
          /\ ~after.chain => after.jumps = 0
      BY <1>1, <2>4
    <2>7. \A i \in DOMAIN after.rules :
             i \in DOMAIN node.rules /\ after.rules[i] = node.rules[i]
      BY <2>4
    <2>8. "chpasswd" \notin {"new", "jump"}
      OBVIOUS
    <2> HIDE <2>3
    <2> QED
      BY <2>2, <2>5, <2>6, <2>7, <2>8, RunCharge
  <1>4. CASE ChPasswd(w)
    <2>1. o \in PasswordOps
      BY <1>4, OpsAt DEF ChPasswd, SetPassword
    <2> PICK pc : pc = IF o = "reset" THEN "save" ELSE AfterUser
      OBVIOUS
    <2> PICK after : after = [node EXCEPT !.pw = job[w].pw]
      OBVIOUS
    <2>2. pc \in Points(o) /\ pc \notin {"new", "jump"}
      BY <2>1, PointsOf DEF AfterUser, PasswordOps
    <2>3. after.jumps = node.jumps /\ after.rules = node.rules /\ after.chain = node.chain
      BY <1>0 DEF Node
    <2>4. CASE node.exists
      <3>1. Run(w, after, pc, "idle") /\ tangled' = tangled
        BY <1>4, <2>4 DEF ChPasswd, SetPassword
      <3> QED
        BY <1>1, <2>2, <2>3, <3>1, RunCharge
    <2>5. CASE ~node.exists
      <3>1. Run(w, node, "idle", "idle") /\ tangled' = tangled
        BY <1>4, <2>5 DEF ChPasswd, SetPassword
      <3> QED
        BY <1>1, <3>1, RunCharge
    <2> QED
      BY <2>4, <2>5
  <1>5. CASE UserDel(w)
    <2>1. "save" \in Points(o)
      BY <1>5, OpsAt, PointsOf DEF UserDel
    <2>2. /\ NoUser(node).jumps = node.jumps /\ NoUser(node).rules = node.rules
          /\ NoUser(node).chain = node.chain
      BY <1>0 DEF Node, NoUser
    <2>3. Run(w, NoUser(node), "save", "save") /\ tangled' = tangled
      BY <1>5 DEF UserDel
    <2> QED
      BY <1>1, <2>1, <2>2, <2>3, RunCharge
  <1>6. CASE Unlock(w)
    <2>1. "save" \in Points(o)
      BY <1>6, OpsAt, PointsOf DEF Unlock
    <2>2. Run(w, node, "save", "save") /\ tangled' = tangled
      BY <1>6 DEF Unlock
    <2> QED
      BY <1>1, <2>1, <2>2, RunCharge
  <1> QED
    BY <1>2, <1>3, <1>4, <1>5, <1>6

(* A set-up goes on to make the chain when it has found none: then it is   *)
(* the only one, or they are tangled; or when its listing failed, which is *)
(* a fault.                                                                *)
LEMMA ListCharge ==
    ASSUME JobInv, JobInv', ChargeInv, NEW w \in Workers, List(w)
    PROVE  ChargeInv'
  <1> PICK o : o = job[w].op
    OBVIOUS
  <1> PICK pc : pc = IF node.chain THEN AfterSetUp(w) ELSE "new"
    OBVIOUS
  <1>0. /\ node.jumps \in Nat /\ tangled \in BOOLEAN /\ faults \in Nat
        /\ job[w].pc = "list"
    BY DEF JobInv, TypeOK, Node, List
  <1>1. o \in {"create", "provision", "sync"}
    BY <1>0, OpsAt DEF SettingUp
  <1>2. /\ pc \in Points(o) \cup {"idle"} /\ "new" \in Points(o) \cup {"idle"}
        /\ pc = "new" <=> ~node.chain
        /\ pc # "jump"
    BY <1>1, PointsOf DEF AfterSetUp
  <1>3. Run(w, node, pc, "new")
    BY DEF List
  <1>4. /\ \/ node' = node /\ job'[w].pc = pc /\ faults' = faults
           \/ node' = node /\ job'[w].pc = "new" /\ faults' = faults + 1
           \/ node' \in {node, node} /\ job'[w].pc = "idle"
        /\ faults' \in Nat /\ faults <= faults'
        /\ job'[w].seen \in {0, job[w].seen}
        /\ \A v \in Workers : v # w => job'[v] = job[v]
        /\ UNCHANGED <<row, sent>>
    BY <1>2, <1>3, RunLeaves
  <1>5. tangled' = (tangled \/ /\ job'[w].pc = "new"
                               /\ node.chain \/ \E v \in Workers \ {w} : job[v].pc \in Making)
    BY DEF List
  <1>6. tangled => tangled'
    BY <1>5
  <1>7. JumpsBounded'
    <2>1. CASE job'[w].pc # "new"
      <3>1. job'[w].pc \notin {"new", "jump"}
        BY <1>2, <1>4, <2>1
      <3>2. node'.jumps <= node.jumps
        BY <1>0, <1>4
      <3> QED
        BY <1>4, <1>6, <3>1, <3>2, JumpsStep
    <2>2. CASE job'[w].pc = "new"
      <3>1. w \notin Jumpers /\ w \in Jumpers'
        BY <1>0, <2>2 DEF Jumpers
      <3>2. /\ Cardinality(Jumpers) \in Nat
            /\ Cardinality(Jumpers') = Cardinality(Jumpers) + 1
        <4>1. Cardinality(Jumpers) \in Nat
          BY JumpersCount
        <4>2. Cardinality(Jumpers') = Cardinality(Jumpers) + 1 - 0
          BY <1>4, <3>1, <4>1, JumpersStep
        <4> QED
          BY <4>1, <4>2
      <3>3. node' = node /\ node.jumps + Cardinality(Jumpers) <= Factor
        BY <1>4 DEF ChargeInv, JumpsBounded
      <3>4. /\ Cardinality(Workers) \in Nat \ {0}
            /\ Factor \in Nat \ {0} /\ Factor' \in Nat \ {0} /\ Factor <= Factor'
            /\ tangled' => Cardinality(Workers) + faults' = Factor'
            /\ tangled /\ faults < faults' => Factor < Factor'
        BY <1>4, <1>6, FactorGrows
      <3>5. CASE node.chain
        <4>1. faults' = faults + 1
          BY <1>2, <1>4, <2>2, <3>5
        <4>2. tangled'
          BY <1>5, <2>2, <3>5
        <4>3. Factor < Factor'
          <5>1. CASE tangled
            BY <1>0, <3>4, <4>1, <5>1
          <5>2. CASE ~tangled
            <6>1. Factor = 1
              BY <5>2 DEF Factor
            <6> QED
              BY <1>0, <3>4, <4>1, <4>2, <6>1
          <5> QED
            BY <5>1, <5>2
        <4> QED
          BY <1>0, <3>2, <3>3, <3>4, <4>3 DEF JumpsBounded
      <3>6. CASE ~node.chain
        <4>1. node'.jumps = 0
          BY <3>3, <3>6 DEF ChargeInv, NoChainNoJump
        <4>2. CASE tangled'
          <5>1. Cardinality(Jumpers') <= Cardinality(Workers)
            <6>1. Jumpers' \in SUBSET Workers
              BY DEF Jumpers
            <6> QED
              BY <6>1, FS_Subset, NodeAccountAssumption
          <5> QED
            BY <1>4, <3>2, <3>4, <4>1, <4>2, <5>1 DEF JumpsBounded
        <4>3. CASE ~tangled'
          <5>1. \A v \in Workers \ {w} : job[v].pc \notin Making
            BY <1>5, <2>2, <4>3
          <5>2. Jumpers = {}
            BY <3>1, <5>1 DEF Jumpers, Making
          <5>3. Cardinality(Jumpers) = 0
            BY <5>2, FS_EmptySet
          <5>4. node'.jumps + Cardinality(Jumpers') = 1
            BY <3>2, <4>1, <5>3
          <5> QED
            BY <3>4, <5>4 DEF JumpsBounded
        <4> QED
          BY <4>2, <4>3
      <3> QED
        BY <3>5, <3>6
    <2> QED
      BY <2>1, <2>2
  <1>8. NoChainNoJump'
    BY <1>4 DEF ChargeInv, NoChainNoJump
  <1>9. \A i \in DOMAIN node'.rules :
           \/ node'.rules[i] = 0
           \/ i \in DOMAIN node.rules /\ node'.rules[i] = node.rules[i]
    BY <1>4
  <1> QED
    BY <1>4, <1>6, <1>7, <1>8, <1>9, ChargeStep

LEMMA ChainCharge ==
    ASSUME JobInv, JobInv', ChargeInv, NEW w \in Workers, IdU(w) \/ Chain(w) \/ Lock(w)
    PROVE  ChargeInv'
  <1> PICK o : o = job[w].op
    OBVIOUS
  <1>0. /\ node \in Node /\ node.jumps \in Nat /\ node.rules \in Seq(Nat)
        /\ node.chain \in BOOLEAN
        /\ ~node.chain => node.jumps = 0
    BY DEF JobInv, TypeOK, ChargeInv, NoChainNoJump, Node
  <1>1. job[w].pc \in SettingUp =>
          /\ AfterSetUp(w) \in Points(o) /\ AfterSetUp(w) \notin {"new", "jump"}
          /\ {"list", "new", "jump", "return"} \subseteq Points(o)
    <2>1. job[w].pc \in SettingUp => o \in {"create", "provision", "sync"}
      BY OpsAt
    <2> QED
      BY <2>1, PointsOf DEF AfterSetUp
  <1>2. CASE IdU(w)
    <2>1. job[w].pc \in SettingUp
      BY <1>2 DEF IdU, SettingUp
    <2> PICK pc : pc = IF node.exists THEN "list" ELSE AfterSetUp(w)
      OBVIOUS
    <2>2. pc \in Points(o) /\ pc \notin {"new", "jump"}
      BY <1>1, <2>1
    <2>3. Run(w, node, pc, AfterSetUp(w)) /\ tangled' = tangled
      BY <1>2 DEF IdU
    <2>4. node.jumps <= node.jumps
      BY <1>0
    <2> QED
      BY <1>0, <1>1, <2>1, <2>2, <2>3, <2>4, RunCharge
  <1>3. CASE Chain(w)
    <2>0. job[w].pc \in SettingUp /\ tangled' = tangled
      BY <1>3 DEF Chain, SettingUp, Making
    <2>1. CASE job[w].pc = "new"
      <3> PICK after : after = [node EXCEPT !.chain = TRUE]
        OBVIOUS
      <3>1. after.chain /\ after.jumps = node.jumps /\ after.rules = node.rules
        BY <1>0 DEF Node
      <3>2. Run(w, after, "jump", "jump") /\ w \in Jumpers
        BY <1>3, <2>1 DEF Chain, Jumpers
      <3>3. "jump" \in Points(o) /\ after.jumps <= node.jumps /\ after.jumps \in Nat
        BY <1>0, <1>1, <2>0, <3>1
      <3> QED
        BY <2>0, <3>1, <3>2, <3>3, RunCharge
    <2>2. CASE job[w].pc = "jump"
      <3> PICK after : after = [node EXCEPT !.jumps = @ + IF node.chain THEN 1 ELSE 0]
        OBVIOUS
      <3>1. /\ after.chain = node.chain /\ after.rules = node.rules
            /\ after.jumps = node.jumps + (IF node.chain THEN 1 ELSE 0)
        BY <1>0 DEF Node
      <3>2. Run(w, after, "return", "return") /\ w \in Jumpers
        BY <1>3, <2>2 DEF Chain, Jumpers
      <3>3. /\ after.jumps \in Nat /\ after.jumps <= node.jumps + 1
            /\ ~after.chain => after.jumps = 0
            /\ "return" \in Points(o) /\ "return" \notin {"new", "jump"}
        BY <1>0, <1>1, <2>0, <3>1
      <3> QED
        BY <2>0, <3>1, <3>2, <3>3, RunCharge
    <2>3. CASE job[w].pc = "return"
      <3> PICK after : after = IF node.chain THEN [node EXCEPT !.rules = Append(@, 0)] ELSE node
        OBVIOUS
      <3>1. /\ after.chain = node.chain /\ after.jumps = node.jumps
            /\ after.rules \in {node.rules, Append(node.rules, 0)}
        BY <1>0 DEF Node
      <3>2. \A i \in DOMAIN after.rules :
               \/ after.rules[i] = 0
               \/ i \in DOMAIN node.rules /\ after.rules[i] = node.rules[i]
        <4>1. CASE after.rules = node.rules
          BY <4>1
        <4>2. CASE after.rules = Append(node.rules, 0)
          <5> PICK r \in Seq(Nat) : r = node.rules
            BY <1>0
          <5>1. \A i \in DOMAIN Append(r, 0) :
                   \/ Append(r, 0)[i] = 0
                   \/ i \in DOMAIN r /\ Append(r, 0)[i] = r[i]
            OBVIOUS
          <5> QED
            BY <4>2, <5>1
        <4> QED
          BY <3>1, <4>1, <4>2
      <3>3. Run(w, after, AfterSetUp(w), AfterSetUp(w))
        BY <1>3, <2>3 DEF Chain
      <3>4. after.jumps \in Nat /\ after.jumps <= node.jumps /\ (~after.chain => after.jumps = 0)
        BY <1>0, <3>1
      <3> QED
        BY <1>1, <2>0, <3>2, <3>3, <3>4, RunCharge
    <2> QED
      BY <1>3, <2>1, <2>2, <2>3 DEF Chain
  <1>4. CASE Lock(w)
    <2>1. "status" \in Points(o) /\ "status" \notin {"new", "jump"}
      BY <1>4, OpsAt, PointsOf DEF Lock
    <2>2. Run(w, node, "status", "status") /\ tangled' = tangled
      BY <1>4 DEF Lock
    <2>3. node.jumps <= node.jumps
      BY <1>0
    <2> QED
      BY <1>0, <2>1, <2>2, <2>3, RunCharge
  <1> QED
    BY <1>2, <1>3, <1>4

(* A step that gives one job new usage, or writes what one has read.       *)
LEMMA SeenStep ==
    ASSUME JobInv, JobInv', ChargeInv, NEW w \in Workers, NEW j,
           job'[w] = j, \A v \in Workers : v # w => job'[v] = job[v],
           j.pc \notin {"new", "jump"},
           j.seen \in {0, job[w].seen, GB(Reading)},
           row'.used \in {0, row.used, job[w].seen},
           faults' \in {faults, faults + 1}, UNCHANGED <<node, sent, tangled>>
    PROVE  ChargeInv'
  <1>0. faults \in Nat /\ node.jumps \in Nat
    BY DEF JobInv, TypeOK, Node
  <1>1. faults <= faults'
    BY <1>0
  <1>2. JumpsBounded'
    <2>1. node'.jumps <= node.jumps
      BY <1>0
    <2> QED
      BY <1>1, <2>1, JumpsStep
  <1>3. NoChainNoJump'
    BY DEF ChargeInv, NoChainNoJump
  <1>4. /\ \A i \in DOMAIN node'.rules :
              \/ node'.rules[i] = 0
              \/ i \in DOMAIN node.rules /\ node'.rules[i] = node.rules[i]
        /\ \A v \in Workers :
              \/ job'[v].seen \in {0, row.used, GB(Reading)}
              \/ job'[v].seen = job[v].seen
        /\ row'.used \in {0, row.used} \cup {job[v].seen : v \in Workers}
    OBVIOUS
  <1> QED
    BY <1>1, <1>2, <1>3, <1>4, ChargeStep

LEMMA SyncCharge ==
    ASSUME JobInv, JobInv', ChargeInv, NEW w \in Workers, Read(w) \/ Suspend(w) \/ Save(w)
    PROVE  ChargeInv'
  <1>1. CASE Read(w)
    <2>1. faults' \in {faults, faults + 1}
      BY <1>1, ReadMoves
    <2>2. PICK j \in Job :
             /\ job' = [job EXCEPT ![w] = j]
             /\ \/ j = Idle
                \/ /\ j.op = job[w].op /\ j.pw = job[w].pw /\ j.pc \in {"save", "lock"}
                   /\ j.clean = job[w].clean /\ j.seen \in {0, GB(Reading)}
      BY <1>1, ReadMoves
    <2>3. job'[w] = j /\ \A v \in Workers : v # w => job'[v] = job[v]
      BY <2>2 DEF JobInv, TypeOK
    <2>4. j.pc \notin {"new", "jump"} /\ j.seen \in {0, job[w].seen, GB(Reading)}
      BY <2>2, IdleJob
    <2>5. UNCHANGED <<row, node, sent, tangled>>
      BY <1>1 DEF Read
    <2> QED
      BY <2>1, <2>3, <2>4, <2>5, SeenStep
  <1>2. CASE Suspend(w)
    <2>1. job'[w] = Idle /\ \A v \in Workers : v # w => job'[v] = job[v]
      BY <1>2, GoToMoves DEF Suspend, Done, Moved, JobInv
    <2>2. UNCHANGED <<node, sent, faults, tangled>> /\ row'.used = row.used
      BY <1>2 DEF Suspend, JobInv, TypeOK, Row
    <2> QED
      BY <2>1, <2>2, IdleJob, SeenStep
  <1>3. CASE Save(w)
    <2>1. PICK j \in Job :
             /\ job' = [job EXCEPT ![w] = j]
             /\ \/ j = Idle
                \/ /\ job[w].op = "sync"
                   /\ j.op = job[w].op /\ j.pw = job[w].pw /\ j.pc = "lock"
                   /\ j.clean = job[w].clean /\ j.seen = job[w].seen
      BY <1>3, SaveWrites
    <2>2. job'[w] = j /\ \A v \in Workers : v # w => job'[v] = job[v]
      BY <2>1 DEF JobInv, TypeOK
    <2>3. j.pc \notin {"new", "jump"} /\ j.seen \in {0, job[w].seen, GB(Reading)}
      BY <2>1, IdleJob
    <2>4. row'.used \in {0, row.used, job[w].seen}
      <3>1. job[w].op \in Ops
        BY <1>3, SaveWrites
      <3>2. CASE job[w].op \in {"create", "provision"}
        <4>1. row' = row \/ row' = [status |-> "active", pw |-> job[w].pw, used |-> 0]
          BY <1>3, <3>2, SaveWrites
        <4> QED
          BY <4>1
      <3>3. CASE job[w].op \in {"reset", "sync", "delete", "activate"}
        BY <1>3, <3>3, SaveWrites
      <3> QED
        BY <3>1, <3>2, <3>3 DEF Ops, PasswordOps
    <2>5. UNCHANGED <<node, sent, faults, tangled>>
      BY <1>3 DEF Save
    <2> QED
      BY <2>2, <2>3, <2>4, <2>5, SeenStep
  <1> QED
    BY <1>1, <1>2, <1>3

LEMMA BeginCharge ==
    ASSUME JobInv, JobInv', ChargeInv, NEW w \in Workers, NEW o \in Ops,
           NEW pc \in Points(o), pc \notin {"new", "jump"}, Begin(w, o, pc)
    PROVE  ChargeInv'
  <1>0. pc \in PC
    BY PointsAreCommands
  <1>1. /\ job'[w].pc = pc /\ job'[w].seen = row.used
        /\ \A v \in Workers : v # w =>
              job'[v].pc = job[v].pc /\ job'[v].seen = job[v].seen
        /\ UNCHANGED <<row, node, sent, faults, tangled>>
    BY <1>0, BeginMoves DEF Fresh
  <1>2. faults <= faults' /\ node'.jumps <= node.jumps
    BY <1>1 DEF JobInv, TypeOK, Node
  <1>3. JumpsBounded'
    BY <1>1, <1>2, JumpsStep
  <1>4. NoChainNoJump'
    BY <1>1 DEF ChargeInv, NoChainNoJump
  <1>5. /\ \A i \in DOMAIN node'.rules :
              \/ node'.rules[i] = 0
              \/ i \in DOMAIN node.rules /\ node'.rules[i] = node.rules[i]
        /\ \A v \in Workers :
              \/ job'[v].seen \in {0, row.used, GB(Reading)}
              \/ job'[v].seen = job[v].seen
        /\ row'.used \in {0, row.used} \cup {job[v].seen : v \in Workers}
    BY <1>1
  <1> QED
    BY <1>1, <1>2, <1>3, <1>4, <1>5, ChargeStep

(* A byte that is transferred meets at most so many jumps.                 *)
LEMMA TransferCharge ==
    ASSUME JobInv, JobInv', ChargeInv, Transfer
    PROVE  ChargeInv'
  <1>0. /\ node \in Node /\ sent \in Nat /\ faults \in Nat
        /\ node.jumps \in Nat /\ node.rules \in Seq(Nat)
    BY DEF JobInv, TypeOK, Node
  <1> PICK r : r = [i \in DOMAIN node.rules |-> node.rules[i] + (IF i = 1 THEN node.jumps ELSE 0)]
    OBVIOUS
  <1>1. /\ node' = [node EXCEPT !.rules = r]
        /\ sent' = sent + 1 /\ UNCHANGED <<row, job, faults, tangled>>
    BY Zenon DEF Transfer
  <1>2. node'.jumps = node.jumps /\ node'.chain = node.chain /\ node'.rules = r
    BY <1>0, <1>1 DEF Node
  <1>3. Factor' = Factor /\ Jumpers' = Jumpers
    BY <1>1 DEF Factor, Jumpers
  <1>4. NoChainNoJump' /\ JumpsBounded'
    BY <1>2, <1>3 DEF ChargeInv, NoChainNoJump, JumpsBounded
  <1>5. Factor \in Nat /\ node.jumps <= Factor
    <2>1. Factor \in Nat
      BY <1>0, <1>1, FactorGrows
    <2>2. Cardinality(Jumpers) \in Nat /\ node.jumps + Cardinality(Jumpers) <= Factor
      BY JumpersCount DEF ChargeInv, JumpsBounded
    <2> QED
      BY <1>0, <2>1, <2>2
  <1>6. /\ Factor * sent \in Nat
        /\ (Factor * sent)' = Factor * sent + Factor
    <2>1. Factor * (sent + 1) = Factor * sent + Factor
      BY <1>0, <1>5
    <2> QED
      BY <1>0, <1>1, <1>3, <1>5, <2>1
  <1>7. RulesBounded'
    <2> SUFFICES ASSUME NEW i \in DOMAIN r PROVE r[i] <= (Factor * sent)'
      BY <1>2 DEF RulesBounded
    <2>1. i \in DOMAIN node.rules /\ node.rules[i] \in Nat
      BY <1>0
    <2>2. node.rules[i] <= Factor * sent
      BY <2>1 DEF ChargeInv, RulesBounded
    <2>3. r[i] <= node.rules[i] + node.jumps
      BY <1>0, <2>1
    <2>4. r[i] \in Nat
      BY <1>0, <2>1
    <2> QED
      BY <1>0, <1>5, <1>6, <2>1, <2>2, <2>3, <2>4
  <1>8. /\ GB(Factor * sent) \in Nat /\ GB(Factor * sent)' \in Nat
        /\ GB(Factor * sent) <= GB(Factor * sent)'
    <2>1. sent' \in Nat /\ sent <= sent' /\ faults' \in Nat /\ faults <= faults' /\ (tangled => tangled')
      BY <1>0, <1>1
    <2> QED
      BY <2>1, BoundGrows
  <1>9. SeenBounded'
    <2> SUFFICES ASSUME NEW v \in Workers PROVE job[v].seen <= GB(Factor * sent)'
      BY <1>1 DEF SeenBounded
    <2>1. job[v].seen \in Nat /\ job[v].seen <= GB(Factor * sent)
      BY DEF ChargeInv, SeenBounded, JobInv, TypeOK, Job
    <2> QED
      BY <1>8, <2>1
  <1>10. ChargeBounded'
    <2>1. row.used \in Nat /\ row.used <= GB(Factor * sent)
      BY DEF ChargeInv, ChargeBounded, Factor, JobInv, TypeOK, Row
    <2>2. row'.used <= GB(Factor * sent)'
      BY <1>1, <1>8, <2>1
    <2> QED
      BY <2>2 DEF ChargeBounded, Factor
  <1> QED
    BY <1>4, <1>7, <1>9, <1>10 DEF ChargeInv

LEMMA OthersCharge ==
    ASSUME JobInv, JobInv', ChargeInv, (\E w \in Workers : Crash(w)) \/ Reboot
    PROVE  ChargeInv'
  <1>0. faults \in Nat /\ node.jumps \in Nat
    BY DEF JobInv, TypeOK, Node
  <1>1. ASSUME NEW w \in Workers, Crash(w) PROVE ChargeInv'
    <2>1. job'[w] = Idle /\ \A v \in Workers : v # w => job'[v] = job[v]
      BY <1>1, GoToMoves DEF Crash, Stopped, Done, Moved, JobInv
    <2>2. UNCHANGED <<row, node, sent, tangled>> /\ faults' = faults + 1
      BY <1>1 DEF Crash, Fault
    <2> QED
      BY <2>1, <2>2, IdleJob, SeenStep
  <1>2. CASE Reboot
    <2>1. /\ \A v \in Workers : job'[v].pc = job[v].pc /\ job'[v].seen \in {0, job[v].seen}
          /\ UNCHANGED <<row, sent, tangled>>
      BY <1>2, RebootKeeps
    <2>2. node'.jumps = 0 /\ node'.rules = << >> /\ faults' = faults + 1
      BY <1>2 DEF Reboot, NoRules, Fault, JobInv, TypeOK, Node
    <2>3. NoChainNoJump'
      BY <2>2 DEF NoChainNoJump
    <2>4. faults <= faults' /\ faults' \in Nat
      BY <1>0, <2>2
    <2>5. JumpsBounded'
      <3>1. Jumpers' = Jumpers
        BY <2>1 DEF Jumpers
      <3>2. Factor \in Nat /\ Factor' \in Nat /\ Factor <= Factor'
        BY <2>1, <2>4, FactorGrows
      <3>3. Cardinality(Jumpers) \in Nat
        BY JumpersCount
      <3> QED
        BY <1>0, <2>2, <3>1, <3>2, <3>3 DEF ChargeInv, JumpsBounded
    <2>6. \A i \in DOMAIN node'.rules :
             \/ node'.rules[i] = 0
             \/ i \in DOMAIN node.rules /\ node'.rules[i] = node.rules[i]
      BY <2>2
    <2>7. /\ \A v \in Workers :
                \/ job'[v].seen \in {0, row.used, GB(Reading)}
                \/ job'[v].seen = job[v].seen
          /\ row'.used \in {0, row.used} \cup {job[v].seen : v \in Workers}
      BY <2>1
    <2> QED
      BY <2>1, <2>3, <2>4, <2>5, <2>6, <2>7, ChargeStep
  <1> QED
    BY <1>1, <1>2

LEMMA ChargeInit == Init => ChargeInv
  <1> SUFFICES ASSUME Init PROVE ChargeInv
    OBVIOUS
  <1>1. Jumpers = {}
    BY IdleJob DEF Init, Jumpers
  <1>2. Cardinality(Jumpers) = 0
    BY <1>1, FS_EmptySet
  <1>3. Factor = 1 /\ sent = 0 /\ node.jumps = 0 /\ node.rules = << >> /\ row.used = 0
        /\ \A w \in Workers : job[w].seen = 0
    BY IdleJob DEF Init, Factor
  <1>4. Factor * sent = 0
    BY <1>3
  <1>5. NoChainNoJump /\ JumpsBounded /\ RulesBounded
    BY <1>2, <1>3 DEF NoChainNoJump, JumpsBounded, RulesBounded
  <1>6. SeenBounded
    BY <1>3, <1>4, GBGrows DEF SeenBounded
  <1>7. ChargeBounded
    <2>1. row.used <= GB(Factor * sent)
      BY <1>3, <1>4, GBGrows
    <2> QED
      BY <2>1 DEF ChargeBounded, Factor
  <1> QED
    BY <1>5, <1>6, <1>7 DEF ChargeInv

LEMMA ChargeNext == JobInv /\ JobInv' /\ ChargeInv /\ [Next]_vars => ChargeInv'
  <1> SUFFICES ASSUME JobInv, JobInv', ChargeInv, [Next]_vars PROVE ChargeInv'
    OBVIOUS
  <1>1. ASSUME NEW w \in Workers,
               StartCreate(w) \/ StartProvision(w) \/ StartRequest(w) \/ StartSync(w)
        PROVE  ChargeInv'
    <2>1. PICK o \in Ops : \E pc \in Points(o) : Begin(w, o, pc) /\ pc \notin {"new", "jump", "save"}
      BY <1>1, Starts
    <2> QED
      BY <2>1, BeginCharge
  <1>2. ASSUME NEW w \in Workers, Step(w) PROVE ChargeInv'
    BY <1>2, UserCharge, ListCharge, ChainCharge, SyncCharge DEF Step
  <1>3. CASE UNCHANGED vars \/ ChangeServer
    <2>1. UNCHANGED <<row, node, sent, job, faults, tangled>>
      BY <1>3 DEF vars, ChangeServer
    <2>2. Factor' = Factor /\ Jumpers' = Jumpers
      BY <2>1 DEF Factor, Jumpers
    <2>3. NoChainNoJump' /\ JumpsBounded' /\ RulesBounded' /\ SeenBounded'
      BY <2>1, <2>2 DEF ChargeInv, NoChainNoJump, JumpsBounded, RulesBounded, SeenBounded, GB
    <2>4. ChargeBounded'
      BY <2>1 DEF ChargeInv, ChargeBounded, GB
    <2> QED
      BY <2>3, <2>4 DEF ChargeInv
  <1> QED
    BY <1>1, <1>2, <1>3, OthersCharge, TransferCharge DEF Next

(* What the counters of the chain, the readings in the hands of the jobs   *)
(* and the row have added up to stays within what was transferred, but for *)
(* the set-ups that have met (sync_bandwidth_usage).                       *)
THEOREM ChargeInvariant == Spec => []ChargeInv
  <1>1. JobInv /\ JobInv' /\ ChargeInv /\ [Next]_vars => ChargeInv'
    BY ChargeNext
  <1> QED
    BY <1>1, ChargeInit, JobInvariant, PTL DEF Spec

(* An account is never charged for more than it has transferred, but once  *)
(* for each set-up of the chain that did not see another's                 *)
(* (setup_traffic_accounting, sync_bandwidth_usage).                       *)
THEOREM ChargeStaysBounded == Spec => []ChargeBounded
  <1>1. ChargeInv => ChargeBounded
    BY DEF ChargeInv
  <1> QED
    BY <1>1, ChargeInvariant, PTL

=============================================================================
