-------------------------- MODULE Payments_proofs --------------------------
(***************************************************************************)
(* Placement and what rides on it, for any number of servers, users,       *)
(* workers and orders.  First pick_best_server and its callers by          *)
(* themselves (Placement): the bound on the users of a server.  Then the   *)
(* payment webhook, extensions, edits and rebalance_users together         *)
(* (Payments): the same bound, and that orders, answers and days stay in   *)
(* step.                                                                   *)
(***************************************************************************)
EXTENDS Payments, FiniteSetTheorems, TLAPS

-----------------------------------------------------------------------------

(* The sets that are counted are finite, so that their sizes are numbers.  *)
LEMMA CountedFinite ==
    ASSUME NEW s \in Servers
    PROVE  /\ IsFiniteSet(Live(s)) /\ Cardinality(Live(s)) \in Nat
           /\ IsFiniteSet(Counted(s)) /\ Cardinality(Counted(s)) \in Nat
           /\ Cardinality(Counted(s)) <= Cardinality(Live(s))
           /\ IsFiniteSet(Pending(s)) /\ Cardinality(Pending(s)) \in Nat
           /\ Cardinality(Pending(s)) <= Cardinality(Workers)
           /\ Cardinality(Workers) \in Nat /\ Cardinality(Workers) >= 1
           /\ MaxUsers[s] \in Nat
  <1>1. IsFiniteSet(Users) /\ IsFiniteSet(Workers) /\ Workers # {} /\ MaxUsers[s] \in Nat
    BY PlacementAssumption
  <1>2. Live(s) \subseteq Users
    BY DEF Live
  <1>3. Counted(s) \subseteq Live(s)
    BY DEF Counted
  <1>4. Pending(s) \subseteq Workers
    BY DEF Pending
  <1>5. IsFiniteSet(Live(s)) /\ Cardinality(Live(s)) \in Nat
    BY <1>1, <1>2, FS_Subset, FS_CardinalityType
  <1>6. IsFiniteSet(Counted(s)) /\ Cardinality(Counted(s)) \in Nat
        /\ Cardinality(Counted(s)) <= Cardinality(Live(s))
    BY <1>3, <1>5, FS_Subset, FS_CardinalityType
  <1>7. IsFiniteSet(Pending(s)) /\ Cardinality(Pending(s)) \in Nat
        /\ Cardinality(Pending(s)) <= Cardinality(Workers)
    BY <1>1, <1>4, FS_Subset, FS_CardinalityType
  <1>8. Cardinality(Workers) \in Nat /\ Cardinality(Workers) # 0
    BY <1>1, FS_CardinalityType, FS_EmptySet
  <1> QED
    BY <1>1, <1>5, <1>6, <1>7, <1>8

(* A step that adds no user and no job to a server keeps its bound.        *)
LEMMA BoundShrinks ==
    ASSUME NEW s \in Servers, PlacesBounded,
           NEW C, NEW P, C \subseteq Counted(s), P \subseteq Pending(s)
    PROVE  Cardinality(C) + Cardinality(P) <= MaxUsers[s] + Cardinality(Workers) - 1
  <1>1. Cardinality(C) <= Cardinality(Counted(s)) /\ Cardinality(C) \in Nat
    BY CountedFinite, FS_Subset, FS_CardinalityType
  <1>2. Cardinality(P) <= Cardinality(Pending(s)) /\ Cardinality(P) \in Nat
    BY CountedFinite, FS_Subset, FS_CardinalityType
  <1> QED
    BY <1>1, <1>2, CountedFinite DEF PlacesBounded

-----------------------------------------------------------------------------

(* A job that has been given a server by pick_best_server.                 *)
Placed(j) == j.pc \in {"insert", "provision", "commit"}
Shape(j) ==
    /\ j \in Job
    /\ j.pc # "idle" => j.user \in Users
    /\ Placed(j) => j.srv \in Servers

(* One job moves on: the jobs keep their types, and the jobs in flight to  *)
(* a server become no more unless this one joins them.                     *)
LEMMA OneJob ==
    ASSUME TypeOK, NEW w \in Workers, NEW j, Shape(j), job' = [job EXCEPT ![w] = j]
    PROVE  /\ job' \in [Workers -> Job]
           /\ \A v \in Workers : Shape(job'[v])
           /\ \A t \in Servers :
                (Placed(j) /\ j.srv = t => Placed(job[w]) /\ job[w].srv = t)
                   => Pending(t)' \subseteq Pending(t)
  <1>1. job'[w] = j /\ \A v \in Workers : v # w => job'[v] = job[v]
    BY DEF TypeOK
  <1>2. \A v \in Workers : Shape(job[v])
    BY DEF TypeOK, Shape, Placed
  <1>3. \A v \in Workers : Shape(job'[v])
    BY <1>1, <1>2
  <1>4. job' \in [Workers -> Job]
    BY <1>3 DEF TypeOK, Shape
  <1>5. ASSUME NEW t \in Servers, Placed(j) /\ j.srv = t => Placed(job[w]) /\ job[w].srv = t
        PROVE  Pending(t)' \subseteq Pending(t)
    BY <1>1, <1>5 DEF Pending, Placed
  <1> QED
    BY <1>3, <1>4, <1>5

(* What each step makes of its job.                                        *)
LEMMA IdleShape == Shape(Idle) /\ ~Placed(Idle)
  BY DEF Idle, Shape, Placed, Job, PC

(* A job that has just started is well formed and holds no place.          *)
LEMMA FreshShape ==
    ASSUME NEW us \in SUBSET Users, NEW u \in us, NEW s \in Servers \cup {None}
    PROVE  LET j == [Idle EXCEPT !.pc = "pick", !.todo = us, !.user = u, !.want = s]
           IN  Shape(j) /\ ~Placed(j)
  BY DEF Idle, Shape, Placed, Job, PC

(* A job that has found its server is well formed and holds its place.     *)
LEMMA ChosenJob ==
    ASSUME TypeOK, NEW w \in Workers, NEW s \in Servers, job[w].user \in Users, Chosen(w, s)
    PROVE  \E j : Shape(j) /\ j.srv = s /\ job' = [job EXCEPT ![w] = j]
  <1> DEFINE p == IF job[w].from = None THEN "insert" ELSE "provision"
             j == [job[w] EXCEPT !.pc = p, !.srv = s, !.left = {}]
  <1>1. job[w] \in Job
    BY DEF TypeOK
  <1>2. Shape(j) /\ j.srv = s
    BY <1>1 DEF Shape, Placed, Job, PC
  <1>3. job' = [job EXCEPT ![w] = j]
    BY DEF Chosen, TypeOK
  <1> QED
    BY <1>2, <1>3

(* The jobs of a worker that starts, gives up or waits.                    *)
LEMMA QuietJob ==
    ASSUME TypeOK, NEW w \in Workers,
           \/ Start(w)
           \/ Refuse(w)
           \/ Insert(w)
           \/ Provision(w)
    PROVE  \E j : /\ Shape(j) /\ job' = [job EXCEPT ![w] = j]
                  /\ Placed(j) => Placed(job[w]) /\ job[w].srv = j.srv
  <1>0. job[w] \in Job /\ Shape(job[w])
    BY DEF TypeOK, Shape, Placed
  <1>1. CASE StartCreate(w) \/ StartWebhook(w) \/ StartBulk(w)
    <2>1. PICK us \in SUBSET Users, s \in Servers \cup {None} : Begin(w, us, s)
      BY <1>1 DEF StartCreate, StartWebhook, StartBulk
    <2>2. PICK u \in us :
            job' = [job EXCEPT ![w] = [Idle EXCEPT !.pc = "pick", !.todo = us, !.user = u,
                                                   !.want = s]]
      BY <2>1 DEF Begin
    <2> DEFINE j == [Idle EXCEPT !.pc = "pick", !.todo = us, !.user = u, !.want = s]
    <2>3. Shape(j) /\ ~Placed(j)
      BY FreshShape
    <2>4. job' = [job EXCEPT ![w] = j]
      BY <2>2
    <2> HIDE DEF j
    <2> QED
      BY <2>3, <2>4
  <1>2. CASE job' = [job EXCEPT ![w] = Idle]
    BY <1>2, IdleShape
  <1>3. ASSUME NEW p \in {"provision", "commit"}, job' = [job EXCEPT ![w].pc = p],
               Placed(job[w])
        PROVE  \E j : /\ Shape(j) /\ job' = [job EXCEPT ![w] = j]
                      /\ Placed(j) => Placed(job[w]) /\ job[w].srv = j.srv
    <2> DEFINE j == [job[w] EXCEPT !.pc = p]
    <2>1. Shape(j) /\ j.srv = job[w].srv
      BY <1>0, <1>3 DEF Shape, Placed, Job, PC
    <2>2. job' = [job EXCEPT ![w] = j]
      BY <1>3 DEF TypeOK
    <2> QED
      BY <1>3, <2>1, <2>2
  <1>7. CASE StartMove(w)
    <2>1. PICK k \in Keys :
            job' = [job EXCEPT ![w] = [Idle EXCEPT !.pc = "pick", !.user = k[2], !.from = k[1]]]
      BY <1>7 DEF StartMove
    <2> DEFINE j == [Idle EXCEPT !.pc = "pick", !.user = k[2], !.from = k[1]]
    <2>2. k[1] \in Servers /\ k[2] \in Users
      BY DEF Keys
    <2>3. Shape(j) /\ ~Placed(j)
      BY <2>2 DEF Idle, Shape, Placed, Job, PC
    <2>4. job' = [job EXCEPT ![w] = j]
      BY <2>1
    <2> HIDE DEF j
    <2> QED
      BY <2>3, <2>4
  <1>4. CASE Refuse(w)
    BY <1>2, <1>4 DEF Refuse, Stop
  <1>5. CASE Insert(w)
    BY <1>2, <1>3, <1>5 DEF Insert, Stop, Placed
  <1>6. CASE Provision(w)
    BY <1>2, <1>3, <1>6 DEF Provision, Stop, Placed
  <1> QED
    BY <1>1, <1>4, <1>5, <1>6, <1>7 DEF Start

(* pick_best_server goes on to the list of servers, or to its next one.    *)
LEMMA SearchJob ==
    ASSUME TypeOK, NEW w \in Workers, NEW L \in SUBSET Servers,
           job[w].pc # "idle", job' = [job EXCEPT ![w] = [job[w] EXCEPT !.pc = "scan", !.left = L]]
    PROVE  \E j : Shape(j) /\ ~Placed(j) /\ job' = [job EXCEPT ![w] = j]
  <1> DEFINE j == [job[w] EXCEPT !.pc = "scan", !.left = L]
  <1>1. job[w] \in Job /\ job[w].user \in Users
    BY DEF TypeOK
  <1>2. Shape(j) /\ ~Placed(j)
    BY <1>1 DEF Shape, Placed, Job, PC
  <1> QED
    BY <1>2

(* Pick and Scan give the job a server with a free place, or search on.    *)
LEMMA PickJob ==
    ASSUME TypeOK, NEW w \in Workers, Pick(w)
    PROVE  \/ \E s \in Servers : HasRoom(s) /\ Chosen(w, s)
                                 /\ \E j : Shape(j) /\ job' = [job EXCEPT ![w] = j]
           \/ \E j : Shape(j) /\ ~Placed(j) /\ job' = [job EXCEPT ![w] = j]
  <1>0. job[w] \in Job /\ job[w].user \in Users /\ job[w].pc = "pick"
    BY DEF TypeOK, Pick
  <1> DEFINE found == job[w].want # None /\ status[job[w].want] = "active" /\ HasRoom(job[w].want)
  <1>1. CASE found
    <2>1. job[w].want \in Servers
      BY <1>0, <1>1 DEF Job
    <2>2. Chosen(w, job[w].want)
      BY <1>1 DEF Pick
    <2> QED
      BY <1>0, <1>1, <2>1, <2>2, ChosenJob
  <1>2. CASE ~found
    <2> DEFINE L == {t \in Servers : status[t] = "active"}
    <2>1. job' = [job EXCEPT ![w].pc = "scan", ![w].left = L]
      BY <1>2 DEF Pick
    <2>2. job' = [job EXCEPT ![w] = [job[w] EXCEPT !.pc = "scan", !.left = L]]
      BY <2>1 DEF TypeOK
    <2> HIDE DEF L
    <2>3. L \in SUBSET Servers
      BY DEF L
    <2> QED
      BY <1>0, <2>2, <2>3, SearchJob
  <1> QED
    BY <1>1, <1>2

(* The search over the list of servers ends in the same two ways.          *)
LEMMA ScanJob ==
    ASSUME TypeOK, NEW w \in Workers, Scan(w)
    PROVE  \/ \E s \in Servers : HasRoom(s) /\ Chosen(w, s)
                                 /\ \E j : Shape(j) /\ job' = [job EXCEPT ![w] = j]
           \/ \E j : Shape(j) /\ ~Placed(j) /\ job' = [job EXCEPT ![w] = j]
  <1>0. job[w] \in Job /\ job[w].user \in Users /\ job[w].pc = "scan"
        /\ job[w].left \in SUBSET Servers
    BY DEF TypeOK, Scan, Job
  <1>1. PICK s \in job[w].left :
          IF HasRoom(s) THEN Chosen(w, s) ELSE job' = [job EXCEPT ![w].left = @ \ {s}]
    BY DEF Scan
  <1>2. CASE HasRoom(s)
    BY <1>0, <1>1, <1>2, ChosenJob
  <1>3. CASE ~HasRoom(s)
    <2> DEFINE L == job[w].left \ {s}
    <2>1. job' = [job EXCEPT ![w] = [job[w] EXCEPT !.left = L]]
      BY <1>1, <1>3 DEF TypeOK
    <2>2. [job[w] EXCEPT !.left = L] = [job[w] EXCEPT !.pc = "scan", !.left = L]
      BY <1>0 DEF Job
    <2>3. L \in SUBSET Servers
      BY <1>0
    <2> HIDE DEF L
    <2> QED
      BY <1>0, <2>1, <2>2, <2>3, SearchJob
  <1> QED
    BY <1>2, <1>3

(* A committed job ends, or turns to its next user.                        *)
LEMMA CommitJob ==
    ASSUME TypeOK, NEW w \in Workers, Commit(w)
    PROVE  \E j : Shape(j) /\ ~Placed(j) /\ job' = [job EXCEPT ![w] = j]
  <1>0. job[w].todo \in SUBSET Users /\ job[w].want \in Servers \cup {None}
    BY DEF TypeOK, Job
  <1> DEFINE rest == job[w].todo \ {job[w].user}
  <1>1. CASE Stop(w)
    BY <1>1, IdleShape DEF Stop
  <1>2. ASSUME NEW u \in rest,
               job' = [job EXCEPT ![w] = [Idle EXCEPT !.pc = "pick", !.todo = rest, !.user = u,
                                                      !.want = job[w].want]]
        PROVE  \E j : Shape(j) /\ ~Placed(j) /\ job' = [job EXCEPT ![w] = j]
    BY <1>0, <1>2, FreshShape
  <1> QED
    BY <1>1, <1>2 DEF Commit

-----------------------------------------------------------------------------

(* A row that moves ends its job, and the other jobs on it follow.         *)
LEMMA MoveJob ==
    ASSUME TypeOK, NEW w \in Workers, Move(w)
    PROVE  /\ job' \in [Workers -> Job] /\ \A v \in Workers : Shape(job'[v])
           /\ ~Placed(job'[w])
           /\ \A v \in Workers : Placed(job'[v]) => Placed(job[v]) /\ job'[v].srv = job[v].srv
  <1> DEFINE old == <<job[w].from, job[w].user>>
             new == Key(w)
  <1>0. \A v \in Workers : job[v] \in Job /\ Shape(job[v])
    BY DEF TypeOK, Shape, Placed
  <1>1. job[w].pc = "commit" /\ new[1] \in Servers
    BY DEF Move, TypeOK, Key
  <1>2. ASSUME NEW v \in Workers, NEW t \in Servers
        PROVE  LET j == [job[v] EXCEPT !.from = t]
               IN  Shape(j) /\ j.srv = job[v].srv /\ j.pc = job[v].pc
    BY <1>0 DEF Shape, Placed, Job
  <1>3. CASE Stop(w)
    <2>1. job' = [job EXCEPT ![w] = Idle]
      BY <1>3 DEF Stop
    <2> QED
      BY <1>0, <2>1, IdleShape DEF TypeOK, Shape
  <1>4. CASE job' = [Following(old, new) EXCEPT ![w] = Idle]
    <2>1. \A v \in Workers :
             \/ v = w /\ job'[v] = Idle
             \/ v # w /\ job'[v] = job[v]
             \/ v # w /\ job'[v] = [job[v] EXCEPT !.from = new[1]]
      BY <1>4 DEF Following
    <2>2. \A v \in Workers : Shape(job'[v])
      BY <1>0, <1>1, <1>2, <2>1, IdleShape
    <2>3. job' \in [Workers -> Job]
      BY <1>4, <2>2 DEF Shape, Following
    <2>4. ~Placed(job'[w])
      BY <2>1, IdleShape
    <2>5. \A v \in Workers : Placed(job'[v]) => Placed(job[v]) /\ job'[v].srv = job[v].srv
      BY <1>1, <1>2, <2>1, IdleShape DEF Placed
    <2> QED
      BY <2>2, <2>3, <2>4, <2>5
  <1> QED
    BY <1>3, <1>4 DEF Move

(* Every other step leaves the jobs that it does not move alone.           *)
LEMMA JobStep ==
    ASSUME TypeOK, NEW w \in Workers, Start(w) \/ Step(w), ~Move(w)
    PROVE  \E j : Shape(j) /\ job' = [job EXCEPT ![w] = j]
  <1>1. CASE Start(w) \/ Refuse(w) \/ Insert(w) \/ Provision(w)
    BY <1>1, QuietJob
  <1>2. CASE Pick(w)
    BY <1>2, PickJob
  <1>3. CASE Scan(w)
    BY <1>3, ScanJob
  <1>4. CASE Commit(w)
    BY <1>4, CommitJob
  <1> QED
    BY <1>1, <1>2, <1>3, <1>4 DEF Step

(* Every step keeps the types.                                             *)
LEMMA TypeStep == TypeOK /\ [Next]_vars => TypeOK'
  <1> SUFFICES ASSUME TypeOK, [Next]_vars PROVE TypeOK'
    OBVIOUS
  <1>1. ASSUME NEW w \in Workers, Start(w) \/ Step(w) PROVE TypeOK'
    <2>1. job' \in [Workers -> Job] /\ \A v \in Workers : Shape(job'[v])
      BY <1>1, JobStep, MoveJob, OneJob
    <2>2. status' = status
      BY <1>1 DEF Start, StartCreate, StartWebhook, StartBulk, StartMove, Begin, Step, Pick, Scan,
                  Refuse, Insert, Provision, Commit, Move
    <2>3. row' \in [Keys -> RowState] /\ revived' \subseteq Keys
      <3>1. CASE Commit(w)
        BY <3>1 DEF Commit, TypeOK, RowState
      <3>2. CASE Move(w)
        <4>1. Key(w) \in Keys
          BY <3>2 DEF Move, Key, Keys, TypeOK
        <4>2. CASE Moved(<<job[w].from, job[w].user>>, Key(w))
          <5>1. <<job[w].from, job[w].user>> \in Keys
            BY <3>2 DEF Move, Keys, TypeOK, Job
          <5> QED
            BY <4>1, <4>2, <5>1 DEF Moved, TypeOK, RowState
        <4>3. CASE UNCHANGED <<row, revived>>
          BY <4>3 DEF TypeOK
        <4> QED
          BY <3>2, <4>2, <4>3 DEF Move
      <3>3. CASE ~Commit(w) /\ ~Move(w)
        BY <1>1, <3>3 DEF Start, StartCreate, StartWebhook, StartBulk, StartMove, Begin, Step,
                          Pick, Scan, Refuse, Insert, Provision, TypeOK
      <3> QED
        BY <3>1, <3>2, <3>3
    <2> QED
      BY <2>1, <2>2, <2>3 DEF TypeOK, Shape, Placed
  <1>2. ASSUME NEW k \in Keys, SetRow(k) PROVE TypeOK'
    <2>1. row' \in [Keys -> RowState]
      BY <1>2 DEF SetRow, TypeOK, RowState
    <2>2. revived' \subseteq Keys /\ UNCHANGED <<status, job>>
      BY <1>2 DEF SetRow, TypeOK
    <2> QED
      BY <2>1, <2>2 DEF TypeOK
  <1>3. ASSUME NEW s \in Servers, SetStatus(s) PROVE TypeOK'
    <2>1. status' \in [Servers -> {"active", "other"}]
      BY <1>3 DEF SetStatus, TypeOK
    <2> QED
      BY <1>3, <2>1 DEF SetStatus, TypeOK
  <1>4. CASE UNCHANGED vars
    BY <1>4 DEF vars, TypeOK
  <1> QED
    BY <1>1, <1>2, <1>3, <1>4 DEF Next

-----------------------------------------------------------------------------

(* A job that has just counted a free place joins the jobs in flight: there*)
(* are at most as many of them as workers, and one place was free.         *)
LEMMA ChosenStep ==
    ASSUME TypeOK, PlacesBounded, NEW w \in Workers, NEW s \in Servers,
           job[w].pc \in {"pick", "scan"}, HasRoom(s), Chosen(w, s),
           UNCHANGED <<status, row, revived>>
    PROVE  PlacesBounded'
  <1> SUFFICES ASSUME NEW t \in Servers
               PROVE  Cardinality(Counted(t)') + Cardinality(Pending(t)')
                        <= MaxUsers[t] + Cardinality(Workers) - 1
    BY DEF PlacesBounded
  <1>1. Counted(t)' = Counted(t)
    BY DEF Counted, Live
  <1>2. CASE t = s
    <2>1. Pending(t)' \subseteq Workers
      BY DEF Pending
    <2>2. Cardinality(Pending(t)') <= Cardinality(Workers) /\ Cardinality(Pending(t)') \in Nat
      BY <2>1, PlacementAssumption, FS_Subset, FS_CardinalityType
    <2>3. Cardinality(Counted(t)) + 1 <= MaxUsers[t]
      BY <1>2, CountedFinite DEF HasRoom
    <2> QED
      BY <1>1, <2>2, <2>3, CountedFinite
  <1>3. CASE t # s
    <2>1. Pending(t)' \subseteq Pending(t)
      BY <1>3, ChosenJob, OneJob DEF TypeOK
    <2> QED
      BY <1>1, <2>1, BoundShrinks
  <1> QED
    BY <1>2, <1>3

(* One more user for one job less.                                         *)
LEMMA TakesPlace ==
    ASSUME PlacesBounded, NEW w \in Workers, NEW t \in Servers, NEW u \in Users,
           w \in Pending(t), NEW C, NEW P,
           C \subseteq Counted(t) \cup {u}, P \subseteq Pending(t) \ {w}
    PROVE  Cardinality(C) + Cardinality(P) <= MaxUsers[t] + Cardinality(Workers) - 1
  <1>1. IsFiniteSet(Counted(t)) /\ Cardinality(Counted(t)) \in Nat
    BY CountedFinite
  <1>2. IsFiniteSet(Counted(t) \cup {u})
        /\ Cardinality(Counted(t) \cup {u}) =
             IF u \in Counted(t) THEN Cardinality(Counted(t)) ELSE Cardinality(Counted(t)) + 1
    BY <1>1, FS_AddElement, Zenon
  <1>3. Cardinality(Counted(t) \cup {u}) <= Cardinality(Counted(t)) + 1
        /\ Cardinality(Counted(t) \cup {u}) \in Nat
    BY <1>1, <1>2
  <1>4. Cardinality(C) <= Cardinality(Counted(t)) + 1 /\ Cardinality(C) \in Nat
    BY <1>1, <1>2, <1>3, FS_Subset, FS_CardinalityType
  <1>5. IsFiniteSet(Pending(t) \ {w})
        /\ Cardinality(Pending(t) \ {w}) = Cardinality(Pending(t)) - 1
    BY CountedFinite, FS_RemoveElement
  <1>6. Cardinality(P) <= Cardinality(Pending(t)) - 1 /\ Cardinality(P) \in Nat
    BY <1>5, FS_Subset, FS_CardinalityType
  <1> QED
    BY <1>1, <1>4, <1>6, CountedFinite DEF PlacesBounded

(* The committed row takes the place of the job that was in flight.        *)
LEMMA CommitStep ==
    ASSUME TypeOK, PlacesBounded, NEW w \in Workers, Commit(w)
    PROVE  PlacesBounded'
  <1> DEFINE s == job[w].srv
             u == job[w].user
  <1>0. s \in Servers /\ u \in Users /\ job[w].pc = "commit"
    BY DEF Commit, TypeOK
  <1>1. ~Placed(job'[w])
    BY CommitJob DEF TypeOK
  <1>2. \A v \in Workers \ {w} : job'[v] = job[v]
    BY CommitJob DEF TypeOK
  <1> SUFFICES ASSUME NEW t \in Servers
               PROVE  Cardinality(Counted(t)') + Cardinality(Pending(t)')
                        <= MaxUsers[t] + Cardinality(Workers) - 1
    BY DEF PlacesBounded
  <1>3. CASE t = s
    <2>1. Counted(t)' \subseteq Counted(t) \cup {u}
      BY <1>0, <1>3 DEF Counted, Live, Commit, Key, TypeOK, Keys
    <2>3. Pending(t)' \subseteq Pending(t) \ {w}
      BY <1>1, <1>2 DEF Pending, Placed
    <2>4. w \in Pending(t)
      BY <1>0, <1>3 DEF Pending
    <2> QED
      BY <1>0, <2>1, <2>3, <2>4, TakesPlace
  <1>4. CASE t # s
    <2>1. Counted(t)' \subseteq Counted(t)
      BY <1>4 DEF Counted, Live, Commit, Key, TypeOK, Keys
    <2>2. Pending(t)' \subseteq Pending(t)
      BY <1>1, <1>2 DEF Pending, Placed
    <2> QED
      BY <2>1, <2>2, BoundShrinks
  <1> QED
    BY <1>3, <1>4

(* So does the row that moves in; the server that it leaves has one less.  *)
LEMMA MoveStep ==
    ASSUME TypeOK, PlacesBounded, NEW w \in Workers, Move(w)
    PROVE  PlacesBounded'
  <1> DEFINE s == job[w].srv
             u == job[w].user
             old == <<job[w].from, u>>
             new == <<s, u>>
  <1>0. s \in Servers /\ u \in Users /\ job[w].pc = "commit" /\ new = Key(w)
        /\ job[w].from \in Servers
    BY DEF Move, TypeOK, Key, Job
  <1>1. \A t \in Servers : Pending(t)' \subseteq Pending(t) \ {w}
    BY MoveJob DEF Pending, Placed
  <1>2. CASE Moved(old, new)
    <2>1. ASSUME NEW t \in Servers, NEW v \in Counted(t)', v \notin Counted(t)
          PROVE  t = s /\ v = u
      <3>1. v \in Users /\ <<t, v>> \in Keys
        BY DEF Counted, Live, Keys
      <3>2. row'[<<t, v>>] \in {"open", "suspended"} /\ <<t, v>> \notin revived'
        BY DEF Counted, Live
      <3>3. CASE <<t, v>> = new
        BY <3>3
      <3>4. CASE <<t, v>> # new
        <4>1. <<t, v>> # old
          BY <1>0, <1>2, <3>1, <3>2, <3>4 DEF Moved, TypeOK, Keys
        <4>2. row'[<<t, v>>] = row[<<t, v>>] /\ <<t, v>> \notin revived
          BY <1>0, <1>2, <3>1, <3>2, <3>4, <4>1 DEF Moved, TypeOK, Keys
        <4> QED
          BY <2>1, <3>1, <3>2, <4>2 DEF Counted, Live
      <3> QED
        BY <3>3, <3>4
    <2> SUFFICES ASSUME NEW t \in Servers
                 PROVE  Cardinality(Counted(t)') + Cardinality(Pending(t)')
                          <= MaxUsers[t] + Cardinality(Workers) - 1
      BY DEF PlacesBounded
    <2>2. CASE t = s
      <3>1. Counted(t)' \subseteq Counted(t) \cup {u}
        BY <2>1
      <3>2. w \in Pending(t)
        BY <1>0, <2>2 DEF Pending
      <3> QED
        BY <1>0, <1>1, <3>1, <3>2, TakesPlace
    <2>3. CASE t # s
      BY <1>1, <2>1, <2>3, BoundShrinks
    <2> QED
      BY <2>2, <2>3
  <1>3. CASE UNCHANGED <<row, revived>>
    <2>1. \A t \in Servers : Counted(t)' = Counted(t)
      BY <1>3 DEF Counted, Live
    <2> QED
      BY <1>1, <2>1, BoundShrinks DEF PlacesBounded
  <1> QED
    BY <1>0, <1>2, <1>3 DEF Move

(* Every step keeps the bound.                                             *)
LEMMA BoundStep == TypeOK /\ PlacesBounded /\ [Next]_vars => PlacesBounded'
  <1> SUFFICES ASSUME TypeOK, PlacesBounded, [Next]_vars PROVE PlacesBounded'
    OBVIOUS
  <1>0. ASSUME \A t \in Servers : Counted(t)' \subseteq Counted(t)
                                 /\ Pending(t)' \subseteq Pending(t)
        PROVE  PlacesBounded'
    BY <1>0, BoundShrinks DEF PlacesBounded
  <1>1. ASSUME UNCHANGED <<row, revived>> PROVE \A t \in Servers : Counted(t)' = Counted(t)
    BY <1>1 DEF Counted, Live
  <1>2. ASSUME NEW w \in Workers, Start(w) PROVE PlacesBounded'
    <2>1. UNCHANGED <<row, revived>>
      BY <1>2 DEF Start, StartCreate, StartWebhook, StartBulk, StartMove, Begin
    <2>2. \A t \in Servers : Pending(t)' \subseteq Pending(t)
      BY <1>2, QuietJob, OneJob
    <2> QED
      BY <1>0, <1>1, <2>1, <2>2
  <1>3. ASSUME NEW w \in Workers, Pick(w) \/ Scan(w) PROVE PlacesBounded'
    <2>0. job[w].pc \in {"pick", "scan"} /\ UNCHANGED <<status, row, revived>>
      BY <1>3 DEF Pick, Scan
    <2>1. CASE \E s \in Servers : HasRoom(s) /\ Chosen(w, s)
      BY <2>0, <2>1, ChosenStep
    <2>2. CASE \E j : Shape(j) /\ ~Placed(j) /\ job' = [job EXCEPT ![w] = j]
      <3>1. \A t \in Servers : Pending(t)' \subseteq Pending(t)
        BY <2>2, OneJob
      <3> QED
        BY <1>0, <1>1, <2>0, <3>1
    <2> QED
      BY <1>3, <2>1, <2>2, PickJob, ScanJob
  <1>4. ASSUME NEW w \in Workers, Refuse(w) \/ Insert(w) \/ Provision(w) PROVE PlacesBounded'
    <2>1. \A t \in Servers : Pending(t)' \subseteq Pending(t)
      BY <1>4, QuietJob, OneJob
    <2> QED
      BY <1>0, <1>1, <1>4, <2>1 DEF Refuse, Insert, Provision
  <1>5. ASSUME NEW k \in Keys, SetRow(k) PROVE PlacesBounded'
    <2>1. \A t \in Servers : Counted(t)' \subseteq Counted(t)
      <3> SUFFICES ASSUME NEW t \in Servers, NEW u \in Counted(t)' PROVE u \in Counted(t)
        OBVIOUS
      <3>1. PICK r \in {"open", "suspended", "deleted"} :
              /\ row' = [row EXCEPT ![k] = r]
              /\ revived' = IF row[k] = "deleted" /\ r # "deleted" THEN revived \cup {k}
                                                                  ELSE revived
        BY <1>5 DEF SetRow
      <3>2. u \in Users /\ row'[<<t, u>>] \in {"open", "suspended"} /\ <<t, u>> \notin revived'
        BY DEF Counted, Live
      <3>3. <<t, u>> \in Keys /\ <<t, u>> \notin revived
        BY <3>1, <3>2 DEF Keys
      <3>4. CASE <<t, u>> # k
        BY <3>1, <3>2, <3>3, <3>4 DEF TypeOK, Counted, Live
      <3>5. CASE <<t, u>> = k
        <4>1. row[k] \in {"open", "suspended", "deleted"}
          BY <1>5 DEF SetRow, TypeOK, RowState
        <4>2. row[k] # "deleted"
          BY <3>1, <3>2, <3>3, <3>5 DEF TypeOK
        <4> QED
          BY <3>2, <3>3, <3>5, <4>1, <4>2 DEF Counted, Live
      <3> QED
        BY <3>4, <3>5
    <2>2. \A t \in Servers : Pending(t)' = Pending(t)
      BY <1>5 DEF SetRow, Pending
    <2> QED
      BY <1>0, <2>1, <2>2
  <1>6. ASSUME NEW s \in Servers, SetStatus(s) PROVE PlacesBounded'
    BY <1>0, <1>6 DEF SetStatus, Counted, Live, Pending
  <1>7. CASE UNCHANGED vars
    BY <1>0, <1>7 DEF vars, Counted, Live, Pending
  <1> QED
    BY <1>2, <1>3, <1>4, <1>5, <1>6, <1>7, CommitStep, MoveStep DEF Next, Step

-----------------------------------------------------------------------------

(* The initial state satisfies both parts: nobody is placed yet.           *)
LEMMA PlacementInit == Init => TypeOK /\ PlacesBounded
  <1> SUFFICES ASSUME Init PROVE TypeOK /\ PlacesBounded
    OBVIOUS
  <1>1. TypeOK
    BY DEF Init, TypeOK, Idle, Job, PC, RowState
  <1>2. ASSUME NEW s \in Servers PROVE Counted(s) = {} /\ Pending(s) = {}
    BY DEF Init, Counted, Live, Pending, Idle, Keys
  <1>3. PlacesBounded
    <2> SUFFICES ASSUME NEW s \in Servers
                 PROVE  Cardinality(Counted(s)) + Cardinality(Pending(s))
                          <= MaxUsers[s] + Cardinality(Workers) - 1
      BY DEF PlacesBounded
    <2>1. Cardinality(Counted(s)) = 0 /\ Cardinality(Pending(s)) = 0
      BY <1>2, FS_EmptySet
    <2> QED
      BY <2>1, CountedFinite
  <1> QED
    BY <1>1, <1>3

(* The types of create_account's jobs and of the rows hold throughout, and *)
(* so does the bound with the jobs in flight.                              *)
THEOREM PlacementInvariant == Spec => [](TypeOK /\ PlacesBounded)
  <1>1. TypeOK /\ PlacesBounded /\ [Next]_vars => (TypeOK /\ PlacesBounded)'
    BY TypeStep, BoundStep
  <1> QED
    BY <1>1, PlacementInit, PTL DEF Spec

(* For any number of servers, usernames and workers, creations that race   *)
(* through pick_best_server overshoot max_users by less than the number of *)
(* workers.                                                                *)
THEOREM PlacementOvershoot == Spec => []OvershootBounded
  <1>1. TypeOK /\ PlacesBounded => OvershootBounded
    BY CountedFinite DEF PlacesBounded, OvershootBounded
  <1> QED
    BY <1>1, PlacementInvariant, PTL

-----------------------------------------------------------------------------
(* Payments: counting the orders that the accounts of a user stand for.    *)

(* The orders on the servers, each by its number                           *)
Tally(g) == UNION {{s} \X (1..g[s]) : s \in Servers}

(* An order is in the tally of its server, by its number.                  *)
LEMMA TallyElements ==
    ASSUME NEW g, NEW p
    PROVE  p \in Tally(g) <=> \E s \in Servers, n \in Nat : n \in 1..g[s] /\ p = <<s, n>>
  <1>1. ASSUME p \in Tally(g) PROVE \E s \in Servers, n \in Nat : n \in 1..g[s] /\ p = <<s, n>>
    <2>1. PICK s \in Servers : p \in {s} \X (1..g[s])
      BY <1>1 DEF Tally
    <2> QED
      BY <2>1
  <1>2. ASSUME NEW s \in Servers, NEW n \in Nat, n \in 1..g[s], p = <<s, n>> PROVE p \in Tally(g)
    <2>1. p \in {s} \X (1..g[s])
      BY <1>2
    <2> QED
      BY <2>1 DEF Tally
  <1> QED
    BY <1>1, <1>2

(* Tallies are finite.                                                     *)
LEMMA TallyFinite ==
    ASSUME NEW g \in [Servers -> Nat]
    PROVE  IsFiniteSet(Tally(g)) /\ Cardinality(Tally(g)) \in Nat
  <1> DEFINE part == [s \in Servers |-> {s} \X (1..g[s])]
             parts == {part[s] : s \in Servers}
  <1>1. IsFiniteSet(Servers)
    BY PaymentsAssumption
  <1>2. part \in Surjection(Servers, parts)
    BY DEF Surjection
  <1>3. IsFiniteSet(parts)
    BY <1>1, <1>2, FS_Surjection
  <1>4. ASSUME NEW T \in parts PROVE IsFiniteSet(T)
    <2>1. PICK s \in Servers : T = {s} \X (1..g[s])
      OBVIOUS
    <2>2. g[s] \in Int /\ 0 + 1 \in Int
      OBVIOUS
    <2>3. IsFiniteSet({s})
      BY FS_Singleton
    <2>4. IsFiniteSet(1..g[s])
      BY <2>2, FS_Interval
    <2> QED
      BY <2>1, <2>3, <2>4, FS_Product
  <1>5. IsFiniteSet(UNION parts)
    BY <1>3, <1>4, FS_UNION
  <1>6. Tally(g) = UNION parts
    BY DEF Tally
  <1> QED
    BY <1>5, <1>6, FS_CardinalityType

(* Fewer orders on each server are fewer in all.                           *)
LEMMA TallyMonotone ==
    ASSUME NEW g \in [Servers -> Nat], NEW h \in [Servers -> Nat],
           \A s \in Servers : h[s] <= g[s]
    PROVE  Cardinality(Tally(h)) <= Cardinality(Tally(g))
  <1>1. Tally(h) \subseteq Tally(g)
    <2> SUFFICES ASSUME NEW p \in Tally(h) PROVE p \in Tally(g)
      OBVIOUS
    <2>1. PICK s \in Servers, n \in Nat : n \in 1..h[s] /\ p = <<s, n>>
      BY TallyElements
    <2>2. n \in 1..g[s]
      BY <2>1
    <2> QED
      BY <2>1, <2>2, TallyElements
  <1> QED
    BY <1>1, TallyFinite, FS_Subset

(* One order more on one account                                           *)
LEMMA TallyMore ==
    ASSUME NEW g \in [Servers -> Nat], NEW h \in [Servers -> Nat], NEW s \in Servers,
           h[s] = g[s] + 1, \A t \in Servers : t # s => h[t] = g[t]
    PROVE  Cardinality(Tally(h)) = Cardinality(Tally(g)) + 1
  <1> DEFINE new == <<s, g[s] + 1>>
  <1>1. new \notin Tally(g)
    <2> SUFFICES ASSUME new \in Tally(g) PROVE FALSE
      OBVIOUS
    <2>1. PICK t \in Servers, n \in Nat : n \in 1..g[t] /\ new = <<t, n>>
      BY TallyElements
    <2>2. t = s /\ n = g[s] + 1
      BY <2>1
    <2>3. g[s] \in Nat
      OBVIOUS
    <2> QED
      BY <2>1, <2>2, <2>3
  <1>2. ASSUME NEW p PROVE p \in Tally(h) <=> p \in Tally(g) \cup {new}
    <2>1. ASSUME p \in Tally(h) PROVE p \in Tally(g) \cup {new}
      <3>1. PICK t \in Servers, n \in Nat : n \in 1..h[t] /\ p = <<t, n>>
        BY <2>1, TallyElements
      <3>2. n \in 1..g[t] \/ (t = s /\ n = g[s] + 1)
        <4>1. h[t] \in Nat /\ g[t] \in Nat /\ (t # s => h[t] = g[t])
          OBVIOUS
        <4>2. n >= 1 /\ n <= h[t]
          BY <3>1, <4>1
        <4> QED
          BY <4>1, <4>2
      <3> QED
        BY <3>1, <3>2, TallyElements
    <2>2. ASSUME p \in Tally(g) PROVE p \in Tally(h)
      <3>1. PICK t \in Servers, n \in Nat : n \in 1..g[t] /\ p = <<t, n>>
        BY <2>2, TallyElements
      <3>2. n \in 1..h[t]
        <4>1. h[t] \in Nat /\ g[t] \in Nat /\ g[t] <= h[t]
          OBVIOUS
        <4> QED
          BY <3>1, <4>1
      <3> QED
        BY <3>1, <3>2, TallyElements
    <2>3. new \in Tally(h)
      <3>1. g[s] + 1 \in 1..h[s]
        OBVIOUS
      <3> QED
        BY <3>1, TallyElements
    <2> QED
      BY <2>1, <2>2, <2>3
  <1>3. Tally(h) = Tally(g) \cup {new}
    BY <1>2
  <1> HIDE DEF new
  <1> QED
    BY <1>1, <1>3, TallyFinite, FS_AddElement

(* What was on one account is on another.                                  *)
LEMMA TallyMoved ==
    ASSUME NEW g \in [Servers -> Nat], NEW h \in [Servers -> Nat],
           NEW s \in Servers, NEW t \in Servers,
           g[t] = 0, h[t] = g[s], s # t => h[s] = 0,
           \A r \in Servers \ {s, t} : h[r] = g[r]
    PROVE  Cardinality(Tally(h)) = Cardinality(Tally(g))
  <1>1. CASE s = t
    BY <1>1, TallyMonotone, TallyFinite
  <1>2. CASE s # t
    <2> DEFINE f == [p \in Tally(g) |-> IF p[1] = s THEN <<t, p[2]>> ELSE p]
    <2>1. ASSUME NEW p \in Tally(g) PROVE f[p] \in Tally(h)
      <3>1. PICK r \in Servers, n \in Nat : n \in 1..g[r] /\ p = <<r, n>>
        BY TallyElements
      <3>2. CASE r = s
        <4>1. f[p] = <<t, n>> /\ n \in 1..h[t]
          BY <3>1, <3>2
        <4> QED
          BY <4>1, TallyElements
      <3>3. CASE r # s
        <4>1. f[p] = <<r, n>> /\ r # t
          <5>1. r # t
            BY <3>1
          <5> QED
            BY <3>1, <3>3, <5>1
        <4>2. n \in 1..h[r]
          BY <3>1, <3>3, <4>1
        <4> QED
          BY <4>1, <4>2, TallyElements
      <3> QED
        BY <3>2, <3>3
    <2>2. ASSUME NEW p \in Tally(g), NEW q \in Tally(g), f[p] = f[q] PROVE p = q
      <3>1. PICK r \in Servers, n \in Nat : n \in 1..g[r] /\ p = <<r, n>>
        BY TallyElements
      <3>2. PICK z \in Servers, m \in Nat : m \in 1..g[z] /\ q = <<z, m>>
        BY TallyElements
      <3>3. r # t /\ z # t
        BY <3>1, <3>2
      <3>4. f[p] = IF r = s THEN <<t, n>> ELSE <<r, n>>
        BY <3>1
      <3>5. f[q] = IF z = s THEN <<t, m>> ELSE <<z, m>>
        BY <3>2
      <3> QED
        BY <2>2, <3>1, <3>2, <3>3, <3>4, <3>5
    <2>3. ASSUME NEW q \in Tally(h) PROVE \E p \in Tally(g) : f[p] = q
      <3>1. PICK r \in Servers, n \in Nat : n \in 1..h[r] /\ q = <<r, n>>
        BY TallyElements
      <3>2. CASE r = t
        <4>1. <<s, n>> \in Tally(g)
          BY <3>1, <3>2, TallyElements
        <4> QED
          BY <3>1, <3>2, <4>1
      <3>3. CASE r # t
        <4>1. r # s
          BY <1>2, <3>1
        <4>2. n \in 1..g[r]
          BY <3>1, <3>3, <4>1
        <4>3. q \in Tally(g) /\ f[q] = q
          BY <3>1, <4>1, <4>2, TallyElements
        <4> QED
          BY <4>3
      <3> QED
        BY <3>2, <3>3
    <2> HIDE DEF f
    <2>4. f \in [Tally(g) -> Tally(h)]
      BY <2>1 DEF f
    <2>5. f \in Injection(Tally(g), Tally(h))
      BY <2>2, <2>4 DEF Injection, IsInjective
    <2>6. f \in Surjection(Tally(g), Tally(h))
      BY <2>3, <2>4 DEF Surjection
    <2>7. f \in Bijection(Tally(g), Tally(h))
      BY <2>5, <2>6 DEF Bijection
    <2> QED
      BY <2>7, TallyFinite, FS_Bijection DEF ExistsBijection
  <1> QED
    BY <1>1, <1>2

-----------------------------------------------------------------------------
(* Payments: what its steps find.  A key without a row has no days and is  *)
(* in nobody's hands; whoever holds a key for a new row holds it alone;    *)
(* and a worker has one thing to do.                                       *)

Vacant ==
    \A k \in Keys : row[k] = "none" =>
        days[k] = 0 /\ \A w \in Workers : ext[w] # NoExt => ext[w].key # k

Holds(w) == job[w].pc \in {"provision", "commit"} /\ job[w].from = None

HeldKeys ==
    \A w \in Workers : Holds(w) =>
        row[Key(w)] = "none" /\ \A v \in Workers : v # w /\ Holds(v) => Key(v) # Key(w)

Orderly(w) ==
    /\ job[w].pc = "idle" => job[w].todo = {}
    /\ job[w].pc # "idle" /\ job[w].from = None => job[w].user \in job[w].todo

OneThing ==
    \A w \in Workers :
        /\ Orderly(w)
        /\ ext[w] # NoExt => job[w].pc = "idle" /\ ext[w].key[2] = ext[w].home[2]

PayShape == TypeOK /\ PayTypeOK /\ Vacant /\ HeldKeys /\ OneThing

(* Initially there are no rows, jobs or orders.                            *)
LEMMA PayShapeInit == PayInit => PayShape
  <1> SUFFICES ASSUME PayInit PROVE PayShape
    OBVIOUS
  <1>1. TypeOK
    BY PlacementInit DEF PayInit
  <1>2. 0 \in 0..MaxChanges
    BY PaymentsAssumption
  <1>3. PayTypeOK
    BY <1>2 DEF PayInit, PayTypeOK
  <1>4. \A w \in Workers : job[w] = Idle /\ ext[w] = NoExt
    BY DEF PayInit, Init
  <1>5. Idle.pc = "idle" /\ Idle.todo = {}
    BY DEF Idle
  <1>6. Vacant
    BY <1>4 DEF PayInit, Vacant
  <1>7. HeldKeys /\ OneThing
    BY <1>4, <1>5 DEF HeldKeys, Holds, OneThing, Orderly
  <1> QED
    BY <1>1, <1>3, <1>6, <1>7 DEF PayShape

(* What a worker has in hand                                               *)
LEMMA ExtTypes ==
    ASSUME PayTypeOK, NEW w \in Workers, ext[w] # NoExt
    PROVE  /\ ext[w] \in Ext /\ ext[w].pc \in {"save", "call"}
           /\ ext[w].key \in Keys /\ ext[w].home \in Keys
           /\ ext[w].base \in Nat /\ ext[w].plus \in {0, 1}
           /\ ext[w].key[1] \in Servers /\ ext[w].key[2] \in Users
           /\ ext[w].home[1] \in Servers /\ ext[w].home[2] \in Users
           /\ ext[w].key = <<ext[w].key[1], ext[w].key[2]>>
           /\ ext[w].home = <<ext[w].home[1], ext[w].home[2]>>
  <1>1. ext[w] \in Ext
    BY DEF PayTypeOK
  <1>2. /\ ext[w].pc \in {"save", "call"} /\ ext[w].key \in Keys /\ ext[w].home \in Keys
        /\ ext[w].base \in Nat /\ ext[w].plus \in {0, 1}
    BY <1>1 DEF Ext
  <1> QED
    BY <1>1, <1>2 DEF Keys

(* A worker with nothing in hand is neither saving nor calling.            *)
LEMMA NothingInHand == NoExt.pc = "none"
  BY DEF NoExt

(* Whoever has a row in hand finds it.                                     *)
LEMMA InHandHasRow ==
    ASSUME PayShape, NEW w \in Workers, ext[w] # NoExt
    PROVE  row[ext[w].key] # "none"
  BY ExtTypes DEF PayShape, Vacant

-----------------------------------------------------------------------------
(* A row gets another server, by rebalance_users or by a save of an old    *)
(* instance; d is the date it has afterwards.                              *)

Transfer(w, old, new, d) ==
    /\ old \in Keys /\ new \in Keys /\ new[2] = old[2]
    /\ row[old] # "none" /\ row[new] = "none" /\ ~KeyHeld(new) /\ Moved(old, new)
    /\ days' = [days EXCEPT ![new] = d, ![old] = 0]
    /\ \/ d = days[old]
       \/ ext[w].pc = "save" /\ ext[w].key = old /\ d = ext[w].base
    /\ ext' = [Rehomed(old, new) EXCEPT ![w] = NoExt]
    /\ \/ job' = Following(old, new)
       \/ job' = [Following(old, new) EXCEPT ![w] = Idle]
    /\ UNCHANGED <<status, asked, due, clash, changes>>

(* Nothing but the worker's own hands, and maybe its row's date, changes.  *)
Resave(w) ==
    /\ ext' = [ext EXCEPT ![w] = NoExt]
    /\ \/ days' = days
       \/ ext[w].key = ext[w].home /\ days' = [days EXCEPT ![ext[w].key] = ext[w].base]
    /\ UNCHANGED <<vars, asked, due, clash, changes>>

(* The save of AccountUpdateView moves the row back to the server that it  *)
(* was loaded with, or only sets its date.                                 *)
LEMMA SaveEditKinds ==
    ASSUME PayShape, NEW w \in Workers, SaveEdit(w)
    PROVE  /\ ext[w] # NoExt
           /\ Transfer(w, ext[w].key, ext[w].home, ext[w].base) \/ Resave(w)
  <1>1. ext[w].pc = "save" /\ status' = status
    BY DEF SaveEdit
  <1>2. ext[w] # NoExt
    BY <1>1, NothingInHand
  <1>3. /\ ext[w].key \in Keys /\ ext[w].home \in Keys /\ ext[w].key[2] = ext[w].home[2]
    BY <1>2, ExtTypes DEF PayShape, OneThing
  <1>4. row[ext[w].key] # "none"
    BY <1>2, InHandHasRow
  <1>5. CASE Moved(ext[w].key, ext[w].home) /\ ext[w].key # ext[w].home
    <2>1. row' # row
      BY <1>3, <1>4, <1>5 DEF Moved, PayShape, TypeOK
    <2>2. ~KeyHeld(ext[w].home) /\ row[ext[w].home] = "none"
      BY <1>5, <2>1 DEF SaveEdit
    <2> QED
      BY <1>1, <1>2, <1>3, <1>4, <1>5, <2>1, <2>2 DEF SaveEdit, Transfer
  <1>6. CASE UNCHANGED <<row, revived, job>> /\ ext[w].key = ext[w].home
    BY <1>1, <1>2, <1>6 DEF SaveEdit, Resave, vars
  <1>7. CASE UNCHANGED <<row, revived, job, days>>
    BY <1>1, <1>2, <1>7 DEF SaveEdit, Resave, vars
  <1> QED
    BY <1>5, <1>6, <1>7 DEF SaveEdit

(* The save of rebalance_users moves the row, or finds its new key taken.  *)
LEMMA CarryKinds ==
    ASSUME PayShape, NEW w \in Workers, Carry(w)
    PROVE  /\ job'[w] = Idle /\ job[w].pc = "commit" /\ job[w].srv \in Servers
           /\ LET old == <<job[w].from, job[w].user>>
              IN  \/ Transfer(w, old, Key(w), days[old])
                  \/ UNCHANGED <<row, payVars>>
  <1> DEFINE old == <<job[w].from, job[w].user>>
             new == Key(w)
  <1>0. row \in [Keys -> RowState] /\ job \in [Workers -> Job]
    BY DEF PayShape, TypeOK
  <1>1. /\ job[w].pc = "commit" /\ job[w].from \in Servers /\ job[w].user \in Users
        /\ job[w].srv \in Servers
    BY DEF Carry, Move, PayShape, TypeOK, Job
  <1>2. old \in Keys /\ new \in Keys /\ new[2] = old[2]
    BY <1>1 DEF Keys, Key
  <1>3. job'[w] = Idle
    BY <1>0 DEF Carry, Move, Stop, Following
  <1>4. CASE row' = row
    BY <1>1, <1>3, <1>4 DEF Carry, payVars
  <1>5. CASE row' # row
    <2>1. /\ ~KeyHeld(new) /\ row[new] = "none" /\ Moved(old, new)
          /\ job' = [Following(old, new) EXCEPT ![w] = Idle]
          /\ status' = status
      BY <1>5 DEF Carry, Move
    <2>2. ext[w] = NoExt
      BY <1>1 DEF PayShape, OneThing
    <2>3. Rehomed(old, new) = [Rehomed(old, new) EXCEPT ![w] = NoExt]
      BY <2>2 DEF Rehomed
    <2>4. row[old] # "none"
      <3>1. row' = [row EXCEPT ![new] = row[old], ![old] = "none"]
        BY <2>1 DEF Moved
      <3> QED
        BY <1>0, <1>2, <1>5, <2>1, <3>1
    <2>5. /\ days' = [days EXCEPT ![new] = days[old], ![old] = 0]
          /\ ext' = Rehomed(old, new)
          /\ UNCHANGED <<asked, due, clash, changes>>
      BY <1>5 DEF Carry
    <2> QED
      BY <1>1, <1>2, <1>3, <2>1, <2>3, <2>4, <2>5 DEF Transfer
  <1> QED
    BY <1>4, <1>5

-----------------------------------------------------------------------------
(* Payments: its steps, and what each leaves of Placement's variables.     *)

(* These ride on a step of Placement.                                      *)
LEMMA Riding ==
    ASSUME \/ \E w \in Workers : Order(w) \/ Deliver(w) \/ Carry(w)
           \/ Elsewhere
    PROVE  Next
  <1>1. ASSUME NEW w \in Workers, Order(w) \/ Deliver(w) \/ Carry(w) PROVE Next
    BY <1>1 DEF Order, Deliver, Carry, Next, Start, Step
  <1>2. CASE Elsewhere
    BY <1>2 DEF Elsewhere, Next, Start, Step
  <1> QED
    BY <1>1, <1>2

(* The jobs after a row has got another server                             *)
LEMMA FollowingJobs ==
    ASSUME TypeOK, NEW w \in Workers, NEW old, NEW new \in Keys,
           \/ job' = Following(old, new)
           \/ job' = [Following(old, new) EXCEPT ![w] = Idle]
    PROVE  /\ job' \in [Workers -> Job] /\ \A v \in Workers : Shape(job'[v])
           /\ \A v \in Workers :
                \/ job'[v] = Idle
                \/ /\ job'[v].pc = job[v].pc /\ job'[v].srv = job[v].srv
                   /\ job'[v].user = job[v].user /\ job'[v].todo = job[v].todo
                   /\ job'[v].from = job[v].from
                      \/ (<<job[v].from, job[v].user>> = old /\ job'[v].from = new[1])
  <1>0. \A v \in Workers : job[v] \in Job /\ Shape(job[v])
    BY DEF TypeOK, Shape, Placed
  <1>1. new[1] \in Servers
    BY DEF Keys
  <1>2. ASSUME NEW v \in Workers, NEW t \in Servers
        PROVE  LET j == [job[v] EXCEPT !.from = t]
               IN  /\ Shape(j) /\ j.srv = job[v].srv /\ j.pc = job[v].pc
                   /\ j.user = job[v].user /\ j.todo = job[v].todo /\ j.from = t
    BY <1>0 DEF Shape, Placed, Job
  <1>3. \A v \in Workers :
           \/ job'[v] = Idle
           \/ job'[v] = job[v]
           \/ <<job[v].from, job[v].user>> = old /\ job'[v] = [job[v] EXCEPT !.from = new[1]]
    BY DEF Following
  <1>4. ASSUME NEW v \in Workers
        PROVE  /\ Shape(job'[v])
               /\ \/ job'[v] = Idle
                  \/ /\ job'[v].pc = job[v].pc /\ job'[v].srv = job[v].srv
                     /\ job'[v].user = job[v].user /\ job'[v].todo = job[v].todo
                     /\ job'[v].from = job[v].from
                        \/ (<<job[v].from, job[v].user>> = old /\ job'[v].from = new[1])
    <2>1. CASE job'[v] = Idle
      BY <2>1, IdleShape
    <2>2. CASE job'[v] = job[v]
      BY <2>2, <1>0
    <2>3. CASE <<job[v].from, job[v].user>> = old /\ job'[v] = [job[v] EXCEPT !.from = new[1]]
      BY <2>3, <1>1, <1>2
    <2> QED
      BY <1>3, <2>1, <2>2, <2>3
  <1>5. job' \in [Workers -> Job]
    BY <1>4 DEF Shape, Following
  <1> QED
    BY <1>4, <1>5

(* Every step of PayNext keeps the types of Placement.                     *)
LEMMA PayKeepsTypes ==
    ASSUME PayShape, PayNext
    PROVE  TypeOK'
  <1>0. TypeOK
    BY DEF PayShape
  <1>1. CASE [Next]_vars
    BY <1>0, <1>1, TypeStep
  <1>2. ASSUME NEW w \in Workers, StartExtend(w) \/ StartEdit(w) \/ AnswerExt(w)
        PROVE  UNCHANGED vars
    BY <1>2 DEF StartExtend, StartEdit, Load, AnswerExt
  <1>3. ASSUME NEW w \in Workers, SaveExtend(w) PROVE TypeOK'
    <2>1. row' \in [Keys -> RowState]
      BY <1>0, <1>3 DEF SaveExtend, TypeOK, RowState
    <2>2. ext[w].key \in Keys
      BY <1>3, ExtTypes, NothingInHand DEF PayShape, SaveExtend
    <2>3. revived' \subseteq Keys /\ UNCHANGED <<status, job>>
      BY <1>0, <1>3, <2>2 DEF SaveExtend, TypeOK
    <2> QED
      BY <1>0, <2>1, <2>3 DEF TypeOK
  <1>4. ASSUME NEW w \in Workers, SaveEdit(w) PROVE TypeOK'
    <2>1. ext[w] # NoExt /\ ext[w].key \in Keys /\ ext[w].home \in Keys
      BY <1>4, ExtTypes, NothingInHand DEF PayShape, SaveEdit
    <2>2. CASE UNCHANGED vars
      BY <1>1, <2>2
    <2>3. CASE Moved(ext[w].key, ext[w].home) /\ job' = Following(ext[w].key, ext[w].home)
               /\ status' = status
      <3>1. job' \in [Workers -> Job] /\ \A v \in Workers : Shape(job'[v])
        BY <1>0, <2>1, <2>3, FollowingJobs
      <3>2. row' \in [Keys -> RowState] /\ revived' \subseteq Keys
        BY <1>0, <2>1, <2>3 DEF Moved, TypeOK, RowState
      <3> QED
        BY <1>0, <2>3, <3>1, <3>2 DEF TypeOK, Shape, Placed
    <2> QED
      BY <1>4, <2>2, <2>3 DEF SaveEdit, vars
  <1> QED
    BY <1>1, <1>2, <1>3, <1>4, Riding DEF PayNext

(* What is in a worker's hands after a row has got another server          *)
LEMMA RehomedHands ==
    ASSUME PayTypeOK, NEW old, NEW new \in Keys, NEW v \in Workers,
           NEW e, e = Rehomed(old, new)[v]
    PROVE  /\ e \in Ext \cup {NoExt}
           /\ e = NoExt <=> ext[v] = NoExt
           /\ ext[v] = NoExt \/ ext[v].key # old => e = ext[v]
           /\ ext[v] # NoExt =>
                /\ e.pc = ext[v].pc /\ e.home = ext[v].home
                /\ e.base = ext[v].base /\ e.plus = ext[v].plus
                /\ e.key = IF ext[v].key = old THEN new ELSE ext[v].key
  <1>1. CASE ext[v] = NoExt \/ ext[v].key # old
    <2>1. e = ext[v]
      BY <1>1 DEF Rehomed
    <2>2. ext[v] \in Ext \cup {NoExt}
      BY DEF PayTypeOK
    <2> QED
      BY <1>1, <2>1, <2>2
  <1>2. CASE ext[v] # NoExt /\ ext[v].key = old
    <2>1. e = [ext[v] EXCEPT !.key = new]
      BY <1>2 DEF Rehomed
    <2>2. ext[v] \in Ext
      BY <1>2, ExtTypes
    <2>3. /\ e \in Ext /\ e.pc = ext[v].pc /\ e.home = ext[v].home
          /\ e.base = ext[v].base /\ e.plus = ext[v].plus /\ e.key = new
      BY <2>1, <2>2 DEF Ext
    <2>4. e.pc # "none"
      BY <2>2, <2>3 DEF Ext
    <2>5. e # NoExt
      BY <2>4, NothingInHand
    <2> QED
      BY <1>2, <2>3, <2>5
  <1> QED
    BY <1>1, <1>2

(* What Load takes in hand                                                 *)
LEMMA Loaded ==
    ASSUME PayTypeOK, NEW w \in Workers, NEW k \in Keys, NEW p \in {0, 1}, Load(w, k, p)
    PROVE  \E e \in Ext :
              /\ e = [pc |-> "save", key |-> k, home |-> k, base |-> days[k], plus |-> p]
              /\ e # NoExt /\ ext' = [ext EXCEPT ![w] = e]
              /\ row[k] # "none" /\ job[w].pc = "idle" /\ ext[w] = NoExt
              /\ UNCHANGED <<status, row, job, revived, days, due>>
  <1>1. PICK e : e = [pc |-> "save", key |-> k, home |-> k, base |-> days[k], plus |-> p]
    OBVIOUS
  <1>2. days[k] \in Nat
    BY DEF PayTypeOK
  <1>3. e \in Ext /\ e.pc = "save"
    BY <1>1, <1>2 DEF Ext
  <1>4. e # NoExt
    BY <1>3, NothingInHand
  <1> QED
    BY <1>1, <1>3, <1>4 DEF Load, Free, vars

(* A worker takes a row in hand.                                           *)
LEMMA Taking ==
    ASSUME PayTypeOK, NEW w \in Workers, StartExtend(w) \/ StartEdit(w)
    PROVE  \E k \in Keys, p \in {0, 1} :
              /\ Load(w, k, p)
              /\ \/ p = 1 /\ Ask({k[2]}) /\ UNCHANGED changes
                 \/ p = 0 /\ Change /\ UNCHANGED asked
  BY DEF StartExtend, StartEdit

(* Every step of PayNext keeps the types of its own variables.             *)
LEMMA PayKeepsPayTypes ==
    ASSUME PayShape, PayNext
    PROVE  PayTypeOK'
  <1>0. TypeOK /\ PayTypeOK
    BY DEF PayShape
  <1>a. ASSUME NEW us, Ask(us) PROVE asked' \in [Users -> Nat]
    BY <1>0, <1>a DEF Ask, PayTypeOK
  <1>b. Change => changes' \in 0..MaxChanges
    BY <1>0, PaymentsAssumption DEF Change, PayTypeOK
  <1>1. ASSUME NEW w \in Workers, StartExtend(w) \/ StartEdit(w) PROVE PayTypeOK'
    <2>1. PICK k \in Keys, p \in {0, 1} :
              /\ Load(w, k, p)
              /\ \/ p = 1 /\ Ask({k[2]}) /\ UNCHANGED changes
                 \/ p = 0 /\ Change /\ UNCHANGED asked
      BY <1>0, <1>1, Taking
    <2>2. asked' \in [Users -> Nat] /\ changes' \in 0..MaxChanges
      BY <1>0, <1>a, <1>b, <2>1 DEF PayTypeOK
    <2>3. ext' \in [Workers -> Ext \cup {NoExt}] /\ UNCHANGED <<days, due>>
      BY <1>0, <2>1, Loaded DEF PayTypeOK
    <2>4. clash' \subseteq Users
      <3>1. k[2] \in Users
        BY DEF Keys
      <3> QED
        BY <1>0, <2>1, <3>1 DEF Load, PayTypeOK
    <2> QED
      BY <1>0, <2>2, <2>3, <2>4 DEF PayTypeOK
  <1>2. ASSUME NEW w \in Workers, SaveExtend(w) PROVE PayTypeOK'
    <2>1. ext[w] # NoExt
      BY <1>2, NothingInHand DEF SaveExtend
    <2>2. Extended(ext[w]) \in Nat
      BY <1>0, <2>1, ExtTypes DEF Extended
    <2>3. days' \in [Keys -> Nat]
      BY <1>0, <1>2, <2>2 DEF SaveExtend, PayTypeOK
    <2>4. [ext[w] EXCEPT !.pc = "call"] \in Ext
      BY <1>0, <2>1, ExtTypes DEF Ext
    <2>5. ext' \in [Workers -> Ext \cup {NoExt}]
      BY <1>0, <1>2, <2>4 DEF SaveExtend, PayTypeOK
    <2> QED
      BY <1>0, <1>2, <2>3, <2>5 DEF SaveExtend, PayTypeOK
  <1>3. ASSUME NEW w \in Workers, SaveEdit(w) PROVE PayTypeOK'
    <2>1. ext[w] # NoExt
      BY <1>3, NothingInHand DEF SaveEdit
    <2>2. ext[w].base \in Nat /\ ext[w].home \in Keys /\ ext[w].key \in Keys
      BY <1>0, <2>1, ExtTypes
    <2>3. days' \in [Keys -> Nat]
      BY <1>0, <1>3, <2>2 DEF SaveEdit, PayTypeOK
    <2>4. \A v \in Workers : Rehomed(ext[w].key, ext[w].home)[v] \in Ext \cup {NoExt}
      BY <1>0, <2>2, RehomedHands
    <2>5. Rehomed(ext[w].key, ext[w].home) \in [Workers -> Ext \cup {NoExt}]
      BY <2>4 DEF Rehomed
    <2>6. ext' \in [Workers -> Ext \cup {NoExt}]
      <3>1. PICK x \in [Workers -> Ext \cup {NoExt}] : ext' = [x EXCEPT ![w] = NoExt]
        BY <1>0, <1>3, <2>5 DEF SaveEdit, PayTypeOK
      <3> QED
        BY <3>1
    <2> QED
      BY <1>0, <1>3, <2>3, <2>6 DEF SaveEdit, PayTypeOK
  <1>4. ASSUME NEW w \in Workers, AnswerExt(w) PROVE PayTypeOK'
    <2>1. due' \in [Users -> Nat]
      BY <1>0, <1>4 DEF AnswerExt, PayTypeOK
    <2> QED
      BY <1>0, <1>4, <2>1 DEF AnswerExt, PayTypeOK
  <1>5. ASSUME NEW w \in Workers, Order(w) PROVE PayTypeOK'
    BY <1>0, <1>5, <1>a DEF Order, PayTypeOK
  <1>6. ASSUME NEW w \in Workers, Deliver(w) PROVE PayTypeOK'
    <2>1. days' \in [Keys -> Nat]
      BY <1>0, <1>6 DEF Deliver, PayTypeOK
    <2>2. job[w].user \in Users
      BY <1>0, <1>6 DEF Deliver, Commit, TypeOK
    <2>3. due' \in [Users -> Nat]
      BY <1>0, <1>6, <2>2 DEF Deliver, PayTypeOK
    <2> QED
      BY <1>0, <1>6, <2>1, <2>3 DEF Deliver, PayTypeOK
  <1>7. ASSUME NEW w \in Workers, Carry(w) PROVE PayTypeOK'
    <2>1. Key(w) \in Keys /\ <<job[w].from, job[w].user>> \in Keys
      BY <1>0, <1>7 DEF Carry, Move, Key, Keys, TypeOK, Job
    <2>2. CASE UNCHANGED <<days, ext>>
      BY <1>0, <1>7, <2>2 DEF Carry, PayTypeOK
    <2>3. CASE /\ days' = [days EXCEPT ![Key(w)] = days[<<job[w].from, job[w].user>>],
                                      ![<<job[w].from, job[w].user>>] = 0]
               /\ ext' = Rehomed(<<job[w].from, job[w].user>>, Key(w))
      <3>1. days' \in [Keys -> Nat]
        BY <1>0, <2>1, <2>3 DEF PayTypeOK
      <3>2. \A v \in Workers : ext'[v] \in Ext \cup {NoExt}
        BY <1>0, <2>1, <2>3, RehomedHands
      <3>3. ext' \in [Workers -> Ext \cup {NoExt}]
        BY <2>3, <3>2 DEF Rehomed
      <3> QED
        BY <1>0, <1>7, <3>1, <3>3 DEF Carry, PayTypeOK
    <2> QED
      BY <1>7, <2>2, <2>3 DEF Carry
  <1>8. CASE Elsewhere
    BY <1>0, <1>8, <1>b DEF Elsewhere, PayTypeOK
  <1> QED
    BY <1>1, <1>2, <1>3, <1>4, <1>5, <1>6, <1>7, <1>8 DEF PayNext

(* What a step may make of the job of a worker                             *)
GoesOn(v) ==
    /\ Orderly(v)'
    /\ ext[v] # NoExt => job'[v].pc = "idle"
    /\ Holds(v)' => Insert(v) \/ (Holds(v) /\ Key(v)' = Key(v))

(* A job that is left alone goes on.                                       *)
LEMMA GoesOnQuietly ==
    ASSUME PayShape, NEW v \in Workers, job'[v] = job[v]
    PROVE  GoesOn(v)
  BY DEF PayShape, OneThing, Orderly, GoesOn, Holds, Key

(* So does one that ends.                                                  *)
LEMMA GoesOnIdle ==
    ASSUME NEW v \in Workers, job'[v] = Idle
    PROVE  GoesOn(v)
  BY DEF Idle, Orderly, GoesOn, Holds

(* A job starts where there is nothing to do, with its own user to do.     *)
LEMMA GoesOnStarted ==
    ASSUME PayShape, NEW w \in Workers, NEW v \in Workers, Start(w), Free(w)
    PROVE  GoesOn(v)
  <1>0. TypeOK
    BY DEF PayShape
  <1>1. CASE v # w
    <2>1. job'[v] = job[v]
      BY <1>0, <1>1 DEF Start, StartCreate, StartWebhook, StartBulk, StartMove, Begin, TypeOK
    <2> QED
      BY <2>1, GoesOnQuietly
  <1>2. CASE v = w /\ StartMove(w)
    <2>1. PICK k \in Keys :
            job' = [job EXCEPT ![w] = [Idle EXCEPT !.pc = "pick", !.user = k[2], !.from = k[1]]]
      BY <1>2 DEF StartMove
    <2>2. job'[v].pc = "pick" /\ job'[v].from = k[1]
      BY <1>0, <1>2, <2>1 DEF TypeOK, Idle
    <2>3. k[1] # None
      BY PlacementAssumption DEF Keys
    <2> QED
      BY <1>2, <2>2, <2>3 DEF GoesOn, Orderly, Holds, Free
  <1>3. CASE v = w /\ ~StartMove(w)
    <2>1. PICK us \in SUBSET Users, s \in Servers \cup {None} : Begin(w, us, s)
      BY <1>3 DEF Start, StartCreate, StartWebhook, StartBulk
    <2>2. PICK u \in us :
            job' = [job EXCEPT ![w] = [Idle EXCEPT !.pc = "pick", !.todo = us, !.user = u,
                                                   !.want = s]]
      BY <2>1 DEF Begin
    <2>3. job'[v].pc = "pick" /\ job'[v].user \in job'[v].todo
      BY <1>0, <1>3, <2>2 DEF TypeOK, Idle
    <2> QED
      BY <1>3, <2>3 DEF GoesOn, Orderly, Holds, Free
  <1> QED
    BY <1>1, <1>2, <1>3

(* The steps of create_account and of rebalance_users up to its save       *)
LEMMA GoesOnStep ==
    ASSUME PayShape, NEW w \in Workers, NEW v \in Workers, Step(w), ~Move(w)
    PROVE  GoesOn(v)
  <1>0. TypeOK /\ OneThing
    BY DEF PayShape
  <1>1. CASE v # w
    <2>1. job'[v] = job[v]
      BY <1>0, <1>1, JobStep DEF TypeOK
    <2> QED
      BY <2>1, GoesOnQuietly
  <1>2. CASE job'[v] = Idle
    BY <1>2, GoesOnIdle
  <1>3. ASSUME v = w, NEW s, Chosen(w, s), job[w].pc \in {"pick", "scan"} PROVE GoesOn(v)
    <2>1. /\ job'[v].pc = IF job[v].from = None THEN "insert" ELSE "provision"
          /\ job'[v].from = job[v].from /\ job'[v].user = job[v].user /\ job'[v].todo = job[v].todo
      BY <1>0, <1>3 DEF Chosen, TypeOK, Job
    <2>2. ~Holds(v)'
      BY <2>1 DEF Holds
    <2> QED
      BY <1>0, <1>3, <2>1, <2>2 DEF GoesOn, OneThing, Orderly
  <1>4. ASSUME v = w, NEW L, job' = [job EXCEPT ![w] = [job[w] EXCEPT !.pc = "scan", !.left = L]],
               job[w].pc \in {"pick", "scan"}
        PROVE  GoesOn(v)
    <2>1. /\ job'[v].pc = "scan"
          /\ job'[v].from = job[v].from /\ job'[v].user = job[v].user /\ job'[v].todo = job[v].todo
      BY <1>0, <1>4 DEF TypeOK, Job
    <2> QED
      BY <1>0, <1>4, <2>1 DEF GoesOn, OneThing, Orderly, Holds
  <1>5. CASE v = w /\ Pick(w)
    <2>1. job[w].pc = "pick"
      BY <1>5 DEF Pick
    <2>2. CASE Chosen(w, job[w].want)
      BY <1>3, <1>5, <2>1, <2>2
    <2>3. CASE job' = [job EXCEPT ![w].pc = "scan",
                                 ![w].left = {t \in Servers : status[t] = "active"}]
      <3> DEFINE L == {t \in Servers : status[t] = "active"}
      <3>1. job' = [job EXCEPT ![w] = [job[w] EXCEPT !.pc = "scan", !.left = L]]
        BY <1>0, <2>3 DEF TypeOK
      <3> HIDE DEF L
      <3> QED
        BY <1>4, <1>5, <2>1, <3>1
    <2> QED
      BY <1>5, <2>2, <2>3 DEF Pick
  <1>6. CASE v = w /\ Scan(w)
    <2>1. job[w].pc = "scan"
      BY <1>6 DEF Scan
    <2>2. PICK s \in job[w].left :
            IF HasRoom(s) THEN Chosen(w, s) ELSE job' = [job EXCEPT ![w].left = @ \ {s}]
      BY <1>6 DEF Scan
    <2>3. CASE HasRoom(s)
      BY <1>3, <1>6, <2>1, <2>2, <2>3
    <2>4. CASE ~HasRoom(s)
      <3> DEFINE L == job[w].left \ {s}
      <3>1. job' = [job EXCEPT ![w] = [job[w] EXCEPT !.left = L]]
        BY <1>0, <2>2, <2>4 DEF TypeOK
      <3>2. [job[w] EXCEPT !.left = L] = [job[w] EXCEPT !.pc = "scan", !.left = L]
        BY <1>0, <2>1 DEF TypeOK, Job
      <3> HIDE DEF L
      <3> QED
        BY <1>4, <1>6, <2>1, <3>1, <3>2
    <2> QED
      BY <2>3, <2>4
  <1>7. CASE v = w /\ Stop(w)
    <2>1. job'[v] = Idle
      BY <1>0, <1>7 DEF Stop, TypeOK
    <2> QED
      BY <2>1, <1>2
  <1>8. ASSUME v = w, NEW p \in {"provision", "commit"}, job' = [job EXCEPT ![w].pc = p],
               Insert(w) \/ Provision(w)
        PROVE  GoesOn(v)
    <2>1. /\ job'[v].pc = p /\ job'[v].srv = job[v].srv
          /\ job'[v].from = job[v].from /\ job'[v].user = job[v].user /\ job'[v].todo = job[v].todo
      BY <1>0, <1>8 DEF TypeOK, Job
    <2>2. job[w].pc \in {"insert", "provision"}
      BY <1>8 DEF Insert, Provision
    <2>3. Holds(v)' => Insert(v) \/ (Holds(v) /\ Key(v)' = Key(v))
      BY <1>8, <2>1 DEF Holds, Key, Provision
    <2> QED
      BY <1>0, <1>8, <2>1, <2>2, <2>3 DEF GoesOn, OneThing, Orderly
  <1>9. CASE v = w /\ (Refuse(w) \/ Insert(w) \/ Provision(w))
    BY <1>7, <1>8, <1>9 DEF Refuse, Insert, Provision
  <1>10. CASE v = w /\ Commit(w)
    <2>1. CASE Stop(w)
      BY <1>7, <1>10, <2>1
    <2>2. CASE ~Stop(w)
      <3> DEFINE rest == job[w].todo \ {job[w].user}
      <3>1. PICK u \in rest :
              job' = [job EXCEPT ![w] = [Idle EXCEPT !.pc = "pick", !.todo = rest, !.user = u,
                                                     !.want = job[w].want]]
        BY <1>10, <2>2 DEF Commit
      <3>2. job'[v].pc = "pick" /\ job'[v].user \in job'[v].todo
        BY <1>0, <1>10, <3>1 DEF TypeOK, Idle
      <3>3. job[v].pc = "commit"
        BY <1>10 DEF Commit
      <3> QED
        BY <1>0, <3>2, <3>3 DEF GoesOn, OneThing, Orderly, Holds
    <2> QED
      BY <2>1, <2>2
  <1> QED
    BY <1>1, <1>5, <1>6, <1>9, <1>10 DEF Step

(* The jobs on a row that has got another server                           *)
LEMMA GoesOnFollowing ==
    ASSUME PayShape, NEW w \in Workers, NEW v \in Workers, NEW old \in Keys, NEW new \in Keys,
           \/ job' = Following(old, new)
           \/ job' = [Following(old, new) EXCEPT ![w] = Idle]
    PROVE  GoesOn(v)
  <1>1. CASE job'[v] = Idle
    BY <1>1, GoesOnIdle
  <1>2. CASE job'[v] # Idle
    <2>1. /\ job'[v].pc = job[v].pc /\ job'[v].srv = job[v].srv
          /\ job'[v].user = job[v].user /\ job'[v].todo = job[v].todo
          /\ job'[v].from = job[v].from
             \/ (<<job[v].from, job[v].user>> = old /\ job'[v].from = new[1])
      BY <1>2, FollowingJobs DEF PayShape
    <2>2. job'[v].from = None <=> job[v].from = None
      <3>1. new[1] \in Servers /\ (<<job[v].from, job[v].user>> = old => job[v].from \in Servers)
        BY DEF Keys
      <3> QED
        BY <2>1, <3>1, PlacementAssumption
    <2>3. Holds(v)' => Holds(v) /\ Key(v)' = Key(v)
      BY <2>1, <2>2 DEF Holds, Key
    <2> QED
      BY <2>1, <2>2, <2>3 DEF PayShape, OneThing, Orderly, GoesOn
  <1> QED
    BY <1>1, <1>2

(* Every job goes on in an orderly way.                                    *)
LEMMA AllGoOn ==
    ASSUME PayShape, PayNext, NEW v \in Workers
    PROVE  GoesOn(v)
  <1>0. TypeOK /\ PayTypeOK
    BY DEF PayShape
  <1>1. CASE UNCHANGED job
    BY <1>1, GoesOnQuietly
  <1>2. ASSUME NEW w \in Workers, StartExtend(w) \/ StartEdit(w) \/ SaveExtend(w) \/ AnswerExt(w)
        PROVE  UNCHANGED job
    BY <1>2 DEF StartExtend, StartEdit, Load, SaveExtend, AnswerExt, vars
  <1>3. ASSUME NEW w \in Workers, SaveEdit(w) PROVE GoesOn(v)
    <2>1. ext[w].key \in Keys /\ ext[w].home \in Keys
      BY <1>0, <1>3, ExtTypes, NothingInHand DEF SaveEdit
    <2>2. UNCHANGED job \/ job' = Following(ext[w].key, ext[w].home)
      BY <1>3 DEF SaveEdit
    <2> QED
      BY <1>1, <2>1, <2>2, GoesOnFollowing
  <1>4. ASSUME NEW w \in Workers, Order(w) PROVE GoesOn(v)
    BY <1>4, GoesOnStarted DEF Order, Start
  <1>5. ASSUME NEW w \in Workers, Commit(w) PROVE GoesOn(v)
    BY <1>5, GoesOnStep DEF Step, Commit, Move
  <1>6. ASSUME NEW w \in Workers, Move(w) PROVE GoesOn(v)
    <2>1. Key(w) \in Keys /\ <<job[w].from, job[w].user>> \in Keys
      BY <1>0, <1>6 DEF Move, Key, Keys, TypeOK, Job
    <2>2. CASE job' = [Following(<<job[w].from, job[w].user>>, Key(w)) EXCEPT ![w] = Idle]
      BY <2>1, <2>2, GoesOnFollowing
    <2>3. CASE Stop(w)
      <3>1. job'[v] = job[v] \/ job'[v] = Idle
        BY <1>0, <2>3 DEF Stop, TypeOK
      <3> QED
        BY <3>1, GoesOnQuietly, GoesOnIdle
    <2> QED
      BY <1>6, <2>2, <2>3 DEF Move
  <1>7. CASE Elsewhere
    <2>1. ASSUME NEW w \in Workers, Free(w), StartMove(w) PROVE GoesOn(v)
      BY <2>1, GoesOnStarted DEF Start
    <2>2. ASSUME NEW w \in Workers, Pick(w) \/ Scan(w) \/ Refuse(w) \/ Insert(w) \/ Provision(w)
          PROVE  GoesOn(v)
      <3>1. ~Move(w)
        BY <2>2 DEF Pick, Scan, Refuse, Insert, Provision, Move
      <3> QED
        BY <2>2, <3>1, GoesOnStep DEF Step
    <2>3. CASE \/ \E k \in Keys : SetRow(k)
               \/ \E s \in Servers : SetStatus(s)
      BY <1>1, <2>3 DEF SetRow, SetStatus
    <2> QED
      BY <1>7, <2>1, <2>2, <2>3 DEF Elsewhere
  <1> QED
    BY <1>1, <1>2, <1>3, <1>4, <1>5, <1>6, <1>7 DEF PayNext, Deliver, Carry

(* Whoever holds a key for a new row still holds it alone, when no row is  *)
(* given the key by anybody else.                                          *)
LEMMA HeldKeysStay ==
    ASSUME HeldKeys, \A v \in Workers : Holds(v)' => Holds(v) /\ Key(v)' = Key(v),
           \A v \in Workers : Holds(v)' => row'[Key(v)] = "none"
    PROVE  HeldKeys'
  BY DEF HeldKeys

(* The INSERT of create_account waits for whoever holds its key, and no    *)
(* other row is given a key that is held.                                  *)
LEMMA HeldKeysStep ==
    ASSUME PayShape, PayNext
    PROVE  HeldKeys'
  <1>0. TypeOK /\ PayTypeOK /\ HeldKeys
    BY DEF PayShape
  <1>1. \A v \in Workers : Holds(v)' => Insert(v) \/ (Holds(v) /\ Key(v)' = Key(v))
    BY AllGoOn DEF GoesOn
  <1>2. \A v \in Workers : Holds(v) => KeyHeld(Key(v)) /\ row[Key(v)] = "none"
    BY <1>0 DEF HeldKeys, Holds, KeyHeld
  <1>a. \A v \in Workers : Holds(v) => Key(v) \in Keys
    BY <1>0 DEF TypeOK, Holds, Key, Keys
  <1>3. ASSUME NEW w \in Workers, Insert(w) PROVE HeldKeys'
    <2>1. \A v \in Workers : v # w => job'[v] = job[v]
      BY <1>0, <1>3 DEF Insert, Stop, TypeOK
    <2>2. Key(w)' = Key(w) \/ ~Holds(w)'
      <3>1. job'[w] = Idle \/ (job'[w].srv = job[w].srv /\ job'[w].user = job[w].user)
        BY <1>0, <1>3 DEF Insert, Stop, TypeOK, Job
      <3> QED
        BY <3>1 DEF Key, Holds, Idle
    <2>3. Holds(w)' => row[Key(w)] = "none"
      BY <1>0, <1>3 DEF Insert, Stop, TypeOK, Holds, Idle
    <2>4. \A v \in Workers : Holds(v) => Key(v) # Key(w)
      BY <1>3 DEF Insert, KeyHeld, Holds
    <2>5. \A v \in Workers : v # w => (Holds(v)' <=> Holds(v)) /\ Key(v)' = Key(v)
      BY <2>1 DEF Holds, Key
    <2>6. row' = row
      BY <1>3 DEF Insert
    <2> QED
      BY <1>0, <2>2, <2>3, <2>4, <2>5, <2>6 DEF HeldKeys
  <1>4. ASSUME \A v \in Workers : ~Insert(v),
               \A v \in Workers : Holds(v)' => row'[Key(v)] = "none"
        PROVE  HeldKeys'
    BY <1>0, <1>1, <1>4, HeldKeysStay
  <1>5. CASE (\A v \in Workers : ~Insert(v)) /\ UNCHANGED row
    BY <1>1, <1>2, <1>4, <1>5
  <1>6. ASSUME NEW w \in Workers, SaveExtend(w), \A v \in Workers : ~Insert(v) PROVE HeldKeys'
    <2>1. row[ext[w].key] # "none" /\ row' = [row EXCEPT ![ext[w].key] = "open"]
      BY <1>6, InHandHasRow, NothingInHand DEF SaveExtend
    <2>2. \A v \in Workers : Holds(v)' => row'[Key(v)] = "none"
      BY <1>1, <1>2, <1>6, <2>1
    <2> QED
      BY <1>4, <1>6, <2>2
  <1>7. ASSUME NEW w \in Workers, NEW old, NEW new \in Keys, Moved(old, new), ~KeyHeld(new),
               \A v \in Workers : ~Insert(v)
        PROVE  HeldKeys'
    <2>1. \A v \in Workers : Holds(v)' => row'[Key(v)] = "none"
      <3> SUFFICES ASSUME NEW v \in Workers, Holds(v)' PROVE row'[Key(v)] = "none"
        OBVIOUS
      <3>1. Key(v) # new /\ row[Key(v)] = "none" /\ Key(v) \in Keys
        BY <1>a, <1>1, <1>2, <1>7
      <3>2. row' = [row EXCEPT ![new] = row[old], ![old] = "none"] /\ row \in [Keys -> RowState]
        BY <1>0, <1>7 DEF Moved, TypeOK
      <3> QED
        BY <3>1, <3>2
    <2> QED
      BY <1>4, <1>7, <2>1
  <1>8. ASSUME NEW w \in Workers, Commit(w) PROVE HeldKeys'
    <2>1. Holds(w) /\ ~Holds(w)'
      BY <1>0, <1>8, CommitJob DEF Commit, Holds, Placed, TypeOK
    <2>2. \A v \in Workers : v # w => job'[v] = job[v]
      BY <1>0, <1>8, CommitJob DEF TypeOK
    <2>3. \A v \in Workers : Holds(v)' => v # w /\ Holds(v) /\ Key(v)' = Key(v)
      BY <2>1, <2>2 DEF Holds, Key
    <2>4. \A v \in Workers : Holds(v)' => row'[Key(v)] = "none"
      <3> SUFFICES ASSUME NEW v \in Workers, Holds(v)' PROVE row'[Key(v)] = "none"
        OBVIOUS
      <3>1. Key(v) # Key(w) /\ row[Key(v)] = "none" /\ Key(v) \in Keys
        BY <1>a, <1>0, <2>1, <2>3 DEF HeldKeys
      <3>2. row' = [row EXCEPT ![Key(w)] = "open"] /\ row \in [Keys -> RowState]
        BY <1>0, <1>8 DEF Commit, TypeOK
      <3> QED
        BY <3>1, <3>2
    <2> QED
      BY <1>0, <2>3, <2>4, HeldKeysStay
  <1>9. ASSUME NEW k \in Keys, SetRow(k), \A v \in Workers : ~Insert(v) PROVE HeldKeys'
    <2>1. row[k] # "none" /\ \A j \in Keys : j # k => row'[j] = row[j]
      BY <1>0, <1>9 DEF SetRow, TypeOK
    <2>2. \A v \in Workers : Holds(v)' => row'[Key(v)] = "none"
      BY <1>a, <1>1, <1>2, <1>9, <2>1
    <2> QED
      BY <1>4, <1>9, <2>2
  <1> HIDE DEF HeldKeys
  <1>10. CASE \A v \in Workers : ~Insert(v)
    <2>1. ASSUME NEW w \in Workers,
                 StartExtend(w) \/ StartEdit(w) \/ AnswerExt(w) \/ Order(w)
          PROVE  UNCHANGED row
      BY <2>1 DEF StartExtend, StartEdit, Load, AnswerExt, vars, Order, StartCreate, StartWebhook,
                  StartBulk, Begin
    <2>2. ASSUME NEW w \in Workers, SaveEdit(w) PROVE HeldKeys'
      <3>1. ext[w].home \in Keys
        BY <1>0, <2>2, ExtTypes, NothingInHand DEF SaveEdit
      <3>2. UNCHANGED row \/ (Moved(ext[w].key, ext[w].home) /\ ~KeyHeld(ext[w].home))
        BY <2>2 DEF SaveEdit
      <3> QED
        BY <1>5, <1>7, <1>10, <3>1, <3>2
    <2>3. ASSUME NEW w \in Workers, Move(w) PROVE HeldKeys'
      <3>1. Key(w) \in Keys
        BY <1>0, <2>3 DEF Move, Key, Keys, TypeOK, Job
      <3>2. UNCHANGED row \/ (Moved(<<job[w].from, job[w].user>>, Key(w)) /\ ~KeyHeld(Key(w)))
        BY <2>3 DEF Move
      <3> QED
        BY <1>5, <1>7, <1>10, <3>1, <3>2
    <2>4. ASSUME Elsewhere PROVE HeldKeys'
      <3>1. UNCHANGED row \/ \E k \in Keys : SetRow(k)
        BY <2>4 DEF Elsewhere, StartMove, Pick, Scan, Refuse, Insert, Provision, SetStatus
      <3> QED
        BY <1>5, <1>9, <1>10, <3>1
    <2> QED
      BY <1>5, <1>6, <1>8, <1>10, <2>1, <2>2, <2>3, <2>4 DEF PayNext, Deliver, Carry
  <1> QED
    BY <1>3, <1>10

(* What a transfer leaves on the keys, and in everybody's hands            *)
LEMMA TransferEffect ==
    ASSUME PayShape, NEW w \in Workers, NEW old, NEW new, NEW d, Transfer(w, old, new, d)
    PROVE  /\ old \in Keys /\ new \in Keys /\ old # new /\ old[2] = new[2]
           /\ row'[old] = "none" /\ row'[new] = row[old] /\ row[old] # "none" /\ row[new] = "none"
           /\ days'[old] = 0 /\ days'[new] = d /\ days[new] = 0
           /\ \A k \in Keys \ {old, new} : row'[k] = row[k] /\ days'[k] = days[k]
           /\ ext'[w] = NoExt
           /\ \A v \in Workers : ext'[v] # NoExt =>
                /\ v # w /\ ext[v] # NoExt
                /\ ext'[v].pc = ext[v].pc /\ ext'[v].home = ext[v].home
                /\ ext'[v].base = ext[v].base /\ ext'[v].plus = ext[v].plus
                /\ ext'[v].key = IF ext[v].key = old THEN new ELSE ext[v].key
  <1>0. row \in [Keys -> RowState] /\ days \in [Keys -> Nat] /\ PayTypeOK /\ Vacant
    BY DEF PayShape, TypeOK, PayTypeOK
  <1>1. old \in Keys /\ new \in Keys /\ old[2] = new[2] /\ row[old] # "none" /\ row[new] = "none"
    BY DEF Transfer
  <1>2. old # new
    BY <1>1
  <1>3. /\ row' = [row EXCEPT ![new] = row[old], ![old] = "none"]
        /\ days' = [days EXCEPT ![new] = d, ![old] = 0]
        /\ ext' = [Rehomed(old, new) EXCEPT ![w] = NoExt]
    BY DEF Transfer, Moved
  <1>4. /\ row'[old] = "none" /\ row'[new] = row[old]
        /\ days'[old] = 0 /\ days'[new] = d
        /\ \A k \in Keys \ {old, new} : row'[k] = row[k] /\ days'[k] = days[k]
    BY <1>0, <1>1, <1>2, <1>3
  <1>5. days[new] = 0
    BY <1>0, <1>1 DEF Vacant
  <1>6. ext'[w] = NoExt
    BY <1>3 DEF Rehomed
  <1>7. ASSUME NEW v \in Workers, ext'[v] # NoExt
        PROVE  /\ v # w /\ ext[v] # NoExt
               /\ ext'[v].pc = ext[v].pc /\ ext'[v].home = ext[v].home
               /\ ext'[v].base = ext[v].base /\ ext'[v].plus = ext[v].plus
               /\ ext'[v].key = IF ext[v].key = old THEN new ELSE ext[v].key
    <2>1. v # w
      BY <1>6, <1>7
    <2>2. ext'[v] = Rehomed(old, new)[v]
      BY <1>3, <2>1 DEF Rehomed
    <2> QED
      BY <1>0, <1>1, <1>7, <2>1, <2>2, RehomedHands
  <1> QED
    BY <1>1, <1>2, <1>4, <1>5, <1>6, <1>7

(* A transfer leaves its old key without days and in nobody's hands.       *)
LEMMA TransferKeeps ==
    ASSUME PayShape, NEW w \in Workers, NEW old, NEW new, NEW d, Transfer(w, old, new, d)
    PROVE  /\ Vacant'
           /\ \A v \in Workers :
                ext'[v] # NoExt => ext[v] # NoExt /\ ext'[v].key[2] = ext'[v].home[2]
  <1>1. Vacant'
    <2> SUFFICES ASSUME NEW k \in Keys, row'[k] = "none"
                 PROVE  days'[k] = 0 /\ \A v \in Workers : ext'[v] # NoExt => ext'[v].key # k
      BY DEF Vacant
    <2>1. k # new
      BY TransferEffect
    <2>2. CASE k = old
      BY <2>1, <2>2, TransferEffect
    <2>3. CASE k # old
      <3>1. row[k] = "none" /\ days'[k] = days[k]
        BY <2>1, <2>3, TransferEffect
      <3>2. days[k] = 0 /\ \A v \in Workers : ext[v] # NoExt => ext[v].key # k
        BY <3>1 DEF PayShape, Vacant
      <3> QED
        BY <2>1, <3>1, <3>2, TransferEffect
    <2> QED
      BY <2>2, <2>3
  <1>2. ASSUME NEW v \in Workers, ext'[v] # NoExt
        PROVE  ext[v] # NoExt /\ ext'[v].key[2] = ext'[v].home[2]
    <2>1. /\ ext[v] # NoExt /\ ext'[v].home = ext[v].home /\ old[2] = new[2]
          /\ ext'[v].key = IF ext[v].key = old THEN new ELSE ext[v].key
      BY <1>2, TransferEffect
    <2>2. ext[v].key[2] = ext[v].home[2]
      BY <2>1 DEF PayShape, OneThing
    <2> QED
      BY <2>1, <2>2
  <1> QED
    BY <1>1, <1>2

(* Every step keeps Vacant and the second half of OneThing.                *)
LEMMA HandsStep ==
    ASSUME PayShape, PayNext
    PROVE  Vacant' /\ OneThing'
  <1>0. TypeOK /\ PayTypeOK /\ Vacant /\ OneThing
    BY DEF PayShape
  <1>a. row \in [Keys -> RowState] /\ days \in [Keys -> Nat]
    BY <1>0 DEF TypeOK, PayTypeOK
  <1>1. \A v \in Workers : Orderly(v)' /\ (ext[v] # NoExt => job'[v].pc = "idle")
    BY AllGoOn DEF GoesOn
  <1>2. ASSUME \A v \in Workers :
                 ext'[v] # NoExt => ext[v] # NoExt /\ ext'[v].key[2] = ext'[v].home[2]
        PROVE  OneThing'
    BY <1>1, <1>2 DEF OneThing
  <1>3. ASSUME \A v \in Workers :
                 ext'[v] # NoExt =>
                    ext[v] # NoExt /\ ext'[v].key = ext[v].key /\ ext'[v].home = ext[v].home
        PROVE  /\ OneThing'
               /\ (\A k \in Keys : row'[k] = "none" => row[k] = "none" /\ days'[k] = days[k])
                     => Vacant'
    BY <1>0, <1>2, <1>3 DEF OneThing, Vacant
  <1> HIDE DEF OneThing, Vacant
  <1>4. CASE UNCHANGED <<row, days, ext>>
    BY <1>3, <1>4
  <1>5. ASSUME NEW w \in Workers, NEW old, NEW new, NEW d, Transfer(w, old, new, d)
        PROVE  Vacant' /\ OneThing'
    BY <1>2, <1>5, TransferKeeps
  <1>6. ASSUME NEW w \in Workers, StartExtend(w) \/ StartEdit(w) PROVE Vacant' /\ OneThing'
    <2>1. PICK k \in Keys, p \in {0, 1} : Load(w, k, p)
      BY <1>0, <1>6, Taking
    <2>2. PICK e \in Ext :
              /\ e = [pc |-> "save", key |-> k, home |-> k, base |-> days[k], plus |-> p]
              /\ e # NoExt /\ ext' = [ext EXCEPT ![w] = e]
              /\ row[k] # "none" /\ job[w].pc = "idle" /\ ext[w] = NoExt
              /\ UNCHANGED <<status, row, job, revived, days, due>>
      BY <1>0, <2>1, Loaded
    <2>3. e.key = k /\ e.home = k
      BY <2>2
    <2>4. UNCHANGED <<row, job, days>>
      BY <2>2
    <2>5. ext'[w] = e /\ \A v \in Workers : v # w => ext'[v] = ext[v]
      BY <1>0, <2>2 DEF PayTypeOK
    <2>6. Vacant'
      BY <1>0, <2>2, <2>3, <2>4, <2>5 DEF Vacant
    <2>7. OneThing'
      BY <1>0, <1>1, <2>2, <2>3, <2>4, <2>5 DEF OneThing
    <2> QED
      BY <2>6, <2>7
  <1>7. ASSUME NEW w \in Workers, SaveExtend(w) PROVE Vacant' /\ OneThing'
    <2>1. /\ ext[w] # NoExt /\ ext' = [ext EXCEPT ![w].pc = "call"]
          /\ row' = [row EXCEPT ![ext[w].key] = "open"]
          /\ days' = [days EXCEPT ![ext[w].key] = Extended(ext[w])]
      BY <1>7, NothingInHand DEF SaveExtend
    <2>2. ext[w] \in Ext
      BY <1>0, <2>1, ExtTypes
    <2>3. ext'[w].key = ext[w].key /\ ext'[w].home = ext[w].home
      BY <1>0, <2>1, <2>2 DEF Ext, PayTypeOK
    <2>4. \A v \in Workers : v # w => ext'[v] = ext[v]
      BY <1>0, <2>1 DEF PayTypeOK
    <2>5. \A k \in Keys : row'[k] = "none" => row[k] = "none" /\ days'[k] = days[k]
      BY <1>a, <2>1
    <2>6. \A v \in Workers :
             ext'[v] # NoExt =>
                ext[v] # NoExt /\ ext'[v].key = ext[v].key /\ ext'[v].home = ext[v].home
      BY <2>1, <2>3, <2>4
    <2> QED
      BY <1>3, <2>5, <2>6
  <1>8. ASSUME NEW w \in Workers, ext' = [ext EXCEPT ![w] = NoExt],
               \A k \in Keys : row'[k] = "none" => row[k] = "none" /\ days'[k] = days[k]
        PROVE  Vacant' /\ OneThing'
    <2>1. \A v \in Workers :
             ext'[v] # NoExt =>
                ext[v] # NoExt /\ ext'[v].key = ext[v].key /\ ext'[v].home = ext[v].home
      BY <1>0, <1>8 DEF PayTypeOK
    <2> QED
      BY <1>3, <1>8, <2>1
  <1>9. ASSUME NEW w \in Workers, SaveEdit(w) PROVE Vacant' /\ OneThing'
    <2>1. CASE Transfer(w, ext[w].key, ext[w].home, ext[w].base)
      BY <1>5, <2>1
    <2>2. CASE Resave(w)
      <3>1. ext[w] # NoExt
        BY <1>9, SaveEditKinds
      <3>2. row[ext[w].key] # "none"
        BY <3>1, InHandHasRow
      <3> QED
        BY <1>a, <1>8, <2>2, <3>2 DEF Resave, vars
    <2> QED
      BY <1>9, <2>1, <2>2, SaveEditKinds
  <1>10. ASSUME NEW w \in Workers, AnswerExt(w) PROVE Vacant' /\ OneThing'
    BY <1>8, <1>10 DEF AnswerExt, vars
  <1>11. ASSUME NEW w \in Workers, Order(w) PROVE UNCHANGED <<row, days, ext>>
    BY <1>11 DEF Order, StartCreate, StartWebhook, StartBulk, Begin
  <1>12. ASSUME NEW w \in Workers, Deliver(w) PROVE Vacant' /\ OneThing'
    <2>1. /\ row' = [row EXCEPT ![Key(w)] = "open"]
          /\ days' = [days EXCEPT ![Key(w)] = 1] /\ ext' = ext
      BY <1>12 DEF Deliver, Commit
    <2>2. \A k \in Keys : row'[k] = "none" => row[k] = "none" /\ days'[k] = days[k]
      BY <1>a, <2>1
    <2> QED
      BY <1>3, <2>1, <2>2
  <1>13. ASSUME NEW w \in Workers, Carry(w) PROVE Vacant' /\ OneThing'
    <2>1. CASE UNCHANGED <<row, payVars>>
      BY <1>4, <2>1 DEF payVars
    <2> QED
      BY <1>5, <1>13, <2>1, CarryKinds
  <1>14. CASE Elsewhere
    <2>1. UNCHANGED <<days, ext>>
      BY <1>14 DEF Elsewhere
    <2>2. UNCHANGED row \/ \E k \in Keys : SetRow(k)
      BY <1>14 DEF Elsewhere, StartMove, Pick, Scan, Refuse, Insert, Provision, SetStatus
    <2>3. \A k \in Keys : row'[k] = "none" => row[k] = "none" /\ days'[k] = days[k]
      BY <1>a, <2>1, <2>2 DEF SetRow
    <2> QED
      BY <1>3, <2>1, <2>3
  <1> QED
    BY <1>4, <1>6, <1>7, <1>9, <1>10, <1>11, <1>12, <1>13, <1>14 DEF PayNext

(* Every step keeps the shape of rows, jobs and instances in hand.         *)
LEMMA PayShapeStep == PayShape /\ [PayNext]_allVars => PayShape'
  <1>1. CASE PayNext
    BY <1>1, PayKeepsTypes, PayKeepsPayTypes, HeldKeysStep, HandsStep DEF PayShape
  <1>2. ASSUME UNCHANGED allVars, PayShape PROVE PayShape'
    <2>1. UNCHANGED <<status, row, job, revived, days, asked, due, ext, clash, changes>>
      BY <1>2 DEF allVars, vars, payVars
    <2>2. TypeOK' /\ PayTypeOK'
      BY <1>2, <2>1 DEF PayShape, TypeOK, PayTypeOK
    <2>3. Vacant' /\ HeldKeys' /\ OneThing'
      BY <1>2, <2>1 DEF PayShape, Vacant, HeldKeys, Holds, Key, OneThing, Orderly
    <2> QED
      BY <2>2, <2>3 DEF PayShape
  <1> QED
    BY <1>1, <1>2

-----------------------------------------------------------------------------
(* Payments: nobody gets more than was ordered.                            *)

(* The sizes of a set with one element more or less                        *)
LEMMA Sizes ==
    ASSUME NEW S, NEW T, NEW x, IsFiniteSet(S)
    PROVE  /\ Cardinality(S) \in Nat
           /\ T \subseteq S => Cardinality(T) \in Nat /\ Cardinality(T) <= Cardinality(S)
           /\ T \subseteq S \cup {x} =>
                Cardinality(T) \in Nat /\ Cardinality(T) <= Cardinality(S) + 1
           /\ T \subseteq S \ {x} /\ x \in S =>
                Cardinality(T) \in Nat /\ Cardinality(T) <= Cardinality(S) - 1
  <1>1. Cardinality(S) \in Nat
    BY FS_CardinalityType
  <1>2. ASSUME NEW U, IsFiniteSet(U), T \subseteq U
        PROVE  Cardinality(T) \in Nat /\ Cardinality(T) <= Cardinality(U)
    BY <1>2, FS_Subset, FS_CardinalityType
  <1>3. /\ IsFiniteSet(S \cup {x})
        /\ Cardinality(S \cup {x}) = IF x \in S THEN Cardinality(S) ELSE Cardinality(S) + 1
    BY FS_AddElement
  <1>4. IsFiniteSet(S \ {x})
    BY FS_RemoveElement
  <1>5. x \in S => Cardinality(S \ {x}) = Cardinality(S) - 1
    BY FS_RemoveElement
  <1>6. Cardinality(S \cup {x}) <= Cardinality(S) + 1 /\ Cardinality(S \cup {x}) \in Nat
    BY <1>1, <1>3
  <1>7. T \subseteq S \cup {x} =>
          Cardinality(T) \in Nat /\ Cardinality(T) <= Cardinality(S) + 1
    BY <1>1, <1>2, <1>3, <1>6
  <1>8. T \subseteq S \ {x} /\ x \in S =>
          Cardinality(T) \in Nat /\ Cardinality(T) <= Cardinality(S) - 1
    BY <1>2, <1>4, <1>5
  <1> QED
    BY <1>1, <1>2, <1>7, <1>8

(* The orders of a user that no row shows yet                              *)
Unsaved(u) ==
    {w \in Workers : \/ ext[w].pc = "save" /\ ext[w].plus = 1 /\ ext[w].key[2] = u
                     \/ u \in job[w].todo}

(* The orders that stand behind the days on each server: an instance that  *)
(* was loaded has no more of them than the row, wherever it is by now.     *)
Covers(u, g) ==
    /\ \A s \in Servers : days[<<s, u>>] <= g[s] /\ (row[<<s, u>>] = "none" => g[s] = 0)
    /\ \A w \in Workers : ext[w].pc = "save" /\ ext[w].key[2] = u =>
                             ext[w].base <= g[ext[w].key[1]]

Ordered(u) ==
    \E g \in [Servers -> Nat] :
        Covers(u, g) /\ Cardinality(Tally(g)) + Cardinality(Unsaved(u)) <= asked[u]

(* There are no more open orders of a user than workers.                   *)
LEMMA UnsavedFinite == \A u : IsFiniteSet(Unsaved(u)) /\ Cardinality(Unsaved(u)) \in Nat
  <1> SUFFICES ASSUME NEW u PROVE IsFiniteSet(Unsaved(u)) /\ Cardinality(Unsaved(u)) \in Nat
    OBVIOUS
  <1>1. Unsaved(u) \subseteq Workers
    BY DEF Unsaved
  <1> QED
    BY <1>1, PlacementAssumption, FS_Subset, FS_CardinalityType

(* Nothing is left to do that was not to be done, except by an order.      *)
LEMMA TodoShrinks ==
    ASSUME TypeOK, NEW v \in Workers,
           \/ UNCHANGED job
           \/ \E old \in Keys, new \in Keys : job' = Following(old, new)
           \/ \E w \in Workers : StartMove(w) \/ Step(w)
    PROVE  job'[v].todo \subseteq job[v].todo
  <1>0. Idle.todo = {}
    BY DEF Idle
  <1>1. ASSUME NEW old \in Keys, NEW new \in Keys, NEW w \in Workers,
               \/ job' = Following(old, new)
               \/ job' = [Following(old, new) EXCEPT ![w] = Idle]
        PROVE  job'[v].todo \subseteq job[v].todo
    <2>1. job'[v] = Idle \/ job'[v].todo = job[v].todo
      BY <1>1, FollowingJobs
    <2> QED
      BY <1>0, <2>1
  <1>2. ASSUME NEW w \in Workers, StartMove(w) PROVE job'[v].todo \subseteq job[v].todo
    <2>1. PICK k \in Keys :
            job' = [job EXCEPT ![w] = [Idle EXCEPT !.pc = "pick", !.user = k[2], !.from = k[1]]]
      BY <1>2 DEF StartMove
    <2>2. job'[v].todo = {} \/ job'[v] = job[v]
      BY <2>1 DEF TypeOK, Idle
    <2> QED
      BY <2>2
  <1>3. ASSUME NEW w \in Workers, Stop(w) PROVE job'[v].todo \subseteq job[v].todo
    BY <1>0, <1>3 DEF Stop, TypeOK
  <1>4. ASSUME NEW w \in Workers, Pick(w) \/ Scan(w) PROVE job'[v].todo \subseteq job[v].todo
    <2>0. job \in [Workers -> Job]
      BY DEF TypeOK
    <2>1. ASSUME NEW s, Chosen(w, s) PROVE job'[v].todo = job[v].todo
      BY <2>0, <2>1 DEF Chosen, Job
    <2>2. CASE Pick(w)
      BY <2>0, <2>1, <2>2 DEF Pick, Job
    <2>3. CASE Scan(w)
      <3>1. PICK s \in job[w].left :
              IF HasRoom(s) THEN Chosen(w, s) ELSE job' = [job EXCEPT ![w].left = @ \ {s}]
        BY <2>3 DEF Scan
      <3>2. job' = [job EXCEPT ![w].left = @ \ {s}] => job'[v].todo = job[v].todo
        BY <2>0 DEF Job
      <3> QED
        BY <2>1, <3>1, <3>2
    <2> QED
      BY <1>4, <2>2, <2>3
  <1>5. ASSUME NEW w \in Workers, Refuse(w) \/ Insert(w) \/ Provision(w)
        PROVE  job'[v].todo \subseteq job[v].todo
    BY <1>3, <1>5 DEF Refuse, Insert, Provision, TypeOK, Job
  <1>6. ASSUME NEW w \in Workers, Commit(w) PROVE job'[v].todo \subseteq job[v].todo
    <2>1. CASE Stop(w)
      BY <1>3, <2>1
    <2>2. CASE ~Stop(w)
      <3> DEFINE rest == job[w].todo \ {job[w].user}
      <3>1. PICK u \in rest :
              job' = [job EXCEPT ![w] = [Idle EXCEPT !.pc = "pick", !.todo = rest, !.user = u,
                                                     !.want = job[w].want]]
        BY <1>6, <2>2 DEF Commit
      <3>2. v # w => job'[v] = job[v]
        BY <3>1 DEF TypeOK
      <3>3. job'[w].todo = rest
        BY <3>1 DEF TypeOK, Idle
      <3> QED
        BY <3>2, <3>3
    <2> QED
      BY <2>1, <2>2
  <1>7. ASSUME NEW w \in Workers, Move(w) PROVE job'[v].todo \subseteq job[v].todo
    <2>1. Key(w) \in Keys /\ <<job[w].from, job[w].user>> \in Keys
      BY <1>7 DEF Move, Key, Keys, TypeOK, Job
    <2> QED
      BY <1>1, <1>3, <1>7, <2>1 DEF Move
  <1> QED
    BY <1>1, <1>2, <1>4, <1>5, <1>6, <1>7 DEF Step

(* A step that leaves everything covered, and adds no order or one that is *)
(* asked for, or brings one to its row                                     *)
LEMMA OrderedKept ==
    ASSUME PayShape, NEW u \in Users, NEW g \in [Servers -> Nat], NEW h \in [Servers -> Nat],
           Cardinality(Tally(g)) + Cardinality(Unsaved(u)) <= asked[u],
           Covers(u, h)', NEW w,
           \/ /\ Cardinality(Tally(h)) = Cardinality(Tally(g))
              /\ \/ Unsaved(u)' \subseteq Unsaved(u) /\ asked'[u] = asked[u]
                 \/ Unsaved(u)' \subseteq Unsaved(u) \cup {w} /\ asked'[u] = asked[u] + 1
           \/ /\ Cardinality(Tally(h)) = Cardinality(Tally(g)) + 1
              /\ Unsaved(u)' \subseteq Unsaved(u) \ {w} /\ w \in Unsaved(u)
              /\ asked'[u] = asked[u]
    PROVE  Ordered(u)'
  <1>1. asked[u] \in Nat
    BY DEF PayShape, PayTypeOK
  <1>2. Cardinality(Tally(g)) \in Nat /\ Cardinality(Tally(h)) \in Nat
    BY TallyFinite
  <1>3. IsFiniteSet(Unsaved(u)) /\ Cardinality(Unsaved(u)) \in Nat
    BY UnsavedFinite
  <1>4. PICK T : T = Unsaved(u)'
    OBVIOUS
  <1>5. Cardinality(Tally(h)) + Cardinality(T) <= asked'[u]
    <2>1. CASE Unsaved(u)' \subseteq Unsaved(u) /\ asked'[u] = asked[u]
               /\ Cardinality(Tally(h)) = Cardinality(Tally(g))
      <3>1. Cardinality(T) \in Nat /\ Cardinality(T) <= Cardinality(Unsaved(u))
        BY <1>3, <1>4, <2>1, Sizes
      <3> QED
        BY <1>1, <1>2, <1>3, <2>1, <3>1
    <2>2. CASE Unsaved(u)' \subseteq Unsaved(u) \cup {w} /\ asked'[u] = asked[u] + 1
               /\ Cardinality(Tally(h)) = Cardinality(Tally(g))
      <3>1. Cardinality(T) \in Nat /\ Cardinality(T) <= Cardinality(Unsaved(u)) + 1
        BY <1>3, <1>4, <2>2, Sizes
      <3> QED
        BY <1>1, <1>2, <1>3, <2>2, <3>1
    <2>3. CASE Unsaved(u)' \subseteq Unsaved(u) \ {w} /\ w \in Unsaved(u) /\ asked'[u] = asked[u]
               /\ Cardinality(Tally(h)) = Cardinality(Tally(g)) + 1
      <3>1. Cardinality(T) \in Nat /\ Cardinality(T) <= Cardinality(Unsaved(u)) - 1
        BY <1>3, <1>4, <2>3, Sizes
      <3> QED
        BY <1>1, <1>2, <1>3, <2>3, <3>1
    <2> QED
      BY <2>1, <2>2, <2>3
  <1>6. Cardinality(Tally(h)) + Cardinality(Unsaved(u)') <= asked'[u]
    BY <1>4, <1>5
  <1> QED
    BY <1>6 DEF Ordered, Tally

(* The same orders stand behind rows and instances that have not grown.    *)
LEMMA CoversKept ==
    ASSUME NEW u \in Users, NEW g \in [Servers -> Nat], Covers(u, g),
           \A s \in Servers : /\ days'[<<s, u>>] = days[<<s, u>>] \/ days'[<<s, u>>] <= g[s]
                              /\ row'[<<s, u>>] = "none" => row[<<s, u>>] = "none",
           \A v \in Workers : ext'[v].pc = "save" /\ ext'[v].key[2] = u =>
               \/ ext[v].pc = "save" /\ ext'[v].key = ext[v].key /\ ext'[v].base = ext[v].base
               \/ ext'[v].base <= g[ext'[v].key[1]]
    PROVE  Covers(u, g)'
  BY DEF Covers

(* An instance that is loaded is covered by its row; an extension is asked *)
(* for by the order that it serves.                                        *)
LEMMA OrderedTake ==
    ASSUME PayShape, NEW u \in Users, Ordered(u), NEW w \in Workers,
           StartExtend(w) \/ StartEdit(w)
    PROVE  Ordered(u)'
  <1>0. PayTypeOK
    BY DEF PayShape
  <1>1. PICK g \in [Servers -> Nat] :
          Covers(u, g) /\ Cardinality(Tally(g)) + Cardinality(Unsaved(u)) <= asked[u]
    BY DEF Ordered
  <1>2. PICK k \in Keys, p \in {0, 1} :
              /\ Load(w, k, p)
              /\ \/ p = 1 /\ Ask({k[2]}) /\ UNCHANGED changes
                 \/ p = 0 /\ Change /\ UNCHANGED asked
    BY <1>0, Taking
  <1>3. PICK e \in Ext :
              /\ e = [pc |-> "save", key |-> k, home |-> k, base |-> days[k], plus |-> p]
              /\ e # NoExt /\ ext' = [ext EXCEPT ![w] = e]
              /\ row[k] # "none" /\ job[w].pc = "idle" /\ ext[w] = NoExt
              /\ UNCHANGED <<status, row, job, revived, days, due>>
    BY <1>0, <1>2, Loaded
  <1>4. e.pc = "save" /\ e.key = k /\ e.base = days[k] /\ e.plus = p
    BY <1>3
  <1>5. ext'[w] = e /\ \A v \in Workers : v # w => ext'[v] = ext[v]
    BY <1>0, <1>3 DEF PayTypeOK
  <1>6. k[1] \in Servers /\ k[2] \in Users /\ k = <<k[1], k[2]>>
    BY DEF Keys
  <1>7. k[2] = u => e.base <= g[k[1]]
    BY <1>1, <1>4, <1>6 DEF Covers
  <1>8. Covers(u, g)'
    BY <1>1, <1>3, <1>4, <1>5, <1>7, CoversKept
  <1>9. Unsaved(u)' \subseteq Unsaved(u) \cup {w}
    BY <1>3, <1>5 DEF Unsaved
  <1>10. p = 0 \/ k[2] # u => Unsaved(u)' \subseteq Unsaved(u)
    BY <1>3, <1>4, <1>5 DEF Unsaved
  <1>11. p = 1 => asked'[u] = IF k[2] = u THEN asked[u] + 1 ELSE asked[u]
    BY <1>0, <1>2 DEF Ask, PayTypeOK
  <1>12. p = 0 => asked'[u] = asked[u]
    BY <1>2
  <1> QED
    BY <1>1, <1>8, <1>9, <1>10, <1>11, <1>12, OrderedKept

(* PaymentWebhookView, single and bulk creation: an order for each user    *)
LEMMA OrderedOrder ==
    ASSUME PayShape, NEW u \in Users, Ordered(u), NEW w \in Workers, Order(w)
    PROVE  Ordered(u)'
  <1>0. PayTypeOK /\ TypeOK
    BY DEF PayShape
  <1>1. PICK g \in [Servers -> Nat] :
          Covers(u, g) /\ Cardinality(Tally(g)) + Cardinality(Unsaved(u)) <= asked[u]
    BY DEF Ordered
  <1>2. PICK j : job' = [job EXCEPT ![w] = j]
    <2>1. PICK us, s : Begin(w, us, s)
      BY DEF Order, StartCreate, StartWebhook, StartBulk
    <2> QED
      BY <2>1 DEF Begin
  <1>3. UNCHANGED <<row, days, ext>> /\ Ask(job'[w].todo)
    BY DEF Order, StartCreate, StartWebhook, StartBulk, Begin
  <1>4. Covers(u, g)'
    BY <1>1, <1>3, CoversKept
  <1>5. \A v \in Workers : v # w => job'[v] = job[v]
    BY <1>0, <1>2 DEF TypeOK
  <1>6. Unsaved(u)' \subseteq Unsaved(u) \cup {w}
    BY <1>3, <1>5 DEF Unsaved
  <1>7. u \notin job'[w].todo => Unsaved(u)' \subseteq Unsaved(u)
    BY <1>3, <1>5 DEF Unsaved
  <1>8. asked'[u] = asked[u] + IF u \in job'[w].todo THEN 1 ELSE 0
    BY <1>3 DEF Ask
  <1>9. asked[u] \in Nat
    BY <1>0 DEF PayTypeOK
  <1> QED
    BY <1>1, <1>4, <1>6, <1>7, <1>8, <1>9, OrderedKept

(* SSHAccount.extend: the row, and the order that it was extended for      *)
LEMMA OrderedSave ==
    ASSUME PayShape, NEW u \in Users, Ordered(u), NEW w \in Workers, SaveExtend(w)
    PROVE  Ordered(u)'
  <1>0. PayTypeOK /\ TypeOK
    BY DEF PayShape
  <1>a. row \in [Keys -> RowState] /\ days \in [Keys -> Nat] /\ asked \in [Users -> Nat]
    BY <1>0 DEF PayTypeOK, TypeOK
  <1>1. PICK g \in [Servers -> Nat] :
          Covers(u, g) /\ Cardinality(Tally(g)) + Cardinality(Unsaved(u)) <= asked[u]
    BY DEF Ordered
  <1>2. PICK k : k = ext[w].key
    OBVIOUS
  <1>3. /\ ext[w].pc = "save" /\ ext[w].plus = 1 /\ ext[w] # NoExt
        /\ days' = [days EXCEPT ![k] = ext[w].base + 1]
        /\ row' = [row EXCEPT ![k] = "open"]
        /\ ext' = [ext EXCEPT ![w].pc = "call"]
        /\ UNCHANGED <<job, asked>>
    BY <1>2, NothingInHand DEF SaveExtend, Extended
  <1>4. /\ k \in Keys /\ k[1] \in Servers /\ k = <<k[1], k[2]>>
        /\ ext[w] \in Ext /\ ext[w].base \in Nat
    BY <1>0, <1>2, <1>3, ExtTypes
  <1>5. ext'[w].pc = "call" /\ \A v \in Workers : v # w => ext'[v] = ext[v]
    BY <1>0, <1>3, <1>4 DEF PayTypeOK, Ext
  <1>6. CASE k[2] # u
    <2>1. \A s \in Servers : days'[<<s, u>>] = days[<<s, u>>] /\ row'[<<s, u>>] = row[<<s, u>>]
      <3> SUFFICES ASSUME NEW s \in Servers
                   PROVE  days'[<<s, u>>] = days[<<s, u>>] /\ row'[<<s, u>>] = row[<<s, u>>]
        OBVIOUS
      <3>1. <<s, u>> \in Keys /\ <<s, u>> # k
        BY <1>6 DEF Keys
      <3> QED
        BY <1>a, <1>3, <3>1
    <2>2. Covers(u, g)'
      BY <1>1, <1>5, <2>1, CoversKept
    <2>3. Unsaved(u)' \subseteq Unsaved(u)
      BY <1>3, <1>5 DEF Unsaved
    <2> QED
      BY <1>1, <1>3, <2>2, <2>3, OrderedKept
  <1>7. CASE k[2] = u
    <2> DEFINE h == [g EXCEPT ![k[1]] = g[k[1]] + 1]
    <2>1. /\ h \in [Servers -> Nat] /\ h[k[1]] = g[k[1]] + 1
          /\ \A s \in Servers : s # k[1] => h[s] = g[s]
      BY <1>4
    <2> HIDE DEF h
    <2>2. \A s \in Servers : g[s] \in Nat /\ g[s] <= h[s]
      <3> SUFFICES ASSUME NEW s \in Servers PROVE g[s] \in Nat /\ g[s] <= h[s]
        OBVIOUS
      <3>1. g[s] \in Nat
        OBVIOUS
      <3> QED
        BY <2>1, <3>1
    <2>3. ext[w].base <= g[k[1]]
      BY <1>1, <1>2, <1>3, <1>7 DEF Covers
    <2>4. \A s \in Servers : days'[<<s, u>>] <= h[s] /\ (row'[<<s, u>>] = "none" => h[s] = 0)
      <3> SUFFICES ASSUME NEW s \in Servers
                   PROVE  days'[<<s, u>>] <= h[s] /\ (row'[<<s, u>>] = "none" => h[s] = 0)
        OBVIOUS
      <3>1. <<s, u>> \in Keys
        BY DEF Keys
      <3>2. CASE s = k[1]
        <4>1. <<s, u>> = k
          BY <1>4, <1>7, <3>2
        <4>2. days'[k] = ext[w].base + 1 /\ row'[k] = "open"
          BY <1>a, <1>3, <1>4
        <4>3. g[s] \in Nat
          BY <2>2
        <4> QED
          BY <1>4, <2>1, <2>3, <3>2, <4>1, <4>2, <4>3
      <3>3. CASE s # k[1]
        <4>1. <<s, u>> # k
          BY <1>4, <3>3
        <4>2. days'[<<s, u>>] = days[<<s, u>>] /\ row'[<<s, u>>] = row[<<s, u>>]
          BY <1>a, <1>3, <3>1, <4>1
        <4> QED
          BY <1>1, <2>1, <3>3, <4>2 DEF Covers
      <3> QED
        BY <3>2, <3>3
    <2>5. \A v \in Workers : ext'[v].pc = "save" /\ ext'[v].key[2] = u =>
                                ext'[v].base <= h[ext'[v].key[1]]
      <3> SUFFICES ASSUME NEW v \in Workers, ext'[v].pc = "save", ext'[v].key[2] = u
                   PROVE  ext'[v].base <= h[ext'[v].key[1]]
        OBVIOUS
      <3>1. v # w /\ ext'[v] = ext[v]
        BY <1>5
      <3>2. ext[v].base <= g[ext[v].key[1]]
        BY <1>1, <3>1 DEF Covers
      <3>3. ext[v].key[1] \in Servers /\ ext[v].base \in Nat
        BY <1>0, <3>1, ExtTypes, NothingInHand
      <3>4. /\ g[ext[v].key[1]] \in Nat /\ h[ext[v].key[1]] \in Nat
            /\ g[ext[v].key[1]] <= h[ext[v].key[1]]
        BY <2>1, <2>2, <3>3
      <3> QED
        BY <3>1, <3>2, <3>3, <3>4
    <2>6. Covers(u, h)'
      BY <2>4, <2>5 DEF Covers
    <2>7. Cardinality(Tally(h)) = Cardinality(Tally(g)) + 1
      BY <1>4, <2>1, TallyMore
    <2>8. w \in Unsaved(u)
      BY <1>2, <1>3, <1>7 DEF Unsaved
    <2>9. Unsaved(u)' \subseteq Unsaved(u) \ {w}
      <3>1. u \notin job[w].todo
        BY <1>3 DEF PayShape, OneThing, Orderly
      <3> QED
        BY <1>3, <1>5, <3>1 DEF Unsaved
    <2> QED
      BY <1>1, <1>3, <2>1, <2>6, <2>7, <2>8, <2>9, OrderedKept
  <1> QED
    BY <1>6, <1>7

(* A row that moves takes its orders with it, to a key that had none.      *)
LEMMA OrderedTransfer ==
    ASSUME PayShape, NEW u \in Users, Ordered(u), NEW w \in Workers,
           NEW old, NEW new, NEW d, Transfer(w, old, new, d)
    PROVE  Ordered(u)'
  <1>0. PayTypeOK /\ TypeOK
    BY DEF PayShape
  <1>1. PICK g \in [Servers -> Nat] :
          Covers(u, g) /\ Cardinality(Tally(g)) + Cardinality(Unsaved(u)) <= asked[u]
    BY DEF Ordered
  <1>2. /\ old \in Keys /\ new \in Keys /\ old # new /\ old[2] = new[2]
        /\ row'[old] = "none" /\ row'[new] = row[old] /\ row[old] # "none" /\ row[new] = "none"
        /\ days'[old] = 0 /\ days'[new] = d /\ days[new] = 0
        /\ \A k \in Keys \ {old, new} : row'[k] = row[k] /\ days'[k] = days[k]
    BY TransferEffect
  <1>3. /\ ext'[w] = NoExt
        /\ \A v \in Workers : ext'[v] # NoExt =>
             /\ v # w /\ ext[v] # NoExt
             /\ ext'[v].pc = ext[v].pc /\ ext'[v].home = ext[v].home
             /\ ext'[v].base = ext[v].base /\ ext'[v].plus = ext[v].plus
             /\ ext'[v].key = IF ext[v].key = old THEN new ELSE ext[v].key
    BY TransferEffect
  <1>4. /\ asked' = asked
        /\ d = days[old] \/ (ext[w].pc = "save" /\ ext[w].key = old /\ d = ext[w].base)
    BY DEF Transfer
  <1>5. /\ old[1] \in Servers /\ new[1] \in Servers
        /\ old = <<old[1], old[2]>> /\ new = <<new[1], new[2]>>
    BY <1>2 DEF Keys
  <1>6. \A v \in Workers : job'[v].todo \subseteq job[v].todo
    <2>1. Idle.todo = {}
      BY DEF Idle
    <2>2. \A v \in Workers : job'[v] = Idle \/ job'[v].todo = job[v].todo
      BY <1>0, <1>2, FollowingJobs DEF Transfer
    <2> QED
      BY <2>1, <2>2
  <1>7. Unsaved(u)' \subseteq Unsaved(u)
    <2> SUFFICES ASSUME NEW v \in Workers, v \in Unsaved(u)' PROVE v \in Unsaved(u)
      BY DEF Unsaved
    <2>1. CASE u \in job'[v].todo
      BY <1>6, <2>1 DEF Unsaved
    <2>2. CASE ext'[v].pc = "save" /\ ext'[v].plus = 1 /\ ext'[v].key[2] = u
      <3>1. ext'[v] # NoExt
        BY <2>2, NothingInHand
      <3>2. ext[v].pc = "save" /\ ext[v].plus = 1 /\ ext[v].key[2] = ext'[v].key[2]
        BY <1>2, <1>3, <2>2, <3>1
      <3> QED
        BY <2>2, <3>2 DEF Unsaved
    <2> QED
      BY <2>1, <2>2 DEF Unsaved
  <1>8. CASE old[2] # u
    <2>1. \A s \in Servers : days'[<<s, u>>] = days[<<s, u>>] /\ row'[<<s, u>>] = row[<<s, u>>]
      <3> SUFFICES ASSUME NEW s \in Servers
                   PROVE  days'[<<s, u>>] = days[<<s, u>>] /\ row'[<<s, u>>] = row[<<s, u>>]
        OBVIOUS
      <3>1. <<s, u>> \in Keys \ {old, new}
        BY <1>2, <1>8 DEF Keys
      <3> QED
        BY <1>2, <3>1
    <2>2. \A v \in Workers : ext'[v].pc = "save" /\ ext'[v].key[2] = u =>
             ext[v].pc = "save" /\ ext'[v].key = ext[v].key /\ ext'[v].base = ext[v].base
      BY <1>2, <1>3, <1>8, NothingInHand
    <2>3. Covers(u, g)'
      BY <1>1, <2>1, <2>2, CoversKept
    <2> QED
      BY <1>1, <1>4, <1>7, <2>3, OrderedKept
  <1>9. CASE old[2] = u
    <2> DEFINE h == [g EXCEPT ![new[1]] = g[old[1]], ![old[1]] = 0]
    <2>1. old[1] # new[1]
      BY <1>2, <1>5
    <2>2. /\ h \in [Servers -> Nat] /\ h[new[1]] = g[old[1]] /\ h[old[1]] = 0
          /\ \A s \in Servers \ {old[1], new[1]} : h[s] = g[s]
      BY <1>5, <2>1
    <2> HIDE DEF h
    <2>3. g[new[1]] = 0 /\ d <= g[old[1]]
      <3>1. old = <<old[1], u>> /\ new = <<new[1], u>>
        BY <1>2, <1>5, <1>9
      <3>2. g[new[1]] = 0 /\ days[old] <= g[old[1]]
        BY <1>1, <1>2, <1>5, <3>1 DEF Covers
      <3>3. ext[w].pc = "save" /\ ext[w].key = old => ext[w].base <= g[old[1]]
        BY <1>1, <1>9 DEF Covers
      <3> QED
        BY <1>4, <3>2, <3>3
    <2>4. \A s \in Servers : days'[<<s, u>>] <= h[s] /\ (row'[<<s, u>>] = "none" => h[s] = 0)
      <3> SUFFICES ASSUME NEW s \in Servers
                   PROVE  days'[<<s, u>>] <= h[s] /\ (row'[<<s, u>>] = "none" => h[s] = 0)
        OBVIOUS
      <3>1. CASE s = old[1]
        <4>1. <<s, u>> = old
          BY <1>5, <1>9, <3>1
        <4> QED
          BY <1>2, <2>2, <3>1, <4>1
      <3>2. CASE s = new[1]
        <4>1. <<s, u>> = new
          BY <1>2, <1>5, <1>9, <3>2
        <4> QED
          BY <1>2, <2>2, <2>3, <3>2, <4>1
      <3>3. CASE s \notin {old[1], new[1]}
        <4>1. <<s, u>> \in Keys \ {old, new}
          BY <1>5, <3>3 DEF Keys
        <4> QED
          BY <1>1, <1>2, <2>2, <3>3, <4>1 DEF Covers
      <3> QED
        BY <3>1, <3>2, <3>3
    <2>5. \A v \in Workers : ext'[v].pc = "save" /\ ext'[v].key[2] = u =>
                                ext'[v].base <= h[ext'[v].key[1]]
      <3> SUFFICES ASSUME NEW v \in Workers, ext'[v].pc = "save", ext'[v].key[2] = u
                   PROVE  ext'[v].base <= h[ext'[v].key[1]]
        OBVIOUS
      <3>1. ext'[v] # NoExt
        BY NothingInHand
      <3>2. /\ ext[v] # NoExt /\ ext[v].pc = "save" /\ ext'[v].base = ext[v].base
            /\ ext'[v].key = IF ext[v].key = old THEN new ELSE ext[v].key
        BY <1>3, <3>1
      <3>3. ext[v].key[2] = u
        BY <1>2, <3>2
      <3>4. ext[v].base <= g[ext[v].key[1]]
        BY <1>1, <3>2, <3>3 DEF Covers
      <3>5. ext[v].key \in Keys /\ ext[v].key[1] \in Servers /\ ext[v].key = <<ext[v].key[1], u>>
        BY <1>0, <3>2, <3>3, ExtTypes
      <3>6. CASE ext[v].key = old
        BY <2>2, <3>2, <3>4, <3>6
      <3>7. CASE ext[v].key # old
        <4>1. ext[v].key # new
          BY <1>2, <3>2, InHandHasRow
        <4>2. ext[v].key[1] \notin {old[1], new[1]}
          BY <1>2, <1>5, <1>9, <3>5, <3>7, <4>1
        <4> QED
          BY <2>2, <3>2, <3>4, <3>5, <3>7, <4>2
      <3> QED
        BY <3>6, <3>7
    <2>6. Covers(u, h)'
      BY <2>4, <2>5 DEF Covers
    <2>7. Cardinality(Tally(h)) = Cardinality(Tally(g))
      BY <1>5, <2>1, <2>2, <2>3, TallyMoved
    <2> QED
      BY <1>1, <1>4, <1>7, <2>2, <2>6, <2>7, OrderedKept
  <1> QED
    BY <1>8, <1>9

(* create_account returns: the new row is the order of its user.           *)
LEMMA OrderedDeliver ==
    ASSUME PayShape, NEW u \in Users, Ordered(u), NEW w \in Workers, Deliver(w)
    PROVE  Ordered(u)'
  <1>0. PayTypeOK /\ TypeOK
    BY DEF PayShape
  <1>a. row \in [Keys -> RowState] /\ days \in [Keys -> Nat]
    BY <1>0 DEF PayTypeOK, TypeOK
  <1>1. PICK g \in [Servers -> Nat] :
          Covers(u, g) /\ Cardinality(Tally(g)) + Cardinality(Unsaved(u)) <= asked[u]
    BY DEF Ordered
  <1>2. /\ Commit(w) /\ job[w].pc = "commit" /\ job[w].from = None /\ Holds(w)
        /\ row' = [row EXCEPT ![Key(w)] = "open"]
        /\ days' = [days EXCEPT ![Key(w)] = 1]
        /\ UNCHANGED <<asked, ext>>
    BY DEF Deliver, Commit, Holds
  <1>3. /\ Key(w) \in Keys /\ Key(w) = <<job[w].srv, job[w].user>> /\ row[Key(w)] = "none"
        /\ job[w].srv \in Servers /\ job[w].user \in Users
    BY <1>0, <1>2 DEF TypeOK, Key, Keys, PayShape, HeldKeys
  <1>4. \A v \in Workers : job'[v].todo \subseteq job[v].todo
    BY <1>0, <1>2, TodoShrinks DEF Step
  <1>5. Unsaved(u)' \subseteq Unsaved(u)
    BY <1>2, <1>4 DEF Unsaved
  <1>6. CASE job[w].user # u
    <2>1. \A s \in Servers : days'[<<s, u>>] = days[<<s, u>>] /\ row'[<<s, u>>] = row[<<s, u>>]
      <3> SUFFICES ASSUME NEW s \in Servers
                   PROVE  days'[<<s, u>>] = days[<<s, u>>] /\ row'[<<s, u>>] = row[<<s, u>>]
        OBVIOUS
      <3>1. <<s, u>> \in Keys /\ <<s, u>> # Key(w)
        BY <1>3, <1>6 DEF Keys
      <3> QED
        BY <1>a, <1>2, <3>1
    <2>2. Covers(u, g)'
      BY <1>1, <1>2, <2>1, CoversKept
    <2> QED
      BY <1>1, <1>2, <1>5, <2>2, OrderedKept
  <1>7. CASE job[w].user = u
    <2>0. PICK s0 : s0 = job[w].srv
      OBVIOUS
    <2> DEFINE h == [g EXCEPT ![s0] = g[s0] + 1]
    <2>1. h \in [Servers -> Nat] /\ h[s0] = g[s0] + 1 /\ \A s \in Servers : s # s0 => h[s] = g[s]
      BY <1>3, <2>0
    <2> HIDE DEF h
    <2>2. g[s0] = 0
      BY <1>1, <1>3, <1>7, <2>0 DEF Covers
    <2>3. \A s \in Servers : days'[<<s, u>>] <= h[s] /\ (row'[<<s, u>>] = "none" => h[s] = 0)
      <3> SUFFICES ASSUME NEW s \in Servers
                   PROVE  days'[<<s, u>>] <= h[s] /\ (row'[<<s, u>>] = "none" => h[s] = 0)
        OBVIOUS
      <3>1. CASE s = s0
        <4>1. days'[Key(w)] = 1 /\ row'[Key(w)] = "open"
          BY <1>a, <1>2, <1>3
        <4> QED
          BY <1>3, <1>7, <2>0, <2>1, <2>2, <3>1, <4>1
      <3>2. CASE s # s0
        <4>1. <<s, u>> # Key(w) /\ <<s, u>> \in Keys
          BY <1>3, <2>0, <3>2 DEF Keys
        <4>2. days'[<<s, u>>] = days[<<s, u>>] /\ row'[<<s, u>>] = row[<<s, u>>]
          BY <1>a, <1>2, <4>1
        <4> QED
          BY <1>1, <2>1, <3>2, <4>2 DEF Covers
      <3> QED
        BY <3>1, <3>2
    <2>4. \A v \in Workers : ext'[v].pc = "save" /\ ext'[v].key[2] = u =>
                                ext'[v].base <= h[ext'[v].key[1]]
      <3> SUFFICES ASSUME NEW v \in Workers, ext[v].pc = "save", ext[v].key[2] = u
                   PROVE  ext[v].base <= h[ext[v].key[1]]
        BY <1>2
      <3>1. ext[v] # NoExt
        BY NothingInHand
      <3>2. ext[v].base <= g[ext[v].key[1]]
        BY <1>1 DEF Covers
      <3>3. /\ ext[v].key[1] \in Servers /\ ext[v].key = <<ext[v].key[1], u>>
            /\ row[ext[v].key] # "none"
        BY <1>0, <3>1, ExtTypes, InHandHasRow
      <3>4. ext[v].key[1] # s0
        BY <1>3, <1>7, <2>0, <3>3
      <3> QED
        BY <2>1, <3>2, <3>3, <3>4
    <2>5. Covers(u, h)'
      BY <2>3, <2>4 DEF Covers
    <2>6. Cardinality(Tally(h)) = Cardinality(Tally(g)) + 1
      BY <1>3, <2>0, <2>1, TallyMore
    <2>7. w \in Unsaved(u)
      BY <1>2, <1>7 DEF PayShape, OneThing, Orderly, Unsaved
    <2>8. ext[w] = NoExt
      BY <1>2 DEF PayShape, OneThing
    <2>9. u \notin job'[w].todo
      <3>1. CASE Stop(w)
        BY <1>0, <3>1 DEF Stop, TypeOK, Idle
      <3>2. CASE ~Stop(w)
        <4> DEFINE rest == job[w].todo \ {job[w].user}
        <4>1. PICK x \in rest :
                job' = [job EXCEPT ![w] = [Idle EXCEPT !.pc = "pick", !.todo = rest, !.user = x,
                                                       !.want = job[w].want]]
          BY <1>2, <3>2 DEF Commit
        <4>2. job'[w].todo = rest
          BY <1>0, <4>1 DEF TypeOK, Idle
        <4> QED
          BY <1>7, <4>2
      <3> QED
        BY <3>1, <3>2
    <2>10. w \notin Unsaved(u)'
      BY <1>2, <2>8, <2>9, NothingInHand DEF Unsaved
    <2>11. Unsaved(u)' \subseteq Unsaved(u) \ {w}
      BY <1>5, <2>10
    <2> QED
      BY <1>1, <1>2, <2>1, <2>5, <2>6, <2>7, <2>11, OrderedKept
  <1> QED
    BY <1>6, <1>7

(* The steps that add nothing                                              *)
LEMMA OrderedQuiet ==
    ASSUME PayShape, NEW u \in Users, Ordered(u),
           \/ \E w \in Workers : (SaveEdit(w) /\ Resave(w)) \/ AnswerExt(w)
           \/ \E w \in Workers : Carry(w) /\ UNCHANGED <<row, payVars>>
           \/ Elsewhere
    PROVE  Ordered(u)'
  <1>0. PayTypeOK /\ TypeOK
    BY DEF PayShape
  <1>a. row \in [Keys -> RowState] /\ days \in [Keys -> Nat]
    BY <1>0 DEF PayTypeOK, TypeOK
  <1>1. PICK g \in [Servers -> Nat] :
          Covers(u, g) /\ Cardinality(Tally(g)) + Cardinality(Unsaved(u)) <= asked[u]
    BY DEF Ordered
  <1>2. ASSUME Covers(u, g)', UNCHANGED asked,
               \A v \in Workers : job'[v].todo \subseteq job[v].todo,
               \A v \in Workers : ext'[v] = ext[v] \/ ext'[v] = NoExt
        PROVE  Ordered(u)'
    <2>1. Unsaved(u)' \subseteq Unsaved(u)
      BY <1>2, NothingInHand DEF Unsaved
    <2> QED
      BY <1>1, <1>2, <2>1, OrderedKept
  <1>3. ASSUME NEW w \in Workers, SaveEdit(w), Resave(w) PROVE Ordered(u)'
    <2>1. /\ ext[w].pc = "save" /\ ext' = [ext EXCEPT ![w] = NoExt]
          /\ UNCHANGED <<row, job, asked>>
          /\ days' = days \/ days' = [days EXCEPT ![ext[w].key] = ext[w].base]
      BY <1>3 DEF SaveEdit, Resave, vars
    <2>2. ext[w].key \in Keys /\ ext[w].key = <<ext[w].key[1], ext[w].key[2]>>
      BY <1>0, <2>1, ExtTypes, NothingInHand
    <2>3. \A v \in Workers : ext'[v] = ext[v] \/ ext'[v] = NoExt
      BY <1>0, <2>1 DEF PayTypeOK
    <2>4. \A s \in Servers : days'[<<s, u>>] = days[<<s, u>>] \/ days'[<<s, u>>] <= g[s]
      <3> SUFFICES ASSUME NEW s \in Servers
                   PROVE  days'[<<s, u>>] = days[<<s, u>>] \/ days'[<<s, u>>] <= g[s]
        OBVIOUS
      <3>1. <<s, u>> \in Keys
        BY DEF Keys
      <3>2. CASE <<s, u>> = ext[w].key
        <4>1. ext[w].key[2] = u /\ ext[w].key[1] = s
          BY <3>2
        <4>2. ext[w].base <= g[s]
          BY <1>1, <2>1, <4>1 DEF Covers
        <4> QED
          BY <1>a, <2>1, <3>1, <3>2, <4>2
      <3>3. CASE <<s, u>> # ext[w].key
        BY <1>a, <2>1, <3>1, <3>3
      <3> QED
        BY <3>2, <3>3
    <2>5. Covers(u, g)'
      BY <1>1, <2>1, <2>3, <2>4, CoversKept, NothingInHand
    <2> QED
      BY <1>2, <2>1, <2>3, <2>5
  <1>4. ASSUME NEW w \in Workers, AnswerExt(w) PROVE Ordered(u)'
    <2>1. ext' = [ext EXCEPT ![w] = NoExt] /\ UNCHANGED <<row, job, days, asked>>
      BY <1>4 DEF AnswerExt, vars
    <2>2. \A v \in Workers : ext'[v] = ext[v] \/ ext'[v] = NoExt
      BY <1>0, <2>1 DEF PayTypeOK
    <2>3. Covers(u, g)'
      BY <1>1, <2>1, <2>2, CoversKept, NothingInHand
    <2> QED
      BY <1>2, <2>1, <2>2, <2>3
  <1>5. ASSUME NEW w \in Workers, Carry(w), UNCHANGED <<row, payVars>> PROVE Ordered(u)'
    <2>1. UNCHANGED <<row, days, asked, ext>>
      BY <1>5 DEF payVars
    <2>2. Covers(u, g)'
      BY <1>1, <2>1, CoversKept
    <2>3. \A v \in Workers : job'[v].todo \subseteq job[v].todo
      BY <1>0, <1>5, TodoShrinks DEF Carry, Step
    <2> QED
      BY <1>2, <2>1, <2>2, <2>3
  <1>6. ASSUME Elsewhere PROVE Ordered(u)'
    <2>1. UNCHANGED <<days, asked, ext>>
      BY <1>6 DEF Elsewhere
    <2>2. UNCHANGED row \/ \E k \in Keys : SetRow(k)
      BY <1>6 DEF Elsewhere, StartMove, Pick, Scan, Refuse, Insert, Provision, SetStatus
    <2>3. \A s \in Servers : row'[<<s, u>>] = "none" => row[<<s, u>>] = "none"
      <3> SUFFICES ASSUME NEW s \in Servers, row'[<<s, u>>] = "none" PROVE row[<<s, u>>] = "none"
        OBVIOUS
      <3>1. <<s, u>> \in Keys
        BY DEF Keys
      <3> QED
        BY <1>a, <2>2, <3>1 DEF SetRow
    <2>4. Covers(u, g)'
      BY <1>1, <2>1, <2>3, CoversKept
    <2>5. \/ UNCHANGED job
          \/ \E w \in Workers : StartMove(w) \/ Step(w)
      BY <1>6 DEF Elsewhere, Step, SetRow, SetStatus
    <2>6. \A v \in Workers : job'[v].todo \subseteq job[v].todo
      BY <1>0, <2>5, TodoShrinks
    <2> QED
      BY <1>2, <2>1, <2>4, <2>6
  <1> QED
    BY <1>3, <1>4, <1>5, <1>6

(* Every step leaves each user with no more than was ordered.              *)
LEMMA OrderedStep ==
    ASSUME PayShape, PayNext, NEW u \in Users, Ordered(u)
    PROVE  Ordered(u)'
  <1>1. ASSUME NEW w \in Workers, SaveEdit(w) PROVE Ordered(u)'
    BY <1>1, SaveEditKinds, OrderedTransfer, OrderedQuiet
  <1>2. ASSUME NEW w \in Workers, Carry(w) PROVE Ordered(u)'
    BY <1>2, CarryKinds, OrderedTransfer, OrderedQuiet
  <1> QED
    BY <1>1, <1>2, OrderedTake, OrderedOrder, OrderedSave, OrderedDeliver, OrderedQuiet DEF PayNext

-----------------------------------------------------------------------------
(* Payments: what was answered with success stays, unless two extensions   *)
(* or edits of one account overlap.                                        *)

(* What the rows of a user show                                            *)
Shown(u) == [s \in Servers |-> days[<<s, u>>]]

(* The orders that the rows of a user show, counted two ways               *)
LEMMA TallyOfDays ==
    ASSUME NEW u, NEW f
    PROVE  UNION {{s} \X (1..f[<<s, u>>]) : s \in Servers} = Tally([s \in Servers |-> f[<<s, u>>]])
  <1> DEFINE g == [s \in Servers |-> f[<<s, u>>]]
  <1>1. \A s \in Servers : {s} \X (1..f[<<s, u>>]) = {s} \X (1..g[s])
    OBVIOUS
  <1>2. {{s} \X (1..f[<<s, u>>]) : s \in Servers} = {{s} \X (1..g[s]) : s \in Servers}
    BY <1>1, Zenon
  <1> QED
    BY <1>2 DEF Tally

(* Paid counts them.                                                       *)
LEMMA PaidIsTally ==
    ASSUME NEW u
    PROVE  /\ Paid(u) = Cardinality(Tally(Shown(u)))
           /\ Paid(u)' = Cardinality(Tally(Shown(u)'))
  <1>1. Paid(u) = Cardinality(Tally(Shown(u)))
    BY TallyOfDays DEF Paid, Shown
  <1>2. Paid(u)' = Cardinality(Tally(Shown(u)'))
    BY TallyOfDays DEF Paid, Shown
  <1> QED
    BY <1>1, <1>2

(* Days are numbers.                                                       *)
LEMMA ShownTypes ==
    ASSUME PayShape, NEW u \in Users
    PROVE  /\ Shown(u) \in [Servers -> Nat] /\ Paid(u) \in Nat
           /\ \A s \in Servers : <<s, u>> \in Keys /\ Shown(u)[s] = days[<<s, u>>]
  <1>1. \A s \in Servers : <<s, u>> \in Keys
    BY DEF Keys
  <1>2. Shown(u) \in [Servers -> Nat] /\ \A s \in Servers : Shown(u)[s] = days[<<s, u>>]
    BY <1>1 DEF PayShape, PayTypeOK, Shown
  <1> QED
    BY <1>1, <1>2, PaidIsTally, TallyFinite

(* The extensions of a user that are saved and not yet answered            *)
Calls(u) == {w \in Workers : ext[w].pc = "call" /\ ext[w].key[2] = u}

(* The instances of the accounts of a user that are about to be saved are  *)
(* those of different rows, and not older than these.                      *)
Current(u) ==
    \A w \in Workers : ext[w].pc = "save" /\ ext[w].key[2] = u =>
        /\ ext[w].base = days[ext[w].key]
        /\ \A v \in Workers : v # w /\ ext[v].pc = "save" => ext[v].key # ext[w].key

Settled(u) ==
    u \notin clash => Current(u) /\ due[u] + Cardinality(Calls(u)) <= Paid(u)

(* There are no more open calls for a user than workers.                   *)
LEMMA CallsFinite == \A u : IsFiniteSet(Calls(u)) /\ Cardinality(Calls(u)) \in Nat
  <1> SUFFICES ASSUME NEW u PROVE IsFiniteSet(Calls(u)) /\ Cardinality(Calls(u)) \in Nat
    OBVIOUS
  <1>1. Calls(u) \subseteq Workers
    BY DEF Calls
  <1> QED
    BY <1>1, PlacementAssumption, FS_Subset, FS_CardinalityType

(* A step that keeps what the rows show, or adds the order of the call     *)
(* that it begins or of the answer that it gives                           *)
LEMMA SettledKept ==
    ASSUME PayShape, NEW u \in Users, Settled(u), u \notin clash' => u \notin clash /\ Current(u)',
           NEW w, NEW n, n = Paid(u)',
           u \notin clash' =>
             \/ /\ n = Paid(u)
                /\ \/ Calls(u)' \subseteq Calls(u) /\ due'[u] = due[u]
                   \/ /\ Calls(u)' \subseteq Calls(u) \ {w} /\ w \in Calls(u)
                      /\ due'[u] \in {due[u], due[u] + 1}
             \/ /\ n = Paid(u) + 1
                /\ \/ Calls(u)' \subseteq Calls(u) \cup {w} /\ due'[u] = due[u]
                   \/ Calls(u)' \subseteq Calls(u) /\ due'[u] = due[u] + 1
    PROVE  Settled(u)'
  <1> SUFFICES ASSUME u \notin clash'
               PROVE  Current(u)' /\ due'[u] + Cardinality(Calls(u)') <= n
    BY DEF Settled
  <1>1. due[u] \in Nat
    BY DEF PayShape, PayTypeOK
  <1>2. Paid(u) \in Nat
    BY ShownTypes
  <1>3. IsFiniteSet(Calls(u)) /\ Cardinality(Calls(u)) \in Nat
    BY CallsFinite
  <1>4. due[u] + Cardinality(Calls(u)) <= Paid(u)
    BY DEF Settled
  <1>5. PICK T : T = Calls(u)'
    OBVIOUS
  <1>6. CASE T \subseteq Calls(u) /\ due'[u] = due[u] /\ n = Paid(u)
    <2>1. Cardinality(T) \in Nat /\ Cardinality(T) <= Cardinality(Calls(u))
      BY <1>3, <1>6, Sizes
    <2> QED
      BY <1>1, <1>2, <1>3, <1>4, <1>5, <1>6, <2>1
  <1>7. CASE T \subseteq Calls(u) \ {w} /\ w \in Calls(u) /\ due'[u] \in {due[u], due[u] + 1}
             /\ n = Paid(u)
    <2>1. Cardinality(T) \in Nat /\ Cardinality(T) <= Cardinality(Calls(u)) - 1
      BY <1>3, <1>7, Sizes
    <2> QED
      BY <1>1, <1>2, <1>3, <1>4, <1>5, <1>7, <2>1
  <1>8. CASE T \subseteq Calls(u) \cup {w} /\ due'[u] = due[u] /\ n = Paid(u) + 1
    <2>1. Cardinality(T) \in Nat /\ Cardinality(T) <= Cardinality(Calls(u)) + 1
      BY <1>3, <1>8, Sizes
    <2> QED
      BY <1>1, <1>2, <1>3, <1>4, <1>5, <1>8, <2>1
  <1>9. CASE T \subseteq Calls(u) /\ due'[u] = due[u] + 1 /\ n = Paid(u) + 1
    <2>1. Cardinality(T) \in Nat /\ Cardinality(T) <= Cardinality(Calls(u))
      BY <1>3, <1>9, Sizes
    <2> QED
      BY <1>1, <1>2, <1>3, <1>4, <1>5, <1>9, <2>1
  <1> QED
    BY <1>5, <1>6, <1>7, <1>8, <1>9

(* The days of a user, when a step leaves them, adds one order, or moves   *)
(* the account                                                             *)
LEMMA PaidSame ==
    ASSUME NEW u \in Users, \A s \in Servers : days'[<<s, u>>] = days[<<s, u>>]
    PROVE  Paid(u)' = Paid(u)
  <1>1. Shown(u)' = Shown(u)
    BY DEF Shown
  <1> QED
    BY <1>1, PaidIsTally

(* One order more                                                          *)
LEMMA PaidMore ==
    ASSUME PayShape, PayShape', NEW u \in Users, NEW s \in Servers,
           days'[<<s, u>>] = days[<<s, u>>] + 1,
           \A t \in Servers : t # s => days'[<<t, u>>] = days[<<t, u>>]
    PROVE  Paid(u)' = Paid(u) + 1
  <1>1. PICK g, h : g = Shown(u) /\ h = Shown(u)'
    OBVIOUS
  <1>2. g \in [Servers -> Nat] /\ \A t \in Servers : g[t] = days[<<t, u>>]
    BY <1>1, ShownTypes
  <1>3. h = [t \in Servers |-> days'[<<t, u>>]]
    BY <1>1 DEF Shown
  <1>4. days' \in [Keys -> Nat] /\ \A t \in Servers : <<t, u>> \in Keys
    BY ShownTypes DEF PayShape, PayTypeOK
  <1>5. h \in [Servers -> Nat] /\ \A t \in Servers : h[t] = days'[<<t, u>>]
    BY <1>3, <1>4
  <1>6. Cardinality(Tally(h)) = Cardinality(Tally(g)) + 1
    <2>1. h[s] = g[s] + 1 /\ \A t \in Servers : t # s => h[t] = g[t]
      BY <1>2, <1>5
    <2>2. g \in [Servers -> Nat] /\ h \in [Servers -> Nat]
      BY <1>2, <1>5
    <2> QED
      BY <2>1, <2>2, TallyMore
  <1> QED
    BY <1>1, <1>6, PaidIsTally

(* Another server                                                          *)
LEMMA PaidMoved ==
    ASSUME PayShape, PayShape', NEW u \in Users, NEW s \in Servers, NEW t \in Servers, s # t,
           days[<<t, u>>] = 0, days'[<<t, u>>] = days[<<s, u>>], days'[<<s, u>>] = 0,
           \A r \in Servers \ {s, t} : days'[<<r, u>>] = days[<<r, u>>]
    PROVE  Paid(u)' = Paid(u)
  <1>1. PICK g, h : g = Shown(u) /\ h = Shown(u)'
    OBVIOUS
  <1>2. g \in [Servers -> Nat] /\ \A r \in Servers : g[r] = days[<<r, u>>]
    BY <1>1, ShownTypes
  <1>3. h = [r \in Servers |-> days'[<<r, u>>]]
    BY <1>1 DEF Shown
  <1>4. days' \in [Keys -> Nat] /\ \A r \in Servers : <<r, u>> \in Keys
    BY ShownTypes DEF PayShape, PayTypeOK
  <1>5. h \in [Servers -> Nat] /\ \A r \in Servers : h[r] = days'[<<r, u>>]
    BY <1>3, <1>4
  <1>6. Cardinality(Tally(h)) = Cardinality(Tally(g))
    <2>1. g[t] = 0 /\ h[t] = g[s] /\ h[s] = 0 /\ \A r \in Servers \ {s, t} : h[r] = g[r]
      BY <1>2, <1>5
    <2>2. g \in [Servers -> Nat] /\ h \in [Servers -> Nat]
      BY <1>2, <1>5
    <2> QED
      BY <2>1, <2>2, TallyMoved
  <1> QED
    BY <1>1, <1>6, PaidIsTally

(* What is settled stays settled when nothing of the user's changes but    *)
(* instances that are dropped.                                             *)
LEMMA SettledUntouched ==
    ASSUME PayShape, NEW u \in Users, Settled(u), UNCHANGED clash, due'[u] = due[u],
           \A s \in Servers : days'[<<s, u>>] = days[<<s, u>>],
           \A v \in Workers :
              (ext'[v].pc = "save" \/ (ext'[v].pc = "call" /\ ext'[v].key[2] = u))
                 => ext'[v] = ext[v]
    PROVE  Settled(u)'
  <1>1. Calls(u)' \subseteq Calls(u)
    BY DEF Calls
  <1>2. Paid(u)' = Paid(u)
    BY PaidSame
  <1>3. ASSUME u \notin clash' PROVE Current(u)'
    <2>0. Current(u)
      BY <1>3 DEF Settled
    <2> SUFFICES ASSUME NEW w \in Workers, ext'[w].pc = "save", ext'[w].key[2] = u
                 PROVE  /\ ext'[w].base = days'[ext'[w].key]
                        /\ \A v \in Workers : v # w /\ ext'[v].pc = "save" =>
                                                 ext'[v].key # ext'[w].key
      BY DEF Current
    <2>1. ext'[w] = ext[w] /\ ext[w] # NoExt
      BY NothingInHand
    <2>2. PICK s \in Servers : ext[w].key = <<s, u>>
      BY <2>1, ExtTypes DEF PayShape
    <2>3. days'[ext[w].key] = days[ext[w].key]
      BY <2>2
    <2>4. /\ ext[w].base = days[ext[w].key]
          /\ \A v \in Workers : v # w /\ ext[v].pc = "save" => ext[v].key # ext[w].key
      BY <2>0, <2>1 DEF Current
    <2> QED
      BY <2>1, <2>3, <2>4
  <1> QED
    BY <1>1, <1>2, <1>3, SettledKept

(* Loading an instance of a row that nobody is about to save; otherwise    *)
(* the two overlap.                                                        *)
LEMMA SettledTake ==
    ASSUME PayShape, NEW u \in Users, Settled(u), NEW w \in Workers,
           StartExtend(w) \/ StartEdit(w)
    PROVE  Settled(u)'
  <1>0. PayTypeOK
    BY DEF PayShape
  <1>2. PICK k \in Keys, p \in {0, 1} : Load(w, k, p)
    BY <1>0, Taking
  <1>3. PICK e \in Ext :
              /\ e = [pc |-> "save", key |-> k, home |-> k, base |-> days[k], plus |-> p]
              /\ e # NoExt /\ ext' = [ext EXCEPT ![w] = e]
              /\ row[k] # "none" /\ job[w].pc = "idle" /\ ext[w] = NoExt
              /\ UNCHANGED <<status, row, job, revived, days, due>>
    BY <1>0, <1>2, Loaded
  <1>4. e.pc = "save" /\ e.key = k /\ e.base = days[k]
    BY <1>3
  <1>5. ext'[w] = e /\ \A v \in Workers : v # w => ext'[v] = ext[v]
    BY <1>0, <1>3 DEF PayTypeOK
  <1>6. /\ u \notin clash' => u \notin clash
        /\ u \notin clash' /\ k[2] = u => \A v \in Workers : ext[v].pc = "save" => ext[v].key # k
    BY <1>2 DEF Load
  <1>7. Paid(u)' = Paid(u)
    BY <1>3, PaidSame
  <1>8. Calls(u)' \subseteq Calls(u)
    BY <1>4, <1>5 DEF Calls
  <1>9. ASSUME u \notin clash' PROVE Current(u)'
    <2>0. Current(u)
      BY <1>6, <1>9 DEF Settled
    <2> SUFFICES ASSUME NEW x \in Workers, ext'[x].pc = "save", ext'[x].key[2] = u
                 PROVE  /\ ext'[x].base = days'[ext'[x].key]
                        /\ \A v \in Workers : v # x /\ ext'[v].pc = "save" =>
                                                 ext'[v].key # ext'[x].key
      BY DEF Current
    <2>1. CASE x = w
      BY <1>3, <1>4, <1>5, <1>6, <1>9, <2>1
    <2>2. CASE x # w
      <3>1. ext'[x] = ext[x]
        BY <1>5, <2>2
      <3>2. /\ ext[x].base = days[ext[x].key]
            /\ \A v \in Workers : v # x /\ ext[v].pc = "save" => ext[v].key # ext[x].key
        BY <2>0, <3>1 DEF Current
      <3>3. ext[x].key # k
        BY <1>6, <1>9, <3>1
      <3> QED
        BY <1>3, <1>4, <1>5, <3>1, <3>2, <3>3
    <2> QED
      BY <2>1, <2>2
  <1> QED
    BY <1>3, <1>6, <1>7, <1>8, <1>9, SettledKept

(* SSHAccount.extend adds to the date that the row has.                    *)
LEMMA SettledSave ==
    ASSUME PayShape, PayShape', NEW u \in Users, Settled(u), NEW w \in Workers, SaveExtend(w)
    PROVE  Settled(u)'
  <1>0. PayTypeOK
    BY DEF PayShape
  <1>a. days \in [Keys -> Nat]
    BY <1>0 DEF PayTypeOK
  <1>1. PICK k : k = ext[w].key
    OBVIOUS
  <1>2. /\ ext[w].pc = "save" /\ ext[w] # NoExt
        /\ days' = [days EXCEPT ![k] = ext[w].base + 1]
        /\ ext' = [ext EXCEPT ![w].pc = "call"]
        /\ UNCHANGED <<due, clash>>
    BY <1>1, NothingInHand DEF SaveExtend, Extended
  <1>3. k \in Keys /\ k[1] \in Servers /\ k = <<k[1], k[2]>> /\ ext[w] \in Ext
    BY <1>0, <1>1, <1>2, ExtTypes
  <1>4. /\ ext'[w].pc = "call" /\ ext'[w].key = k
        /\ \A v \in Workers : v # w => ext'[v] = ext[v]
    BY <1>0, <1>1, <1>2, <1>3 DEF PayTypeOK, Ext
  <1>5. \A s \in Servers : <<s, u>> \in Keys
    BY DEF Keys
  <1>6. CASE k[2] # u
    <2>1. \A s \in Servers : days'[<<s, u>>] = days[<<s, u>>]
      BY <1>a, <1>2, <1>5, <1>6
    <2> QED
      BY <1>2, <1>4, <1>6, <2>1, SettledUntouched
  <1>7. CASE k[2] = u /\ u \notin clash
    <2>0. Current(u)
      BY <1>7 DEF Settled
    <2>1. ext[w].base = days[k] /\ \A v \in Workers : v # w /\ ext[v].pc = "save" => ext[v].key # k
      BY <1>1, <1>2, <1>7, <2>0 DEF Current
    <2>2. days'[k] = days[k] + 1 /\ \A j \in Keys : j # k => days'[j] = days[j]
      BY <1>a, <1>2, <1>3, <2>1
    <2>3. k = <<k[1], u>>
      BY <1>3, <1>7
    <2>4. \A t \in Servers : t # k[1] => days'[<<t, u>>] = days[<<t, u>>]
      <3> SUFFICES ASSUME NEW t \in Servers, t # k[1] PROVE days'[<<t, u>>] = days[<<t, u>>]
        OBVIOUS
      <3>1. <<t, u>> # k
        BY <1>3
      <3> QED
        BY <1>5, <2>2, <3>1
    <2>5. Paid(u)' = Paid(u) + 1
      <3>1. days'[<<k[1], u>>] = days[<<k[1], u>>] + 1
        BY <2>2, <2>3
      <3> QED
        BY <1>3, <2>4, <3>1, PaidMore
    <2>6. Calls(u)' \subseteq Calls(u) \cup {w}
      BY <1>4 DEF Calls
    <2>7. Current(u)'
      <3> SUFFICES ASSUME NEW x \in Workers, ext'[x].pc = "save", ext'[x].key[2] = u
                   PROVE  /\ ext'[x].base = days'[ext'[x].key]
                          /\ \A v \in Workers : v # x /\ ext'[v].pc = "save" =>
                                                   ext'[v].key # ext'[x].key
        BY DEF Current
      <3>1. x # w /\ ext'[x] = ext[x]
        BY <1>4
      <3>2. /\ ext[x].base = days[ext[x].key]
            /\ \A v \in Workers : v # x /\ ext[v].pc = "save" => ext[v].key # ext[x].key
        BY <2>0, <3>1 DEF Current
      <3>3. ext[x].key \in Keys
        BY <1>0, <3>1, ExtTypes, NothingInHand
      <3>4. ext[x].key # k
        BY <2>1, <3>1
      <3>5. days'[ext[x].key] = days[ext[x].key]
        BY <2>2, <3>3, <3>4
      <3> QED
        BY <1>4, <3>1, <3>2, <3>5
    <2> QED
      BY <1>2, <2>5, <2>6, <2>7, SettledKept
  <1>8. CASE u \in clash
    BY <1>2, <1>8 DEF Settled
  <1> QED
    BY <1>6, <1>7, <1>8

(* A row that moves keeps its date, and so does whoever has it in hand.    *)
LEMMA SettledTransfer ==
    ASSUME PayShape, PayShape', NEW u \in Users, Settled(u), NEW w \in Workers,
           NEW old, NEW new, NEW d, Transfer(w, old, new, d)
    PROVE  Settled(u)'
  <1>0. PayTypeOK
    BY DEF PayShape
  <1>1. /\ old \in Keys /\ new \in Keys /\ old # new /\ old[2] = new[2]
        /\ row[old] # "none" /\ row[new] = "none"
        /\ days'[old] = 0 /\ days'[new] = d /\ days[new] = 0
        /\ \A k \in Keys \ {old, new} : days'[k] = days[k]
    BY TransferEffect
  <1>2. /\ ext'[w] = NoExt
        /\ \A v \in Workers : ext'[v] # NoExt =>
             /\ v # w /\ ext[v] # NoExt /\ ext'[v].pc = ext[v].pc /\ ext'[v].base = ext[v].base
             /\ ext'[v].key = IF ext[v].key = old THEN new ELSE ext[v].key
    BY TransferEffect
  <1>3. /\ UNCHANGED <<due, clash>>
        /\ d = days[old] \/ (ext[w].pc = "save" /\ ext[w].key = old /\ d = ext[w].base)
    BY DEF Transfer
  <1>4. /\ old[1] \in Servers /\ new[1] \in Servers /\ old[1] # new[1]
        /\ old = <<old[1], old[2]>> /\ new = <<new[1], new[2]>>
    BY <1>1 DEF Keys
  <1>5. \A s \in Servers : <<s, u>> \in Keys
    BY DEF Keys
  <1>6. Calls(u)' \subseteq Calls(u)
    <2> SUFFICES ASSUME NEW v \in Workers, ext'[v].pc = "call", ext'[v].key[2] = u
                 PROVE  ext[v].pc = "call" /\ ext[v].key[2] = u
      BY DEF Calls
    <2>1. ext'[v] # NoExt
      BY NothingInHand
    <2> QED
      BY <1>1, <1>2, <2>1
  <1>7. CASE u \in clash
    BY <1>3, <1>7 DEF Settled
  <1>8. CASE u \notin clash
    <2>0. Current(u)
      BY <1>8 DEF Settled
    <2>1. Paid(u)' = Paid(u) /\ (old[2] = u => d = days[old])
      <3>1. CASE old[2] # u
        <4>1. \A s \in Servers : days'[<<s, u>>] = days[<<s, u>>]
          <5> SUFFICES ASSUME NEW s \in Servers PROVE days'[<<s, u>>] = days[<<s, u>>]
            OBVIOUS
          <5>1. <<s, u>> \in Keys \ {old, new}
            BY <1>1, <1>5, <3>1
          <5> QED
            BY <1>1, <5>1
        <4> QED
          BY <3>1, <4>1, PaidSame
      <3>2. CASE old[2] = u
        <4>1. d = days[old]
          BY <1>3, <2>0, <3>2 DEF Current
        <4>2. old = <<old[1], u>> /\ new = <<new[1], u>>
          BY <1>1, <1>4, <3>2
        <4>3. \A r \in Servers \ {old[1], new[1]} : days'[<<r, u>>] = days[<<r, u>>]
          <5> SUFFICES ASSUME NEW r \in Servers \ {old[1], new[1]}
                       PROVE  days'[<<r, u>>] = days[<<r, u>>]
            OBVIOUS
          <5>1. <<r, u>> \in Keys \ {old, new}
            BY <1>4, <1>5
          <5> QED
            BY <1>1, <5>1
        <4>4. days[<<new[1], u>>] = 0 /\ days'[<<new[1], u>>] = days[<<old[1], u>>]
              /\ days'[<<old[1], u>>] = 0
          BY <1>1, <4>1, <4>2
        <4> QED
          BY <1>4, <4>1, <4>3, <4>4, PaidMoved
      <3> QED
        BY <3>1, <3>2
    <2>2. Current(u)'
      <3> SUFFICES ASSUME NEW x \in Workers, ext'[x].pc = "save", ext'[x].key[2] = u
                   PROVE  /\ ext'[x].base = days'[ext'[x].key]
                          /\ \A v \in Workers : v # x /\ ext'[v].pc = "save" =>
                                                   ext'[v].key # ext'[x].key
        BY DEF Current
      <3>1. /\ x # w /\ ext[x] # NoExt /\ ext[x].pc = "save" /\ ext'[x].base = ext[x].base
            /\ ext'[x].key = IF ext[x].key = old THEN new ELSE ext[x].key
        BY <1>2, NothingInHand
      <3>2. ext[x].key[2] = u
        BY <1>1, <3>1
      <3>3. /\ ext[x].base = days[ext[x].key]
            /\ \A v \in Workers : v # x /\ ext[v].pc = "save" => ext[v].key # ext[x].key
        BY <2>0, <3>1, <3>2 DEF Current
      <3>4. ext[x].key \in Keys /\ ext[x].key # new
        BY <1>0, <1>1, <3>1, ExtTypes, InHandHasRow
      <3>5. ext'[x].base = days'[ext'[x].key]
        <4>1. CASE ext[x].key = old
          BY <1>1, <2>1, <3>1, <3>2, <3>3, <4>1
        <4>2. CASE ext[x].key # old
          BY <1>1, <3>1, <3>3, <3>4, <4>2
        <4> QED
          BY <4>1, <4>2
      <3>6. ASSUME NEW v \in Workers, v # x, ext'[v].pc = "save" PROVE ext'[v].key # ext'[x].key
        <4>1. /\ ext[v] # NoExt /\ ext[v].pc = "save"
              /\ ext'[v].key = IF ext[v].key = old THEN new ELSE ext[v].key
          BY <1>2, <3>6, NothingInHand
        <4>2. ext[v].key # new /\ ext[v].key # ext[x].key
          BY <1>1, <3>3, <3>6, <4>1, InHandHasRow
        <4> QED
          BY <3>1, <3>4, <4>1, <4>2
      <3> QED
        BY <3>5, <3>6
    <2> QED
      BY <1>3, <1>6, <2>1, <2>2, SettledKept
  <1> QED
    BY <1>7, <1>8

(* The answer with success is that of the call; an error answers nothing.  *)
LEMMA SettledAnswer ==
    ASSUME PayShape, NEW u \in Users, Settled(u), NEW w \in Workers, AnswerExt(w)
    PROVE  Settled(u)'
  <1>0. PayTypeOK /\ due \in [Users -> Nat]
    BY DEF PayShape, PayTypeOK
  <1>1. /\ ext[w].pc = "call" /\ ext[w] # NoExt /\ ext' = [ext EXCEPT ![w] = NoExt]
        /\ due' \in {due, [due EXCEPT ![ext[w].key[2]] = @ + 1]}
        /\ UNCHANGED <<days, clash>>
    BY NothingInHand DEF AnswerExt
  <1>2. ext'[w] = NoExt /\ \A v \in Workers : v # w => ext'[v] = ext[v]
    BY <1>0, <1>1 DEF PayTypeOK
  <1>3. CASE ext[w].key[2] # u
    <2>1. due'[u] = due[u]
      BY <1>0, <1>1, <1>3
    <2> QED
      BY <1>1, <1>2, <2>1, SettledUntouched, NothingInHand
  <1>4. CASE ext[w].key[2] = u
    <2>1. due'[u] \in {due[u], due[u] + 1}
      BY <1>0, <1>1, <1>4
    <2>2. w \in Calls(u)
      BY <1>1, <1>4 DEF Calls
    <2>3. Calls(u)' \subseteq Calls(u) \ {w}
      BY <1>2, NothingInHand DEF Calls
    <2>4. Paid(u)' = Paid(u)
      BY <1>1, PaidSame
    <2>5. u \notin clash => Current(u)'
      <3>1. u \notin clash => Current(u)
        BY DEF Settled
      <3> QED
        BY <1>1, <1>2, <3>1, NothingInHand DEF Current
    <2> QED
      BY <1>1, <2>1, <2>2, <2>3, <2>4, <2>5, SettledKept
  <1> QED
    BY <1>3, <1>4

(* The answer of create_account is that of the new row.                    *)
LEMMA SettledDeliver ==
    ASSUME PayShape, PayShape', NEW u \in Users, Settled(u), NEW w \in Workers, Deliver(w)
    PROVE  Settled(u)'
  <1>0. TypeOK /\ PayTypeOK /\ due \in [Users -> Nat] /\ days \in [Keys -> Nat]
    BY DEF PayShape, PayTypeOK
  <1>1. /\ job[w].pc = "commit" /\ Holds(w)
        /\ days' = [days EXCEPT ![Key(w)] = 1]
        /\ due' = [due EXCEPT ![job[w].user] = @ + 1]
        /\ UNCHANGED <<ext, clash>>
    BY DEF Deliver, Commit, Holds
  <1>2. PICK s, x, k : s = job[w].srv /\ x = job[w].user /\ k = Key(w)
    OBVIOUS
  <1>3. k \in Keys /\ k = <<s, x>> /\ row[k] = "none" /\ s \in Servers /\ x \in Users
    BY <1>0, <1>1, <1>2 DEF TypeOK, Key, Keys, PayShape, HeldKeys
  <1>4. days[k] = 0 /\ \A v \in Workers : ext[v] # NoExt => ext[v].key # k
    BY <1>3 DEF PayShape, Vacant
  <1>5. days'[k] = 1 /\ \A j \in Keys : j # k => days'[j] = days[j]
    BY <1>0, <1>1, <1>2, <1>3
  <1>6. \A t \in Servers : <<t, u>> \in Keys
    BY DEF Keys
  <1>7. CASE x # u
    <2>1. due'[u] = due[u]
      BY <1>0, <1>1, <1>2, <1>7
    <2>2. \A t \in Servers : days'[<<t, u>>] = days[<<t, u>>]
      BY <1>3, <1>5, <1>6, <1>7
    <2> QED
      BY <1>1, <2>1, <2>2, SettledUntouched
  <1>8. CASE x = u
    <2>1. due'[u] = due[u] + 1
      BY <1>0, <1>1, <1>2, <1>8
    <2>2. Paid(u)' = Paid(u) + 1
      <3>1. days'[<<s, u>>] = days[<<s, u>>] + 1
        BY <1>3, <1>4, <1>5, <1>8
      <3>2. \A t \in Servers : t # s => days'[<<t, u>>] = days[<<t, u>>]
        BY <1>3, <1>5, <1>6
      <3> QED
        BY <1>3, <3>1, <3>2, PaidMore
    <2>3. Calls(u)' \subseteq Calls(u)
      BY <1>1 DEF Calls
    <2>4. ASSUME u \notin clash PROVE Current(u)'
      <3>1. Current(u)
        BY <2>4 DEF Settled
      <3>2. \A v \in Workers : ext[v] # NoExt => days'[ext[v].key] = days[ext[v].key]
        BY <1>0, <1>4, <1>5, ExtTypes
      <3> QED
        BY <1>1, <3>1, <3>2, NothingInHand DEF Current
    <2> QED
      BY <1>1, <2>1, <2>2, <2>3, <2>4, SettledKept
  <1> QED
    BY <1>7, <1>8

(* Every step leaves what was answered on the accounts of the user.        *)
LEMMA SettledStep ==
    ASSUME PayShape, PayShape', PayNext, NEW u \in Users, Settled(u)
    PROVE  Settled(u)'
  <1>0. PayTypeOK
    BY DEF PayShape
  <1>1. CASE UNCHANGED <<days, due, ext, clash>>
    BY <1>1, SettledUntouched
  <1>2. ASSUME NEW w \in Workers, Order(w) PROVE UNCHANGED <<days, due, ext, clash>>
    BY <1>2 DEF Order
  <1>3. ASSUME NEW w \in Workers, SaveEdit(w) PROVE Settled(u)'
    <2>1. CASE Transfer(w, ext[w].key, ext[w].home, ext[w].base)
      BY <2>1, SettledTransfer
    <2>2. CASE Resave(w)
      <3>0. ext[w].pc = "save" /\ ext[w] # NoExt
        BY <1>3, NothingInHand DEF SaveEdit
      <3>1. /\ ext' = [ext EXCEPT ![w] = NoExt] /\ UNCHANGED <<due, clash>>
            /\ days' = days \/ days' = [days EXCEPT ![ext[w].key] = ext[w].base]
        BY <2>2 DEF Resave
      <3>2. \A v \in Workers : ext'[v] = ext[v] \/ ext'[v] = NoExt
        BY <1>0, <3>1 DEF PayTypeOK
      <3>3. CASE u \in clash
        BY <3>1, <3>3 DEF Settled
      <3>4. CASE u \notin clash
        <4>1. ASSUME NEW s \in Servers PROVE days'[<<s, u>>] = days[<<s, u>>]
          <5>1. <<s, u>> \in Keys /\ days \in [Keys -> Nat]
            BY <1>0 DEF Keys, PayTypeOK
          <5>2. CASE <<s, u>> = ext[w].key
            <6>1. ext[w].key[2] = u
              BY <5>2
            <6>2. ext[w].base = days[<<s, u>>]
              BY <3>0, <3>4, <5>2, <6>1 DEF Settled, Current
            <6> QED
              BY <3>1, <5>1, <5>2, <6>2
          <5>3. CASE <<s, u>> # ext[w].key
            BY <3>1, <5>1, <5>3
          <5> QED
            BY <5>2, <5>3
        <4> QED
          BY <3>1, <3>2, <4>1, SettledUntouched, NothingInHand
      <3> QED
        BY <3>3, <3>4
    <2> QED
      BY <1>3, <2>1, <2>2, SaveEditKinds
  <1>4. ASSUME NEW w \in Workers, Carry(w) PROVE Settled(u)'
    BY <1>1, <1>4, CarryKinds, SettledTransfer DEF payVars
  <1>5. Elsewhere => UNCHANGED <<days, due, ext, clash>>
    BY DEF Elsewhere
  <1> QED
    BY <1>1, <1>2, <1>3, <1>4, <1>5, SettledTake, SettledSave, SettledAnswer, SettledDeliver
       DEF PayNext

-----------------------------------------------------------------------------
(* Payments: the bound on the users of a server.  An edit that was loaded  *)
(* before its row was moved takes the row back without asking              *)
(* pick_best_server, so the place that the row had is still booked.        *)

Counts(k) == row[k] \in {"open", "suspended"} /\ k \notin revived

Booked(s) ==
    {u \in Users : \/ Counts(<<s, u>>)
                   \/ \E w \in Workers : /\ ext[w].pc = "save" /\ ext[w].home = <<s, u>>
                                         /\ Counts(ext[w].key)}

BookedBounded ==
    \A s \in Servers :
        Cardinality(Booked(s)) + Cardinality(Pending(s))
            <= MaxUsers[s] + Cardinality(Workers) - 1

(* The bookings of a server are finite, and cover its users.               *)
LEMMA BookedFinite ==
    ASSUME NEW s \in Servers
    PROVE  /\ IsFiniteSet(Booked(s)) /\ Cardinality(Booked(s)) \in Nat
           /\ Cardinality(Counted(s)) <= Cardinality(Booked(s))
  <1>1. Booked(s) \subseteq Users /\ Counted(s) \subseteq Booked(s)
    BY DEF Booked, Counted, Live, Counts
  <1>2. IsFiniteSet(Booked(s))
    BY <1>1, PlacementAssumption, FS_Subset
  <1> QED
    BY <1>1, <1>2, FS_Subset, FS_CardinalityType

(* A server that books no more users for no more jobs, or one more for a   *)
(* job that is done, keeps its bound.                                      *)
LEMMA BookedFits ==
    ASSUME BookedBounded, NEW t \in Servers, NEW B, NEW P,
           \/ B \subseteq Booked(t) /\ P \subseteq Pending(t)
           \/ \E u, w : /\ B \subseteq Booked(t) \cup {u}
                        /\ P \subseteq Pending(t) \ {w} /\ w \in Pending(t)
    PROVE  Cardinality(B) + Cardinality(P) <= MaxUsers[t] + Cardinality(Workers) - 1
  <1>1. Cardinality(Booked(t)) + Cardinality(Pending(t)) <= MaxUsers[t] + Cardinality(Workers) - 1
    BY DEF BookedBounded
  <1>2. /\ IsFiniteSet(Booked(t)) /\ Cardinality(Booked(t)) \in Nat
        /\ IsFiniteSet(Pending(t)) /\ Cardinality(Pending(t)) \in Nat
        /\ MaxUsers[t] \in Nat /\ Cardinality(Workers) \in Nat
    BY BookedFinite, CountedFinite
  <1>3. CASE B \subseteq Booked(t) /\ P \subseteq Pending(t)
    <2>1. Cardinality(B) \in Nat /\ Cardinality(B) <= Cardinality(Booked(t))
      BY <1>2, <1>3, Sizes
    <2>2. Cardinality(P) \in Nat /\ Cardinality(P) <= Cardinality(Pending(t))
      BY <1>2, <1>3, Sizes
    <2> QED
      BY <1>1, <1>2, <2>1, <2>2
  <1>4. ASSUME NEW u, NEW w, B \subseteq Booked(t) \cup {u},
               P \subseteq Pending(t) \ {w}, w \in Pending(t)
        PROVE  Cardinality(B) + Cardinality(P) <= MaxUsers[t] + Cardinality(Workers) - 1
    <2>1. Cardinality(B) \in Nat /\ Cardinality(B) <= Cardinality(Booked(t)) + 1
      BY <1>2, <1>4, Sizes
    <2>2. Cardinality(P) \in Nat /\ Cardinality(P) <= Cardinality(Pending(t)) - 1
      BY <1>2, <1>4, Sizes
    <2> QED
      BY <1>1, <1>2, <2>1, <2>2
  <1> QED
    BY <1>3, <1>4

(* What a step that takes nothing in leaves booked                         *)
LEMMA BookedShrinks ==
    ASSUME PayShape, NEW t \in Servers, \A k \in Keys : Counts(k)' => Counts(k),
           \A v \in Workers : ext'[v].pc = "save" => ext'[v] = ext[v]
    PROVE  Booked(t)' \subseteq Booked(t)
  <1>1. \A u \in Users : <<t, u>> \in Keys
    BY DEF Keys
  <1>2. ASSUME NEW v \in Workers, ext'[v].pc = "save", Counts(ext[v].key)'
        PROVE  Counts(ext[v].key)
    <2>1. PICK k : k = ext'[v].key
      OBVIOUS
    <2>2. ext'[v] = ext[v]
      BY <1>2
    <2>3. Counts(k)'
      BY <1>2, <2>1 DEF Counts
    <2>4. k \in Keys
      BY <1>2, <2>1, <2>2, ExtTypes, NothingInHand DEF PayShape
    <2> QED
      BY <2>1, <2>2, <2>3, <2>4 DEF Counts
  <1> SUFFICES ASSUME NEW u \in Users, u \in Booked(t)' PROVE u \in Booked(t)
    BY DEF Booked
  <1>3. CASE Counts(<<t, u>>)'
    BY <1>1, <1>3 DEF Booked
  <1>4. ASSUME NEW v \in Workers, ext'[v].pc = "save", ext'[v].home = <<t, u>>,
               Counts(ext[v].key)'
        PROVE  u \in Booked(t)
    BY <1>2, <1>4 DEF Booked
  <1> QED
    BY <1>3, <1>4 DEF Booked

(* A transfer books the row's new server, where an edit has booked it      *)
(* already.                                                                *)
LEMMA BookedTransfer ==
    ASSUME PayShape, NEW w \in Workers, NEW old, NEW new, NEW d, Transfer(w, old, new, d),
           NEW t \in Servers
    PROVE  /\ t # new[1] => Booked(t)' \subseteq Booked(t)
           /\ Booked(t)' \subseteq Booked(t) \cup {new[2]}
           /\ ext[w].pc = "save" /\ ext[w].key = old /\ ext[w].home = new
                 => Booked(t)' \subseteq Booked(t)
  <1>1. /\ old \in Keys /\ new \in Keys /\ old # new
        /\ row'[old] = "none" /\ row'[new] = row[old]
        /\ \A k \in Keys \ {old, new} : row'[k] = row[k]
    BY TransferEffect
  <1>2. revived' = (revived \ {old, new}) \cup (IF old \in revived THEN {new} ELSE {})
    BY DEF Transfer, Moved
  <1>3. \A k \in Keys : Counts(k)' => IF k = new THEN Counts(old) ELSE k # old /\ Counts(k)
    BY <1>1, <1>2 DEF Counts
  <1>4. new = <<new[1], new[2]>> /\ new[2] \in Users /\ \A u \in Users : <<t, u>> \in Keys
    BY <1>1 DEF Keys
  <1>5. ASSUME NEW u \in Users, u \in Booked(t)', u \notin Booked(t)
        PROVE  <<t, u>> = new /\ Counts(old)
    <2>1. CASE Counts(<<t, u>>)'
      <3>1. CASE <<t, u>> = new
        BY <1>1, <1>3, <2>1, <3>1
      <3>2. CASE <<t, u>> # new
        BY <1>3, <1>4, <1>5, <2>1, <3>2 DEF Booked
      <3> QED
        BY <3>1, <3>2
    <2>2. ASSUME NEW v \in Workers, ext'[v].pc = "save", ext'[v].home = <<t, u>>,
                 Counts(ext[v].key)'
          PROVE  FALSE
      <3>1. PICK k : k = ext'[v].key
        OBVIOUS
      <3>2. Counts(k)'
        BY <2>2, <3>1 DEF Counts
      <3>3. /\ ext[v] # NoExt /\ ext[v].pc = "save" /\ ext[v].home = <<t, u>>
            /\ k = IF ext[v].key = old THEN new ELSE ext[v].key
        BY <2>2, <3>1, TransferEffect, NothingInHand
      <3>4. ext[v].key \in Keys /\ ext[v].key # new
        <4>1. ext[v].key \in Keys /\ row[ext[v].key] # "none"
          BY <3>3, ExtTypes, InHandHasRow DEF PayShape
        <4>2. row[new] = "none"
          BY TransferEffect
        <4> QED
          BY <4>1, <4>2
      <3>5. Counts(ext[v].key)
        <4>1. CASE ext[v].key = old
          BY <1>1, <1>3, <3>2, <3>3, <4>1
        <4>2. CASE ext[v].key # old
          BY <1>3, <3>2, <3>3, <3>4, <4>2
        <4> QED
          BY <4>1, <4>2
      <3> QED
        BY <1>5, <3>3, <3>5 DEF Booked
    <2> QED
      BY <1>5, <2>1, <2>2 DEF Booked
  <1>6. Booked(t)' \subseteq Users
    BY DEF Booked
  <1>7. t # new[1] => Booked(t)' \subseteq Booked(t)
    BY <1>4, <1>5, <1>6
  <1>8. Booked(t)' \subseteq Booked(t) \cup {new[2]}
    BY <1>4, <1>5, <1>6
  <1>9. ASSUME ext[w].pc = "save", ext[w].key = old, ext[w].home = new,
               NEW u \in Users, u \in Booked(t)', u \notin Booked(t)
        PROVE  FALSE
    <2>1. <<t, u>> = new /\ Counts(old)
      BY <1>5, <1>9
    <2> QED
      BY <1>9, <2>1 DEF Booked
  <1> QED
    BY <1>6, <1>7, <1>8, <1>9

(* The jobs in flight after a transfer, and after any step of Placement    *)
LEMMA PendingTransfer ==
    ASSUME TypeOK, NEW w \in Workers, NEW old, NEW new \in Keys, NEW t \in Servers,
           \/ job' = Following(old, new)
           \/ job' = [Following(old, new) EXCEPT ![w] = Idle]
    PROVE  Pending(t)' \subseteq Pending(t)
  BY FollowingJobs, IdleShape DEF Pending, Placed

(* A job that has counted a free place: the workers that are busy with an  *)
(* instance are not among the jobs in flight.                              *)
LEMMA BookedChosen ==
    ASSUME PayShape, PayShape', BookedBounded, NEW w \in Workers, NEW s \in Servers,
           HasRoom(s), Chosen(w, s), UNCHANGED <<row, revived, ext>>
    PROVE  Cardinality(Booked(s)') + Cardinality(Pending(s)')
              <= MaxUsers[s] + Cardinality(Workers) - 1
  <1> DEFINE E == {v \in Workers : ext[v].pc = "save"}
             f == [v \in E |-> ext[v].home[2]]
             H == {f[v] : v \in E}
  <1>1. IsFiniteSet(E) /\ Cardinality(E) \in Nat /\ E \subseteq Workers
    <2>1. E \subseteq Workers
      OBVIOUS
    <2> QED
      BY <2>1, PlacementAssumption, FS_Subset, FS_CardinalityType
  <1>2. f \in Surjection(E, H)
    BY DEF Surjection
  <1>3. PICK B, P : B = Booked(s)' /\ P = Pending(s)'
    OBVIOUS
  <1>4. B \subseteq Counted(s) \cup H
    <2>1. B = Booked(s)
      BY <1>3 DEF Booked, Counts
    <2>2. ASSUME NEW u \in Users, NEW v \in Workers, ext[v].pc = "save", ext[v].home = <<s, u>>
          PROVE  u \in H
      <3>1. v \in E /\ f[v] = u
        BY <2>2
      <3> QED
        BY <3>1
    <2> HIDE DEF H
    <2>3. \A u \in Users : Counts(<<s, u>>) => u \in Counted(s)
      BY DEF Counted, Live, Counts
    <2> QED
      BY <2>1, <2>2, <2>3 DEF Booked
  <1>5. P \subseteq Workers \ E
    <2>1. \A v \in Workers : ext'[v] # NoExt => job'[v].pc = "idle"
      BY DEF PayShape, OneThing
    <2> QED
      BY <1>3, <2>1, NothingInHand DEF Pending
  <1> HIDE DEF E, f
  <1>6. IsFiniteSet(H) /\ Cardinality(H) \in Nat /\ Cardinality(H) <= Cardinality(E)
    BY <1>1, <1>2, FS_Surjection, FS_CardinalityType
  <1> HIDE DEF H
  <1>7. IsFiniteSet(Counted(s)) /\ Cardinality(Counted(s)) \in Nat
        /\ MaxUsers[s] \in Nat /\ Cardinality(Workers) \in Nat
        /\ Cardinality(Counted(s)) + 1 <= MaxUsers[s]
    BY CountedFinite DEF HasRoom
  <1>8. Cardinality(B) \in Nat /\ Cardinality(B) <= Cardinality(Counted(s)) + Cardinality(H)
    <2>1. /\ IsFiniteSet(Counted(s) \cup H)
          /\ Cardinality(Counted(s) \cup H) =
                Cardinality(Counted(s)) + Cardinality(H) - Cardinality(Counted(s) \cap H)
      BY <1>6, <1>7, FS_Union
    <2>2. Cardinality(Counted(s) \cap H) \in Nat
      <3>1. Counted(s) \cap H \subseteq H
        OBVIOUS
      <3> QED
        BY <1>6, <3>1, FS_Subset, FS_CardinalityType
    <2>3. /\ Cardinality(B) \in Nat /\ Cardinality(Counted(s) \cup H) \in Nat
          /\ Cardinality(B) <= Cardinality(Counted(s) \cup H)
      BY <1>4, <2>1, FS_Subset, FS_CardinalityType
    <2> QED
      BY <1>6, <1>7, <2>1, <2>2, <2>3
  <1>9. Cardinality(P) \in Nat /\ Cardinality(P) + Cardinality(E) <= Cardinality(Workers)
    <2>1. IsFiniteSet(Workers) /\ IsFiniteSet(P) /\ Cardinality(P) \in Nat
      BY <1>5, PlacementAssumption, FS_Subset, FS_CardinalityType
    <2>2. /\ IsFiniteSet(P \cup E)
          /\ Cardinality(P \cup E) = Cardinality(P) + Cardinality(E) - Cardinality(P \cap E)
      BY <1>1, <2>1, FS_Union
    <2>3. Cardinality(P \cap E) = 0
      <3>1. P \cap E = {}
        BY <1>5
      <3> QED
        BY <3>1, FS_EmptySet
    <2>4. Cardinality(P \cup E) <= Cardinality(Workers)
      <3>1. P \cup E \subseteq Workers
        BY <1>1, <1>5
      <3> QED
        BY <2>1, <3>1, FS_Subset
    <2> QED
      BY <1>1, <2>1, <2>2, <2>3, <2>4
  <1>10. Cardinality(B) + Cardinality(P) <= MaxUsers[s] + Cardinality(Workers) - 1
    BY <1>1, <1>6, <1>7, <1>8, <1>9
  <1> QED
    BY <1>3, <1>10

(* The steps of Placement that neither choose a server nor save            *)
QuietStep(w) == Start(w) \/ Refuse(w) \/ Insert(w) \/ Provision(w)

(* Every step keeps the bound on bookings and jobs in flight.              *)
LEMMA BookedStep ==
    ASSUME PayShape, PayShape', BookedBounded, PayNext
    PROVE  BookedBounded'
  <1>0. TypeOK /\ PayTypeOK
    BY DEF PayShape
  <1>a. row \in [Keys -> RowState] /\ job \in [Workers -> Job]
    BY <1>0 DEF TypeOK
  <1> SUFFICES ASSUME NEW t \in Servers
               PROVE  Cardinality(Booked(t)') + Cardinality(Pending(t)')
                        <= MaxUsers[t] + Cardinality(Workers) - 1
    BY DEF BookedBounded
  <1> DEFINE Fits == Cardinality(Booked(t)') + Cardinality(Pending(t)')
                        <= MaxUsers[t] + Cardinality(Workers) - 1
  <1>1. ASSUME Booked(t)' \subseteq Booked(t), Pending(t)' \subseteq Pending(t) PROVE Fits
    BY <1>1, BookedFits
  <1>2. ASSUME NEW u, NEW w, Booked(t)' \subseteq Booked(t) \cup {u},
               Pending(t)' \subseteq Pending(t) \ {w}, w \in Pending(t)
        PROVE  Fits
    BY <1>2, BookedFits
  <1> HIDE DEF Fits
  <1>3. ASSUME \A k \in Keys : Counts(k)' => Counts(k),
               \A v \in Workers : ext'[v].pc = "save" => ext'[v] = ext[v],
               Pending(t)' \subseteq Pending(t)
        PROVE  Fits
    BY <1>1, <1>3, BookedShrinks
  <1>4. UNCHANGED <<row, revived>> => \A k \in Keys : Counts(k)' => Counts(k)
    BY DEF Counts
  <1>5. UNCHANGED job => Pending(t)' \subseteq Pending(t)
    BY DEF Pending
  <1>6. ASSUME NEW w \in Workers, StartExtend(w) \/ StartEdit(w) PROVE Fits
    <2>1. PICK k \in Keys, p \in {0, 1} : Load(w, k, p)
      BY <1>0, <1>6, Taking
    <2>2. PICK e \in Ext :
              /\ e = [pc |-> "save", key |-> k, home |-> k, base |-> days[k], plus |-> p]
              /\ e # NoExt /\ ext' = [ext EXCEPT ![w] = e]
              /\ row[k] # "none" /\ job[w].pc = "idle" /\ ext[w] = NoExt
              /\ UNCHANGED <<status, row, job, revived, days, due>>
      BY <1>0, <2>1, Loaded
    <2>3. /\ e.key = k /\ e.home = k
          /\ ext'[w] = e /\ \A v \in Workers : v # w => ext'[v] = ext[v]
      BY <1>0, <2>2 DEF PayTypeOK
    <2>4. \A j : Counts(j)' = Counts(j)
      BY <2>2 DEF Counts
    <2>5. Booked(t)' \subseteq Booked(t)
      <3> SUFFICES ASSUME NEW u \in Users, u \in Booked(t)' PROVE u \in Booked(t)
        BY DEF Booked
      <3>1. CASE Counts(<<t, u>>)'
        BY <2>4, <3>1 DEF Booked
      <3>2. ASSUME NEW v \in Workers, ext'[v].pc = "save", ext'[v].home = <<t, u>>,
                   Counts(ext[v].key)'
            PROVE  u \in Booked(t)
        <4>1. Counts(ext'[v].key)
          BY <2>2, <3>2 DEF Counts
        <4> QED
          BY <2>3, <3>2, <4>1 DEF Booked
      <3> QED
        BY <3>1, <3>2 DEF Booked
    <2> QED
      BY <1>1, <1>5, <2>2, <2>5
  <1>7. ASSUME NEW w \in Workers, SaveExtend(w) PROVE Fits
    <2>1. /\ ext[w].pc = "save" /\ ext[w] # NoExt /\ ext' = [ext EXCEPT ![w].pc = "call"]
          /\ row' = [row EXCEPT ![ext[w].key] = "open"]
          /\ revived' = IF row[ext[w].key] = "deleted" THEN revived \cup {ext[w].key} ELSE revived
          /\ UNCHANGED job
      BY <1>7, NothingInHand DEF SaveExtend
    <2>2. ext[w] \in Ext /\ ext[w].key \in Keys /\ row[ext[w].key] # "none"
      BY <1>0, <2>1, ExtTypes, InHandHasRow
    <2>3. ext'[w].pc = "call" /\ \A v \in Workers : v # w => ext'[v] = ext[v]
      BY <1>0, <2>1, <2>2 DEF PayTypeOK, Ext
    <2>4. \A k \in Keys : Counts(k)' => Counts(k)
      <3> SUFFICES ASSUME NEW k \in Keys, Counts(k)' PROVE Counts(k)
        OBVIOUS
      <3>1. row[k] \in RowState /\ k \notin revived
        BY <1>a, <2>1 DEF Counts
      <3>2. CASE k = ext[w].key
        <4>1. row[k] # "none" /\ row[k] # "deleted"
          BY <2>1, <2>2, <3>2 DEF Counts
        <4> QED
          BY <3>1, <4>1 DEF Counts, RowState
      <3>3. CASE k # ext[w].key
        BY <1>a, <2>1, <3>1, <3>3 DEF Counts
      <3> QED
        BY <3>2, <3>3
    <2> QED
      BY <1>3, <1>5, <2>1, <2>3, <2>4
  <1>8. ASSUME NEW w \in Workers, SaveEdit(w) PROVE Fits
    <2>1. CASE Transfer(w, ext[w].key, ext[w].home, ext[w].base)
      <3>0. ext[w].pc = "save" /\ ext[w].home \in Keys
        BY <1>0, <1>8, ExtTypes, NothingInHand DEF SaveEdit
      <3>1. Booked(t)' \subseteq Booked(t)
        BY <2>1, <3>0, BookedTransfer
      <3>2. Pending(t)' \subseteq Pending(t)
        BY <1>0, <2>1, <3>0, PendingTransfer DEF Transfer
      <3> QED
        BY <1>1, <3>1, <3>2
    <2>2. CASE Resave(w)
      <3>1. /\ ext' = [ext EXCEPT ![w] = NoExt]
            /\ UNCHANGED <<row, revived, job>>
        BY <2>2 DEF Resave, vars
      <3>2. \A v \in Workers : ext'[v].pc = "save" => ext'[v] = ext[v]
        BY <1>0, <3>1, NothingInHand DEF PayTypeOK
      <3> QED
        BY <1>3, <1>4, <1>5, <3>1, <3>2
    <2> QED
      BY <1>8, <2>1, <2>2, SaveEditKinds
  <1>9. ASSUME NEW w \in Workers, AnswerExt(w) PROVE Fits
    <2>1. /\ ext' = [ext EXCEPT ![w] = NoExt]
          /\ UNCHANGED <<row, revived, job>>
      BY <1>9 DEF AnswerExt, vars
    <2>2. \A v \in Workers : ext'[v].pc = "save" => ext'[v] = ext[v]
      BY <1>0, <2>1, NothingInHand DEF PayTypeOK
    <2> QED
      BY <1>3, <1>4, <1>5, <2>1, <2>2
  <1>10. ASSUME NEW w \in Workers, QuietStep(w), UNCHANGED <<row, revived, ext>> PROVE Fits
    <2>1. Pending(t)' \subseteq Pending(t)
      BY <1>0, <1>10, QuietJob, OneJob DEF QuietStep
    <2> QED
      BY <1>3, <1>4, <1>10, <2>1
  <1>11. ASSUME NEW w \in Workers, Order(w) PROVE Fits
    <2>1. QuietStep(w) /\ UNCHANGED <<row, revived, ext>>
      BY <1>11 DEF Order, QuietStep, Start, StartCreate, StartWebhook, StartBulk, Begin
    <2> QED
      BY <1>10, <2>1
  <1>12. ASSUME NEW w \in Workers, Pick(w) \/ Scan(w), UNCHANGED ext PROVE Fits
    <2>1. UNCHANGED <<row, revived>>
      BY <1>12 DEF Pick, Scan
    <2>2. ASSUME NEW s \in Servers, HasRoom(s), Chosen(w, s),
                 NEW j, Shape(j), job' = [job EXCEPT ![w] = j]
          PROVE  Fits
      <3>1. CASE s = t
        BY <1>12, <2>1, <2>2, <3>1, BookedChosen DEF Fits
      <3>2. CASE s # t
        <4>1. job'[w].srv = s
          BY <1>a, <2>2 DEF Chosen, Job
        <4>2. j.srv # t
          BY <1>a, <2>2, <3>2, <4>1
        <4>3. Pending(t)' \subseteq Pending(t)
          BY <1>0, <2>2, <4>2, OneJob
        <4> QED
          BY <1>3, <1>4, <1>12, <2>1, <4>3
      <3> QED
        BY <3>1, <3>2
    <2>3. ASSUME NEW j, Shape(j), ~Placed(j), job' = [job EXCEPT ![w] = j] PROVE Fits
      <3>1. Pending(t)' \subseteq Pending(t)
        BY <1>0, <2>3, OneJob
      <3> QED
        BY <1>3, <1>4, <1>12, <2>1, <3>1
    <2> QED
      BY <1>0, <1>12, <2>2, <2>3, PickJob, ScanJob
  <1>13. ASSUME NEW w \in Workers, Deliver(w) PROVE Fits
    <2>1. /\ Commit(w) /\ job[w].pc = "commit" /\ Holds(w)
          /\ row' = [row EXCEPT ![Key(w)] = "open"]
          /\ UNCHANGED <<revived, ext>>
      BY <1>13 DEF Deliver, Commit, Holds
    <2>2. PICK s, x, k : s = job[w].srv /\ x = job[w].user /\ k = Key(w)
      OBVIOUS
    <2>3. k \in Keys /\ k = <<s, x>> /\ row[k] = "none" /\ s \in Servers /\ x \in Users
      BY <1>0, <2>1, <2>2 DEF TypeOK, Key, Keys, PayShape, HeldKeys
    <2>4. \A v \in Workers : ext[v] # NoExt => ext[v].key # k /\ ext[v].key \in Keys
      BY <1>0, <2>3, ExtTypes DEF PayShape, Vacant
    <2>5. \A j \in Keys : j # k => (Counts(j)' <=> Counts(j))
      BY <1>a, <2>1, <2>2, <2>3 DEF Counts
    <2>6. ASSUME NEW u \in Users, u \in Booked(t)', u \notin Booked(t) PROVE <<t, u>> = k
      <3>0. <<t, u>> \in Keys
        BY DEF Keys
      <3>1. CASE Counts(<<t, u>>)'
        BY <2>5, <2>6, <3>0, <3>1 DEF Booked
      <3>2. ASSUME NEW v \in Workers, ext'[v].pc = "save", ext'[v].home = <<t, u>>,
                   Counts(ext[v].key)'
            PROVE  FALSE
        <4>1. PICK j : j = ext[v].key
          OBVIOUS
        <4>2. ext[v].pc = "save" /\ ext[v].home = <<t, u>> /\ Counts(j)'
          BY <2>1, <3>2, <4>1 DEF Counts
        <4>3. j \in Keys /\ j # k
          BY <2>4, <4>1, <4>2, NothingInHand
        <4>4. Counts(ext[v].key)
          BY <2>5, <4>1, <4>2, <4>3
        <4> QED
          BY <2>6, <4>2, <4>4 DEF Booked
      <3> QED
        BY <2>6, <3>1, <3>2 DEF Booked
    <2>7. Booked(t)' \subseteq Users
      BY DEF Booked
    <2>8. PICK j : ~Placed(j) /\ job' = [job EXCEPT ![w] = j]
      BY <1>0, <2>1, CommitJob
    <2>9. ~Placed(job'[w]) /\ \A v \in Workers : v # w => job'[v] = job[v]
      BY <1>a, <2>8
    <2>10. Pending(t)' \subseteq Pending(t) \ {w}
      BY <2>9 DEF Pending, Placed
    <2>11. CASE t = s
      <3>1. Booked(t)' \subseteq Booked(t) \cup {x}
        BY <2>3, <2>6, <2>7
      <3>2. w \in Pending(t)
        BY <2>1, <2>2, <2>11 DEF Pending
      <3> QED
        BY <1>2, <2>10, <3>1, <3>2
    <2>12. CASE t # s
      <3>1. Booked(t)' \subseteq Booked(t)
        BY <2>3, <2>6, <2>7, <2>12
      <3> QED
        BY <1>1, <2>10, <3>1
    <2> QED
      BY <2>11, <2>12
  <1>14. ASSUME NEW w \in Workers, Carry(w) PROVE Fits
    <2>0. job'[w] = Idle /\ job[w].pc = "commit"
      BY <1>14, CarryKinds
    <2> DEFINE old == <<job[w].from, job[w].user>>
    <2>1. Pending(t)' \subseteq Pending(t) \ {w}
      BY <1>0, <1>14, <2>0, MoveJob DEF Carry, Pending, Placed
    <2>2. CASE Transfer(w, old, Key(w), days[old])
      <3>1. PICK new : new = Key(w)
        OBVIOUS
      <3>2. /\ t # new[1] => Booked(t)' \subseteq Booked(t)
            /\ Booked(t)' \subseteq Booked(t) \cup {new[2]}
        BY <2>2, <3>1, BookedTransfer
      <3>3. CASE t = new[1]
        <4>1. job[w].srv = t
          BY <3>1, <3>3 DEF Key
        <4>2. w \in Pending(t)
          BY <2>0, <4>1 DEF Pending
        <4> QED
          BY <1>2, <2>1, <3>2, <4>2
      <3>4. CASE t # new[1]
        BY <1>1, <2>1, <3>2, <3>4
      <3> QED
        BY <3>3, <3>4
    <2>3. CASE UNCHANGED <<row, payVars>>
      <3>1. UNCHANGED <<row, ext>>
        BY <2>3 DEF payVars
      <3>2. \A k \in Keys : Counts(k)' => Counts(k)
        <4>1. CASE UNCHANGED revived
          BY <1>4, <3>1, <4>1
        <4>2. CASE row[Key(w)] = "none" /\ Moved(old, Key(w))
          <5>1. old \in Keys /\ Key(w) \in Keys
            BY <1>0, <1>14 DEF Carry, Move, TypeOK, Key, Keys, Job
          <5>2. row'[old] = "none"
            BY <1>a, <4>2, <5>1 DEF Moved
          <5>3. row[old] = "none" /\ revived \subseteq revived' \cup {old, Key(w)}
            BY <3>1, <4>2, <5>2 DEF Moved
          <5>4. ASSUME NEW k \in Keys, Counts(k)' PROVE Counts(k)
            <6>1. row[k] \in {"open", "suspended"} /\ k \notin revived'
              BY <3>1, <5>4 DEF Counts
            <6>2. k # old /\ k # Key(w)
              BY <4>2, <5>3, <6>1
            <6> QED
              BY <5>3, <6>1, <6>2 DEF Counts
          <5> QED
            BY <5>4
        <4> QED
          BY <1>14, <4>1, <4>2 DEF Carry, Move
      <3> QED
        BY <1>3, <2>1, <3>1, <3>2
    <2> QED
      BY <1>14, <2>2, <2>3, CarryKinds
  <1>15. ASSUME Elsewhere PROVE Fits
    <2>0. UNCHANGED ext
      BY <1>15 DEF Elsewhere
    <2>1. ASSUME NEW w \in Workers, StartMove(w) \/ Refuse(w) \/ Insert(w) \/ Provision(w)
          PROVE  Fits
      <3>1. QuietStep(w) /\ UNCHANGED <<row, revived>>
        BY <2>1 DEF QuietStep, Start, StartMove, Refuse, Insert, Provision
      <3> QED
        BY <1>10, <2>0, <3>1
    <2>2. ASSUME NEW k \in Keys, SetRow(k) PROVE Fits
      <3>1. PICK r \in {"open", "suspended", "deleted"} :
              /\ row' = [row EXCEPT ![k] = r]
              /\ revived' = IF row[k] = "deleted" /\ r # "deleted" THEN revived \cup {k}
                                                                  ELSE revived
        BY <2>2 DEF SetRow
      <3>2. row[k] # "none" /\ UNCHANGED job
        BY <2>2 DEF SetRow
      <3>3. ASSUME NEW j \in Keys, Counts(j)' PROVE Counts(j)
        <4>1. row[j] \in RowState /\ j \notin revived
          BY <1>a, <3>1, <3>3 DEF Counts
        <4>2. CASE j = k
          <5>1. row[j] # "none" /\ row[j] # "deleted"
            BY <1>a, <3>1, <3>2, <3>3, <4>2 DEF Counts
          <5> QED
            BY <4>1, <5>1 DEF Counts, RowState
        <4>3. CASE j # k
          BY <1>a, <3>1, <3>3, <4>1, <4>3 DEF Counts
        <4> QED
          BY <4>2, <4>3
      <3> QED
        BY <1>3, <1>5, <2>0, <3>2, <3>3
    <2>3. ASSUME NEW s \in Servers, SetStatus(s) PROVE Fits
      BY <1>3, <1>4, <1>5, <2>0, <2>3 DEF SetStatus
    <2> QED
      BY <1>12, <1>15, <2>0, <2>1, <2>2, <2>3 DEF Elsewhere
  <1> QED
    BY <1>6, <1>7, <1>8, <1>9, <1>11, <1>13, <1>14, <1>15 DEF PayNext, Fits

(* Nothing is booked at first.                                             *)
LEMMA BookedInit == PayInit => BookedBounded
  <1> SUFFICES ASSUME PayInit PROVE BookedBounded
    OBVIOUS
  <1>1. \A w \in Workers : job[w] = Idle /\ ext[w] = NoExt
    BY DEF PayInit, Init
  <1>2. ASSUME NEW s \in Servers PROVE Booked(s) = {} /\ Pending(s) = {}
    <2>1. \A u \in Users : row[<<s, u>>] = "none"
      BY DEF PayInit, Init, Keys
    <2>2. Booked(s) = {}
      BY <1>1, <2>1, NothingInHand DEF Booked, Counts
    <2>3. Pending(s) = {}
      BY <1>1 DEF Pending, Idle
    <2> QED
      BY <2>2, <2>3
  <1> SUFFICES ASSUME NEW s \in Servers
               PROVE  Cardinality(Booked(s)) + Cardinality(Pending(s))
                        <= MaxUsers[s] + Cardinality(Workers) - 1
    BY DEF BookedBounded
  <1>3. Cardinality(Booked(s)) = 0 /\ Cardinality(Pending(s)) = 0
    BY <1>2, FS_EmptySet
  <1> QED
    BY <1>3, CountedFinite

-----------------------------------------------------------------------------

(* The inductive invariant of Payments                                     *)
PayInv ==
    /\ PayShape
    /\ \A u \in Users : Ordered(u) /\ Settled(u)
    /\ BookedBounded

(* Nothing is ordered or answered at first.                                *)
LEMMA OrdersInit == PayInit => \A u \in Users : Ordered(u) /\ Settled(u)
  <1> SUFFICES ASSUME PayInit, NEW u \in Users PROVE Ordered(u) /\ Settled(u)
    OBVIOUS
  <1>1. \A w \in Workers : job[w] = Idle /\ ext[w] = NoExt
    BY DEF PayInit, Init
  <1>2. \A s \in Servers : days[<<s, u>>] = 0
    BY DEF PayInit, Keys
  <1>3. PayShape /\ asked[u] = 0 /\ due[u] = 0
    BY PayShapeInit DEF PayInit
  <1>4. PICK g : g = [s \in Servers |-> 0]
    OBVIOUS
  <1>5. g \in [Servers -> Nat] /\ \A s \in Servers : g[s] = 0
    BY <1>4
  <1>6. Cardinality(Tally(g)) = 0
    <2>1. Tally(g) = {}
      <3> SUFFICES ASSUME NEW p \in Tally(g) PROVE FALSE
        OBVIOUS
      <3>1. PICK s \in Servers, n \in Nat : n \in 1..g[s] /\ p = <<s, n>>
        BY TallyElements
      <3> QED
        BY <1>5, <3>1
    <2> QED
      BY <2>1, FS_EmptySet
  <1>7. Unsaved(u) = {} /\ Calls(u) = {}
    BY <1>1, NothingInHand DEF Unsaved, Calls, Idle
  <1>8. Covers(u, g) /\ Current(u)
    BY <1>1, <1>2, <1>5, NothingInHand DEF Covers, Current
  <1>9. Cardinality(Unsaved(u)) = 0 /\ Cardinality(Calls(u)) = 0
    BY <1>7, FS_EmptySet
  <1>10. Ordered(u)
    BY <1>3, <1>5, <1>6, <1>8, <1>9 DEF Ordered
  <1>11. Settled(u)
    <2>1. Paid(u) \in Nat
      BY <1>3, ShownTypes
    <2> QED
      BY <1>3, <1>8, <1>9, <2>1 DEF Settled
  <1> QED
    BY <1>10, <1>11

(* Every step keeps the invariant.                                         *)
LEMMA PayInvStep == PayInv /\ [PayNext]_allVars => PayInv'
  <1> SUFFICES ASSUME PayInv, [PayNext]_allVars PROVE PayInv'
    OBVIOUS
  <1>1. PayShape'
    BY PayShapeStep DEF PayInv
  <1>2. CASE PayNext
    <2>1. \A u \in Users : Ordered(u)'
      BY <1>2, OrderedStep DEF PayInv
    <2>2. \A u \in Users : Settled(u)'
      BY <1>1, <1>2, SettledStep DEF PayInv
    <2>3. BookedBounded'
      BY <1>1, <1>2, BookedStep DEF PayInv
    <2> QED
      BY <1>1, <2>1, <2>2, <2>3 DEF PayInv
  <1>3. CASE UNCHANGED allVars
    <2>1. UNCHANGED <<status, row, job, revived, days, asked, due, ext, clash, changes>>
      BY <1>3 DEF allVars, vars, payVars
    <2>2. ASSUME NEW u \in Users PROVE Ordered(u)'
      <3>1. Ordered(u)
        BY DEF PayInv
      <3> QED
        BY <2>1, <3>1 DEF Ordered, Covers, Unsaved, Tally
    <2>3. ASSUME NEW u \in Users PROVE Settled(u)'
      BY <2>1, SettledUntouched DEF PayInv
    <2>4. BookedBounded'
      BY <2>1 DEF PayInv, BookedBounded, Booked, Counts, Pending
    <2> QED
      BY <1>1, <2>2, <2>3, <2>4 DEF PayInv
  <1> QED
    BY <1>2, <1>3

(* The types, the bookings and the orders behind every account, for any    *)
(* number of servers, users, workers and orders                            *)
THEOREM PaymentsInvariant == PaySpec => []PayInv
  <1>1. PayInit => PayInv
    BY PayShapeInit, OrdersInit, BookedInit DEF PayInv
  <1> QED
    BY <1>1, PayInvStep, PTL DEF PaySpec

(* The payment webhook, extensions, edits and rebalance_users together:    *)
(* nobody gets more than was ordered, and what was answered with success   *)
(* is there, unless two extensions or edits of one account overlapped.     *)
THEOREM PaymentsStayInStep == PaySpec => []PaymentsInStep
  <1>1. ASSUME PayInv, NEW u \in Users
        PROVE  Paid(u) <= asked[u] /\ (u \notin clash => due[u] <= Paid(u))
    <2>1. PayShape /\ Ordered(u) /\ Settled(u)
      BY <1>1 DEF PayInv
    <2>2. asked[u] \in Nat /\ due[u] \in Nat
      BY <2>1 DEF PayShape, PayTypeOK
    <2>3. Paid(u) <= asked[u]
      <3>1. PICK g \in [Servers -> Nat] :
              Covers(u, g) /\ Cardinality(Tally(g)) + Cardinality(Unsaved(u)) <= asked[u]
        BY <2>1 DEF Ordered
      <3>2. Shown(u) \in [Servers -> Nat] /\ \A s \in Servers : Shown(u)[s] <= g[s]
        BY <2>1, <3>1, ShownTypes DEF Covers
      <3>3. Cardinality(Tally(Shown(u))) <= Cardinality(Tally(g))
        BY <3>2, TallyMonotone
      <3>4. Cardinality(Tally(g)) \in Nat /\ Cardinality(Tally(Shown(u))) \in Nat
            /\ Cardinality(Unsaved(u)) \in Nat
        BY <3>2, TallyFinite, UnsavedFinite
      <3> QED
        BY <2>2, <3>1, <3>3, <3>4, PaidIsTally
    <2>4. u \notin clash => due[u] <= Paid(u)
      <3>1. Cardinality(Calls(u)) \in Nat /\ Paid(u) \in Nat
        BY <2>1, CallsFinite, ShownTypes
      <3> QED
        BY <2>1, <2>2, <3>1 DEF Settled
    <2> QED
      BY <2>3, <2>4
  <1>2. PayInv => PaymentsInStep
    BY <1>1 DEF PaymentsInStep
  <1> QED
    BY <1>2, PaymentsInvariant, PTL

(* The bound on the users of a server holds with extensions and edits too, *)
(* although an edit that saves an old server takes a row back without      *)
(* asking pick_best_server.                                                *)
THEOREM PaymentsOvershoot == PaySpec => []OvershootBounded
  <1>1. PayInv => OvershootBounded
    <2> SUFFICES ASSUME BookedBounded, NEW s \in Servers
                 PROVE  Cardinality(Counted(s)) <= MaxUsers[s] + Cardinality(Workers) - 1
      BY DEF PayInv, OvershootBounded
    <2>1. /\ Cardinality(Booked(s)) \in Nat /\ Cardinality(Pending(s)) \in Nat
          /\ Cardinality(Counted(s)) \in Nat /\ Cardinality(Workers) \in Nat
          /\ MaxUsers[s] \in Nat /\ Cardinality(Counted(s)) <= Cardinality(Booked(s))
      BY BookedFinite, CountedFinite
    <2> QED
      BY <2>1 DEF BookedBounded
  <1> QED
    BY <1>1, PaymentsInvariant, PTL
=============================================================================
