------------------------------ MODULE Payments ------------------------------
(***************************************************************************)
(* What customers pay for and what they get: the payment webhook, which    *)
(* creates an account or extends one, over Placement, which decides where  *)
(* accounts are and moves them about.                                      *)
(*                                                                         *)
(* Every order is for one plan, and the unit of days is its duration.  The *)
(* clock stands still: what an account has consumed is not the matter here *)
(* (AccountLifecycle has the dates).                                       *)
(***************************************************************************)
EXTENDS Placement, FiniteSetsExt

CONSTANTS
    MaxOrders,  \* bound: the orders of all users together
    MaxChanges  \* bound: edits, changes of a row's state and of a server's

ASSUME PaymentsAssumption == IsFiniteSet(Servers) /\ MaxOrders \in Nat /\ MaxChanges \in Nat

VARIABLES
    days,       \* expire_date of each account, in orders from now
    asked,      \* orders that each user has sent, retries included
    due,        \* orders that were answered with success
    ext,        \* the extension or the edit that each worker is busy with
    clash,      \* observer: users of whom two of those have overlapped
    changes     \* counts to MaxChanges

payVars == <<days, asked, due, ext, clash, changes>>
allVars == <<vars, payVars>>

-----------------------------------------------------------------------------

(* home and base are the server (with the username) and the expire_date    *)
(* that were loaded, plus what is added to the date: nothing in an edit;   *)
(* key is where the row is by now.                                         *)
Ext == [pc : {"save", "call"}, key : Keys, home : Keys, base : Nat, plus : {0, 1}]
NoExt == [pc |-> "none"]

(* The types of the variables that Placement does not have.                *)
PayTypeOK ==
    /\ days \in [Keys -> Nat]
    /\ asked \in [Users -> Nat] /\ due \in [Users -> Nat]
    /\ ext \in [Workers -> Ext \cup {NoExt}]
    /\ clash \subseteq Users
    /\ changes \in 0..MaxChanges

PayInit ==
    /\ Init
    /\ days = [k \in Keys |-> 0]
    /\ asked = [u \in Users |-> 0] /\ due = asked
    /\ ext = [w \in Workers |-> NoExt]
    /\ clash = {} /\ changes = 0

Total(f) == MapThenSumSet(LAMBDA u : f[u], Users)

Free(w) == job[w].pc = "idle" /\ ext[w] = NoExt

Change == changes < MaxChanges /\ changes' = changes + 1

(* Orders for the users us arrive.                                         *)
Ask(us) ==
    /\ asked' = [u \in Users |-> asked[u] + IF u \in us THEN 1 ELSE 0]
    /\ Total(asked') <= MaxOrders

-----------------------------------------------------------------------------
(* Extensions and edits of accounts that are there.                        *)

(* Another instance of the row is about to be saved.                       *)
Load(w, k, plus) ==
    /\ Free(w) /\ row[k] # "none"
    /\ ext' = [ext EXCEPT ![w] = [pc |-> "save", key |-> k, home |-> k,
                                  base |-> days[k], plus |-> plus]]
    /\ clash' = clash \cup {k[2] : v \in {v \in Workers : ext[v].pc = "save" /\ ext[v].key = k}}
    /\ UNCHANGED <<vars, days, due>>

(* The webhook for a user with an account that is ACTIVE or EXPIRED, and   *)
(* extend_account_view for any account                                     *)
StartExtend(w) == \E k \in Keys : Load(w, k, 1) /\ Ask({k[2]}) /\ UNCHANGED changes

(* AccountUpdateView.patch                                                 *)
StartEdit(w) == \E k \in Keys : Load(w, k, 0) /\ Change /\ UNCHANGED asked

(* Mutation: the days count from now, whatever is left of the old ones.    *)
ExtendedFromNow(e) == e.plus

Extended(e) == e.base + e.plus

(* SSHAccount.extend saves the date and the status.                        *)
SaveExtend(w) ==
    LET k == ext[w].key IN
    /\ ext[w].pc = "save" /\ ext[w].plus = 1
    /\ days' = [days EXCEPT ![k] = Extended(ext[w])]
    /\ row' = [row EXCEPT ![k] = "open"]
    /\ revived' = IF row[k] = "deleted" THEN revived \cup {k} ELSE revived
    /\ ext' = [ext EXCEPT ![w].pc = "call"]
    /\ UNCHANGED <<status, job, asked, due, clash, changes>>

(* What moves with a row whose server changes                              *)
Rehomed(old, new) ==
    [v \in Workers |-> IF ext[v] # NoExt /\ ext[v].key = old
                         THEN [ext[v] EXCEPT !.key = new] ELSE ext[v]]

(* An edit saves all fields, the server too: a row that was moved in the   *)
(* meantime goes back, unless its old key has been taken.                  *)
SaveEdit(w) ==
    LET e == ext[w] IN
    /\ e.pc = "save" /\ e.plus = 0
    /\ IF e.key = e.home
         THEN days' = [days EXCEPT ![e.key] = e.base] /\ UNCHANGED <<row, revived, job>>
         ELSE /\ ~KeyHeld(e.home)
              /\ IF row[e.home] = "none"
                   THEN /\ Moved(e.key, e.home)
                        /\ job' = Following(e.key, e.home)
                        /\ days' = [days EXCEPT ![e.home] = e.base, ![e.key] = 0]
                   ELSE UNCHANGED <<row, revived, job, days>>
    /\ ext' = [(IF row' = row THEN ext ELSE Rehomed(e.key, e.home)) EXCEPT ![w] = NoExt]
    /\ UNCHANGED <<status, asked, due, clash, changes>>

(* The node is told: the order is answered with success; or the call       *)
(* raises and the answer is an error, although the days are in the row.    *)
AnswerExt(w) ==
    /\ ext[w].pc = "call"
    /\ ext' = [ext EXCEPT ![w] = NoExt]
    /\ due' \in {due, [due EXCEPT ![ext[w].key[2]] = @ + 1]}
    /\ UNCHANGED <<vars, days, asked, clash, changes>>

-----------------------------------------------------------------------------
(* Creations, and the steps of Placement that the orders ride on.          *)

Order(w) ==
    /\ Free(w)
    /\ StartCreate(w) \/ StartWebhook(w) \/ StartBulk(w)
    /\ Ask(job'[w].todo)
    /\ UNCHANGED <<days, due, ext, clash, changes>>

(* create_account returns.                                                 *)
Deliver(w) ==
    /\ Commit(w)
    /\ days' = [days EXCEPT ![Key(w)] = 1]
    /\ due' = [due EXCEPT ![job[w].user] = @ + 1]
    /\ UNCHANGED <<asked, ext, clash, changes>>

(* rebalance_users moves the row; an instance in somebody's hand is saved  *)
(* to the row, wherever it is.                                             *)
Carry(w) ==
    LET old == <<job[w].from, job[w].user>>
        new == Key(w)
    IN  /\ Move(w)
        /\ IF row' = row THEN UNCHANGED <<days, ext>>
           ELSE /\ days' = [days EXCEPT ![new] = days[old], ![old] = 0]
                /\ ext' = Rehomed(old, new)
        /\ UNCHANGED <<asked, due, clash, changes>>

Elsewhere ==
    /\ \/ /\ \E w \in Workers :
             \/ Free(w) /\ StartMove(w)
             \/ Pick(w) \/ Scan(w) \/ Refuse(w) \/ Insert(w) \/ Provision(w)
          /\ UNCHANGED changes
       \/ \E k \in Keys : SetRow(k) /\ Change
       \/ \E s \in Servers : SetStatus(s) /\ Change
    /\ UNCHANGED <<days, asked, due, ext, clash>>

PayNext ==
    \/ \E w \in Workers :
        \/ StartExtend(w) \/ StartEdit(w) \/ SaveExtend(w) \/ SaveEdit(w) \/ AnswerExt(w)
        \/ Order(w) \/ Deliver(w) \/ Carry(w)
    \/ Elsewhere

PaySpec == PayInit /\ [][PayNext]_allVars

-----------------------------------------------------------------------------

(* What a user has on all servers, order by order.                         *)
Paid(u) == Cardinality(UNION {{s} \X (1..days[<<s, u>>]) : s \in Servers})

(* A user never gets more than was ordered, and what was answered with     *)
(* success is on accounts of that user, wherever rebalance_users has moved *)
(* them, unless two extensions or edits of one account have overlapped     *)
(* (PaymentWebhookView, extend_account, AccountUpdateView).                *)
PaymentsInStep ==
    \A u \in Users :
        /\ Paid(u) <= asked[u]
        /\ u \notin clash => due[u] <= Paid(u)
=============================================================================
