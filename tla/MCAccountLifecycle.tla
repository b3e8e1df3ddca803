------------------------- MODULE MCAccountLifecycle -------------------------
(***************************************************************************)
(* Instances of AccountLifecycle for TLC.                                  *)
(***************************************************************************)
EXTENDS AccountLifecycle, TLC

CONSTANT a1

(* Every account is an OS user, or every account but a1 is.                *)
AllSsh == [a \in Accounts |-> "ssh"]
Mixed == [a \in Accounts |-> IF a = a1 THEN "shadowlink" ELSE "ssh"]

(* Every behaviour is about one account, of either protocol.               *)
Touched(a) ==
    \/ row[a] # NoRow \/ InUse(a)
    \/ remote[a] # Absent \/ \E k \in Kinds : <<a, k>> \in disturbed
OneAccount == \A a, b \in Accounts : Touched(a) /\ Touched(b) => a = b

WorkerSymmetry == Permutations(Workers)
=============================================================================
