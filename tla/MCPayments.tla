----------------------------- MODULE MCPayments -----------------------------
(* Servers of one place each; workers and users are alike.                 *)
EXTENDS Payments, TLC

Small == [s \in Servers |-> 1]
PaymentSymmetry == Permutations(Workers) \cup Permutations(Users) \cup Permutations(Servers)
=============================================================================
