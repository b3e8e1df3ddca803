----------------------------- MODULE TokenTable -----------------------------
(***************************************************************************)
(* What a ShadowLink node promises the panel about its auth tokens: a      *)
(* table that changes one token at a time and for everybody at once.  When *)
(* the node dies the table stays as it is, or nobody is admitted any more. *)
(***************************************************************************)

CONSTANT Tokens

VARIABLES
    table,      \* the state of each token
    on          \* the node runs

-----------------------------------------------------------------------------

Empty == [t \in Tokens |-> "absent"]

Init == table = Empty /\ on = TRUE

Set(t, s) == table' = [table EXCEPT ![t] = s] /\ on /\ UNCHANGED on
Known(t) == table[t] # "absent"

Register(t) == Set(t, "active")
Deregister(t) == Set(t, "absent")
Suspend(t) == Known(t) /\ Set(t, "suspended")
Activate(t) == Known(t) /\ Set(t, "active")

Stop == on /\ on' = FALSE /\ table' \in {table, Empty}
Start == ~on /\ on' = TRUE /\ UNCHANGED table

Next ==
    \/ Stop \/ Start
    \/ \E t \in Tokens : Register(t) \/ Deregister(t) \/ Suspend(t) \/ Activate(t)
=============================================================================
