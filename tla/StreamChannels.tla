--------------------------- MODULE StreamChannels ---------------------------
(***************************************************************************)
(* What ShadowLink promises the applications: one direction of every       *)
(* connection is a channel of its own.  It carries what is sent on this    *)
(* connection and nothing else, in order, and may stop carrying at any     *)
(* point.                                                                  *)
(***************************************************************************)
EXTENDS Naturals, Sequences

CONSTANTS Ids, Chunks

VARIABLES
    sent,   \* for each connection, the chunks that its sender has handed over
    got     \* for each connection, the chunks that have come out

Init ==
    /\ sent = [i \in Ids |-> << >>]
    /\ got = [i \in Ids |-> << >>]

Send(i) ==
    /\ \E c \in Chunks : sent' = [sent EXCEPT ![i] = Append(@, c)]
    /\ UNCHANGED got

Deliver(i) ==
    /\ Len(got[i]) < Len(sent[i])
    /\ got' = [got EXCEPT ![i] = Append(@, sent[i][Len(@) + 1])]
    /\ UNCHANGED sent

Spec == Init /\ [][\E i \in Ids : Send(i) \/ Deliver(i)]_<<sent, got>>
=============================================================================
