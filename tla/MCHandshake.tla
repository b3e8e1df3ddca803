---------------------------- MODULE MCHandshake ----------------------------
(* Two connections with tokens of their own; the clock of the second       *)
(* client is ahead.                                                        *)
EXTENDS Handshake, TLC

CONSTANTS c1, c2, t1, t2

TwoTokens == (c1 :> t1) @@ (c2 :> t2)
Ahead == (c1 :> 0) @@ (c2 :> 3)
=============================================================================
