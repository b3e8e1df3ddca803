---------------------------- MODULE FrameChannel ----------------------------
(***************************************************************************)
(* What the protocol layer of ShadowLink promises one direction of a       *)
(* session: whatever the number of goroutines that write, the frames form  *)
(* one sequence, and the reader gets them in that order, each of them once *)
(* and without a gap.                                                      *)
(***************************************************************************)
EXTENDS Naturals, Sequences

CONSTANT Frames

VARIABLES
    sent,   \* the frames that writers have committed to the channel, in order
    got     \* the frames that the reader has handed on, in order

Init == sent = << >> /\ got = << >>

Send ==
    /\ \E f \in Frames : sent' = Append(sent, f)
    /\ UNCHANGED got

Deliver ==
    /\ Len(got) < Len(sent)
    /\ got' = Append(got, sent[Len(got) + 1])
    /\ UNCHANGED sent

Spec == Init /\ [][Send \/ Deliver]_<<sent, got>>
=============================================================================
