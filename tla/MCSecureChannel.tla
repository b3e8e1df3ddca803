--------------------------- MODULE MCSecureChannel ---------------------------
(***************************************************************************)
(* Instances of SecureChannel for TLC: padLen has four values and dataLen  *)
(* has eight, and the shaper draws paddings of up to twice the byte.       *)
(***************************************************************************)
EXTENDS SecureChannel, TLC

PaddingOf(n) == [i \in 1..n |-> 0]

SmallPayloads == {<<1>>, <<1, 2, 3>>}
SmallDataPads == {PaddingOf(0), PaddingOf(3)}
SmallShaperPads == {PaddingOf(2), PaddingOf(7)}

WriterSymmetry == Permutations(Writers)
=============================================================================
