----------------------------- MODULE FrameCodec -----------------------------
(***************************************************************************)
(* The layout of a ShadowLink frame before encryption                      *)
(* (internal/protocol/frame.go):                                           *)
(*                                                                         *)
(*      type, padLen (one byte), dataLen (two bytes), padding, payload     *)
(*                                                                         *)
(* A frame is a sequence with one element for the type, one for each       *)
(* length field and one for each byte of padding and payload.  The widths  *)
(* of the fields are parameters: byte(padSize) and uint16(len(payload))    *)
(* keep the value modulo the width.                                        *)
(***************************************************************************)
EXTENDS Integers, Sequences

CONSTANTS
    ByteSpan,   \* 2^8 in the code: the values of padLen
    WordSpan    \* 2^16 in the code: the values of dataLen

ASSUME CodecAssumption == ByteSpan \in Nat \ {0} /\ WordSpan \in Nat \ {0}

Malformed == [type |-> "malformed", payload |-> << >>]

HeaderSize == 3
MaxPayloadSize == WordSpan - 1
MaxPaddingSize == ByteSpan - 1

(* EncodeFrame, for the padding that was drawn                             *)
EncodeFrame(f, padding) ==
    <<f.type, Len(padding) % ByteSpan, Len(f.payload) % WordSpan>> \o padding \o f.payload

(* Mutation: the payload is taken from right behind the header.            *)
DecodeFrameUnpadded(p) ==
    IF Len(p) < HeaderSize + p[2] + p[3] THEN Malformed
    ELSE [type |-> p[1], payload |-> SubSeq(p, HeaderSize + 1, HeaderSize + p[3])]

(* DecodeFrame, after decryption                                           *)
DecodeFrame(p) ==
    IF Len(p) < HeaderSize THEN Malformed
    ELSE IF Len(p) < HeaderSize + p[2] + p[3] THEN Malformed
    ELSE [type    |-> p[1],
          payload |-> SubSeq(p, HeaderSize + p[2] + 1, HeaderSize + p[2] + p[3])]

(* The limit of ReadFrameFrom, without the nonce and the tag, which are on *)
(* both sides of the comparison: the code adds 256 bytes of slack.         *)
LengthAccepted(p) ==
    Len(p) <= MaxPayloadSize + MaxPaddingSize + HeaderSize + ByteSpan
=============================================================================
