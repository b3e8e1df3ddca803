---------------------------- MODULE SecureChannel ----------------------------
(***************************************************************************)
(* One direction of a ShadowLink session: goroutines that write frames to  *)
(* the WebSocket through WriteFrameTo, and the goroutine at the other end  *)
(* that reads them through ReadFrameFrom.                                  *)
(*                                                                         *)
(* The nonce of a frame is a counter, and the reader takes a nonce below   *)
(* the next one it expects for a replay, which ends the session.  The lock *)
(* WriteMu of the cipher keeps the order of encryption and the order on    *)
(* the wire the same.                                                      *)
(***************************************************************************)
EXTENDS FrameCodec

CONSTANTS
    Writers,    \* goroutines that send: relayUpstream, tunnelConn, TrafficShaper
    None,       \* "nobody holds WriteMu"
    Payloads,   \* what a frame of the relay or the client may carry
    DataPads,   \* paddings drawn for these frames
    ShaperPads, \* paddings drawn for the frames of the TrafficShaper
    MaxFrames   \* bound: the frames that are sealed in a run

(* The keepalive of sendFakeFrame carries random bytes of a size from the  *)
(* same range as its padding.                                              *)
Carrying == [type : {"data", "control", "close"}, payload : Payloads]
Fake == [type : {"keepalive"}, payload : ShaperPads]
Frame == Carrying \cup Fake

(* The padding of the shipped configurations fits the byte (16 to 128);    *)
(* that of DefaultTrafficShapeConfig (64 to 512) needs up to twice the     *)
(* byte.                                                                   *)
ASSUME ChannelAssumption ==
    /\ None \notin Writers
    /\ Payloads \subseteq Seq(Int)
    /\ DataPads \subseteq Seq(Int)
    /\ ShaperPads \subseteq Seq(Int)
    /\ \A p \in Payloads : Len(p) <= MaxPayloadSize
    /\ \A p \in DataPads : Len(p) <= MaxPaddingSize
    /\ \A p \in ShaperPads : Len(p) < 2 * ByteSpan /\ Len(p) <= MaxPayloadSize
    /\ MaxFrames \in Nat

VARIABLES
    writeMu,    \* the goroutine that holds cipher.WriteMu
    sendNonce,  \* cipher.sendNonce of the sender
    held,       \* the encrypted frame of each goroutine, not yet written
    wire,       \* the WebSocket: encrypted frames in transit
    broken,     \* the connection has failed
    recvNonce,  \* cipher.recvNonce of the receiver
    reader,     \* what the reading goroutine is doing
    sealed,     \* history: the frames in the order of their encryption
    got         \* history: the frames that the reader dispatched

channelVars == <<writeMu, sendNonce, held, wire, broken, recvNonce, reader, sealed, got>>

-----------------------------------------------------------------------------

PadsOf(f) == IF f.type = "keepalive" THEN ShaperPads ELSE DataPads

(* An encrypted frame is its nonce and its plaintext.                      *)
Plain == UNION {{EncodeFrame(f, p) : p \in PadsOf(f)} : f \in Frame}
Packet == [nonce : Nat, plain : Plain]
NoPacket == [nonce |-> -1, plain |-> << >>]

(* relayLoop and readLoop ignore what a keepalive carries.                 *)
Seen(f) == IF f.type = "keepalive" THEN [type |-> "keepalive", payload |-> << >>] ELSE f
SeenFrame == {Seen(f) : f \in Frame}

(* The types of the variables.                                             *)
ChannelTypeOK ==
    /\ writeMu \in Writers \cup {None}
    /\ sendNonce \in Nat
    /\ held \in [Writers -> Packet \cup {NoPacket}]
    /\ wire \in Seq(Packet)
    /\ broken \in BOOLEAN
    /\ recvNonce \in Nat
    /\ reader \in {"reading", "replay", "malformed", "closed"}
    /\ sealed \in Seq(SeenFrame)
    /\ got \in Seq(SeenFrame)

ChannelInit ==
    /\ writeMu = None
    /\ sendNonce = 0
    /\ held = [w \in Writers |-> NoPacket]
    /\ wire = << >>
    /\ broken = FALSE
    /\ recvNonce = 0
    /\ reader = "reading"
    /\ sealed = << >>
    /\ got = << >>

-----------------------------------------------------------------------------

(* Mutation: WriteFrameTo does not take WriteMu.                           *)
MayWriteUnlocked(w) == TRUE

MayWrite(w) == writeMu = None

(* WriteFrameTo, first half: under WriteMu a frame is padded and encrypted *)
(* under the next nonce.                                                   *)
Seal(w) ==
    /\ MayWrite(w)
    /\ held[w] = NoPacket
    /\ Len(sealed) < MaxFrames
    /\ \E f \in Frame : \E padding \in PadsOf(f) :
        /\ held' = [held EXCEPT ![w] = [nonce |-> sendNonce,
                                        plain |-> EncodeFrame(f, padding)]]
        /\ sealed' = Append(sealed, Seen(f))
    /\ writeMu' = w
    /\ sendNonce' = sendNonce + 1
    /\ UNCHANGED <<wire, broken, recvNonce, reader, got>>

(* WriteFrameTo, second half: w.Write, and the lock is released whatever   *)
(* it returns.                                                             *)
WriteOut(w) ==
    /\ held[w] # NoPacket
    /\ wire' = IF broken THEN wire ELSE Append(wire, held[w])
    /\ held' = [held EXCEPT ![w] = NoPacket]
    /\ writeMu' = None
    /\ UNCHANGED <<sendNonce, broken, recvNonce, reader, sealed, got>>

(* Mutation: the nonce that is expected next counts as a replay.           *)
IsReplayStrict(nonce) == nonce <= recvNonce

(* SessionCipher.Decrypt                                                   *)
IsReplay(nonce) == nonce < recvNonce

(* ReadFrameFrom, and the dispatch of the frame by relayLoop or readLoop:  *)
(* an error ends the loop for good.                                        *)
Receive ==
    /\ reader = "reading"
    /\ wire # << >>
    /\ wire' = Tail(wire)
    /\ LET c == Head(wire)
           f == DecodeFrame(c.plain)
       IN  IF IsReplay(c.nonce)
           THEN reader' = "replay" /\ UNCHANGED <<recvNonce, got>>
           ELSE /\ recvNonce' = c.nonce + 1
                /\ IF ~LengthAccepted(c.plain) \/ f = Malformed
                   THEN reader' = "malformed" /\ UNCHANGED got
                   ELSE got' = Append(got, Seen(f)) /\ UNCHANGED reader
    /\ UNCHANGED <<writeMu, sendNonce, held, broken, sealed>>

(* The connection fails: later writes fail, and what is in transit may or  *)
(* may not arrive before the reader finds out.                             *)
ChannelBreak ==
    /\ ~broken
    /\ broken' = TRUE
    /\ UNCHANGED <<writeMu, sendNonce, held, wire, recvNonce, reader, sealed, got>>

ReadError ==
    /\ broken
    /\ reader = "reading"
    /\ reader' = "closed"
    /\ UNCHANGED <<writeMu, sendNonce, held, wire, broken, recvNonce, sealed, got>>

ChannelNext ==
    \/ \E w \in Writers : Seal(w) \/ WriteOut(w)
    \/ Receive
    \/ ChannelBreak
    \/ ReadError

ChannelSpec == ChannelInit /\ [][ChannelNext]_channelVars

(* A goroutine that has the lock goes on, and so does the reader.          *)
ChannelFairSpec == ChannelSpec /\ WF_channelVars(Receive) /\ \A w \in Writers : WF_channelVars(WriteOut(w))

-----------------------------------------------------------------------------

(* No interleaving of writers makes the receiver see a replay or a frame   *)
(* it cannot parse: a session ends by a failure of the connection only.    *)
NeverRejected == reader \notin {"replay", "malformed"}

(* The reader gets the frames in the order in which they were encrypted,   *)
(* none twice and none left out, with the payload that was sent: padLen    *)
(* overflows its byte for the paddings of the shaper only, and what that   *)
(* garbles is the content of a keepalive.                                  *)
Channel == INSTANCE FrameChannel WITH Frames <- SeenFrame, sent <- sealed

ImplementsChannel == Channel!Spec

(* Every frame that is encrypted arrives, unless the connection fails.     *)
Arrives ==
    \A n \in 1..MaxFrames :
        (Len(sealed) >= n) ~> (Len(got) >= n \/ broken)
=============================================================================
