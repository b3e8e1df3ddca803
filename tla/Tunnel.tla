------------------------------- MODULE Tunnel -------------------------------
(***************************************************************************)
(* One ShadowLink session with its streams: the client's SOCKS5 proxy      *)
(* (internal/proxy/socks5.go), which multiplexes local connections over    *)
(* one WebSocket, and the server's relay (internal/proxy/relay.go), which  *)
(* dials the destinations and pumps their answers back.                    *)
(*                                                                         *)
(* Each direction of the WebSocket is a queue of frames: what FrameChannel *)
(* promises and SecureChannel implements.  Every goroutine is a process of *)
(* its own: on the client one handler and one upward copy per connection   *)
(* and one readLoop, on the server one relayLoop and one relayUpstream per *)
(* stream.                                                                 *)
(***************************************************************************)
EXTENDS Integers, Sequences

CONSTANTS
    ByteSpan,   \* 2^8 in the code: a stream id travels as four bytes
    MaxStreams, \* bound: local connections in the session; the code's ids are uint32
    MaxChunks,  \* bound: chunks that are sent in the session, in both directions
    WireCap     \* frames that fit into one direction of the WebSocket

ASSUME TunnelAssumption ==
    /\ ByteSpan \in Nat \ {0, 1}
    /\ MaxStreams \in Nat
    /\ MaxStreams <= ByteSpan * ByteSpan * ByteSpan * ByteSpan
    /\ MaxChunks \in Nat
    /\ WireCap \in Nat \ {0}

Ids == 0..(MaxStreams - 1)

VARIABLES
    nextID,     \* Client.nextID
    sessions,   \* Client.sessions
    conn,       \* handleSOCKS5 and its tunnelConn, for each stream
    holdUp,     \* the chunk that the upward copy of each stream has read, or None
    c2s, s2c,   \* the two directions of the WebSocket
    broken,     \* the WebSocket has failed or was closed
    read,       \* readLoop of the client
    relay,      \* relayLoop of the server
    streams,    \* ServerRelay.streams of the session
    upstream,   \* the connection to the destination of each stream; "gone" when
                \* the destination has closed its end and the relay has not
    pump,       \* relayUpstream of each stream
    sentUp, gotUp,      \* history: chunks a local application sent, its destination got
    sentDown, gotDown,  \* history: the same for the other direction
    chunks      \* counts to MaxChunks

clientVars == <<nextID, sessions, conn, holdUp, read>>
relayVars == <<relay, streams, upstream, pump>>
history == <<sentUp, gotUp, sentDown, gotDown, chunks>>
vars == <<clientVars, c2s, s2c, broken, relayVars, history>>

-----------------------------------------------------------------------------

(* encodeStreamID and decodeStreamID: four bytes, the highest first.       *)
encodeStreamID(id) ==
    <<(id \div (ByteSpan * ByteSpan * ByteSpan)) % ByteSpan,
      (id \div (ByteSpan * ByteSpan)) % ByteSpan,
      (id \div ByteSpan) % ByteSpan,
      id % ByteSpan>>

decodeStreamID(b) == ((b[1] * ByteSpan + b[2]) * ByteSpan + b[3]) * ByteSpan + b[4]

(* A chunk is known by the connection it was sent on and its number there. *)
(* A close frame without an id ends the session.                           *)
CountChunk == chunks < MaxChunks /\ chunks' = chunks + 1
Chunk == [of : Ids, n : 1..MaxChunks]
None == [of |-> -1, n |-> 0]
StreamFrame(type, i, data) == [type |-> type, head |-> encodeStreamID(i), data |-> data]
CloseFrame == [type |-> "bye", head |-> << >>, data |-> None]
Frame == [type : {"control", "data", "close"}, head : {encodeStreamID(i) : i \in Ids},
          data : Chunk \cup {None}] \cup {CloseFrame}

IdleLoop == [pc |-> "read", id |-> -1, data |-> None]
Loop == [pc : {"read", "push", "dial", "write", "cleanup", "ended"},
         id : Ids \cup {-1}, data : Chunk \cup {None}]

(* The types of the variables.                                             *)
TypeOK ==
    /\ nextID \in 0..MaxStreams
    /\ sessions \subseteq Ids
    /\ conn \in [Ids -> {"none", "dial", "open", "close", "closed", "failed"}]
    /\ holdUp \in [Ids -> Chunk \cup {None}]
    /\ c2s \in Seq(Frame) /\ Len(c2s) <= WireCap
    /\ s2c \in Seq(Frame) /\ Len(s2c) <= WireCap
    /\ broken \in BOOLEAN
    /\ read \in Loop /\ read.pc \in {"read", "push", "ended"}
    /\ relay \in Loop /\ relay.pc # "push"
    /\ streams \subseteq Ids
    /\ upstream \in [Ids -> {"none", "open", "gone", "closed"}]
    /\ pump \in [Ids -> {"none", "read", "hold", "done"}]
    /\ sentUp \in [Ids -> 0..MaxChunks] /\ sentDown \in [Ids -> 0..MaxChunks]
    /\ gotUp \in [Ids -> Seq(Chunk)] /\ gotDown \in [Ids -> Seq(Chunk)]
    /\ chunks \in 0..MaxChunks

(* The session right after the handshake.                                  *)
Init ==
    /\ nextID = 0
    /\ sessions = {}
    /\ conn = [i \in Ids |-> "none"]
    /\ holdUp = [i \in Ids |-> None]
    /\ c2s = << >> /\ s2c = << >>
    /\ broken = FALSE
    /\ read = IdleLoop
    /\ relay = IdleLoop
    /\ streams = {}
    /\ upstream = [i \in Ids |-> "none"]
    /\ pump = [i \in Ids |-> "none"]
    /\ sentUp = [i \in Ids |-> 0] /\ sentDown = [i \in Ids |-> 0]
    /\ gotUp = [i \in Ids |-> << >>] /\ gotDown = [i \in Ids |-> << >>]
    /\ chunks = 0

-----------------------------------------------------------------------------
(* The client.                                                             *)

(* WriteFrameTo: it waits while the connection is backed up, and fails     *)
(* when the connection is gone.                                            *)
ToServer(f) ==
    \/ ~broken /\ Len(c2s) < WireCap /\ c2s' = Append(c2s, f)
    \/ broken /\ UNCHANGED c2s

(* handleSOCKS5 has read the request; dialThroughTunnel registers a stream *)
(* under the lock ...                                                      *)
Register ==
    /\ nextID < MaxStreams
    /\ conn' = [conn EXCEPT ![nextID] = "dial"]
    /\ sessions' = sessions \cup {nextID}
    /\ nextID' = nextID + 1
    /\ UNCHANGED <<holdUp, read, c2s, s2c, broken, relayVars, history>>

(* ... and sends the destination outside of it, so the control frames of   *)
(* two streams may leave in either order.  The application is told of a    *)
(* success at once; a write that failed leaves the stream registered.      *)
Dial(i) ==
    /\ conn[i] = "dial"
    /\ ToServer(StreamFrame("control", i, None))
    /\ conn' = [conn EXCEPT ![i] = IF broken THEN "failed" ELSE "open"]
    /\ UNCHANGED <<nextID, sessions, holdUp, read, s2c, broken, relayVars, history>>

(* io.Copy(tunnel, conn): read from the application, then tunnelConn.Write.*)
ReadLocal(i) ==
    /\ conn[i] = "open" /\ holdUp[i] = None /\ CountChunk
    /\ sentUp' = [sentUp EXCEPT ![i] = @ + 1]
    /\ holdUp' = [holdUp EXCEPT ![i] = [of |-> i, n |-> sentUp'[i]]]
    /\ UNCHANGED <<nextID, sessions, conn, read, c2s, s2c, broken, relayVars,
                   gotUp, sentDown, gotDown>>

(* The copy is not stopped by the end of the handler: it may send a chunk  *)
(* after the close frame of its stream.                                    *)
WriteUp(i) ==
    /\ holdUp[i] # None
    /\ ToServer(StreamFrame("data", i, holdUp[i]))
    /\ holdUp' = [holdUp EXCEPT ![i] = None]
    /\ UNCHANGED <<nextID, sessions, conn, read, s2c, broken, relayVars, history>>

(* One of the two copies ends, because the application closed its end or   *)
(* because a write to the tunnel failed: the handler returns, and          *)
(* tunnelConn.Close takes the stream out of the map ...                    *)
Forget(i) ==
    /\ conn[i] = "open"
    /\ conn' = [conn EXCEPT ![i] = "close"]
    /\ sessions' = sessions \ {i}
    /\ UNCHANGED <<nextID, holdUp, read, c2s, s2c, broken, relayVars, history>>

(* Mutation: the end of a stream is not announced.                         *)
HangUpSilently(i) ==
    /\ conn[i] = "close"
    /\ conn' = [conn EXCEPT ![i] = "closed"]
    /\ UNCHANGED <<nextID, sessions, holdUp, read, c2s, s2c, broken, relayVars, history>>

(* ... sends its close frame, whatever becomes of it, and closes the pipe. *)
HangUp(i) ==
    /\ conn[i] = "close"
    /\ ToServer(StreamFrame("close", i, None))
    /\ conn' = [conn EXCEPT ![i] = "closed"]
    /\ UNCHANGED <<nextID, sessions, holdUp, read, s2c, broken, relayVars, history>>

(* readLoop takes a frame: a chunk of a known stream goes into its pipe.   *)
Receive ==
    /\ read.pc = "read" /\ s2c # << >>
    /\ s2c' = Tail(s2c)
    /\ LET f == Head(s2c)
           i == decodeStreamID(f.head)
       IN  read' = IF i \in sessions THEN [pc |-> "push", id |-> i, data |-> f.data] ELSE read
    /\ UNCHANGED <<nextID, sessions, conn, holdUp, c2s, broken, relayVars, history>>

ReceiveError ==
    /\ read.pc = "read" /\ broken
    /\ read' = [IdleLoop EXCEPT !.pc = "ended"]
    /\ UNCHANGED <<nextID, sessions, conn, holdUp, c2s, s2c, broken, relayVars, history>>

(* io.Pipe has no buffer: readLoop waits until io.Copy(conn, tunnel) has   *)
(* taken the chunk for the application ...                                 *)
Consume(i) ==
    /\ read.pc = "push" /\ read.id = i
    /\ conn[i] \in {"open", "close"}
    /\ gotDown' = [gotDown EXCEPT ![i] = Append(@, read.data)]
    /\ read' = IdleLoop
    /\ UNCHANGED <<nextID, sessions, conn, holdUp, c2s, s2c, broken, relayVars,
                   sentUp, gotUp, sentDown, chunks>>

(* Mutation: readLoop does not wait for an application that is slow.       *)
PipeClosedEarly(i) == conn[i] # "none"

(* Mutation: tunnelConn.Close leaves the pipe open.                        *)
PipeClosedNever(i) == FALSE

(* ... or the pipe is closed, and the write into it fails.                 *)
PipeClosed(i) == conn[i] = "closed"

PushFails ==
    /\ read.pc = "push" /\ PipeClosed(read.id)
    /\ read' = IdleLoop
    /\ UNCHANGED <<nextID, sessions, conn, holdUp, c2s, s2c, broken, relayVars, history>>

(* Client.Close, on a signal: a last frame, and the WebSocket is closed.   *)
ClientClose ==
    /\ ~broken
    /\ ToServer(CloseFrame)
    /\ broken' = TRUE
    /\ UNCHANGED <<clientVars, s2c, relayVars, history>>

-----------------------------------------------------------------------------
(* The server.                                                             *)

(* closeStream: a stream that is not in the map is left alone.             *)
CloseAll(S) ==
    /\ streams' = streams \ S
    /\ upstream' = [i \in Ids |-> IF i \in S \cap streams THEN "closed" ELSE upstream[i]]

(* relayLoop: handleControlFrame dials in the loop itself, handleDataFrame *)
(* looks the connection up and writes to it outside of the lock.           *)
Dispatch(f, i) ==
    \/ /\ f.type = "control"
       /\ relay' = [pc |-> "dial", id |-> i, data |-> None]
       /\ UNCHANGED <<streams, upstream, pump>>
    \/ /\ f.type = "data"
       /\ relay' = IF i \in streams THEN [pc |-> "write", id |-> i, data |-> f.data]
                                    ELSE relay
       /\ UNCHANGED <<streams, upstream, pump>>
    \/ /\ f.type = "close"
       /\ CloseAll({i})
       /\ UNCHANGED <<relay, pump>>
    \/ /\ f.type = "bye"
       /\ relay' = [IdleLoop EXCEPT !.pc = "cleanup"]
       /\ UNCHANGED <<streams, upstream, pump>>

RelayRead ==
    /\ relay.pc = "read" /\ c2s # << >>
    /\ c2s' = Tail(c2s)
    /\ LET f == Head(c2s)
       IN  Dispatch(f, IF f.type = "bye" THEN -1 ELSE decodeStreamID(f.head))
    /\ UNCHANGED <<clientVars, s2c, broken, history>>

RelayError ==
    /\ relay.pc = "read" /\ broken
    /\ relay' = [IdleLoop EXCEPT !.pc = "cleanup"]
    /\ UNCHANGED <<clientVars, c2s, s2c, broken, streams, upstream, pump, history>>

(* net.DialTimeout returns: the stream is entered and its pump started, or *)
(* nothing happens, and nobody tells the client.                           *)
Dialled ==
    LET i == relay.id IN
    /\ relay.pc = "dial"
    /\ \/ /\ streams' = streams \cup {i}
          /\ upstream' = [upstream EXCEPT ![i] = "open"]
          /\ pump' = [pump EXCEPT ![i] = "read"]
       \/ UNCHANGED <<streams, upstream, pump>>
    /\ relay' = IdleLoop
    /\ UNCHANGED <<clientVars, c2s, s2c, broken, history>>

(* conn.Write, whose result is ignored                                     *)
WriteUpstream ==
    LET i == relay.id IN
    /\ relay.pc = "write"
    /\ gotUp' = IF upstream[i] = "open"
                  THEN [gotUp EXCEPT ![i] = Append(@, relay.data)] ELSE gotUp
    /\ relay' = IdleLoop
    /\ UNCHANGED <<clientVars, c2s, s2c, broken, streams, upstream, pump,
                   sentUp, sentDown, gotDown, chunks>>

(* Mutation: cleanupSession drops the map and leaves the connections.      *)
CleanupForgets ==
    /\ relay.pc = "cleanup"
    /\ streams' = {}
    /\ relay' = [IdleLoop EXCEPT !.pc = "ended"]
    /\ UNCHANGED <<clientVars, c2s, s2c, broken, upstream, pump, history>>

Cleanup ==
    /\ relay.pc = "cleanup"
    /\ CloseAll(streams)
    /\ relay' = [IdleLoop EXCEPT !.pc = "ended"]
    /\ UNCHANGED <<clientVars, c2s, s2c, broken, pump, history>>

(* The destination closes its end.                                         *)
RemoteGone(i) ==
    /\ upstream[i] = "open"
    /\ upstream' = [upstream EXCEPT ![i] = "gone"]
    /\ UNCHANGED <<clientVars, c2s, s2c, broken, relay, streams, pump, history>>

(* relayUpstream: read a chunk, write it to the WebSocket, and close the   *)
(* stream when either fails.                                               *)
PumpRead(i) ==
    /\ pump[i] = "read" /\ upstream[i] = "open"
    /\ CountChunk
    /\ sentDown' = [sentDown EXCEPT ![i] = @ + 1]
    /\ pump' = [pump EXCEPT ![i] = "hold"]
    /\ UNCHANGED <<clientVars, c2s, s2c, broken, relay, streams, upstream,
                   sentUp, gotUp, gotDown>>

PumpWrite(i) ==
    /\ pump[i] = "hold"
    /\ ~broken /\ Len(s2c) < WireCap
    /\ s2c' = Append(s2c, StreamFrame("data", i, [of |-> i, n |-> sentDown[i]]))
    /\ pump' = [pump EXCEPT ![i] = "read"]
    /\ UNCHANGED <<clientVars, c2s, broken, relay, streams, upstream, history>>

PumpClose(i) ==
    /\ \/ pump[i] = "read" /\ upstream[i] # "open"
       \/ pump[i] = "hold" /\ broken
    /\ CloseAll({i})
    /\ pump' = [pump EXCEPT ![i] = "done"]
    /\ UNCHANGED <<clientVars, c2s, s2c, broken, relay, history>>

-----------------------------------------------------------------------------

(* The network fails: later writes fail, and what is in transit may or may *)
(* not be read before the reader gets its error.                           *)
Break ==
    /\ ~broken
    /\ broken' = TRUE
    /\ UNCHANGED <<clientVars, c2s, s2c, relayVars, history>>

Client(i) == Dial(i) \/ WriteUp(i) \/ HangUp(i)
ReadLoop == Receive \/ ReceiveError \/ PushFails
RelayLoop == RelayRead \/ RelayError \/ Dialled \/ WriteUpstream \/ Cleanup
Pump(i) == PumpRead(i) \/ PumpWrite(i) \/ PumpClose(i)

Next ==
    \/ Register
    \/ ReadLoop
    \/ RelayLoop
    \/ ClientClose
    \/ Break
    \/ \E i \in Ids : \/ Client(i) \/ Pump(i) \/ RemoteGone(i)
                      \/ ReadLocal(i) \/ Forget(i) \/ Consume(i)

Spec == Init /\ [][Next]_vars

(* The goroutines run, the dial times out, a dead WebSocket is noticed (Go *)
(* turns TCP keepalive on), destinations take what is written to them, and *)
(* an application that has data waiting reads it or closes.                *)
FairSpec ==
    /\ Spec
    /\ WF_vars(ReadLoop)
    /\ WF_vars(RelayLoop)
    /\ \A i \in Ids :
        /\ WF_vars(Client(i))
        /\ WF_vars(Pump(i))
        /\ WF_vars(read.id = i /\ (Consume(i) \/ Forget(i)))

-----------------------------------------------------------------------------

(* Each direction of each stream is a channel of its own: what arrives is  *)
(* what was sent on this connection, in order, nothing twice and nothing   *)
(* left out before something that arrives.  The streams share a wire, a    *)
(* map on either side and a loop that dials, and may be cut off at any     *)
(* point.                                                                  *)
Sent(count) == [i \in Ids |-> [k \in 1..count[i] |-> [of |-> i, n |-> k]]]

Up == INSTANCE StreamChannels WITH Chunks <- Chunk, sent <- Sent(sentUp), got <- gotUp
Down == INSTANCE StreamChannels WITH Chunks <- Chunk, sent <- Sent(sentDown), got <- gotDown

StreamsAreChannels == Up!Spec /\ Down!Spec

(* The relay holds no connection to a destination that its map does not    *)
(* know, and none at all once cleanupSession has run, whatever the pumps   *)
(* and the loop were doing when the session ended.                         *)
NoUpstreamLeak ==
    /\ \A i \in Ids : upstream[i] \in {"open", "gone"} => i \in streams
    /\ relay.pc = "ended" => streams = {}

(* A connection that the application has closed is closed towards its      *)
(* destination in the end, however the close frame, the dial and the end   *)
(* of the session fall.  (A connection that is closed stays so.)           *)
ClosedIsReleased ==
    <>[](\A i \in Ids : conn[i] = "closed" => upstream[i] \notin {"open", "gone"})

(* readLoop does not stay stuck in the pipe of one stream: the application *)
(* takes the chunk, or the end of its connection lets readLoop go on with  *)
(* the other streams.                                                      *)
ReadLoopResumes == []<>(read.pc # "push")
=============================================================================
