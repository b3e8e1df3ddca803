----------------------------- MODULE Handshake -----------------------------
(***************************************************************************)
(* How a ShadowLink session comes to be: Client.Connect in                 *)
(* internal/proxy/socks5.go, ServerRelay.HandleConnection in relay.go and  *)
(* the messages of internal/protocol/handshake.go, with the token table of *)
(* the bridge that AuthenticateToken consults on the way.                  *)
(*                                                                         *)
(* Each element of Conns is one WebSocket connection, opened by one run of *)
(* the client and served by one goroutine.  Random values are symbols: the *)
(* key pairs and the challenge of a connection are its own, and a derived  *)
(* key is the record of what it is derived from.                           *)
(***************************************************************************)
EXTENDS Integers, Sequences

CONSTANTS
    Conns,          \* connections
    Tokens,         \* auth tokens
    TokenOf,        \* auth_token of the client behind each connection
    Skew,           \* how far the clock of each client is ahead, in ticks
    TicksPerSecond, \* resolution of the clocks
    Window,         \* TimestampWindow, in seconds
    MaxTime         \* bound: the last tick of the server's clock

ASSUME HandshakeAssumption ==
    /\ TokenOf \in [Conns -> Tokens]
    /\ Skew \in [Conns -> Int]
    /\ TicksPerSecond \in Nat \ {0}
    /\ Window \in Nat
    /\ MaxTime \in Nat

VARIABLES
    now,        \* the clock of the server
    tokens,     \* the tokens that the bridge holds as active
    cli,        \* performHandshake of the client, for each connection
    srv,        \* HandleConnection of the server, for each connection
    up, down,   \* the messages in transit
    open,       \* the WebSocket is intact
    sentAt,     \* history: when the hello was built
    seen        \* history: the token was active at some time since the dial

vars == <<now, tokens, cli, srv, up, down, open, sentAt, seen>>

-----------------------------------------------------------------------------

(* X25519 and HKDF: both ends reach the same secret from one private and   *)
(* one public key; the salt is the timestamp in seconds, to which the      *)
(* challenge is appended for the session key.                              *)
Secret(mine, theirs) == {mine, theirs}
deriveSessionKey(secret, salt) == [secret |-> secret, salt |-> salt]
ClientKP(c) == <<"client", c>>
ServerKP(c) == <<"server", c>>
Challenge(c) == <<"challenge", c>>
NoKey == [secret |-> {}, salt |-> << >>]

(* time.Unix: whole seconds, rounded down.                                 *)
Unix(t) == t \div TicksPerSecond

(* The messages without their padding.                                     *)
ClientHello(c, ts) == [type |-> "hello", ts |-> Unix(ts), pub |-> ClientKP(c)]
ServerHello(c, ts) ==
    [type |-> "serverhello", pub |-> ServerKP(c),
     key |-> deriveSessionKey(Secret(ServerKP(c), ClientKP(c)), <<ts>>),
     challenge |-> Challenge(c)]

ClientAuth(challenge, key, token) ==
    [type |-> "auth", mac |-> <<challenge, key>>, token |-> token]
Ack(text) == [type |-> "ack", text |-> text]

ClientPC == {"off", "hello", "auth", "connected", "failed", "over"}
ServerPC == {"none", "hello", "auth", "check", "ack", "active", "closed"}
Off == [pc |-> "off", ts |-> 0, key |-> NoKey]
NoHandler == [pc |-> "none", ts |-> 0, key |-> NoKey, token |-> "none"]

(* The types of the variables; the two queues never hold more than the     *)
(* answer to a denied client and what came before it.                      *)
TypeOK ==
    /\ now \in 0..MaxTime
    /\ tokens \subseteq Tokens
    /\ \A c \in Conns :
        /\ cli[c].pc \in ClientPC
        /\ srv[c].pc \in ServerPC
        /\ srv[c].token \in Tokens \cup {"none"}
        /\ Len(up[c]) <= 1 /\ Len(down[c]) <= 1
    /\ open \in [Conns -> BOOLEAN]
    /\ sentAt \in [Conns -> 0..MaxTime]
    /\ seen \in [Conns -> BOOLEAN]

Init ==
    /\ now = 0
    /\ tokens \in SUBSET Tokens
    /\ cli = [c \in Conns |-> Off]
    /\ srv = [c \in Conns |-> NoHandler]
    /\ up = [c \in Conns |-> << >>]
    /\ down = [c \in Conns |-> << >>]
    /\ open = [c \in Conns |-> FALSE]
    /\ sentAt = [c \in Conns |-> 0]
    /\ seen = [c \in Conns |-> FALSE]

-----------------------------------------------------------------------------
(* The client.                                                             *)

(* DialWS, then BuildClientHelloWithTime with the clock of the client.     *)
Connect(c) ==
    LET ts == now + Skew[c] IN
    /\ cli[c].pc = "off"
    /\ open' = [open EXCEPT ![c] = TRUE]
    /\ cli' = [cli EXCEPT ![c].pc = "hello", ![c].ts = ts]
    /\ srv' = [srv EXCEPT ![c].pc = "hello"]
    /\ up' = [up EXCEPT ![c] = Append(@, ClientHello(c, ts))]
    /\ sentAt' = [sentAt EXCEPT ![c] = now]
    /\ seen' = [seen EXCEPT ![c] = TokenOf[c] \in tokens]
    /\ UNCHANGED <<now, tokens, down>>

(* The handshake fails: Connect closes the WebSocket and main exits.       *)
ClientFails(c) ==
    /\ cli' = [cli EXCEPT ![c].pc = "failed"]
    /\ open' = [open EXCEPT ![c] = FALSE]

(* Mutation: the timestamp of the salt is not cut to whole seconds.        *)
SaltOfFine(c) == cli[c].ts

SaltOf(c) == Unix(cli[c].ts)

(* ParseServerHello opens the challenge with the temporary key and derives *)
(* the session key; BuildClientAuth answers with an HMAC and the token.    *)
ReadServerHello(c) ==
    LET m      == Head(down[c])
        secret == Secret(ClientKP(c), m.pub)
        key    == deriveSessionKey(secret, <<SaltOf(c), m.challenge>>)
    IN  /\ cli[c].pc = "hello" /\ down[c] # << >>
        /\ down' = [down EXCEPT ![c] = Tail(@)]
        /\ IF open[c] /\ deriveSessionKey(secret, <<SaltOf(c)>>) = m.key
             THEN /\ cli' = [cli EXCEPT ![c].pc = "auth", ![c].key = key]
                  /\ up' = [up EXCEPT ![c] = Append(@, ClientAuth(m.challenge, key, TokenOf[c]))]
                  /\ UNCHANGED open
             ELSE ClientFails(c) /\ UNCHANGED up
        /\ UNCHANGED <<now, tokens, srv, sentAt, seen>>

(* performHandshake reads the answer and does not look at it.              *)
ReadAck(c) ==
    /\ cli[c].pc = "auth" /\ down[c] # << >>
    /\ down' = [down EXCEPT ![c] = Tail(@)]
    /\ cli' = [cli EXCEPT ![c].pc = "connected"]
    /\ UNCHANGED <<now, tokens, srv, up, open, sentAt, seen>>

ClientReadError(c) ==
    /\ cli[c].pc \in {"hello", "auth"} /\ ~open[c]
    /\ ClientFails(c)
    /\ UNCHANGED <<now, tokens, srv, up, down, sentAt, seen>>

(* The first read of readLoop after a denial, or after the connection has  *)
(* broken, fails; what it has read before then is left to Tunnel.          *)
ReadLoopEnds(c) ==
    /\ cli[c].pc = "connected" /\ ~open[c]
    /\ cli' = [cli EXCEPT ![c].pc = "over"]
    /\ UNCHANGED <<now, tokens, srv, up, down, open, sentAt, seen>>

-----------------------------------------------------------------------------
(* The server.                                                             *)

(* Mutation: HandleConnection returns without closing the WebSocket.       *)
ServerFailsOpen(c) ==
    /\ srv' = [srv EXCEPT ![c].pc = "closed"]
    /\ UNCHANGED open

(* performServerHandshake returns an error: HandleConnection closes the    *)
(* WebSocket.                                                              *)
ServerFails(c) ==
    /\ srv' = [srv EXCEPT ![c].pc = "closed"]
    /\ open' = [open EXCEPT ![c] = FALSE]

(* Mutation: the window is taken in the unit of the clock.                 *)
OutsideWindowTicks(ts) == \/ now - ts * TicksPerSecond > Window
                          \/ ts * TicksPerSecond - now > Window

OutsideWindow(ts) == \/ now - ts * TicksPerSecond > Window * TicksPerSecond
                     \/ ts * TicksPerSecond - now > Window * TicksPerSecond

(* ParseClientHello, then BuildServerHello.                                *)
ReadHello(c) ==
    LET m == Head(up[c]) IN
    /\ srv[c].pc = "hello" /\ up[c] # << >>
    /\ up' = [up EXCEPT ![c] = Tail(@)]
    /\ IF OutsideWindow(m.ts) \/ ~open[c]
         THEN ServerFails(c) /\ UNCHANGED down
         ELSE /\ srv' = [srv EXCEPT ![c].pc = "auth", ![c].ts = m.ts,
                            ![c].key = deriveSessionKey(Secret(ServerKP(c), m.pub),
                                                        <<m.ts, Challenge(c)>>)]
              /\ down' = [down EXCEPT ![c] = Append(@, ServerHello(c, m.ts))]
              /\ UNCHANGED open
    /\ UNCHANGED <<now, tokens, cli, sentAt, seen>>

(* ParseClientAuth: the HMAC under the server's own key, then the token.   *)
ReadAuth(c) ==
    LET m == Head(up[c]) IN
    /\ srv[c].pc = "auth" /\ up[c] # << >>
    /\ up' = [up EXCEPT ![c] = Tail(@)]
    /\ IF m.mac = <<Challenge(c), srv[c].key>>
         THEN /\ srv' = [srv EXCEPT ![c].pc = "check", ![c].token = m.token]
              /\ UNCHANGED open
         ELSE ServerFails(c)
    /\ UNCHANGED <<now, tokens, cli, down, sentAt, seen>>

(* Mutation: the result of authFunc is dropped.                            *)
AuthenticateAll(c) ==
    /\ srv[c].pc = "check"
    /\ srv' = [srv EXCEPT ![c].pc = "ack"]
    /\ UNCHANGED <<now, tokens, cli, up, down, open, sentAt, seen>>

(* authFunc is AuthenticateToken of the bridge, under its read lock; the   *)
(* number of connections it returns is dropped.  A client that is denied   *)
(* is told so, and cut off.                                                *)
Authenticate(c) ==
    /\ srv[c].pc = "check"
    /\ IF srv[c].token \in tokens
         THEN /\ srv' = [srv EXCEPT ![c].pc = "ack"]
              /\ UNCHANGED <<down, open>>
         ELSE /\ down' = IF open[c] THEN [down EXCEPT ![c] = Append(@, Ack("DENIED"))] ELSE down
              /\ ServerFails(c)
    /\ UNCHANGED <<now, tokens, cli, up, sentAt, seen>>

(* The acknowledgement; the session becomes active.  No SessionManager is  *)
(* told of it, so their tables stay empty and are not modelled.            *)
SendAck(c) ==
    /\ srv[c].pc = "ack"
    /\ IF open[c]
         THEN /\ down' = [down EXCEPT ![c] = Append(@, Ack("OK"))]
              /\ srv' = [srv EXCEPT ![c].pc = "active"]
              /\ UNCHANGED open
         ELSE ServerFails(c) /\ UNCHANGED down
    /\ UNCHANGED <<now, tokens, cli, up, sentAt, seen>>

(* A read fails: in the handshake, or in relayLoop, which cleanupSession   *)
(* follows.                                                                *)
ServerReadError(c) ==
    /\ srv[c].pc \in {"hello", "auth", "active"} /\ ~open[c]
    /\ srv' = [srv EXCEPT ![c].pc = "closed"]
    /\ UNCHANGED <<now, tokens, cli, up, down, open, sentAt, seen>>

-----------------------------------------------------------------------------

(* The bridge suspends, deletes, registers or activates a token.           *)
SetToken(t) ==
    /\ tokens' = IF t \in tokens THEN tokens \ {t} ELSE tokens \cup {t}
    /\ seen' = [c \in Conns |->
                  seen[c] \/ (cli[c].pc # "off" /\ TokenOf[c] = t /\ t \in tokens')]
    /\ UNCHANGED <<now, cli, srv, up, down, open, sentAt>>

(* The network, the client or the server process fails, or the client      *)
(* hangs up.                                                               *)
Break(c) ==
    /\ open[c]
    /\ open' = [open EXCEPT ![c] = FALSE]
    /\ UNCHANGED <<now, tokens, cli, srv, up, down, sentAt, seen>>

Tick ==
    /\ now < MaxTime
    /\ now' = now + 1
    /\ UNCHANGED <<tokens, cli, srv, up, down, open, sentAt, seen>>

ClientStep(c) == ReadServerHello(c) \/ ReadAck(c) \/ ClientReadError(c) \/ ReadLoopEnds(c)
ServerStep(c) == \/ ReadHello(c) \/ ReadAuth(c) \/ Authenticate(c)
                 \/ SendAck(c) \/ ServerReadError(c)

Next ==
    \/ Tick
    \/ \E t \in Tokens : SetToken(t)
    \/ \E c \in Conns : Connect(c) \/ ClientStep(c) \/ ServerStep(c) \/ Break(c)

Spec == Init /\ [][Next]_vars

(* The goroutines of both ends run.                                        *)
FairSpec == Spec /\ \A c \in Conns : WF_vars(ClientStep(c)) /\ WF_vars(ServerStep(c))

-----------------------------------------------------------------------------

(* Client and server agree on the keys although each side derives them     *)
(* from its own copy of the timestamp and they never compare them: as long *)
(* as the WebSocket holds, the client can open the challenge and the       *)
(* server can verify the HMAC, and a session that becomes active has one   *)
(* key at both ends and the token of its client.                           *)
KeysAgree ==
    [][\A c \in Conns :
         /\ open[c] => /\ ~(cli[c].pc = "hello" /\ cli'[c].pc = "failed")
                       /\ ~(srv[c].pc = "auth" /\ srv'[c].pc = "closed")
         /\ srv'[c].pc = "active" => srv'[c].key = cli[c].key /\ srv'[c].token = TokenOf[c]]_vars

(* A session is only ever opened for a token that the bridge held as       *)
(* active at some time since the client dialled: one that was suspended    *)
(* before and stays so never gets in, however the suspension and the       *)
(* handshake interleave.                                                   *)
AdmittedSinceDial ==
    \A c \in Conns : srv[c].pc \in {"ack", "active"} => seen[c]

(* A hello is turned down for its timestamp only when the delay and the    *)
(* difference of the clocks really exceed the window, less the second that *)
(* the rounding of the timestamp may cost: ParseClientHello measures with  *)
(* the server's clock a timestamp cut by the client's.                     *)
PunctualIsHeard ==
    [][\A c \in Conns :
         srv[c].pc = "hello" /\ srv'[c].pc = "closed" /\ open[c]
         => LET late == now - (sentAt[c] + Skew[c])
            IN  \/ late > (Window - 1) * TicksPerSecond
                \/ -late > Window * TicksPerSecond]_vars

(* In the end both sides take the session to be there, or neither does:    *)
(* every way in which one end gives up closes the WebSocket, and the other *)
(* one notices, the client too that took a denial for an acknowledgement   *)
(* and began to serve (performHandshake, HandleConnection).                *)
EndsAgree ==
    <>[](\A c \in Conns : cli[c].pc # "off" =>
            <<cli[c].pc, srv[c].pc>> \in {<<"connected", "active">>, <<"over", "closed">>,
                                         <<"failed", "closed">>})
=============================================================================
