--------------------------- MODULE Session_proofs ---------------------------
(***************************************************************************)
(* Proofs about a session of ShadowLink: Handshake, for any clients,       *)
(* tokens, clocks and window, and SecureChannel, for any number of         *)
(* writers, payloads and paddings.                                         *)
(***************************************************************************)
EXTENDS Handshake, SecureChannel, SequenceTheorems, TLAPS

-----------------------------------------------------------------------------
(* Handshake: what the two ends of a connection derive and send.           *)

SessionKey(c, ts) == deriveSessionKey(Secret(ServerKP(c), ClientKP(c)), <<ts, Challenge(c)>>)
SessionKeys == {SessionKey(p[1], p[2]) : p \in Conns \X Int} \cup {NoKey}
Key(c) == SessionKey(c, SaltOf(c))

Hello(c) == ClientHello(c, cli[c].ts)
Reply(c) == ServerHello(c, SaltOf(c))
Auth(c) == ClientAuth(Challenge(c), Key(c), TokenOf[c])

Messages ==
    {ClientHello(p[1], p[2]) : p \in Conns \X Int}
        \cup {ServerHello(p[1], p[2]) : p \in Conns \X Int}
        \cup {ClientAuth(Challenge(p[1]), p[2], TokenOf[p[1]]) : p \in Conns \X SessionKeys}
        \cup {Ack("OK"), Ack("DENIED")}

-----------------------------------------------------------------------------
(* The inductive invariant.                                                *)

Client == [pc : ClientPC, ts : Int, key : SessionKeys]
Server == [pc : ServerPC, ts : Int, key : SessionKeys, token : Tokens \cup {"none"}]

Typed ==
    /\ now \in Int
    /\ cli \in [Conns -> Client]
    /\ srv \in [Conns -> Server]
    /\ up \in [Conns -> Seq(Messages)] /\ down \in [Conns -> Seq(Messages)]
    /\ open \in [Conns -> BOOLEAN]
    /\ seen \in [Conns -> BOOLEAN]

(* Where the server is determines what is in transit and how far the       *)
(* client can be.                                                          *)
InStep(c) ==
    /\ srv[c].pc = "none" => cli[c].pc = "off" /\ up[c] = << >> /\ down[c] = << >>
    /\ srv[c].pc # "none" => cli[c].pc # "off"
    /\ srv[c].pc = "hello" =>
        up[c] = <<Hello(c)>> /\ down[c] = << >> /\ cli[c].pc \in {"hello", "failed"}
    /\ srv[c].pc = "auth" =>
        \/ up[c] = << >> /\ down[c] = <<Reply(c)>> /\ cli[c].pc \in {"hello", "failed"}
        \/ up[c] = << >> /\ down[c] = << >> /\ cli[c].pc = "failed"
        \/ /\ up[c] = <<Auth(c)>> /\ down[c] = << >>
           /\ cli[c].pc \in {"auth", "failed"} /\ cli[c].key = Key(c)
    /\ srv[c].pc \in {"check", "ack"} =>
        up[c] = << >> /\ down[c] = << >> /\ cli[c].pc \in {"auth", "failed"}
    /\ srv[c].pc = "active" =>
        up[c] = << >> /\ cli[c].pc \in {"auth", "failed", "connected", "over"}
    /\ srv[c].pc \in {"auth", "check", "ack", "active"} => srv[c].key = Key(c)
    /\ srv[c].pc \in {"check", "ack", "active"} =>
        cli[c].key = Key(c) /\ srv[c].token = TokenOf[c]
    /\ srv[c].pc = "closed" => ~open[c]

SeenActive(c) ==
    /\ cli[c].pc # "off" /\ TokenOf[c] \in tokens => seen[c]
    /\ srv[c].pc \in {"ack", "active"} => seen[c]

Inv == Typed /\ \A c \in Conns : InStep(c) /\ SeenActive(c)

-----------------------------------------------------------------------------

(* Both ends reach the same secret.                                        *)
LEMMA SameSecret == \A a, b : Secret(a, b) = Secret(b, a)
  BY DEF Secret

(* A timestamp in seconds is an integer.                                   *)
LEMMA UnixType == \A t \in Int : Unix(t) \in Int
  BY HandshakeAssumption DEF Unix

(* A queue of one message.                                                 *)
LEMMA OneMessage ==
    \A m : Append(<< >>, m) = <<m>> /\ Head(<<m>>) = m /\ Tail(<<m>>) = << >> /\ <<m>> # << >>
  OBVIOUS

(* The keys of a connection are keys.                                      *)
LEMMA KeyType == ASSUME Typed, NEW c \in Conns PROVE Key(c) \in SessionKeys /\ SaltOf(c) \in Int
  <1>1. SaltOf(c) \in Int
    BY UnixType DEF Typed, Client, SaltOf
  <1>2. <<c, SaltOf(c)>> \in Conns \X Int
    BY <1>1
  <1> QED
    BY <1>1, <1>2 DEF Key, SessionKeys

(* What the two ends send are messages.                                    *)
LEMMA MessageType ==
    ASSUME Typed, NEW c \in Conns
    PROVE  /\ Hello(c) \in Messages /\ Reply(c) \in Messages /\ Auth(c) \in Messages
           /\ \A ts \in Int : ClientHello(c, ts) \in Messages
           /\ Ack("OK") \in Messages /\ Ack("DENIED") \in Messages
  <1>1. cli[c].ts \in Int /\ SaltOf(c) \in Int /\ Key(c) \in SessionKeys
    BY KeyType DEF Typed, Client
  <1>2. \A ts \in Int : ClientHello(c, ts) \in Messages
    <2> TAKE ts \in Int
    <2>1. <<c, ts>> \in Conns \X Int
      OBVIOUS
    <2> QED
      BY <2>1 DEF Messages
  <1>3. Reply(c) \in Messages
    <2>1. <<c, SaltOf(c)>> \in Conns \X Int
      BY <1>1
    <2> QED
      BY <2>1 DEF Messages, Reply
  <1>4. Auth(c) \in Messages
    <2>1. <<c, Key(c)>> \in Conns \X SessionKeys
      BY <1>1
    <2> QED
      BY <2>1 DEF Messages, Auth
  <1> QED
    BY <1>1, <1>2, <1>3, <1>4 DEF Hello, Messages

(* The client stays well typed when it moves on.                           *)
LEMMA ClientMoves ==
    ASSUME Typed, NEW c \in Conns, NEW pc \in ClientPC, cli' = [cli EXCEPT ![c].pc = pc]
    PROVE  cli' \in [Conns -> Client]
  BY DEF Typed, Client

LEMMA ClientDials ==
    ASSUME Typed, NEW c \in Conns, NEW ts \in Int,
           cli' = [cli EXCEPT ![c].pc = "hello", ![c].ts = ts]
    PROVE  cli' \in [Conns -> Client]
  <1>1. [cli[c] EXCEPT !.pc = "hello", !.ts = ts] \in Client
    BY DEF Typed, Client, ClientPC
  <1>2. cli' = [cli EXCEPT ![c] = [cli[c] EXCEPT !.pc = "hello", !.ts = ts]]
    BY DEF Typed
  <1> QED
    BY <1>1, <1>2 DEF Typed

LEMMA ClientLearns ==
    ASSUME Typed, NEW c \in Conns, NEW k \in SessionKeys,
           cli' = [cli EXCEPT ![c].pc = "auth", ![c].key = k]
    PROVE  cli' \in [Conns -> Client]
  <1>1. [cli[c] EXCEPT !.pc = "auth", !.key = k] \in Client
    BY DEF Typed, Client, ClientPC
  <1>2. cli' = [cli EXCEPT ![c] = [cli[c] EXCEPT !.pc = "auth", !.key = k]]
    BY DEF Typed
  <1> QED
    BY <1>1, <1>2 DEF Typed

(* Keys and messages depend on the timestamp alone.                        *)
LEMMA SameMessages ==
    ASSUME NEW c \in Conns, cli'[c].ts = cli[c].ts
    PROVE  /\ SaltOf(c)' = SaltOf(c) /\ Key(c)' = Key(c)
           /\ Hello(c)' = Hello(c) /\ Reply(c)' = Reply(c) /\ Auth(c)' = Auth(c)
  <1>1. SaltOf(c)' = SaltOf(c) /\ Hello(c)' = Hello(c)
    BY DEF SaltOf, Hello
  <1>2. Key(c)' = Key(c) /\ Reply(c)' = Reply(c)
    BY <1>1 DEF Key, Reply
  <1> QED
    BY <1>1, <1>2 DEF Auth

(* A step that leaves a connection and the tokens alone keeps its part.    *)
LEMMA Undisturbed ==
    ASSUME NEW c \in Conns, InStep(c), SeenActive(c),
           cli'[c] = cli[c], srv'[c] = srv[c], up'[c] = up[c], down'[c] = down[c],
           open'[c] = open[c], seen'[c] = seen[c], tokens' = tokens
    PROVE  InStep(c)' /\ SeenActive(c)'
  BY DEF InStep, SeenActive, Hello, Reply, Auth, Key, SaltOf

(* Before the first dial everything is at rest.                            *)
LEMMA InvInit == Init => Inv
  BY DEF Init, Inv, Typed, Client, Server, InStep, SeenActive, Off, NoHandler, ClientPC, ServerPC, SessionKeys

-----------------------------------------------------------------------------
(* Every step of the client keeps the invariant.                           *)

(* A dial sends the hello.                                                 *)
LEMMA ConnectKeeps == ASSUME Inv, NEW c \in Conns, Connect(c) PROVE Inv'
  <1> USE DEF Connect
  <1>1. cli[c].pc = "off" /\ srv[c].pc = "none" /\ up[c] = << >> /\ down[c] = << >>
    BY DEF Inv, Typed, Client, Server, InStep
  <1>2. Skew[c] \in Int
    BY HandshakeAssumption
  <1>3. Typed'
    <2>0. now + Skew[c] \in Int
      BY <1>2 DEF Inv, Typed
    <2>1. cli' \in [Conns -> Client]
      BY <2>0, ClientDials DEF Inv
    <2>2. srv' \in [Conns -> Server]
      BY DEF Inv, Typed, Server, ServerPC
    <2>3. ClientHello(c, now + Skew[c]) \in Messages
      BY <1>2, MessageType DEF Inv, Typed, Client, Server
    <2>4. up' \in [Conns -> Seq(Messages)]
      BY <2>3 DEF Inv, Typed, Client, Server
    <2>5. open' \in [Conns -> BOOLEAN] 
      BY DEF Inv, Typed, Client, Server
    <2>6. seen' \in [Conns -> BOOLEAN]
      BY DEF Inv, Typed, Client, Server
    <2> QED
      BY <2>1, <2>2, <2>4, <2>5, <2>6 DEF Inv, Typed, Client, Server
  <1>4. cli'[c].pc = "hello" /\ cli'[c].ts = now + Skew[c] /\ srv'[c].pc = "hello"
    BY DEF Inv, Typed, Client, Server
  <1>5. up'[c] = <<Hello(c)'>> /\ down'[c] = << >>
    BY <1>1, <1>4, OneMessage DEF Inv, Typed, Client, Server, Hello
  <1>6. InStep(c)' /\ SeenActive(c)'
    BY <1>4, <1>5 DEF Inv, Typed, Client, Server, InStep, SeenActive
  <1>7. ASSUME NEW d \in Conns \ {c} PROVE InStep(d)' /\ SeenActive(d)'
    <2>1. d \in Conns /\ InStep(d) /\ SeenActive(d)
      BY DEF Inv
    <2> QED
      BY <2>1, Undisturbed DEF Inv, Typed, Client, Server
  <1> QED
    BY <1>3, <1>6, <1>7 DEF Inv

(* The reply opens with the key that the client derives by itself.         *)
LEMMA ReplyOpens ==
    ASSUME NEW c \in Conns, down[c] = <<Reply(c)>>
    PROVE  LET m      == Head(down[c])
               secret == Secret(ClientKP(c), m.pub)
           IN  /\ deriveSessionKey(secret, <<SaltOf(c)>>) = m.key
               /\ deriveSessionKey(secret, <<SaltOf(c), m.challenge>>) = Key(c)
               /\ m.challenge = Challenge(c)
  BY OneMessage, SameSecret DEF Reply, ServerHello, Key, SessionKey

LEMMA ReadServerHelloKeeps ==
    ASSUME Inv, NEW c \in Conns, ReadServerHello(c) PROVE Inv'
  <1> USE DEF ReadServerHello, ClientFails
  <1>1. cli[c].pc = "hello" /\ down[c] # << >> /\ Typed /\ InStep(c) /\ SeenActive(c)
    BY DEF Inv
  <1>2. srv' = srv /\ seen' = seen /\ tokens' = tokens /\ now' = now
    OBVIOUS
  <1>3. cli'[c].ts = cli[c].ts
    BY <1>1 DEF Typed, Client, Server
  <1>4. CASE open[c]
    <2>1. srv[c].pc = "auth" /\ up[c] = << >> /\ down[c] = <<Reply(c)>>
      BY <1>1, <1>4 DEF InStep, Typed, Client, Server, ServerPC
    <2>2. /\ cli' = [cli EXCEPT ![c].pc = "auth", ![c].key = Key(c)]
          /\ up' = [up EXCEPT ![c] = Append(@, Auth(c))]
          /\ down' = [down EXCEPT ![c] = Tail(@)] /\ open' = open
      BY <1>4, <2>1, ReplyOpens DEF Auth
    <2>3. Typed'
      <3>1. Key(c) \in SessionKeys
        BY <1>1, KeyType
      <3>2. cli' \in [Conns -> Client]
        BY <1>1, <2>2, <3>1, ClientLearns
      <3>3. up' \in [Conns -> Seq(Messages)] /\ down' \in [Conns -> Seq(Messages)]
        BY <1>1, <2>2, MessageType DEF Typed, Client, Server
      <3> QED
        BY <1>1, <1>2, <2>2, <3>2, <3>3 DEF Typed, Client, Server
    <2>4. cli'[c].pc = "auth" /\ cli'[c].key = Key(c) /\ up'[c] = <<Auth(c)>> /\ down'[c] = << >>
      BY <1>1, <2>1, <2>2, OneMessage DEF Typed, Client, Server
    <2>5. InStep(c)' /\ SeenActive(c)'
      BY <1>1, <1>2, <1>3, <2>1, <2>4, SameMessages DEF InStep, SeenActive
    <2>6. ASSUME NEW d \in Conns \ {c} PROVE InStep(d)' /\ SeenActive(d)'
      <3>1. d \in Conns /\ InStep(d) /\ SeenActive(d)
        BY DEF Inv
      <3> QED
        BY <1>1, <1>2, <2>2, <3>1, Undisturbed DEF Typed, Client, Server
    <2> QED
      BY <2>3, <2>5, <2>6 DEF Inv
  <1>5. CASE ~open[c]
    <2>1. /\ cli' = [cli EXCEPT ![c].pc = "failed"] /\ open' = [open EXCEPT ![c] = FALSE]
          /\ down' = [down EXCEPT ![c] = Tail(@)] /\ up' = up
      BY <1>5
    <2>2. Typed'
      <3>0. "failed" \in ClientPC
        BY DEF ClientPC
      <3>1. cli' \in [Conns -> Client]
        BY <1>1, <2>1, <3>0, ClientMoves
      <3>2. down' \in [Conns -> Seq(Messages)]
        BY <1>1, <2>1 DEF Typed, Client, Server
      <3>3. open' \in [Conns -> BOOLEAN]
        BY <1>1, <2>1 DEF Typed, Client, Server
      <3> QED
        BY <1>1, <1>2, <2>1, <3>1, <3>2, <3>3 DEF Typed, Client, Server
    <2>3. cli'[c].pc = "failed" /\ cli'[c].key = cli[c].key /\ ~open'[c]
      BY <1>1, <2>1 DEF Typed, Client, Server
    <2>4. down[c] = <<Reply(c)>> => down'[c] = << >>
      BY <1>1, <2>1, OneMessage DEF Typed, Client, Server
    <2>5. srv[c].pc \in {"auth", "closed"}
      BY <1>1 DEF InStep, Typed, Client, Server, ServerPC
    <2>6. srv[c].pc = "auth" => up[c] = << >> /\ down[c] = <<Reply(c)>>
      BY <1>1 DEF InStep
    <2>7. InStep(c)' /\ SeenActive(c)'
      BY <1>1, <1>2, <1>3, <2>1, <2>3, <2>4, <2>5, <2>6, SameMessages DEF InStep, SeenActive
    <2>8. ASSUME NEW d \in Conns \ {c} PROVE InStep(d)' /\ SeenActive(d)'
      <3>1. d \in Conns /\ InStep(d) /\ SeenActive(d)
        BY DEF Inv
      <3> QED
        BY <1>1, <1>2, <2>1, <3>1, Undisturbed DEF Typed, Client, Server
    <2> QED
      BY <2>2, <2>7, <2>8 DEF Inv
  <1> QED
    BY <1>4, <1>5

(* The other steps of the client only lead on or give up.                  *)
LEMMA ClientEndsKeep ==
    ASSUME Inv, NEW c \in Conns, ReadAck(c) \/ ClientReadError(c) \/ ReadLoopEnds(c)
    PROVE  Inv'
  <1> USE DEF ReadAck, ClientReadError, ReadLoopEnds, ClientFails
  <1>1. Typed /\ InStep(c) /\ SeenActive(c)
    BY DEF Inv
  <1>2. srv' = srv /\ seen' = seen /\ tokens' = tokens /\ now' = now /\ up' = up
    OBVIOUS
  <1>3. Typed'
    <2>0. PICK pc \in {"connected", "failed", "over"} : cli' = [cli EXCEPT ![c].pc = pc]
      OBVIOUS
    <2>1. cli' \in [Conns -> Client]
      BY <1>1, <2>0, ClientMoves DEF ClientPC
    <2>2. down' = down \/ (down[c] # << >> /\ down' = [down EXCEPT ![c] = Tail(@)])
      OBVIOUS
    <2>4. down' \in [Conns -> Seq(Messages)]
      <3> HIDE DEF ReadAck, ClientReadError, ReadLoopEnds
      <3>1. down[c] # << >> => Tail(down[c]) \in Seq(Messages)
        BY <1>1 DEF Typed
      <3> QED
        BY <1>1, <2>2, <3>1 DEF Typed
    <2>3. open' \in [Conns -> BOOLEAN]
      BY <1>1 DEF Typed, Client, Server
    <2> QED
      BY <1>1, <1>2, <2>1, <2>3, <2>4 DEF Typed
  <1>4. /\ cli'[c].ts = cli[c].ts /\ cli'[c].key = cli[c].key
        /\ cli'[c].pc \in {"connected", "failed", "over"}
        /\ cli'[c].pc = "connected" => cli[c].pc = "auth" /\ down[c] # << >>
        /\ cli'[c].pc = "failed" => down'[c] = down[c] /\ cli[c].pc # "off" /\ ~open'[c]
        /\ cli'[c].pc = "over" => down'[c] = down[c] /\ cli[c].pc = "connected"
    BY <1>1 DEF Typed, Client, Server
  <1>5. ~open[c] => ~open'[c]
    BY <1>1 DEF Typed, Client, Server
  <1>6. SaltOf(c)' = SaltOf(c) /\ Key(c)' = Key(c)
        /\ Hello(c)' = Hello(c) /\ Reply(c)' = Reply(c) /\ Auth(c)' = Auth(c)
    BY <1>4, SameMessages
  <1>7. InStep(c)' /\ SeenActive(c)'
    BY <1>1, <1>2, <1>4, <1>5, <1>6 DEF InStep, SeenActive
  <1>8. ASSUME NEW d \in Conns \ {c} PROVE InStep(d)' /\ SeenActive(d)'
    <2>1. d \in Conns /\ InStep(d) /\ SeenActive(d)
      BY DEF Inv
    <2> QED
      BY <1>1, <1>2, <2>1, Undisturbed DEF Typed, Client, Server
  <1> QED
    BY <1>3, <1>7, <1>8 DEF Inv

-----------------------------------------------------------------------------
(* Every step of the server keeps the invariant.                           *)

(* The server stays well typed when it moves on, or closes.                *)
LEMMA ServerMoves ==
    ASSUME Typed, NEW c \in Conns, NEW pc \in ServerPC, srv' = [srv EXCEPT ![c].pc = pc]
    PROVE  srv' \in [Conns -> Server]
  BY DEF Typed, Server

LEMMA ServerLearns ==
    ASSUME Typed, NEW c \in Conns, NEW ts \in Int, NEW k \in SessionKeys,
           srv' = [srv EXCEPT ![c].pc = "auth", ![c].ts = ts, ![c].key = k]
    PROVE  srv' \in [Conns -> Server]
  <1>1. [srv[c] EXCEPT !.pc = "auth", !.ts = ts, !.key = k] \in Server
    BY DEF Typed, Server, ServerPC
  <1>2. srv' = [srv EXCEPT ![c] = [srv[c] EXCEPT !.pc = "auth", !.ts = ts, !.key = k]]
    BY DEF Typed
  <1> QED
    BY <1>1, <1>2 DEF Typed

(* HandleConnection may give up at any point.                              *)
LEMMA ServerClosesKeeps ==
    ASSUME Inv, NEW c \in Conns, srv[c].pc # "none",
           srv' = [srv EXCEPT ![c].pc = "closed"],
           up' \in [Conns -> Seq(Messages)], down' \in [Conns -> Seq(Messages)],
           open' \in [Conns -> BOOLEAN], ~open'[c],
           \A d \in Conns \ {c} : up'[d] = up[d] /\ down'[d] = down[d] /\ open'[d] = open[d],
           cli' = cli, seen' = seen, tokens' = tokens, now' = now
    PROVE  Inv'
  <1>1. Typed /\ InStep(c) /\ SeenActive(c)
    BY DEF Inv
  <1>2. "closed" \in ServerPC
    BY DEF ServerPC
  <1>3. Typed'
    BY <1>1, <1>2, ServerMoves DEF Typed
  <1>4. srv'[c].pc = "closed"
    BY <1>1 DEF Typed, Server
  <1>5. InStep(c)' /\ SeenActive(c)'
    BY <1>1, <1>4 DEF InStep, SeenActive
  <1>6. ASSUME NEW d \in Conns \ {c} PROVE InStep(d)' /\ SeenActive(d)'
    <2>1. d \in Conns /\ InStep(d) /\ SeenActive(d) /\ srv'[d] = srv[d]
      BY <1>1 DEF Inv, Typed
    <2> QED
      BY <2>1, Undisturbed
  <1> QED
    BY <1>3, <1>5, <1>6 DEF Inv

LEMMA ReadHelloKeeps == ASSUME Inv, NEW c \in Conns, ReadHello(c) PROVE Inv'
  <1>1. Typed /\ InStep(c) /\ SeenActive(c) /\ srv[c].pc = "hello"
    BY DEF Inv, ReadHello
  <1>2. up[c] = <<Hello(c)>> /\ down[c] = << >>
    BY <1>1 DEF InStep
  <1>3. cli' = cli /\ seen' = seen /\ tokens' = tokens /\ now' = now
        /\ up' = [up EXCEPT ![c] = Tail(@)]
    BY DEF ReadHello
  <1>4. up'[c] = << >> /\ up' \in [Conns -> Seq(Messages)]
    BY <1>1, <1>2, <1>3, OneMessage DEF Typed
  <1>5. CASE OutsideWindow(Head(up[c]).ts) \/ ~open[c]
    <2>1. ServerFails(c) /\ down' = down
      BY <1>5 DEF ReadHello
    <2> QED
      BY <1>1, <1>3, <1>4, <2>1, ServerClosesKeeps DEF ServerFails, Typed
  <1>6. CASE ~(OutsideWindow(Head(up[c]).ts) \/ ~open[c])
    <2>1. Head(up[c]).ts = SaltOf(c) /\ Head(up[c]).pub = ClientKP(c)
      BY <1>2, OneMessage DEF Hello, ClientHello, SaltOf
    <2>2. /\ srv' = [srv EXCEPT ![c].pc = "auth", ![c].ts = SaltOf(c), ![c].key = Key(c)]
          /\ down' = [down EXCEPT ![c] = Append(@, Reply(c))] /\ open' = open
      BY <1>6, <2>1 DEF ReadHello, Reply, Key, SessionKey
    <2>3. srv' \in [Conns -> Server]
      BY <1>1, <2>2, KeyType, ServerLearns
    <2>4. down' \in [Conns -> Seq(Messages)] /\ down'[c] = <<Reply(c)>>
      BY <1>1, <1>2, <2>2, MessageType, OneMessage DEF Typed
    <2>5. Typed'
      BY <1>1, <1>3, <1>4, <2>2, <2>3, <2>4 DEF Typed
    <2>6. srv'[c].pc = "auth" /\ srv'[c].key = Key(c)
      BY <1>1, <2>2 DEF Typed, Server
    <2>7. InStep(c)' /\ SeenActive(c)'
      BY <1>1, <1>3, <1>4, <2>4, <2>6, SameMessages DEF InStep, SeenActive
    <2>8. ASSUME NEW d \in Conns \ {c} PROVE InStep(d)' /\ SeenActive(d)'
      <3>1. d \in Conns /\ InStep(d) /\ SeenActive(d) /\ srv'[d] = srv[d]
        BY <1>1, <2>2 DEF Inv, Typed
      <3> QED
        BY <1>1, <1>3, <2>2, <3>1, Undisturbed DEF Typed
    <2> QED
      BY <2>5, <2>7, <2>8 DEF Inv
  <1> QED
    BY <1>5, <1>6

(* The HMAC that the client sends is the one that the server computes.     *)
LEMMA MacVerifies ==
    ASSUME Inv, NEW c \in Conns, srv[c].pc = "auth", up[c] # << >>
    PROVE  /\ up[c] = <<Auth(c)>> /\ down[c] = << >>
           /\ Head(up[c]).mac = <<Challenge(c), srv[c].key>>
           /\ Head(up[c]).token = TokenOf[c]
           /\ cli[c].pc \in {"auth", "failed"} /\ cli[c].key = Key(c)
  <1>1. InStep(c)
    BY DEF Inv
  <1>2. up[c] = <<Auth(c)>> /\ srv[c].key = Key(c)
    BY <1>1 DEF InStep
  <1> QED
    BY <1>1, <1>2, OneMessage DEF InStep, Auth, ClientAuth

LEMMA ReadAuthKeeps == ASSUME Inv, NEW c \in Conns, ReadAuth(c) PROVE Inv'
  <1>1. Typed /\ InStep(c) /\ SeenActive(c) /\ srv[c].pc = "auth" /\ up[c] # << >>
    BY DEF Inv, ReadAuth
  <1>2. /\ srv' = [srv EXCEPT ![c].pc = "check", ![c].token = TokenOf[c]]
        /\ up' = [up EXCEPT ![c] = Tail(@)]
        /\ cli' = cli /\ seen' = seen /\ tokens' = tokens /\ now' = now
        /\ down' = down /\ open' = open
    BY <1>1, MacVerifies DEF ReadAuth
  <1>3. TokenOf[c] \in Tokens
    BY HandshakeAssumption
  <1>4. srv' \in [Conns -> Server]
    <2>1. [srv[c] EXCEPT !.pc = "check", !.token = TokenOf[c]] \in Server
      BY <1>1, <1>3 DEF Typed, Server, ServerPC
    <2>2. srv' = [srv EXCEPT ![c] = [srv[c] EXCEPT !.pc = "check", !.token = TokenOf[c]]]
      BY <1>1, <1>2 DEF Typed
    <2> QED
      BY <1>1, <2>1, <2>2 DEF Typed
  <1>5. up' \in [Conns -> Seq(Messages)] /\ up'[c] = << >>
    <2>1. up[c] = <<Auth(c)>>
      BY <1>1, MacVerifies
    <2>2. Tail(up[c]) = << >>
      BY <2>1, OneMessage
    <2> QED
      BY <1>1, <1>2, <2>2 DEF Typed
  <1>6. Typed'
    BY <1>1, <1>2, <1>4, <1>5 DEF Typed
  <1>7. srv'[c].pc = "check" /\ srv'[c].key = srv[c].key /\ srv'[c].token = TokenOf[c]
    BY <1>1, <1>2 DEF Typed, Server
  <1>8. InStep(c)' /\ SeenActive(c)'
    BY <1>1, <1>2, <1>5, <1>7, MacVerifies, SameMessages DEF InStep, SeenActive
  <1>9. ASSUME NEW d \in Conns \ {c} PROVE InStep(d)' /\ SeenActive(d)'
    <2>1. d \in Conns /\ InStep(d) /\ SeenActive(d) /\ srv'[d] = srv[d]
      BY <1>1, <1>2 DEF Inv, Typed
    <2> QED
      BY <1>1, <1>2, <2>1, Undisturbed DEF Typed
  <1> QED
    BY <1>6, <1>8, <1>9 DEF Inv
(* authFunc admits only a token that is active now, so it has been since.  *)
LEMMA AuthenticateKeeps == ASSUME Inv, NEW c \in Conns, Authenticate(c) PROVE Inv'
  <1>1. Typed /\ InStep(c) /\ SeenActive(c) /\ srv[c].pc = "check"
    BY DEF Inv, Authenticate
  <1>2. /\ up[c] = << >> /\ down[c] = << >> /\ cli[c].pc \in {"auth", "failed"}
        /\ cli[c].key = Key(c) /\ srv[c].key = Key(c) /\ srv[c].token = TokenOf[c]
    BY <1>1 DEF InStep
  <1>3. cli' = cli /\ seen' = seen /\ tokens' = tokens /\ now' = now /\ up' = up
    BY DEF Authenticate
  <1>4. CASE srv[c].token \in tokens
    <2>1. srv' = [srv EXCEPT ![c].pc = "ack"] /\ down' = down /\ open' = open
      BY <1>4 DEF Authenticate
    <2>2. "ack" \in ServerPC
      BY DEF ServerPC
    <2>3. Typed'
      BY <1>1, <1>3, <2>1, <2>2, ServerMoves DEF Typed
    <2>4. srv'[c].pc = "ack" /\ srv'[c].key = srv[c].key /\ srv'[c].token = srv[c].token
      BY <1>1, <2>1 DEF Typed, Server
    <2>5. seen[c]
      BY <1>1, <1>2, <1>4 DEF SeenActive
    <2>6. InStep(c)' /\ SeenActive(c)'
      BY <1>1, <1>2, <1>3, <2>1, <2>4, <2>5, SameMessages DEF InStep, SeenActive
    <2>7. ASSUME NEW d \in Conns \ {c} PROVE InStep(d)' /\ SeenActive(d)'
      <3>1. d \in Conns /\ InStep(d) /\ SeenActive(d) /\ srv'[d] = srv[d]
        BY <1>1, <2>1 DEF Inv, Typed
      <3> QED
        BY <1>3, <2>1, <3>1, Undisturbed
    <2> QED
      BY <2>3, <2>6, <2>7 DEF Inv
  <1>5. CASE srv[c].token \notin tokens
    <2>1. /\ down' = IF open[c] THEN [down EXCEPT ![c] = Append(@, Ack("DENIED"))] ELSE down
          /\ ServerFails(c)
      BY <1>5 DEF Authenticate
    <2>2. down' \in [Conns -> Seq(Messages)]
      <3>1. Ack("DENIED") \in Messages
        BY <1>1, MessageType
      <3> QED
        BY <1>1, <2>1, <3>1 DEF Typed
    <2>3. \A d \in Conns \ {c} : down'[d] = down[d]
      BY <1>1, <2>1 DEF Typed
    <2> QED
      BY <1>1, <1>3, <2>1, <2>2, <2>3, ServerClosesKeeps DEF ServerFails, Typed
  <1> QED
    BY <1>4, <1>5

LEMMA SendAckKeeps == ASSUME Inv, NEW c \in Conns, SendAck(c) PROVE Inv'
  <1>1. Typed /\ InStep(c) /\ SeenActive(c) /\ srv[c].pc = "ack"
    BY DEF Inv, SendAck
  <1>2. /\ up[c] = << >> /\ down[c] = << >> /\ cli[c].pc \in {"auth", "failed"}
        /\ cli[c].key = Key(c) /\ srv[c].key = Key(c) /\ srv[c].token = TokenOf[c]
    BY <1>1 DEF InStep
  <1>3. cli' = cli /\ seen' = seen /\ tokens' = tokens /\ now' = now /\ up' = up
    BY DEF SendAck
  <1>4. CASE open[c]
    <2>1. /\ srv' = [srv EXCEPT ![c].pc = "active"]
          /\ down' = [down EXCEPT ![c] = Append(@, Ack("OK"))] /\ open' = open
      BY <1>4 DEF SendAck
    <2>2. "active" \in ServerPC /\ Ack("OK") \in Messages
      BY <1>1, MessageType DEF ServerPC
    <2>3. srv' \in [Conns -> Server]
      BY <1>1, <2>1, <2>2, ServerMoves
    <2>4. down' \in [Conns -> Seq(Messages)]
      BY <1>1, <2>1, <2>2 DEF Typed
    <2>5. Typed'
      BY <1>1, <1>3, <2>1, <2>3, <2>4 DEF Typed
    <2>6. srv'[c].pc = "active" /\ srv'[c].key = srv[c].key /\ srv'[c].token = srv[c].token
      BY <1>1, <2>1 DEF Typed, Server
    <2>7. InStep(c)' /\ SeenActive(c)'
      BY <1>1, <1>2, <1>3, <2>6, SameMessages DEF InStep, SeenActive
    <2>8. ASSUME NEW d \in Conns \ {c} PROVE InStep(d)' /\ SeenActive(d)'
      <3>1. d \in Conns /\ InStep(d) /\ SeenActive(d) /\ srv'[d] = srv[d] /\ down'[d] = down[d]
        BY <1>1, <2>1 DEF Inv, Typed
      <3> QED
        BY <1>3, <2>1, <3>1, Undisturbed
    <2> QED
      BY <2>5, <2>7, <2>8 DEF Inv
  <1>5. CASE ~open[c]
    <2>1. ServerFails(c) /\ down' = down
      BY <1>5 DEF SendAck
    <2> QED
      BY <1>1, <1>3, <2>1, ServerClosesKeeps DEF ServerFails, Typed
  <1> QED
    BY <1>4, <1>5

LEMMA ServerReadErrorKeeps == ASSUME Inv, NEW c \in Conns, ServerReadError(c) PROVE Inv'
  BY ServerClosesKeeps DEF ServerReadError, Inv, Typed

-----------------------------------------------------------------------------
(* The environment keeps it too.                                           *)

(* A token that becomes active is seen by every connection dialled before. *)
LEMMA SetTokenKeeps == ASSUME Inv, NEW t \in Tokens, SetToken(t) PROVE Inv'
  <1>1. /\ cli' = cli /\ srv' = srv /\ up' = up /\ down' = down /\ open' = open /\ now' = now
        /\ \A u \in tokens' : u \in tokens \/ u = t
        /\ seen' = [c \in Conns |->
                      seen[c] \/ (cli[c].pc # "off" /\ TokenOf[c] = t /\ t \in tokens')]
    BY DEF SetToken
  <1>2. Typed /\ Typed'
    BY <1>1 DEF Inv, Typed
  <1>3. ASSUME NEW c \in Conns PROVE InStep(c)' /\ SeenActive(c)'
    <2>1. InStep(c) /\ SeenActive(c)
      BY DEF Inv
    <2>2. seen'[c] <=> seen[c] \/ (cli[c].pc # "off" /\ TokenOf[c] = t /\ t \in tokens')
      BY <1>1
    <2>3. InStep(c)'
      BY <1>1, <2>1, SameMessages DEF InStep
    <2>4. SeenActive(c)'
      BY <1>1, <2>1, <2>2 DEF SeenActive
    <2> QED
      BY <2>3, <2>4
  <1> QED
    BY <1>2, <1>3 DEF Inv

(* A WebSocket that breaks disturbs nothing that is in transit.            *)
LEMMA BreakKeeps == ASSUME Inv, NEW c \in Conns, Break(c) PROVE Inv'
  <1>1. /\ cli' = cli /\ srv' = srv /\ up' = up /\ down' = down /\ now' = now
        /\ seen' = seen /\ tokens' = tokens /\ open' = [open EXCEPT ![c] = FALSE]
    BY DEF Break
  <1>2. Typed'
    BY <1>1 DEF Inv, Typed
  <1>3. ASSUME NEW d \in Conns PROVE InStep(d)' /\ SeenActive(d)'
    <2>1. InStep(d) /\ SeenActive(d) /\ (~open[d] => ~open'[d])
      BY <1>1 DEF Inv, Typed
    <2> QED
      BY <1>1, <2>1, SameMessages DEF InStep, SeenActive
  <1> QED
    BY <1>2, <1>3 DEF Inv

LEMMA TickKeeps == ASSUME Inv, Tick PROVE Inv'
  <1>1. UNCHANGED <<tokens, cli, srv, up, down, open, seen>> /\ now' \in Int
    BY DEF Tick, Inv, Typed
  <1> QED
    BY <1>1, SameMessages DEF Inv, Typed, InStep, SeenActive

LEMMA InvNext == ASSUME Inv, [Next]_vars PROVE Inv'
  <1>1. CASE Tick
    BY <1>1, TickKeeps
  <1>2. CASE \E t \in Tokens : SetToken(t)
    BY <1>2, SetTokenKeeps
  <1>3. ASSUME NEW c \in Conns, Connect(c) \/ ClientStep(c) \/ Break(c) PROVE Inv'
    BY <1>3, ConnectKeeps, ReadServerHelloKeeps, ClientEndsKeep, BreakKeeps DEF ClientStep
  <1>4. ASSUME NEW c \in Conns, ServerStep(c) PROVE Inv'
    BY <1>4, ReadHelloKeeps, ReadAuthKeeps, AuthenticateKeeps, SendAckKeeps,
       ServerReadErrorKeeps DEF ServerStep
  <1>5. CASE UNCHANGED vars
    <2>1. UNCHANGED <<now, tokens, cli, srv, up, down, open, seen>>
      BY <1>5 DEF vars
    <2> QED
      BY <2>1, SameMessages DEF Inv, Typed, InStep, SeenActive
  <1> QED
    BY <1>1, <1>2, <1>3, <1>4, <1>5 DEF Next

LEMMA InvAlways == Spec => []Inv
  BY InvInit, InvNext, PTL DEF Spec

-----------------------------------------------------------------------------

(* However suspension and handshake interleave, no session is opened for a *)
(* token that was not active at some time since the dial.                  *)
THEOREM Admission == Spec => []AdmittedSinceDial
  <1>1. Inv => AdmittedSinceDial
    BY DEF Inv, SeenActive, AdmittedSinceDial
  <1> QED
    BY <1>1, InvAlways, PTL

-----------------------------------------------------------------------------
(* The keys agree.                                                         *)

(* Only the steps of a connection change what its ends hold.               *)
LEMMA ConnectionSteps ==
    ASSUME Inv, [Next]_vars, NEW c \in Conns
    PROVE  \/ cli'[c] = cli[c] /\ srv'[c] = srv[c]
           \/ Connect(c) \/ ClientStep(c) \/ ServerStep(c)
  <1>1. Typed
    BY DEF Inv
  <1>2. CASE Tick \/ UNCHANGED vars \/ \E t \in Tokens : SetToken(t)
    BY <1>2 DEF Tick, vars, SetToken
  <1>3. ASSUME NEW d \in Conns, d # c, Connect(d) \/ ClientStep(d) PROVE cli'[c] = cli[c] /\ srv'[c] = srv[c]
    <2>1. CASE Connect(d)
      BY <1>1, <1>3, <2>1 DEF Connect, Typed
    <2>2. CASE ReadServerHello(d)
      BY <1>1, <1>3, <2>2 DEF ReadServerHello, ClientFails, Typed
    <2>3. CASE ReadAck(d) \/ ClientReadError(d) \/ ReadLoopEnds(d)
      BY <1>1, <1>3, <2>3 DEF ReadAck, ClientReadError, ReadLoopEnds, ClientFails, Typed
    <2> QED
      BY <1>3, <2>1, <2>2, <2>3 DEF ClientStep
  <1>4. ASSUME NEW d \in Conns, d # c, ServerStep(d) PROVE cli'[c] = cli[c] /\ srv'[c] = srv[c]
    <2>1. CASE ReadHello(d)
      BY <1>1, <1>4, <2>1 DEF ReadHello, ServerFails, Typed
    <2>2. CASE ReadAuth(d)
      BY <1>1, <1>4, <2>2 DEF ReadAuth, ServerFails, Typed
    <2>3. CASE Authenticate(d)
      BY <1>1, <1>4, <2>3 DEF Authenticate, ServerFails, Typed
    <2>4. CASE SendAck(d)
      BY <1>1, <1>4, <2>4 DEF SendAck, ServerFails, Typed
    <2>5. CASE ServerReadError(d)
      BY <1>1, <1>4, <2>5 DEF ServerReadError, Typed
    <2> QED
      BY <1>4, <2>1, <2>2, <2>3, <2>4, <2>5 DEF ServerStep
  <1>5. ASSUME NEW d \in Conns, Break(d) PROVE cli'[c] = cli[c] /\ srv'[c] = srv[c]
    BY <1>5 DEF Break
  <1> QED
    BY <1>2, <1>3, <1>4, <1>5 DEF Next

(* While the WebSocket holds, the client opens every reply.                *)
LEMMA ChallengeOpens ==
    ASSUME Inv, [Next]_vars, NEW c \in Conns, open[c], cli[c].pc = "hello"
    PROVE  cli'[c].pc # "failed"
  <1>1. Typed /\ InStep(c)
    BY DEF Inv
  <1>2. CASE ReadServerHello(c)
    <2>1. srv[c].pc = "auth" /\ down[c] = <<Reply(c)>>
      BY <1>1, <1>2 DEF ReadServerHello, InStep, Typed, Server, ServerPC
    <2>2. cli' = [cli EXCEPT ![c].pc = "auth", ![c].key = Key(c)]
      BY <1>2, <2>1, ReplyOpens DEF ReadServerHello
    <2> QED
      BY <1>1, <2>2 DEF Typed, Client
  <1>3. CASE ReadAck(c) \/ ClientReadError(c) \/ ReadLoopEnds(c)
    BY <1>3 DEF ReadAck, ClientReadError, ReadLoopEnds
  <1>4. CASE Connect(c)
    BY <1>4 DEF Connect
  <1>5. CASE ServerStep(c)
    <2>1. cli' = cli
      BY <1>5 DEF ServerStep, ReadHello, ReadAuth, Authenticate, SendAck, ServerReadError
    <2> QED
      BY <2>1
  <1> QED
    BY <1>2, <1>3, <1>4, <1>5, ConnectionSteps DEF ClientStep

(* While the WebSocket holds, the server takes every HMAC.                 *)
LEMMA ProofIsTaken ==
    ASSUME Inv, [Next]_vars, NEW c \in Conns, open[c], srv[c].pc = "auth"
    PROVE  srv'[c].pc # "closed"
  <1>1. Typed
    BY DEF Inv
  <1>2. CASE ReadAuth(c)
    <2>1. srv' = [srv EXCEPT ![c].pc = "check", ![c].token = TokenOf[c]]
      BY <1>2, MacVerifies DEF ReadAuth
    <2> QED
      BY <1>1, <2>1 DEF Typed, Server
  <1>3. CASE ReadHello(c) \/ Authenticate(c) \/ SendAck(c) \/ ServerReadError(c)
    BY <1>3 DEF ReadHello, Authenticate, SendAck, ServerReadError
  <1>4. CASE ClientStep(c)
    <2>1. srv' = srv
      BY <1>4 DEF ClientStep, ReadServerHello, ReadAck, ClientReadError, ReadLoopEnds
    <2> QED
      BY <2>1
  <1>5. CASE Connect(c)
    BY <1>1, <1>5 DEF Connect, Typed, Server
  <1> QED
    BY <1>2, <1>3, <1>4, <1>5, ConnectionSteps DEF ServerStep

(* By the time a session is active its key is settled at both ends.        *)
LEMMA ActiveKeys ==
    ASSUME Inv, [Next]_vars, NEW c \in Conns, srv'[c].pc = "active"
    PROVE  srv'[c].key = cli[c].key /\ srv'[c].token = TokenOf[c]
  <1>1. Typed /\ InStep(c)
    BY DEF Inv
  <1>2. InStep(c)'
    BY InvNext DEF Inv
  <1>3. cli'[c].key = Key(c)' /\ srv'[c].key = Key(c)' /\ srv'[c].token = TokenOf[c]
    BY <1>2 DEF InStep
  <1>4. cli'[c].key = cli[c].key
    <2>1. CASE ReadServerHello(c)
      <3>1. srv[c].pc = "active"
        BY <2>1 DEF ReadServerHello
      <3>2. FALSE
        BY <1>1, <2>1, <3>1 DEF InStep, ReadServerHello
      <3> QED
        BY <3>2
    <2>2. CASE ReadAck(c) \/ ClientReadError(c) \/ ReadLoopEnds(c)
      BY <1>1, <2>2 DEF ReadAck, ClientReadError, ReadLoopEnds, ClientFails, Typed, Client
    <2>3. CASE Connect(c)
      BY <1>1, <2>3 DEF Connect, Typed, Server
    <2>4. CASE ServerStep(c)
      <3>1. cli' = cli
        BY <2>4 DEF ServerStep, ReadHello, ReadAuth, Authenticate, SendAck, ServerReadError
      <3> QED
        BY <3>1
    <2> QED
      BY <2>1, <2>2, <2>3, <2>4, ConnectionSteps DEF ClientStep
  <1> QED
    BY <1>3, <1>4

(* Both ends derive one key although each works from its own copy of the   *)
(* timestamp: no handshake fails over it, and an active session has one.   *)
THEOREM KeyAgreement == Spec => KeysAgree
  <1>1. Inv /\ [Next]_vars =>
        [\A c \in Conns :
            /\ open[c] => /\ ~(cli[c].pc = "hello" /\ cli'[c].pc = "failed")
                          /\ ~(srv[c].pc = "auth" /\ srv'[c].pc = "closed")
            /\ srv'[c].pc = "active" => srv'[c].key = cli[c].key /\ srv'[c].token = TokenOf[c]]_vars
    BY ChallengeOpens, ProofIsTaken, ActiveKeys
  <1> QED
    BY <1>1, InvAlways, PTL DEF Spec, KeysAgree

-----------------------------------------------------------------------------
(* The window for the timestamp of the hello.                              *)

(* The hello was built with the clock of its client.                       *)
Dated(c) ==
    /\ sentAt[c] \in Int
    /\ cli[c].pc # "off" => cli[c].ts = sentAt[c] + Skew[c]

DatedInv == Inv /\ sentAt \in [Conns -> Int] /\ \A c \in Conns : Dated(c)

LEMMA DatedInit == Init => DatedInv
  BY InvInit DEF Init, DatedInv, Dated, Off

(* Nobody but Connect sets the time of a connection, and nobody takes a    *)
(* client back to where it has not dialled.                                *)
LEMMA DatedStep == ASSUME DatedInv, [Next]_vars PROVE DatedInv'
  <1>1. Inv' /\ Typed /\ sentAt \in [Conns -> Int]
    BY InvNext DEF DatedInv, Inv
  <1>2. ASSUME NEW c \in Conns, Connect(c) PROVE sentAt' \in [Conns -> Int] /\ \A d \in Conns : Dated(d)'
    <2>1. now \in Int /\ Skew[c] \in Int
      BY <1>1, HandshakeAssumption DEF Typed
    <2>2. sentAt' = [sentAt EXCEPT ![c] = now] /\ cli' = [cli EXCEPT ![c].pc = "hello", ![c].ts = now + Skew[c]]
      BY <1>2 DEF Connect
    <2>3. sentAt' \in [Conns -> Int]
      BY <1>1, <2>1, <2>2
    <2>4. sentAt'[c] = now /\ cli'[c].ts = now + Skew[c]
      BY <1>1, <2>2 DEF Typed, Client
    <2>5. \A d \in Conns : d # c => sentAt'[d] = sentAt[d] /\ cli'[d] = cli[d]
      BY <1>1, <2>2 DEF Typed
    <2> QED
      BY <2>1, <2>3, <2>4, <2>5 DEF DatedInv, Dated
  <1>3. ASSUME UNCHANGED sentAt,
               \A d \in Conns : cli'[d].ts = cli[d].ts /\ (cli[d].pc = "off" => cli'[d].pc = "off")
        PROVE  sentAt' \in [Conns -> Int] /\ \A d \in Conns : Dated(d)'
    BY <1>3 DEF DatedInv, Dated
  <1>4. ASSUME NEW c \in Conns, ClientStep(c) PROVE sentAt' \in [Conns -> Int] /\ \A d \in Conns : Dated(d)'
    <2>1. cli[c].pc # "off" /\ UNCHANGED sentAt
      BY <1>4 DEF ClientStep, ReadServerHello, ReadAck, ClientReadError, ReadLoopEnds
    <2>2. \A d \in Conns : d # c => cli'[d] = cli[d]
      BY <1>1, <1>4 DEF ClientStep, ReadServerHello, ReadAck, ClientReadError, ReadLoopEnds, ClientFails, Typed
    <2>3. cli'[c].ts = cli[c].ts
      BY <1>1, <1>4 DEF ClientStep, ReadServerHello, ReadAck, ClientReadError, ReadLoopEnds, ClientFails,
                        Typed, Client
    <2> QED
      BY <1>3, <2>1, <2>2, <2>3
  <1>5. ASSUME UNCHANGED <<cli, sentAt>> PROVE sentAt' \in [Conns -> Int] /\ \A d \in Conns : Dated(d)'
    BY <1>3, <1>5
  <1>6. ASSUME NEW c \in Conns, ServerStep(c) \/ Break(c) PROVE UNCHANGED <<cli, sentAt>>
    BY <1>6 DEF ServerStep, ReadHello, ReadAuth, Authenticate, SendAck, ServerReadError, Break
  <1>7. Tick \/ UNCHANGED vars \/ (\E t \in Tokens : SetToken(t)) => UNCHANGED <<cli, sentAt>>
    BY DEF Tick, vars, SetToken
  <1> QED
    BY <1>1, <1>2, <1>4, <1>5, <1>6, <1>7 DEF Next, DatedInv

(* Rounding down costs less than a second.                                 *)
LEMMA UnixRounds ==
    ASSUME NEW t \in Int
    PROVE  /\ Unix(t) * TicksPerSecond \in Int
           /\ Unix(t) * TicksPerSecond <= t
           /\ t < Unix(t) * TicksPerSecond + TicksPerSecond
  <1>1. TicksPerSecond \in Nat /\ TicksPerSecond > 0
    BY HandshakeAssumption
  <1>2. \A n \in Nat : n > 0 => (t \div n) * n \in Int /\ (t \div n) * n <= t /\ t < (t \div n) * n + n
    OBVIOUS
  <1> QED
    BY <1>1, <1>2 DEF Unix

(* A hello is turned down while the WebSocket holds only by ReadHello, for *)
(* its timestamp.                                                          *)
LEMMA TurnedDown ==
    ASSUME DatedInv, [Next]_vars, NEW c \in Conns,
           srv[c].pc = "hello", srv'[c].pc = "closed", open[c]
    PROVE  OutsideWindow(Unix(cli[c].ts)) /\ cli[c].pc # "off"
  <1>1. Inv /\ Typed /\ InStep(c)
    BY DEF DatedInv, Inv
  <1>2. up[c] = <<Hello(c)>> /\ cli[c].pc # "off"
    BY <1>1 DEF InStep
  <1>3. Head(up[c]).ts = Unix(cli[c].ts)
    BY <1>2, OneMessage DEF Hello, ClientHello
  <1>4. CASE Connect(c)
    BY <1>2, <1>4 DEF Connect
  <1>5. CASE ClientStep(c)
    BY <1>5 DEF ClientStep, ReadServerHello, ReadAck, ClientReadError, ReadLoopEnds
  <1>6. CASE ReadHello(c)
    <2>1. ~OutsideWindow(Head(up[c]).ts) => srv'[c].pc = "auth"
      BY <1>1, <1>6 DEF ReadHello, Typed, Server
    <2> QED
      BY <1>2, <1>3, <2>1
  <1>7. CASE ReadAuth(c) \/ Authenticate(c) \/ SendAck(c) \/ ServerReadError(c)
    BY <1>7 DEF ReadAuth, Authenticate, SendAck, ServerReadError
  <1> QED
    BY <1>1, <1>4, <1>5, <1>6, <1>7, ConnectionSteps DEF ServerStep

(* A client whose hello arrives within the window, less a second for the   *)
(* rounding, is not turned down for its timestamp (ParseClientHello), for  *)
(* any difference of the clocks and any resolution.                        *)
THEOREM PunctualIsAdmitted == Spec => PunctualIsHeard
  <1>1. ASSUME DatedInv, [Next]_vars, NEW c \in Conns,
               srv[c].pc = "hello", srv'[c].pc = "closed", open[c]
        PROVE  LET late == now - (sentAt[c] + Skew[c])
               IN  \/ late > (Window - 1) * TicksPerSecond
                   \/ -late > Window * TicksPerSecond
    <2> DEFINE sent == sentAt[c] + Skew[c]
    <2> DEFINE cut == Unix(sent) * TicksPerSecond
    <2>1. now \in Int /\ sent \in Int /\ cli[c].ts = sent
      BY <1>1, TurnedDown, HandshakeAssumption DEF DatedInv, Inv, Typed, Dated
    <2>2. Window \in Int /\ TicksPerSecond \in Int
      BY HandshakeAssumption
    <2>3. \/ now - cut > Window * TicksPerSecond
          \/ cut - now > Window * TicksPerSecond
      BY <1>1, <2>1, TurnedDown DEF OutsideWindow
    <2>4. cut \in Int /\ cut <= sent /\ sent < cut + TicksPerSecond
      BY <2>1, UnixRounds
    <2>5. (Window - 1) * TicksPerSecond = Window * TicksPerSecond - TicksPerSecond
          /\ Window * TicksPerSecond \in Int
      BY <2>2
    <2> HIDE DEF sent, cut
    <2>6. \/ now - sent > Window * TicksPerSecond - TicksPerSecond
          \/ -(now - sent) > Window * TicksPerSecond
      <3> DEFINE w == Window * TicksPerSecond
      <3>1. w \in Int
        BY <2>5
      <3>2. now - cut > w \/ cut - now > w
        BY <2>3
      <3> HIDE DEF w
      <3>3. now - sent > w - TicksPerSecond \/ -(now - sent) > w
        BY <2>1, <2>2, <2>4, <3>1, <3>2
      <3> QED
        BY <3>3 DEF w
    <2> QED
      BY <2>5, <2>6 DEF sent
  <1>2. DatedInv /\ [Next]_vars =>
            [\A c \in Conns :
                srv[c].pc = "hello" /\ srv'[c].pc = "closed" /\ open[c]
                => LET late == now - (sentAt[c] + Skew[c])
                   IN  \/ late > (Window - 1) * TicksPerSecond
                       \/ -late > Window * TicksPerSecond]_vars
    BY <1>1
  <1> QED
    BY <1>2, DatedInit, DatedStep, PTL DEF Spec, PunctualIsHeard

-----------------------------------------------------------------------------
(* SecureChannel, and first the codec.                                     *)

(* The remainder, as used for the width of a field.                        *)
LEMMA Width ==
    ASSUME NEW n \in Nat, NEW k \in Nat \ {0}
    PROVE  /\ n % k \in Nat
           /\ n % k <= n
           /\ n < k => n % k = n
  <1>1. n % k \in 0 .. k - 1 /\ n = k * (n \div k) + (n % k)
    OBVIOUS
  <1>2. n \div k \in Nat
    OBVIOUS
  <1>3. k * (n \div k) >= 0
    BY <1>2
  <1>4. n < k => n \div k = 0
    OBVIOUS
  <1> QED
    BY <1>1, <1>2, <1>3, <1>4

(* What an encoded frame consists of, position by position.                *)
LEMMA Layout ==
    ASSUME NEW f, NEW pad \in Seq(Int), f.payload \in Seq(Int)
    PROVE  /\ Len(EncodeFrame(f, pad)) = 3 + Len(pad) + Len(f.payload)
           /\ EncodeFrame(f, pad)[1] = f.type
           /\ EncodeFrame(f, pad)[2] = Len(pad) % ByteSpan
           /\ EncodeFrame(f, pad)[3] = Len(f.payload) % WordSpan
           /\ \A i \in 1 .. Len(f.payload) :
                 EncodeFrame(f, pad)[3 + Len(pad) + i] = f.payload[i]
           /\ \A i \in 4 .. Len(EncodeFrame(f, pad)) : EncodeFrame(f, pad)[i] \in Int
  <1> DEFINE t == f.type
             load == f.payload
             e == EncodeFrame(f, pad)
             S == {t} \cup Int
             h == <<t, Len(pad) % ByteSpan, Len(load) % WordSpan>>
             hp == h \o pad
  <1>1. Len(pad) \in Nat /\ Len(load) \in Nat
    BY LenProperties
  <1>2. Len(pad) % ByteSpan \in Int /\ Len(load) % WordSpan \in Int
    BY <1>1, CodecAssumption
  <1>3. h \in Seq(S) /\ Len(h) = 3
    BY <1>2
  <1>4. pad \in Seq(S) /\ load \in Seq(S)
    BY SeqMonotonic
  <1>5. /\ hp \in Seq(S)
        /\ Len(hp) = 3 + Len(pad)
        /\ \A i \in 1 .. 3 + Len(pad) : hp[i] = IF i <= 3 THEN h[i] ELSE pad[i - 3]
    BY <1>3, <1>4, ConcatProperties
  <1>6. /\ Len(e) = 3 + Len(pad) + Len(load)
        /\ \A i \in 1 .. 3 + Len(pad) + Len(load) :
              e[i] = IF i <= 3 + Len(pad) THEN hp[i] ELSE load[i - (3 + Len(pad))]
    <2>1. e = hp \o load
      BY DEF EncodeFrame
    <2> HIDE DEF hp, S
    <2>2. /\ Len(hp \o load) = Len(hp) + Len(load)
          /\ \A i \in 1 .. Len(hp) + Len(load) :
                (hp \o load)[i] = IF i <= Len(hp) THEN hp[i] ELSE load[i - Len(hp)]
      BY <1>4, <1>5, ConcatProperties
    <2> QED
      BY <1>5, <2>1, <2>2
  <1>8. h[1] = t /\ h[2] = Len(pad) % ByteSpan /\ h[3] = Len(load) % WordSpan
    OBVIOUS
  <1>9. \A i \in 1 .. Len(pad) : pad[i] \in Int
    BY ElementOfSeq
  <1>10. \A i \in 1 .. Len(load) : load[i] \in Int
    BY ElementOfSeq
  <1> HIDE DEF t, load, e, h, hp
  <1>11. e[1] = t /\ e[2] = Len(pad) % ByteSpan /\ e[3] = Len(load) % WordSpan
    BY <1>1, <1>5, <1>6, <1>8
  <1>12. \A i \in 1 .. Len(load) : e[3 + Len(pad) + i] = load[i]
    BY <1>1, <1>6
  <1>13. \A i \in 4 .. Len(e) : e[i] \in Int
    <2> SUFFICES ASSUME NEW i \in 4 .. Len(e) PROVE e[i] \in Int
      OBVIOUS
    <2>1. CASE i <= 3 + Len(pad)
      <3>1. e[i] = pad[i - 3] /\ i - 3 \in 1 .. Len(pad)
        BY <1>1, <1>5, <1>6, <2>1
      <3> QED
        BY <1>9, <3>1
    <2>2. CASE i > 3 + Len(pad)
      <3>1. e[i] = load[i - (3 + Len(pad))] /\ i - (3 + Len(pad)) \in 1 .. Len(load)
        BY <1>1, <1>6, <2>2
      <3> QED
        BY <1>10, <3>1
    <2> QED
      BY <1>1, <1>6, <2>1, <2>2
  <1> QED
    BY <1>6, <1>11, <1>12, <1>13 DEF t, load, e

(* DecodeFrame undoes EncodeFrame, and ReadFrameFrom accepts the length,   *)
(* for every padding that the frame may be given: exactly for the frames   *)
(* of the relay and the client, and up to its content for a keepalive,     *)
(* whose padding may overflow padLen.                                      *)
THEOREM RoundTrip ==
    ASSUME NEW f \in Frame, NEW pad \in PadsOf(f)
    PROVE  LET e == EncodeFrame(f, pad) IN
           /\ LengthAccepted(e)
           /\ DecodeFrame(e) # Malformed
           /\ Seen(DecodeFrame(e)) = Seen(f)
  <1> DEFINE e == EncodeFrame(f, pad)
             load == f.payload
             d == DecodeFrame(e)
  <1>1. /\ f = [type |-> f.type, payload |-> load]
        /\ \/ f.type \in {"data", "control", "close"} /\ load \in Payloads
           \/ f.type = "keepalive" /\ load \in ShaperPads
    BY DEF Frame, Carrying, Fake
  <1>2. load \in Seq(Int) /\ pad \in Seq(Int)
    BY <1>1, ChannelAssumption DEF PadsOf
  <1>3. Len(pad) \in Nat /\ Len(load) \in Nat
    BY <1>2, LenProperties
  <1>4. ByteSpan \in Nat /\ ByteSpan > 0 /\ WordSpan \in Nat /\ WordSpan > 0
    BY CodecAssumption
  <1>5. /\ Len(load) < WordSpan
        /\ Len(pad) < 2 * ByteSpan
        /\ f.type # "keepalive" => Len(pad) < ByteSpan
    BY <1>1, <1>3, <1>4, ChannelAssumption DEF PadsOf, MaxPayloadSize, MaxPaddingSize
  <1>6. /\ Len(e) = 3 + Len(pad) + Len(load)
        /\ e[1] = f.type
        /\ e[2] = Len(pad) % ByteSpan
        /\ e[3] = Len(load) % WordSpan
        /\ \A i \in 1 .. Len(load) : e[3 + Len(pad) + i] = load[i]
        /\ \A i \in 4 .. Len(e) : e[i] \in Int
    BY <1>2, Layout
  <1> HIDE DEF e, load
  <1>7. e[3] = Len(load)
    BY <1>3, <1>4, <1>5, <1>6, Width
  <1>8. /\ e[2] \in Nat
        /\ e[2] <= Len(pad)
        /\ f.type # "keepalive" => e[2] = Len(pad)
    <2>1. /\ Len(pad) % ByteSpan \in Nat
          /\ Len(pad) % ByteSpan <= Len(pad)
          /\ Len(pad) < ByteSpan => Len(pad) % ByteSpan = Len(pad)
      BY <1>3, <1>4, Width
    <2> QED
      BY <1>5, <1>6, <2>1
  <1>9. LengthAccepted(e)
    BY <1>3, <1>4, <1>5, <1>6
       DEF LengthAccepted, MaxPayloadSize, MaxPaddingSize, HeaderSize
  <1>10. d = [type    |-> f.type,
              payload |-> SubSeq(e, 3 + e[2] + 1, 3 + e[2] + Len(load))]
    <2>1. Len(e) = 3 + Len(pad) + Len(load) /\ e[1] = f.type
      BY <1>6
    <2>2. ~(Len(e) < 3) /\ ~(Len(e) < 3 + e[2] + e[3])
      BY <1>3, <1>7, <1>8, <2>1
    <2> QED
      BY <1>7, <2>1, <2>2 DEF DecodeFrame, HeaderSize
  <1>11. f.type # "malformed"
    BY <1>1
  <1>12. d # Malformed
    BY <1>10, <1>11 DEF Malformed
  <1>13. CASE f.type = "keepalive"
    BY <1>9, <1>10, <1>12, <1>13 DEF Seen, e
  <1>14. CASE f.type # "keepalive"
    <2>1. SubSeq(e, 3 + e[2] + 1, 3 + e[2] + Len(load)) = load
      <3> DEFINE m == 3 + Len(pad) + 1
                 n == 3 + Len(pad) + Len(load)
                 s == SubSeq(e, m, n)
      <3>1. m \in Int /\ n \in Int /\ n - m + 1 = Len(load) /\ e[2] = Len(pad)
        BY <1>3, <1>8, <1>14
      <3>2. \A i \in m .. n : e[i] \in Int
        BY <1>3, <1>6
      <3>3. /\ s \in Seq(Int)
            /\ Len(s) = IF m <= n THEN n - m + 1 ELSE 0
            /\ \A i \in 1 .. n - m + 1 : s[i] = e[m + i - 1]
        <4> HIDE DEF m, n
        <4> QED BY <3>1, <3>2, SubSeqProperties
      <3>4. Len(s) = Len(load)
        BY <1>3, <3>1, <3>3
      <3>5. \A i \in 1 .. Len(s) : s[i] = load[i]
        BY <1>3, <1>6, <3>1, <3>3, <3>4
      <3>6. load \in Seq(Int)
        BY <1>2 DEF load
      <3>7. s = load
        <4> HIDE DEF s
        <4> QED BY <3>3, <3>4, <3>5, <3>6, SeqEqual
      <3> QED
        BY <3>1, <3>7
    <2>2. d = f
      BY <1>1, <1>10, <2>1 DEF load
    <2> QED
      BY <1>9, <1>12, <2>2 DEF e
  <1> QED
    BY <1>13, <1>14

-----------------------------------------------------------------------------
(* The inductive invariant: the frames that are sealed and not yet read    *)
(* lie on the wire, and in the hand of the goroutine that has WriteMu, in  *)
(* the order of their nonces and without a gap.                            *)

Carries(packet, frame) ==
    \E f \in Frame : \E pad \in PadsOf(f) :
        packet.plain = EncodeFrame(f, pad) /\ frame = Seen(f)

OneWriter == \A w \in Writers : held[w] # NoPacket <=> writeMu = w

InHand == IF writeMu = None THEN 0 ELSE 1

Counts ==
    /\ Len(sealed) = sendNonce
    /\ Len(got) = recvNonce
    /\ recvNonce + Len(wire) + InHand <= sendNonce
    /\ ~broken => recvNonce + Len(wire) + InHand = sendNonce

WireInOrder ==
    \A i \in 1 .. Len(wire) :
        /\ wire[i].nonce = recvNonce + i - 1
        /\ Carries(wire[i], sealed[recvNonce + i])

HeldIsLast ==
    \A w \in Writers : held[w] # NoPacket =>
        /\ held[w].nonce = sendNonce - 1
        /\ Carries(held[w], sealed[sendNonce])

ChannelInv == ChannelTypeOK /\ OneWriter /\ Counts /\ WireInOrder /\ HeldIsLast /\ NeverRejected

(* A session starts with nothing on the wire.                              *)
LEMMA ChannelInvInit == ChannelInit => ChannelInv
  <1> SUFFICES ASSUME ChannelInit PROVE ChannelInv
    OBVIOUS
  <1>1. ChannelTypeOK
    <2>1. << >> \in Seq(Packet) /\ << >> \in Seq(SeenFrame)
      BY EmptySeq
    <2>2. held \in [Writers -> Packet \cup {NoPacket}]
      <3> HIDE DEF NoPacket
      <3> QED BY DEF ChannelInit
    <2> QED
      BY <2>1, <2>2 DEF ChannelInit, ChannelTypeOK
  <1>2. OneWriter /\ HeldIsLast /\ WireInOrder /\ NeverRejected
    BY ChannelAssumption DEF ChannelInit, OneWriter, HeldIsLast, WireInOrder, NeverRejected
  <1>3. Counts
    BY DEF ChannelInit, Counts, InHand
  <1> QED
    BY <1>1, <1>2, <1>3 DEF ChannelInv

(* The packet of an encrypted frame is not the empty one.                  *)
LEMMA PacketIsNotEmpty ==
    ASSUME NEW q \in Packet
    PROVE  q # NoPacket /\ q.nonce \in Nat
  BY DEF Packet, NoPacket

(* What Append adds to a history.                                          *)
LEMMA Appended ==
    ASSUME NEW S, NEW s \in Seq(S), NEW x \in S
    PROVE  /\ Append(s, x) \in Seq(S)
           /\ Len(Append(s, x)) = Len(s) + 1
           /\ Append(s, x)[Len(s) + 1] = x
           /\ \A i \in 1 .. Len(s) : Append(s, x)[i] = s[i]
  BY AppendProperties

(* A frame that is sealed becomes the newest one, and WriteMu keeps it the *)
(* only one that is not on the wire.                                       *)
LEMMA SealKeepsInv ==
    ASSUME ChannelInv, NEW w \in Writers, Seal(w)
    PROVE  ChannelInv' /\ Channel!Send
  <1> USE DEF ChannelInv
  <1>0. PICK f \in Frame : \E pad \in PadsOf(f) :
            /\ held' = [held EXCEPT ![w] = [nonce |-> sendNonce,
                                            plain |-> EncodeFrame(f, pad)]]
            /\ sealed' = Append(sealed, Seen(f))
    BY DEF Seal
  <1>1. PICK pad \in PadsOf(f) :
            /\ held' = [held EXCEPT ![w] = [nonce |-> sendNonce,
                                            plain |-> EncodeFrame(f, pad)]]
            /\ sealed' = Append(sealed, Seen(f))
    BY <1>0
  <1> DEFINE q == [nonce |-> sendNonce, plain |-> EncodeFrame(f, pad)]
  <1>2. /\ writeMu = None /\ writeMu' = w /\ sendNonce' = sendNonce + 1
        /\ UNCHANGED <<wire, broken, recvNonce, reader, got>>
    BY DEF Seal, MayWrite
  <1>3. q \in Packet
    BY DEF Packet, Plain, ChannelTypeOK
  <1>4. Seen(f) \in SeenFrame
    BY DEF SeenFrame
  <1>5. /\ sealed' \in Seq(SeenFrame)
        /\ Len(sealed') = Len(sealed) + 1
        /\ sealed'[Len(sealed) + 1] = Seen(f)
        /\ \A i \in 1 .. Len(sealed) : sealed'[i] = sealed[i]
    BY <1>1, <1>4, Appended DEF ChannelTypeOK
  <1>6. q # NoPacket
    BY <1>3, PacketIsNotEmpty
  <1>7. \A v \in Writers : held'[v] = IF v = w THEN q ELSE NoPacket
    BY <1>1, <1>2, ChannelAssumption DEF ChannelTypeOK, OneWriter
  <1> HIDE DEF q
  <1>8. ChannelTypeOK'
    <2>1. held' \in [Writers -> Packet \cup {NoPacket}]
      BY <1>1, <1>3 DEF ChannelTypeOK, q
    <2> QED
      BY <1>2, <1>5, <2>1 DEF ChannelTypeOK
  <1>9. OneWriter'
    BY <1>2, <1>6, <1>7 DEF OneWriter
  <1>10. Counts'
    <2>1. InHand = 0 /\ InHand' = 1
      BY <1>2, ChannelAssumption DEF InHand
    <2>2. Len(wire) \in Nat /\ Len(sealed) \in Nat
      BY LenProperties DEF ChannelTypeOK
    <2>3. Len(wire') = Len(wire) /\ Len(got') = Len(got) /\ recvNonce' = recvNonce
      BY <1>2
    <2>4. broken' = broken /\ sendNonce' = sendNonce + 1 /\ Len(sealed') = Len(sealed) + 1
      BY <1>2, <1>5
    <2>5. recvNonce \in Nat /\ sendNonce \in Nat
      BY DEF ChannelTypeOK
    <2> QED
      BY <2>1, <2>2, <2>3, <2>4, <2>5 DEF Counts
  <1>11. WireInOrder'
    <2> SUFFICES ASSUME NEW i \in 1 .. Len(wire)
                 PROVE  /\ wire[i].nonce = recvNonce + i - 1
                        /\ Carries(wire[i], sealed'[recvNonce + i])
      BY <1>2 DEF WireInOrder, Carries
    <2>1. Len(wire) \in Nat
      BY LenProperties DEF ChannelTypeOK
    <2>2. InHand \in {0, 1}
      BY DEF InHand
    <2>3. recvNonce + i \in 1 .. Len(sealed)
      BY <2>1, <2>2 DEF Counts, ChannelTypeOK
    <2> QED
      BY <1>5, <2>3 DEF WireInOrder
  <1>12. HeldIsLast'
    <2> SUFFICES ASSUME NEW v \in Writers, held'[v] # NoPacket
                 PROVE  /\ held'[v].nonce = sendNonce' - 1
                        /\ Carries(held'[v], sealed'[sendNonce'])
      BY DEF HeldIsLast, Carries
    <2>1. held'[v] = q
      BY <1>7
    <2>2. q.nonce = sendNonce /\ q.plain = EncodeFrame(f, pad)
      BY DEF q
    <2>3. sealed'[sendNonce'] = Seen(f)
      BY <1>2, <1>5 DEF Counts
    <2>4. Carries(q, Seen(f))
      BY <2>2 DEF Carries
    <2> QED
      BY <1>2, <2>1, <2>2, <2>3, <2>4 DEF ChannelTypeOK
  <1>13. NeverRejected'
    BY <1>2 DEF NeverRejected
  <1>14. Channel!Send
    BY <1>1, <1>2, <1>4 DEF Channel!Send
  <1> QED
    BY <1>8, <1>9, <1>10, <1>11, <1>12, <1>13, <1>14

(* Writing the packet out, or losing it with the connection, leaves the    *)
(* histories alone; on a connection that works the packet continues the    *)
(* nonces on the wire.                                                     *)
LEMMA WriteOutKeepsInv ==
    ASSUME ChannelInv, NEW w \in Writers, WriteOut(w)
    PROVE  ChannelInv' /\ UNCHANGED <<sealed, got>>
  <1> USE DEF ChannelInv
  <1>1. /\ held[w] # NoPacket /\ writeMu' = None
        /\ wire' = (IF broken THEN wire ELSE Append(wire, held[w]))
        /\ held' = [held EXCEPT ![w] = NoPacket]
        /\ UNCHANGED <<sendNonce, broken, recvNonce, reader, sealed, got>>
    BY DEF WriteOut
  <1>2. writeMu = w
    BY <1>1 DEF OneWriter
  <1>3. held[w] \in Packet
    BY <1>1 DEF ChannelTypeOK
  <1>4. \A v \in Writers : held'[v] = NoPacket
    BY <1>1, <1>2 DEF ChannelTypeOK, OneWriter
  <1>5. Len(wire) \in Nat /\ recvNonce \in Nat /\ sendNonce \in Nat
    BY LenProperties DEF ChannelTypeOK
  <1>6. InHand = 1 /\ InHand' = 0
    BY <1>1, <1>2, ChannelAssumption DEF InHand
  <1>7. CASE broken
    <2>1. ChannelTypeOK'
      BY <1>1, <1>7 DEF ChannelTypeOK
    <2>2. OneWriter' /\ HeldIsLast'
      BY <1>1, <1>4, ChannelAssumption DEF OneWriter, HeldIsLast
    <2>3. Counts'
      BY <1>1, <1>5, <1>6, <1>7 DEF Counts
    <2>4. WireInOrder' /\ NeverRejected'
      BY <1>1, <1>7 DEF WireInOrder, Carries, NeverRejected
    <2> QED
      BY <1>1, <2>1, <2>2, <2>3, <2>4
  <1>8. CASE ~broken
    <2>1. /\ wire' \in Seq(Packet)
          /\ Len(wire') = Len(wire) + 1
          /\ wire'[Len(wire) + 1] = held[w]
          /\ \A i \in 1 .. Len(wire) : wire'[i] = wire[i]
      BY <1>1, <1>3, <1>8, Appended DEF ChannelTypeOK
    <2>2. ChannelTypeOK'
      BY <1>1, <2>1 DEF ChannelTypeOK
    <2>3. OneWriter' /\ HeldIsLast'
      BY <1>1, <1>4, ChannelAssumption DEF OneWriter, HeldIsLast
    <2>4. Counts'
      BY <1>1, <1>5, <1>6, <1>8, <2>1 DEF Counts
    <2>5. WireInOrder'
      <3> SUFFICES ASSUME NEW i \in 1 .. Len(wire')
                   PROVE  /\ wire'[i].nonce = recvNonce + i - 1
                          /\ Carries(wire'[i], sealed[recvNonce + i])
        BY <1>1 DEF WireInOrder, Carries
      <3>1. CASE i \in 1 .. Len(wire)
        BY <2>1, <3>1 DEF WireInOrder
      <3>2. CASE i = Len(wire) + 1
        <4>1. recvNonce + i = sendNonce
          BY <1>5, <1>6, <1>8, <3>2 DEF Counts
        <4>2. held[w].nonce = sendNonce - 1 /\ Carries(held[w], sealed[sendNonce])
          BY <1>1 DEF HeldIsLast
        <4> QED
          BY <1>5, <2>1, <3>2, <4>1, <4>2
      <3> QED
        BY <1>5, <2>1, <3>1, <3>2
    <2>6. NeverRejected'
      BY <1>1 DEF NeverRejected
    <2> QED
      BY <1>1, <2>2, <2>3, <2>4, <2>5, <2>6
  <1> QED
    BY <1>7, <1>8

(* The reader finds the nonce it expects and the frame that was sealed     *)
(* under it.                                                               *)
LEMMA ReceiveKeepsInv ==
    ASSUME ChannelInv, Receive
    PROVE  ChannelInv' /\ Channel!Deliver
  <1> USE DEF ChannelInv
  <1> DEFINE c == Head(wire)
             n == recvNonce
  <1>1. /\ wire # << >> /\ reader = "reading" /\ wire' = Tail(wire)
        /\ UNCHANGED <<writeMu, sendNonce, held, broken, sealed>>
    BY DEF Receive
  <1>2. Len(wire) \in Nat /\ Len(wire) > 0 /\ n \in Nat /\ sendNonce \in Nat
    BY <1>1, LenProperties, EmptySeq DEF ChannelTypeOK
  <1>3. /\ wire' \in Seq(Packet)
        /\ Len(wire') = Len(wire) - 1
        /\ \A i \in 1 .. Len(wire') : wire'[i] = wire[i + 1]
    BY <1>1, HeadTailProperties DEF ChannelTypeOK
  <1>4. c = wire[1]
    BY <1>1 DEF ChannelTypeOK
  <1>5. c.nonce = n /\ Carries(c, sealed[n + 1])
    BY <1>2, <1>4 DEF WireInOrder
  <1>6. PICK f \in Frame : \E pad \in PadsOf(f) :
            c.plain = EncodeFrame(f, pad) /\ sealed[n + 1] = Seen(f)
    BY <1>5 DEF Carries
  <1>7. /\ LengthAccepted(c.plain)
        /\ DecodeFrame(c.plain) # Malformed
        /\ Seen(DecodeFrame(c.plain)) = sealed[n + 1]
    BY <1>6, RoundTrip
  <1> HIDE DEF c
  <1>8. /\ recvNonce' = n + 1
        /\ got' = Append(got, sealed[n + 1])
        /\ reader' = reader
    BY <1>2, <1>5, <1>7 DEF Receive, IsReplay, c
  <1>9. InHand' = InHand /\ InHand \in {0, 1}
    BY <1>1 DEF InHand
  <1>10. n + 1 \in 1 .. Len(sealed)
    BY <1>2, <1>9 DEF Counts
  <1>11. sealed[n + 1] \in SeenFrame
    BY <1>10, ElementOfSeq DEF ChannelTypeOK
  <1>12. got' \in Seq(SeenFrame) /\ Len(got') = Len(got) + 1
    BY <1>8, <1>11, Appended DEF ChannelTypeOK
  <1>13. ChannelTypeOK'
    BY <1>1, <1>2, <1>3, <1>8, <1>12 DEF ChannelTypeOK
  <1>14. OneWriter'
    BY <1>1 DEF OneWriter
  <1>15. Counts'
    <2>1. /\ Len(sealed') = Len(sealed) /\ sendNonce' = sendNonce /\ broken' = broken
          /\ Len(wire') = Len(wire) - 1 /\ recvNonce' = recvNonce + 1
          /\ Len(got') = Len(got) + 1 /\ InHand' = InHand
      BY <1>1, <1>3, <1>8, <1>9, <1>12
    <2> QED
      BY <1>2, <1>9, <2>1 DEF Counts
  <1>16. WireInOrder'
    <2> SUFFICES ASSUME NEW i \in 1 .. Len(wire')
                 PROVE  /\ wire'[i].nonce = (n + 1) + i - 1
                        /\ Carries(wire'[i], sealed[(n + 1) + i])
      BY <1>1, <1>8 DEF WireInOrder, Carries
    <2>1. i + 1 \in 1 .. Len(wire) /\ wire'[i] = wire[i + 1]
      BY <1>2, <1>3
    <2>2. wire[i + 1].nonce = n + (i + 1) - 1 /\ Carries(wire[i + 1], sealed[n + (i + 1)])
      BY <2>1 DEF WireInOrder
    <2>3. n + (i + 1) = (n + 1) + i /\ n + (i + 1) - 1 = (n + 1) + i - 1
      BY <1>2
    <2> HIDE DEF n
    <2> QED
      BY <2>1, <2>2, <2>3
  <1>17. HeldIsLast'
    BY <1>1 DEF HeldIsLast, Carries
  <1>18. NeverRejected'
    BY <1>1, <1>8 DEF NeverRejected
  <1>19. Channel!Deliver
    BY <1>1, <1>2, <1>8, <1>10 DEF Channel!Deliver, Counts
  <1> QED
    BY <1>13, <1>14, <1>15, <1>16, <1>17, <1>18, <1>19

(* Every step of the session keeps the invariant, and is a step of the     *)
(* channel or none at all.                                                 *)
LEMMA StepKeepsInv ==
    ASSUME ChannelInv, [ChannelNext]_channelVars
    PROVE  ChannelInv' /\ (Channel!Send \/ Channel!Deliver \/ UNCHANGED <<sealed, got>>)
  <1>1. CASE \E w \in Writers : Seal(w)
    BY <1>1, SealKeepsInv
  <1>2. CASE \E w \in Writers : WriteOut(w)
    BY <1>2, WriteOutKeepsInv
  <1>3. CASE Receive
    BY <1>3, ReceiveKeepsInv
  <1>4. CASE ChannelBreak \/ ReadError \/ UNCHANGED channelVars
    <2>1. /\ UNCHANGED <<writeMu, sendNonce, held, wire, recvNonce, sealed, got>>
          /\ broken' = broken \/ broken' = TRUE
          /\ reader' \in {reader, "closed"}
      BY <1>4 DEF ChannelBreak, ReadError, channelVars, ChannelInv, ChannelTypeOK
    <2>2. ChannelTypeOK' /\ NeverRejected'
      BY <2>1 DEF ChannelInv, ChannelTypeOK, NeverRejected
    <2>3. OneWriter' /\ WireInOrder' /\ HeldIsLast'
      BY <2>1 DEF ChannelInv, OneWriter, WireInOrder, HeldIsLast, Carries
    <2>4. Counts'
      <3>1. /\ Len(sealed') = Len(sealed) /\ Len(got') = Len(got)
            /\ Len(wire') = Len(wire) /\ InHand' = InHand
            /\ sendNonce' = sendNonce /\ recvNonce' = recvNonce
        BY <2>1 DEF InHand
      <3>2. ~broken' => ~broken
        BY <2>1
      <3> QED
        BY <3>1, <3>2 DEF ChannelInv, Counts
    <2> QED
      BY <2>1, <2>2, <2>3, <2>4 DEF ChannelInv
  <1> QED
    BY <1>1, <1>2, <1>3, <1>4 DEF ChannelNext

-----------------------------------------------------------------------------

(* The invariant holds in every state of every session.                    *)
THEOREM ChannelInvariant == ChannelSpec => []ChannelInv
  BY ChannelInvInit, StepKeepsInv, PTL DEF ChannelSpec

(* The variables keep their types.                                         *)
THEOREM ChannelTypeCorrect == ChannelSpec => []ChannelTypeOK
  <1>1. ChannelInv => ChannelTypeOK
    BY DEF ChannelInv
  <1> QED
    BY <1>1, ChannelInvariant, PTL

(* However many goroutines share a session, its reader never sees a replay *)
(* or a frame it cannot parse (WriteFrameTo holds WriteMu over encryption  *)
(* and write).                                                             *)
THEOREM ChannelNeverRejects == ChannelSpec => []NeverRejected
  <1>1. ChannelInv => NeverRejected
    BY DEF ChannelInv
  <1> QED
    BY <1>1, ChannelInvariant, PTL

(* One direction of a session implements the channel of frames.            *)
THEOREM ChannelRefines == ChannelSpec => ImplementsChannel
  <1>1. ChannelInit => Channel!Init
    BY DEF ChannelInit, Channel!Init
  <1>2. ChannelInv /\ [ChannelNext]_channelVars => [Channel!Send \/ Channel!Deliver]_<<sealed, got>>
    BY StepKeepsInv
  <1> QED
    BY <1>1, <1>2, ChannelInvariant, PTL DEF ChannelSpec, ImplementsChannel, Channel!Spec
=============================================================================
