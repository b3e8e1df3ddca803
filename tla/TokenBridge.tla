----------------------------- MODULE TokenBridge -----------------------------
(***************************************************************************)
(* The bridge API of a ShadowLink node (internal/api/bridge.go): the map   *)
(* of auth tokens that the relay consults, the HTTP handlers that change   *)
(* it one at a time under a mutex, the file tokens.json that every change  *)
(* rewrites, and the crashes and restarts of the process (systemd has      *)
(* Restart=always).                                                        *)
(*                                                                         *)
(* os.WriteFile truncates the file and then fills it, so a save is two     *)
(* steps, and either of them may fail: the failure is logged, and the      *)
(* request is answered as if nothing had happened.                         *)
(***************************************************************************)
EXTENDS Naturals

CONSTANTS
    Tokens,     \* auth tokens
    Handlers,   \* goroutines of the HTTP server
    None,       \* "no handler holds the mutex"
    Torn,       \* a file that was truncated and not filled: it does not parse
    DiskFaults  \* TRUE: opening or writing tokens.json may fail

VARIABLES
    up,         \* the process runs
    tokens,     \* bs.tokens
    file,       \* what tokens.json holds
    mu,         \* the handler that holds bs.mu for writing
    req,        \* what each handler is doing
    may,        \* observer: for each token, the states that its requests explain
    unsaved,    \* observer: the last save failed
    void        \* observer: the process died while an older file was on disk

vars == <<up, tokens, file, mu, req, may, unsaved, void>>

-----------------------------------------------------------------------------

States == {"absent", "active", "suspended"}
NoTokens == [t \in Tokens |-> "absent"]

ASSUME BridgeAssumption ==
    /\ None \notin Handlers
    /\ Torn \notin [Tokens -> States]
    /\ DiskFaults \in BOOLEAN

Ops == {"register", "deregister", "suspend", "activate"}
PC == {"idle", "lock", "open", "write", "unlock"}
Request == [op : Ops \cup {"none"}, tok : Tokens \cup {"none"}, pc : PC]
NoRequest == [op |-> "none", tok |-> "none", pc |-> "idle"]

(* The types of the variables.                                             *)
TypeOK ==
    /\ up \in BOOLEAN
    /\ tokens \in [Tokens -> States]
    /\ file \in [Tokens -> States] \cup {Torn}
    /\ mu \in Handlers \cup {None}
    /\ req \in [Handlers -> Request]
    /\ may \in [Tokens -> SUBSET States]
    /\ unsaved \in BOOLEAN
    /\ void \in BOOLEAN

(* loadTokens: a file that cannot be read or parsed counts as empty.       *)
Loaded(f) == IF f = Torn THEN NoTokens ELSE f

Init ==
    /\ up = TRUE
    /\ tokens = NoTokens
    /\ file = NoTokens
    /\ mu = None
    /\ req = [h \in Handlers |-> NoRequest]
    /\ may = [t \in Tokens |-> {"absent"}]
    /\ unsaved = FALSE
    /\ void = FALSE

-----------------------------------------------------------------------------

(* ServeHTTP accepts a request of the panel.                               *)
Accept(h) ==
    /\ up
    /\ req[h].pc = "idle"
    /\ \E o \in Ops, t \in Tokens :
          req' = [req EXCEPT ![h] = [op |-> o, tok |-> t, pc |-> "lock"]]
    /\ UNCHANGED <<up, tokens, file, mu, may, unsaved, void>>

NewState(o) ==
    CASE o \in {"register", "activate"} -> "active"
      [] o = "suspend"                  -> "suspended"
      [] OTHER                          -> "absent"

(* suspendToken and activateToken touch, and save, only a token they find. *)
Changes(h) ==
    \/ req[h].op \in {"register", "deregister"}
    \/ tokens[req[h].tok] # "absent"

(* Mutation: a request changes the map without taking the mutex.           *)
LockFree(h) ==
    LET t == req[h].tok
        s == NewState(req[h].op)
    IN  /\ req[h].pc = "lock"
        /\ IF Changes(h)
             THEN /\ tokens' = [tokens EXCEPT ![t] = s]
                  /\ may' = [may EXCEPT ![t] = @ \cup {s}]
                  /\ req' = [req EXCEPT ![h].pc = "open"]
             ELSE /\ req' = [req EXCEPT ![h] = NoRequest]
                  /\ UNCHANGED <<tokens, may>>
        /\ UNCHANGED <<up, file, mu, unsaved, void>>

(* Mutation: the early return for an unknown token keeps the mutex.        *)
LockLeaked(h) ==
    LET t == req[h].tok
        s == NewState(req[h].op)
    IN  /\ req[h].pc = "lock"
        /\ mu = None
        /\ mu' = h
        /\ IF Changes(h)
             THEN /\ tokens' = [tokens EXCEPT ![t] = s]
                  /\ may' = [may EXCEPT ![t] = @ \cup {s}]
                  /\ req' = [req EXCEPT ![h].pc = "open"]
             ELSE /\ req' = [req EXCEPT ![h] = NoRequest]
                  /\ UNCHANGED <<tokens, may>>
        /\ UNCHANGED <<up, file, unsaved, void>>

Lock(h) ==
    LET t == req[h].tok
        s == NewState(req[h].op)
    IN  /\ req[h].pc = "lock"
        /\ mu = None
        /\ IF Changes(h)
             THEN /\ mu' = h
                  /\ tokens' = [tokens EXCEPT ![t] = s]
                  /\ may' = [may EXCEPT ![t] = @ \cup {s}]
                  /\ req' = [req EXCEPT ![h].pc = "open"]
             ELSE /\ req' = [req EXCEPT ![h] = NoRequest]
                  /\ UNCHANGED <<mu, tokens, may>>
        /\ UNCHANGED <<up, file, unsaved, void>>

(* saveTokens, first half: os.WriteFile opens the file and truncates it.   *)
Open(h) ==
    /\ req[h].pc = "open"
    /\ \/ /\ file' = Torn
          /\ req' = [req EXCEPT ![h].pc = "write"]
          /\ UNCHANGED unsaved
       \/ /\ DiskFaults
          /\ unsaved' = TRUE
          /\ req' = [req EXCEPT ![h].pc = "unlock"]
          /\ UNCHANGED file
    /\ UNCHANGED <<up, tokens, mu, may, void>>

(* Mutation: only the token of the request is written back.                *)
WriteOne(h) ==
    /\ req[h].pc = "write"
    /\ file' = [NoTokens EXCEPT ![req[h].tok] = tokens[req[h].tok]]
    /\ unsaved' = FALSE
    /\ req' = [req EXCEPT ![h].pc = "unlock"]
    /\ UNCHANGED <<up, tokens, mu, may, void>>

(* saveTokens, second half: the whole map goes into the file.              *)
Write(h) ==
    /\ req[h].pc = "write"
    /\ \/ /\ file' = tokens
          /\ unsaved' = FALSE
       \/ /\ DiskFaults
          /\ unsaved' = TRUE
          /\ UNCHANGED file
    /\ req' = [req EXCEPT ![h].pc = "unlock"]
    /\ UNCHANGED <<up, tokens, mu, may, void>>

(* The mutex is released and the panel gets its answer.                    *)
Unlock(h) ==
    /\ req[h].pc = "unlock"
    /\ mu' = None
    /\ may' = [may EXCEPT ![req[h].tok] = {NewState(req[h].op)}]
    /\ req' = [req EXCEPT ![h] = NoRequest]
    /\ UNCHANGED <<up, tokens, file, unsaved, void>>

Crash ==
    /\ up
    /\ up' = FALSE
    /\ tokens' = NoTokens
    /\ mu' = None
    /\ req' = [h \in Handlers |-> NoRequest]
    /\ void' = (void \/ (unsaved /\ file # Torn))
    /\ UNCHANGED <<file, may, unsaved>>

(* Mutation: the tokens read from disk are all taken as active.            *)
RestartAllActive ==
    /\ ~up
    /\ up' = TRUE
    /\ tokens' = [t \in Tokens |-> IF Loaded(file)[t] = "absent" THEN "absent" ELSE "active"]
    /\ unsaved' = FALSE
    /\ UNCHANGED <<file, mu, req, may, void>>

(* NewBridgeServer, on the restart by systemd.                             *)
Restart ==
    /\ ~up
    /\ up' = TRUE
    /\ tokens' = Loaded(file)
    /\ unsaved' = FALSE
    /\ UNCHANGED <<file, mu, req, may, void>>

Handle(h) == Open(h) \/ Write(h) \/ Unlock(h)

Next == Crash \/ Restart \/ \E h \in Handlers : Accept(h) \/ Lock(h) \/ Handle(h)

Spec == Init /\ [][Next]_vars

(* sync.RWMutex hands the lock over in the end, and a handler that has it  *)
(* runs to its end.                                                        *)
FairSpec ==
    /\ Spec
    /\ WF_vars(Restart)
    /\ \A h \in Handlers : SF_vars(Lock(h)) /\ WF_vars(Handle(h))

-----------------------------------------------------------------------------

(* AuthenticateToken: it takes bs.mu for reading, so it never sees a       *)
(* change whose save is under way.                                         *)
Admits(t) == up /\ mu = None /\ tokens[t] = "active"

(* The bridge fails closed: a token is admitted only if the requests made  *)
(* for it allow that, over any interleaving of handlers, crashes inside a  *)
(* save and restarts.  A token whose suspension or removal was answered    *)
(* does not come back, unless the process died while a failed save had     *)
(* left an older file in place.                                            *)
FailClosed ==
    ~void => \A t \in Tokens : Admits(t) => "active" \in may[t]

(* With no save under way and none outstanding, a restart brings back the  *)
(* tokens that are being enforced: saveTokens writes the whole map, so one *)
(* good save also makes up for every save that failed before it.           *)
RestartIsFaithful ==
    up /\ mu = None /\ ~unsaved => Loaded(file) = tokens

(* What the node enforces: a change that has not reached the disk yet is   *)
(* as if it had not been made, for it is gone if the process dies.         *)
Enforced ==
    IF up /\ \A h \in Handlers : req[h].pc # "open" THEN tokens ELSE Loaded(file)

Table == INSTANCE TokenTable WITH table <- Enforced, on <- up

(* As long as saves succeed, the handlers and the file together are the    *)
(* atomic table of TokenTable: a request takes effect at once and a crash  *)
(* either keeps every token or drops them all, whatever the moment.        *)
ImplementsTable ==
    Table!Init /\ [][~unsaved /\ ~unsaved' => [Table!Next]_<<Enforced, up>>]_vars

(* Every request is answered, or dropped by a crash: no handler leaves the *)
(* mutex held.                                                             *)
RequestsEnd ==
    \A h \in Handlers : []<>(req[h].pc = "idle")
=============================================================================
