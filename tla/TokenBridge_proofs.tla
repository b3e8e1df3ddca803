------------------------- MODULE TokenBridge_proofs -------------------------
(***************************************************************************)
(* Proofs about TokenBridge, for any set of tokens and of handlers.        *)
(***************************************************************************)
EXTENDS TokenBridge, TLAPS

-----------------------------------------------------------------------------
(* The inductive invariant.                                                *)

Saving == {"open", "write", "unlock"}

(* The mutex belongs to the one handler that is between Lock and Unlock.   *)
MutexHeld ==
    \A h \in Handlers : (req[h].pc \in Saving) <=> (mu = h)

RequestsWellFormed ==
    \A h \in Handlers :
        req[h].pc # "idle" => up /\ req[h].op \in Ops /\ req[h].tok \in Tokens

(* How far the handler that has the mutex has got with its change.         *)
SaveInProgress ==
    \A h \in Handlers :
        /\ req[h].pc \in Saving => tokens[req[h].tok] = NewState(req[h].op)
        /\ req[h].pc = "write" => file = Torn
        /\ req[h].pc = "unlock" /\ ~unsaved => file = tokens

Explained(s, t) == s \in may[t] \cup {"absent"}

MemorySound == ~void /\ up => \A t \in Tokens : Explained(tokens[t], t)

FileSound ==
    ~void /\ file # Torn /\ ~(up /\ unsaved) => \A t \in Tokens : Explained(file[t], t)

Inv ==
    /\ TypeOK
    /\ MutexHeld
    /\ RequestsWellFormed
    /\ SaveInProgress
    /\ MemorySound
    /\ FileSound
    /\ RestartIsFaithful

-----------------------------------------------------------------------------

(* A request sets its token to one of the states of TokenInfo.             *)
LEMMA NewStateType == \A o : NewState(o) \in States
  BY DEF NewState, States

(* The tokens that loadTokens returns are well typed, whatever the file.   *)
LEMMA LoadedType ==
    ASSUME TypeOK
    PROVE  /\ NoTokens \in [Tokens -> States]
           /\ Loaded(file) \in [Tokens -> States]
  BY DEF TypeOK, NoTokens, Loaded, States

(* The process starts with the invariant.                                  *)
LEMMA InvInit == Init => Inv
  <1> SUFFICES ASSUME Init PROVE Inv
    OBVIOUS
  <1>1. NoTokens \in [Tokens -> States]
    BY DEF NoTokens, States
  <1>2. TypeOK
    BY <1>1 DEF Init, TypeOK, Request, NoRequest, PC, States
  <1>3. Torn # NoTokens
    BY <1>1, BridgeAssumption
  <1>4. MutexHeld /\ RequestsWellFormed /\ SaveInProgress
    BY BridgeAssumption
    DEF Init, MutexHeld, RequestsWellFormed, SaveInProgress, NoRequest, Saving
  <1>5. MemorySound /\ FileSound
    BY DEF Init, MemorySound, FileSound, Explained, NoTokens
  <1>6. RestartIsFaithful
    BY <1>3 DEF Init, RestartIsFaithful, Loaded
  <1> QED
    BY <1>2, <1>4, <1>5, <1>6 DEF Inv

(* Every step of a handler, every crash and every restart keeps it.        *)
LEMMA InvNext == Inv /\ [Next]_vars => Inv'
  <1> SUFFICES ASSUME Inv, [Next]_vars PROVE Inv'
    OBVIOUS
  <1> USE BridgeAssumption, NewStateType, LoadedType
  <1>1. ASSUME NEW h \in Handlers, Accept(h) PROVE Inv'
    <2> USE <1>1 DEF Accept
    <2>1. TypeOK'
      BY DEF Inv, TypeOK, Request, PC, Ops
    <2>2. (MutexHeld /\ RequestsWellFormed /\ SaveInProgress)'
      BY DEF Inv, TypeOK, MutexHeld, RequestsWellFormed, SaveInProgress, Saving,
             Request, PC
    <2>3. (MemorySound /\ FileSound /\ RestartIsFaithful)'
      BY DEF Inv, MemorySound, FileSound, RestartIsFaithful, Explained
    <2> QED
      BY <2>1, <2>2, <2>3 DEF Inv
  <1>2. ASSUME NEW h \in Handlers, Lock(h) PROVE Inv'
    <2> DEFINE t == req[h].tok
               s == NewState(req[h].op)
    <2>1. req[h].pc = "lock" /\ mu = None /\ t \in Tokens /\ up
      BY <1>2 DEF Lock, Inv, RequestsWellFormed
    <2>2. \A g \in Handlers : req[g].pc \notin Saving
      BY <2>1 DEF Inv, MutexHeld
    <2>3. CASE Changes(h)
      <3> USE <1>2, <2>1, <2>2, <2>3 DEF Lock
      <3>1. TypeOK'
        BY DEF Inv, TypeOK, Request, PC
      <3>2. MutexHeld' /\ RequestsWellFormed'
        BY DEF Inv, TypeOK, MutexHeld, RequestsWellFormed, Saving, Request
      <3>3. SaveInProgress'
        BY DEF Inv, TypeOK, SaveInProgress, Saving, Request
      <3>4. MemorySound' /\ FileSound' /\ RestartIsFaithful'
        BY DEF Inv, TypeOK, MemorySound, FileSound, RestartIsFaithful, Explained
      <3> QED
        BY <3>1, <3>2, <3>3, <3>4 DEF Inv
    <2>4. CASE ~Changes(h)
      <3> USE <1>2, <2>1, <2>2, <2>4 DEF Lock, NoRequest
      <3>1. TypeOK'
        BY DEF Inv, TypeOK, Request, PC
      <3>2. MutexHeld' /\ RequestsWellFormed' /\ SaveInProgress'
        BY DEF Inv, TypeOK, MutexHeld, RequestsWellFormed, SaveInProgress, Saving, Request
      <3>3. MemorySound' /\ FileSound' /\ RestartIsFaithful'
        BY DEF Inv, MemorySound, FileSound, RestartIsFaithful, Explained
      <3> QED
        BY <3>1, <3>2, <3>3 DEF Inv
    <2> QED
      BY <2>3, <2>4
  <1>3. ASSUME NEW h \in Handlers, Open(h) PROVE Inv'
    <2>1. mu = h /\ \A g \in Handlers \ {h} : req[g].pc \notin Saving
      BY <1>3 DEF Open, Inv, MutexHeld, Saving
    <2> USE <1>3, <2>1 DEF Open
    <2>2. TypeOK'
      <3>1. req' \in [Handlers -> Request]
        BY DEF Inv, TypeOK, Request, PC
      <3>2. file' \in [Tokens -> States] \cup {Torn} /\ unsaved' \in BOOLEAN
        BY DEF Inv, TypeOK
      <3> QED
        BY <3>1, <3>2 DEF Inv, TypeOK
    <2>3. MutexHeld' /\ RequestsWellFormed'
      BY DEF Inv, TypeOK, MutexHeld, RequestsWellFormed, Saving, Request
    <2>4. SaveInProgress'
      BY DEF Inv, TypeOK, SaveInProgress, Saving, Request
    <2>5. MemorySound' /\ FileSound' /\ RestartIsFaithful'
      BY DEF Inv, TypeOK, MemorySound, FileSound, RestartIsFaithful, RequestsWellFormed, Explained
    <2> QED
      BY <2>2, <2>3, <2>4, <2>5 DEF Inv
  <1>4. ASSUME NEW h \in Handlers, Write(h) PROVE Inv'
    <2>1. mu = h /\ \A g \in Handlers \ {h} : req[g].pc \notin Saving
      BY <1>4 DEF Write, Inv, MutexHeld, Saving
    <2>2. file = Torn
      BY <1>4 DEF Write, Inv, SaveInProgress
    <2> USE <1>4, <2>1, <2>2 DEF Write
    <2>3. TypeOK'
      BY DEF Inv, TypeOK, Request, PC
    <2>4. MutexHeld' /\ RequestsWellFormed'
      BY DEF Inv, TypeOK, MutexHeld, RequestsWellFormed, Saving, Request
    <2>5. SaveInProgress'
      BY DEF Inv, TypeOK, SaveInProgress, Saving, Request
    <2>6. MemorySound' /\ RestartIsFaithful'
      BY DEF Inv, MemorySound, RestartIsFaithful, Explained
    <2>7. up
      BY DEF Inv, RequestsWellFormed
    <2>8. FileSound'
      BY <2>6, <2>7 DEF MemorySound, FileSound, Explained
    <2> QED
      BY <2>3, <2>4, <2>5, <2>6, <2>8 DEF Inv
  <1>5. ASSUME NEW h \in Handlers, Unlock(h) PROVE Inv'
    <2> DEFINE t == req[h].tok
               s == NewState(req[h].op)
    <2>1. mu = h /\ \A g \in Handlers \ {h} : req[g].pc \notin Saving
      BY <1>5 DEF Unlock, Inv, MutexHeld, Saving
    <2>2. t \in Tokens /\ tokens[t] = s /\ (~unsaved => file = tokens)
      BY <1>5 DEF Unlock, Inv, SaveInProgress, RequestsWellFormed, Saving
    <2> USE <1>5, <2>1, <2>2 DEF Unlock, NoRequest
    <2>3. TypeOK'
      BY DEF Inv, TypeOK, Request, PC
    <2>4. MutexHeld' /\ RequestsWellFormed' /\ SaveInProgress'
      BY DEF Inv, TypeOK, MutexHeld, RequestsWellFormed, SaveInProgress, Saving, Request
    <2>5. MemorySound'
      BY DEF Inv, TypeOK, MemorySound, Explained
    <2>6. up
      BY DEF Inv, RequestsWellFormed
    <2>7. FileSound'
      BY <2>5, <2>6 DEF Inv, TypeOK, FileSound, MemorySound, Explained
    <2>8. RestartIsFaithful'
      BY DEF Inv, TypeOK, RestartIsFaithful, Loaded
    <2> QED
      BY <2>3, <2>4, <2>5, <2>7, <2>8 DEF Inv
  <1>6. ASSUME Crash PROVE Inv'
    <2> USE <1>6 DEF Crash, NoRequest
    <2>1. TypeOK'
      BY DEF Inv, TypeOK, Request, PC
    <2>2. MutexHeld' /\ RequestsWellFormed' /\ SaveInProgress'
      BY DEF MutexHeld, RequestsWellFormed, SaveInProgress, Saving
    <2>3. MemorySound' /\ FileSound' /\ RestartIsFaithful'
      BY DEF Inv, TypeOK, MemorySound, FileSound, RestartIsFaithful, Explained
    <2> QED
      BY <2>1, <2>2, <2>3 DEF Inv
  <1>7. ASSUME Restart PROVE Inv'
    <2> USE <1>7 DEF Restart
    <2>1. TypeOK'
      BY DEF Inv, TypeOK
    <2>2. \A g \in Handlers : req[g].pc = "idle"
      BY DEF Inv, RequestsWellFormed
    <2>3. MutexHeld' /\ RequestsWellFormed' /\ SaveInProgress'
      BY <2>2 DEF Inv, MutexHeld, RequestsWellFormed, SaveInProgress, Saving
    <2>4. FileSound'
      BY DEF Inv, FileSound, Explained
    <2>5. MemorySound'
      BY DEF Inv, FileSound, MemorySound, Explained, Loaded, NoTokens
    <2>6. RestartIsFaithful'
      BY DEF RestartIsFaithful
    <2> QED
      BY <2>1, <2>3, <2>4, <2>5, <2>6 DEF Inv
  <1>8. CASE UNCHANGED vars
    BY <1>8 DEF vars, Inv, TypeOK, MutexHeld, RequestsWellFormed, SaveInProgress,
                MemorySound, FileSound, RestartIsFaithful, Explained
  <1> QED
    BY <1>1, <1>2, <1>3, <1>4, <1>5, <1>6, <1>7, <1>8 DEF Next, Handle

-----------------------------------------------------------------------------

(* The bridge is always well typed.                                        *)
THEOREM BridgeTypeCorrect == Spec => []TypeOK
  <1>1. Inv => TypeOK
    BY DEF Inv
  <1> QED
    BY <1>1, InvInit, InvNext, PTL DEF Spec

(* The bridge fails closed: see FailClosed.                                *)
THEOREM BridgeFailsClosed == Spec => []FailClosed
  <1>1. Inv => FailClosed
    BY DEF Inv, MemorySound, Explained, FailClosed, Admits
  <1> QED
    BY <1>1, InvInit, InvNext, PTL DEF Spec

(* A restart brings back what was enforced: see RestartIsFaithful.         *)
THEOREM BridgeRestartIsFaithful == Spec => []RestartIsFaithful
  <1>1. Inv => RestartIsFaithful
    BY DEF Inv
  <1> QED
    BY <1>1, InvInit, InvNext, PTL DEF Spec

-----------------------------------------------------------------------------
(* The refinement of TokenTable.  A change that waits for its save differs *)
(* from the file in its own token, and TokenTable would make it as well.   *)

ChangePending ==
    \A h \in Handlers :
        req[h].pc = "open" /\ ~unsaved =>
            /\ tokens = [Loaded(file) EXCEPT ![req[h].tok] = NewState(req[h].op)]
            /\ req[h].op \in {"register", "deregister"} \/ Loaded(file)[req[h].tok] # "absent"

Opening == \E h \in Handlers : req[h].pc = "open"

(* Only the handler that has the mutex is at its save, and without one the *)
(* file holds what is enforced.                                            *)
LEMMA HolderAlone ==
    ASSUME Inv
    PROVE  /\ \A g, h \in Handlers : req[g].pc \in Saving /\ req[h].pc \in Saving => g = h
           /\ \A h \in Handlers : req[h].pc # "idle" => up
           /\ mu = None => ~Opening
           /\ mu = None /\ up /\ ~unsaved => Loaded(file) = tokens
  BY BridgeAssumption DEF Inv, MutexHeld, RequestsWellFormed, RestartIsFaithful, Saving, Opening

(* Every step keeps the pending change apart from the file.                *)
LEMMA PendingNext == Inv /\ ChangePending /\ [Next]_vars => ChangePending'
  <1> SUFFICES ASSUME Inv, ChangePending, [Next]_vars PROVE ChangePending'
    OBVIOUS
  <1> USE HolderAlone DEF ChangePending, Saving, Request, NoRequest
  <1>0. req \in [Handlers -> Request]
    BY DEF Inv, TypeOK
  <1>1. ASSUME NEW h \in Handlers, Accept(h) PROVE ChangePending'
    BY <1>0, <1>1 DEF Accept, Loaded
  <1>2. ASSUME NEW h \in Handlers, Lock(h) PROVE ChangePending'
    <2>1. mu = None /\ up /\ ~Opening /\ (~unsaved => Loaded(file) = tokens)
      BY <1>2 DEF Lock
    <2>2. Loaded(file)' = Loaded(file) /\ unsaved' = unsaved
      BY <1>2 DEF Lock, Loaded
    <2>3. CASE Changes(h)
      <3>1. req' = [req EXCEPT ![h].pc = "open"]
        BY <1>2, <2>3 DEF Lock
      <3>2. tokens' = [tokens EXCEPT ![req[h].tok] = NewState(req[h].op)]
        BY <1>2, <2>3 DEF Lock
      <3>3. req'[h].tok = req[h].tok /\ req'[h].op = req[h].op
        BY <1>0, <3>1
      <3>4. \A g \in Handlers \ {h} : req'[g].pc # "open"
        BY <1>0, <2>1, <3>1 DEF Opening
      <3> QED
        BY <2>1, <2>2, <2>3, <3>2, <3>3, <3>4 DEF Changes
    <2>4. CASE ~Changes(h)
      BY <1>0, <1>2, <2>1, <2>4 DEF Lock, Opening
    <2> QED
      BY <2>3, <2>4
  <1>3. ASSUME NEW h \in Handlers, Handle(h) PROVE ChangePending'
    <2>1. \A g \in Handlers \ {h} : req[g].pc # "open" /\ req'[g] = req[g]
      BY <1>0, <1>3 DEF Handle, Open, Write, Unlock
    <2>2. req'[h].pc # "open"
      BY <1>0, <1>3 DEF Handle, Open, Write, Unlock
    <2> QED
      BY <2>1, <2>2
  <1>4. ASSUME Crash PROVE ChangePending'
    BY <1>4 DEF Crash
  <1>5. ASSUME Restart PROVE ChangePending'
    BY <1>5 DEF Restart
  <1>6. CASE UNCHANGED vars
    BY <1>6 DEF vars, Loaded
  <1> QED
    BY <1>1, <1>2, <1>3, <1>4, <1>5, <1>6 DEF Next

(* While no save is outstanding, every step is a step of the table, or     *)
(* leaves it alone.                                                        *)
LEMMA StepOfTable ==
    Inv /\ ChangePending /\ [Next]_vars /\ ~unsaved /\ ~unsaved'
        => [Table!Next]_<<Enforced, up>>
  <1> SUFFICES ASSUME Inv, ChangePending, [Next]_vars, ~unsaved, ~unsaved'
               PROVE  Table!Next \/ (Enforced' = Enforced /\ up' = up)
    OBVIOUS
  <1> USE HolderAlone DEF Saving, Request, NoRequest
  <1>0. req \in [Handlers -> Request] /\ tokens # Torn
    BY BridgeAssumption DEF Inv, TypeOK
  <1>a. Enforced = (IF up /\ ~Opening THEN tokens ELSE Loaded(file))
    BY DEF Enforced, Opening
  <1>b. Enforced' = (IF up' /\ ~Opening' THEN tokens' ELSE Loaded(file)')
    BY DEF Enforced, Opening
  <1>1. ASSUME NEW h \in Handlers, Accept(h) PROVE Enforced' = Enforced /\ up' = up
    <2>1. Opening' = Opening
      BY <1>0, <1>1 DEF Accept, Opening
    <2> QED
      BY <1>1, <1>a, <1>b, <2>1 DEF Accept, Loaded
  <1>2. ASSUME NEW h \in Handlers, Lock(h) PROVE Enforced' = Enforced /\ up' = up
    <2>1. up /\ ~Opening /\ Loaded(file) = tokens
      BY <1>2 DEF Lock
    <2>2. Loaded(file)' = Loaded(file) /\ up' = up
      BY <1>2 DEF Lock, Loaded
    <2>3. CASE Changes(h)
      <3>1. req' = [req EXCEPT ![h].pc = "open"]
        BY <1>2, <2>3 DEF Lock
      <3>2. Opening'
        BY <1>0, <3>1 DEF Opening
      <3> QED
        BY <1>a, <1>b, <2>1, <2>2, <3>2
    <2>4. CASE ~Changes(h)
      BY <1>2, <1>a, <1>b, <2>1, <2>2, <2>4 DEF Lock
    <2> QED
      BY <2>3, <2>4
  <1>3. ASSUME NEW h \in Handlers, Open(h) PROVE Table!Next
    <2> DEFINE t == req[h].tok
               o == req[h].op
    <2>0. \A g \in Handlers : req'[g].pc # "open"
      BY <1>0, <1>3 DEF Open
    <2>1. up /\ up' /\ Opening /\ ~Opening' /\ tokens' = tokens
      BY <1>3, <2>0 DEF Open, Opening
    <2>2. Enforced = Loaded(file) /\ Enforced' = tokens
      BY <1>a, <1>b, <2>1
    <2>3. o \in Ops /\ t \in Tokens
      BY <1>3 DEF Open, Inv, RequestsWellFormed
    <2>4. /\ Enforced' = [Enforced EXCEPT ![t] = NewState(o)]
          /\ o \in {"register", "deregister"} \/ Enforced[t] # "absent"
      BY <1>3, <2>2 DEF ChangePending, Open
    <2>5. Table!Set(t, NewState(o)) /\ (o \in {"register", "deregister"} \/ Table!Known(t))
      BY <2>1, <2>4 DEF Table!Set, Table!Known
    <2>6. Table!Register(t) \/ Table!Deregister(t) \/ Table!Suspend(t) \/ Table!Activate(t)
      BY <2>3, <2>5
      DEF Ops, NewState, Table!Register, Table!Deregister, Table!Suspend, Table!Activate
    <2> QED
      BY <2>3, <2>6 DEF Table!Next
  <1>4. ASSUME NEW h \in Handlers, Write(h) \/ Unlock(h) PROVE Enforced' = Enforced /\ up' = up
    <2>0. \A g \in Handlers : req[g].pc # "open" /\ req'[g].pc # "open"
      BY <1>0, <1>4 DEF Write, Unlock
    <2>1. up /\ up' /\ ~Opening /\ ~Opening' /\ tokens' = tokens
      BY <1>4, <2>0 DEF Write, Unlock, Opening
    <2> QED
      BY <1>a, <1>b, <2>1
  <1>5. ASSUME Crash PROVE Table!Next
    <2>1. Enforced' = Loaded(file)
      BY <1>5, <1>b DEF Crash, Loaded
    <2>2. Loaded(file) \in {Enforced, Table!Empty}
      <3>1. CASE Opening
        BY <1>a, <3>1
      <3>2. CASE mu = None
        BY <1>5, <1>a, <3>2 DEF Crash
      <3>3. CASE mu # None /\ ~Opening
        <4>1. PICK h \in Handlers : mu = h
          BY <3>3 DEF Inv, TypeOK
        <4>2. req[h].pc \in {"write", "unlock"}
          BY <3>3, <4>1 DEF Inv, MutexHeld, Opening
        <4>3. file = Torn \/ file = tokens
          BY <4>2 DEF Inv, SaveInProgress
        <4> QED
          BY <1>0, <1>5, <1>a, <3>3, <4>3 DEF Crash, Loaded, NoTokens, Table!Empty
      <3> QED
        BY <3>1, <3>2, <3>3
    <2> QED
      BY <1>5, <2>1, <2>2 DEF Crash, Table!Next, Table!Stop
  <1>6. ASSUME Restart PROVE Table!Next
    <2>1. ~Opening /\ ~Opening'
      BY <1>6 DEF Restart, Opening
    <2>2. Enforced' = Enforced
      BY <1>6, <1>a, <1>b, <2>1 DEF Restart
    <2> QED
      BY <1>6, <2>2 DEF Restart, Table!Next, Table!Start
  <1>7. CASE UNCHANGED vars
    BY <1>7 DEF vars, Enforced, Loaded
  <1> QED
    BY <1>1, <1>2, <1>3, <1>4, <1>5, <1>6, <1>7 DEF Next, Handle

(* The process starts with the table empty.                                *)
LEMMA StartOfTable == Init => ChangePending /\ Table!Init
  <1> SUFFICES ASSUME Init PROVE ChangePending /\ Table!Init
    OBVIOUS
  <1>1. NoTokens # Torn
    BY BridgeAssumption DEF NoTokens, States
  <1>2. Loaded(file) = NoTokens /\ tokens = NoTokens
    BY <1>1 DEF Init, Loaded
  <1> QED
    BY <1>2 DEF Init, ChangePending, NoRequest, Enforced, NoTokens, Table!Init, Table!Empty

(* The bridge implements the table: see ImplementsTable.                   *)
THEOREM BridgeImplementsTable == Spec => ImplementsTable
  <1>1. Init => Inv /\ ChangePending /\ Table!Init
    BY InvInit, StartOfTable
  <1>2. Inv /\ ChangePending /\ [Next]_vars => (Inv /\ ChangePending)'
    BY InvNext, PendingNext
  <1>3. Inv /\ ChangePending /\ [Next]_vars
          => [~unsaved /\ ~unsaved' => [Table!Next]_<<Enforced, up>>]_vars
    BY StepOfTable
  <1> QED
    BY <1>1, <1>2, <1>3, PTL DEF Spec, ImplementsTable
=============================================================================
