# Verification of the SSH panel and of ShadowLink

TLA+ modules for the SSH VPN management panel (Django, Celery, a React
front end) and for ShadowLink, the tunnel that the panel provisions next to
plain SSH (Go). TLC checks the modules on small instances; TLAPS proves the
theorems of the `*_proofs` modules for every value of the constants.
`PROJECT.json` maps each definition to the source lines it models, and lists
runs, mutants, findings, hazards and theorems.

## 1. The system

| Part | State it keeps | Operations | Talks to |
|---|---|---|---|
| Accounts: `accounts/services.py`, `models.py`, `tasks.py`, `admin.py`, parts of `api/views.py` | `SSHAccount` rows, `AuditLog` | create, bulk create, delete, suspend, activate, extend, PATCH, password reset, admin selections, the payment webhook; the tasks `expire_users`, `cleanup_expired_accounts`, `sync_bandwidth_usage`, `sync_active_sessions` | nodes over SSH (`servers/ssh.py`), the bridge over HTTP (`servers/shadowlink.py`) |
| A node | OS users with password, lock and `chage` date, `limits.conf`, sessions, an iptables chain for each account with a limit | useradd, chpasswd, usermod -L/-U, chage, userdel, kill, iptables, the PAM script | driven by the panel |
| Server selection: `pick_best_server`, `rebalance_users` | none; counts rows | pick, insert, provision, commit, move | the rows, nodes over SSH |
| Server monitoring: `servers/tasks.py` | `Server.status`, failure counters of each worker process | periodic check, single check, edits and deletions of administrators | nodes over SSH |
| Token bridge: `shadowlink/internal/api/bridge.go` | the token map under a mutex, `tokens.json` | register, suspend, activate, delete; load at start | the panel (client), the relay (`AuthenticateToken`) |
| Handshake: `protocol/handshake.go`, `proxy/relay.go`, `proxy/socks5.go` | keys, timestamps, session state | hello, server hello, auth, acknowledgement | client, relay, bridge |
| Frame layer: `protocol/frame.go`, `crypto.go`, `obfuscation/traffic_shape.go` | nonces of `SessionCipher`, `WriteMu` | encode, encrypt, write, read, replay check | both ends of a session |
| Tunnel: `proxy/socks5.go`, `proxy/relay.go` | stream maps, pipes, connections to destinations | SOCKS connections, dial, data, close, cleanup | frame layer, applications, destinations |
| Panel in the browser: `useFetch.ts`, `AccountsPage.tsx`, `AuthContext.tsx`, `client.ts` | the page's data, the login | fetch, refetch, commands, login, logout, redirects | the API |
| Plans, read-only API, bot, deployment scripts | plain records | see section 7 | |

What is hard here:

* **Nothing locks a row.** A request or task reads a row, makes a remote call
  that takes seconds, and writes the row back. Tasks hold lists of rows for as
  long as they work through them. Every other job may run in between.
* **Remote calls fail in several ways.** The command ran and failed, the call
  raised and the node never saw it, or the call raised after the node had acted;
  exit codes are mostly ignored, bridge exceptions swallowed. Processes die
  between two steps, and nothing redelivers a job.
* **A call is several commands.** Setting up an account on a node is a handful
  of shell commands whose results are mostly dropped, and two jobs may be in the
  middle of it at once; a node may reboot and lose its iptables rules.
* **State per process.** Failure counters live in each worker process.
* **Files rewritten in place** (`tokens.json`, `limits.conf`).
* **Goroutines** that share one WebSocket, one nonce counter and one read loop.
* **Answers out of order** in the browser.

What makes each part correct: database and node agree (accounts); the number
of accounts on a server stays near its maximum (placement); a user has the days
that were ordered (payments); the password that the panel shows is the one that
opens the account, and the usage it shows is no more than there was (node); a
dead node is found, and a maintenance or a deletion stands (monitoring); limits are enforced and
nobody within them is thrown out (sessions); a restart never lets a revoked
token in (bridge); both ends agree on a key, and only active tokens get in
(handshake); frames arrive as sent (frame layer); each stream is a channel of
its own and nothing leaks (tunnel); the page shows what was asked for last and
a login is not undone by an old answer (browser). Section 4 has the properties.

## 2. Modules

| Module | Models | State ↔ code |
|---|---|---|
| `AccountLifecycle` | the accounts of one server | `row` the `SSHAccount` rows, `remote` the OS user or token, `audit` the newest `AuditLog` action, `job[w]` how far a web thread or Celery worker has got. Every database write and every remote call is a step of its own; a loop over accounts is a job with a `todo` set. A token that no row knows, because its creation failed, is not represented: nothing reads it again. |
| `NodeAccount` | one account at the grain of shell commands: passwords and traffic | `row` status, password and usage in the panel; `node` the OS user, his password and his chain, with the counters of its rules; `job[w]` the command a job has come to; `serving` that the server is ACTIVE |
| `Placement` | `pick_best_server` and its callers, `rebalance_users` | `row` per (server, username), `job[w]` from picking to the commit; `from` where a job moves a row from |
| `Payments` | the webhook, extensions and edits, over `Placement` | `days` the `expire_date` of each row in orders from now, `ext[w]` the instance of a row that a worker has loaded, `asked` and `due` the orders sent and answered |
| `ServerHealth` | health checks, edits and deletions of servers | `status` of the rows, `fails[p]` the `_health_fail_counts` of process p, `job[p]` with the status it loaded |
| `SessionLimits` | `sync_active_sessions`, `set_max_logins`, the PAM script | `file` the lines of `limits.conf`, `alive` the node's sessions, `passed` the logins that sshd is still authenticating after the script let them pass, `rows` the table `ActiveSession`, `sync[w]` a run of the task, `serving` that the server is ACTIVE |
| `TokenTable` | abstract specification: a table of tokens that each operation changes at once, and that stops and starts | |
| `TokenBridge` | the bridge | `tokens`, `file` (`Torn` between truncation and write), `mu`, `req[h]` a handler |
| `Handshake` | admission of a client | `cli[c]`, `srv[c]` the two ends, `up`, `down` the messages, `tokens` what the bridge holds as active. Keys are symbols: a derived key is the record of what it is derived from. |
| `FrameCodec` | `EncodeFrame`, `DecodeFrame` | pure operators over sequences, with the width of each field |
| `FrameChannel` | abstract specification: a channel delivers what was sent, in order | |
| `SecureChannel` | one direction of a session | `sendNonce`, `recvNonce`, `writeMu`, `held[w]` the packet in a goroutine's hand, `wire` |
| `StreamChannels` | abstract specification: one channel per stream | |
| `Tunnel` | client and relay of one session | each goroutine is a process: `conn[i]`, `holdUp[i]`, `read` on the client, `relay`, `pump[i]` on the server; `chunks` counts the chunks that the bound allows; `c2s` and `s2c` are what `FrameChannel` promises |
| `PanelPage` | `useFetch` and the command handlers of a page | `fetches` the requests with their `cancelled` flags, `data`, `loading`, `error`, `mount` the number of the page's instance; the server is a version number |
| `PanelAuth` | the login as the browser sees it | `user`, `loading`, `path`, the four kinds of requests, the server's `session` |
| `Panel` | a tab: `PanelAuth` with an accounts page and the other pages | the variables of both; `view` says of another page on the screen whether it polls (dashboard, sessions) or asks once (servers, plans, one account, logs), and has yet to ask or has done so; `Forget` is the reload that the interceptor asks for, `Follow` the route that hides the page from somebody who is logged out |

Composition. `SecureChannel` extends `FrameCodec` and implements
`FrameChannel` (refinement, checked and proved). `TokenBridge` implements
`TokenTable` (refinement, checked and proved): the table is what requests have
made of it in memory, and while the process is down what it will load. `Tunnel` uses queues of frames
in the place of `SecureChannel` and implements two instances of
`StreamChannels`. `Handshake` has the token table of `TokenBridge` as a set that
changes at any time; `AccountLifecycle` has the bridge and the shell of a node
as remote calls with an outcome, which `NodeAccount` takes apart into commands.
`Payments` extends `Placement` and gives its steps the days that ride on them;
`Panel` extends `PanelAuth` and takes an instance of `PanelPage`.

Proofs. `AccountLifecycle_proofs`, `NodeAccount_proofs`, `TokenBridge_proofs`,
`Tunnel_proofs` and `Panel_proofs` are about the module they name.
`Payments_proofs` is about `Placement` and `Payments`, `Tasks_proofs` about
`ServerHealth` and `SessionLimits`, `Session_proofs` about `Handshake` and
`SecureChannel`. Where a proof module extends two models, the definitions of one
of them carry a prefix: `Session` in `SessionLimits`, `Channel` in
`SecureChannel`, `Pay` in `Payments`.

Observers. Variables that the comments call observer or history are read by no
guard. In `AccountLifecycle`, `disturbed` records which aspects of an account
(access, date, log) a fault or an overlap of two jobs may have left wrong since
the last job that ran clean; the invariants speak of accounts that are settled.
The field `reset` of a credential says that `reset_password` has set a new
password since it was last locked or made, which opens it whatever the status.
`revived` in `Placement` are deleted accounts that were put back in service,
which takes a place nobody counted. `clash` in
`Payments` are users of whom two extensions or edits have overlapped. `doubt`
and `tangled` in `NodeAccount` record that the password may differ since the
last clean set-up, and that two set-ups of one chain have met. In `SessionLimits`,
`excess` are sessions that were beyond the limit at some time, `resolved` says that
a run has completed or was cut short, `unwritten` are the accounts for which a
`set_max_logins` failed, and `crowd` counts the logins of an account that were
under way when the latest one passed the script. `may`, `unsaved` and `void` in
`TokenBridge` say what the requests so far explain.

Definitions marked `Mutation:` are versions of the definition after them that
contain a plausible mistake. They are not used by the specifications; for each
property one of them, put in the place of the original, makes TLC find a
violation.

## 3. Runs

Eleven runs pass, one shows a violation.

| Run | Instance | Distinct states | What it shows |
|---|---|---|---|
| `lifecycle` | one account per behaviour, SSH or ShadowLink, 2 workers, all operations, all faults | 590 k | database, audit log and node stay in step |
| `lifecycle_beat` | 2 accounts (one of each kind), 2 workers, failing commands | 390 k | overdue accounts lose their access and are removed |
| `extend_expired` | 1 SSH account, 1 worker | (violation) | an expired account that is extended stays locked |
| `node_account` | 1 account, 2 workers, 4 passwords, 2 bytes, 1 fault, 4 mixes of operations, a server that is ACTIVE or not | 840 k | the shown password opens the account, traffic is not overcharged, the limit ends |
| `token_bridge` | 2 tokens, 2 handlers, crashes, disk faults | 410 k | the bridge is a table, fails closed, restarts faithfully, never keeps its lock |
| `server_health` | 1 server, 2 processes, all operations | 180 k | orders of administrators stand, a dead node goes DOWN |
| `payments` | 2 servers with 1 place each, 3 users, 2 workers, 3 orders, 3 changes | 1.1 M | the overshoot is bounded by the workers, days are those of the orders |
| `session_limits` | 1 user, limit 1, 3 sessions, 2 logins at once, 2 workers, 1 edit or fault | 870 k | limits are enforced, and only on those beyond them |
| `secure_channel` | 3 goroutines, 3 frames, fields of 4 and 8 values | 120 k | the frame layer is a reliable channel |
| `handshake` | 2 clients, 2 tokens, skewed clocks, 5 ticks | 570 k | keys agree, admission, window, both ends agree in the end |
| `tunnel` | 2 streams, 2 chunks in either direction, wires of 1 frame | 320 k | streams are channels, nothing leaks, nothing sticks |
| `panel` | 2 filters, 1 change, 1 command, 2 instances of the page, other pages of both kinds, 1 trouble | 510 k | a page shows what was asked for last, a login sticks, a lost session is noticed |

### Bounds

* Two workers, handlers or processes are enough for every interleaving of two
  jobs; no step of the code looks at more than one other job. The safety
  properties are proved for any number. Three goroutines in `secure_channel`,
  because the client has that many (copies and the shaper).
* `node_account`: the mixes are the sets of operations that meet in one
  behaviour; between them they have every pair of jobs that share state. Two
  bytes are enough for one to be counted twice and one once, and a fault is a
  failing command, a lost connection, a dead process or a reboot.
* `payments`: two servers, so that a row may move and move back; three users for
  two places, so that the last place is contested; three orders, of which one
  user may have sent all.
* `panel`: two instances of the page, so that what one has left on its way
  arrives at another; one trouble is a request that fails or an outside change
  of the session.
* `lifecycle` has the state constraint `OneAccount`: accounts only meet in the
  lists of tasks and selections, which `lifecycle_beat` has with two. The clock
  runs over one day with a grace period of 0 there, and over two days with a
  grace period of 1 in `lifecycle_beat`. In `lifecycle` an edit sets the first
  day, which moves an extended date back and may be over already.
* `session_limits`: with limit 1 the third session is one that begins after
  another has ended, or that the node let in because its login and that of the
  second passed the script together; two logins at once (`MaxStartups`) are the
  least that can do so, and the bound is proved for any number. The one edit or
  fault may also be that the server ceases to be ACTIVE; it may become ACTIVE
  again without limit.
* `secure_channel`: `padLen` has 4 values and `dataLen` 8, and the paddings of
  the traffic shaper exceed the byte, as those of `DefaultTrafficShapeConfig`
  do (up to 512 with one byte).
* `tunnel`: two chunks show order within a stream and confusion between two;
  wires that hold one frame make every writer wait. The refinement is proved for
  any number of streams and chunks and any wire.
* One user, or one server, in `session_limits` and `server_health`, two servers in
  `payments`, two filters in `panel`: what these runs check of safety is proved
  for any number of each.
* `CHECK_DEADLOCK FALSE` is set where a bound on time, data or events stops the
  instance. The bridge, the health checks, the session task, `node_account` and
  `panel` are checked for deadlock.

### Fairness

* `AccountLifecycle`: a job runs to its end (paramiko and requests have
  timeouts), time passes, and Beat enqueues the two tasks again and again, so
  that one is started if it is possible infinitely often (strong fairness:
  workers are busy in between). Requests of users are not fair.
* `ServerHealth`, `SessionLimits`: the same for the tasks of every minute and
  every 30 seconds; `sync_active_sessions` visits a server only while it is ACTIVE,
  and so do the steps that are fair.
* `NodeAccount`: a command returns or times out, and Beat enqueues
  `sync_bandwidth_usage` again and again, which visits the server while it is
  ACTIVE.
* `TokenBridge`: systemd restarts the process; `sync.RWMutex` does not starve a
  writer (strong fairness of `Lock`).
* `Handshake`, `SecureChannel`, `Tunnel`: goroutines run. In `Tunnel` an
  application that has data waiting reads it or closes. The handshake has no
  deadline (`HandshakeTimeout` is not used), so a peer that stays silent and
  keeps its connection is outside `EndsAgree`.
* `Panel`: the browser renders, runs effects and callbacks and reloads, every
  request ends, the dashboard and the sessions ask every 30 and 15 seconds while
  they are shown, and any other page asks once after it was opened. That the user
  opens or leaves a page is not fair.

`<>[]P` and `[]<>P` are used for properties that could be written with `~>`
where the two are equivalent (`P ~> ~P` is `[]<>~P`), because TLC checks them
much faster.

## 4. Properties

**Accounts.** `BlockedIsLockedOut`: an account shown as suspended, expired or
deleted cannot log in, unless `reset_password` opened it since it was last locked.
`NoOrphanCredential`: a deleted account has no credential.
`ExpiryInStep`: the date on the node is that of the row. `AuditMatchesStatus`:
the newest audit entry fits the status. These four hold for settled accounts: no
job is at work on them, and no fault or overlap has marked them since the last job
that sets right what the property speaks of. Faults and overlaps break them, and
the point is that the next clean job repairs them. `NoOrphanCredential` says
nothing of creations that failed: the user or token they leave behind has no row,
and stays until the name is created again. Two hold without such a
condition, for every step: `CommitProvisioned` (a row appears only for a
credential that exists) and `OnlySalesMoveDates` (only an extension or an edit
moves an expiry date). `OverdueLosesAccess` and `AutoCleanup` are the promise
of the beat schedule: an SSH account past its date, and a ShadowLink account
past its grace period, does not keep its access.

**Node.** `ShownOpens`: the password in the panel opens the OS user, unless a
job on it failed, overlapped or found a user that it had not made, and none has
succeeded since. `ChargeBounded`: the usage never exceeds the traffic, but once
more for each set-up of the chain that missed another. `QuotaEnds`: an account
whose counter is at the limit is suspended, however often it is activated, while
its server is ACTIVE: the task visits no others.

**Placement.** `OvershootBounded`: a server holds at most `max_users` plus the
number of workers less one, not counting deleted accounts that were put back,
wherever `rebalance_users` and edits move the rows. `setup_server` adds its account
without asking for a free place; it is not part of `Placement`, so the bound is one
on the accounts that the panel, the webhook and the tasks place.

**Payments.** `PaymentsInStep`: a user's accounts never have more days than were
ordered, and no fewer than were answered with success unless two jobs on one
row overlapped.

**Monitoring.** `OrdersHold`: a maintenance or a deletion that was ordered while
no job had the server in hand is not undone by one. `DeadIsMarkedDown`.

**Sessions.** `OnlyExcessIsKilled`: a run that acts on an old listing kills
nobody who was within the limit since the session began. `SomeRunCompletes`:
runs that overlap make each other fail on the unique constraint, but never all
of them (rows are created in the order of the listing; without that order both
can fail). `LimitIsEnforced`, `GhostRowsVanish`: excess sessions and rows of ended
ones do not stay while the server is ACTIVE. `LoginsBounded`: the PAM script lets
in one session too many, and one more for each further login that sshd was
authenticating at the same time, because it counts sessions and not logins; that
is for accounts for which no write of `limits.conf` failed.

**Bridge.** `ImplementsTable`, `FailClosed`, `RestartIsFaithful`, `RequestsEnd`.

**Handshake.** `KeysAgree`, `AdmittedSinceDial`, `PunctualIsHeard`,
`EndsAgree` (in the end both ends have the session or neither has).

**Frames.** `NeverRejected`, `ImplementsChannel`, `Arrives`.

**Tunnel.** `StreamsAreChannels`, `NoUpstreamLeak`, `ClosedIsReleased`,
`ReadLoopResumes`.

**Browser.** `ShowsWhatWasAsked`, `Settles`; `LoginSticks`. `LossIsNoticed`: a tab
whose session has ended shows the login page in the end, or somebody logs in, or it
rests on a page that has asked for its data and does not ask again (`AtRest`).

## 5. What is proved

| Theorem | For every | Statement |
|---|---|---|
| `LifecycleTypeCorrect` | accounts, workers, operations, faults, clock | `Spec => []TypeOK` |
| `RowsAreProvisioned` | the same | `Spec => CommitProvisioned` |
| `DatesMoveBySales` | the same | `Spec => OnlySalesMoveDates` |
| `BlockedStaysLockedOut`, `NothingIsOrphaned`, `ExpiryStaysInStep`, `AuditStaysInStep` | the same | `Spec => []BlockedIsLockedOut`, `[]NoOrphanCredential`, `[]ExpiryInStep`, `[]AuditMatchesStatus` |
| `NodeTypeCorrect`, `ShownPasswordOpens`, `ChargeStaysBounded` | finite workers, mixes of operations, passwords, limit, traffic, faults | `Spec => []TypeOK`, `[]ShownOpens`, `[]ChargeBounded` |
| `OrdersStand` | servers, processes, operations, strikes | `Spec => []OrdersHold` |
| `OneRunCompletes` | users, workers, limits, sessions, events | `SessionSpec => SomeRunCompletes` |
| `NobodyElseIsKilled` | the same | `SessionSpec /\ LimitsStay => OnlyExcessIsKilled` |
| `LoginsStayBounded` | the same, any number of logins at once, names unrelated, limits above 0 | `SessionSpec /\ LimitsStay => []LoginsBounded` |
| `BridgeTypeCorrect`, `BridgeFailsClosed`, `BridgeRestartIsFaithful` | tokens, handlers | `Spec => []TypeOK`, `[]FailClosed`, `[]RestartIsFaithful` |
| `BridgeImplementsTable` | tokens, handlers | `Spec => ImplementsTable` |
| `Admission`, `KeyAgreement`, `PunctualIsAdmitted` | clients, tokens, clocks, window | `Spec => []AdmittedSinceDial`, `KeysAgree`, `PunctualIsHeard` |
| `PlacementOvershoot` | servers, finite users and workers | `Spec => []OvershootBounded` |
| `PaymentsStayInStep`, `PaymentsOvershoot` | finite servers, users and workers, orders, edits | `PaySpec => []PaymentsInStep`, `[]OvershootBounded` |
| `RoundTrip` | payloads, paddings, field widths | decoding returns what was encoded |
| `ChannelTypeCorrect`, `ChannelNeverRejects`, `ChannelRefines` | writers, payloads, paddings, frames | `ChannelSpec => []ChannelTypeOK`, `[]NeverRejected`, the refinement of `FrameChannel` |
| `TunnelTypeCorrect`, `NoUpstreamLeaks` | streams, chunks, capacity of the wires, width of a byte | `Spec => []TypeInv`, `[]NoUpstreamLeak` |
| `TunnelInvariant`, `StreamsRefine` | the same | `Spec => []TunnelInv`, both refinements of `StreamChannels` |
| `LoginsStick`, `PageShowsWhatWasAsked` | filters, commands, changes, mounts, troubles | `PanelSpec => LoginSticks`, `[]ShowsWhatWasAsked` |

Theorems of the form `...Invariant` state the inductive invariants these follow
from.

The assumptions are those named in the modules (`LifecycleAssumption`,
`NodeAccountAssumption`, `HealthAssumption`, `BridgeAssumption`,
`SessionLimitsAssumption`, `PlacementAssumption`, `PaymentsAssumption`,
`CodecAssumption`, `ChannelAssumption`, `HandshakeAssumption`,
`TunnelAssumption`, `PanelAuthAssumption`, `PanelAssumption`): constants have
their types, what is counted is finite, "none"
values are not elements of the sets they stand beside, payloads and paddings fit
the widths that the code gives them, and a session has no more streams than a
stream id of four bytes can tell apart. `NodeAccount` has more passwords than the
row, the node and the workers can hold at once, because `generate_password` is
modelled as a choice of one that nobody holds. TLC evaluates the assumptions in
every run.

Three hypotheses are in the theorems about `SessionLimits`, because the code
promises no more. `LimitsStay`: an edit does not change the limit of an account
that exists. If the limit is lowered after the listing of the node and before the
task reads it, a session that had the second place of two when it was listed is
killed, although by then it may be the only one; and sessions that are there
when a limit is lowered are more than it. `NamesUnrelated`: `set_max_logins` for
a name also replaces the lines of names that start with it. `0 \notin Limits`: the
PAM script takes 0 for no limit. Suspensions, failing commands, and any
interleaving of runs are covered.

The arguments:

* **Accounts.** `CommitProvisioned` is not inductive: that the credential is
  there when the row is committed depends on what happened since the call to
  the node. The invariant `Inv` says which operation may be at which point
  (`JobShape`), that jobs which do not create work on rows that exist, that
  `create_account` has its unique key to itself until it ends (`KeysFree`,
  `OneCreator`), and that a creation past its call has left a credential as
  long as there is no row (`Provisioned`). Only jobs on existing rows take
  credentials away, hence none of a row that is about to appear.
  The four invariants of settled accounts speak of accounts in nobody's hands.
  `SyncInv` says what holds meanwhile. Two jobs on one account have marked it as
  disturbed in every respect and neither is clean, so that neither lifts the mark
  at its end (`Overlapped`); an account that no job has begun to change is right
  or marked (`Untouched`); one that a single job is changing is marked, or the
  job, if it is clean, will mend it, and then node, row and log are such that the
  rest of its steps puts them right (`Underway`, with `AccessDue`, `DateDue` and
  `LogDue` for the three respects). `Loaded` and `Selected` say that an instance
  or a list that was read earlier is still true as long as nobody else came
  across it. The `save()` of a whole instance is where all of this is needed.
* **Node.** `JobInv` has a job at a command of its operation, with a password in
  its hand only if the operation has one; that `generate_password` finds a fresh
  one is a pigeonhole argument. `PasswordInv`: two jobs on the password leave it
  in doubt and neither is clean (`Alone`), what a clean one has told the node is
  what it will save (`Told`), nobody makes the user between the check and the
  `useradd` of a clean provisioning (`NotThereYet`). `ChargeInv` counts the rules
  that lead to the chain together with the set-ups that are about to add one:
  there is one at most unless two set-ups have met, and no more than workers and
  faults even then (`JumpsBounded`); no rule has counted, no job read and no row
  shows more than that many times the traffic.
* **Monitoring.** Every save writes the status that its task loaded, at most
  replaced by what a probe found. `HealthInv` says of each server under an order
  that nobody disputes that it is deleted and no task has it in hand, or that it
  is in maintenance and each task that has it in hand loaded the maintenance and
  has not found it dead.
* **Sessions.** `SomeRunCompletes`: a run is ahead if it has yet to empty the table
  or is past the creation of rows, or if all it has still to create come after
  every row there is. An INSERT ahead of all rows cannot fail, and whichever run
  empties the table or creates a row is ahead or leaves the one ahead in front
  (`Promised`). For this a listing must have a last process, and the least of the
  rest must exist: the least number of a set is `NatLessThanWellFounded`, where an
  induction would need a theorem with an operator parameter.
  `OnlyExcessIsKilled`: a listing is a set of sessions that were there together, so
  who ranks beyond the limit in it was beyond it at that moment (`Ranked`); sets
  that shrink make no rank worse, so that what `Count` condemns is in `excess`
  (`Condemned`). `LoginsBounded`: the script turns logins away only if it finds
  exactly one line; that an account has one, with its own limit, unless a write for
  it failed, is `OneLine`, and `PatchesKnown` says of the calls of `set_max_logins`
  that are still to be made that they have the account's limit too. The bound itself
  says nothing of logins that have passed the script; `BoundInv` counts them with the
  sessions: both together are at most `max_connections` and those that were under
  way when the latest one passed.
* **Bridge.** `Inv` ties the mutex to the one handler that is saving, the state
  of the file to the step of the save, and both memory and file to the states
  that requests explain. `FailClosed` follows because a torn file loads as no
  tokens.
  The refinement maps the table to memory, and to what `loadTokens` makes of the
  file while the process is down or a handler has yet to truncate it: nobody sees
  the change before, because the handler has the mutex. Truncation is then the
  step at which a request takes effect, and what follows of its save stutters. A
  crash keeps the table or, between truncation and write, empties it
  (`TokenTable!Stop`). A failed save is out of `ImplementsTable`, and in
  `FailClosed` and `RestartIsFaithful`.
* **Handshake.** Neither property is inductive: they say nothing of the messages
  in transit. `InStep` ties, for each connection, the state of the server to the
  two queues and to the state of the client: while the server waits for the hello
  the queue holds the client's own and nothing else, while it waits for the
  authentication either its answer is on the way down or the client's message,
  under the key of the hello's timestamp, on the way up, or the client has given
  up; from then on both have that key. `SeenActive` says that a token which is
  active at any time after the dial is recorded as seen, so that one which passes
  the check has been. `PunctualIsHeard` adds when the hello was built (`Dated`) and
  that whole seconds are less than a second behind (`UnixRounds`).
* **Placement.** The bound itself is not inductive. `PlacesBounded` counts the
  jobs in flight to a server together with its rows: a job joins only when a
  place was free, and then at most all workers are in flight; a commit turns a
  job in flight into a row. A job that moves a row counts against its new server
  only, and frees its place on the old one.
* **Payments.** `PaymentsInStep` compares sums: the days of all rows of a user with
  orders sent and answered. Days are counted as a set of pairs of a server and a
  number (`Tally`, `Paid`), so that sums are cardinalities, a day more is one pair
  more, and a row that moves is a bijection; no fold is unwound. The upper half is
  not inductive, because the save of an old instance takes days back and a later
  one puts them there again. `Ordered` says that there are orders `g[s]` behind each row
  which cover its days and those of every instance loaded from it, and which
  together with the orders that are not saved yet are no more than were asked
  for; an extension makes `g` one more, and a save of an old instance leaves it. The
  lower half is `Settled`: as long as no two jobs on the user's rows overlap, every
  instance in hand is the present one and the calls still to be answered are
  paid in full. Both need what `PayShape` knows of the jobs: keys without a row have
  no days and are in nobody's hands (`Vacant`), a key taken for a new row is
  taken by one job (`HeldKeys`), and a worker does one thing at a time
  (`OneThing`). For the overshoot `PlacesBounded` no longer suffices: an edit that
  was loaded before `rebalance_users` moved its row takes the row back without
  asking `pick_best_server`. `BookedBounded` therefore keeps the place on the server
  the edit was loaded from booked until it is saved; the worker that holds it is not
  in flight anywhere.
* **Frames.** Sealed frames that were not read yet lie on the wire, and in the
  hand of the goroutine that has `WriteMu`, in the order of their nonces and
  without a gap (`Counts`, `WireInOrder`, `HeldIsLast`). With `RoundTrip` this
  gives both the absence of rejections and the refinement.
* **Tunnel.** Four layers. `TypeInv`: what each goroutine holds at each step.
  `StreamInv`: ids below `nextID` are used once, the control frame of a stream is
  on the wire before its chunks and at most once (`DialledOnce`), so a stream is
  dialled once and its connection is in the map from then until it is closed
  (`KnownUpstream`), which gives `NoUpstreamLeak`. That the id of a frame is the
  id that was written is `StreamIDRoundTrip`, about the four bytes of
  `encodeStreamID` and `decodeStreamID`. `UpInv` and `DownInv`: as long as a
  stream flows, the chunks between what was sent and what has arrived, counting
  those in a goroutine's hand, are on the wire in order (`InOrder`), and without a
  gap until the session breaks, after which nothing more is written (`AllThere`).
  A stream that has stopped flowing never flows again, so that frames left behind
  for it are dropped and no chunk is delivered after a gap. The refinement
  follows: a delivery is the next chunk that was sent.
* **Browser.** `LoginSticks`: while the answer of `AuthMeView` is outstanding the
  application is loading, shows no form, and so no login has been sent
  (`AskedFirst`); an old answer therefore finds nobody to log out.
  `ShowsWhatWasAsked`: a request that is not cancelled was sent with the present
  filter, and if it was served, it was so after every command that was reported as
  done, unless the page is about to cancel it (`Fresh`). The server's version
  never falls behind what a command has seen (`Reported`).

Only model-checked are the 13 liveness properties: fairness and `ENABLED` are out of
the prover's reach. Every safety property of every run, invariant or about steps,
is stated by a theorem. What `extend_expired` shows is a violation, and so is a run.

## 6. Where the code does not do what it says

`extend_expired` is a run: `extend_account` unlocks the user if the account was
EXPIRED, after `account.extend()` has set it to ACTIVE. An expired customer who
pays again is active in the panel and locked on the node, until somebody
suspends and activates the account.

The models also contain the following, which properties leave out where they
say so:

* `expire_users` locks an OS user for every account; the token of an expired
  ShadowLink account stays active (`Effect`, `Blocked` in `AccountLifecycle`).
* `expire_users` marks accounts of a list that it read earlier: one that is
  extended meanwhile becomes EXPIRED with a date in the future.
* `chage -E` gets a day without a time, so up to a day of paid time is lost.
* With several worker processes a server goes DOWN without "3 consecutive
  failures": a success that one process sees does not reset the others.
* `pick_best_server` falls back to another server when the given one is not
  available ("or a specific one if given").
* `set_max_logins` replaces every line that starts with the username, also that
  of a longer name (`StartsWith` in `SessionLimits`).
* The PAM script refuses a login when the sessions already there exceed the
  maximum, so one more than the maximum gets in, and one more for each further login
  under way at the same time: the script runs before the session is there
  (`CheckLogin`, `Login`).
* `set_max_logins` reports success whatever its commands did, and an edit passes
  over its exceptions: a failed write leaves an account without a limit, or with two
  lines, which the script takes for none (`SetMaxLoginsFails`).
* `sync_active_sessions` and `sync_bandwidth_usage` visit only servers that are
  ACTIVE. On a server that is FULL, DOWN or in maintenance, excess sessions, rows of
  ended sessions and accounts above their traffic limit stay as they are
  (`serving`).
* A creation that fails after it has reached the node leaves the OS user or the
  token there, without a row. Nothing removes it.
* The pages of the servers, plans, accounts and logs ask for data when they are
  opened and after what the user does, and not otherwise: a tab that rests on one
  goes on showing it after its session has ended (`AtRest` in `Panel`).
* The client takes any answer to its authentication, "DENIED" too, for success
  (`ReadAck` in `Handshake`).
* No session is ever added to a `SessionManager`: the bridge lists none, and
  `max_per_token` limits nothing.
* Two set-ups of a chain that overlap leave two rules in it: traffic is counted
  once for each rule that leads to the chain, or `tail -1` reads the second rule,
  which counts nothing. A connection lost between `iptables -N` and `-A` leaves a
  chain that never counts, because the next set-up finds it (`List`, `Chain`,
  `Reading` in `NodeAccount`). A new user of an old name may have another uid,
  which the rule that is there does not name.
* A reboot takes the chain away and with it what was used so far; the usage that
  the panel shows starts again at 0. An extension does not reset it either.
* `chpasswd` gives a locked user an unlocked password: a reset opens a suspended
  account, or an expired one, and does so without any failure (`Opens` and the field
  `reset` in `AccountLifecycle`; `BlockedIsLockedOut` names it).
* `setup_server` and the default user of a new server show a new password although
  an OS user who is there keeps his old one (`UserExists` in `NodeAccount`). The
  deleted row of such a user keeps its key: the INSERT fails, and a user who was
  made stays on the node.
* `rebalance_users` gives the new OS user a password that is not recorded and
  leaves the old OS user as he is (`Move` in `Placement` moves the row only).
* The webhook answers an error when the node cannot be told of an extension whose
  days are saved; an order that is sent again is given again (`AnswerExt` in
  `Payments`).
* `AccountUpdateView` saves all fields of the row that it read, the server too,
  and so moves an account back that was moved meanwhile (`SaveEdit`).
* `check_all_servers_health` inserts a server again that was deleted during a
  probe that succeeds; after a probe that fails, `save(update_fields=...)` raises
  for it and the servers after it are not checked (`Store` in `ServerHealth`).
* Accounts of more than 21 characters have no counter: the name of their chain
  is too long for iptables (not in the models).
* Each command of the bot is a coroutine that calls the ORM directly, which
  Django refuses in an event loop (not in the models).

## 7. What is not modelled

* **Session manager** of ShadowLink: nothing is ever added to it.
* **The Telegram bot**: see above; none of its commands gets as far as a change.
* **Plans, serializers, read-only views, QR codes, exports**: no state changes
  beyond the operations above.
* **Django admin's built-in forms**, and the hard deletion of rows with them.
* **A server that is added twice** (the unique IP address): a unit test reaches it.
* **Deployment** (`servers/shadowlink.py` beyond the token calls, `scripts/`,
  `setup_server` beyond its server row and default user, nginx, Docker): input and output
  without a protocol.
* **Obfuscation of timing, TLS, CDN**: no state that the properties speak of.
  Cryptography is symbolic: what an attacker can do is outside the models.
* **The data of polling pages** (`SessionsPage`, `DashboardPage`): a slow answer may replace
  a newer one until the next poll. What a poll does to the login is in
  `Panel`. Likewise the data of the servers, the plans, the logs and a single account,
  of which `Panel` has the request that they send when opened. The public page
  `/status/:token` is outside: the interceptor leaves it alone, and it asks for nothing
  that needs a login.
* **Session limits of related names and a limit of 0**: `SessionLimits` has
  both in its definitions (`StartsWith`, `Maxima`), but its run has one name and
  a limit of 1, since with more the instance is out of TLC's reach, and the
  theorem on the number of sessions has them among its hypotheses. Nothing is
  claimed of them.
* **The installation of the PAM script**: `_ensure_maxlogin_script` is taken to have
  succeeded. On a node where its commands failed there is no limit at login, only that
  of `sync_active_sessions`.

## 8. Plan

Done, in this order: accounts, bridge, monitoring, frame layer with its
refinement, tunnel, handshake, placement, sessions, browser; then rebalancing,
payments, passwords and traffic on the node, the tab as a whole, the bridge as
an abstract table, deletion of servers; the proofs about the handshake, about
settled accounts, the node, monitoring and the tunnel; and those about sessions,
the browser and payments, with which no safety property is left to a run alone.

Next, models: the composition of `AccountLifecycle` with `TokenTable` (a
suspension in the panel against crashes of the bridge, end to end with
`Handshake`), and the data of pages that poll.

Next, proofs: that `Payments` implements a ledger of orders and answers, for which
the witness of `Ordered` would become a variable; and session limits for names of
which one starts another, where the bound is that of the line that was written
last.
