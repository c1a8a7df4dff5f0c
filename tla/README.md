# Hermes K2 Monitor — TLA+ verification

This directory models the collaboration mesh of Hermes K2 Monitor and its
dashboard: the modules `collab/*.py`, the handlers of `server.py` that drive
them, and what `frontend/index.html` makes of the messages it gets. Every
definition is a translation of that code; TLC checks small instances, TLAPS
proves the central theorems for every value of the constants.

Contents: 1 inventory · 2 modules and code · 3 runs and bounds · 4 fairness ·
5 where code and documents disagree · 6 what is proved · 7 what is only
model-checked · 8 what is not modelled · 9 plan · 10 running it.

## 1. Inventory of the system

One Python process (`server.py`) runs one asyncio loop with an HTTP server, two
WebSocket endpoints for browsers, one for peers, a periodic task scanner, a
drain loop for the outbound relay and one outgoing WebSocket link per partner.
A call between two `await`s is atomic towards every other coroutine; it is not
atomic towards a crash, an `OSError`, another process, or a partner.

| component | state it keeps | operations | hard behaviour | what makes it correct |
|---|---|---|---|---|
| **Vault** `collab/vault.py` | `ledger.jsonl`, `.auth/audit.jsonl`, `state.json`, its copy in memory, task files | `append_event`, `verify_audit_chain`, `upsert_task`, `register/revoke/touch_node`, `audit_status`, `write_file` | four files written one after the other; crash or failed write in between; lines edited from outside; the ledger is never replayed | the audit covers the ledger; an acknowledged event is durable; a damaged or half-written ledger takes no event; tasks are not lost; the snapshot shows the events |
| **Trust** `collab/trust.py` | seen nonces and their file, clock | `sign`, `verify`, `_remember_nonce`, `_save_nonces` | replay window against pruning and a capacity limit, clock skew, timestamps that convert to NaN, restart, nonce saved before the event is recorded | an envelope whose timestamp is a number is accepted at most once while its nonce is kept; an honest fresh envelope is accepted |
| **Outbound relay** `collab/relay.py` | queue (500), per-partner failures and back-off | `forward`, `_dispatch`, `_dispatch_async`, `drain_loop`, breaker | lost answers, partner down, several partners, envelopes that age in the queue, bounded queue | no event lost, copies bounded, a healthy partner is not cut off |
| **WS link client** `collab/wsrelay.py` | socket, reconnect counter, running flag | `start`, `stop`, `_run`, `_dial_and_stream`, `send`, `_drop` | reconnect against stop, a socket that times out, back-off | one live socket, `connected` tells the truth, it reconnects |
| **WS relay endpoint** `server.py api_ws_relay` | connection count per node, authenticated sockets | handshake, event stream, release of the slot | refused connections, concurrent handshakes, revocation of a connected node | at most three connections per node, the count is the number of connections, no event of a revoked node |
| **Membership** `collab/auth.py`, `collab/identity.py`, revocation handlers of `server.py` | codes, tokens, certificates, revoked store (four encrypted files), vault nodes, challenges | `create_invite`, `join`, `verify_token`, `revoke_node`, prepare/confirm revoke | several files per operation, crash in between, code reuse by two processes, expiry | a code admits one node once; a revoked node never authenticates again, also after a crash |
| **Rate limiter** `collab/ratelimit.py` | SQLite table of hits | `check` | several processes, clock read before the transaction | never more than the limit in a window |
| **Mesh** `server.py api_relay`, `api_ws_relay`, `api_collab_task`, `api_collab_file`, `_relay_forward` | per node: nonces, ledger, stored tasks and files, the handler in flight; between nodes: signed envelopes | verify, store, append, forward, answer | duplicates and echoes between mutual partners, one envelope at several doors, an append that fails after its nonce was saved, nonces that are pruned, evicted or never kept, a crash between store and record | an envelope is recorded once per node while its nonce is kept; a node records before it forwards; copies of an event are only as many as its routes |
| **Dashboard** `server.py`, `frontend/index.html` | task lists, agents, discussion and its log, last task hash, browser sockets; in the browser what it shows | `scan_tasks`, `update_agents`, `broadcast`, `periodic`, `append_discussion`, adopt, export, `/ws`, `/api/state`; `onmessage`, `refreshState`, reconnect | files moved under a scan, rescans by requests between two broadcasts, answers overtaken by messages, a restart, two lists cut independently | the browser comes to show the files, the discussion and the events |
| **Crypto helpers** | — | HMAC, Fernet, Ed25519 | — | assumed ideal |
| **HTTP front door** | — | viewer and owner checks, body limit | — | stateless, not modelled |
| **Operator scripts** `scripts/*` | — | set-up, smoke tests | — | not modelled |

How they interact:

- `api_relay`, `api_ws_relay` and the task and file endpoints *verify* (Trust),
  *append* (Vault), *broadcast* (Dashboard) and then *forward* (Relay or WS
  link), in this order and in one handler. Only awaiting the body, a frame or a
  socket interrupts them.
- A forwarded event arrives at the partner's `api_relay`, so an answer that is
  lost, late or an error is the relay's view of the partner's Trust and Vault.
- An outgoing WS link and the partner's `api_ws_relay` share a socket: `WsLink`
  composes the client with `Sessions`.
- `MeshAuth` and `NodeIdentityManager` keep their own files, but a join or a
  revocation also changes the nodes of the vault's `state.json`: `Membership`
  has all four stores.
- A revocation reaches the WS endpoint and `api_relay` only through
  `verify_token`, when a connection authenticates or a request begins.

Every hazard of this code that a test would hardly reach is listed in
`PROJECT.json` at its line, with the properties that would catch it.

## 2. Modules and the code they translate

| module | translates | how |
|---|---|---|
| `AuditedLog` | — | abstract specification: entries are committed one at a time, an answer is about the last committed entry, a sealed log takes no more |
| `Vault` | `collab/vault.py` | one action per *write* of a call; `pc` and `then` say what the call in flight does next. `append_event` is Check → LedgerAppend → AuditAppend → Apply… → SaveState → Finish; `upsert_task` is PutFile → UnlinkOthers → SaveState. `Restart` and `WriteFails` end a call anywhere and leave a torn line where the code was writing one |
| `Trust` | `collab/trust.py` | `Verify` is verify up to the nonce in memory, `SaveNonces`/`SaveFails` the file; `Tick` moves the wall clock either way |
| `Relay` | `collab/relay.py` | one task per message (`dispatch`), the drain loop (`drain`), per-partner failure counters and breakers, the queue; partners, wire and outages are the environment |
| `Sessions` | `server.py` 714–735, 925–1081 | one handler per socket, interrupted where it awaits; the connection counter; two-step revocation; the authorization of an HTTP request before its body |
| `WsLink` | `collab/wsrelay.py`, `server.py` 152–175 | the link's task, composed with the partner (`Partner == INSTANCE Sessions WITH …`), and the choice between link and HTTP |
| `Mesh` | `server.py` 161–180, 714–784, 786–822, 1040–1070 | several nodes, each with one handler in flight (`call`): Verify → SaveNonces → Store → Record → ForwardLeg… → Answer; the nonce store with its pruning, its limit and failed saves (`Prunes`, `SaveFails`); a node's ledger is an instance of `AuditedLog` |
| `Membership` | `collab/auth.py`, `collab/identity.py`, nodes of the vault | one action per file written by `join` and `revoke_node`; memory (`mem`) and files (`disk`) apart, because the code changes memory first |
| `RateLimit` | `collab/ratelimit.py` | the clock is read in one action and the transaction is another |
| `Dashboard` | `server.py` 181–400, 650–677, 830–1000, `frontend/index.html` 356, 427–503 | a handler or an iteration of `periodic` is an action; what is on a browser's socket and the answers of `/api/state` are two channels |

`XProofs` holds the theorems about `X` (`DoorProofs` those about `Trust` and
`RateLimit`, the two checks at the HTTP doors, so the latter's `RateSpec` and its
parts have names of their own); `MCX` instantiates it for TLC (model
values, sets, budgets, symmetry). Operators ending in `_Something` and
commented "Mutant" are plausible bugs of the definition below them: with the
mutant in its place the run named in `PROJECT.json` finds the property
violated. They are used by nothing else.

Abstractions common to all modules: a message, event, token or file is a model
value or a small record; signatures and hashes are ideal (the hash of an entry
is the entry, of a chain the sequence it covers); time is an integer clock where
windows matter (Trust, RateLimit) and otherwise an action that makes something
expire at any point (Relay, Sessions, Membership), which allows more behaviours
than real time does. Variables marked "history" record what a property needs to
know and are read by no guard (except `accepted` in Trust, for a bound).

Notes on single modules:

- **Vault.** The server is one thread and a vault call never awaits, so one call
  is in flight at a time; the interleavings are with crashes, failed writes and
  outside edits. `DamageLedger` changes or cuts an audited line. `KeepLast` is
  the 200 messages the state keeps.
- **Trust.** An envelope is a nonce and a timestamp, a number or `NaN`:
  `timestamp_seconds` lets NaN through. NaN compares false with everything, so such
  an envelope is always fresh (trust.py:88) and its nonce is pruned before it is
  saved (134). Replay is accepting the same pair twice. `NoReplay` excepts NaN and
  the nonces dropped beyond `nonce_limit`, which is documented
  (COLLAB-MESH-SPEC.md:76).
- **Relay.** The code stores an envelope signed once. A partner refuses it when it
  is `stale` (older than the window) or its nonce is known (`seen`), also when the
  event was never recorded: a 503 of `api_relay` comes after `verify` has saved the
  nonce. A partner may lose a nonce again (eviction, a failed save). A refusal is a
  failure to the relay, which queues the message again.
- **Sessions.** The `finally` clause of `api_ws_relay` runs for connections that
  were refused after authentication too; `ConnEnds` is that clause.
- **Mesh.** An envelope is the number of its nonce; once signed it may be
  delivered to any node it is meant for, any number of times and in any order,
  which is what the queue, the retries and the lost answers of `Relay` amount to
  for the receiver. The doors differ as the handlers do: task and file store
  before they record and make one `forward()`; `api_relay` asks every link, or
  without links makes one `forward()`; a WebSocket frame is not forwarded. A link
  that is up takes the event and sends nothing (`WsLink`). `of` and `trail` name the
  entry an envelope forwards and the nodes it came through; no guard of a
  receiver reads them. In the code a node dials all its partners or none
  (`K2_WS_LINK`); the configurations allow any set of links. `Interrupted` seals
  a node whose append was cut, which is what `VaultImplementsLog` shows of it.
  There is no clock: a save may drop any nonce but the one just verified for its
  age, and its envelope is then stale at that node for good (`lapsed`), because
  nonces are kept for four windows and accepted for one; it drops all but
  `NonceLimit` of the rest (`evicted`), whichever they are, and every nonce whose
  timestamp is not a number (`timed`). An envelope dropped in the last two ways may
  still be fresh and is then taken for a new one: `Forgettable`.
- **Membership.** `LoseState` is a `state.json` that cannot be read, which
  `_load_state` answers with an empty state.
- **Dashboard.** A scan lists three directories one after the other; another
  process may move a file between them, so `Scan` takes some buckets from before
  and some from after one move. aiohttp writes what is sent on one socket in the
  order of the calls, so a socket is a sequence. An answer of `/api/state`
  carries how many messages sent before it are still to be shown (`ahead`): that
  is how the model knows whether it was overtaken. `crossed` marks a browser whose
  last answer was shown out of turn, until an answer comes in its turn or a socket
  is opened; `stale` one that besides has been sent no change by `periodic` since.

## 3. Runs, bounds and what they show

| run | instance | shows |
|---|---|---|
| `vault` | 1 node, 1 task, 2 entries, 2 faults, 1 message kept | the inductive invariant; acknowledged events are durable; audit is a prefix of the ledger; damage is detected for good; no false alarm; tasks have a file and a matching state; `state.json` shows the ledger unless a call was interrupted; revocation sticks; `Vault` implements `AuditedLog` |
| `trust` | 3 nonces, timestamps 0…6 or NaN, store of 2, window 1, clock 0…6 set back by up to 3, 1 fault | no replay but of evicted nonces and NaN timestamps |
| `relay` | 2 messages, 2 partners, queue of 2, breaker after 2 failures, overflow 2 after that, 2 faults | no message is just forgotten, copies stay bounded; liveness: applied in the end unless every partner refuses it, the cap or an exception takes it, or the drain loop has ended |
| `relay_event_lost` (violation) | as above, queue of 4 | the drain loop forgets the partner a message was queued for |
| `sessions` | 2 nodes, 3 sockets, limit 2, 1 request, 1 challenge | no slot leaks; the limit holds unless a connection was refused (`CapUnlessRefused`, a part of `SessionsInv`); no new session and in the end silence without a token, a challenge revokes once |
| `sessions_cap` (violation) | 1 node, 3 sockets, limit 1 | the limit is passed after a refused connection |
| `membership` | 2 nodes, 2 codes, 2 tokens, 3 faults | codes are single-use, revocation is final and takes effect with its first write, membership is durable |
| `wslink` | 3 sockets, limit 1, failures counted to 2, 2 faults | the link recovers although it leaves sockets behind; when the partner refuses it, the sockets it left behind are open and fill the limit |
| `ws_forward` (violation) | 1 socket, 1 event | an event given to a live link is never sent |
| `mesh` | 3 nodes, 1 event, 4 envelopes, nonce store of 1, 2 entries per node, 1 fault; three topologies: two mutual partners, one node with links to two partners, two routes of different length to one node | no envelope is recorded twice by a node unless its nonce was evicted or its timestamp is NaN; nothing is forwarded that is not recorded; copies of an event are routes, two links or one of those envelopes; an envelope burnt by a failed append stays so until its nonce is evicted; every node implements `AuditedLog` |
| `ratelimit` | 2 callers, 2 buckets, limit 2, window 3, lag 1, clock to 5 | the limit in every window shortened by the lag; no early refusal |
| `dashboard` | 1 browser, 1 task, 1 agent, lists cut from 2 to 1, three budgets | the discussion stays in step; no change goes untold; the board and the events converge; each with its exceptions (section 5) |

Why the bounds are enough. Each property is about a fixed, small number of
things that meet, and every instance has one more of the scarce resource than
its limit: three nonces in a store of two, three sockets under a limit of two or
one, three copies of messages over a queue of two, a third discussion entry over
a list of two, two nonces in the store of one of `mesh`. Four envelopes let an event
go from its agent to the partner, back and there again between mutual partners, and
let both legs of a fork and both routes arrive.
Two faults allow an interrupted call and the interruption of the
call that follows or of the restart; three in `membership` because a revocation
can be cut twice and `state.json` lost besides. `mesh` has one, a cut save or append,
a restart or a nonce that lapses: each is enough for the retries its properties are
about, and longer combinations are left to the proofs. Two messages and two partners
are what it takes for a drain loop and a task to work on the same queue and for
one partner's success to hide another's failure. What the bounds cut off (more
nodes, longer chains) is where the theorems of section 6 take over. `dashboard`
splits its behaviours into three budgets (files with adoptions and events; two
moves of files with a fault; entries with events and a fault), because their
product is out of reach; each budget includes a lost request, a dropped socket
or a restart. It has one browser: browsers share no state but the scan, and a
rescan caused by another browser is the same action as one of its own.

Deadlock is checked in `sessions`, `trust` and `vault`, whose systems always
have something to do within their bounds. The other runs stop when their
budgets, clocks or codes are used up.

## 4. Fairness

- **Relay** `FairSpec`: the event loop runs every task that can go on and the
  drain loop; a POST ends because it has a timeout; breakers expire; an outage
  ends. Nothing says that a POST succeeds or that an answer arrives.
- **WsLink** `FairSpec`: the link's task and the partner's handlers run; the
  back-off passes; the receive timeout and the heartbeat close a socket nobody
  reads; an outage ends. Not assumed: that the partner accepts the connection.
- **Dashboard** `FairSpec`: `periodic` runs every two seconds (its body is in a
  `try`); a browser reconnects after three seconds (`onclose`); requests reach
  the server; messages and answers on their way arrive unless a fault takes
  them. Not assumed: that files stop moving (the budget of moves ends), or that a
  failed request is repeated, which `refreshState` does not do.

## 5. Where code and documents disagree

Three runs state what a comment or document says and find it violated; the
quoted lines are in `PROJECT.json`.

1. **A queued event is dropped** (`relay_event_lost`): `drain_loop` promises that
   no verified event is lost; it stops at the first partner that takes it.
2. **The connection limit** (`sessions_cap`): a connection refused at the limit
   gives back a slot it never took.
3. **Events over a live link** (`ws_forward`): `client.send()` is a coroutine
   that nobody awaits, and the HTTP fallback is skipped.

Seen on the way, without a run of their own:

- `state.json` after a crash: docs/COLLAB-MESH-SPEC.md:55 says that it is updated
  on every event; `append_event` commits to ledger and audit first and nothing
  replays them. What holds, checked and proved, is `SnapshotUnlessInterrupted`; the
  ledger itself keeps every acknowledged event (`AckedDurable`, proved).
- An event between mutual partners, the set-up that README.md:60-83 and
  docs/SETUP-MESH.md describe, goes to and fro without end: `api_relay` signs what
  it has recorded again and forwards it to all partners, the sender included. The
  comment of `api_ws_relay` (1064-1067) says that inbound events are not
  re-exported, and over the WebSocket they are not. `CopiesAreRoutes` says how far
  the multiplication goes: one copy for each route through the partners, and a
  cycle is a route of any length.
- With two links down `_relay_forward` calls `forward()` twice, and each call
  signs for *every* partner: each gets the event twice.
- collab/relay.py:15-16 says a duplicate forward can never be applied twice: true
  of an envelope (`RecordedOnce`), not of an event that is signed again.
- An append that fails, or is refused because the chain does not verify (503),
  comes after the nonce was saved: the sender's retry of that envelope is a replay
  (`OneChance`), and a task or file it stored stays without an entry. In `Relay`
  the partner refuses such a message at every retry. Each retry counts as a failure,
  and after about a thousand in a row the overflow in `_mark_fail` ends the drain
  loop, and what else the queue holds stays there. `DeliveredUnlessRefused` excepts the loop that has ended (`dead`): without
  that exception TLC finds this behaviour.
- A timestamp that converts to NaN (`"nan"`, or JSON's NaN; trust.py:33,39) passes the
  check at trust.py:88, and line 134 drops its nonce before the file is written: a
  node accepts and records such an envelope at every delivery. The signature covers
  the timestamp, so only a signer with the mesh key can make one.
  COLLAB-MESH-SPEC.md:71-72 asks for a timestamp within 30 seconds and a nonce never
  used before; `NoReplay`, `RecordedOnce` and `CopiesAreRoutes` state the exception,
  and that of an evicted nonce whose envelope is still fresh.
- An answer of `/api/state` that is shown after newer messages replaces what they
  brought (`index.html:356`), and nothing notices. An entry of the discussion is then
  missing or shown twice until an answer comes in its turn or the socket is opened
  again (`DiscussionInStep` excepts `crossed`); old tasks and agents stay until then,
  or until `periodic` sends the next change of the files, none of which need ever come
  (`NoChangeUntold` and `BoardConverges` except `stale`); old events until the next
  request (`EventsShown`).
- A partner records a forwarded `file_update` without the file's content, which
  `api_collab_file` leaves out of what it forwards.
- `NodeIdentityManager.issue` (identity.py:106) refuses an id that has a
  certificate which is not revoked, also an expired one: such a node can only join
  again under another id. No document promises otherwise.
- An open WebSocket connection of a revoked node goes on appending
  (`server.py:1041` verifies the token of the first frame only), where
  COLLAB-MESH-SPEC.md:170 says that a revoked node loses its sessions.
  `NoSessionWithoutToken` is what does hold.
- `_mark_fail` computes `2 ** n` times a float (`relay.py:220`), which overflows
  after about a thousand failures; likewise the link's back-off (`wsrelay.py:147`).
  Both are in the models (`burnt`, `phase = "dead"`).
- `aio_ws` passes the aiohttp message object, not its text, to `json.loads`
  (`server.py:977`): a browser's entries over `/ws` are ignored, although
  README.md:135 offers that way. `Push` is the port-8765 handler.
- `init` lacks the shared tasks and mesh messages: after a reconnect a browser
  shows events it was not told of only with the next event. `EventsShown`
  excepts them (`missed`).
- A change that makes an agent idle or online without changing the tasks is not
  broadcast, and a change that is undone before `periodic` sees it, but after a
  request was answered with it, is not either (`returned`).
- An entry without a text is kept by the server and not shown by the browser,
  whose list is then cut at another entry (`blank`).

## 6. What is proved

TLAPS checks every proof to its leaves. Each `XProofs` module shows that an
inductive invariant holds initially and is preserved by every action, one lemma
or step per action, and derives the properties from it.

| theorems (module) | argument |
|---|---|
| `VaultInvariant`, `AuditPrefix`, `DamageIsDetected`, `FlagIsRight`, `RevocationIsFinal`, `TaskIsNeverLost`, `VaultImplementsLog` (`VaultProofs`) | `VaultInv`: besides types it says what a call in flight holds (`CallOK`), that whole audit rows are chained and only the last may be torn (`RowsLinked`), that undamaged ledger lines are distinct (`LedgerDistinct`), and where the call is between its two writes (`InFlightOK`). Without these `DamageDetected` is not inductive: a cut line plus the extra line of an interrupted append have equal lengths, and only ids and hashes tell the difference |
| `AckedEntriesLast`, `FilesMatchState` (`VaultProofs`) | an answered entry is audited (`VaultImplementsLog`), and its effect is in `state.json`: `MessagesInv` (the state's messages are in the order of the ledger and the entry in flight is newer than all, so an answered message is shown until `KeepLast` newer ones push it out), `NodesInv` (a joined node stays known to memory and disk), `FilesInv` (a task that was answered has a file). `MatchInv`: a task no upsert is at work on, and whose last one was not interrupted, has its file where memory and disk list it |
| `SnapshotIsCurrent` (`VaultProofs`) | `SnapInv` compares `state.json`, the memory and what a replay of the ledger makes, wherever a call is: an event is ahead in memory while its task is stored first, then ahead in the ledger until `_apply_event`. It needs that a state which takes an event twice is as if it took it once (`ReplayedTwice`): `api_collab_task` stores a task and `append_event` stores it again, which would not be so if the buckets listed it twice (`Tidy`). The replay of one line more is one event more by induction over the length of the ledger (`SetInduction`, from the well-founded order of the naturals) |
| `TrustInvariant`, `NoReplayTheorem` (`DoorProofs`) | an accepted envelope, unless its nonce was evicted or its timestamp is NaN (`Repeatable`), is in memory and in the file until it is four windows behind the highest time ever shown; the clock is at most three behind that. |
| `RelayInvariant`, `NothingForgotten` (`RelayProofs`) | from its second partner on a message is queued, drained, applied, evicted or burnt (`Kept`), also between two partners, which `NeverForgotten` does not say |
| `RetriesNeverMultiply` (`RelayProofs`) | `CopiesInv`: the copies in the queue, those the drain loop holds and the partners a task has still to try are at most one for each partner; a step that adds a copy uses up one of the others. A message's copies are the cardinality of its positions in a sequence, not a recursive count |
| `SessionsInvariant`, `NoSlotLeaks`, `LimitUnlessRefused`, `TokensAreNeeded`, `OneRevocationPerChallenge` (`SessionsProofs`) | every refused connection's node is in `refused`, so the slot it gives back wrongly is one the properties do not speak of |
| `LinkInvariant`, `LinkIsAClient`, `RefusedForOpen` (`WsLinkProofs`) | every step of the composition is a step of `Sessions` or leaves the partner alone, so the link implements its client side (`Spec => Partner!Spec`) and inherits `SessionsInv` from `SessionsProofs`: the partner's counter is the number of open sockets unless a connection was refused, and the link's own socket is not one of them while it says hello; the failures are counted from the last handshake |
| `MembershipInvariant`, `CodesAreSingleUse`, `RevocationIsFinal`, `InterruptedRevocationHolds`, `MembershipIsDurable` (`MembershipProofs`) | the four stores and two memories related step by step: a code that made a token is used or gone; every store that says "revoked" agrees with `struck`; what a granted node needs is on disk and in memory |
| `RateInvariant`, `LimitHolds`, `RefusalsAreDue` (`DoorProofs`) | every hit in the table was admitted, every admitted hit younger than the window is still there; the count in the table then bounds the count of admissions |
| `MeshInvariant`, `CopiesOnRoutes`, `OneChanceOnly`, `EveryNodeKeepsItsLog` (`MeshProofs`) | for any nodes, configurations and events. What a node recorded it knows (`Knows`: its nonce is in the file, has lapsed, or is `Forgettable`), and a nonce in the file is in memory, has lapsed or was evicted (`NodeOK`); where the handler stands between nonce, entry and forwards (`CallOK`): this gives `RecordedOnce` and `OneChance`. An entry that was forwarded while its handler is still at it has a leg done, or is not the first entry of its envelope (`LegDone`), so a second envelope on the same route is a second leg of the same handler, a node with two links, or of a second entry of one envelope (`RoutesDistinct`) |
| `DashboardTypes`, `DashboardInvariant`, `BoardsInvariant`, `DiscussionTheorem`, `NoChangeUntoldTheorem` (`DashboardProofs`) | types alone say nothing of what is on its way. `Ends(w, k, v, u)`: a browser that shows `v` shows `u` when the messages of `w` after the first `k` are shown. `ComesRight`: what is shown in the end is what the server has. `BrowserInv` says this of what a browser shows and of every answer not overtaken, from the place it has among the messages; `FirstInv` that a snapshot is the first message of its socket and repairs whatever was shown before, also an overtaken answer. `BoardInv` covers the browsers that `BrowserInv` gives up: one that showed an answer out of turn comes to show the tasks and busy agents once a change was sent to it, because such a message replaces them all. The two properties are the case of an empty socket |
| `EventsComeTheorem` (`DashboardProofs`) | for a browser that was told of all events, it shows them, or a request or an answer with all of them, or a message that asks for them, is on its way: the safety half of the liveness property `EventsShown` |

Assumptions: those named in the modules (`RelayAssumption`, `SessionsAssumption`,
which is the definition `ConstantsOK` that `LinkAssumption` states of the
partner's constants, `MeshAssumption`, `MembershipAssumption`, `RateAssumption`,
`TrustAssumption`, `DashboardAssumption`, `KeepLastAssumption`, …), which TLC evaluates in the runs. They ask for natural
numbers, positive limits, values that mean "none" outside the sets they are
excluded from, and in Trust that the clock goes back by three windows at most:
nonces are kept for four windows and accepted for one.

## 7. What is only model-checked

- Liveness: `DeliveredUnlessRefused`, `LinkRecovers`, `BoardConverges`,
  `EventsShown`. Liveness under fairness and ENABLED are out of the prover's reach.

All other properties of the runs are proved. What the proofs have of liveness is
the safety half: `NothingForgotten` of delivery, `EventsComeTheorem` of
`EventsShown`, `NoChangeUntold` of `BoardConverges`.

Induction is by sets of numbers (`SetInduction` in `VaultProofs`: a set with 0
and the successor of each member has all naturals), because the library's
induction theorems have an operator as parameter, which the installed provers do
not instantiate.

## 8. What is not modelled

- The blocking `_dispatch`/`_post_blocking` of the relay: the server always
  forwards from its event loop.
- `WSRelayClient.stop()` and `RelayClient.close()`, which hang on `app.on_cleanup`
  (server.py:1102-1109) and never run, because nothing calls `runner.cleanup()`; the
  body of `send()`, which never runs either. `SQLiteRateLimiter.reset()`, which nothing calls.
  The limiter's behaviour when the clock is set back (the hits then lie in the
  future and count for longer).
- File contents and paths (`write_file`, `safe_path`), certificate contents,
  encryption of the stores, parsing and validation of requests: pure functions
  whose refusals change nothing.
- Health, telemetry, the security page, rendering, the operator scripts.
- In the dashboard: half-written task files, the limit of 50 files per bucket,
  health messages, and a client left in `clients` by a first send that fails
  (`server.py:970`).
- In the mesh: `api_collab_export`, which records an event that no envelope
  carries (its writes are in `Vault`, its rescan in `Dashboard`); the order in which
  a sender posts its envelopes, for which `Mesh` allows every order; and what two
  nodes' `state.json` make of the same event.

## 9. Plan

Everything the inventory calls a component with state of its own has a module.
What is left, in order:

1. **Mesh and Relay together** — the envelopes a sender still holds as the queue
   and tasks of `Relay`, so that delivery between nodes can be stated as liveness.
2. **Two snapshots** — with `SnapshotIsCurrent` for each node, what two nodes that
   recorded the same events may show differently: the order of their ledgers.
3. **Clients apart from sockets** in `Dashboard` (`server.py:970`).
4. Shorter leaves in `MembershipProofs`, whose `DEF` lists are generous.

## 10. Running it

```
tlc -workers 2 -config MCVault.cfg MCVault      # any run: its cfg and its module
tlapm VaultProofs.tla                           # any XProofs module
```
