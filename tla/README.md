# Claudian Remote: specifications

TLA+ models of Claudian Remote, the TLC configurations that check them, and
theorems about them checked by TLAPS. Paths are relative to the repository
(`gateway/...`, `installer/...`); the plugin's JavaScript is `src/...`.

## 1. The system

A desktop Obsidian plugin (Claudian) holds conversations with an agent. Claudian
Remote mirrors them to a phone and carries the phone's commands back.

    desktop plugin --loopback--> Mac Companion --WebSocket--> Relay --WebSocket--> mobile replica
         <------------- commands, connection-bound, never stored ----------------------

| Part | State it keeps | Operations | Hard because |
|---|---|---|---|
| Source capture, normalizer (`src/source-capture.js`, `src/stream-normalizer.js`) | source sequence, conversation revisions, pending text | emit, flush, keyframe, completion barrier | hooks fire during awaits of one another |
| Desktop adapter (`src/desktop-adapter.js`) | receipts by delivery id | execute a command | idempotency is recorded after awaits |
| Bridge and companion channel (`gateway/mac_companion/bridge_server.py`, `src/desktop/companion-channel.js`) | event backlog, pending requests, binding | stream, request, bind, invalidate | reconnection, backlog overflow |
| Mac Companion (`stream_pump.py`) | bounded outbound queue, bridge cursor file, command results, generation | pump, write, read, retry | queue outlives connections, eviction, crash |
| Relay event store (`event_store.py`) | SQLite tables of events and floors, epoch | append, high water, floor, replay, prune | retention against exact resume, crash in a prune |
| Relay hub (`websocket_hub.py`) | clients with phase, last cursor, live buffer, bounded queue | register, broadcast, reset, close | a lock released in the middle of a registration |
| Relay presence (`presence.py`) | current Mac session and generation | register, route, run_if_current | superseded connections still running |
| Relay application (`app.py`) | one reader task per connection | commit, source gap, commands, uploads | awaits between commit and broadcast |
| Pairing and auth (`pairing.py`, `auth.py`, `pairing-controller.js`) | claims, credentials, the delivery slot, tickets | create, redeem, approve, collect, expire, revoke | revocation races registration and commands; a secret exists in one process only |
| Uploads (`upload_store.py`, `upload_receiver.py`, `attachment-controller.js`) | spool of sessions and files per binding, tombstones | begin, chunk, finalize, download, acknowledge, abort, expire | locks taken one after the other, rebinding on reconnection |
| Mobile replica (`src/mobile/reducer.js`, ...) | epoch, applied cursor, conversations, recovery flag, keyframe staging, commands | apply a frame, reconnect | replays, resets, duplicate and stale frames |
| Installer (`installer/claudian_remote_lifecycle`) | plan, checkpoint, transaction journal, retirement journal | install, resume, roll back, retire the old host | crash between an effect and its journal |
| Deployment to a VPS (`vps.py`), remote retirement (`legacy_retirement_saga.py`) | a saga journal each | execute, compensate; stage, dispatch, reconcile | a kill inside a compensation; one irreversible command whose answer may be lost |
| Uninstaller (`uninstall.py`, `credentials.py`) | ownership receipt | preflight, revoke, stop, remove, purge | retries meet half of what was there; phones and the user go on |
| Relay, companion and scheduler of protocol v1 (`relay_server.py`, `companion.py`, `scheduler.py`) | numbered events in memory; cursor and processed ids; delivered ids | submit, poll, process, receipt | ids begin again with the relay; timeouts hide a run |

What makes each part correct:

* store: a resume above the floor is exact; cursors are never reused; floors
  never fall; a turn is expired whole;
* hub and replica: no committed event is lost or repeated across replay,
  buffering, reset and live delivery; recovery ends when a keyframe arrives;
  registrations and broadcasts end;
* presence and commands: only the current connection publishes; a command runs
  at most once and never on a later connection;
* uploads and pairing: nothing survives the binding or credential it belongs to;
* installer: every crash leaves a state that resume or rollback finishes, and
  the retirement of the old host is dispatched at most once; a settled
  deployment or removal is whole, and nothing is removed that is not owned;
* protocol v1: a prompt runs once, receipts are true, the cursor passes over
  nothing.

`PROJECT.json` lists every part (also those not modelled, with the reason) and,
under `hazards`, what in this code a test would hardly reach.

## 2. The plan

Ordered by importance; 1 to 10 are done.

1. `ResumableLog` (abstract), `EventStore`: the log.
2. `RelayStream`, `RelayStreamProofs`: presence, hub, one mobile connection and its
   replica, over the log.
3. `CommandRouting`, `CommandRoutingProofs`: presence routing, the Companion's dispatcher, the bridge,
   the adapter's receipts and the replica's command states.
4. `LegacyUpgrade`, `LegacyUpgradeProofs`: the installer's upgrade of a legacy
   Mac with its one irreversible step, under crashes between effects and
   journal writes.
5. `SourceFeed`: from the capture hooks to the replica's text, through every
   queue that may lose an event: revisions, calibration, the completion barrier.
   The theorems about 1 and 5, the two ends of the stream, share the module
   `EventFeedProofs`.
6. `ReleaseUpdate`: the signed update of a paired installation, with the
   rotation of its phones, compensation, rollback and cancel.
7. `Uploads`: the spool, its binding to a Mac connection, phone and Companion.
8. `DeviceAccess`: claims, credentials, revocation.
9. `VpsDeployment`, `RetirementDispatch`, `Uninstall`, composed for TLC by
   `MCHostOperations`: the operations on hosts beside the upgrade and the update.
   The theorems about 8 and 9 share the module `AccessAndHostProofs`.
10. `PollingRelay`: protocol v1, which the scheduler still speaks.
11. Left: the fresh install, which is an update without a previous release, and
    an abstract two-outcome transaction for all journeys.

Theorems left: none of an invariant that a run checks. What remains with TLC, and
why, is at the end of section 5.

## 3. Modules

### ResumableLog
What the log promises to those who resume from it: entries are numbered upwards,
and forgetting raises the floor over what is forgotten.

### EventStore (`gateway/relay/event_store.py`)
`rows` and `saved` are the tables `events` and `retention_floor` as the
connection sees them inside its transaction; `disk` is the committed image, what
a ROLLBACK or a restart after a crash returns to. `_run` executes one request at
a time, so an append is a step. A prune is one request too, and nothing
interleaves with it but a failure or the clock; it is several steps so that it
can fail between any two of its statements: `PruneExpired` (select, record
floors, delete), `PruneTrim` (one batch of the loop), `PruneCommit`,
`PruneRollback`. Queries read `disk`, which equals the tables whenever a query
can run. `AppendNew` and `AppendKnown` are the two outcomes of
`INSERT ... ON CONFLICT DO NOTHING`. The clock is the wall clock and may go back.
`history` is the set of rows ever committed and exists for the properties.
Abstracted: event contents (a uid, a turn, whether it is terminal, a size),
stats, WAL checkpoints and backups, which change no row.

### RelayStream (`app.py`, `presence.py`, `websocket_hub.py`, `src/mobile/reducer.js`)
One pairing and one mobile device; a step is the code between two awaits.

| Variable | In the code |
|---|---|
| `source` | what the desktop emitted: text, terminal, and a keyframe's page and final; a position is also the revision |
| `epoch`, `log`, `kept`, `floor` | the event store, as the log it implements |
| `macGen`, `reader[g]` | `PresenceRegistry._macs` and the point where the reader task of connection g waits |
| `hubQueue` | `WebSocketHub._lock`: its owner, then its waiters, in the order asyncio serves them |
| `client` | the `WebSocketClient`: where its registration is, phase, last cursor, live buffer, outbound queue |
| `mobile` | the replica: epoch, applied cursor, recovery flag, staged pages, revision; `have` is what its state reflects |
| `gap`, `atRisk`, `sent`, `faults`, `conns` | a source gap is owed; history variables; counters of the bounds |

Actions follow the code's awaits. A reader commits inside `run_if_current`
(`CommitEvent`, the presence lock held), returns (`AppendReturns`), awaits
`mark_terminal` for a terminal event (`MarkTerminalReturns`), waits for the hub
lock, and broadcasts (`BroadcastCommitted`); `SourceGap` and `RequireReset` are
the reset path. A registration takes the lock (`RegisterReadsFloor`), holds it
over two store reads (`RegisterDecides`), reads and enqueues the replay without
it (`RegisterReplays`), and takes it again (`RegisterDrains`). Faults:
`SourceLoses` (an event the Companion never delivers, over-approximating its
queue: the gap may be reported later, or never), `ReaderCancelled`, `PruneRows`
(any rows, with the floor over them, which is what `EventStore` guarantees) and
`NewStore` (the relay restarted on an empty database).
Left out: ephemeral frames, which carry no cursor; coalescing of text frames
into batches, which the replica applies one by one; byte limits (frames count
one); a keyframe of several pages (one page, adjacent to its final).

`atRisk` collects the positions whose delivery a fault, and nothing else, may
have prevented; the safety properties say that everything else arrives. It grows
in exactly these places: an event lost before the relay; an event committed by a
reader that is then cancelled, or overtaken while it marks a terminal event; a
row pruned while a replay of it is being set up; what is buffered or broadcast
while a reset has overtaken a replay; and everything, when the database is
replaced.

### CommandRouting (`view.js`, `reducer.js`, `app.py`, `presence.py`, `websocket_hub.py`, `stream_pump.py`, `bridge_server.py`, `companion-channel.js`, `desktop-adapter.js`)
A command from the phone to Claudian and its receipt back, over three links each
of which fails on its own. A step is the code between two awaits.

| Variable | In the code |
|---|---|
| `command[d]` | the replica's record of a delivery: status, the Mac it was built for, its kind |
| `phone` | the phone's WebSocket: connected, the Mac the replica sees, frames in flight |
| `asked`, `answers` | the POSTs of `client.submit` and their answers |
| `mac` | `PresenceRegistry._macs`: the generation that is current |
| `link[g]` | the relay WebSocket of generation g: open, cut, or closed with frames still to read; where `mac_websocket` is; frames both ways |
| `sessions` | the generations at which a Companion process started, and with it a new session id |
| `companion` | `run_connection`: its phase, whether its tasks still run, the command queue, the worker, `CommandDispatcher.results` |
| `outbound` | `BoundedOutboundQueue`, receipts only; it outlives connections |
| `bridge` | `CompanionBridgeServer`: the socket, the one it is bound to, requests and responses in flight |
| `desktop` | `DesktopAdapter`: its binding, its receipts, handlers that await |
| `executed`, `faults` | a history variable and the counter of the bound |

The phone submits, reads answers, presence frames and receipts, and may learn
from a keyframe that a message arrived. The relay routes (`Route`: compare and
enqueue under the presence lock), takes hellos in two steps (`MacHello` makes
the connection current, `MacAnnounces` broadcasts once the superseded socket is
closed; without one both are a single step, as the hub lock is first in, first
out), passes receipts on and unregisters (`MacGone`). The Companion connects and
binds the plugin before its hello, reads commands into a bounded queue, executes
them one at a time with a yield in `dispatch` (`WorkerTakes`, `WorkerSends`,
`WorkerReturns`), and on any failure deactivates, invalidates the binding, and
only then cancels the tasks that did not return. The plugin binds, invalidates
and executes. There are four kinds of command, by what `execute` does with them:
`message.submit` and the synchronous ones (`control`: stop, approval, listing the
history) tell Claudian and are remembered in the same step; a `steer` and the
other `history` commands (with `keyframe.request`) tell Claudian, await it and are remembered
when the handler ends (`HandlerReturns`). What it then answers does not undo what it did:
`executed`, `rejected` if Claudian did not confirm it (a steer whose text was sent
before the turn turned out busy, `desktop-adapter.js:196-204`; a rename or a switch
that is not confirmed, `:309-400`), or, of a steer, `unknown` (`:201`, `:228`). What a
`control` or a `steer` is about may have ended: `already_resolved`, and nothing is
done. All four are remembered and answered `duplicate` the next time, whatever
they were; the phone counts `duplicate` and `already_resolved` as accepted by the
desktop and leaves a routed command as it is on `unknown` (`reducer.js:10-19`).
Faults: a failed POST or answer, a refusal of the relay, loss of each link, a new
plugin instance, a restart of the Companion, a request that times out, a failed
precondition, a handler that throws.

Left out: attempts that find no plugin (only a generation number), the LRU
bounds of both result caches (1024 and `maxReceipts`, far above what is in
flight), fingerprints (a delivery is always resent byte for byte), a full relay
queue towards the Mac, uploads and keyframe requests of the Companion. A steer
with nothing to send is counted as executed, and a handler of several awaits (a
new conversation and the switch to it) tells Claudian in one step, its first. A
resend of an unknown
delivery, which the protocol document permits, is modelled although the phone's
view never makes one: it is the harder case for `ExecutedOnce`.

### LegacyUpgrade (`cli.py`, `transaction.py`, `migrations.py`, `legacy_authority.py`, `operation_arbitration.py`, `checkpoint.py`, `human_gates.py`; `gateway/relay/legacy_retirement.py`)
One `legacy_upgrade` operation on a Mac whose legacy plugin holds a mobile
credential, over all the commands it takes. The relay must have retired the
credential, and the Mac must hold the proof on disk, before the legacy plugin is
touched; from then on there is no way back.

| Variable | In the code |
|---|---|
| `pc`, `out` | where the lifecycle process is, and the outcome `_run_mutation` will record |
| `journal` | phase of the migration journal (`<operation>.legacy-plugin.json`) |
| `txn` | transaction journal: phase, completed phases, whether it lists an activation |
| `cp` | the checkpoint: state, retirement ambiguity, recovery policy, gate, completed phases, approval |
| `mac` | the legacy plugin (`credential`, `sanitized`, `quarantined`; enabled), the active runtime, its ownership receipt; what the user did: Obsidian open with the plugin authenticated, phone paired |
| `relay` | the retirement store, the live authenticator, and a handler between the two |
| `wire` | the commit and its proof in transit; `sent` counts dispatches (history) |
| `faults` | the counter of the bound |

Each save of a record is a step, and a crash (`Crash`) may fall between any two.
`Arbitration` is `OperationArbitrator`: it compares the three records, corrects
the checkpoint where a companion is ahead of it, and names the command that owns
the operation (`retry`, `finish` and `reconcile` are all `resume`), or `invalid`:
no command runs any more. `Resume` and `Rollback` run only on its word.
`Transition` is `_checkpoint_transition`, `Storable` what the checkpoint store
accepts of it; `Report` is the end of `_run_mutation`, where a refused transition
becomes a failure. Steps follow `install`: preflight, staging, approval, the
migration (`OpenJournal` to `RecordMigration`), activation, bootstrap and pairing
gates; `compensate` and `rollback` undo it; `ReconcileRetired` and its siblings
ask the relay what became of a commit without an answer.

Left out: time (gates expire, proofs have a lifetime, the environment may drift),
`cancel`, a plugin that is not managed by Obsidian, and a phone that is unpaired
again; `ReleaseUpdate` has the last three for its journey. A commit request that outlives its sender is the
fault `late`, absent from the runs: see section 6.

### SourceFeed (`source-capture.js`, `stream-normalizer.js`, `companion-channel.js`, `bridge_server.py`, `stream_pump.py`, `reducer.js`)
The text of a turn on its way to the phone, and how each stage owns up to what
it loses: a resync marker, a source gap, a new binding, a keyframe.

| Variable | In the code |
|---|---|
| `turns`, `running`, `tab` | the turns, whether the native send has returned, and what the model has written (`lastText`) |
| `sent`, `base` | what of it is in a delta (the rest is `pendingText`), and the revision a pending delta was begun at |
| `revision`, `keyframes` | the conversation's revision; keyframes that wait for their checksum |
| `channel`, `bridge` | the plugin's authenticated socket; `EventQueue` of the bridge |
| `companion`, `outbound`, `gapPending`, `asks` | the connection with its tasks, `BoundedOutboundQueue`, the gap it owes, requests not yet read |
| `phone` | the replica of the conversation: text, revision, recovery, staged pages |
| `faults` | the counter of the bound |

The hooks capture (`Capture`), the timer flushes, a keyframe reads revision and
document, awaits its checksum and is emitted in a later step (`KeyframeEnds`);
the barrier of a completed turn awaits two. The pump moves events into the
outbound queue, evicting progress for a critical frame; the writer sends. Relay
and replica are one step: what happens between them is `RelayStream`'s. Whether a
queue is full is a fault, as 512 events and 256 frames are out of TLC's reach.
A chunk's effect on the message and its observation are one step
(`ChunkObserved`): the wrapper awaits Claudian's handler in between
(`source-capture.js:250-253`), and a keyframe cut there holds text the next delta
repeats, which the replica refuses by its offset (`reducer.js:622`) and takes for a
gap. Left out: text that is taken back and replaced (`stream-normalizer.js:306`, a
`text.replace` that sets the whole block), capability and activation events after the bootstrap, tools and
questions, which emit like text, a plugin reload, checksums that complete out of
order, and event identities (all turns share one).

### Uploads (`attachment-controller.js`, `app.py`, `presence.py`, `upload_store.py`, `stream_pump.py`, `upload_receiver.py`, `vault-import.js`)
An attachment from the phone to the Vault. The relay takes its locks one after
the other (`run_for_binding`, then the spool's), so the Mac may change in
between; a chunk's body is read from the network under the spool's lock.

| Variable | In the code |
|---|---|
| `session`, `slots`, `parts`, `blobs`, `tombs` | `UploadStore`: `_sessions`, `_active_by_installation`, its files, `_acknowledged` |
| `lock`, `held` | who reads a body under the spool's lock; the begin that waits for it and holds the presence lock |
| `mac`, `socket[g]` | `PresenceRegistry`, and where the relay's handler of connection g is |
| `requests` | HTTP handlers in the relay, and their answers on the way |
| `phone`, `used` | the `AttachmentController`'s item |
| `companion`, `acks`, `staged`, `vault` | the upload queue and worker, acknowledgements to be written, temporary files, the Vault |
| `told[u]` | results broadcast to the phones (history) |

A file is a number of chunks; digests are left out, a corrupt or interrupted
body is one that ends badly. File types, disk watermarks and the copy inside the
Vault (one step) are left out.

### DeviceAccess (`pairing.py`, `auth.py`, `app.py`, `websocket_hub.py`, `pairing-controller.js`, `device-store.js`)
How a phone gets a credential, uses it and loses it.

| Variable | In the code |
|---|---|
| `claims` | `pairing_claims`: state, failed attempts, whether `expires_at` is past |
| `creds` | `device_credentials` and the authenticator's records, which change in one step |
| `slot`, `window` | `_issuance`, the secrets still to be collected; `_request_attempts` |
| `sockets`, `mobiles` | the phone's connections from the ticket on; `WebSocketHub._mobiles` |
| `command`, `closing` | a command in its handler; `revoke_pairing_device` between the revocation and the closing of sockets |
| `phone`, `calls` | the plugin's identity, token and pending claim; requests under way |

Actions: create, redeem, approve, reject, collect, expire, prune, revoke,
restart; the phone's polling, cancelling and reloading; tickets, registration with
its second check, commands with theirs. Whoever guesses codes shares the phone's
address. Left out: static tokens, profiles, listing devices. The credential
generation moves only with a revocation, so the revoked flag stands for it.

### ReleaseUpdate (`transaction.py`, `pairing.py`, `provisioning.py`, `launchd.py`, `cli.py`, `operation_arbitration.py`)
One `current_update` operation, with or without a plugin managed by Obsidian,
preserving or rotating its phones, over all the commands it takes.

| Variable | In the code |
|---|---|
| `plan` | the signed plan: pairing policy, who owns the plugin |
| `creds` | active credentials at the relay, and whether issued before or since |
| `host`, `backup` | pointer, plugin, agents, configuration, receipt, whether the plugin has authenticated; what was put aside |
| `journal`, `identity`, `checkpoint` | the three files; no two are written together |
| `proc` | where the lifecycle process is, and what it holds in memory |
| `budget` | faults left |

`Arbitration` is `OperationArbitrator`, which compares the files and names the
command that owns the operation. Steps follow `install` (capture the identity,
stage, activate, verify, wait for plugin and pairing, rotate), `compensate` and
`rollback`. Revoking a phone and recording it are two steps, as are every effect
and its journal entry. `Restore` is one step where nothing cuts it short;
`HalfRestored` says what a kill or a failure inside it leaves. The refusals that
`rollback` begins with (`transaction.py:1133-1160`) are never met, as the arbitrator
has refused the same before (`RollbackMeans`, proved). Faults: a crash anywhere, a step that fails (an
activation, a probe, an inventory or a revocation with or without effect), a
phone that is unpaired. Phones pair at any time.
Left out: time, drift of the environment, a failure to read a file, the
contents of the staging directory.

### VpsDeployment, RetirementDispatch, Uninstall (`vps.py`, `legacy_retirement_saga.py`, `uninstall.py`, `credentials.py`, `launchd.py`)
Three operations that run one at a time under the lifecycle lock.

| Variable | In the code |
|---|---|
| `admitted`, `saga`, `exec` | the planner's verdict; the saga journal (phase, completed steps and compensations); the running `execute` |
| `vps` | what the steps do to the host: staged release, what serves, the Mac's profile, previous release |
| `torn`, `stops` | history: a kill cut a compensation or the retirement in two; the bound |
| `phase`, `pc`, `told` | the retirement journal, the running `execute`, what it returned |
| `source`, `remote`, `flying`, `sent` | the local helper's digest; helper and retirement on the VPS; commands the host may still run; history |
| `files`, `veto`, `active`, `key`, `running`, `receipt` | resources of the receipt; whether Obsidian looks after the plugin; active phones; keychain; services; `ownership.json` |
| `un`, `outcome`, `late`, `lost` | the running uninstall and its outcome; history: edits and pairings after it looked, edited files it removed |

The adapters that touch a VPS are injected (external): a step may raise having
worked or not. `Before`, `Perform`, `After` are one forward step with its two
saves, `Undo` and `UndoRaises` one compensation, and `Stop` a kill, also between a
compensation and its save. `Dispatch` sends the command
that `HostRuns` may run at any later time. `Begin` is the preflight, `Remove` one
resource, deepest first. Left out: the commands sent over SSH, digests
(a file is intact or not), the keychain's single entries.

### PollingRelay (`relay_server.py`, `companion.py`, `scheduler.py`)
| Variable | In the code |
|---|---|
| `events`, `next`, `online` | `_events`, `_next_event_id`, `_presence` of `RelayService`, all in memory |
| `mac`, `saved` | `MacCompanion` with its batch, and its state file |
| `sched`, `delivered` | a run of the scheduler, and its state file |
| `ran`, `unsure`, `fresh`, `handled` | history: runs of a prompt; runs that a timeout or a kill hid; the cursor belongs to this life of the relay; ids taken up in it |

`Process` is `process_event` up to the desktop's answer, `Receipt` and
`Snapshot` what follows; the state is saved once a batch (`EndBatch`). `Probe` is
`_recover_events_after_relay_reset`. Phone client and desktop adapter are external.
The list is a set ordered by its ids. Left out: approvals (they go the way of
prompts), snapshot requests, cron parsing, encryption. `MacCompanion` runs in
the tests and, for its `process_event`, in the scheduler.

### Fault variants
Next to some definitions stands a variant with a plausible bug (`DrainedAll`: no
deduplication; `CompanionsAgreeByPhase`: only phases compared; ...). No
specification uses them. `PROJECT.json` pairs each with the property that must
fail when it takes the place of the right definition.

## 4. What the runs check

| Run | Bounds | Shows |
|---|---|---|
| `event_store` | 2 pairings, 3 cursors, clock 0..2, 4 events (one turn with a progress and a terminal event, one event outside turns, a conflicting uid), limits of 2 rows and 3 bytes, batches of 1, replays of 2 | exact resume, no double resume, whole turns, and refinement of `ResumableLog`, whose floors never fall |
| `relay_stream` | 4 events, 2 Mac connections, 1 mobile connection, queue of 3, one fault of prune, cut or loss | holes only where a fault explains them, no cursor twice, a settled live client is current, recovery takes the keyframe it is sent |
| `relay_restart` | 3 events, 2 Mac and 2 mobile connections, queue of 2, one fault of cut, loss or new store; fairness | registrations and broadcasts end, across reconnections and a change of database |
| `command_routing` | one delivery of any of four kinds, sent up to twice, 3 Mac connections, queue of 1, any 2 faults (5.1 million states) | executed at most once; not after relay or phone know a newer connection; a receipt on its way is the last word and true, where a refusal after an await does not say that nothing was done |
| `command_presence` | two link failures, no delivery, 5 Mac connections; fairness | violated: the phone may be left with a superseded connection |
| `legacy_upgrade` | any 6 faults: crash, lost message, relay restart, failed staging, blocked preflight, failed activation, Obsidian closed; fairness | one dispatch, on record; a recorded proof is true and stays; the credential is kept until then; a rolled back operation harmed nothing; ready means complete; every operation settles |
| `uploads` | 2 uploads of up to 2 chunks, a quota of 3, 2 Mac connections, 2 handlers at a time, 1 fault; fairness | the spool's records agree; an upload follows its Mac or is about to be aborted; the phone is told once and never of a file the Vault lacks; the spool drains |
| `device_access` | 2 claims, 1 connection at a time, 1 attempt, 2 requests under way, 1 fault; fairness | no active credential that nobody can collect; a revoked socket is always still to be looked at; only an active credential's command is routed; secrets are collected or expire |
| `source_feed` | 1 turn of 3 chunks, any 1 fault; fairness | the phone shows a prefix of the source, and in the end shows all |
| `release_update` | 2 phones and a third, both policies, any 3 faults; fairness | a committed rotation is final; ready and rolled back are whole; phones are given up only for a verified release; the operation settles |
| `host_operations` | each of the three operations by itself; 3 kills; 2 phones; 3 mishaps of an uninstall (210,000 states) | a settled deployment is whole; one retirement command at most, none of an operation given up; nothing the user changed before the preflight is removed; "uninstalled" is true |
| `polling_relay` | 1 delivery, 1 scheduled task, 2 events stored, polls of 2, 4 numbers in one life of the relay, 2 faults (1.2 million states) | a prompt runs once unless the run was hidden; receipts are true; the cursor passes over no prompt |

Each module states one type invariant. No run lists it: `TypeOK` is proved of
`EventStore`, `RelayStream`, `LegacyUpgrade`, `DeviceAccess`, `ReleaseUpdate`,
`Uploads`, `PollingRelay`, `CommandRouting`, `SourceFeed` and the three modules of
`host_operations`.

Some properties stand in the modules without a run of their own, and TLC
confirmed them by hand: `CursorNamesOneEvent` and `ActiveTurnsTrimmedLast` of
`EventStore` (the first is proved), `BoundaryStands` (proved) and
`RetiredFinishes` of `LegacyUpgrade`, `PhoneIsBehind` (proved) and `SettledIsCurrent`
of `SourceFeed`,
`LiveClientIsCurrent` under the constants of `relay_restart`,
`AgreementReturns` of `CommandRouting` (Companion, relay and plugin settle on one
connection, with the constants of `command_presence` and all kinds of faults), and
`ARelayIsLeft`, `HelperOutlivesDispatch` and `ProofIsTrue` of the host operations
(all three proved).

Why the bounds are enough: three cursors let a prune remove a prefix, a middle
row or everything and an append follow; limits of 2 rows force a trim of up to
one batch after an expiry; two pairings make one pairing's floor move while the
other's rows stay. In the stream, four events hold a keyframe, an event before
it and one after it, two Mac connections one supersession, two mobile
connections one reconnection, and a queue of two or three frames overflows in
replay, drain and broadcast. Two sends of one delivery meet everything two
deliveries do in the one queue and the one worker (one waits while the other is
executed, or the queue is full), and the caches besides; three connections allow
a receipt and a command each to outlive two. `command_presence` has five: after
two restarts, the hello of each old session may reach the relay after that of the
new one, take its place (the check for stale hellos only orders one session),
and cost it a connection. Commands are left out there since all they do to a
connection is end it, which the faults do too. Six faults let one operation
meet nearly every kind of fault, before the boundary, across it and after it, and
the proofs of the safety properties cover any number. Deadlock is checked for `EventStore` only: the other modules come to rest when
their bounds are used up, `LegacyUpgrade` and `ReleaseUpdate` when their operation
has ended.

In `Uploads`, two uploads against a quota of three chunks collide on it, two Mac
connections make one supersession with a begin, a chunk, a finalize or an
acknowledgement caught in between, and two handlers are a pair of any of them. In
`DeviceAccess` the second claim pairs the phone again while the first credential
lives, and one wrong attempt exhausts a claim and blocks a requester;
`AccessAndHostProofs` covers any number of everything for the three invariants,
and two attempts were checked by hand (857,550 states). In `SourceFeed` three
chunks give text before, during and after a keyframe; each kind of loss is one
fault. Checked by hand beyond the runs: two turns of a chunk with a fault
(6,125,403 states), and one turn of two chunks with two. In `ReleaseUpdate` two
phones let a rotation stop half way and the newcomer end it; three faults are
the fewest that meet a failure of the undoing of a retried attempt; with one
phone and eight faults (1,910,783 states) the safety properties hold as well. In
`host_operations` three kills meet the way forward, the way back and the retry;
three mishaps are a kill, an edit and a late pairing in any order. In
`polling_relay` two stored events force a trim while a batch is under way, and
four numbers are a batch before and one after a restart; a delivery and a task
are the two ways to the desktop. The proofs cover any number of all of these.

Fairness (`FairSpec`, in `SourceFeed` `FairFeedSpec`): each reader task and the registration task are weakly
fair, because asyncio runs every ready task and its lock is first in, first out,
and because the store always answers a request. Nothing is assumed of Mac
connections, sources, the mobile or faults. In `CommandRouting` every task of the
relay, the Companion and the plugin is weakly fair, for the same reason:
`run_forever` and the plugin's channel reconnect after a delay without giving
up, each request ends by an answer, a timeout or the end of its socket, and
heartbeats find a lost one. Nothing is assumed of what the user does or of
faults. In `LegacyUpgrade` a process that runs goes on (`Step`), so does the
relay, whoever runs the installer keeps issuing the command that owns the
operation (`Command`: each command prints it as its next action), and the user
eventually does what a gate asks (`User`: open Obsidian, pair the phone); without
the last two an upgrade may rightly wait forever. `ReleaseUpdate` assumes the
same: the process runs, the operator issues `resume` or `rollback` when the
arbitrator names it, a running plugin authenticates, and somebody pairs a phone
when none is left. In `SourceFeed` timers fire, checksums are computed, both
sockets are reopened, and queues are read; chunks, turns and faults are free. In
`Uploads` only the relay is fair: a body comes to its end (it is read under a
timeout) and the cleanup task, which waits for the spool's lock beside the
handlers, is strongly fair since that lock is first in, first out. In
`DeviceAccess` time passes and the pruning task runs (`Lapses`, `ExpireClaims`);
an exception in it would end it for good (`app.py:1363-1367`), which the model
leaves out. `host_operations`, `polling_relay`, `event_store`, `relay_stream` and
`command_routing` check safety only and assume no fairness.

## 5. What is proved

`EventFeedProofs` begins with what `Min` and `Max` of sets of numbers are. It
proves of `EventStore`, for all sets of pairings and events and all
limits satisfying `EventStoreAssumption`: `TypeCorrect`, `CursorsAreNeverReused`,
`ResumeIsExact`, `NoDuplicateResume`, `FloorIsMonotone`, `ExpiryKeepsTurnsWhole`
and `StoreImplementsLog`.

`ExactResume` is not inductive: it speaks of the floor a client would see, which
depends on the rows. The invariant of the proofs strengthens it, for the working
tables and for the committed image alike: every committed row is still there or
at or below its pairing's saved floor; cursors in history are below
`nextCursor` and unique; rows are among history; uids of kept rows are unique;
and outside a prune the two images are equal. An append preserves it because
the new cursor is above all others; each prune statement because it records the
floor of what it deletes; a rollback because the committed image satisfies it.

Of `SourceFeed` it proves, for any number of turns, pieces and faults of any kind:
`FeedIsTyped`, `TextIsAPrefix` and `PhoneStaysBehind`. One would expect to have to
follow the order in which deltas and keyframes pass four queues that may each lose,
cut or refuse them. The invariant `FeedInv` shows that this does not matter: whatever
is on its way tells of text that was written and of revisions that were reached
(`Tells`), a keyframe that still waits for its checksum of the revision its own two
events will reach at most (`Vouched`), and since text and revision only grow (`Grows`),
it goes on telling the truth however late it arrives. A delta extends what the phone
shows only where it ends (`Continues`), so what is shown stays a prefix. The order does
matter for catching up, which is `PhoneCatchesUp` and stays with TLC. TLC checked
`FeedInv` before (419,927 states). `InTurnOrder` is written like `InOrder` of
`RelayStream`, for the same reason.

`LegacyUpgradeProofs` proves, for every set of faults and any number of them:
`TypeCorrect`, `DispatchedOnce`, `ProofIsTrue`, `CredentialIsKept`,
`ReadyIsFinished` and `BoundaryIsFinal`. None of these is inductive, since each
relates two records that are written one after the other. The invariant `IInv`
adds what is true at each place of the process between two writes (`Places`),
that a proof on the wire or being consumed is one the relay gave after revoking
(`ProofsAreTrue`), that the journal passes the boundary only after the checkpoint, as do the
runtime and the disabling (`OnlyAfterProof`), that the Vault is never ahead of the
journal by more than the one effect being recorded (`VaultFollowsJournal`), and
that an activated runtime implies a prepared migration (`ActivationInOrder`).
`RollbackIsHarmless` proves `RollbackKeepsCredential` under the further assumption
that `late` is not among the faults, from `RInv`: a commit on the wire has a
sender that waits for it (`CommitIsAwaited`), so once an operation is being
undone the relay has not retired and never will (`UndoneInTime`, and
`RolledBackIsLast` for the records that stay).

`AccessAndHostProofs` proves of `DeviceAccess`, for every number of claims, connections, attempts,
requests and faults: `TypeCorrect`, `NoOrphan`, `RevokedSocketSeen` and
`RoutedAuthorized`. `NoActiveOrphan` needs only types. The other two are about a
credential that becomes invalid while somebody uses it, and there are two ways
for that: revocation, which raises the command boundary and looks at the hub, and
expiry, which does neither. The invariant `AccessInv` adds why expiry needs
neither: whatever the phone stores, a socket or a command carries has been
delivered (`Held`, `Carried`), and only what was not delivered expires. A
command between its authorisation and its routing holds the boundary that a
revocation waits for.

`ReleaseUpdateProofs` proves, for every set of phones, both policies and any
number of faults of any kind: `UpdateIsTyped`, `RotationStands`,
`ReadyStaysWhole`, `RollbackRestores` and `RevocationIsVerified`. The three files
are written one after the other and the host before or after them, so none of
the properties is inductive. `UpdateInv` adds what journal and backup say of the
host whoever is running (`Ledger`), what a running command may rely on at each
place (`Whereabouts`), what an undoing has restored so far (`Undone`), and that a
committed rotation goes with a new release whose journal can only go on
(`Rotation`). The arbitrator is what ties one command to the next:
`ArbitrationMeans`, `ResumeMeans`, `RollbackMeans` and `NoCommandAfterRollback` say what
it lets through, `RestoreDoes` and `RestoreStops` what one undoing does to the
host, `CutShort` what is left if it is cut short. TLC checked `UpdateInv` before (682,762 states).

`UploadsProofs` proves, for every number of uploads, chunks, connections,
requests and faults: `UploadsAreTyped`, `SpoolStaysAccounted`,
`UploadsStayWithTheMac` and `PhonesAreToldOnce`. The spool's records are accounted for only
because no two handlers create or fill the same session: `UploadInv` adds that
the calls under way are the phone's own, one at a time (`Asked`), that
an upload is begun by one begin only (`Begun`), that a begin which has checked its
binding holds the presence lock and hence the Mac (`Bound`), that the body being
read belongs to a session that takes chunks (`Reading`, by the spool's lock), that
phone, calls and session agree on the number of chunks (`Counted`), that the Companion
has one download of its own connection (`Downloading`), and that what was
acknowledged was imported and never comes back (`Acknowledging`). TLC checked
`UploadInv` before (365,329 states). For each part one lemma says what every step
of the system does to it (`CallsStep`, `SessionsStep`, `MacStep`, `CompanionStep`,
`MacSideStep`, `ToldStep`).

`AccessAndHostProofs` proves of the host operations, for any number of kills and
mishaps and any phones: of the deployment `DeploymentIsTyped`, `DeploymentSettlesWhole` and
`DeploymentLeavesARelay`; of the retirement `RetirementIsTyped`,
`RetirementIsFinal`, `HelperIsLeft` and `RetirementProofIsTrue`; of the removal
`RemovalIsTyped`, `RemovalKeepsWhatItDoesNotOwn` and `RemovalEndsClean`. The
deployment's invariant follows the executor: the host is where the journal's
steps leave it or one step further (`OnTheWay`), and what is not undone yet is
still to be undone (`OnTheWayBack`). The removal's says that whatever is still
there is listed (`Listed`) and, unless touched since the preflight, unchanged
(`SinceThePreflight`).

`PollingRelayProofs` proves, for any sets of deliveries and tasks and any limits:
`PollingIsTyped`, `PromptsRunOnce`, `ReceiptsTellTheTruth` and
`CursorPassesOverNone`. A prompt runs once because the process it was given to has
it on record, in memory or in its file, or nobody can know (`Recorded`,
`Loaded`). The cursor passes over none because a batch has no gap (`Contiguous`): a
poll takes the oldest, and trimming takes the oldest away.

`CommandRoutingProofs` proves, for every set of deliveries, any number of sends, Mac
connections and faults of any kind and any size of the command queue:
`RoutingIsTyped`, `CommandsExecuteOnce`, `NothingRunsLate` and
`ReceiptsStayTrue`. Each relates what several processes hold about one delivery,
so none is inductive. `IInv` adds:

* `SentOnce`: for each delivery, over all connections and however often the phone
  sends it, there is one command request to the plugin at most. Once it has been
  written the delivery is `Spent`: its connection is over or will not be live again, or
  its worker waits for the answer, has it, or has failed; and `Spent` is never
  undone, because generations grow and results are forgotten only as a connection
  ends. The plugin's own receipts are not needed for `ExecutedOnce`.
* `BoundFirst`: the bindings on the bridge socket ascend, and the relay and the
  phone know only of connections to which the plugin has been bound (`Passed`),
  since `bind` is answered before the hello is sent. So the plugin, when it
  executes for the connection it is bound to, executes for none older than theirs.
* `OneTicket`: a delivery sent once is in one place at most on its way (requested,
  on a link, queued, held by the worker over its yield, at the plugin, dealt with),
  and all that is said of it on the way back is so (`SaidIsSo`). What is said takes
  the place of the delivery, which is why it cannot be done later; and a handler
  that awaits runs alone, before anything is said of its delivery (`RunsAlone`),
  which is why no receipt is overtaken by what it speaks of.
* `Counts` and `Phases`: the phone's records, and which tasks of the Companion run in
  which phase of its connection.

TLC checked `IInv` before (5.1 million states). The result caches of the model
forget nothing while a connection lasts; with the code's bound of 1024 results the
theorems hold as long as no result is evicted between a send and the resend of
its delivery.

`RelayStreamProofs` proves, for any number of events, Mac connections, mobile
connections and faults of any kind, and any size of the queue: `StreamIsTyped`,
`NoUnexplainedHoles`, `NothingSentTwice` and `LiveReplicaIsCurrent`, and, where no
fault replaces the database, `KeyframesAreTaken`. An event
travels from the store through a reader, the hub's lock, a registration in one of
its phases and a queue to the replica, and may be overtaken at each of them. `IInv`
follows it:

* `StoreInv`, `ReaderInv`, `HubInv`: the log is in the order of the source and only
  faults keep an event out of it; a cursor waits at one reader; one reader at a time
  has the presence lock; the hub's lock and its waiters are the tasks that wait.
* `OrderInv`: readers stand in the queue of the lock in the order of their cursors,
  unless one was overtaken while it marked a terminal event (`Firm` excludes that
  one, which is at risk then). This is what makes a broadcast arrive in order, and it
  rests on the presence lock being held until the commit has returned.
* `PhaseInv`, `SentInv`: what each phase of a registration implies of phase, buffer,
  high water and last cursor; what was sent is increasing and at or below `last`, and
  nothing in the buffer is newer than what a reader has yet to broadcast.
  `CursorSentOnce` follows.
* `FloorInv`, `CoverInv`, `AheadInv`: what a replay cannot read any more is at risk
  or below where it starts; each event at or below `last` is `Covered` (the replica
  has it, the queue holds it, or a reset makes the replica wait for a later final);
  each event above it is still with a reader, in the range to be replayed or
  buffered. `OnlyFaultsLeaveHoles` and `LiveClientIsCurrent` follow from these.
* `FrameInv`, `ResetInv`, `ReplicaInv`: frames carry what the log says, in order and
  of one epoch; a connection in reset has a reset in its queue or a replica in
  recovery, with no final behind it that would end the recovery too early; a replica's
  cursor and revision belong together.

TLC checked `IInv` before (2.27 million states, the constants of `relay_stream`). Each
action has one lemma that it preserves `IInv`; frames of conditions shared by several
(`ConnectionFacts`, `ReleasedFacts`, `EnqueuedFacts`) say what stays. Two definitions of
`RelayStream` are written for the prover with the values they had: `Withdrawn` removes
the one place of a task instead of filtering, and `InOrder` is the increasing
enumeration (`IncreasingExists` shows there is one).

`KeyframesAreTaken` proves `RecoveryTakesKeyframe` from `"newstore" \notin Faults`, the
faults with which the run checks it; with a new database it does not hold (the section
below has the counterexample). What has to be excluded is a keyframe at or below the
cursor the replica has applied, which it would pass over as a duplicate. In phase `reset`
the hub sends a keyframe without comparing it with what was sent, so `SentInv` does not
exclude it and `SteadyInv` is needed beside `IInv`: nothing on its way to the replica,
in its queue or with a reader that will broadcast to a connection in reset, is older
than what it has applied (`NewsInv`), and what it has applied is neither a page nor a
final whose page is still staged (`AppliedInv`). `OnlyReplicaTakes` shows that no other
step shortens the queue. TLC has checked `SteadyInv` on 3 events, 2 Mac and 2 mobile
connections and 2 faults of `prune`, `cut` and `loss` (3,280,035 states).

Model-checked only: `ActiveTurnsTrimmedLast` (the order of size trimming counts
ranks in a set) and `SettledIsCurrent`, by what was said in section 4. Liveness
(`PhoneCatchesUp`, `SpoolDrains`, `CollectedOrRevoked`, `OperationSettles`,
`UpdateSettles`, `RelayTasksEnd` and the like) is out of the prover's reach, as are
ENABLED and induction over data, and stays with TLC.
For the same reason the v1 relay's list is a set ordered by id: nothing can be
proved of `SelectSeq`.

## 6. Disagreements with the documentation

One is a run of its own, `command_presence`: `register_mac` announces a
connection after an await and outside the presence lock, so announcements can be
overtaken by newer ones.

The others TLC refutes with the constants given here; the properties stand in
the modules and no run lists them.

| Property | Constants | What happens |
|---|---|---|
| `CommandRouting.RejectedNeverExecuted` | one link failure | when the relay loses the Mac's socket the replica rejects what was routed and gives the text back, while the command may be at the plugin already, which is told of the loss only after it |
| the same | no fault, a steer or a history command | Claudian was told and did not confirm: the receipt says `rejected`, the phone gives the text back, and Claudian has it, maybe still queued (`desktop-adapter.js:196-204`; `tests/desktop-controls.test.js:169-183` expects it). Another try is a new delivery. `ReceiptsAreTrue` therefore takes a refusal for "not done" only of commands that do not await |
| `RelayStream.NoSeamGap` | `Spec`, 3 events, 1 Mac and 1 mobile connection, queue of 3, one `prune` | the floor is checked under the hub lock, the rows are read after it is released, and retention does not take that lock (`websocket_hub.py:155` rules it out) |
| `RelayStream.RecoveryTakesKeyframe` | 3 events, 2 and 2 connections, queue of 3, one `newstore` | `reset_required` moves the replica to the new epoch but not its cursor back: keyframes of the new database are duplicates until its cursors overtake the old one's |
| `LegacyUpgrade.OperationStaysOwned` | one `stage` | a failure before the dispatch leaves the checkpoint blocked, with an error as effect code and no next action; the arbitrator takes that for an invalid artifact, where the guide sends the user to `rollback` |
| `LegacyUpgrade.WaitingShowsGate` | no fault | past the boundary, a gate makes a checkpoint that must be blocked (for the gate) and in recovery (for the proof); the store refuses it and the command reports a failure |
| `SourceFeed.CalibrationHolds` | `FeedSpec`, 1 turn of 2 chunks, one `ask` | a keyframe's revision is computed "so the next text.delta base_revision matches" (`source-capture.js:145`), but its checksum is awaited at :149 and a flush in between moves the revision: the phone that lost nothing goes back into recovery |
| `ReleaseUpdate.NeverStranded` | `rotate`, no fault; or `preserve`, one `crash` | see below |

More that was met while modelling:

* `CommandRouting`: a duplicate is shown as accepted by the desktop even where the
  delivery was refused or its outcome is unknown; `ReceiptsAreTrue` speaks of
  deliveries sent once, as the phone's view sends them. An `unknown` receipt of a
  steer leaves it `relay_accepted` on the phone, until an offline presence rejects it.
* `CommandRouting`: a command routed to a lost socket that is superseded before
  the relay notices the loss stays `relay_accepted` on the phone, as no offline
  presence is ever sent.
* `RelayStream`: `require_reset` on a client that is still replaying is undone when
  its registration sets it live (`websocket_hub.py:187`); a keyframe in the
  replay, older than the gap, then ends the recovery. The events concerned count
  as at risk.
* `LegacyUpgrade`, all ending in an operation that is `invalid`: a crash while a
  resumed operation stages again; a second attempt before the boundary whose
  journal still lists the activation of the first; Obsidian closed while the
  operation awaits the pairing; a crash between the journal's and the
  checkpoint's record of the dispatch; a rollback after a reconciliation that
  proved the commit not applied; a resume that finds everything ready after a
  compensated verification. `OperationSettles` and `RetiredFinishes` therefore
  allow `invalid`.
* A reconciliation only reads the relay's store and does not fence off a commit
  that is still under way. With the fault `late` TLC refutes
  `RollbackKeepsCredential`: a request delayed beyond its sender's timeout and a
  reconciliation retires the credential of a rolled back installation.
* `DeviceAccess`: a lost answer of `complete` leaves an active credential whose
  secret nobody has; the controller's retry, promised at `plugin.js:198`, is
  answered `claim_replayed` and cancels the pairing. Pairing again leaves the older
  credential active. Expiry revokes without the command boundary (harmless, see
  section 5).
* `Uploads`: an error of `acknowledge` is not caught in `_mac_receive`
  (`app.py:1185`) and costs the whole Mac socket; a superseded handler's late
  `abort_except_binding` (`app.py:1109`) removes the newer Mac's uploads; a broken
  chunk body removes its session (`upload_store.py:282-289`), so an item the view
  calls paused (`view.js:304`) cannot resume; a begin waits for the spool's lock
  while it holds the presence lock (`app.py:624`).
* `ReleaseUpdate`: an old phone that pairs again by its code while a rotation is
  under way, or a crash after a gate has been journalled, strands the operation:
  the checkpoint still recommends a command, the arbitrator refuses every one
  (`NeverStranded`; `CLAUDIAN_REMOTE_INSTALL.md:297`, `:301` promise a way on, and
  `transaction.py:1858` asks for the code). A compensation after some phones were
  revoked reports `rolled_back` with an identity journal that `read_journal` then
  rejects. A preserving update whose phone was revoked asks for a pairing that
  cannot satisfy it. If saving the community state fails, no rollback can
  succeed. What a rollback raises leaves the CLI before the checkpoint is
  written. `UpdateSettles` names the last three and allows `manual`.
* `ReleaseUpdate`, three faults: an update that is ready and whose phones were
  rotated is run once more after a crash before its checkpoint; if nobody is
  paired just then it is activated again, and a failure while the plugin is
  replaced puts the *old* plugin back (`transaction.py:846-853`) under a release
  whose rotation is final. `RotationIsFinal` therefore speaks of pointer, journal
  and checkpoint and not of the plugin.

* `ReleaseUpdate`: the branch of a resume for a journal that awaits recovery
  with a committed rotation is never taken: `UpdateInv` excludes the state.
* `VpsDeployment`: a kill inside `_compensate` (`vps.py:404`) leaves nothing that
  says so. The next `execute` goes forward again, and a later compensation skips
  what the journal lists as compensated: it may report `rolled_back` with the staged
  release left behind, or `ready` with the Mac on the old profile. A kill around the
  retirement, then a failed verification, undoes the staged release although the
  previous one is gone. `SettledIsWhole` and `ARelayIsLeft` except both (`torn`).
* `RetirementDispatch`: the phase `proof_ready` that `execute` asks for first
  (`legacy_retirement_saga.py:325`) is never saved; a proof already seen is asked for again.
* `Uninstall`: after the keys are gone or the services have stopped, every retry
  fails in `revoke_credentials` with `uninstall_precondition_incomplete`, where
  the comment at `uninstall.py:275-279` asks for an explicit resume. An interruption
  between the active release and the store that holds it changes the store's
  digest: every retry is `owned_resource_modified`. A phone that pairs between the
  second listing and the stop keeps an active credential. What is edited
  between the preflight and its turn is removed.
* `PollingRelay`: a restarted relay whose ids have reached the cursor before the
  next poll is not recognised as restarted. A prompt whose run a timeout or a kill
  hid is run again. A scheduled prompt that failed counts as delivered. Processed ids
  are cut to the last 1000 in lexicographic order (`companion.py:476`), not the newest.

## 7. Not modelled

Listed in `PROJECT.json` with the reason. The fresh install is left in the plan
above. Not planned, as they only read, render or package: the mobile user
interface, host inspection and planning, runtime downloads, the plugin's start-up
wiring, the menu bar and the release scripts. Of protocol v1 the phone's client
and the desktop's REST adapter are external. In the modelled parts, byte limits,
digests, wall-clock lifetimes and contents are abstracted as section 3 says.
