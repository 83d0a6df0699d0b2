# XRK in TLA+

XRK is a remote-control program for local networks: a *host* shares its screen
and takes input, *controllers* view and steer it, and around them stand file
transfer, a messenger, a relay server and the tables behind them.  This
directory holds TLA+ specifications of it, the TLC configurations that
check them on small instances, and proofs of the main theorems for TLAPS.

## 1. The system

### 1.1 Parts, state, operations

| Part (under `src/src/`) | State | Operations | What makes it correct |
|---|---|---|---|
| `core/frame_queue.h` FrameQueue | queue, mutex, two wait conditions | enqueue, enqueueNonBlocking, dequeue with time-out, clear | bounded, first in first out, nobody waits for what is there |
| `app/host.cpp` sessions | `m_clients`, switches, trusted addresses, grants, viewers, tile mode | accept, AUTH_REQ, approval, grants, overrides, sweeper, disconnect, start, stop | what a session may do is what the tables say; nothing before authentication and approval |
| `core/permission_model.cpp` | none | `roleCapabilities`, `evaluate` | a pure function of level, switches, override |
| `app/host.cpp` media | capture, encode and network workers, encoders, tile credit, sync sequence | capture timer, encode, send, SCREEN_ACK, SCREEN_TILE_REQUEST, quality timer, gears | every tile that changed reaches the screen of the controller in the end; the picture never stays black |
| `hw/tile_encoder.cpp` | hashes, dirty tiles, budget | `buildTiles`, `reset` | a tile whose hash was recorded was sent |
| `hw/screen_capture.cpp`, monitors of `app/host.cpp` | list, index, DXGI output, automatic switching | switch, reinit, list, automatic step | viewers' controls show what the host does; every monitor has its turn |
| requests of `app/host.cpp` | terminal, recorder, audio, camera, privacy mask, overlay | one branch per message | each request is answered or refused; the host's user is not left covered |
| input: widget, controller, host, `hw/input_control.cpp` | what is pressed | mouse and key events | nothing stays down that nobody holds |
| `core/tcp_connection.cpp` | state, buffer, reconnect timer and attempts | connect, disconnect, send, socket signals, timer | reconnects or reports, never on its own after a disconnect; messages whole |
| `core/protocol_manager.cpp`, `core/message_codec.cpp` | none | encode, decode | what is read is what was written, from older versions too |
| `app/relay_server.cpp`, `app/nat_traversal.cpp`, `app/p2p_manager.cpp`, connection of `app/remote_controller.cpp` | registrations, bridges, relay sockets, fallback timers | REGISTER, CONNECT, PUNCH, heartbeat, fallback | a registration is an open socket, a bridge has two live ends, an attempt ends |
| `app/device_registry.cpp` | devices, file | register, update, remove, heartbeat, groups | what was acknowledged is known, the silent go offline |
| `core/network_manager.cpp` (UDP), `core/device_discovery.cpp`, `app/device_manager.cpp` | identity, devices, MAC lookups | announce, search, cleanup | the devices shown are those heard lately |
| `app/web_socket_gateway.cpp` | sessions with two sockets and two buffers | connect, forward, cut, close | messages pass whole and in order, none is kept back |
| `app/database_manager.cpp` accounts | SQLite tables | start-up, accounts, switches, overrides, backup | there is always an administrator; a start-up changes nothing |
| `app/database_manager.cpp` messenger | SQLite tables | save, update, load | no column is forgotten |
| `app/ipmsg_manager.cpp` | users, offline queue, keys, transfers, groups, friends | discovery, send, retry, sync, transfer, commands | a message is somewhere, a file is whole, secrets meet, installations agree |
| `app/file_sync_manager.cpp`, `app/file_transfer_manager.cpp`, `ui/file_transfer_widget.cpp` | watches, snapshots, tasks, listings | watch, upload, download, directory scan | the copies come to be the files |
| `app/clipboard_manager.cpp`, `app/clipboard_history.cpp` | last content; list, marks | change, remote change, prune | no echo for ever; what is marked stays |
| session, security and TOTP managers, updater, address book, peripherals, codecs, core services, layout | handles, lists | wrappers | not protocol, or without a caller (section 5) |

`PROJECT.json` lists every part with its files and its status.

### 1.2 Interaction

The GUI thread runs the host's handlers, the network callbacks and the timers:
each handler is atomic with respect to the others.  Concurrency is between that
thread and the workers of the media pipeline, which are connected by
`FrameQueue`s (8 raw frames, 5 encoded frames, 256 tiles, 4 frames to decode), by
atomics and by queued signals, and between the machines, over TCP and UDP.  Dialogs
are windows that stay open between two handlers: the consent dialogs make the
approval of a session span several steps, in which its connection may
go away, come back and authenticate again.

The session code and the media code meet in `updateNetworkWorkerClients` (the
viewers) and in `updateTileTransportMode` (tiles or whole frames).  The messenger is a
peer-to-peer program of its own beside the host: each command has its own TCP connection,
so commands overtake each other.  The relay joins two sockets and then forwards bytes.

### 1.3 What is hard

* threads that wait with time-outs and are woken while others overtake them;
* five sources of rights (level, switches, stored overrides, timed grants,
  approval) that change in any order while sessions are live;
* state copied to another place that each change must bring up to date: the
  viewers, the tile mode, the mask the controller was told, the names of a group, the
  controls of other viewers;
* reconnection, keep-alive and registration that race their own old connection;
* loss by design: frames are dropped under backpressure and must be recovered;
* an encoder handed over in two assignments and taken in two;
* tables and files that a crash leaves between two statements;
* transfers, scans and synchronisations that are cut and begun again while what they copy changes.

`PROJECT.json` lists the hazards line by line, with the properties that watch them.

## 2. Modules

| Module | Models |
|---|---|
| `BoundedChannel` | what the users of a frame queue rely on: calls that take effect in one step, in order, bounded |
| `FrameQueue`, `FrameQueueProofs` | `core/frame_queue.h`; implements `BoundedChannel` |
| `PermissionModel` | `core/permission_model.cpp` as operators |
| `HostSession`, `HostSessionProofs` | the sessions and rights of `app/host.cpp` |
| `TileEncoder` | `hw/tile_encoder.cpp` as operators on an encoder record |
| `TileTransport`, `TileTransportProofs` | the screen on its way from the host's capture to the controller's canvas |
| `EncoderControl` | the choice, hand-over and fallback of the encoder of whole frames |
| `MonitorSwitch` | which monitor a host shows, and what its viewers believe |
| `SessionRequests` | what controllers ask of a host besides frames |
| `InputForwarding` | what users hold down on the picture of a host |
| `TcpConnection` | framing and reconnection of a controller's connection |
| `WireCodec` | every payload of `core/protocol_manager.cpp` |
| `RelayNetwork`, `RelayNetworkProofs` | relay server, both `NatTraversal`s, the punch and the controller's fallback |
| `DeviceRegistry` | the devices a relay knows and their file |
| `Discovery` | how programs on one network find each other |
| `WebGateway` | a browser joined to a host |
| `AccountStore` | accounts, switches and overrides in SQLite |
| `MessengerStore` | the tables of the messenger, column by column |
| `AccountSync` | two installations of one account that merge |
| `OfflineMail` | text messages and the offline queue |
| `KeyExchange` | the key exchange of the messenger |
| `MessengerCommands` | the other commands: recall, receipts, friends, groups, calls, rich messages |
| `IPMsgTransfer`, `IPMsgTransferProofs` | file transfers of the messenger |
| `ClipboardSync`, `ClipboardHistory` | the clipboards of a session; the history with its marks |
| `FolderSync` | directories kept in step, with their uploads and downloads |
| `DirectoryDownload` | downloading a directory while the user browses |
| `MCFrameQueue`, `MCHostSession`, `MCTileTransport`, `MCIPMsgTransfer` | instances of one module |
| `MCTileRecovery` | `TileTransport` with two sets of constants: unreadable tiles, tiles with a wrong hash |
| `MCPeers`, `MCRelayNetwork`, `MCStores` | instances of several modules that do not interact |
| `PeersProofs`, `StoresProofs` | theorems about the parts of `MCPeers` and `MCStores`; `RelayNetworkProofs` also has those of `MonitorSwitch` |
| `RoundTripProofs` | theorems about `WireCodec` and `MessengerCommands`, as parts of `MCStores` |

`MCTileRecovery`, `MCPeers`, `MCRelayNetwork` and `MCStores` put instances side by side: `part` is chosen at the start and says which of them
a behaviour is about, the others rest.  Each module keeps its own variables, actions and properties; the
composite only instantiates them (`INSTANCE ... WITH` where two use one name) and restates
fairness as that of the part's own steps.

### 2.1 FrameQueue

A step is one critical section.  `Enqueue` and `Dequeue` are calls that find
the mutex free; a call that has to wait goes to `blocked`, `WakeOne` moves one
waiting thread to `woken` (any of them: Qt promises no order), and
`ResumeEnqueue` and `ResumeDequeue` are what happens when it has the mutex
again, possibly after others have run.  `Expire` ends the wait of a dequeue,
and `ReturnEmpty` is its return without another look at the queue, as in the
code.  `m_shutdown` is left out because no code sets it.  `frame_queue.cpp` holds an
older version that no target compiles.

### 2.2 HostSession

`clients` and `session` are `m_clients`; `Session` is `ClientInfo` with two
observations added, the mask of the last AUTH_RESP (`told`) and the level the
last authentication ended with (`resolved`).  `devPerm` is the table
`device_permissions`, `grant` is `m_tempGrants`, `toggles` the switches,
`viewers` the NetworkWorker's copy of the clients that get frames.  Each
handler is an action; `Refresh` is `refreshClientPermissions`, `Started` is
`grantAccess` on a session.  `dialogs` counts the consent dialogs open for
a connection: the main window keeps a pointer to the last one only, so a
disconnection closes one of them or none.

Assumptions: an account is its level; a failed authentication changes nothing; a
connection identity (address and port) comes back only when no dialog of its former use is
open; the order in which `close()` reports disconnections in `stop` is free, and the
iteration over a table that a callback changes is not given other outcomes.
The host that runs under the main window has no password, the service has one
and no dialog (`PasswordSet`, `ApprovalUi`).  The build option `XRK_ENABLE_SILENT` is off in every
module.

### 2.3 TileEncoder and TileTransport

A desktop is a grid of tiles; a picture gives each tile a content.
`TileEncoder` is one call of `buildTiles`: which tiles are candidates (all on a key
frame or without a hint, else the dirty ones and those carried over), which of
them changed against the recorded hash, which fit the budget, and what the
encoder remembers.

`TileTransport` follows a frame through the threads:

| Thread in the code | Actions |
|---|---|
| CaptureWorker | `Capture` |
| EncodeWorker | `Encode` (skip stale frames, build), `PutTile` (one tile to `m_encodedFrameQueue`), `EndFrame` (a drop forces a key frame) |
| host main thread | `Drain` (NetworkWorker), `HandleKeyFrameRequest`, `SwitchTransport`, `QualityTimer`, `StartRepair`, `PutRepair` |
| controller main thread | `Receive`, `SendNack`, `Rejoin` |
| controller decode thread | `Apply`, `ApplyDamaged` |

The main thread is inside `resendTiles` while `repair.tiles` is not empty, so its other
actions wait for it; the encode thread does not.  `FrameQueue` is used through what
`BoundedChannel` says of it: an `enqueueNonBlocking` that succeeds or not, in order.

Abstractions: a hash is the content it was taken of; every tile can be encoded;
the two stores of `setTiledMode` are one step (a frame between them only
precedes the key frame they ask for); the viewer's socket holds one batch; one
controller, since the host sends every viewer the same tiles; a whole
frame leaves the tile canvas alone; the dirty rectangles of a
capture are complete, which is `ScreenCapture`'s part.  `"unreadable"` tiles cannot be
attributed and are not asked for again, `"hash"` tiles are, as in `applyTile`.

Four constants name hypotheses on speed, and with them exactly which property
needs which.  The code guarantees none of them:

| Constant | Means | Without it |
|---|---|---|
| `FastEncoder` | `m_rawFrameQueue` (8) has room when a frame is captured; the encode thread still skips stale frames | `ChangesAreKnown` fails |
| `FastLink` | the encoded queue is drained between two frames and the socket takes the batch | `SkippedTilesAreCorrect` fails; needed by `Converges` |
| `FastRepair` | no frame is encoded while tiles are sent again | `SkippedTilesAreCorrect` fails |
| `FastViewer` | `m_tileQueue` (256) has room | needed by `Converges` only; the runs assume it, theorem `SkippedAreCorrect` does not |

### 2.4 EncoderControl

`chosen` is `m_activeEncoderType`, `handing`/`handed` the two assignments of
`setEncoderAsync` (the encoder, then `m_hasNewEncoder`), `swap`/`at` the encode thread between
its `exchange(false)` and its move, `live` the encoder it uses.  `Round` is one pass of
`processFrames`: take a pending encoder, encode, count empty results, fall back to JPEG.
`EncoderChanged` is the queued signal that tells the main thread.  A viewer shows an H264 stream
from its first key frame on.  Frames are seen as they are made: their way through the queues is
`TileTransport`'s.  Moves of the `unique_ptr` from two threads at once are undefined and
have no outcome here.

### 2.5 MonitorSwitch

`capture` is `ScreenCapture` of a Windows host (list, index, the DXGI output, its failure
count), `host` the automatic switching and `m_monitorSwitching`, `ui` a viewer's controls.
`HostReads` and `ViewerReads` are one message each.  Thumbnails are left out: no
viewer fills the list they are made of.

### 2.6 SessionRequests and InputForwarding

`SessionRequests` has one branch of `HostReads` per kind of message in
`processClientMessage` (chat, process, audio, screenshot, recording, camera, privacy, annotation, power,
terminal), the capability test each one has in the code, the answers, and what the
controller's window does with them.  `TERMINAL_STOP` has no sender.  `InputForwarding` follows a press and
its release from the widget's event handlers over the controller and the host's tests to `InputControl`;
positions and the wheel are data.

### 2.7 TcpConnection, WireCodec, WebGateway

`TcpConnection`: a message is two parts, a stream carries the parts and ends anywhere,
`ProcessBuffer` is `processBuffer`; `timer`, `attempt`, `manual` and `enabled` are the members.
Back-off times and statistics are left out.  `WireCodec` has the layout of every payload as a
sequence of fields with their widths; a byte is a number below `Base`, so that length fields overflow within
reach, and readers meet senders of older versions.  An element of a list is put and read like the fields of
a layout (`PutAll`, `GetAll`); no payload has lists deeper than two, so there are three levels of
operators (`EncodeInner`, `EncodeElement`, `Encode`) and none is recursive.  `WebGateway` has one session (sessions share
nothing): `pendingOut` and `tcpBuffer` are the members of that name, `Cut` takes the whole messages
off a buffer, at the gateway and at the host.  The host's stream always begins with a header there, so the
gateway's search for the next one is left out; the pages served over HTTP are files.

### 2.8 RelayNetwork

`relay` is the server (registrations, names of the sockets, bridges, tokens), `nat` the two
`NatTraversal` objects, and the controller's attempt has the punch, the 6 s timer and the
relay as its ways.  Each socket has lines under way both ways and two ends that close on their own.
An attempt to punch ends in success or time-out.  LIST only reads.
`ReconnectTimer` waits until an attempt of `NatTraversal` has ended; the timer of the code repeats every 5 s whatever
the state (`nat_traversal.cpp:134`, 160), within which an attempt ends and the relay answers.

### 2.9 DeviceRegistry and Discovery

`DeviceRegistry`: a line of the relay is one action with the save it makes; `Crash` keeps the file as
it is.  `told` remembers what replies confirmed.  `CutWrites` lets a save fail.
`Discovery`: one datagram is one message; `Announce` is the search (every 5 s) and the presence (every
3 s), `Receive` is `processDiscoveryMessage` with all it causes in the tables, up to
`DeviceManager`'s list, `Resolve` the end of a thread that asks for a MAC.  A start has a new device id, as in
the constructor.

### 2.10 AccountStore, MessengerStore, AccountSync

`AccountStore`: a start-up is a sequence of statements (`run` says which is next), and the process may
end between any two.  Account operations are one step, as one guarded statement or one transaction.
`MessengerStore` has a table per initial state: the columns of the statement that saves, those of each update,
those the reader gives back; a column holds the number of the operation that gave its value.
`AccountSync` has the request, the snapshot, the merged snapshot and the acknowledgement,
each on a connection of its own.

### 2.11 The messenger

`OfflineMail`: a message is written on its connection, read or broken, and queued when
`QTcpSocket` reports an error; the timer sends a batch, OFFLINE_DELIVERED removes it.  A device has a new id at each
start (`self`); `known` is `m_devices`, `met` its table in the data base, which the sender reads when it starts.  The
queue is by the id the receiver had (`target`), and batches go to its address, whoever has it now.
`NetworkCut` takes the receiver away with its id, `ReceiverStops` without.  The sender's own restart gives
it an id nobody has blocked.
`KeyExchange`: initiation writes only the public half of the pair, as in the code.
`MessengerCommands`: what each send function writes and each handler reads, as functions from JSON keys to
parameters; groups with their two lists.
`IPMsgTransfer`: the sender's queue with its slots, jobs that wait for a key, back-off timers, the
receiver's consent, chunks, digests and the bookmark, restarts and every button of the list.  `recv.disk[f]` is what is on
disk under the path a file was last accepted under, with 0 for what a seek skipped; a user who accepts again may choose
another path, where the file is new (`Opened`, remembered in `recv.moved`).  `QFile` holds up to 16 KB back until the file
is closed or more is written: a chunk larger than that is on disk when it was written, a smaller one, which only the last
of a file can be (`LastChunk`), stays with the process (`held`) and may go with it.  What arrives in two reads is no
document (`GarbledStart`, `GarbledAnswers`).  A restarted sender has a new id: its files get new fileIds
(`send.past`).

### 2.12 Clipboard and files

`ClipboardSync`: a manager compares with what it last sent or was given; `Kept` is what the system
gives back.  `ClipboardHistory`: adding, marking, pruning, the file.  `FolderSync`: watch, snapshot,
debounce timer, uploads and downloads chunk by chunk; forward on a controller, reverse on a host.
`DirectoryDownload`: the queue of directories, the map from paths to targets, the pane's own
listings.

## 3. Runs

### 3.1 What each shows

| Run | Instance | Shows |
|---|---|---|
| `frame_queue` | 2 producers, 2 consumers, 2 frames, capacity 2, fair consumers | no lost wake-up on either side, refinement of `BoundedChannel`, a blocked enqueue returns |
| `host_approval` | GUI host, 2 connections, at most 2 dialogs each | approval, trust, a parked session has its dialog, tile mode and viewers fit the sessions |
| `host_tables` | service, 2 connections, overrides, grants, switches | what a session may do is what the tables say, and its controller knows |
| `tile_transport` | 2 tiles, 2 contents, a raw queue of 2, other queues of 1, budget 1..2, link congested or healthy, mode switches, rejoining viewer | no change is forgotten, though stale frames are skipped; skipped tiles are correct when the encoded queue drops tiles |
| `tile_recovery` | 2 tiles, 2 contents, unreadable tiles, fair; or 1 tile, 2 desktop sizes, a wrong hash, no frame encoded during a repair | what arrives damaged is repaired: a screen that stands still becomes the viewer's picture, skipped tiles are correct |
| `relay_network` | controller, host and relay with 3 sockets; or 1..2 viewers of 1..2 monitors; or the encoder | registrations are open sockets, bridges are paired, attempts end; viewers are told of the automatic switching and every monitor has its turn; the picture comes back |
| `peers` | mail; keys; a controller's stream; clipboards of 3; folders of 2 files; a directory tree of 4; 2 controllers' requests; what they press; a browser | nothing sent is forgotten and it arrives at a receiver that keeps its id; secrets meet; messages whole, reconnection or report; clipboards come to rest; copies converge; directories arrive; requests settle, the host is uncovered, the chat has one order; nothing stuck |
| `stores` | accounts; tables; synchronisation; payloads; commands; clipboard history; registry; discovery | what is written is read again, through crashes, merges, old versions and overtaking; the silent go offline, the found are shown |
| `ipmsg_transfer` | 2 files of 2 chunks, 1 slot, 2 attempts, 3 clicks, 1 fault | what is reported received is whole, the bookmark is on disk but for two exceptions, transfers end |
| `grant_expiry`, `transfer_resume`, `mail_restart` | smallest instance that shows it | the disagreements of 3.3 |

### 3.2 Bounds and fairness

*Queue.* Two threads on each side are enough for its hazards: a wake-up that goes to
one of two waiters, a slot taken by the other producer, an expired wait beside a woken
one.  *Sessions.* Two connections are enough for rights: every rule looks at one session, its
address and the tables, and at an administrator who changes them, which may be the session
itself or the other one.  Two dialogs per connection are what a controller's
handshake opens (one on accept, one on AUTH_REQ).  In the passing runs each connection has its own address.
*Tiles.* The rules of the encoder look at one tile and count the others for the
budget: two tiles, one that fits and one that does not, show both.  Two contents tell an
old tile from a new one; a third value is what no tile was yet (`Unsent`).
A raw queue of two holds a frame that is skipped for a later one (`KeepRaw = 0` where the code keeps 2); the encoded queue
of one overflows at once.  The counters of the code (`seq`,
statistics) are not in these models, so their instances are finite without a
constraint.  The view of `tile_transport` leaves out `m_lastRawFrame`: no tile is
damaged there, so nothing reads it and no `RepairStep` is enabled (`UndamagedSpec`); the repairs are
the matter of `tile_recovery`.

*Encoder, monitors.* Two empty encodes stand for the code's limit and a key frame every two frames for every
60: both only count.  Two picks and one monitor switch cross each hand-over with another.  Two monitors are one that
is captured and one that is not; two viewers press at the same time.
*Relay.* Three sockets: an old and a new one of a device, and the other device's.  `MaxLines` is what a device has
not read while the relay reads on.
*Peers.* Two messages, two stops, two ids: one overtakes the other, the receiver is cut off or starts anew between them.  Two
reconnections, three ends.  One raw and one normalised text; two copies cross.  A change during a transfer of two
chunks, one break.  A tree with a branch and a leaf, two downloads or listings, one cut.  Two controllers
ask twice, two switches.  Two messages each way for the browser, of one and of three parts, two sessions.
*Stores.* The administrator and one more, two passwords, four operations, two stops: a crash in a start-up and one
in the start-up after it.  Two keys per table.  One row and one message, three edits, two requests that cross.  Four
values per byte.  Three users, two of which act; a time-out of one unit, four units and two devices in the registry;
two machines, three starts or announcements.
*Transfer.* Two files on one slot, the last chunk of the second one small enough to be held back.  One fault is a
cut, a restart or a document in two reads.

Counters named `Max...`, `Clicks` and `Faults` bound what users, failures and the environment do; what the
program does itself is never bounded.

Fairness.  A consumer of a frame queue is a loop that calls `dequeue` again, and the mutex is granted in
the end: weak fairness of `Dequeue \/ ResumeDequeue \/ ReturnEmpty` and of `ResumeEnqueue`.  Qt's wake-ups may
prefer one producer for ever, so `BlockedEnqueueReturns` says that not all are stuck.  The workers of the tile
transport are loops over their queues and repeating timers, the request for a key frame travels over TCP: weak
fairness of each.  `QualityTimer` with a key frame comes every tenth second as long as tiles are in use.  `Apply`
of each tile is strongly fair: a tile that arrives over and over is not damaged
every time, without which no recovery can end.  `SwitchTransport`, `Rejoin`, the repair and
the damage have no fairness.  Encoder: the encode thread runs on, `setEncoderAsync` ends, the queued
signal is handled.  Monitors: capture starts, timers fire, messages are read.  Relay: lines are read, connections are
made or refused, timers fire.  Mail: the receiver comes back, its HELLO and the timer come, what was written is
read or reported broken.  Connection: the timer fires and an attempt ends.  Clipboard, folders, listings, requests, keys: what
arrived is read; timers fire.  Transfer: the same, and the back-off timers.  Users and faults are never fair.

### 3.3 Disagreements between code and documents that a run shows

1. `grant_expiry`: a grant with a level overwrites the level of the session; when the grant ends
   the level stays (`host.cpp:1654`).
2. `transfer_resume`: the path of a bookmark is already complete, `acceptFile` appends the name once more and the
   directory cannot be made; the resumed transfer is never accepted (`ipmsg_manager.cpp:3194`).
3. `mail_restart`: the id of a device is random at each start (`ipmsg_manager.cpp:74`), the offline queue is by id and
   tried for ids that are announced: mail for a receiver that was started again is never sent.

The passing runs leave 2 and 3 out by what `TransfersEnd` and `MailArrives` except; of 1 their properties say nothing.

### 3.4 Further disagreements

*Shown by a run whose constants are changed as said:*

| Property | Run | Change | What the code does |
|---|---|---|---|
| `ApprovalGivesResolvedLevel` (add it) | `host_approval` | one client | the second consent dialog of one handshake replaces the approved level by the default (`host.cpp:1536`; `docs/07_change_log.md:20`) |
| `CapsCurrent` | `host_tables` | `PeerOf <- SharedAddress`, no symmetry | an expired grant erased by a second authentication of its address is never taken back from the first session (`host.cpp:1651`, 1672) |
| `Converges` | `tile_recovery`, unreadable | `EncodedCap = 1`, `Damage = {}`, `Content = {px1}` | tiles of a key frame that find the queue full are dropped, the next key frame starts with the same tile (`host.cpp:672`) |
| `Converges` | the same | `LinksUnread = {"congested", "neutral"}`, `Content = {px1}` | a key frame larger than the budget starts again with its first tiles (`tile_encoder.cpp:359`) |
| `SkippedTilesAreCorrect` | `tile_recovery`, hash | `FastRepair = FALSE`, `NumTiles = 2`, `Sizes = {Size}` | an old tile of a repair is painted over a newer one, which the encoder has recorded as sent (`host.cpp:196`) |
| `SkippedTilesAreCorrect` | the same | `NumTiles = 2`, `EncodedCap = 6`, `Sizes = {Size}`, `Links = {"silent", "congested"}` | a repair shows a tile the budget held back, nothing records it, and when the screen changes back the tile is skipped as unchanged (`host.cpp:196`) |
| `SkippedTilesAreCorrect` | `tile_transport`, `Spec`, no view | `FastRepair = TRUE`, `Damage = {"hash"}` | a repair refused by the full queue is lost |
| `SkippedTilesAreCorrect` | `tile_transport` | `FastLink = FALSE` | a batch dropped before a slow socket stays recorded as sent (`host.cpp:541`) |
| `ChangesAreKnown` | the same | `FastEncoder = FALSE` | a frame the capture queue drops takes its dirty rectangles along (`host.cpp:128`; the comment at 305 says they must be carried forward) |
| `BookmarkIsCommitted` (add it) | `ipmsg_transfer` | none | a file accepted again under another path is new and empty, and the bookmark is saved for it (`ipmsg_manager.cpp:1618`, 1644); a bookmark is saved before `QFile` has written a small last chunk (3678, 3701); the comment at 3686 says "verified and committed" |
| `FramesResume` | `relay_network` | `ViewerDecodes = FALSE` | failed decodes are never reported, so the fallback to JPEG that `docs/08_desktop_render_checklist.md:129` promises does not come: the screen stays black |
| `SwitchShows` (on `MonitorSwitch` alone) | | one viewer, `MaxFails = 1`, `MaxClicks = 1`, `MaxEvents = 0` | the index is set before `switchDxgiOutput`, which returns at once for an equal index: DXGI's output never changes (`screen_capture.cpp:687`, 718; `docs/07_change_log.md:199`) |
| `RequestsSettle` | `peers` | `ShellsStart = FALSE` | a shell that does not start leaves a null pointer, which the next input uses (`host.cpp:3632`, 3691) |
| `NothingStuck` | `peers` | `FrameFirst = FALSE` | a press before the first frame is not forwarded like its release |
| `SecretsMeet` | `peers` | `Again = TRUE` | a second initiation leaves the halves of the key pair apart (comment near `ipmsg_manager.cpp:2469`) |
| `RoundTrip` | `stores` | `MaxDevices = 2` | the notes of a second device are read at the wrong place (`protocol_manager.cpp:2389`; `tests/TESTS.md:212`) |
| `RoundTrip` | `stores` | REPLY, IMAGE or CALL_INVITE in `Commands` | a reply is never handled, its code stands under IMAGE; the type of a call is not passed on |
| `NamesMatchMembers` | `stores` | `FreshList = FALSE` | `inviteToGroup` appends the id always, the name only if known (`ipmsg_manager.cpp:462`) |
| `StoreRemembers` | `stores` | `CutWrites = TRUE` | the registry is saved in place and without a look at errors; a cut file reads as empty and the next save overwrites it (`device_registry.cpp:115`) |

*Stated by no run, met while modelling (all read off the code the modules map):*

Sessions.  A live session that authenticates again under approval is parked with its level, mask and frames
(`host.cpp:1468`).  An override for a live session moves its mask and not its level, so a session below Admin
may hold `UserManage` (`host.cpp:1633`).  A second AUTH_RESP replaces `m_encryption` on the main thread while the
decode thread decrypts (`remote_controller.cpp:1659`).

Encoder.  A second `setEncoderAsync` between the exchange and the move of the encode thread can lose the encoder: the
thread then sends JPEG of quality 70 for good (`host.cpp:166`, 279).  A late `encoderChanged` or a monitor switch
can leave `m_activeEncoderType` different from the live encoder, and tiles beside H264
(`docs/02_module_design.md:139` says they exclude each other).  The probe of an H264 encoder uses up its first key
frame, viewers wait for the next of every 60.  A gear's pinned quality goes to the old encoder.
AUTO after a pinned gear does not restore encoder and frame rate.  `setTrueColor` changes an open H264 context.

Monitors.  A time-out of `AcquireNextFrame` counts as a failure, ten give DXGI up for good.  The list is only read
again on a reinit, so DXGI notices no new monitor.  The automatic step is not broadcast.  A switch under way when
a session ends leaves `m_monitorSwitching` set: the controls are dead.  New viewers are not told of a
running automatic switching, and their START returns early.

Input.  Nothing releases what is down on loss of the focus, the takeover, the capability or the session.  Text keys
are injected whole at press and again at release.  The extra buttons map to the left one.  The drawing mode
outlives a session.  The takeover button starts unchecked while forwarding is on.

Requests.  Terminals are not stopped on disconnect; input goes to every client's terminal; stopping a running one
would use a null pointer.  The privacy mask stays when the session that asked for it leaves others behind.  The
answer to RECORD_STOP is read as "started".  Recording, camera, audio, privacy and the automatic switching have no
capability test.  A missing frame leaves a screenshot unanswered.  The recorder writes the frame count at two
wrong offsets and never patches the list size.  An own chat line is shown twice.

Connections.  After a reconnection nothing authenticates again (`docs/06_test_plan.md:206`), attempts are never
reset, and `m_buffer` is kept, so that a header out of place makes the reader deaf for good.  Errors other than refused,
closed and network start no timer.  `NetworkManager::disconnectAll` drops signals instead of closing
and its table is keyed by address (`network_manager.cpp:205`).

Gateway.  A text message of type offer, answer or candidate is written as bare JSON into the host's stream
(`web_socket_gateway.cpp:186`), nobody handles it, and the host takes nothing from that session afterwards: remove
`~offered` from `GatewayPasses` to see it.  A chunk that ends inside a session id is taken for a broken
header and thrown away (231; the host sends no session ids), and the next header is
searched in the byte order of the machine instead of the stream's (235).  A request cut off by its client stays
in `m_httpBuffers` under the address of a freed socket.

Relay.  The tables agree only if a closed socket has nothing unsent.  The 5 s timer of `NatTraversal` repeats and is
started by every end: a host that was stopped registers again, and a new registration ends a bridged session.  After a
bridged session the host never registers again unless that timer runs.  PEER_NOT_FOUND and CONNECT answer each other
for ever.  The 6 s timer goes on beside a bridge.  A second controller's CONNECT overwrites the host's
bridge.  PUNCH tells each side its own address.  A host never gets the relay's token.  `RelayServer::stop` erases
from the table it iterates over.

Registry and discovery.  Heartbeats are not saved: after a crash a device is shown by the file's word for one pass.
Names with spaces shift the fields of DEVICE_REGISTER.  Only tests give the relay a registry.  The access code a
host announces is the one before (`host.cpp:636`, 640), so the code it shows finds it on no network; the manager keeps what a
device announced first, since nobody listens to `deviceUpdated` (its code and port are not the current ones);
expiry compares the sender's clock with the receiver's; a MAC is kept for a new address;
`refreshDevices` takes two devices without a code for one.

Accounts and stores.  A restored data base has no accounts until the restart, which seeds the administrator again.
A failed copy leaves the data base closed.  Every HELLO resets `is_friend` and the remark.  Pinned messages lose
`isDirectory`.  A sync replaces messages with their pins and brings deleted ones back.

Mail and commands.  HELLO is answered with HELLO for ever; LEAVE is ignored.  `expiresAt` is written in
milliseconds and compared in seconds; `retry_count` never moves.  A batch carries the JSON document as text and new ids
each time, so a repeated one is shown twice (`ipmsg_manager.cpp:2336`).  A message whose connection ends long after it was
read is queued again (277).  A batch ignores the block list, and goes to whoever has the receiver's address, which need not be the id it is for.  A
device that was started again is a new one for the block list, the friends and the saved messages too.  A command split
over two reads is dropped.  A message to a
peer that is not known is neither queued nor saved.  A recall may overtake its message and changes no table.  Votes cannot
be answered by anybody but the creator.  A friend's acceptance that is lost leaves a one-sided friendship.
Keys are answered with keys for ever.  The accept and reject buttons of an incoming call use a null dialog, and hanging
up sends nothing.

Transfers.  A retry of a transfer that was removed frees its slot without a look at the queue (`NoIdleSlot` excepts it).  A
cancelled transfer with a pending retry is sent.  A paused one keeps its slot.  The sender reports completion before the
receiver has verified.  A reject leaves the sender's task queued, a dismissed path dialog answers nothing.  A FILE_START in two reads, as with the
digests of many chunks, is dropped (2751), and so are two answers in one read (3443); the sender has no time-out for the
answer and keeps its slot (`TransfersEnd` excepts it).  A file whose last chunk is held back by `QFile` is verified before it
is flushed (3241, 3718) and reported failed.  The fileId is made from `m_userId` (3301) and so is another one after a restart of
the sender, although the comment at 3296 counts on it to be the same: such a bookmark is never used.  A receiver that was
started again lacks the session with which a retry encrypts.

Clipboard and files.  Copies that cross swap the clipboards and stay so.  A copy made while disconnected
counts as sent.  The history's menu copies the preview, cut at 200 characters.  A new copy is
dropped at once when all others beyond the slack are marked.  What changes while a forward sync is cut off is
forgotten until it is started again; scanning one directory drops the snapshot of the others; uploads over a lost
connection are reported complete; the check sum of a download is never verified; the host answers nothing for a missing
file.  After a cut during a directory download no other starts; overlapping ones take each other's target.
FILE_REQ has no capability test.

## 4. Proofs

`FrameQueueProofs`, for any finite sets of threads and any capacity of at least 1:
`Bounded` (type and `CapacityBound`), `NoLostWakeup` and `Implementation`.
`NoLostNotFull` and `NoLostNotEmpty` (`Wakeups`) are not inductive together with the type alone only
in that they count woken threads: the lemmas on cardinality say how one thread that
leaves `blocked` or `woken` moves the count, and each action is one case.
The refinement maps the actions that only wait to stutters.

`HostSessionProofs`, for any connections, addresses, accounts, overrides,
grants and switches: `TypeCorrect`, `SessionSafety` (`NoLevelNoCaps`,
`TogglesConverge`, `ControllerKnowsCaps`, `NothingBeforeAuthentication`,
`FramesNeedViewScreen`) and `ApprovalHolds` (`StartsOnlyByApproval`).  The inductive invariant
is the type, a statement on every connected session (unauthenticated means blank, no level
means no mask, the mask lies within the switches and is what the controller was told) and the
viewers.  It is needed because a refresh skips
sessions without a level: only with "no level, no mask" does the skipping leave
no one behind a switch.  `CapabilitiesCurrent` adds `CapsCurrent` under the hypothesis that no two
connections share an address; without it the property is false (3.4).
`WaitCanEnd` is `ParkedHasDialog`: each handler that parks a session opens a dialog of it in the same step, and the
handlers that close one answer the session or end it.  `TilesReachDecoders`: frames go to sessions with
`VIEW_SCREEN` and as tiles only while each of those *viewers* decodes tiles.  The stronger `ScreenFitsViewers` of the run,
which speaks of every authenticated session (`TilesOnlyIfAllDecode`), is the theorem `ScreenFits` under
`~(PasswordSet /\ ApprovalUi)`.  Every host of the program satisfies it (2.2), and it is needed: with a password
and a dialog, a session that authenticates anew with another client is parked, `Park` does not
recompute the mode, and TLC shows tiles beside an authenticated session that decodes none.  It views nothing while it is parked.

`TileTransportProofs`, for any grid, contents, sizes, budget, queue capacities, links and
damage: `ChangesKnown`, that `ChangesAreKnown` always holds under `FastEncoder`.  The inductive
invariant joins to it the types of the pictures and of the encoder, and `FramesTellChanges`: a queued
frame that shows a tile differently than the screen does is followed by a frame that tells of that tile.  It is
needed because `Encode` compares hashes with the frame it takes, not with the screen: a tile found unchanged
there may have changed since, and only a later frame of the queue says so.  `TakeFrame` replaces
frames by the union of what they tell (lemma `TakeKeepsChanges`); `Build` sends a tile, carries it over or
found it unchanged (lemma `BuildLooks`).  The other actions leave these variables alone or announce a key frame.

`TypeCorrect` there is the type of everything on the way, under no hypothesis, and `SkippedAreCorrect` is
`SkippedTilesAreCorrect` for any grid, sizes, contents, budget and queues under `FastLink` and `Damage = {}`.
Its invariant adds to the property the type and that nothing is damaged, asked for or repaired (`Undamaged`).  The
property looks at the *last* tile on its way for each place, so the proof is about queues: what arrives in the end
does not change when tiles move from one queue to the next (`Moved`), when the first one is painted (`Painted`),
or when others are put behind (lemmas on `Behind`); a call of `buildTiles` puts behind exactly the tiles whose hash it
records (`BuildSends`), also after the tile below the pointer was moved to the front (`MouseFirstSendsAll`).

With damage the property is not proved: it is false where a repair meets newer tiles, a full queue refuses a repair, or a
budget held back what it shows (3.4).  Part hash of the run `tile_recovery` checks what remains, one tile and no frame
encoded during a repair, and is evidence for no more than that.

`RelayNetworkProofs`, for any sockets, lines under way and events: `Registrations` (the type and `RegisteredIsOpen`) and
`Bridges` (`BridgesPaired`).  The invariant says that `m_registeredPeers` and `m_peerIds` are inverse to
each other and name open sockets (`TablesAgree`), that a bridge joins two sockets with different names
(`BridgesJoin`), that a socket is registered under the name of the device that made it (`OwnersAgree`), that
only the controller asks for a connection, and that a device's control and session sockets are apart.
`BridgesPaired` needs the names: with two devices, a CONNECT of a socket without a bridge can only meet a target without
one.  With a second controller it is false (3.4).
`AutoSwitchIsTold` (`AutoSwitchTold`), for any viewers, monitors and clicks: the last status on its way to a viewer
is the host's state, and when none is on its way, controls that differ from it wait for a request
that the host, in this state, will accept and answer (`Follows`, `Settled`).  The property alone
speaks of empty lines only and says nothing of the steps that lead there.

`IPMsgTransferProofs`, for any files, chunks, slots, attempts and clicks: `CompleteIsWhole` (`ReceivedIsWhole`)
and `BookmarkBacked` (`BookmarkIsBacked`).  Nothing is assumed of what a connection carries: wholeness comes from the
digest alone.  The invariant says, file by file (`FileInv`): a file being received is not reported complete (`Receives`),
what `ReceivedIsWhole` needs where an older connection still writes; a bookmark does not pass the last chunk, nor what a
receive has counted (`Marks`); what was counted is on disk, but for a file that was moved or has a small last chunk (`Backed`);
and what lies behind it is a last chunk of an earlier attempt or a hole (`TailIsLast`).  The property alone says nothing of the chunks a receive has counted, from which the next
bookmark is made.  Before the proof TLC checked the invariant on one file of three chunks with two faults, for a short and for a small
last chunk.

`PeersProofs`, each about one part of the run `peers`, for any messages, controllers and bounds:
* `MailKept` (`NothingForgotten`).  An acknowledgement under way names only messages the receiver has saved.
* `CoversGo` (`UncoveredWhenAlone`).  The mask is shown only while its switch is on and a session stands.
* `NothingStaysDown` (`NothingStuck`) under `FrameFirst`.  A button that goes down in the stream is excused, still held,
  or followed by its release in the same stream (`DownFollowed`); what is down at the host is excused, held, or its release
  is coming (`HeldAnswered`); keys with a text are never down.  Without the hypothesis it is false (3.4).
* `ChatsAgree` (`ChatSameOrder`).  Lines have numbers that grow; a line still to be said is in no window and on
  the way to none; no two controllers have or will have two lines in opposite orders (`LinesAgree`).
* `MessagesStayWhole` (`NoMixedMessages`), for any lengths of messages and any number of them.  What `ProcessBuffer` and
  `Cut` compute for a stream of any length is shown from the shortest stream they would get wrong (`SplitAll`, `CutAll`);
  that such functions exist at all follows from `Recursion`, for which a message must have a header.  Of the connection
  the invariant is that parts kept and under way are in the order sent, behind all messages received (`TcpInv`); of
  the gateway, that what the host took, keeps, has coming, what the gateway keeps and what it has not read are links of one
  chain up to the last message sent (`UpLine`), and the same the other way (`DownLine`).  So where nothing is under way,
  nothing is kept back.

`StoresProofs`, each about one part of the run `stores`:
* `AdministratorRemains` (`AdminRemains`) and `StartupChangesNothing` (`StartupKeeps`), of the specification of
  `AccountStore` itself, for any names, passwords, capabilities, devices and any number of operations and
  stops.  The inductive invariant is the type, `Guarded` (a table that was ever used has an enabled administrator,
  whatever `run` is, and so has a backup) and `Seeded` (past the statement that seeds, the table is not empty).
  `AdminRemains` alone is not inductive: it says nothing of the table while a start-up runs, and a crash there is
  where the next start-up begins.
* `SilentAreNotShown` (`SilentGoOffline`), for any devices, users and clocks.  Invariant: the registry's timer goes off in
  time (`InTime`); a device a program shows was heard within the expiry or the pass that drops it is due (`Lately`), and one
  whose MAC is pending has a lookup (`MacsAsked`).
* `SyncsAgree` (`SyncedAgree`).  While nothing disturbs a synchronisation, one command is under way and
  tells the truth of the installation that sent it (`Truthful`, `Alone`); merging is such that what was merged and
  sent back wins (`LaterReturns`).
* `NamesStayBeside` (`NamesMatchMembers`) under `FreshList`, without which it is false (3.4).
* `StoresRemember` (`StoreRemembers`) under `~CutWrites`, without which it is false (3.4).  The file holds what was
  confirmed, whether the relay runs or not, and the table does while it runs.
* `MarkedStay` (`HistoryKeepsMarked`, an action property), for any limit and slack.  What `pruneOldEntries` removes in a
  loop is stated in closed form (`Trimmed`, `Turned`), which TLC found equal to the loop on all lists within reach.

`RoundTripProofs`: `SentIsRead` (`RoundTrip`) for any base above 3, and `EveryPayloadIsReadBack`, which says the same of
any layout and value that fit together, those of no message included.
* *The codec.*  A number below `Base^w` is what its `w` bytes make (`NumberOfBytes`).  A stream that holds a piece at a
  position gives the piece back and is then behind it (`NumberHeld`, `TextHeld`); a stream that holds several one behind
  the other holds each (`PiecesHeld`).  From that the five kinds of sequences are read along: the fields of an element of an
  inner list, such elements, the fields of an element, elements, the fields of a payload (`InnerRead`, `InnersRead`,
  `ElementRead`, `ElementsRead`, `PayloadRead`).  The five proofs are alike because a lemma cannot have an operator as a
  parameter.  Of a last field or element only the value must be right, not where the reader stays: this is
  why `TextUnskipped` does no harm at the end (`LastFits`).
  All that is recursive is a function of how many have been read, and is known from the value before (`UpTo`).
* *Messages.*  Every layout of the module is well formed (`EveryLayout`) and every sampled value fits it (`SampleFits`); a
  message of an older version lacks the last field, and the reader is at the end there (`OlderRead`).
  Authentication is written by hand and is so read in the proof: a name cut to what its length byte can say
  (`RequestRead`), a key and an initialisation vector padded to their sizes, and the answer cut by the level and
  the capabilities it did not have once (`ResponseRead`, `LessGranted`).  The invariant is that what is on the wire is the
  message (`CodecInv`).
* *The messenger.*  For each command, what its document has under the keys the handler reads is what the sender was given
  (`AllFaithful`); the invariant is that every document under way was written so (`TalkReadInv`).

`SentIsRead` has two hypotheses, `MaxDevices \in {0, 1}` and none of REPLY, IMAGE and CALL_INVITE in `Commands`.  They are
exactly the two divergences of `RoundTrip` in 3.4: without either of them it is false.

Assumptions are `QueueAssumption`, `HostAssumption`, `EncoderAssumption`,
`TransportAssumption`, `TransferAssumption`, `AccountAssumption`, `SocketAssumption`, `StoresAssumption` and `LengthsAssumption`, which say what kind of value each
constant is, and the hypotheses the theorems state.  Only proved, not in a run's list: the type invariants of
`FrameQueue`, `HostSession`, `TileTransport`, `AccountStore` and `RelayNetwork`, `CapacityBound`,
`NoLevelNoCaps`, `TogglesConverge`, `NothingBeforeAuthentication`, `FramesNeedViewScreen` by itself and
`ViewersDecode`.

Only model-checked: every liveness property, which is out of the prover's reach.  Each safety property a
passing run checks is stated by a theorem under the hypotheses named there, but for `SkippedTilesAreCorrect` with damaged
tiles (part hash of `tile_recovery`), which is only model-checked.

## 5. Not modelled, and the plan

Left out, with the reason in `PROJECT.json`:

* *No caller in the program*: `SecurityManager` (lockout, lists of addresses), `TotpManager`, the checks of
  `SessionManager` (only `createSession` is called), the TCP server and `connectTo` of `NetworkManager`, the
  `send...Protocol` and `handle...Message` functions of the messenger.
* *Platform and library calls*: the dirty rectangles of a capture (an assumption of `TileTransport`), codecs, audio, camera,
  the shell, ARP, `SubnetScanner`, cryptography, the updater's download.
* *Lists and layout*: address book, connection history, themes, translations, windows.
* *Data races with undefined outcome*: the unsynchronised moves of encoders, the replaced `m_encryption`.
* *Control loops over measurements*: JPEG quality, frame rate and gear by bandwidth.

Next, in this order:

| Module | Source | Properties |
|---|---|---|
| `DirtyRegions` | `screen_capture.cpp` 390-620 | the assumption of `Capture`: what changed since the last frame is in its rectangles, over lost metadata, the GDI fallback and a change of source |
| a second controller in `RelayNetwork` | `relay_server.cpp` | what of `BridgesPaired` remains |

A refinement worth stating is `Reachability` (a device is registered from its last successful REGISTER to the
end of that socket) by `RelayNetwork`.
