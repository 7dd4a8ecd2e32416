# shellshare: verification project

shellshare broadcasts a terminal: a command-line client sends the output of a
shell (or of its standard input) over a WebSocket to a server, which keeps a
bounded history per room and relays it to the browsers that watch. This
directory holds TLA+ models of the parts of that program in which order,
concurrency and failure decide whether it is correct, the configurations that
check them with TLC, and proofs of the most important results for every value
of the constants. Paths below are relative to `src/`.

## The system

| Component | State | Operations | Interacts with |
|---|---|---|---|
| Rooms registry (`src/server/rooms.rs`) | per room: password, history, size, `live_since`, `last_activity`, `broadcasters` | `append`, `reset`, `broadcaster_connected`, `broadcaster_disconnected`, `delete`, `evict_stale`, `snapshot` | called by the ingest loops, the delete handler, the cleanup task, joining viewers |
| Message history (`src/protocol.rs`) | chunks, byte count | `push`, `accumulated` | inside a room |
| Ingest sessions (`src/server/mod.rs`) | per connection: `received_bytes`, the place in its loop | handshake, attach, one frame at a time, ack, idle timeout, detach; HTTP DELETE; the cleanup interval | registry, viewer delivery, analytics, the client |
| Viewer delivery (`src/server/viewers.rs`) | registry of bounded queues, fan-out channel, user-count channel, one task per viewer | `join` (register, snapshot, catch-up, relay, cleanup), `publish_ingest`, `publish_control` | ingest loops, the registry, browsers |
| Client transport (`src/cli/ws.rs`) | `pending`, `unacked`, `buffered_bytes`, `conn_acked`, `dropped_unacked`, sizes, back-off | `connect`, `send`, `tick`, `shutdown`, `flush`, `drain_acks`, `disconnect`, `handshake`, `dial` | ingest loop, script and stream mode |
| Stream mode (`src/cli/mod.rs`) | reader thread, channel, last byte was CR, termination flags | `stream_stdin` | transport, signals |
| Script mode (`src/cli/script.rs`) | PTY, reader/writer threads, child, raw mode | start, relay, teardown | transport, signals, the shell |
| Keyframer (`src/cli/screen.rs`) | emulated screen, frames since the last redraw | feed, due, resize | transport, and through the history the joining viewers |
| Encrypted records (`src/cli/crypto.rs`, `public/javascript/room.js`) | key, nonce; parser of a record stream | seal; parse and open | transport, viewer page |
| Viewer page (`public/javascript/room.js`) | socket, back-off, decrypt chain and epoch, terminal, wake lock, fullscreen | connect, message, size, status, lock, fullscreen | viewer delivery, browser callbacks |
| Agent reader (`src/templates/agent.mjs`) | buffer, live flag, end timer | one-shot, `--follow` | viewer delivery, `/r/:room.bin` |
| Serve and tunnel start-up (`src/main.rs`, `src/tunnel.rs`) | listener, tunnel process, public URL | start local server, start tunnel, broadcast | everything |
| Analytics (`src/server/analytics.rs`) | bounded event queue, worker | `try_send`, batch, post | ingest sessions, viewer delivery |
| Pages (`src/server/pages.rs`) | per build: the bytes and hash of every page and asset | negotiation, conditional requests, cache policy | browsers and agents, across the replicas of a deploy |
| Binaries, themes | none | downloads | browsers |

The hard behaviours are where these meet. Each registry operation is one
critical section, but an ingest loop performs several of them with
publications in between, and other loops, deletes and evictions come in
between those. The client replays everything unacknowledged over a new
connection while the server may still be reading the old one. A viewer
registers, snapshots and catches up while the room goes on. `PROJECT.json`
lists the hazards line by line with the properties that would notice them.

What makes each component correct:

- registry and ingest sessions: the broadcaster count stands for attached
  connections, never for phantoms; a live segment begins and ends once; a task
  left over from an earlier owner touches nothing; an attached broadcaster is
  not evicted, an abandoned room is; joining viewers are told the truth.
- transport: bytes are accounted for, replay keeps the order, an ack never
  releases what was not stored, the size comes before content on every
  connection, outages are recovered from.
- viewer delivery: what is stored reaches every registered viewer in order and
  without a hole or the viewer is disconnected; what the room would replay is
  on the page or on its way; counts and status converge; the registry does not
  leak or sweep away a joining viewer.
- history: the longest suffix of the output the bounds allow, in whole chunks.
- keyframer: whoever joins a full-screen program can rebuild its screen from
  what the buffer's cap, the reconnects and the history's bounds have left.
- stream and script mode: what was read from the input or the child reaches
  the transport completely and in order, unless somebody forced the end; the
  way out ends every thread it waits for.
- serve and tunnel: the public link never outlives the program; its end is
  announced only when it was not the one that ends the session.
- viewer page: a page that has caught up shows exactly what the room holds and
  its key opens; it never shows ciphertext; it always reconnects.
- agent reader: a follower's log has no hole and repeats nothing; a blip is not
  the end of the broadcast, and the end is.
- pages: an answer that may be reused for ever is the one asked for; a deploy
  leaves no page broken for longer than it lasts; a reader is served what its
  header asks for.

## The modules

### Ingest

One room, the ingest connections that feed it, the HTTP DELETE handler and the
cleanup task. `room` is the entry of the map (or `NoRoom`); `Appended`,
`Reset`, `Connect`, `Disconnect`, `Delete`, `Deadline` and `SnapshotOnline`
are the operations of `Rooms`, each evaluated in one step as the code does
under the entry's lock. `pc` is where each connection's task is in
`ws_ingest_handler` and `ws_ingest_loop`; there is one action per kind of
frame, and the announcements to the viewers (`Announce`, `AnnounceOff`) are
steps of their own because the code makes them after the lock is released.
`opened` counts the `broadcast_started` reports minus the `broadcast_ended`
ones. Time passes in discrete ticks; a task cannot out-wait its timeout, and
work that the code does without waiting takes no time. `announced`, `lost`
and `vanished` are history variables: the last status published, the live
segments ended by an eviction, and whether the entry was ever removed while a
connection was using it. `TypeOK` bounds each task's timer by the limit of what it
waits for (`InTime`).

The password of a room, output, sizes and messages are abstracted to what the
registry does with them: the history is empty or not, the size known or not.

`SegmentsBalance` says of `live_since` that it is set exactly while a
broadcaster is counted (`LiveMatchesCount`) and of the reports that they pair;
`SnapshotTruthful` also that a history has a size (`HistoryHasSize`).

### Transport, Dial, Sums and AtLeastOnce

`Transport` is the client's replay buffer over connections that break, with
the ingest loops at the other end. The client's `pc` follows `flush` and its
callers step by step: every ack read, every frame written and every failure
is a step, so that a break can fall between any two. Chunks are numbered and
have the lengths `Length`; acks carry cumulative bytes, as on the wire.
`apply_ack` and the cap are translated with their arithmetic. A connection
that the client has abandoned may still be read by its loop (`Reads`), with
whatever prefix of the frames had arrived.

`TypeOK` of `Transport` includes that the buffered bytes are those of the two
queues and that a replay keeps the order of the chunks.

A loop ends when there is no more to read, but also with frames unread: once
the client has closed, an ack cannot be written any more (`LoopEnds`). What the
client had in flight when it shut down may therefore never be stored, and no
property claims that the tail lands. `Send` and `Tick` both take the terminal's
size of that moment (`Resizes`).

`Dial`, which `Transport` EXTENDS, is the budget of a TCP connect to a name
with several addresses: each attempt gets an equal slice of what is left, but
not too thin a one. An address answers at once, after `MinDialAttempt`, with a
refusal, or never. A dial has no state that outlives it, so `DialReaches` is
evaluated where the client first connects, for every name.

`Sums` has the byte sums, `SumOf` of a sequence of numbers and `Total` of the
weights of its elements, which `Transport` and `ViewerDelivery` use.

`AtLeastOnce` says what this is for: chunks are held until stored unless the
cap drops them, may be stored again, and are stored for the first time in
order. `Transport` implements it under `held <- Held`, checked as the property
`AtLeastOnceDelivery`; that the abstract specification itself loses nothing
and leaves no holes is proved (`AtLeastOnceHasNoHoles`).

### ViewerDelivery

The delivery of one room to its viewers. `registered`, `entry` and `queue` are
the registry; `Send` is `Viewers::send` with its overflow. `fanout` and
`outbox` are the fan-out channel and the rest of the batch its task is
emitting, as `Coalesced` computes it (adjacent outputs become one payload, up to
`MaxBatch`, as `Merged` cuts them); `recount` and `count` are the user-count
channel (a set, since names are deduplicated) and the count just read. A
viewer's `pc` follows `join`: register, snapshot, the four catch-up frames,
the relay loop, `leave` with its two critical sections, and the request for a
recount. Three of its steps are coarser than the code: `RelayWrite` writes all that was
drained at once, where the relay cuts it at `MAX_MERGED`
(`src/src/server/viewers.rs:470-473`), and `CatchUp` reads the count in the step
that sends it, where the code awaits in between (lines 207-222; the recount that every
join asks for follows); a sweep is `remove_if`, which tests and removes in one. `page` is what has reached the page. The ingest loops attach,
announce, store, publish, reset and detach, with the store and the publication
apart as in `ingest`. Items are numbered in the order in which the room stored
them.

### MessageHistory and Replay

`MessageHistory` has the operators of a room's history: `push` as a fold over
its front, and the definition it is compared with, the longest suffix that
fits. `Replay` is a state machine around one: the program that paints the
screen and then changes it, the broadcaster's own terminal and its cadence
(`Fed`, `IsDue`, `Output`), the capped buffer (`Buffer`), what arrives, a
connection that breaks and a server that restarts without the room. A message
is a frame or a redraw; it carries the number of the frame it is or reflects,
and the size and kind of screen as of it. Of the protocol of a connection only
what reaches the history is kept, since `Transport` has the rest: a reconnect
replays what is not acknowledged. `lost` remembers the newest frame that the
cap or a restart took: right after it no redraw can be expected, and one is
due at most `FramesPerKeyframe` frames later.

### Signals, StreamMode, ScriptMode and Session

A run of the program from its start to its end. `Session` EXTENDS the other
three: `Signals` holds the two flags and the thread that sets them,
`StreamMode` is `stream_stdin` with its reading thread and the bounded channel
between them, `ScriptMode` is `run_script_mode` with its main loop, its
threads, the PTY, the child and what may outlive it. `stage` of `Session` is
where `main`, `serve` and `run` are: the local server, the tunnel, the claim of
the room, the handlers, one of the modes, and the end. Before the handlers are
installed a signal ends the program at once; `tunnel.rs` then relies on the
kernel (`DeathSignal`, true on Linux). `TunnelSpawns` is one step: between the fork and the
`prctl` of the new process (`src/src/tunnel.rs:81`) a signal that kills the program leaves
a cloudflared that nobody takes down, and the model does not show it.

`watcher` is the thread that reads the tunnel's stderr: `start` returns once that
thread has found the URL (`UrlFound`), also when cloudflared has died since, and gives
up when it hears of the end of the output or of nothing for `URL_TIMEOUT`
(`TunnelFails`, stage `giveUp`). It then kills cloudflared without setting `closing`.

In `StreamMode` a byte is CR, LF or another one, and `LfToCrlf` is translated
with the flag it carries from read to read. In `ScriptMode` a chunk is its
number in the output; `slave`, `child` and `orphan` together say whether the
slave side of the PTY is still held. `cut` is a history variable: something
other than the end of the output stopped a thread. SIGHUP has the effect of
SIGTERM and is not told apart. A child that is killed and not gone within two seconds is
left (`MainKills`), and from then on followed as a process that outlived it.
`WinchEnds` is an assumption about signal-hook: closing the handle ends the thread, also one
that is about to park. A call of the transport is one step that
returns, which is what `Transport` shows of it. Of the thread that forwards
stdin to the PTY only the double Ctrl+C is modelled, since it is never joined.

### Feed, ViewerPage, AgentReader and Readers

`Readers` is a room with one reader, a page or a script. `Feed` is the room as
that reader sees it, which is what the modules above make of the server: a
broadcaster that attaches, leaves and comes back, its sessions, sizes and
records; a snapshot on every connection, then each event in order. That the
broadcaster left may be announced again, also when it is back (`OfflineAgain`): each
connection that detaches from a deleted room announces it (`src/src/server/rooms.rs:256`),
and one may do so late. A deletion itself, or an expiry, is not in `Feed`: what
`:room.bin` answers after one is not modelled, and "absent" in `Reads` is a room that no
broadcaster ever attached to.
`encrypted` sizes and sealed records are told apart by whose key they have.

`ViewerPage`: `joinedBefore` and `delay` are the page's connection, `chains`
the promise chain of every epoch (an old one goes on until it is empty),
`term`, `pendingWrites` and `screen` where output goes, `encryptedWithoutKey`,
`notice` and `status` its verdicts. A handler of the page is one step, for it
runs to its end.

`AgentReader`: `mode` is one-shot or `--follow`; `checked`, `sawOutput`,
`live`, `buf` and `ending` are the script's, `printed` its output, and `ended`
says on which path it stopped. `ending` is the timer whose handle the script holds;
a second offline overwrites the handle and the first timer runs on, which is `lost`. A record that its key does not open ends the
script; a plain one, where it has a key, is taken for the length of a record
that never comes, and stays in `buf`.

### LaggingReaders

`Readers` again, with a server whose queues hold things up. `Feed` delivers an
event in the step in which it happens, and registers and snapshots in one; here
it is instanced twice, for what goes by way of the shard's queue (`Shard`: sizes
and output, as `publish_ingest` sends them) and for what goes to the connections at
once (`Queue`: resets and the broadcaster's status, `publish_control`). `backlog`
is what the shard's task has yet to fan out, `outbox` the queue of the reader's
connection, which `Registers` opens before its snapshot is taken and `Relays`
sends on after it. `EXTENDS Readers` brings the page and the script as they are:
the module adds only the way the frames take. Its readers are pages and
scripts that follow; queues have no bound, since a viewer whose queue
overflows is disconnected (`ViewerDelivery`), which a reader sees as a break.

### Negotiation and PageAssets

`PageAssets` is a browser and the replicas of a server that are being
deployed one by one, with roll-backs. A build is a page and the script the
page names by its hash; `GetPage`, `GetScript` and `ReuseScript` are a load,
which may meet another build at every request. `CacheControl` and
`NotModified` are the server's policy, and `calm` remembers that no deploy was
under way since the load began. `Negotiation` has the choice between HTML and
Markdown by the Accept header: `Preferred` follows `preferred_representation`
entry by entry, `Asked` is what it is compared with.

### Proof modules

`IngestProof`, `TransportProof` (also of `AtLeastOnce`), `SessionProof`,
`ViewerDeliveryProof`, `ReadersProof` (also of `LaggingReaders`), `PageAssetsProof` and `ReplayProof` (with
`MessageHistory`), each about the module of its name, and `SumsProof`, the lemmas about `Sums`; see "What is proved".

### Faults

Beside some definitions stands a `Fault`: the same operation with a plausible
mistake. No specification uses them. They document what each property is
sensitive to, and replacing the definition by its fault makes TLC find the
property violated.

## What the runs check

| Run | Configuration | Question |
|---|---|---|
| `ingest` | 3 connections (two share a password), frames in CLI order, deletes by both passwords, one task may die, two peers may vanish | the safety of the registry and its users; abandoned rooms go offline and are freed |
| `transport` | 3 chunks of lengths 2, 1, 1 under a cap of 3, one failure, 401 possible; names of up to 5 addresses | accounting, order, at-least-once delivery, recovery; the dial |
| `viewers_content` | 1 viewer, 1 broadcaster, 2 items, queue of 2, a peer that may stall | FIFO delivery without holes, or disconnection |
| `viewers_crowds` | 2 sessions in a row seen by one viewer with 2 items stored, or 2 viewers of an empty room and 1 session; queue of 2 | nothing of the history is missed; the page settles; counts converge; registry entries |
| `replay` | 6 frames, a redraw every 2, one resize, one break or restart, a buffer of 3 bytes, a history of 6 messages and 7 bytes; pushes of 0, 3 and 8 bytes besides | late joiners can rebuild the screen; trimming |
| `session` | both modes; up to 3 reads that cut lines everywhere, a channel of 1; 2 chunks of output, a PTY of 1; a noisy process may remain; every failure allowed | relaying, drain, teardown, tunnel |
| `readers` | page or script, every kind of key and of session, 2 sessions, 2 records, 2 departures, 1 failure or one departure announced again, one doubling of the delay | what readers show and report, that the page comes back, that a follower ends when and only when the broadcast does |
| `readers_lagging` | page or following script with the link's key or without one, sessions sealed with it or plain, 2 sessions, 2 records, 1 departure, perhaps announced again, or 1 failure | nothing is missed, whatever lags and overtakes; ciphertext shown is of a session that is gone |
| `page_assets` | 2 replicas, 3 builds, 3 deploys; headers of up to 3 entries of 5 ranges with the qualities 0, 0.5 and 1 | cached answers, mended pages, negotiation |
| `ingest_announce_race`, `viewers_skipped_reset`, `session_silent_orphan` | small instances | disagreements between code and comments, below |

`AbandonedRoomFades` says that a room whose peers have vanished goes offline
and is then freed. `StdinIsBroadcast` says that what stream mode sends is the
translation of what it read, in order, and all of it when it ends by itself.
`StoredIsDelivered` includes that a viewer dropped from the registry is
disconnected.

Why these bounds are enough to be interesting. Three connections with two
passwords are the fewest in which a room is shared, re-claimed by a stranger
and still touched by a left-over of its first owner. Timeouts are scaled so
that the order the code relies on is kept: the longest silence of an attached
connection (`UpgradeLimit`, `IdleTimeout`) is below `Grace`, and `Ttl` is below
it too, as an operator may configure it. Under a cap of 3 the third
chunk pushes out the first, which may be written, unwritten or half
acknowledged by then, so the credit for dropped ones is used; one failure gives two connections whose loops overlap.
Two items suffice for a size between contents and for merging; queues of one
or two overflow in a few steps. `viewers_crowds` explores two sessions and two
viewers, but not both at once (`OneCrowd`): the second session matters to what
a page shows, the second viewer to the registry, where statuses and counts fill
a queue as well as output does. Three reads put a CR and its
LF into one read, two, or two with another between. One noisy process stands
for any number; its output beyond the bound wakes the reader and is not
followed. The failure of `readers` falls on an attempt or on a connection, before and
after the first success, and two departures let a follower see a blip and an
end. The second announcement of a departure is explored without a failure, in the
first session and with one record at most (`AgainOrFailure`): that is enough for two
timers, a return after either, and an end. In `readers_lagging` two sessions with a record each, or one with both, let a
reset overtake output and a registration fall anywhere among them; with
one record a failure or a departure comes in it too, the departure twice as long as there is no record
(`OneFault`). In `replay` the
history holds little more than a cadence, the redraw and what reconnects repeat, so that everything is trimmed as soon as it may be.
`WindowHoldsKeyframe` is the arithmetic the constants must satisfy. The code's
do (200 messages and 8 MB against 60 frames of at most 69,663 bytes, a redraw
of at most 1 MB and a buffer of 1 MB) for up to three reconnects within a
cadence and up to 139 received messages repeated in it (`Repeats`, which does
not restrict the run). The code has no such limit on messages: a reconnect
that repeats more pushes the redraw out before it has caught up, and whoever
joins in that moment sees an older screen. Three deploys over two replicas reach every mixture of three builds, a
roll-back included; three entries are the fewest in which a wildcard stands
before, between and after two specific ranges. A frame kind, a delete, an eviction, a break
or a failed write can come at every point of every run, within the constraints
named. `CHECK_DEADLOCK FALSE`
appears where connections are used once and the program ends.

### Fairness

`Ingest!FairSpec`: the server's own steps are scheduled (tokio runs every
ready task), time passes, and the cleanup interval keeps firing. Clients owe
nothing: they may vanish at any point. `Transport!FairSpec`: a call in
progress continues, the main loops keep calling `tick`, the back-off ends and
the loops are scheduled. Strong fairness is assumed of an ack, or the death of
a connection, getting through to a client that looks again and again; one
look alone may come too early. `ViewerDelivery!FairSpec`: the tasks of
the server are scheduled; writes to a peer that reads succeed or fail, writes
to a stalled one end only by their timeout. Broadcasters and peers owe
nothing. `Session!FairSpec`: threads are scheduled and timers expire; the
producer, the child, the processes it leaves behind and the user owe nothing,
except that a noisy process is one that keeps writing. `Readers!FairSpec`: the
reader's events happen (the browser and node deliver them, the font loads or
fails, timers fire, promises are settled), the server accepts, and connections
fail only `Breaks` times; broadcasters owe nothing, and `AgentEnds` has their
final departure as its premise. `Replay` and `PageAssets` state no liveness.

### Disagreements found while modelling

- The publication of a status is a step apart from the count it reports; with
  two connections a stale `false` may follow a `true` (`ingest_announce_race`).
- A reset whose clear is skipped is published nevertheless
  (`viewers_skipped_reset`).
- The drain of script mode is not bounded when the process that outlives the
  child holds the terminal open and stays silent: the reader is in `read` and
  does not see the flag the watchdog takes down (`session_silent_orphan`). The
  run `session` therefore knows only processes that end or keep writing.

Four that no run of its own shows:

- A follower may end although it has heard that the broadcaster is back. The comment
  at `src/templates/agent.mjs:133-134` promises to give the CLI "a moment to return",
  but a second offline in a row overwrites the handle at line 135, and online clears
  the second timer only. The server sends two when it announces late
  (`ingest_announce_race`) and when two connections detach from a room that a
  DELETE has removed. TLC finds it when `ended = "lostTimer" => heard =
  "offline"` is added to the invariants of `Readers.cfg`. `BlipIsNotTheEnd` says that
  nothing else than such a timer ends a follower after an online.
- When `start` gives up after `URL_TIMEOUT` and the watching thread finds the URL
  just then, the thread takes our kill for an accident and warns that the
  public link no longer works, before the error is shown
  (`src/src/tunnel.rs:142-148`; only `Tunnel::drop` sets `closing`). `NoFalseAlarm` names this
  exception and no other.

- A size that is still under way on an abandoned connection overwrites the one
  its reconnect has sent (`Rooms::append` keeps whatever comes last, and
  `Transport!ReadSize` with it), and the client does not repeat it.
- A page without a key may show ciphertext; TLC finds it when `NeverCiphertext` is
  added to the invariants of `LaggingReaders.cfg`. When a plain session follows a
  sealed one in a room, its reset goes around the sealed output that still waits
  in the shard. A page that registers then, and whose snapshot is taken after
  the plain size, learns that the room is plain and is sent the old output.
  `room.js` relies on the size to come first
  (`src/public/javascript/room.js:444-446`). It is no more than that: such output
  is of a session that nobody is replayed any more (`CiphertextIsStale`).

Two more consequences of the code shape the models. A loop whose room was
deleted does not end but creates the room again with its next frame, under its
password, with no broadcaster counted and no size; the properties of `Ingest`
that rely on the count therefore hold "unless the entry was removed in use"
(`vanished`). And a page that has once seen an encrypted size without a key
stays blind when a plain session follows, until it is reloaded;
`PageShowsRoom` says so.

What the readers' models take as the code has it, where a reader of the code
may expect something else:

- `PageShowsRoom`, `LogIsWhole` and `NeverCiphertext` are about a fan-out that keeps up
  with the broadcaster and a registration that is one with its snapshot. When the
  fan-out lags, records may come twice and those of a session that was cleared
  may come after its reset, as the comments of `viewers.rs` say (lines 172 and 185). What holds
  then is what `PageMissesNothing` and `LogMissesNothing` say: nothing is missing, the last
  copies are in order, and only what is stale or came twice is more.
- A follower whose connection is cut in the middle of a broadcast exits with 0,
  as after its end (`src/templates/agent.mjs:154-159`): `ended = "cut"`.
- A follower with a key under which a plain session begins takes the text for
  the length of a sealed record, waits for it, and prints nothing any more; it
  too ends with 0. `LogIsWhole` speaks of followers whose `buf` is empty.
- `ServesWhatWasAsked` claims HTML for wildcards only. A `text/markdown` and a
  wildcard of the same quality are served by their position in the header.
- The keyframer hears of a new size only with the output that follows it, so
  the history's redraw has the old size until then
  (`LateJoinerSeesTheScreen` compares with the size of the newest output).

`Transport` has two things in its bounds that matter for its result: without
a limit on failures nothing would be delivered, and chunks are never lost
*from the buffer*; the room's history may still lose them, when a reset of the
first connection is read after its reconnect has come and gone.

## What is proved

`IngestProof`, for any finite set of connections, any passwords, frames and
timeouts:

- `TypeCorrect`: the type invariant, with the timers within their limits (`InTime`), which is
  inductive together with it: a tick waits for every task whose timer is due.
- `CountNeverPhantom`: `NoPhantomBroadcaster`. The invariant `room.broadcasters
  <= Cardinality(Holders(room.password))` is about the one password the room
  has now, and a room may be re-created under another at any time, with the
  count zero. Each step moves at most one task in or out of the holders of a
  password, and `HoldersMove` bounds what that does to the cardinality; the
  step lemmas (`ServerStepTracks`, `ClientStepTracks`) show that the count
  moves no further.
- `LiveSegmentMatches`: `LiveMatchesCount`, proved together with the type
  invariant and used by `SegmentsReportedOnce`.
- `OnlineOwned`: `OnlineIsOwned`. When a detach publishes nothing, some other
  connection is still counted; that this one exists is `AnotherHolder`, which
  rests on `NoPhantomBroadcaster`.
- `ForeignTasksTouchNothing`: `ForeignTaskTouchesNothing`, an action property. It
  needs no invariant but the types: every operation compares the password
  itself, under the lock.
- `CountExact`: `ExactWhileRoomStays`. It is inductive with the types because
  it also says that, as long as no entry was removed in use, whoever uses the
  room has its password: no detach is then refused, and the bound of
  `NoPhantomBroadcaster` becomes an equality. Both together are `CountIsRight`
  (`CountRight`), which the run checks.
- `SegmentsReportedOnce`: `SegmentsBalance`. Each step changes the reports made,
  those still due and the open segment by amounts that cancel (`Balances`); the
  cardinalities of the tasks that owe a report are followed by `AtMove`.
- `JoinersToldTruth` (`SnapshotTruthful`) and `EvictionSpares`
  (`EvictionSparesBroadcasters`), under two hypotheses. `CliOrder`: connections
  send their frames in the order of the CLI, a size before output.
  `GraceSuffices`: `UpgradeLimit + 2 * IdleTimeout <= Grace`; the code has 300 s
  against twice 90 s and a handshake. Twice, because `reset` returns
  before it refreshes `last_activity` when another broadcaster is counted: the
  loop's clock starts anew and the room's does not. The invariant `TimeInv` bounds the age of
  the room by the silence of each connection that uses it, plus what its stage
  may have left unrefreshed (`Recent`); bounds each silence by the timeout of
  its stage (`Timers`); and has the size in place once it was sent (`Sized`).

`SumsProof`, for all sequences of numbers: a sum of a concatenation is the sum
of the sums (`TotalConcat`), a cut divides it (`TotalCut`), a longer prefix
weighs no less (`TotalGrows`). These need induction, which the library's
theorems offer only for an operator parameter. It is proved here for sets of
numbers instead: every set of naturals with an element has a least one
(`NatLeast`), from which `SetInduction` and the recursion equation of the sum
(`Recursion`) follow, and each use names the set it is about. In the same way for
sequences of sequences: what `FlattenSeq` makes of one more of them, of a
concatenation and of empty ones (`FlatAppend`, `FlatConcat`, `FlatEmpties`).

`TransportProof`, for any chunks, lengths, cap, sizes and number of failures:

- `TypeCorrect`: `TypeOK`, with the accounting of `bufferedBytes` and the order of
  the buffer, and `CreditExact`: `CreditMatchesWire`.
- `DeliversAtLeastOnce`: every step of the transport is a step of `AtLeastOnce`
  under `held <- Held`, or a stutter (`Produces`, `Stores`, `Releases`, `Keeps`).
- `AtLeastOnceHasNoHoles`: the abstract specification loses no chunk but those of
  the cap, and what is stored has no other holes; from an invariant (`Promise`)
  that adds that only chunks that were made are held and stored.
- `OutputHasNoHoles`: hence the same holds of the transport.
- `DialsReach`: `DialReaches`, for any number of addresses and any budget. Before
  each address there is left an attempt for every silent one to come and one
  for the first that answers (`Left`, `StillLeft`): a slice that is thicker than
  an attempt is an equal share, so what it leaves is as thick for the others
  (`SliceIs`, `OneSliceLess`).

The others about `Transport` itself rest on one inductive invariant, `IInv`. What is queued is the run of
chunks from the oldest kept to the newest made (`Queued`, `Low`). On the current
connection the two byte counts, the client's (acknowledged, dropped and
unacknowledged) and the loop's (received and on the wire), meet at the
boundaries of chunks (`Marks`): an unacknowledged chunk is stored, or is on
the wire exactly where both counts agree, or went with a connection that is
lost (`Ledger`); and every ack on its way is such a boundary (`Receipts`), which
is why applying it releases whole chunks that were stored, and no other, also
when the cap has dropped some of them in between. On every connection, an
abandoned one too, a chunk follows all older ones that are neither stored nor
dropped (`Ordered`), and what left the buffer is stored or dropped (`Covered`).

`SessionProof`, for any amount of output, any size of the PTY's buffer, of a
batch and of the channel, and any set of surviving processes, silent ones too:

- `NothingCutOff`: `EverythingSent`. The inductive invariant is `Drain`: as long
  as nothing cut the session short, what was sent, what is queued and what is
  in the PTY are together all that was written (`InOrder`); a thread that is
  done has nothing left; and the flag is still up (`Orderly`). The last part is
  the reason why the code must not take the flag down before the joins: without
  it a reader could be done with output in the PTY. There is one lemma per
  thread.
- `StreamRelaysAll`: `StdinIsBroadcast`. `StreamInv` says that there is a number
  of reads that are broadcast, translated as one stream and with `prevWasCr` as
  their last byte left it, and that the reads after them are the ones in the
  channel and in the reader's hand, in order. That translating two pieces one
  after the other, with the flag carried between them, is translating their
  concatenation is `Translation`, by induction over the second.
- `TypeCorrect`: `TypeOK` of both modes.
- `LinkNeverOutlives`: `TunnelDiesWithUs`, where the kernel delivers the death
  signal (`DeathSignal`), and `AlarmsAreTrue`: `NoFalseAlarm`. Both from
  `Tunnelled`, which says that a dead tunnel is an accident, announced by
  `closing`, or one that `start` gave up.

`ViewerDeliveryProof`, for any viewers, writers, items, queues and batches:

- `EntriesAreSwept`: `NoEntryLeaks`. The invariant is that whoever is registered
  has yet to leave, and that an entry always has a connection between its
  registration and its sweep: the last to leave sees that it is, and a viewer
  that registers before the sweep takes over.
- `TypeCorrect`: `TypeOK`.
- `CountsConverge`: `CountSettles`. A recount is asked for, or somebody will
  still ask (`Transit`: who is joining, leaving, or dropped from the registry
  and has yet to notice), or the task holds the right number, or everybody has
  it on the page or as the last count under way (`CountInv`).
- `DeliveryIsFifo` (`LiveIsFifo`), `ViewersMissNothing` (`NothingMissed`) and
  `PagesSettle` (`PageSettles`), for broadcasters that come one after another
  (`~Overlapping`, as in the runs that check them). With two at a time an item may be
  published after a later one, and these properties are false.

The invariant `DeliveryInv` of the last three sees each message as a span
between two marks, which count the items published up to it: a payload covers
the chunks between its marks, a size or a reset is one item (`Covers`), and a
queue is a run of spans, each beginning where the one before it ends
(`Carries`). Everything published is in the channel, in the batch being
emitted, or was sent to every registered viewer (`Passes`, `Flow`); a viewer
that has everything up to a mark has the rest on its way, without a gap
(`Behind`); and the history up to that mark is on its page or in the snapshot
it has yet to be told (`Seen`). Merging output keeps the marks (`Merged` and
`Coalesced` each have a lemma), and a viewer whose queue overflows is dropped, so
nothing is promised to it. `RoomInv` adds that what is stored and not yet
published is the newest item. `PagesSettle` adds that the last status under way
is the right one, or none is under way and the page has it (`StatusInv`).

`ReadersProof`, for any number of sessions, records, departures and failures:

- `BlipsAreNotEnds`: `BlipIsNotTheEnd`. The invariant `TimerInv` is that the end
  timer whose handle is held runs only while the last status heard is offline, and
  that there is another only when a departure was announced again. The second needs
  what is on its way to the follower: as long as nothing was announced again, between
  two offlines there is an online, and one before the first when the timer is set
  (`Alternate`, of a connection that `Feed` appends to and of the snapshot).
- `BlindReadersShowNoCiphertext`: `NeverCiphertext`, of `Readers`, whose fan-out
  keeps up. Two invariants carry it.
  `RoomInv`: the records of a room are of its current session, and when there
  is one its size is of that session too. `BlindInv`: what a reader without a
  key has kept or shown is plain, and every sealed frame that it has yet to
  handle comes after a size that says so, unless the reader has been warned
  already or takes nothing any more. The second is stated over positions of the
  inbox, so that a snapshot, an event more and a frame less each get a lemma
  (`OpensAnnounced`, `RoomBlind`, `HandledAnnounced`).
- `TypeCorrect`: `TypeOK`, with `RoomInv` and with `Numbered`: the records of the
  history are numbered, without a gap, up to the newest one made.
- `LogsAreWhole`: `LogIsWhole`. The invariant `LogInv` joins what a follower
  printed, what is left in its buffer and what the frames bring that it has not
  handled (`Log`): that is numbered from its snapshot on, and ends with the newest
  record. A frame of output holds records of one session, and only output
  holds any (`Regular`), which is why the follower takes all of a frame or none.
- `PagesShowTheRoom`: `PageShowsRoom`. The invariant `PageInv` says that there is a
  sequence of records, those the page was sent since it was cleared, with two
  properties. Decrypting what waits in the chain of the current epoch, after
  what is on the screen or waits for the terminal, gives the ones of the link's
  key, and the notice is theirs (`Decoded`); and handling the frames that are
  still under way makes it the room's history, with the room's status (`Leads`).
  Chains of earlier epochs do not occur in it: that they have no effect is what
  is proved of `Decrypted`.

- `LagTypeCorrect` (`LagTypeOK`), `PagesMissNothing` (`PageMissesNothing`) and
  `LogsMissNothing` (`LogMissesNothing`), of `LaggingReaders`. Both of the latter are one
  statement about a sequence of frames: for each record wanted one brings it,
  and after the last that does come none that takes it away or brings an older one; the last
  status in it is the room's; and every record in it was sent (`Catches`). The
  invariant `LagInv` says so of a snapshot taken now followed by what is queued, which
  is what a reader to come will get (`RoomCatches`), and of what the reader has handled,
  written as one frame (`Held`), followed by what is on its way and queued
  (`ReaderCatches`). A join replaces the second by the first; a reset that overtakes
  only takes away what nobody wants any more; a frame handled moves from the
  queue to what is held. The lemmas are about frames replaced, put in and joined
  within such a sequence (`Replaces`, `ReplacedFirst`). Both together are
  `ReadersMissNothing` (`NobodyMissesAnything`), which the run checks.
- `StaleCiphertext`: `CiphertextIsStale`. `NeverCiphertext` is false here, and the invariant
  `StaleInv` is what is left of it: a reader without a key has shown what is plain or
  older than the current session, and anything else under way comes after a size that warns of it
  (`Sheltered`).

`ReplayProof`, for any bounds, lengths, buffer, cadence and number of resizes:

- `KeepsTheLongestSuffix`: `LongestSuffixThatFits`. Each turn of push's loop leaves
  one message less of what was too much, until it fits (`Turned`, `TurnLeaves`), so
  that what it ends with is a suffix of which nothing longer fits (`TrimmedIs`,
  `CutIs`). It needs that the byte count is that of the messages, since the loop
  looks at the count, and that what is pushed onto fits already (`Bounded`).
- `LateJoinersSeeTheScreen`: `LateJoinerSeesTheScreen`, from `WindowHoldsKeyframe`.
  The invariant `LateInv` says that there is a sequence of all the messages ever
  sent, and where in it everything is (`Follows`). In the sequence frames have
  consecutive numbers and a redraw the number and the screen of its frame
  (`Stream`), and a message that draws the whole screen comes not more than a cadence
  before every message of the alternate screen (`OnCadence`, `CadenceKept`). The
  client's buffer is its end, within the cap (`Buffered`); up to another point it
  has reached the server (`Received`); and any message whose distance to that
  point, with what reconnects may repeat, is within the bounds of the history,
  is in the history, with all that followed it after it (`Kept`). The last is what
  makes the proof long: after a reconnect the history fills with messages it
  has already, and an anchor stays only because what is repeated until it
  would be passed was counted (`Window`, `Cursor`). There is a lemma per step
  (`OutputFollows`, `DeliverFollows`, `AckedFollows`, `BreakFollows`, `RestartFollows`);
  `CadenceFits` is the arithmetic, and `LateEnough` draws the conclusion.

`PageAssetsProof`, for any replicas, builds and deploys: `PageAssetsTyped` and
`DeploysHeal` (`ReloadMends`). The invariant says that what is kept for ever under
a hash has that hash (`KeptIsWhatItsHashSays`), which is what `CacheControl` allows,
that a calm load has a deployed page, and that during it every replica serves the
target. `NegotiationIsRight`
(`ServesWhatWasAsked`), for a header of any length and any qualities: of the
entries that match a representation one is better than all others, the earliest
of the most specific class (`SomeBest`, `BestDecides`), and it is the one that says how much
the representation is asked for (`Decided`).

The assumptions are those the modules declare (among them `InputsTyped`: reads of
stdin return bytes), and the hypotheses named above:
`CliOrder` and `GraceSuffices`, `~Overlapping`, and `DeathSignal` of
`LinkNeverOutlives`. `WindowHoldsKeyframe` counts all reconnects of a run, as the
model does, where only those within one cadence matter; so the theorem covers
the reconnects the headroom of the code's constants allows for, and not any number of them.

What is only model-checked:

- the liveness properties, under fairness: `AbandonedRoomFades`,
  `EventuallyReleased`, `StoredIsDelivered`, `SessionEnds`,
  `PageRecovers` and `AgentEnds`;
- what the three runs that find a disagreement look at, which the code violates.

## Plan

1. `Ingest`, `Transport`, `AtLeastOnce`, `ViewerDelivery`, `MessageHistory`,
   with the proofs above. Done.
2. `Signals`, `StreamMode`, `ScriptMode`, `Session`, with the proofs above;
   `ViewerPage`. Done.
3. `Dial` within `Transport`; `Replay` over `MessageHistory`; `Feed`,
   `AgentReader` and `Readers`; `Negotiation` and `PageAssets`; their proofs, and
   those about the room and its segments in `IngestProof`. Done.
4. Proofs: `SumsProof`, the bookkeeping of `Transport` and its refinement of
   `AtLeastOnce`, time in `Ingest`, the delivery of `ViewerDelivery`. Done.
5. Proofs: stream mode and the types of `Session`; the types, `PageShowsRoom` and
   `LogIsWhole` of `Readers`. Done.
6. Proofs: the trimming of `Replay` and its late joiner. Done. `DialReaches` and
   `ServesWhatWasAsked`: done.
7. `LaggingReaders`, its runs and its proofs. Done.
8. The parser of a record stream (`crypto.rs`, `room.js`, `agent.mjs`) against a
   definition, over streams cut anywhere; a room that is deleted or expires under its
   readers; sizes in the properties of `Transport`; liveness in `LaggingReaders`.

## What is not modelled

The terminal emulation, cryptography, TLS, HTTP and JSON of the libraries; the
formatting, bundling and rendering of pages and logs; downloads, themes and
packaging, which keep no state. Sealed records are opened or not as wholes.
The analytics queue is a bounded channel into which ingest tasks put without
waiting and which counts what it drops: nothing about it goes beyond the
channel's own contract, and what is put there is counted in `Ingest`. Rooms other
than the one modelled: they share shards and tasks, which delays but does not
change what happens here. In `ViewerDelivery` the room is not removed; in
`Ingest` viewers are represented by the last status published. Of the client:
resizes of its own terminal, raw mode, the forwarding of keystrokes, links and
QR codes, Windows. Of the page: favicon, themes, fitting,
fullscreen and the wake lock, none of which acts back on what is shown. Of the
agent's script: the stripping of escape sequences. Of the keyframer: the bytes
of a redraw, and the carry of a character cut between two reads.
