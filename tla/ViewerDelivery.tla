--------------------------- MODULE ViewerDelivery ---------------------------
(***************************************************************************)
(* One room's delivery to its viewers (server/viewers.rs): the registry of *)
(* bounded queues, the fan-out task with its coalescing, the controls that *)
(* bypass it, the user-count task, and a viewer's connection from its      *)
(* registration through the catch-up and the live relay to its cleanup;    *)
(* and the ingest loops that store and publish (server/mod.rs).            *)
(*                                                                         *)
(* The room stays: its removal is the subject of Ingest.  A shard's other  *)
(* rooms only delay this one.  A step is one critical section on the       *)
(* registry or the room, one send on a channel, or one frame written to a  *)
(* viewer's socket.  An item is the number of its place in the order in    *)
(* which the room stored it.                                               *)
(***************************************************************************)
EXTENDS Naturals, Sequences, FiniteSets, SequencesExt

CONSTANTS
    Viewers,        \* viewer connections; each is used once
    Writers,        \* ingest connections; each is used once
    Overlapping,    \* TRUE: one may attach before the one before it is through
    Items,          \* bound: sizes and chunks stored
    Capacity,       \* VIEWER_QUEUE
    MaxBatch,       \* FANOUT_MAX_BATCH, in chunks
    Stalling        \* viewers whose peer may stop reading

ASSUME BoundsTyped == Items \in Nat /\ Capacity \in Nat \ {0} /\ MaxBatch \in Nat \ {0}
ASSUME SetsTyped == IsFiniteSet(Viewers) /\ Overlapping \in BOOLEAN /\ Stalling \subseteq Viewers

VARIABLES
    (* the room *)
    log,            \* the kind of every item stored
    hist,           \* the chunks in the history
    roomSize,       \* the item of the current size, 0 for none
    attached,       \* writers counted in the room
    writer,         \* where each ingest loop is
    item,           \* the item it stored and has yet to publish, or 0
    (* the registry and its tasks *)
    registered,     \* viewers with a sender in the registry
    entry,          \* the registry has an entry for the room
    queue,          \* each viewer's queue
    fanout,         \* the items in the fan-out channel
    outbox,         \* what the fan-out task has yet to emit of its batch
    recount,        \* the room is queued for the user-count task
    count,          \* the count that task is about to send, or NoCount
    (* the viewer connections *)
    pc,
    snap,           \* the snapshot each took
    carry,          \* drained from the queue by relay and not yet written
    page,           \* what reached the page
    stalled         \* viewers whose peer has stopped reading

roomVars == <<log, hist, roomSize, attached, writer, item>>
taskVars == <<fanout, outbox, recount, count>>
registryVars == <<registered, entry, queue>>
connVars == <<pc, snap, carry, page, stalled>>
vars == <<roomVars, taskVars, registryVars, connVars>>

NoCount == 0    \* a count is sent only to the registered, so it is positive

(* ViewerMsg: chunks merged into one payload, or a control.                *)
Bytes(ns) == [kind |-> "bytes", ns |-> ns]
Control(kind) == [kind |-> kind, ns |-> <<>>]
SizeControl(n) == [kind |-> "size", ns |-> <<n>>]
CountControl(n) == [kind |-> "count", ns |-> <<n>>]

-----------------------------------------------------------------------------
(* The registry.                                                           *)

(* Fault: a full queue skips the message and keeps the viewer.             *)
SendSkips(msg) ==
    /\ queue' = [v \in Viewers |-> IF v \in registered /\ Len(queue[v]) < Capacity
                                     THEN Append(queue[v], msg) ELSE queue[v]]
    /\ UNCHANGED <<registered, entry>>

(* Fault: the queue has no bound.                                          *)
SendUnbounded(msg) ==
    /\ queue' = [v \in Viewers |-> IF v \in registered THEN Append(queue[v], msg) ELSE queue[v]]
    /\ UNCHANGED <<registered, entry>>

(* Viewers::send: try_send to each; one whose queue is full is dropped     *)
(* from the room, while the entry stays.                                   *)
Send(msg) ==
    /\ registered' = {v \in registered : Len(queue[v]) < Capacity}
    /\ queue' = [v \in Viewers |-> IF v \in registered' THEN Append(queue[v], msg)
                                   ELSE queue[v]]
    /\ UNCHANGED entry

(* Fault: sizes are sent before the chunks of their batch.                 *)
CoalescedSizesFirst(items) ==
    LET sizes  == SelectSeq(items, LAMBDA n : log[n] = "size")
        chunks == SelectSeq(items, LAMBDA n : log[n] = "chunk")
    IN  [i \in DOMAIN sizes |-> SizeControl(sizes[i])]
          \o (IF chunks = <<>> THEN <<>> ELSE <<Bytes(chunks)>>)

(* What fanout_loop emits for a batch: consecutive chunks are merged up to *)
(* the maximum, a size flushes what came before it.  Merged is one turn of *)
(* its loop.                                                               *)
Merged(out, n) ==
    IF log[n] = "size" THEN Append(out, SizeControl(n))
    ELSE IF out # <<>> /\ Last(out).kind = "bytes" /\ Len(Last(out).ns) < MaxBatch
      THEN Append(Front(out), Bytes(Append(Last(out).ns, n)))
    ELSE Append(out, Bytes(<<n>>))

Coalesced(items) ==
    LET batch[i \in 0 .. Len(items)] ==
          IF i = 0 THEN <<>> ELSE Merged(batch[i - 1], items[i])
    IN  batch[Len(items)]

-----------------------------------------------------------------------------
Blank == [shown |-> {}, size |-> 0, online |-> FALSE, count |-> 0, last |-> 0]
NoSnapshot == [hist |-> {}, size |-> 0, online |-> FALSE]

Init ==
    /\ log = <<>> /\ hist = {} /\ roomSize = 0 /\ attached = {}
    /\ writer = [w \in Writers |-> "away"] /\ item = [w \in Writers |-> 0]
    /\ registered = {} /\ entry = FALSE /\ queue = [v \in Viewers |-> <<>>]
    /\ fanout = <<>> /\ outbox = <<>> /\ recount = FALSE /\ count = NoCount
    /\ pc = [v \in Viewers |-> "new"] /\ snap = [v \in Viewers |-> NoSnapshot]
    /\ carry = [v \in Viewers |-> <<>>] /\ page = [v \in Viewers |-> Blank]
    /\ stalled = {}

-----------------------------------------------------------------------------
(* The ingest loops.                                                       *)

At(w, here, next) == writer[w] \in here /\ writer' = [writer EXCEPT ![w] = next]

Attach(w) ==
    /\ At(w, {"away"}, "announce")
    /\ Overlapping \/ \A x \in Writers : writer[x] \in {"away", "gone"}
    /\ attached' = attached \cup {w}
    /\ UNCHANGED <<log, hist, roomSize, item, taskVars, registryVars, connVars>>

(* publish_control of broadcasting: true.                                  *)
Announce(w) ==
    /\ At(w, {"announce"}, "start")
    /\ Send(Control("online"))
    /\ UNCHANGED <<log, hist, roomSize, attached, item, taskVars, connVars>>

(* ingest, first half: append.                                             *)
Store(w, kind) ==
    /\ Len(log) < Items
    /\ At(w, {"start", "loop"}, "publish")
    /\ log' = Append(log, kind)
    /\ item' = [item EXCEPT ![w] = Len(log')]
    /\ hist' = IF kind = "chunk" THEN hist \cup {Len(log')} ELSE hist
    /\ roomSize' = IF kind = "size" THEN Len(log') ELSE roomSize
    /\ UNCHANGED <<attached, taskVars, registryVars, connVars>>

(* ingest, second half: publish_ingest.                                    *)
Publish(w) ==
    /\ At(w, {"publish"}, "loop")
    /\ fanout' = Append(fanout, item[w])
    /\ item' = [item EXCEPT ![w] = 0]
    /\ UNCHANGED <<log, hist, roomSize, attached, outbox, recount, count,
                   registryVars, connVars>>

(* Rooms::reset, the first frame of a session: skipped unless this         *)
(* broadcaster is alone.                                                   *)
Reset(w) ==
    /\ At(w, {"start"}, IF Cardinality(attached) > 1 THEN "skipped" ELSE "cleared")
    /\ hist' = IF Cardinality(attached) > 1 THEN hist ELSE {}
    /\ UNCHANGED <<log, roomSize, attached, item, taskVars, registryVars, connVars>>

(* publish_control of reset, cleared or not.                               *)
PublishReset(w) ==
    /\ At(w, {"cleared", "skipped"}, "loop")
    /\ Send(Control("reset"))
    /\ UNCHANGED <<log, hist, roomSize, attached, item, taskVars, connVars>>

Detach(w) ==
    /\ At(w, {"start", "loop"}, IF attached = {w} THEN "off" ELSE "gone")
    /\ attached' = attached \ {w}
    /\ UNCHANGED <<log, hist, roomSize, item, taskVars, registryVars, connVars>>

(* publish_control of broadcasting: false.                                 *)
AnnounceOff(w) ==
    /\ At(w, {"off"}, "gone")
    /\ Send(Control("offline"))
    /\ UNCHANGED <<log, hist, roomSize, attached, item, taskVars, connVars>>

-----------------------------------------------------------------------------
(* The fan-out task and the user-count task.                               *)

(* The task wakes up and drains the channel.                               *)
FanoutTake ==
    /\ outbox = <<>> /\ fanout # <<>>
    /\ outbox' = Coalesced(fanout)
    /\ fanout' = <<>>
    /\ UNCHANGED <<roomVars, recount, count, registryVars, connVars>>

FanoutEmit ==
    /\ outbox # <<>>
    /\ Send(Head(outbox))
    /\ outbox' = Tail(outbox)
    /\ UNCHANGED <<roomVars, fanout, recount, count, connVars>>

(* The room's name is drained from the channel and its viewers counted.    *)
(* The count of an empty room reaches nobody.                              *)
UserCountRead ==
    /\ count = NoCount /\ recount
    /\ recount' = FALSE
    /\ count' = Cardinality(registered)
    /\ UNCHANGED <<roomVars, fanout, outbox, registryVars, connVars>>

(* Fault: a request that came in since the count was read counts as served. *)
UserCountServesAll ==
    /\ count # NoCount
    /\ Send(CountControl(count))
    /\ count' = NoCount
    /\ recount' = FALSE
    /\ UNCHANGED <<roomVars, fanout, outbox, connVars>>

UserCountSend ==
    /\ count # NoCount
    /\ Send(CountControl(count))
    /\ count' = NoCount
    /\ UNCHANGED <<roomVars, fanout, outbox, recount, connVars>>

-----------------------------------------------------------------------------
(* A viewer's connection.                                                  *)

Goto(v, to) == pc' = [pc EXCEPT ![v] = to]

(* Fault: the snapshot is taken before the registration.                   *)
JoinSnapshotFirst(v) ==
    \/ /\ pc[v] = "new"
       /\ snap' = [snap EXCEPT ![v] = [hist |-> hist, size |-> roomSize,
                                       online |-> attached # {}]]
       /\ Goto(v, "joined")
       /\ UNCHANGED registryVars
    \/ /\ pc[v] = "joined"
       /\ registered' = registered \cup {v} /\ entry' = TRUE
       /\ Goto(v, "size")
       /\ UNCHANGED <<queue, snap>>

(* join: register, then snapshot the room.                                 *)
JoinThenSnapshot(v) ==
    \/ /\ pc[v] = "new"
       /\ registered' = registered \cup {v} /\ entry' = TRUE
       /\ Goto(v, "joined")
       /\ UNCHANGED <<queue, snap>>
    \/ /\ pc[v] = "joined"
       /\ snap' = [snap EXCEPT ![v] = [hist |-> hist, size |-> roomSize,
                                       online |-> attached # {}]]
       /\ Goto(v, "size")
       /\ UNCHANGED registryVars

Join(v) ==
    /\ JoinThenSnapshot(v)
    /\ UNCHANGED <<roomVars, taskVars, carry, page, stalled>>

CatchingUp == {"size", "history", "online", "count"}

(* One frame of the catch-up is written, in its order; a size or a history *)
(* the room does not have is skipped.                                      *)
CatchUp(v) ==
    /\ pc[v] \in CatchingUp /\ v \notin stalled
    /\ CASE pc[v] = "size" ->
              /\ page' = [page EXCEPT ![v].size = snap[v].size]
              /\ Goto(v, "history") /\ UNCHANGED <<recount, snap>>
         [] pc[v] = "history" ->
              /\ page' = [page EXCEPT ![v].shown = snap[v].hist]
              /\ Goto(v, "online") /\ UNCHANGED <<recount, snap>>
         [] pc[v] = "online" ->
              /\ page' = [page EXCEPT ![v].online = snap[v].online]
              /\ Goto(v, "count") /\ UNCHANGED recount
              /\ snap' = [snap EXCEPT ![v] = NoSnapshot]
         [] pc[v] = "count" ->
              /\ page' = [page EXCEPT ![v].count = Cardinality(registered)]
              /\ Goto(v, "loop") /\ recount' = TRUE /\ UNCHANGED snap
    /\ UNCHANGED <<roomVars, fanout, outbox, count, registryVars, carry, stalled>>

(* How many payloads q begins with.                                        *)
Payloads(q) ==
    CHOOSE n \in 0 .. Len(q) : /\ \A i \in 1 .. n : q[i].kind = "bytes"
                               /\ n < Len(q) => q[n + 1].kind # "bytes"

Drained(q) == IF Payloads(q) < Len(q) THEN Payloads(q) + 1 ELSE Len(q)

(* relay drains what it can before its first write: up to the first        *)
(* control, or all.                                                        *)
RelayTake(v) ==
    /\ pc[v] = "loop" /\ carry[v] = <<>> /\ queue[v] # <<>>
    /\ carry' = [carry EXCEPT ![v] = SubSeq(queue[v], 1, Drained(queue[v]))]
    /\ queue' = [queue EXCEPT ![v] = SubSeq(@, Drained(@) + 1, Len(@))]
    /\ UNCHANGED <<roomVars, taskVars, registered, entry, pc, snap, page, stalled>>

(* The items a sequence of messages carries, in order.                     *)
ItemsOf(msgs) ==
    LET items[n \in 0 .. Len(msgs)] ==
          IF n = 0 THEN <<>>
          ELSE IF msgs[n].kind \in {"bytes", "size"} THEN items[n - 1] \o msgs[n].ns
          ELSE items[n - 1]
    IN  items[Len(msgs)]

(* The page after a frame.                                                 *)
Rendered(p, msg) ==
    CASE msg.kind = "bytes"   -> [[p EXCEPT !.shown = @ \cup ToSet(msg.ns)]
                                    EXCEPT !.last = Last(msg.ns)]
      [] msg.kind = "size"    -> [[p EXCEPT !.size = msg.ns[1]] EXCEPT !.last = msg.ns[1]]
      [] msg.kind = "reset"   -> [p EXCEPT !.shown = {}]
      [] msg.kind = "online"  -> [p EXCEPT !.online = TRUE]
      [] msg.kind = "offline" -> [p EXCEPT !.online = FALSE]
      [] msg.kind = "count"   -> [p EXCEPT !.count = msg.ns[1]]

(* relay's next frame: the payloads up to the next control in one, or a    *)
(* control.                                                                *)
RelayWrite(v) ==
    LET n     == Payloads(carry[v])
        frame == IF n = 0 THEN Head(carry[v]) ELSE Bytes(ItemsOf(SubSeq(carry[v], 1, n)))
        rest  == IF n = 0 THEN 2 ELSE n + 1
    IN  /\ pc[v] = "loop" /\ carry[v] # <<>> /\ v \notin stalled
        /\ page' = [page EXCEPT ![v] = Rendered(@, frame)]
        /\ carry' = [carry EXCEPT ![v] = SubSeq(@, rest, Len(@))]
        /\ UNCHANGED <<roomVars, taskVars, registryVars, pc, snap, stalled>>

(* Fault: a write to a peer that does not read waits for ever.             *)
WriteWaits(v) == FALSE /\ UNCHANGED vars

(* A write fails or exceeds VIEWER_IDLE_TIMEOUT.                           *)
WriteFails(v) ==
    /\ pc[v] \in CatchingUp \/ (pc[v] = "loop" /\ carry[v] # <<>>)
    /\ Goto(v, "leave")
    /\ UNCHANGED <<roomVars, taskVars, registryVars, snap, carry, page, stalled>>

(* recv returns None: the registry dropped the sender, the queue is empty. *)
ChannelCloses(v) ==
    /\ pc[v] = "loop" /\ carry[v] = <<>> /\ queue[v] = <<>> /\ v \notin registered
    /\ Goto(v, "leave")
    /\ UNCHANGED <<roomVars, taskVars, registryVars, snap, carry, page, stalled>>

(* The select loop ends: the reader saw the peer go, no pong came within   *)
(* VIEWER_IDLE_TIMEOUT, or a ping could not be written.                    *)
PeerEnds(v) ==
    /\ pc[v] = "loop" /\ carry[v] = <<>>
    /\ Goto(v, "leave")
    /\ UNCHANGED <<roomVars, taskVars, registryVars, snap, carry, page, stalled>>

PeerStalls(v) ==
    /\ pc[v] \in CatchingUp \cup {"loop"} /\ v \in Stalling \ stalled
    /\ stalled' = stalled \cup {v}
    /\ UNCHANGED <<roomVars, taskVars, registryVars, pc, snap, carry, page>>

(* The connection's own state goes with it.                                *)
Gone(v) ==
    /\ queue' = [queue EXCEPT ![v] = <<>>]
    /\ carry' = [carry EXCEPT ![v] = <<>>]
    /\ snap' = [snap EXCEPT ![v] = NoSnapshot]
    /\ page' = [page EXCEPT ![v] = Blank]
    /\ stalled' = stalled \ {v}

(* Fault: only the viewer that was still in the entry looks whether it is  *)
(* the last.                                                               *)
LeaveIfPresent(v) ==
    /\ pc[v] = "leave"
    /\ registered' = registered \ {v}
    /\ Gone(v)
    /\ Goto(v, IF v \in registered /\ registered = {v} THEN "sweep" ELSE "recount")
    /\ UNCHANGED <<roomVars, taskVars, entry>>

(* leave: the viewer goes from the room's entry, and its receiver with it. *)
Leave(v) ==
    /\ pc[v] = "leave"
    /\ registered' = registered \ {v}
    /\ Gone(v)
    /\ Goto(v, IF entry /\ registered' = {} THEN "sweep" ELSE "recount")
    /\ UNCHANGED <<roomVars, taskVars, entry>>

(* remove_if: the entry goes if it is still empty.                         *)
Sweep(v) ==
    /\ pc[v] = "sweep"
    /\ entry' = (entry /\ registered # {})
    /\ Goto(v, "recount")
    /\ UNCHANGED <<roomVars, taskVars, registered, queue, snap, carry, page, stalled>>

(* The room's name is queued for the user-count task.                      *)
Left(v) ==
    /\ pc[v] = "recount"
    /\ recount' = TRUE
    /\ Goto(v, "done")
    /\ UNCHANGED <<roomVars, fanout, outbox, count, registryVars, snap, carry, page, stalled>>

-----------------------------------------------------------------------------
WriterStep(w) == Announce(w) \/ Publish(w) \/ PublishReset(w) \/ AnnounceOff(w)

WriterInput(w) ==
    \/ Attach(w) \/ Store(w, "chunk") \/ Store(w, "size") \/ Reset(w) \/ Detach(w)

ViewerStep(v) ==
    \/ Join(v) \/ CatchUp(v) \/ RelayTake(v) \/ RelayWrite(v) \/ WriteFails(v)
    \/ ChannelCloses(v) \/ Leave(v) \/ Sweep(v) \/ Left(v)

Next ==
    \/ \E w \in Writers : WriterStep(w) \/ WriterInput(w)
    \/ FanoutTake \/ FanoutEmit \/ UserCountRead \/ UserCountSend
    \/ \E v \in Viewers : ViewerStep(v) \/ PeerEnds(v) \/ PeerStalls(v)

Spec == Init /\ [][Next]_vars

(* Every task of the server is scheduled; a viewer that started to join    *)
(* goes on.  Broadcasters and peers owe nothing.                           *)
FairSpec ==
    /\ Spec
    /\ \A w \in Writers : WF_vars(WriterStep(w))
    /\ WF_vars(FanoutTake \/ FanoutEmit)
    /\ WF_vars(UserCountRead \/ UserCountSend)
    /\ \A v \in Viewers : WF_vars(ViewerStep(v) /\ pc[v] # "new")

-----------------------------------------------------------------------------
(* Properties.                                                             *)

Msg == [kind : {"bytes", "size", "count", "reset", "online", "offline"}, ns : Seq(Nat)]
PCs == CatchingUp \cup {"new", "joined", "loop", "leave", "sweep", "recount", "done"}

(* Every variable has its type; no queue exceeds its capacity.             *)
TypeOK ==
    /\ log \in Seq({"chunk", "size"}) /\ hist \subseteq DOMAIN log
    /\ roomSize \in 0 .. Len(log) /\ attached \subseteq Writers
    /\ writer \in [Writers -> {"away", "announce", "start", "loop", "publish",
                             "cleared", "skipped", "off", "gone"}]
    /\ item \in [Writers -> 0 .. Len(log)]
    /\ registered \subseteq Viewers /\ entry \in BOOLEAN /\ recount \in BOOLEAN
    /\ queue \in [Viewers -> Seq(Msg)] /\ carry \in [Viewers -> Seq(Msg)]
    /\ \A v \in Viewers : Len(queue[v]) <= Capacity /\ Len(carry[v]) <= Capacity
    /\ fanout \in Seq(Nat) /\ outbox \in Seq(Msg) /\ count \in Nat
    /\ pc \in [Viewers -> PCs] /\ stalled \subseteq Stalling
    /\ snap \in [Viewers -> [hist : SUBSET Nat, size : Nat, online : BOOLEAN]]
    /\ page \in [Viewers -> [shown : SUBSET Nat, size : Nat, online : BOOLEAN,
                             count : Nat, last : Nat]]

(* What is on its way to v, and to everybody.                              *)
OwnMsgs(v) == carry[v] \o queue[v]
Upstream == ItemsOf(outbox) \o fanout
ToPublish == {item[w] : w \in Writers} \ {0}
Chunks(ns) == {n \in ns : log[n] = "chunk"}

(* Delivery to a registered viewer is FIFO and without a hole: what is on  *)
(* its way are the latest items, consecutive, following on from the last   *)
(* one its page got; merging, barriers, relay batches and overflows        *)
(* neither reorder nor skip.                                               *)
LiveIsFifo ==
    \A v \in registered :
      LET way == ItemsOf(OwnMsgs(v)) \o Upstream
      IN  /\ \A i \in DOMAIN way : way[i] = way[1] + i - 1
          /\ \A n \in ToPublish : way # <<>> => n = Last(way) + 1
          /\ (way # <<>> /\ page[v].last # 0) => way[1] = page[v].last + 1

(* What v will show once everything under way has arrived.                 *)
Outcome(v) ==
    LET msgs   == OwnMsgs(v)
        resets == {i \in DOMAIN msgs : msgs[i].kind = "reset"}
        after  == {i \in DOMAIN msgs : \A r \in resets : i > r}
        coming == (UNION {ToSet(ItemsOf(<<msgs[i]>>)) : i \in after})
                    \cup ToSet(Upstream) \cup ToPublish
        kept   == IF resets # {} THEN {}
                  ELSE page[v].shown \cup
                       (IF pc[v] \in {"size", "history"} THEN snap[v].hist ELSE {})
    IN  kept \cup Chunks(coming)

(* A registered viewer misses nothing: what the room would replay is on    *)
(* its page or on its way (join registers before it snapshots; a full      *)
(* queue disconnects instead of skipping).                                 *)
NothingMissed ==
    \A v \in registered : pc[v] \in CatchingUp \cup {"loop"} => hist \subseteq Outcome(v)

(* Nothing is on its way to v or about to be sent.                         *)
Settled(v) ==
    /\ v \in registered /\ pc[v] = "loop" /\ OwnMsgs(v) = <<>>
    /\ outbox = <<>> /\ fanout = <<>>
    /\ \A w \in Writers : writer[w] \in {"away", "start", "loop", "gone"}

(* When nothing is under way the page has the room's size, whatever order  *)
(* the snapshot's and the queue's sizes came in, and its broadcaster dot   *)
(* shows whether somebody is attached.                                     *)
PageSettles ==
    \A v \in Viewers : Settled(v) =>
      /\ page[v].size = roomSize
      /\ page[v].online = (attached # {})

(* Every viewer's count converges on the number of viewers, although joins *)
(* and leaves do not announce themselves one by one, overflows drop        *)
(* viewers, and the count read may be stale when it is sent.               *)
CountSettles ==
    (/\ ~recount /\ count = NoCount
     /\ \A v \in Viewers : pc[v] \in {"new", "done"}
                           \/ (pc[v] = "loop" /\ v \in registered /\ OwnMsgs(v) = <<>>))
      => \A v \in registered : page[v].count = Cardinality(registered)

(* The registry does not keep empty entries: when the last viewer is gone  *)
(* from one, by leaving or by an overflow, somebody has yet to sweep it.   *)
NoEntryLeaks ==
    (entry /\ registered = {}) =>
      \E v \in Viewers : pc[v] \notin {"new", "recount", "done"}

(* What was stored reaches every viewer registered at the time, or the     *)
(* viewer is disconnected, so that its page reconnects: also one dropped   *)
(* for its full queue whose peer does not read any more.                   *)
StoredIsDelivered ==
    \A v \in Viewers, n \in 1 .. Items :
      (v \in registered /\ n \in ToPublish \cup ToSet(Upstream))
        ~> (pc[v] = "done" \/ page[v].last >= n)

(* "Skipping the clear degrades to appending" (Rooms::reset): a reset that *)
(* left the history alone takes none of it from the pages either.          *)
SkippedResetAppends ==
    [][\A v \in registered \cap registered', w \in Writers :
         (/\ writer[w] = "skipped" /\ writer'[w] = "loop" /\ pc[v] = "loop"
          /\ hist \subseteq Outcome(v)) => hist \subseteq Outcome(v)']_vars
=============================================================================
