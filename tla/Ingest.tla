------------------------------- MODULE Ingest -------------------------------
(***************************************************************************)
(* One room of the server: its entry in the Rooms registry                 *)
(* (server/rooms.rs), the ingest connections that feed it                  *)
(* (ws_ingest_handler and ws_ingest_loop, server/mod.rs), the HTTP DELETE  *)
(* handler and the cleanup task.  Every registry operation locks one entry *)
(* of the map, so rooms do not influence each other and one is enough.     *)
(*                                                                         *)
(* A step is one critical section on the room's lock or one publication;   *)
(* what a task does between two of them is interleaved with every other    *)
(* task.  Time advances in ticks of one INGEST_IDLE_TIMEOUT divided by     *)
(* IdleTimeout.                                                            *)
(***************************************************************************)
EXTENDS Integers, FiniteSets

CONSTANTS
    Conns,          \* ingest connections; each is used once
    Secrets,        \* room passwords
    SecretOf,       \* the password each connection presents
    Deleters,       \* passwords the HTTP DELETE requests present
    Frames,         \* the kinds of frames the clients send
    CliOrder,       \* TRUE: frames come in the order the CLI sends them
    Mortal,         \* connections whose server task may die without cleanup
    Vanishing,      \* connections whose peer may vanish without closing
    IdleTimeout,    \* INGEST_IDLE_TIMEOUT, in ticks
    UpgradeLimit,   \* longest time from handshake to upgraded socket
    Grace,          \* BROADCASTER_GRACE, in ticks
    Ttl,            \* cleanup_config.inactive_ttl, in ticks
    NoRoom          \* no entry in the map

FrameKinds == {"data", "size", "alive", "reset", "delete", "end"}

(* A room's age beyond this bound is never told apart from the bound.      *)
Stale == (IF Ttl > Grace THEN Ttl ELSE Grace) + 1

Room == [password : Secrets, hist : BOOLEAN, size : BOOLEAN, live : BOOLEAN,
         broadcasters : Nat, age : 0 .. Stale]

ASSUME ConnsFinite == IsFiniteSet(Conns)
ASSUME SecretsTyped == SecretOf \in [Conns -> Secrets] /\ Deleters \subseteq Secrets
ASSUME FramesTyped == Frames \subseteq FrameKinds /\ CliOrder \in BOOLEAN
ASSUME FailuresTyped == Mortal \subseteq Conns /\ Vanishing \subseteq Conns
ASSUME TimesTyped == /\ IdleTimeout \in Nat /\ UpgradeLimit \in Nat
                     /\ Grace \in Nat /\ Ttl \in Nat
ASSUME NoRoomFresh == NoRoom \notin Room

VARIABLES
    room,       \* the room's entry, or NoRoom
    pc,         \* where each connection's server task is
    silent,     \* ticks since the task began its current wait
    stage,      \* what the connection has delivered so far, under CliOrder
    gone,       \* connections whose peer vanished without closing
    announced,  \* the last broadcasting state published to the viewers
    opened,     \* broadcast_started reports minus broadcast_ended reports
    lost,       \* live segments that ended in an eviction
    vanished    \* the entry was once removed under a connection using it

vars == <<room, pc, silent, stage, gone, announced, opened, lost, vanished>>

(* The program counter of a task, in the order of ws_ingest_handler and    *)
(* ws_ingest_loop.  "announceFirst" is "announce" of the attach that took  *)
(* the count from 0 to 1; "emitEnd" is "emitOff" of a detach that also     *)
(* ended the live segment; "dead" is a task that never detaches.           *)
Attached == {"announce", "announceFirst", "loop", "ack", "detach", "dead"}
PCs == Attached \cup {"idle", "upgrading", "emitOff", "emitEnd", "rejected", "done"}

(* What a task in one of these does next takes no time.                    *)
Running == {"announce", "announceFirst", "detach", "emitOff", "emitEnd"}

-----------------------------------------------------------------------------
(* The operations of Rooms.                                                *)

NewRoom(s) == [password |-> s, hist |-> FALSE, size |-> FALSE, live |-> FALSE,
               broadcasters |-> 0, age |-> 0]

(* last_activity is now.                                                   *)
Refreshed(entry) == [entry EXCEPT !.age = 0]

(* The entry with n broadcasters, live or not.                             *)
Counting(entry, n, live) ==
    [[entry EXCEPT !.broadcasters = n] EXCEPT !.live = live]

(* The entry with its size and its history filled when there is one.       *)
Filled(entry, size, message) ==
    [[entry EXCEPT !.size = @ \/ size] EXCEPT !.hist = @ \/ message]

Authorized(s) == room = NoRoom \/ room.password = s

(* Fault: a frame that carries nothing leaves last_activity alone.         *)
AppendedWithoutRefresh(s, size, message) ==
    LET entry == IF room = NoRoom THEN NewRoom(s) ELSE room
    IN  IF size \/ message THEN Refreshed(Filled(entry, size, message)) ELSE entry

(* The room after append, which creates the entry when there is none: it   *)
(* never finds the room missing.                                           *)
Appended(s, size, message) ==
    LET entry == IF room = NoRoom THEN NewRoom(s) ELSE room
    IN  Refreshed(Filled(entry, size, message))

Reset ==
    IF room = NoRoom \/ room.broadcasters > 1
      THEN room
      ELSE Refreshed([room EXCEPT !.hist = FALSE])

(* Fault: the password is not compared before counting.                    *)
CountAnyConnect(s) == IF room = NoRoom THEN 0 ELSE room.broadcasters + 1

(* The count broadcaster_connected returns, 0 when it touched nothing.     *)
CountAfterConnect(s) ==
    IF room = NoRoom \/ room.password # s THEN 0 ELSE room.broadcasters + 1

Connect(s) ==
    IF CountAfterConnect(s) = 0
      THEN room
      ELSE Counting(room, room.broadcasters + 1, room.live \/ room.broadcasters = 0)

(* Fault: the last connection is not subtracted.                           *)
KeepLast(n) == IF n <= 1 THEN n ELSE n - 1

(* Fault: the subtraction wraps.                                           *)
Wrapping1(n) == n - 1

(* saturating_sub(1): a count that is already 0 stays 0.                   *)
Less1(n) == IF n = 0 THEN 0 ELSE n - 1

(* Fault: a stale task's detach decrements the new owner's count.          *)
DisconnectAnyone(s) ==
    IF room = NoRoom
      THEN room
      ELSE Counting(room, Less1(room.broadcasters), room.live /\ room.broadcasters > 1)

(* The room after broadcaster_disconnected, the count it returns, and      *)
(* whether it ended a live segment.                                        *)
Disconnect(s) ==
    IF room = NoRoom \/ room.password # s
      THEN room
      ELSE Counting(room, Less1(room.broadcasters), room.live /\ room.broadcasters > 1)

(* Fault: a vanished room counts as one that others still feed.            *)
RemainingOrGone(s) ==
    IF room = NoRoom THEN 1
    ELSE IF room.password # s THEN room.broadcasters ELSE Less1(room.broadcasters)

Remaining(s) ==
    IF room = NoRoom THEN 0
    ELSE IF room.password # s THEN room.broadcasters ELSE Less1(room.broadcasters)

(* Fault: a mismatched detach consumes the new owner's segment.            *)
EndsAnySegment(s) == room # NoRoom /\ room.broadcasters <= 1 /\ room.live

EndsSegment(s) ==
    room # NoRoom /\ room.password = s /\ room.broadcasters <= 1 /\ room.live

Using == Attached \cup {"upgrading"}
InUse == \E c \in Conns : pc[c] \in Using

(* delete by s: the entry goes, and a live segment with it, reported by    *)
(* the caller at once.                                                     *)
Delete(s) ==
    IF room # NoRoom /\ room.password = s
      THEN /\ room' = NoRoom
           /\ vanished' = (vanished \/ InUse)
           /\ opened' = IF room.live THEN opened - 1 ELSE opened
      ELSE UNCHANGED <<room, vanished, opened>>

(* Fault: the configured TTL alone decides.                                *)
DeadlineTtl == Ttl

(* Fault: a counted broadcaster exempts the room.                          *)
DeadlineExempt == IF room.broadcasters > 0 THEN Stale ELSE Ttl

(* evict_stale's deadline: the grace is a floor under the TTL.             *)
Deadline ==
    IF room.broadcasters > 0 /\ Grace > Ttl THEN Grace ELSE Ttl

(* snapshot's broadcasting flag, as a joining viewer receives it.          *)
SnapshotOnline ==
    room # NoRoom /\ room.broadcasters > 0 /\ room.age <= Grace

-----------------------------------------------------------------------------
(* The tasks.                                                              *)

Init ==
    /\ room = NoRoom
    /\ pc = [c \in Conns |-> "idle"]
    /\ silent = [c \in Conns |-> 0]
    /\ stage = [c \in Conns |-> "new"]
    /\ gone = {}
    /\ announced = FALSE
    /\ opened = 0
    /\ lost = 0
    /\ vanished = FALSE

Goto(c, to) == pc' = [pc EXCEPT ![c] = to]
(* Starts the next wait's timer; a task that no longer waits keeps it at 0. *)
Rearm(c) == silent' = [silent EXCEPT ![c] = 0]

(* ws_ingest_handler: claim the room or verify its password; on a mismatch *)
(* answer 401.                                                             *)
Handshake(c) ==
    /\ pc[c] = "idle"
    /\ IF Authorized(SecretOf[c])
         THEN /\ room' = Appended(SecretOf[c], FALSE, FALSE)
              /\ Goto(c, "upgrading")
         ELSE /\ Goto(c, "rejected")
              /\ UNCHANGED room
    /\ UNCHANGED <<silent, stage, gone, announced, opened, lost, vanished>>

(* The connection breaks before the upgrade completes: the loop never runs. *)
UpgradeFails(c) ==
    /\ pc[c] = "upgrading"
    /\ Goto(c, "done")
    /\ Rearm(c)
    /\ UNCHANGED <<room, stage, gone, announced, opened, lost, vanished>>

(* ws_ingest_loop starts: broadcaster_connected.                           *)
Attach(c) ==
    LET connections == CountAfterConnect(SecretOf[c])
    IN  /\ pc[c] = "upgrading"
        /\ room' = Connect(SecretOf[c])
        /\ Goto(c, CASE connections = 0 -> "loop"
                     [] connections = 1 -> "announceFirst"
                     [] OTHER -> "announce")
        /\ Rearm(c)
        /\ UNCHANGED <<stage, gone, announced, opened, lost, vanished>>

(* emit_broadcasting(true), and broadcast_started when this attach took    *)
(* the room live.  The room's lock is no longer held.                      *)
Announce(c) ==
    /\ pc[c] \in {"announce", "announceFirst"}
    /\ announced' = TRUE
    /\ opened' = IF pc[c] = "announceFirst" THEN opened + 1 ELSE opened
    /\ Goto(c, "loop")
    /\ UNCHANGED <<room, silent, stage, gone, lost, vanished>>

(* A frame of kind f reaches the loop of connection c.                     *)
Receives(c, f) ==
    /\ pc[c] = "loop" /\ c \notin gone /\ f \in Frames
    /\ CliOrder => /\ f = "reset" => stage[c] = "new"
                   /\ f = "data" => stage[c] = "sized"
    /\ stage' = [stage EXCEPT ![c] = IF ~CliOrder THEN @
                                     ELSE IF f = "size" THEN "sized"
                                     ELSE IF @ = "new" THEN "greeted" ELSE @]
    /\ UNCHANGED <<gone, announced, lost>>

(* append for a frame, then `to' when the password matched, else the loop  *)
(* ends.                                                                   *)
Store(c, size, message, to) ==
    /\ IF Authorized(SecretOf[c])
         THEN room' = Appended(SecretOf[c], size, message) /\ Goto(c, to)
         ELSE UNCHANGED room /\ Goto(c, "detach")
    /\ Rearm(c)
    /\ UNCHANGED <<opened, vanished>>

ReceiveData(c) == Receives(c, "data") /\ Store(c, FALSE, TRUE, "ack")

ReceiveSize(c) == Receives(c, "size") /\ Store(c, TRUE, FALSE, "ack")

(* A ping, a pong, an oversized or unparseable text frame, or an unknown   *)
(* control message: refreshes the room, acknowledged by nothing.           *)
ReceiveAlive(c) == Receives(c, "alive") /\ Store(c, FALSE, FALSE, "loop")

ReceiveReset(c) ==
    /\ Receives(c, "reset")
    /\ IF Authorized(SecretOf[c])
         THEN room' = Reset /\ Goto(c, "loop")
         ELSE UNCHANGED room /\ Goto(c, "detach")
    /\ Rearm(c)
    /\ UNCHANGED <<opened, vanished>>

ReceiveDelete(c) ==
    /\ Receives(c, "delete")
    /\ Delete(SecretOf[c])
    /\ Goto(c, "detach")
    /\ Rearm(c)

(* A close frame or a socket error.                                        *)
ReceiveEnd(c) ==
    /\ Receives(c, "end")
    /\ Goto(c, "detach")
    /\ Rearm(c)
    /\ UNCHANGED <<room, opened, vanished>>

(* recv_with_timeout gives up.                                             *)
ReceiveTimesOut(c) ==
    /\ pc[c] = "loop" /\ silent[c] = IdleTimeout
    /\ Goto(c, "detach")
    /\ Rearm(c)
    /\ UNCHANGED <<room, stage, gone, announced, opened, lost, vanished>>

AckSent(c) ==
    /\ pc[c] = "ack"
    /\ Goto(c, "loop")
    /\ Rearm(c)
    /\ UNCHANGED <<room, stage, gone, announced, opened, lost, vanished>>

(* The ack cannot be written, at once or within INGEST_IDLE_TIMEOUT.       *)
AckFails(c) ==
    /\ pc[c] = "ack"
    /\ Goto(c, "detach")
    /\ Rearm(c)
    /\ UNCHANGED <<room, stage, gone, announced, opened, lost, vanished>>

(* broadcaster_disconnected, after the loop.                               *)
Detach(c) ==
    /\ pc[c] = "detach"
    /\ room' = Disconnect(SecretOf[c])
    /\ Goto(c, IF EndsSegment(SecretOf[c]) THEN "emitEnd"
               ELSE IF Remaining(SecretOf[c]) > 0 THEN "done"
               ELSE "emitOff")
    /\ UNCHANGED <<silent, stage, gone, announced, opened, lost, vanished>>

(* emit_broadcasting(false), and broadcast_ended for the segment.          *)
AnnounceOff(c) ==
    /\ pc[c] \in {"emitOff", "emitEnd"}
    /\ announced' = FALSE
    /\ opened' = IF pc[c] = "emitEnd" THEN opened - 1 ELSE opened
    /\ Goto(c, "done")
    /\ UNCHANGED <<room, silent, stage, gone, lost, vanished>>

(* The task dies inside the loop: there is no Drop guard to detach it.     *)
TaskDies(c) ==
    /\ c \in Mortal /\ pc[c] \in {"loop", "ack"}
    /\ Goto(c, "dead")
    /\ Rearm(c)
    /\ UNCHANGED <<room, stage, gone, announced, opened, lost, vanished>>

(* The peer's machine or network disappears: no frame and no close follow. *)
PeerVanishes(c) ==
    /\ pc[c] \in {"loop", "ack"} /\ c \in Vanishing \ gone
    /\ gone' = gone \cup {c}
    /\ UNCHANGED <<room, pc, silent, stage, announced, opened, lost, vanished>>

(* delete_room_handler.                                                    *)
HttpDelete(s) ==
    /\ Delete(s)
    /\ UNCHANGED <<pc, silent, stage, gone, announced, lost>>

(* spawn_cleanup_task: evict_stale.  It tells nobody.                      *)
Evict ==
    /\ room # NoRoom /\ room.age > Deadline
    /\ room' = NoRoom
    /\ vanished' = (vanished \/ InUse)
    /\ lost' = IF room.live THEN lost + 1 ELSE lost
    /\ UNCHANGED <<pc, silent, stage, gone, announced, opened>>

(* Time passes while every task waits, and no timer is overdue.            *)
Tick ==
    /\ \A c \in Conns :
         /\ pc[c] \notin Running
         /\ pc[c] \in {"loop", "ack"} => silent[c] < IdleTimeout
         /\ pc[c] = "upgrading" => silent[c] < UpgradeLimit
    /\ silent' = [c \in Conns |-> IF pc[c] \in {"loop", "ack", "upgrading"}
                                    THEN silent[c] + 1 ELSE silent[c]]
    /\ room' = IF room = NoRoom \/ room.age = Stale
                 THEN room ELSE [room EXCEPT !.age = @ + 1]
    /\ UNCHANGED <<pc, stage, gone, announced, opened, lost, vanished>>

(* What the server does by itself, as opposed to its clients.              *)
ServerStep(c) ==
    \/ UpgradeFails(c) \/ Attach(c) \/ Announce(c)
    \/ ReceiveTimesOut(c) \/ AckSent(c) \/ AckFails(c)
    \/ Detach(c) \/ AnnounceOff(c)

ClientStep(c) ==
    \/ Handshake(c) \/ PeerVanishes(c)
    \/ ReceiveData(c) \/ ReceiveSize(c) \/ ReceiveAlive(c)
    \/ ReceiveReset(c) \/ ReceiveDelete(c) \/ ReceiveEnd(c)

Next ==
    \/ \E c \in Conns : ServerStep(c) \/ ClientStep(c) \/ TaskDies(c)
    \/ \E s \in Deleters : HttpDelete(s)
    \/ Evict
    \/ Tick

Spec == Init /\ [][Next]_vars

(* Every server task is scheduled, the cleanup interval keeps firing and   *)
(* time passes.  Clients owe nothing.                                      *)
FairSpec ==
    /\ Spec
    /\ \A c \in Conns : WF_vars(ServerStep(c))
    /\ WF_vars(Evict)
    /\ WF_vars(Tick)

-----------------------------------------------------------------------------
(* Properties.                                                             *)

(* How long a task waits at the most.                                      *)
Limit(at) ==
    CASE at \in {"loop", "ack"} -> IdleTimeout
      [] at = "upgrading" -> UpgradeLimit
      [] OTHER -> 0

(* No timer runs past its limit, and only what waits has one.              *)
InTime == \A c \in Conns : silent[c] <= Limit(pc[c])

(* Every variable has its type, and timers are in time: each wait of a     *)
(* task starts its timer anew (recv_with_timeout, the ack's timeout).      *)
TypeOK ==
    /\ room \in Room \cup {NoRoom}
    /\ pc \in [Conns -> PCs]
    /\ silent \in [Conns -> Nat]
    /\ stage \in [Conns -> {"new", "greeted", "sized"}]
    /\ gone \subseteq Conns
    /\ announced \in BOOLEAN
    /\ opened \in Int
    /\ lost \in Nat
    /\ vanished \in BOOLEAN
    /\ InTime

(* The connections whose task is between broadcaster_connected and         *)
(* broadcaster_disconnected under password s, when the tasks are at `at'.  *)
HoldersAt(at, s) == {c \in Conns : at[c] \in Attached /\ SecretOf[c] = s}
Holders(s) == HoldersAt(pc, s)

(* The count in the room's entry never exceeds the connections that can    *)
(* still take it down: whatever deletes, evictions and re-claims do, no    *)
(* path counts a connection that is not attached (Room.broadcasters).      *)
NoPhantomBroadcaster ==
    room # NoRoom => room.broadcasters <= Cardinality(Holders(room.password))

(* As long as the entry was never removed under a connection using it, the *)
(* count is exact and every task past the handshake holds the room's own   *)
(* password.                                                               *)
ExactWhileRoomStays ==
    ~vanished =>
      IF room = NoRoom
        THEN ~InUse
        ELSE /\ room.broadcasters = Cardinality(Holders(room.password))
             /\ \A c \in Conns : pc[c] \in Using => SecretOf[c] = room.password

(* The count is what the room's decisions rest on: never too high, and     *)
(* right as long as nobody took the room away from those that use it.      *)
CountIsRight == NoPhantomBroadcaster /\ ExactWhileRoomStays

(* Viewers are never left with an "online" that nobody will take back: if  *)
(* the last broadcasting state published is TRUE, some task still has its  *)
(* detach, or the publication of FALSE, ahead of it (or it died).          *)
OnlineIsOwned ==
    announced => \E c \in Conns : pc[c] \in Attached \cup {"emitOff", "emitEnd"}

(* live_since is set on 0 -> 1 and taken on 1 -> 0, never left behind.     *)
LiveMatchesCount ==
    room # NoRoom => (room.live <=> room.broadcasters > 0)

At(pcs, where) == {c \in Conns : pcs[c] = where}

(* A live segment is open exactly while somebody is counted, and every one *)
(* is reported exactly once: started reports, made or due, equal ended     *)
(* reports, made or due, plus the segment open now and those an eviction   *)
(* swallowed.                                                              *)
SegmentsBalance ==
    /\ LiveMatchesCount
    /\ opened + Cardinality(At(pc, "announceFirst"))
         = (IF room # NoRoom /\ room.live THEN 1 ELSE 0) + lost
           + Cardinality(At(pc, "emitEnd"))

(* Connections attached to a live task.                                    *)
Healthy == {c \in Conns : pc[c] \in Attached \ {"dead"}}

(* Unless the entry was removed in use, a joining viewer is told the truth: *)
(* an attached connection keeps the room within the grace, so snapshot     *)
(* says online; with nobody attached it says offline; and with a history   *)
(* to replay comes the size, which carries the encryption flag and which a *)
(* reset does not lose.                                                    *)
SnapshotTruthful ==
    (~vanished /\ room # NoRoom) =>
      /\ Healthy # {} => SnapshotOnline
      /\ Holders(room.password) = {} => ~SnapshotOnline
      /\ room.hist => room.size

(* The cleanup never takes the room, and with it the live segment, from    *)
(* under an attached connection that was counted in it (evict_stale's      *)
(* grace outlasts the idle timeout).                                       *)
EvictionSparesBroadcasters ==
    [][(~vanished /\ lost' > lost) => Healthy = {}]_vars

(* A task left over from before the room was removed and claimed by        *)
(* another password touches nothing of the new owner's: not its history,   *)
(* count, live segment or claim, whatever frame or detach it runs.         *)
ForeignTaskTouchesNothing ==
    [][\A c \in Conns :
         (room # NoRoom /\ SecretOf[c] # room.password /\ pc'[c] # pc[c])
           => room' = room]_vars

(* What a comment promises and the code does not do.                       *)

(* "tells viewers - on join and on every transition - whether a            *)
(* broadcaster's client is currently attached" (test_broadcasting_status): *)
(* with every publication made, an attached connection shows as online.    *)
OnlineWhileAttached ==
    (/\ ~vanished
     /\ \A c \in Conns : pc[c] \notin Running
     /\ \E c \in Conns : pc[c] \in {"loop", "ack"}) => announced

-----------------------------------------------------------------------------
(* Liveness.                                                               *)

(* Nobody is left whose peer can still act.                                *)
AllPeersGone ==
    \A c \in Conns : pc[c] \in {"idle", "rejected", "done", "dead"} \/ c \in gone

(* Once every broadcaster disappeared without closing, even leaving its    *)
(* count behind, the room goes offline for good: for those who join in any *)
(* case, for those who watch unless a task died before it could take its   *)
(* announcement back; and the room is evicted, its name free again.        *)
AbandonedRoomFades ==
    <>[]AllPeersGone =>
      /\ <>[](~SnapshotOnline /\ (announced => \E c \in Conns : pc[c] = "dead"))
      /\ <>[](room = NoRoom)
=============================================================================
