--------------------------- MODULE LaggingReaders ---------------------------
(***************************************************************************)
(* Readers, with the server's queues between the room and its reader       *)
(* (server/viewers.rs).  Sizes and output go through the fan-out task of   *)
(* the room's shard; resets and the broadcaster's status go around it, so  *)
(* they may overtake output.  A connection is registered before its        *)
(* history is read, so output may come twice.                              *)
(***************************************************************************)
EXTENDS Readers

VARIABLES
    link,           \* open while the reader's connection is registered, or closed
    outbox,         \* its queue: what it was sent and was not relayed yet
    backlog         \* the shard's queue: published and not fanned out yet

readerVars == <<pageVars, agentVars, reader>>
lagVars == <<vars, link, outbox, backlog>>

LagInit == Init /\ mode = "follow" /\ link = "closed" /\ outbox = <<>> /\ backlog = <<>>

(* Where the frames of the room's events go: to the shard's queue always,  *)
(* to the reader's when it is registered.                                  *)
Shard == INSTANCE Feed WITH inbox <- backlog, socket <- "open"
Queue == INSTANCE Feed WITH inbox <- outbox, socket <- link

(* publish_control: to the viewers at once.                                *)
Announces ==
    /\ \/ Queue!BroadcasterAttaches \/ Queue!BroadcasterLeaves \/ Queue!OfflineAgain
       \/ Queue!SessionBegins
    /\ UNCHANGED <<socket, inbox, backlog, readerVars>>

(* publish_ingest: by way of the shard.                                    *)
Publishes ==
    /\ Shard!SessionSizes \/ Shard!SessionOutputs
    /\ UNCHANGED <<socket, inbox, link, outbox, readerVars>>

(* The shard's task.                                                       *)
FansOut ==
    /\ backlog # <<>>
    /\ Queue!Sends(Head(backlog))
    /\ backlog' = Tail(backlog)
    /\ UNCHANGED <<vars, link>>

(* join: the connection has its queue before its snapshot is taken.        *)
Registers ==
    /\ socket = "connecting" /\ link = "closed"
    /\ reader = "agent" => outcome = "running"
    /\ link' = "open"
    /\ UNCHANGED <<vars, outbox, backlog>>

(* relay: after the snapshot, all that is queued.                          *)
Relays ==
    /\ socket = "open" /\ outbox # <<>>
    /\ inbox' = inbox \o outbox
    /\ outbox' = <<>>
    /\ UNCHANGED <<roomVars, key, socket, breaks, readerVars, link, backlog>>

(* Fault: the snapshot is taken of a connection that is not registered.    *)
StepsUnregistered ==
    /\ Page \/ Agent
    /\ link' = IF socket' = "closed" THEN "closed" ELSE link
    /\ outbox' = IF socket' = "closed" THEN <<>> ELSE outbox
    /\ UNCHANGED backlog

(* A step of the reader: it is sent its snapshot once it is registered, and *)
(* its queue goes with its connection.                                     *)
Steps ==
    /\ Page \/ Agent
    /\ socket' = "open" => link = "open"
    /\ link' = IF socket' = "closed" THEN "closed" ELSE link
    /\ outbox' = IF socket' = "closed" THEN <<>> ELSE outbox
    /\ UNCHANGED backlog

LagNext == Announces \/ Publishes \/ FansOut \/ Registers \/ Relays \/ Steps

LagSpec == LagInit /\ [][LagNext]_lagVars

(* For the model checker: a connection fails, or the broadcaster leaves,   *)
(* with one record at most, or neither; that it left is announced again    *)
(* before there is one.                                                    *)
OneFault ==
    LET faults == breaks + departures
    IN  /\ faults = 0 \/ (faults = 1 /\ made <= 1)
        /\ repeats = 0 \/ made = 0

-----------------------------------------------------------------------------
(* Properties.                                                             *)

(* Every variable has its type, and the queues hold frames.                *)
LagTypeOK == TypeOK /\ Queue!FeedTypeOK /\ Shard!FeedTypeOK

(* All of recs is shown: the last copy of each, and only newer records     *)
(* after it.                                                               *)
Keeps(shown, recs) ==
    \A r \in ToSet(recs) : \E j \in DOMAIN shown :
        shown[j] = r /\ \A i \in j + 1 .. Len(shown) : shown[i].n > r.n

(* A page that has caught up shows all that the room holds and its link    *)
(* opens, in order but for what came twice, whatever an overtaking reset   *)
(* has left of older sessions before it; its notice is that of the room's  *)
(* session, and its status dot the room's.                                 *)
PageMissesNothing ==
    reader = "page" /\ Quiet /\ outbox = <<>> /\ backlog = <<>> =>
        /\ repeats = 0 => (status = "online" <=> online)
        /\ CASE key = "good" ->
                  /\ Keeps(screen, Mine(stored))
                  /\ stored # <<>> => (notice = "hidden" <=> seal = "mine")
             [] key = "none" /\ ~encryptedWithoutKey ->
                  Keeps(screen, stored) /\ notice = "hidden"
             [] OTHER -> notice # "hidden"

(* The records that frames bring.                                          *)
Carried(frames) == FlattenSeq([i \in DOMAIN frames |-> frames[i].recs])

(* A follower's log, with all that is under way, has every record from its *)
(* snapshot on, in order but for what came twice.                          *)
LogMissesNothing ==
    LET log == printed \o Carried(inbox \o outbox \o backlog)
    IN  reader = "agent" /\ socket = "open" /\ buf = <<>> =>
            \A m \in joined + 1 .. made : \E j \in DOMAIN log :
                log[j].n = m /\ \A i \in j + 1 .. Len(log) : log[i].n > m

(* Neither does, however far the fan-out lags and whatever overtakes it    *)
(* ("Registration happens before the snapshot, so a concurrent frame can be *)
(* delivered twice (history plus live queue) but can never be missed",     *)
(* ViewerDelivery::join).                                                  *)
ReadersMissNothing == PageMissesNothing /\ LogMissesNothing

(* Ciphertext that a reader without a key is shown is of a session that is *)
(* gone: its output was overtaken by the reset and by a reader's join.     *)
CiphertextIsStale ==
    ~HasKey => \A r \in ToSet(screen \o pendingWrites \o printed) :
                  r \in ToSet(stored) => r.seal = "plain"
=============================================================================
