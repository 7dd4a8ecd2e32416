-------------------------------- MODULE Feed --------------------------------
(***************************************************************************)
(* A room as one reader of it sees it: what ViewerDelivery and Ingest make *)
(* of the server.  A broadcaster attaches and leaves, and each change is   *)
(* announced, its leaving perhaps more than once; its session clears the   *)
(* room, sends its size, then output.  A reader is sent a snapshot when it *)
(* connects and every event after it, in order, for as long as its         *)
(* connection lasts.  ViewerPage and AgentReader are the readers; a        *)
(* reader's step handles one frame of inbox.                               *)
(***************************************************************************)
EXTENDS Naturals, Sequences, FiniteSets, SequencesExt

CONSTANTS
    Keys,           \* what the reader's link may carry: good, none, unusable
    Seals,          \* how sessions send: "mine" is the link's key, "other", "plain"
    Sessions,       \* bound: sessions of the room
    Records,        \* bound: records sent
    Departures,     \* bound: times the broadcaster leaves, for good or to come back
    Repeats,        \* bound: times it is announced again that it left
    Breaks          \* bound: connections, or attempts, that fail

ASSUME FeedBounds == /\ Sessions \in Nat /\ Records \in Nat
                     /\ Departures \in Nat /\ Repeats \in Nat /\ Breaks \in Nat
ASSUME FeedKinds == Keys \subseteq {"good", "none", "unusable"}
                    /\ Seals \subseteq {"mine", "other", "plain"}

VARIABLES
    (* the room *)
    stored,         \* the records of its history
    seal,           \* how the current session sends, or NoSeal
    roomSize,       \* the seal its size announces, or NoSeal
    sized,          \* the broadcaster has sent its size
    online,         \* it is attached
    sessions,       \* sessions begun
    made,           \* records sent
    departures,
    repeats,        \* times it was announced again that it left
    (* the reader's connection *)
    key,            \* of its link
    socket,         \* connecting, open, or closed
    inbox,          \* frames sent on the current connection and not handled
    breaks

roomVars == <<stored, seal, roomSize, sized, online, sessions, made, departures, repeats>>
feedVars == <<roomVars, key, socket, inbox, breaks>>

NoSeal == "unset"
Record == [n : 1 .. Records, seal : Seals]

(* The records that are sealed with the link's key.                        *)
Mine(recs) ==
    FlattenSeq([i \in DOMAIN recs |-> IF recs[i].seal = "mine" THEN <<recs[i]>> ELSE <<>>])

Frame(kind, recs, s) == [kind |-> kind, recs |-> recs, seal |-> s]
Status(on) == Frame(IF on THEN "online" ELSE "offline", <<>>, NoSeal)

FeedInit ==
    /\ stored = <<>> /\ seal = NoSeal /\ roomSize = NoSeal /\ sized = FALSE
    /\ online = FALSE /\ sessions = 0 /\ made = 0 /\ departures = 0
    /\ repeats = 0
    /\ key \in Keys /\ socket = "connecting" /\ inbox = <<>> /\ breaks = 0

(* To a reader without a usable key, another key's session is as any       *)
(* sealed one.                                                             *)
Sealings == IF key = "good" THEN Seals ELSE Seals \ {"other"}

Sends(frame) == inbox' = IF socket = "open" THEN Append(inbox, frame) ELSE inbox

(* The broadcaster attaches, or is back.                                   *)
BroadcasterAttaches ==
    /\ ~online /\ departures < Departures
    /\ online' = TRUE
    /\ sized' = FALSE
    /\ Sends(Status(TRUE))
    /\ UNCHANGED <<stored, seal, roomSize, sessions, made, departures, repeats, key, socket,
                   breaks>>

BroadcasterLeaves ==
    /\ online
    /\ online' = FALSE
    /\ departures' = departures + 1
    /\ Sends(Status(FALSE))
    /\ UNCHANGED <<stored, seal, roomSize, sized, sessions, made, repeats, key, socket, breaks>>

(* That it left is announced again: each connection that detaches from a   *)
(* deleted room does so, and one that detached may do so late, when        *)
(* another has attached (Ingest's OnlineWhileAttached).                    *)
OfflineAgain ==
    /\ departures > 0 /\ repeats < Repeats
    /\ repeats' = repeats + 1
    /\ Sends(Status(FALSE))
    /\ UNCHANGED <<stored, seal, roomSize, sized, online, sessions, made, departures, key,
                   socket, breaks>>

(* It is a new session: the history is cleared and the readers told.       *)
SessionBegins ==
    /\ online /\ sessions < Sessions
    /\ sessions' = sessions + 1
    /\ seal' \in Sealings
    /\ sized' = FALSE
    /\ stored' = <<>>
    /\ Sends(Frame("reset", <<>>, NoSeal))
    /\ UNCHANGED <<roomSize, online, made, departures, repeats, key, socket, breaks>>

(* Its size goes first, on every connection.                               *)
SessionSizes ==
    /\ online /\ seal # NoSeal /\ ~sized
    /\ sized' = TRUE
    /\ roomSize' = seal
    /\ Sends(Frame("size", <<>>, seal))
    /\ UNCHANGED <<stored, seal, online, sessions, made, departures, repeats, key, socket,
                   breaks>>

SessionOutputs ==
    LET record == [n |-> made + 1, seal |-> seal]
    IN  /\ online /\ sized /\ made < Records
        /\ made' = made + 1
        /\ stored' = Append(stored, record)
        /\ Sends(Frame("bytes", <<record>>, NoSeal))
        /\ UNCHANGED <<seal, roomSize, sized, online, sessions, departures, repeats, key,
                       socket, breaks>>

FeedNext ==
    \/ BroadcasterAttaches \/ BroadcasterLeaves \/ OfflineAgain
    \/ SessionBegins \/ SessionSizes \/ SessionOutputs

(* What a connection gets first; the count of users ends it.               *)
Snapshot ==
    (IF roomSize = NoSeal THEN <<>> ELSE <<Frame("size", <<>>, roomSize)>>)
      \o (IF stored = <<>> THEN <<>> ELSE <<Frame("bytes", stored, NoSeal)>>)
      \o <<Status(online), Frame("count", <<>>, NoSeal)>>

(* The reader's connection opens.                                          *)
Connected ==
    /\ socket = "connecting"
    /\ socket' = "open" /\ inbox' = Snapshot
    /\ UNCHANGED <<roomVars, key, breaks>>

(* It fails, or the attempt does.                                          *)
Broken ==
    /\ socket \in {"connecting", "open"} /\ breaks < Breaks
    /\ breaks' = breaks + 1
    /\ socket' = "closed" /\ inbox' = <<>>
    /\ UNCHANGED <<roomVars, key>>

(* The reader handles a frame of this kind.                                *)
Receives(kind) ==
    /\ socket = "open" /\ inbox # <<>> /\ Head(inbox).kind = kind
    /\ inbox' = Tail(inbox)
    /\ UNCHANGED <<roomVars, key, breaks>>

FeedTypeOK ==
    /\ stored \in Seq(Record) /\ made \in 0 .. Records /\ sessions \in 0 .. Sessions
    /\ seal \in Seals \cup {NoSeal} /\ roomSize \in Seals \cup {NoSeal}
    /\ sized \in BOOLEAN /\ online \in BOOLEAN /\ departures \in 0 .. Departures
    /\ repeats \in 0 .. Repeats
    /\ key \in Keys /\ socket \in {"connecting", "open", "closed"} /\ breaks \in 0 .. Breaks
    /\ inbox \in Seq([kind : {"size", "bytes", "count", "reset", "online", "offline"},
                      recs : Seq(Record), seal : Seals \cup {NoSeal}])
=============================================================================
