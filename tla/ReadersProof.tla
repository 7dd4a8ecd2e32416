----------------------------- MODULE ReadersProof -----------------------------
(* Theorems about Readers and LaggingReaders, for any sessions, records,   *)
(* departures and failing connections.                                     *)
EXTENDS LaggingReaders, SumsProof

-----------------------------------------------------------------------------
(* The feed's types.                                                       *)

FrameType == [kind : {"size", "bytes", "count", "reset", "online", "offline"},
              recs : Seq(Record), seal : Seals \cup {NoSeal}]

(* A room's records are of its current session, and so is its size once    *)
(* there is one.                                                           *)
RoomInv ==
    /\ FeedTypeOK
    /\ \A i \in DOMAIN stored : stored[i].seal = seal
    /\ stored # <<>> \/ sized => roomSize = seal /\ seal # NoSeal
    /\ online => departures < Departures

(* What is sent is a frame, and what a reader has to handle stays frames.  *)
LEMMA SendsType ==
  ASSUME FeedTypeOK, NEW f \in FrameType, Sends(f)
  PROVE  inbox' \in Seq(FrameType)
<1>1. inbox \in Seq(FrameType)
  BY DEF FeedTypeOK, FrameType
<1> QED
  BY <1>1 DEF Sends

(* The frames of the room are frames.                                      *)
LEMMA FramesType ==
  /\ \A on \in BOOLEAN : Status(on) \in FrameType
  /\ Frame("reset", <<>>, NoSeal) \in FrameType
  /\ Frame("count", <<>>, NoSeal) \in FrameType
  /\ \A s \in Seals : Frame("size", <<>>, s) \in FrameType
  /\ \A q \in Seq(Record) : Frame("bytes", q, NoSeal) \in FrameType
<1>1. <<>> \in Seq(Record)
  OBVIOUS
<1> QED
  BY <1>1 DEF Frame, FrameType, Status

(* A step of the room keeps that.                                          *)
LEMMA FeedStepRoom ==
  ASSUME RoomInv, FeedNext
  PROVE  RoomInv'
<1> USE FeedBounds
<1>0. inbox \in Seq(FrameType)
  BY DEF RoomInv, FeedTypeOK, FrameType
<1>1. CASE BroadcasterAttaches
  <2>1. inbox' \in Seq(FrameType)
    BY <1>1, FramesType, SendsType DEF BroadcasterAttaches, RoomInv
  <2> QED
    BY <1>1, <2>1 DEF BroadcasterAttaches, RoomInv, FeedTypeOK, FrameType
<1>5. CASE BroadcasterLeaves
  <2>1. inbox' \in Seq(FrameType)
    BY <1>5, FramesType, SendsType DEF BroadcasterLeaves, RoomInv
  <2>2. departures' \in 0 .. Departures /\ online' = FALSE
    BY <1>5 DEF BroadcasterLeaves, RoomInv, FeedTypeOK
  <2> QED
    BY <1>5, <2>1, <2>2 DEF BroadcasterLeaves, RoomInv, FeedTypeOK, FrameType
<1>6. CASE OfflineAgain
  <2>1. inbox' \in Seq(FrameType)
    BY <1>6, FramesType, SendsType DEF OfflineAgain, RoomInv
  <2>2. repeats' \in 0 .. Repeats
    BY <1>6 DEF OfflineAgain, RoomInv, FeedTypeOK
  <2> QED
    BY <1>6, <2>1, <2>2 DEF OfflineAgain, RoomInv, FeedTypeOK, FrameType
<1>2. CASE SessionBegins
  <2>1. inbox' \in Seq(FrameType)
    BY <1>2, FramesType, SendsType DEF SessionBegins, RoomInv
  <2>2. seal' \in Seals
    BY <1>2 DEF SessionBegins, Sealings
  <2>3. sessions' \in 0 .. Sessions
    <3>1. sessions \in 0 .. Sessions
      BY DEF RoomInv, FeedTypeOK
    <3>2. sessions' = sessions + 1 /\ sessions < Sessions
      BY <1>2 DEF SessionBegins
    <3> QED
      BY <3>1, <3>2
  <2>4. stored' = <<>> /\ sized' = FALSE
    BY <1>2 DEF SessionBegins
  <2>5. stored' \in Seq(Record) /\ \A i \in DOMAIN stored' : stored'[i].seal = seal'
    BY <2>4
  <2>6. FeedTypeOK'
    BY <1>2, <2>1, <2>2, <2>3, <2>4, <2>5 DEF SessionBegins, RoomInv, FeedTypeOK, FrameType
  <2> QED
    BY <1>2, <2>4, <2>5, <2>6 DEF SessionBegins, RoomInv
<1>3. CASE SessionSizes
  <2>1. seal \in Seals
    BY <1>3 DEF SessionSizes, RoomInv, FeedTypeOK
  <2>2. inbox' \in Seq(FrameType)
    BY <1>3, <2>1, FramesType, SendsType DEF SessionSizes, RoomInv
  <2> QED
    BY <1>3, <2>1, <2>2 DEF SessionSizes, RoomInv, FeedTypeOK, FrameType
<1>4. CASE SessionOutputs
  <2> DEFINE record == [n |-> made + 1, seal |-> seal]
  <2>1. seal \in Seals /\ roomSize = seal /\ seal # NoSeal /\ sized /\ stored \in Seq(Record)
    BY <1>4 DEF SessionOutputs, RoomInv, FeedTypeOK
  <2>2. made' \in 0 .. Records /\ record \in Record
    BY <1>4, <2>1 DEF SessionOutputs, RoomInv, FeedTypeOK, Record
  <2>3. stored' = Append(stored, record) /\ record.seal = seal
    BY <1>4 DEF SessionOutputs
  <2>4. <<record>> \in Seq(Record) /\ Sends(Frame("bytes", <<record>>, NoSeal))
    BY <1>4, <2>2 DEF SessionOutputs
  <2> HIDE DEF record
  <2>5. inbox' \in Seq(FrameType)
    BY <2>4, FramesType, SendsType DEF RoomInv
  <2>6. stored' \in Seq(Record) /\ \A i \in DOMAIN stored' : stored'[i].seal = seal
    BY <2>1, <2>2, <2>3 DEF RoomInv
  <2> QED
    BY <1>4, <2>1, <2>2, <2>5, <2>6 DEF SessionOutputs, RoomInv, FeedTypeOK, FrameType
<1> QED
  BY <1>1, <1>2, <1>3, <1>4, <1>5, <1>6 DEF FeedNext

(* What a connection gets first consists of frames.                        *)
LEMMA SnapshotType ==
  ASSUME RoomInv
  PROVE  Snapshot \in Seq(FrameType)
<1> DEFINE size  == IF roomSize = NoSeal THEN <<>> ELSE <<Frame("size", <<>>, roomSize)>>
           bytes == IF stored = <<>> THEN <<>> ELSE <<Frame("bytes", stored, NoSeal)>>
           rest  == <<Status(online), Frame("count", <<>>, NoSeal)>>
<1>1. size \in Seq(FrameType)
  <2>1. roomSize # NoSeal => Frame("size", <<>>, roomSize) \in FrameType
    BY FramesType DEF RoomInv, FeedTypeOK
  <2> QED
    BY <2>1
<1>2. bytes \in Seq(FrameType)
  <2>1. Frame("bytes", stored, NoSeal) \in FrameType
    BY FramesType DEF RoomInv, FeedTypeOK
  <2> QED
    BY <2>1
<1>3. rest \in Seq(FrameType)
  <2>1. Status(online) \in FrameType /\ Frame("count", <<>>, NoSeal) \in FrameType
    BY FramesType DEF RoomInv, FeedTypeOK
  <2> QED
    BY <2>1
<1>4. Snapshot = size \o bytes \o rest
  BY DEF Snapshot
<1> HIDE DEF size, bytes, rest
<1> QED
  BY <1>1, <1>2, <1>3, <1>4

(* The reader's connection opens, breaks, or gives it a frame; or it hangs *)
(* up.                                                                     *)
Connects ==
    \/ Connected \/ Broken
    \/ /\ socket = "open" /\ inbox # <<>> /\ inbox' = Tail(inbox)
       /\ socket' \in {"open", "closed"} /\ UNCHANGED <<roomVars, key, breaks>>
    \/ socket' \in {"closed", "connecting"} /\ UNCHANGED <<roomVars, key, inbox, breaks>>

(* What happens to the reader's connection leaves the room as it is.       *)
LEMMA ConnectsRoom ==
  ASSUME RoomInv, Connects \/ UNCHANGED feedVars
  PROVE  RoomInv'
<1> USE FeedBounds
<1>0. inbox \in Seq(FrameType)
  BY DEF RoomInv, FeedTypeOK, FrameType
<1>1. inbox' \in Seq(FrameType) /\ socket' \in {"connecting", "open", "closed"}
      /\ breaks' \in 0 .. Breaks /\ UNCHANGED <<roomVars, key>>
  <2>1. CASE Connected
    BY <2>1, SnapshotType DEF Connected, RoomInv, FeedTypeOK
  <2>2. CASE Broken
    BY <2>2 DEF Broken, RoomInv, FeedTypeOK
  <2>3. CASE UNCHANGED feedVars
    BY <1>0, <2>3 DEF feedVars, RoomInv, FeedTypeOK
  <2>4. CASE inbox # <<>> /\ inbox' = Tail(inbox) /\ socket' \in {"open", "closed"}
             /\ UNCHANGED <<roomVars, key, breaks>>
    <3>1. inbox' \in Seq(FrameType)
      BY <1>0, <2>4
    <3> QED
      BY <2>4, <3>1 DEF RoomInv, FeedTypeOK
  <2>5. CASE socket' \in {"closed", "connecting"} /\ UNCHANGED <<roomVars, key, inbox, breaks>>
    BY <1>0, <2>5 DEF RoomInv, FeedTypeOK
  <2> QED
    BY <2>1, <2>2, <2>3, <2>4, <2>5 DEF Connects
<1> QED
  BY <1>1 DEF RoomInv, FeedTypeOK, FrameType, roomVars

(* A step of a reader does no more to the feed than that.                  *)
LEMMA ReaderConnects ==
  ASSUME PageNext \/ AgentNext
  PROVE  Connects \/ UNCHANGED feedVars
<1>1. ASSUME NEW kind, Receives(kind), socket' \in {"open", "closed"}
      PROVE  Connects
  BY <1>1 DEF Receives, Connects
<1>2. CASE TerminalCreated \/ \E e \in DOMAIN chains : Decrypted(e)
  BY <1>2 DEF TerminalCreated, Decrypted
<1>3. CASE PageMessage
  BY <1>1, <1>3 DEF PageMessage, Receives
<1>4. CASE FollowMessage
  BY <1>1, <1>4 DEF FollowMessage, FollowSize, FollowCount, FollowOnline, FollowOffline,
                    FollowBytes, FollowReset, Hears, Receives
<1>5. CASE PageOpens \/ PageCloses \/ PageReconnects
  BY <1>5 DEF PageOpens, PageCloses, PageReconnects, Connects
<1>6. CASE Reads \/ FollowOpens \/ TimerFires \/ Cut
  BY <1>6 DEF Reads, FollowOpens, TimerFires, Cut, Connects
<1> QED
  BY <1>2, <1>3, <1>4, <1>5, <1>6 DEF PageNext, AgentNext

-----------------------------------------------------------------------------
(* A reader without a key.                                                 *)

Plain(recs) == \A i \in DOMAIN recs : recs[i].seal = "plain"

(* A frame that says that the session is encrypted, and one that shows it. *)
Warns(f) == f.kind = "size" /\ f.seal # "plain"
Reveals(f) == f.kind = "bytes" /\ ~Plain(f.recs)

(* The reader has been warned, or takes nothing from its connection.       *)
Warned ==
    IF reader = "page" THEN key = "unusable" \/ encryptedWithoutKey
                       ELSE mode = "once" \/ outcome # "running"

Warning(q) == \E j \in DOMAIN q : Warns(q[j])

(* A warning comes before every sealed record,                             *)
WellAnnounced(q) == \A i \in DOMAIN q : Reveals(q[i]) => \E j \in 1 .. i - 1 : Warns(q[j])

(* and is under way while the room's size carries one.                     *)
InboxAnnounced ==
    ~Warned /\ socket = "open" =>
      /\ WellAnnounced(inbox)
      /\ roomSize \notin {"plain", NoSeal} => Warning(inbox)

OutputPlain ==
    /\ screen \in Seq(Record) /\ pendingWrites \in Seq(Record) /\ printed \in Seq(Record)
    /\ Plain(screen) /\ Plain(pendingWrites) /\ Plain(printed)
    /\ chains \in Seq({<<>>}) /\ buf = <<>>

BlindInv == ~HasKey => OutputPlain /\ InboxAnnounced

(* One more frame: a sealed record only after a warning.                   *)
LEMMA AppendAnnounced ==
  ASSUME NEW q \in Seq(FrameType), NEW f \in FrameType, WellAnnounced(q),
         Reveals(f) => Warning(q)
  PROVE  /\ WellAnnounced(Append(q, f))
         /\ Warning(q) \/ Warns(f) => Warning(Append(q, f))
<1> DEFINE r == Append(q, f)
<1>1. /\ DOMAIN r = 1 .. Len(q) + 1 /\ DOMAIN q = 1 .. Len(q) /\ Len(q) \in Nat
      /\ \A i \in 1 .. Len(q) : r[i] = q[i]
      /\ r[Len(q) + 1] = f
  OBVIOUS
<1> HIDE DEF r
<1>2. ASSUME NEW i \in DOMAIN r, Reveals(r[i])
      PROVE  \E j \in 1 .. i - 1 : Warns(r[j])
  <2>1. CASE i \in 1 .. Len(q)
    <3>1. PICK j \in 1 .. i - 1 : Warns(q[j])
      BY <1>1, <1>2, <2>1 DEF WellAnnounced
    <3> QED
      BY <1>1, <2>1, <3>1
  <2>2. CASE i = Len(q) + 1
    <3>1. PICK j \in DOMAIN q : Warns(q[j])
      BY <1>1, <1>2, <2>2 DEF Warning
    <3> QED
      BY <1>1, <2>2, <3>1
  <2> QED
    BY <1>1, <2>1, <2>2
<1>3. ASSUME Warning(q) \/ Warns(f) PROVE Warning(r)
  BY <1>1, <1>3 DEF Warning
<1> QED
  BY <1>2, <1>3 DEF r, WellAnnounced

(* One frame handled that was no warning: it showed nothing, and the       *)
(* warning is among the others.                                            *)
LEMMA TailAnnounced ==
  ASSUME NEW q \in Seq(FrameType), q # <<>>, WellAnnounced(q)
  PROVE  /\ ~Reveals(Head(q))
         /\ ~Warns(Head(q)) => /\ WellAnnounced(Tail(q))
                               /\ Warning(q) => Warning(Tail(q))
<1> DEFINE r == Tail(q)
<1>1. /\ Len(q) \in Nat \ {0} /\ DOMAIN q = 1 .. Len(q) /\ DOMAIN r = 1 .. Len(q) - 1
      /\ \A i \in 1 .. Len(q) - 1 : r[i] = q[i + 1]
      /\ q[1] = Head(q)
  OBVIOUS
<1> HIDE DEF r
<1>2. ~Reveals(Head(q))
  <2>1. Reveals(q[1]) => \E j \in 1 .. 0 : Warns(q[j])
    BY <1>1 DEF WellAnnounced
  <2> QED
    BY <1>1, <2>1
<1>3. ASSUME ~Warns(Head(q)), NEW i \in DOMAIN r, Reveals(r[i])
      PROVE  \E j \in 1 .. i - 1 : Warns(r[j])
  <2>1. PICK j \in 1 .. (i + 1) - 1 : Warns(q[j])
    BY <1>1, <1>3 DEF WellAnnounced
  <2>2. j # 1
    BY <1>1, <1>3, <2>1
  <2>3. j - 1 \in 1 .. i - 1 /\ r[j - 1] = q[j]
    BY <1>1, <1>3, <2>1, <2>2
  <2> QED
    BY <2>1, <2>3
<1>4. ASSUME ~Warns(Head(q)), Warning(q) PROVE Warning(r)
  <2>1. PICK j \in 1 .. Len(q) : Warns(q[j])
    BY <1>1, <1>4 DEF Warning
  <2>2. j # 1
    BY <1>1, <1>4, <2>1
  <2>3. j - 1 \in DOMAIN r /\ r[j - 1] = q[j]
    BY <1>1, <2>1, <2>2
  <2> QED
    BY <2>1, <2>3 DEF Warning
<1> QED
  BY <1>2, <1>3, <1>4 DEF r, WellAnnounced

(* Frames followed by frames: these are announced by themselves, or warned *)
(* of by the first.                                                        *)
LEMMA ConcatAnnounced ==
  ASSUME NEW p \in Seq(FrameType), NEW q \in Seq(FrameType), WellAnnounced(p),
         WellAnnounced(q) \/ Warning(p)
  PROVE  /\ p \o q \in Seq(FrameType)
         /\ WellAnnounced(p \o q)
         /\ Warning(p) => Warning(p \o q)
<1> DEFINE r == p \o q
<1>1. /\ r \in Seq(FrameType) /\ Len(p) \in Nat /\ Len(q) \in Nat
      /\ DOMAIN p = 1 .. Len(p) /\ DOMAIN q = 1 .. Len(q)
      /\ DOMAIN r = 1 .. Len(p) + Len(q)
      /\ \A i \in 1 .. Len(p) : r[i] = p[i]
      /\ \A i \in 1 .. Len(q) : r[Len(p) + i] = q[i]
  OBVIOUS
<1> HIDE DEF r
<1>2. ASSUME NEW i \in DOMAIN r, Reveals(r[i])
      PROVE  \E j \in 1 .. i - 1 : Warns(r[j])
  <2>1. CASE i \in 1 .. Len(p)
    <3>1. PICK j \in 1 .. i - 1 : Warns(p[j])
      BY <1>1, <1>2, <2>1 DEF WellAnnounced
    <3> QED
      BY <1>1, <2>1, <3>1
  <2>2. CASE i \notin 1 .. Len(p) /\ Warning(p)
    <3>1. PICK j \in 1 .. Len(p) : Warns(p[j])
      BY <1>1, <2>2 DEF Warning
    <3> QED
      BY <1>1, <2>2, <3>1, SMTT(30)
  <2>3. CASE i \notin 1 .. Len(p) /\ WellAnnounced(q)
    <3>1. i - Len(p) \in DOMAIN q /\ r[i] = q[i - Len(p)]
      <4>1. PICK M \in Nat, N \in Nat : M = Len(p) /\ N = Len(q)
        BY <1>1
      <4>2. i \in 1 .. M + N /\ i \notin 1 .. M
        BY <1>1, <2>3, <4>1
      <4>3. i - M \in 1 .. N /\ M + (i - M) = i
        BY <4>2
      <4>4. r[M + (i - M)] = q[i - M]
        BY <1>1, <4>1, <4>3
      <4> QED
        BY <1>1, <4>1, <4>3, <4>4
    <3>2. PICK j \in 1 .. (i - Len(p)) - 1 : Warns(q[j])
      BY <1>2, <2>3, <3>1 DEF WellAnnounced
    <3>3. Len(p) + j \in 1 .. i - 1 /\ r[Len(p) + j] = q[j]
      BY <1>1, <2>3, <3>1, <3>2
    <3> QED
      BY <3>2, <3>3
  <2> QED
    BY <2>1, <2>2, <2>3
<1>3. ASSUME Warning(p) PROVE Warning(r)
  BY <1>1, <1>3 DEF Warning
<1> QED
  BY <1>1, <1>2, <1>3 DEF r, WellAnnounced

(* A sealed history comes after the size that says so.                     *)
LEMMA SnapshotAnnounced ==
  ASSUME RoomInv
  PROVE  /\ WellAnnounced(Snapshot)
         /\ roomSize \notin {"plain", NoSeal} => Warning(Snapshot)
<1> DEFINE size  == Frame("size", <<>>, roomSize)
           bytes == Frame("bytes", stored, NoSeal)
           on    == Status(online)
           count == Frame("count", <<>>, NoSeal)
           first  == IF roomSize = NoSeal THEN <<>> ELSE <<size>>
           second == IF stored = <<>> THEN <<>> ELSE <<bytes>>
           third  == <<on, count>>
<1>1. /\ ~Reveals(size) /\ ~Reveals(on) /\ ~Reveals(count)
      /\ roomSize # "plain" => Warns(size)
  BY DEF Frame, Status, Reveals, Warns
<1>2. Reveals(bytes) => stored # <<>> /\ roomSize # NoSeal /\ Warns(size)
  <2>1. ASSUME ~Plain(stored) PROVE stored # <<>> /\ roomSize # NoSeal /\ roomSize # "plain"
    BY <2>1 DEF RoomInv, FeedTypeOK, Plain
  <2> QED
    BY <1>1, <2>1 DEF Frame, Reveals
<1>3. /\ roomSize # NoSeal => size \in FrameType
      /\ bytes \in FrameType /\ on \in FrameType /\ count \in FrameType
  BY FramesType DEF RoomInv, FeedTypeOK
<1>4. Snapshot = first \o second \o third
  BY DEF Snapshot
<1> HIDE DEF size, bytes, on, count
<1>5. /\ first \in Seq(FrameType) /\ WellAnnounced(first)
      /\ roomSize \notin {"plain", NoSeal} => Warning(first)
  <2>1. CASE roomSize = NoSeal
    BY <2>1 DEF WellAnnounced
  <2>2. CASE roomSize # NoSeal
    <3>1. first = <<size>> /\ size \in FrameType /\ DOMAIN first = {1} /\ first[1] = size
      BY <1>3, <2>2
    <3> QED
      BY <1>1, <3>1 DEF WellAnnounced, Warning
  <2> QED
    BY <2>1, <2>2
<1>6. second \in Seq(FrameType) /\ (WellAnnounced(second) \/ Warning(first))
  <2>1. CASE ~Reveals(bytes)
    BY <1>3, <2>1 DEF WellAnnounced
  <2>2. CASE Reveals(bytes)
    <3>1. roomSize \notin {"plain", NoSeal}
      BY <1>2, <2>2 DEF Warns, size, Frame
    <3> QED
      BY <1>3, <1>5, <3>1
  <2> QED
    BY <2>1, <2>2
<1>7. third \in Seq(FrameType) /\ WellAnnounced(third)
  BY <1>1, <1>3 DEF WellAnnounced
<1> HIDE DEF first, second, third
<1>8. /\ first \o second \in Seq(FrameType) /\ WellAnnounced(first \o second)
      /\ Warning(first) => Warning(first \o second)
  BY <1>5, <1>6, ConcatAnnounced
<1> QED
  BY <1>4, <1>5, <1>7, <1>8, ConcatAnnounced

(* What the room does is announced, and leaves the reader's output alone.  *)
LEMMA RoomBlind ==
  ASSUME RoomInv, BlindInv, Room
  PROVE  BlindInv'
<1> SUFFICES ASSUME ~HasKey, ~Warned, socket = "open"
             PROVE  /\ WellAnnounced(inbox')
                    /\ roomSize' \notin {"plain", NoSeal} => Warning(inbox')
  <2>1. UNCHANGED <<key, socket, pageVars, agentVars, reader>>
    BY DEF Room, FeedNext, BroadcasterAttaches, BroadcasterLeaves, OfflineAgain, SessionBegins,
           SessionSizes, SessionOutputs
  <2>2. HasKey' = HasKey /\ Warned' = Warned
    BY <2>1 DEF HasKey, Warned, pageVars, verdictVars, agentVars
  <2>3. OutputPlain => OutputPlain'
    BY <2>1 DEF OutputPlain, pageVars, screenVars, agentVars
  <2> QED
    BY <2>1, <2>2, <2>3 DEF BlindInv, InboxAnnounced
<1>0. /\ inbox \in Seq(FrameType) /\ WellAnnounced(inbox)
      /\ roomSize \notin {"plain", NoSeal} => Warning(inbox)
  BY DEF RoomInv, FeedTypeOK, FrameType, BlindInv, InboxAnnounced
<1>1. ASSUME NEW f \in FrameType, Sends(f), Reveals(f) => Warning(inbox),
             roomSize' \notin {"plain", NoSeal} => Warns(f) \/ Warning(inbox)
      PROVE  /\ WellAnnounced(inbox')
             /\ roomSize' \notin {"plain", NoSeal} => Warning(inbox')
  BY <1>0, <1>1, AppendAnnounced DEF Sends
<1>2. CASE BroadcasterAttaches
  <2>1. ~Reveals(Status(TRUE))
    BY DEF Reveals, Status, Frame
  <2> QED
    BY <1>0, <1>1, <1>2, <2>1, FramesType DEF BroadcasterAttaches
<1>3. CASE BroadcasterLeaves
  <2>1. ~Reveals(Status(FALSE))
    BY DEF Reveals, Status, Frame
  <2> QED
    BY <1>0, <1>1, <1>3, <2>1, FramesType DEF BroadcasterLeaves
<1>7. CASE OfflineAgain
  <2>1. ~Reveals(Status(FALSE))
    BY DEF Reveals, Status, Frame
  <2> QED
    BY <1>0, <1>1, <1>7, <2>1, FramesType DEF OfflineAgain
<1>4. CASE SessionBegins
  <2>1. ~Reveals(Frame("reset", <<>>, NoSeal))
    BY DEF Reveals, Frame
  <2> QED
    BY <1>0, <1>1, <1>4, <2>1, FramesType DEF SessionBegins
<1>5. CASE SessionSizes
  <2>1. ~Reveals(Frame("size", <<>>, seal)) /\ (seal # "plain" => Warns(Frame("size", <<>>, seal)))
    BY DEF Reveals, Warns, Frame
  <2>2. Frame("size", <<>>, seal) \in FrameType /\ roomSize' = seal
        /\ Sends(Frame("size", <<>>, seal))
    BY <1>5, FramesType DEF SessionSizes, RoomInv, FeedTypeOK
  <2> QED
    BY <1>0, <1>1, <2>1, <2>2
<1>6. CASE SessionOutputs
  <2> DEFINE record == [n |-> made + 1, seal |-> seal]
  <2>1. roomSize = seal /\ seal # NoSeal /\ roomSize' = roomSize /\ seal \in Seals
    BY <1>6 DEF SessionOutputs, RoomInv, FeedTypeOK
  <2>2. record \in Record /\ Sends(Frame("bytes", <<record>>, NoSeal))
    BY <1>6, <2>1, FeedBounds DEF SessionOutputs, RoomInv, FeedTypeOK, Record
  <2>3. record.seal = seal
    OBVIOUS
  <2> HIDE DEF record
  <2>4. Frame("bytes", <<record>>, NoSeal) \in FrameType
    <3>1. <<record>> \in Seq(Record)
      BY <2>2
    <3> QED
      BY <3>1, FramesType
  <2>5. Reveals(Frame("bytes", <<record>>, NoSeal)) => seal # "plain"
    BY <2>3 DEF Reveals, Frame, Plain
  <2> QED
    BY <1>0, <1>1, <2>1, <2>2, <2>4, <2>5
<1> QED
  BY <1>2, <1>3, <1>4, <1>5, <1>6, <1>7 DEF Room, FeedNext

(* A connection that opens is sent a snapshot that keeps to that.          *)
LEMMA OpensAnnounced ==
  ASSUME RoomInv, Connected
  PROVE  InboxAnnounced'
BY SnapshotAnnounced DEF Connected, roomVars, InboxAnnounced

(* A reader that handles a frame and was not warned was shown nothing      *)
(* sealed, and is told in time of what is to come.                         *)
LEMMA HandledAnnounced ==
  ASSUME RoomInv, BlindInv, ~HasKey, NEW kind, Receives(kind)
  PROVE  /\ Head(inbox) \in FrameType /\ Head(inbox).kind = kind
         /\ ~Warned => ~Reveals(Head(inbox))
         /\ (Warned => Warned') /\ (Warns(Head(inbox)) => Warned') => InboxAnnounced'
<1>1. inbox \in Seq(FrameType) /\ inbox # <<>> /\ inbox' = Tail(inbox) /\ socket = "open"
      /\ UNCHANGED roomSize
  BY DEF RoomInv, FeedTypeOK, FrameType, Receives, roomVars
<1>2. Head(inbox) \in FrameType
  BY <1>1
<1>3. ASSUME ~Warned
      PROVE  /\ ~Reveals(Head(inbox))
             /\ ~Warns(Head(inbox)) =>
                  /\ WellAnnounced(Tail(inbox))
                  /\ roomSize \notin {"plain", NoSeal} => Warning(Tail(inbox))
  BY <1>1, <1>3, TailAnnounced DEF BlindInv, InboxAnnounced
<1> QED
  BY <1>1, <1>2, <1>3 DEF InboxAnnounced, Receives

(* What the page does to what was handled keeps its output plain.          *)
LEMMA PageBlind ==
  ASSUME RoomInv, BlindInv, ~HasKey, reader = "page", PageNext,
         UNCHANGED <<agentVars, reader>>
  PROVE  OutputPlain' /\ InboxAnnounced'
<1>0. /\ OutputPlain /\ InboxAnnounced /\ key # "good" /\ buf' = buf /\ printed' = printed
      /\ reader' = "page"
  BY DEF BlindInv, HasKey, agentVars
<1>1. CASE TerminalCreated
  <2>1. UNCHANGED <<buf, printed, chains, key, encryptedWithoutKey, inbox, socket, roomSize>>
        /\ screen' = pendingWrites /\ pendingWrites' = <<>>
    BY <1>0, <1>1 DEF TerminalCreated, feedVars, roomVars, verdictVars
  <2>2. OutputPlain'
    BY <1>0, <2>1 DEF OutputPlain, Plain
  <2>3. InboxAnnounced'
    BY <1>0, <2>1 DEF InboxAnnounced, Warned
  <2> QED
    BY <2>2, <2>3
<1>2. CASE \E e \in DOMAIN chains : Decrypted(e)
  <2>1. \A e \in DOMAIN chains : chains[e] = <<>>
    BY <1>0 DEF OutputPlain
  <2> QED
    BY <1>2, <2>1 DEF Decrypted
<1>3. CASE PageOpens
  <2>1. InboxAnnounced'
    BY <1>3, OpensAnnounced DEF PageOpens
  <2>2. OutputPlain'
    <3>1. CASE joinedBefore
      <4>1. chains' = Append(chains, <<>>) /\ pendingWrites' = <<>> /\ screen' = <<>>
        BY <1>3, <3>1 DEF PageOpens, ClearScreen
      <4> QED
        BY <1>0, <4>1 DEF OutputPlain, Plain
    <3>2. CASE ~joinedBefore
      BY <1>0, <1>3, <3>2 DEF PageOpens, screenVars, OutputPlain
    <3> QED
      BY <3>1, <3>2
  <2> QED
    BY <2>1, <2>2
<1>4. CASE PageCloses
  <2>1. socket' = "closed" /\ UNCHANGED screenVars
    BY <1>4 DEF PageCloses, Broken
  <2> QED
    BY <1>0, <2>1 DEF OutputPlain, InboxAnnounced, screenVars
<1>5. CASE PageReconnects
  <2>1. socket' = "connecting" /\ UNCHANGED screenVars
    BY <1>5 DEF PageReconnects, pageVars
  <2> QED
    BY <1>0, <2>1 DEF OutputPlain, InboxAnnounced, screenVars
<1>6. CASE PageMessage
  <2> DEFINE frame == Head(inbox)
  <2>1. PICK kind \in {"size", "bytes", "count", "reset", "online", "offline"} : Receives(kind)
    BY <1>6 DEF PageMessage
  <2>2. /\ frame \in FrameType /\ frame.kind = kind /\ (~Warned => ~Reveals(frame))
        /\ (Warned => Warned') /\ (Warns(frame) => Warned') => InboxAnnounced'
    BY <2>1, HandledAnnounced
  <2>3. UNCHANGED key
    BY <2>1 DEF Receives
  <2>4. CASE kind = "size"
    <3>1. ReceiveSize
      BY <1>6, <2>1, <2>4 DEF PageMessage, Receives
    <3>2. (Warned => Warned') /\ (Warns(frame) => Warned')
      <4>1. key \in {"none", "unusable"}
        BY <1>0, FeedKinds DEF RoomInv, FeedTypeOK
      <4> QED
        BY <1>0, <2>3, <3>1, <4>1 DEF ReceiveSize, Warned, Warns
    <3>3. OutputPlain'
      BY <1>0, <3>1 DEF ReceiveSize, screenVars, OutputPlain
    <3> QED
      BY <2>2, <3>2, <3>3
  <2>5. CASE kind = "bytes"
    <3>1. ReceiveBytes /\ frame.recs \in Seq(Record) /\ frame.kind = "bytes"
      BY <1>6, <2>1, <2>2, <2>5 DEF PageMessage, Receives, FrameType
    <3>2. (Warned => Warned') /\ ~Warns(frame)
      BY <1>0, <2>3, <3>1 DEF ReceiveBytes, Warned, Warns, verdictVars
    <3>3. chains' = chains
      BY <1>0, <3>1 DEF ReceiveBytes, Write
    <3>4. OutputPlain'
      <4>1. CASE key = "none" /\ ~encryptedWithoutKey
        <5>1. Plain(frame.recs)
          BY <2>2, <3>1, <4>1 DEF Warned, Reveals
        <5>2. Write(frame.recs)
          BY <3>1, <4>1 DEF ReceiveBytes
        <5>3. \A q, r \in Seq(Record) : Plain(q) /\ Plain(r) =>
                q \o r \in Seq(Record) /\ Plain(q \o r)
          BY DEF Plain
        <5>4. \/ screen' = screen \o frame.recs /\ pendingWrites' = pendingWrites
              \/ pendingWrites' = pendingWrites \o frame.recs /\ screen' = screen
          BY <5>2 DEF Write
        <5> HIDE DEF frame
        <5> QED
          BY <1>0, <3>1, <3>3, <5>1, <5>3, <5>4 DEF OutputPlain
      <4>2. CASE ~(key = "none" /\ ~encryptedWithoutKey)
        <5>1. UNCHANGED <<screen, pendingWrites>>
          BY <1>0, <3>1, <4>2 DEF ReceiveBytes
        <5> QED
          BY <1>0, <3>3, <5>1 DEF OutputPlain
      <4> QED
        BY <4>1, <4>2
    <3> QED
      BY <2>2, <3>2, <3>4
  <2>6. CASE kind \in {"count", "online", "offline"}
    <3>1. ReceiveCount \/ ReceiveStatus(TRUE) \/ ReceiveStatus(FALSE)
      BY <1>6, <2>1, <2>6 DEF PageMessage, Receives
    <3>2. UNCHANGED <<screenVars, verdictVars>>
      BY <3>1 DEF ReceiveCount, ReceiveStatus
    <3>3. OutputPlain'
      BY <1>0, <3>2 DEF OutputPlain, screenVars
    <3>4. Warned => Warned'
      BY <1>0, <2>3, <3>2 DEF Warned, verdictVars
    <3>5. ~Warns(frame)
      BY <2>2, <2>6 DEF Warns
    <3> QED
      BY <2>2, <3>3, <3>4, <3>5
  <2>7. CASE kind = "reset"
    <3>1. ReceiveReset
      BY <1>6, <2>1, <2>7 DEF PageMessage, Receives
    <3>2. chains' = Append(chains, <<>>) /\ pendingWrites' = <<>> /\ screen' = <<>>
          /\ UNCHANGED verdictVars
      BY <3>1 DEF ReceiveReset, ClearScreen
    <3>3. OutputPlain'
      BY <1>0, <3>2 DEF OutputPlain, Plain
    <3>4. Warned => Warned'
      BY <1>0, <2>3, <3>2 DEF Warned, verdictVars
    <3>5. ~Warns(frame)
      BY <2>2, <2>7 DEF Warns
    <3> QED
      BY <2>2, <3>3, <3>4, <3>5
  <2> QED
    BY <2>1, <2>4, <2>5, <2>6, <2>7
<1> QED
  BY <1>1, <1>2, <1>3, <1>4, <1>5, <1>6 DEF PageNext

(* Without a key all of what the agent met is decoded as it is.            *)
LEMMA DecodedAsIs ==
  ASSUME ~HasKey, NEW recs \in Seq(Record)
  PROVE  Whole(recs) = recs /\ Rest(recs) = <<>>
<1>1. Whole(recs) = recs
  BY DEF Whole
<1>2. SubSeq(recs, Len(recs) + 1, Len(recs)) = <<>>
  OBVIOUS
<1> QED
  BY <1>1, <1>2 DEF Rest

(* So does the agent's script, which stops at what it cannot open.         *)
LEMMA AgentBlind ==
  ASSUME RoomInv, BlindInv, ~HasKey, reader = "agent", AgentNext,
         UNCHANGED <<pageVars, reader>>
  PROVE  OutputPlain' /\ InboxAnnounced'
<1>0. /\ OutputPlain /\ InboxAnnounced /\ reader' = "agent"
      /\ UNCHANGED <<screen, pendingWrites, chains>>
  BY DEF BlindInv, pageVars, screenVars
<1>1. CASE Reads
  <2>1. stored \in Seq(Record) /\ printed' \in Seq(Record)
    BY <1>0, <1>1, DecodedAsIs DEF Reads, RoomInv, FeedTypeOK, OutputPlain
  <2>2. ~Mismatch(stored) => Plain(stored)
    BY <2>1 DEF Mismatch, RoomInv, Plain
  <2>3. Plain(printed') /\ buf' = <<>>
    BY <1>0, <1>1, <2>1, <2>2, DecodedAsIs DEF Reads, OutputPlain
  <2>4. socket' = "closed"
    BY <1>1 DEF Reads
  <2> QED
    BY <1>0, <2>1, <2>3, <2>4 DEF OutputPlain, InboxAnnounced
<1>2. CASE FollowOpens
  <2>1. Connected /\ UNCHANGED <<buf, printed>>
    BY <1>2 DEF FollowOpens
  <2>2. OutputPlain'
    BY <1>0, <2>1 DEF OutputPlain
  <2> QED
    BY <2>1, <2>2, OpensAnnounced
<1>3. CASE TimerFires \/ Cut
  <2>1. socket' = "closed" /\ UNCHANGED <<buf, printed>>
    BY <1>3 DEF TimerFires, Cut, Broken
  <2> QED
    BY <1>0, <2>1 DEF OutputPlain, InboxAnnounced
<1>4. CASE FollowMessage
  <2> DEFINE frame == Head(inbox)
  <2>1. PICK kind \in {"size", "bytes", "count", "reset", "online", "offline"} : Hears(kind)
    BY <1>4 DEF FollowMessage, FollowSize, FollowCount, FollowOnline, FollowOffline,
                FollowBytes, FollowReset
  <2>2. /\ frame \in FrameType /\ frame.kind = kind /\ ~Reveals(frame)
        /\ Receives(kind) /\ ~Warned
        /\ (Warns(frame) => Warned') => InboxAnnounced'
    BY <2>1, HandledAnnounced DEF Hears, Warned
  <2>3. Warns(frame) => Warned'
    <3>1. ASSUME Warns(frame) PROVE FollowSize
      BY <1>4, <2>2, <3>1 DEF Warns, FollowMessage, FollowCount, FollowOnline, FollowOffline,
                              FollowBytes, FollowReset, Hears, Receives
    <3> QED
      BY <1>0, <3>1 DEF FollowSize, Stops, Warned, Warns
  <2>4. OutputPlain'
    <3>1. CASE FollowBytes
      <4>1. frame.recs \in Seq(Record) /\ frame.kind = "bytes"
        BY <2>2, <3>1 DEF FollowBytes, Hears, Receives, FrameType
      <4>2. Plain(frame.recs)
        BY <2>2, <4>1 DEF Reveals
      <4> HIDE DEF frame
      <4>3. buf \o frame.recs = frame.recs /\ printed \in Seq(Record) /\ Plain(printed)
        BY <1>0, <4>1 DEF OutputPlain
      <4>4. buf' = <<>> /\ printed' \in {printed, printed \o frame.recs}
        <5>1. \/ buf' = buf /\ printed' = printed
              \/ /\ printed' = printed \o Whole(buf \o frame.recs)
                 /\ buf' = Rest(buf \o frame.recs)
          BY <3>1 DEF FollowBytes, frame
        <5> QED
          BY <1>0, <4>1, <4>3, <5>1, DecodedAsIs DEF OutputPlain
      <4>5. \A q, r \in Seq(Record) : Plain(q) /\ Plain(r) =>
              q \o r \in Seq(Record) /\ Plain(q \o r)
        BY DEF Plain
      <4> QED
        BY <1>0, <4>1, <4>2, <4>3, <4>4, <4>5 DEF OutputPlain
    <3>2. CASE ~FollowBytes
      <4>1. UNCHANGED <<printed, buf>>
        BY <1>4, <3>2 DEF FollowMessage, FollowSize, FollowCount, FollowOnline,
                          FollowOffline, FollowReset, agentVars
      <4> QED
        BY <1>0, <4>1 DEF OutputPlain
    <3> QED
      BY <3>1, <3>2
  <2> QED
    BY <2>2, <2>3, <2>4
<1> QED
  BY <1>1, <1>2, <1>3, <1>4 DEF AgentNext

(* The first state's room.                                                 *)
LEMMA FirstRoom == Init => RoomInv
<1> USE FeedBounds
<1> SUFFICES ASSUME Init PROVE RoomInv
  OBVIOUS
<1>1. stored = <<>> /\ inbox = <<>> /\ FeedInit /\ Len(stored) = 0
  BY DEF Init, FeedInit
<1>2. FeedTypeOK
  <2>1. stored \in Seq(Record) /\ inbox \in Seq(FrameType)
    BY <1>1
  <2>2. made \in 0 .. Records /\ sessions \in 0 .. Sessions /\ departures \in 0 .. Departures
        /\ repeats \in 0 .. Repeats /\ breaks \in 0 .. Breaks /\ seal \in Seals \cup {NoSeal}
        /\ roomSize \in Seals \cup {NoSeal}
    BY <1>1 DEF FeedInit
  <2>3. key \in Keys /\ socket = "connecting" /\ sized \in BOOLEAN /\ online \in BOOLEAN
    BY <1>1 DEF FeedInit
  <2> QED
    BY <2>1, <2>2, <2>3 DEF FeedTypeOK, FrameType
<1> QED
  BY <1>1, <1>2 DEF FeedInit, RoomInv

(* No reader without a key shows ciphertext: what a room sends it is       *)
(* announced by a size before it comes, and its history by the first of    *)
(* its records (room.js, onSize and onMessage; agent.mjs, mismatch).       *)
THEOREM BlindReadersShowNoCiphertext == Spec => []NeverCiphertext
<1> USE FeedBounds
<1>1. Init => RoomInv /\ BlindInv
  <2> SUFFICES ASSUME Init PROVE RoomInv /\ BlindInv
    OBVIOUS
  <2>1. stored = <<>> /\ inbox = <<>> /\ FeedInit
    BY DEF Init, FeedInit
  <2>3. RoomInv
    BY FirstRoom
  <2>4. OutputPlain
    BY DEF Init, PageInit, AgentInit, OutputPlain, Plain
  <2>5. InboxAnnounced
    BY <2>1 DEF FeedInit, InboxAnnounced
  <2> QED
    BY <2>3, <2>4, <2>5 DEF BlindInv
<1>2. RoomInv /\ BlindInv /\ [Next]_vars => RoomInv' /\ BlindInv'
  <2> SUFFICES ASSUME RoomInv, BlindInv, [Next]_vars PROVE RoomInv' /\ BlindInv'
    OBVIOUS
  <2>1. CASE Room
    BY <2>1, RoomBlind, FeedStepRoom DEF Room
  <2>2. CASE Page \/ Agent
    <3>1. RoomInv' /\ UNCHANGED key
      BY <2>2, ReaderConnects, ConnectsRoom DEF Page, Agent, Connects, Connected, Broken, feedVars
    <3>2. ~HasKey => OutputPlain' /\ InboxAnnounced'
      <4>1. CASE Page
        BY <4>1, PageBlind DEF Page
      <4>2. CASE Agent
        BY <4>2, AgentBlind DEF Agent
      <4> QED
        BY <2>2, <4>1, <4>2
    <3> QED
      BY <3>1, <3>2 DEF BlindInv, HasKey
  <2>3. CASE UNCHANGED vars
    <3>1. BlindInv'
      BY <2>3 DEF vars, feedVars, roomVars, pageVars, screenVars, verdictVars, agentVars,
                  BlindInv, OutputPlain, InboxAnnounced, Warned, HasKey
    <3> QED
      BY <2>3, <3>1, ConnectsRoom DEF vars
  <2> QED
    BY <2>1, <2>2, <2>3 DEF Next
<1>3. BlindInv => NeverCiphertext
  <2> SUFFICES ASSUME ~HasKey, OutputPlain
               PROVE  \A r \in ToSet(screen \o pendingWrites \o printed) : r.seal = "plain"
    BY DEF BlindInv, NeverCiphertext
  <2>1. \A q, r \in Seq(Record) : Plain(q) /\ Plain(r) =>
          q \o r \in Seq(Record) /\ Plain(q \o r)
    BY DEF Plain
  <2> QED
    BY <2>1 DEF OutputPlain, Plain, ToSet
<1> QED
  BY <1>1, <1>2, <1>3, PTL DEF Spec

-----------------------------------------------------------------------------
(* What the readers make of a sequence of records.                         *)

(* The least index of some indices is one of them.                         *)
LEMMA MinIn ==
  ASSUME NEW N \in Nat, NEW T \in SUBSET (1 .. N), T # {}
  PROVE  Min(T) \in T
<1>1. PICK n \in T : TRUE
  OBVIOUS
<1>2. T \in SUBSET Nat
  OBVIOUS
<1>3. \E x \in T : \A y \in T : x <= y
  BY <1>1, <1>2, NatLeast
<1> QED
  BY <1>3 DEF Min

(* The agent decodes a first part of what it has, and keeps the rest.      *)
LEMMA WholeAndRest ==
  ASSUME NEW recs \in Seq(Record)
  PROVE  /\ Whole(recs) \in Seq(Record) /\ Rest(recs) \in Seq(Record)
         /\ Whole(recs) \o Rest(recs) = recs
         /\ \E k \in 0 .. Len(recs) : Whole(recs) = SubSeq(recs, 1, k)
<1>1. PICK N \in Nat : N = Len(recs)
  OBVIOUS
<1> DEFINE stray == {i \in DOMAIN recs : HasKey /\ recs[i].seal = "plain"}
<1>2. PICK k \in 0 .. N : Whole(recs) = SubSeq(recs, 1, k)
  <2>1. CASE stray = {}
    <3>1. Whole(recs) = SubSeq(recs, 1, N)
      BY <1>1, <2>1, SubSeqFull DEF Whole
    <3> QED
      BY <3>1
  <2>2. CASE stray # {}
    <3>1. stray \in SUBSET (1 .. N)
      BY <1>1
    <3>2. Min(stray) \in 1 .. N
      <4> HIDE DEF stray
      <4>1. Min(stray) \in stray
        BY <2>2, <3>1, MinIn
      <4> QED
        BY <3>1, <4>1
    <3>3. Whole(recs) = SubSeq(recs, 1, Min(stray) - 1)
      BY <2>2 DEF Whole
    <3> HIDE DEF stray
    <3>4. Min(stray) - 1 \in 0 .. N
      BY <3>2
    <3> QED
      BY <3>3, <3>4
  <2> QED
    BY <2>1, <2>2
<1>3. \A i \in 1 .. N : recs[i] \in Record
  BY <1>1
<1>4. Whole(recs) \in Seq(Record) /\ Len(Whole(recs)) = k
  <2>1. \A i \in 1 .. k : recs[i] \in Record
    BY <1>3
  <2>2. SubSeq(recs, 1, k) \in Seq(Record) /\ Len(SubSeq(recs, 1, k)) = IF 1 <= k THEN k - 1 + 1 ELSE 0
    BY <2>1, SubSeqProperties
  <2> QED
    BY <1>2, <2>2
<1>5. Rest(recs) = SubSeq(recs, k + 1, N)
  BY <1>1, <1>4 DEF Rest
<1>6. Rest(recs) \in Seq(Record)
  <2>1. \A i \in k + 1 .. N : recs[i] \in Record
    BY <1>3
  <2> QED
    BY <1>5, <2>1, SubSeqProperties
<1>7. SubSeq(recs, 1, k) \o SubSeq(recs, k + 1, N) = SubSeq(recs, 1, N)
  <2>1. 1 \in 1 .. Len(recs) + 1 /\ k \in (1 - 1) .. Len(recs) /\ N \in k .. Len(recs)
    BY <1>1
  <2> QED
    BY <2>1, ConcatAdjacentSubSeq
<1>8. SubSeq(recs, 1, N) = recs
  BY <1>1, SubSeqFull
<1> QED
  BY <1>1, <1>2, <1>4, <1>5, <1>6, <1>7, <1>8

(* Each record by itself, or nothing in its place.                         *)
MineUnits(recs) == [i \in DOMAIN recs |-> IF recs[i].seal = "mine" THEN <<recs[i]>> ELSE <<>>]

(* Each record is kept or left out.                                        *)
LEMMA MineUnitsTyped ==
  ASSUME NEW recs \in Seq(Record)
  PROVE  /\ MineUnits(recs) \in Seq(Seq(Record)) /\ Len(MineUnits(recs)) = Len(recs)
         /\ \A i \in 1 .. Len(recs) :
              MineUnits(recs)[i] = IF recs[i].seal = "mine" THEN <<recs[i]>> ELSE <<>>
<1>1. PICK N \in Nat : N = Len(recs)
  OBVIOUS
<1> DEFINE u == MineUnits(recs)
<1>2. DOMAIN recs = 1 .. N
  BY <1>1
<1>3. ASSUME NEW i \in 1 .. N PROVE u[i] = IF recs[i].seal = "mine" THEN <<recs[i]>> ELSE <<>>
  BY <1>2 DEF MineUnits
<1>4. ASSUME NEW i \in 1 .. N PROVE u[i] \in Seq(Record)
  <2>1. recs[i] \in Record
    BY <1>1
  <2>2. <<recs[i]>> \in Seq(Record) /\ <<>> \in Seq(Record)
    BY <2>1
  <2> HIDE DEF u
  <2> QED
    BY <1>3, <2>2
<1>5. u = [i \in 1 .. N |-> u[i]]
  BY <1>2 DEF MineUnits
<1> HIDE DEF u
<1>6. u \in Seq(Seq(Record)) /\ Len(u) = N
  BY <1>4, <1>5
<1> QED
  BY <1>1, <1>3, <1>6 DEF u

(* What the link opens is made of records.                                 *)
LEMMA MineTyped ==
  ASSUME NEW recs \in Seq(Record)
  PROVE  Mine(recs) = FlattenSeq(MineUnits(recs)) /\ Mine(recs) \in Seq(Record)
<1>1. Mine(recs) = FlattenSeq(MineUnits(recs))
  BY DEF Mine, MineUnits
<1>2. MineUnits(recs) \in Seq(Seq(Record))
  BY MineUnitsTyped
<1>3. <<>> \in Seq(Record)
  OBVIOUS
<1>4. FlattenSeq(MineUnits(recs)) \in Seq(Record)
  BY <1>2, <1>3, FlatAppend
<1> QED
  BY <1>1, <1>4

(* So is what the page decrypts.                                           *)
LEMMA OpenedTyped ==
  ASSUME NEW recs \in Seq(Record)
  PROVE  Opened(recs) \in Seq(Record)
<1>1. <<>> \in Seq(Record)
  OBVIOUS
<1> QED
  BY <1>1, MineTyped DEF Opened

-----------------------------------------------------------------------------
(* Types.                                                                  *)

(* The records of a room are numbered, up to the newest.                   *)
Numbered ==
  /\ Len(stored) <= made
  /\ \A i \in 1 .. Len(stored) : stored[i].n = (made - Len(stored)) + i

(* A record more is the newest; a new session has none.                    *)
LEMMA NextNumbered == RoomInv /\ Numbered /\ [Next]_vars => Numbered'
<1> SUFFICES ASSUME RoomInv, Numbered, [Next]_vars PROVE Numbered'
  OBVIOUS
<1>0. stored \in Seq(Record) /\ made \in Nat
  BY DEF RoomInv, FeedTypeOK
<1>1. CASE UNCHANGED <<stored, made>>
  BY <1>1 DEF Numbered
<1>2. CASE SessionBegins
  <2>1. stored' = <<>> /\ made' = made
    BY <1>2 DEF SessionBegins
  <2>2. Len(stored') = 0
    BY <2>1
  <2> QED
    BY <1>0, <2>1, <2>2 DEF Numbered
<1>3. CASE SessionOutputs
  <2> DEFINE x == [n |-> made + 1, seal |-> seal]
  <2>1. made' = made + 1 /\ stored' = Append(stored, x)
    BY <1>3 DEF SessionOutputs
  <2>2. x \in Record
    <3>1. seal \in Seals
      BY <1>3 DEF SessionOutputs, RoomInv, FeedTypeOK
    <3>2. made + 1 \in 1 .. Records
      BY <1>0, <1>3, FeedBounds DEF SessionOutputs
    <3> QED
      BY <3>1, <3>2 DEF Record
  <2>3. x.n = made + 1
    OBVIOUS
  <2> HIDE DEF x
  <2>4. PICK N \in Nat : N = Len(stored)
    BY <1>0
  <2>5. /\ Len(stored') = N + 1 /\ stored'[N + 1] = x
        /\ \A i \in 1 .. N : stored'[i] = stored[i]
    BY <1>0, <2>1, <2>2, <2>4, AppendProperties
  <2>6. ASSUME NEW i \in 1 .. N + 1 PROVE stored'[i].n = (made' - (N + 1)) + i
    <3>1. CASE i = N + 1
      BY <1>0, <2>1, <2>3, <2>5, <3>1
    <3>2. CASE i # N + 1
      <4>1. i \in 1 .. N
        BY <3>2
      <4>2. stored'[i].n = (made - N) + i
        BY <2>4, <2>5, <4>1 DEF Numbered
      <4> QED
        BY <1>0, <2>1, <4>2
    <3> QED
      BY <3>1, <3>2
  <2> QED
    BY <1>0, <2>1, <2>4, <2>5, <2>6 DEF Numbered
<1>4. UNCHANGED roomVars => UNCHANGED <<stored, made>>
  BY DEF roomVars
<1>5. Page \/ Agent \/ UNCHANGED vars => UNCHANGED roomVars
  BY DEF Page, PageNext, TerminalCreated, Decrypted, PageOpens, PageCloses, PageReconnects, PageMessage, Receives,
         Connected, Broken, Agent, AgentNext, Reads, FollowOpens, FollowMessage, FollowSize, FollowCount,
         FollowOnline, FollowOffline, FollowBytes, FollowReset, TimerFires, Cut, Hears, vars, feedVars
<1>6. BroadcasterAttaches \/ BroadcasterLeaves \/ OfflineAgain \/ SessionSizes => UNCHANGED <<stored, made>>
  BY DEF BroadcasterAttaches, BroadcasterLeaves, OfflineAgain, SessionSizes
<1> QED
  BY <1>1, <1>2, <1>3, <1>4, <1>5, <1>6 DEF Next, Room, FeedNext

(* What is written goes to the terminal, or waits for it.                  *)
LEMMA WriteTypes ==
  ASSUME NEW recs \in Seq(Record), screen \in Seq(Record), pendingWrites \in Seq(Record),
         Write(recs)
  PROVE  screen' \in Seq(Record) /\ pendingWrites' \in Seq(Record)
<1>1. screen \o recs \in Seq(Record) /\ pendingWrites \o recs \in Seq(Record)
  OBVIOUS
<1> QED
  BY <1>1 DEF Write

(* An epoch more, a message more in the chain of the last one, a message   *)
(* less in another's.                                                      *)
LEMMA ChainTypes ==
  ASSUME chains \in Seq(Seq(Seq(Record)))
  PROVE  /\ Append(chains, <<>>) \in Seq(Seq(Seq(Record)))
         /\ \A recs \in Seq(Record) :
              [chains EXCEPT ![Len(chains)] = Append(@, recs)] \in Seq(Seq(Seq(Record)))
         /\ \A e \in DOMAIN chains : chains[e] # <<>> =>
              /\ Head(chains[e]) \in Seq(Record)
              /\ [chains EXCEPT ![e] = Tail(@)] \in Seq(Seq(Seq(Record)))
<1> DEFINE Msgs == Seq(Record)
           Chains == Seq(Msgs)
<1>0. <<>> \in Chains /\ chains \in Seq(Chains)
  OBVIOUS
<1> HIDE DEF Msgs
<1>1. ASSUME NEW recs \in Msgs
      PROVE  [chains EXCEPT ![Len(chains)] = Append(@, recs)] \in Seq(Chains)
  <2>1. \A c \in Chains : Append(c, recs) \in Chains
    BY <1>1
  <2> HIDE DEF Chains
  <2>2. \A e \in DOMAIN chains : chains[e] \in Chains
    BY <1>0
  <2>3. CASE Len(chains) \in DOMAIN chains
    BY <1>0, <2>1, <2>2, <2>3
  <2>4. CASE Len(chains) \notin DOMAIN chains
    <3> DEFINE c == [chains EXCEPT ![Len(chains)] = Append(@, recs)]
    <3>1. \A i \in DOMAIN chains : i # Len(chains)
      BY <2>4
    <3>2. DOMAIN c = DOMAIN chains /\ \A i \in DOMAIN chains : c[i] = chains[i]
      BY <3>1
    <3>3. c = [i \in DOMAIN chains |-> c[i]]
      OBVIOUS
    <3>4. PICK N \in Nat : DOMAIN chains = 1 .. N
      BY <1>0
    <3> HIDE DEF c
    <3>5. \A i \in 1 .. N : c[i] \in Chains
      BY <2>2, <3>2, <3>4
    <3>6. c = [i \in 1 .. N |-> c[i]]
      BY <3>3, <3>4
    <3>7. c \in Seq(Chains)
      BY <3>5, <3>6
    <3> QED
      BY <3>7 DEF c
  <2> QED
    BY <2>3, <2>4
<1>2. ASSUME NEW e \in DOMAIN chains, chains[e] # <<>>
      PROVE  Head(chains[e]) \in Msgs /\ [chains EXCEPT ![e] = Tail(@)] \in Seq(Chains)
  <2>1. \A c \in Chains : c # <<>> => Head(c) \in Msgs /\ Tail(c) \in Chains
    OBVIOUS
  <2> HIDE DEF Chains
  <2>2. chains[e] \in Chains
    BY <1>0
  <2> QED
    BY <1>0, <1>2, <2>1, <2>2
<1>3. Append(chains, <<>>) \in Seq(Chains)
  <2> HIDE DEF Chains
  <2> QED
    BY <1>0
<1> QED
  BY <1>1, <1>2, <1>3 DEF Msgs

(* A step of the page keeps its types.                                     *)
LEMMA PageTypes ==
  ASSUME RoomInv, PageTypeOK, PageNext
  PROVE  PageTypeOK'
<1> USE DelayTyped
<1>0. /\ chains \in Seq(Seq(Seq(Record))) /\ screen \in Seq(Record)
      /\ pendingWrites \in Seq(Record) /\ <<>> \in Seq(Record)
  BY DEF PageTypeOK
<1>1. ClearScreen => /\ chains' \in Seq(Seq(Seq(Record))) /\ term' = term
                     /\ screen' \in Seq(Record) /\ pendingWrites' \in Seq(Record)
  BY <1>0, ChainTypes DEF ClearScreen
<1>2. CASE TerminalCreated
  BY <1>0, <1>2 DEF TerminalCreated, PageTypeOK, socketVars, verdictVars
<1>3. CASE \E e \in DOMAIN chains : Decrypted(e)
  <2>1. PICK e \in DOMAIN chains : Decrypted(e)
    BY <1>3
  <2>2. Head(chains[e]) \in Seq(Record) /\ chains' \in Seq(Seq(Seq(Record)))
    BY <1>0, <2>1, ChainTypes DEF Decrypted
  <2>3. Opened(Head(chains[e])) \in Seq(Record)
    BY <2>2, OpenedTyped
  <2>4. screen' \in Seq(Record) /\ pendingWrites' \in Seq(Record)
    BY <1>0, <2>1, <2>3, WriteTypes DEF Decrypted
  <2> QED
    BY <2>1, <2>2, <2>4 DEF Decrypted, PageTypeOK, socketVars
<1>4. CASE PageOpens
  <2>1. /\ chains' \in Seq(Seq(Seq(Record))) /\ term' = term
        /\ screen' \in Seq(Record) /\ pendingWrites' \in Seq(Record)
    BY <1>0, <1>1, <1>4 DEF PageOpens, screenVars
  <2> QED
    BY <1>4, <2>1 DEF PageOpens, PageTypeOK, verdictVars
<1>5. CASE PageCloses
  BY <1>5 DEF PageCloses, PageTypeOK, screenVars, verdictVars
<1>6. CASE PageReconnects
  BY <1>6 DEF PageReconnects, PageTypeOK, pageVars, socketVars, screenVars, verdictVars
<1>7. CASE PageMessage
  <2>1. CASE ReceiveSize
    BY <1>7, <2>1 DEF PageMessage, ReceiveSize, PageTypeOK, screenVars
  <2>2. CASE Receives("bytes") /\ ReceiveBytes
    <3>1. Head(inbox).recs \in Seq(Record)
      <4>1. inbox \in Seq(FrameType) /\ inbox # <<>>
        BY <2>2 DEF Receives, RoomInv, FeedTypeOK, FrameType
      <4>2. Head(inbox) \in FrameType
        BY <4>1
      <4> QED
        BY <4>2 DEF FrameType
    <3>2. chains' \in Seq(Seq(Seq(Record)))
      BY <1>0, <2>2, <3>1, ChainTypes DEF ReceiveBytes
    <3>3. screen' \in Seq(Record) /\ pendingWrites' \in Seq(Record)
      BY <1>0, <2>2, <3>1, WriteTypes DEF ReceiveBytes
    <3> QED
      BY <1>7, <2>2, <3>2, <3>3 DEF PageMessage, ReceiveBytes, PageTypeOK, verdictVars
  <2>3. CASE ReceiveStatus(TRUE) \/ ReceiveStatus(FALSE)
    BY <1>7, <2>3 DEF PageMessage, ReceiveStatus, PageTypeOK, screenVars, verdictVars
  <2>4. CASE ReceiveCount
    BY <1>7, <2>4 DEF PageMessage, ReceiveCount, PageTypeOK, screenVars, verdictVars
  <2>5. CASE ReceiveReset
    BY <1>1, <1>7, <2>5 DEF PageMessage, ReceiveReset, PageTypeOK, verdictVars
  <2> QED
    BY <1>7, <2>1, <2>2, <2>3, <2>4, <2>5 DEF PageMessage
<1> QED
  BY <1>2, <1>3, <1>4, <1>5, <1>6, <1>7 DEF PageNext

(* So does a step of the script: what it has joined after is a number of   *)
(* records.                                                                *)
LEMMA AgentTypes ==
  ASSUME RoomInv, Numbered, AgentTypeOK, AgentNext
  PROVE  AgentTypeOK'
<1>0. /\ stored \in Seq(Record) /\ made - Len(stored) \in 0 .. Records
      /\ buf \in Seq(Record) /\ printed \in Seq(Record)
  <2>1. stored \in Seq(Record) /\ Len(stored) \in Nat /\ made \in 0 .. Records
    BY DEF RoomInv, FeedTypeOK
  <2>2. Len(stored) <= made
    BY DEF Numbered
  <2>3. made - Len(stored) \in 0 .. Records
    <3>1. PICK N \in Nat : N = Len(stored)
      BY <2>1
    <3>2. N <= made
      BY <2>2, <3>1
    <3>3. made - N \in 0 .. Records
      BY <2>1, <3>2, FeedBounds
    <3> QED
      BY <3>1, <3>3
  <2> QED
    BY <2>1, <2>3 DEF AgentTypeOK
<1>1. CASE Reads
  <2>1. Whole(stored) \in Seq(Record) /\ Rest(stored) \in Seq(Record)
    BY <1>0, WholeAndRest
  <2>2. /\ ending' = FALSE /\ lost' = FALSE /\ printed' \in Seq(Record) /\ buf' \in Seq(Record)
        /\ outcome' \in {"ok", "error"} /\ ended' \in {"absent", "mismatch", "wrong", "read"}
    BY <1>0, <1>1, <2>1 DEF Reads, Stops
  <2>3. joined' \in 0 .. Records
    BY <1>0, <1>1 DEF Reads
  <2> QED
    BY <1>1, <2>2, <2>3 DEF Reads, AgentTypeOK
<1>2. CASE FollowOpens
  <2>1. joined' \in 0 .. Records
    BY <1>0, <1>2, SMTT(30) DEF FollowOpens
  <2> QED
    BY <1>2, <2>1 DEF FollowOpens, AgentTypeOK
<1>3. CASE FollowSize
  BY <1>3, ZenonT(60) DEF FollowSize, Stops, AgentTypeOK
<1>4. CASE FollowCount
  BY <1>4 DEF FollowCount, Hears, AgentTypeOK
<1>5. CASE FollowOnline
  BY <1>5 DEF FollowOnline, Hears, AgentTypeOK
<1>6. CASE FollowOffline
  BY <1>6 DEF FollowOffline, Hears, Stops, AgentTypeOK
<1>7. CASE FollowBytes
  <2> DEFINE recs == buf \o Head(inbox).recs
  <2>1. recs \in Seq(Record)
    <3>1. inbox \in Seq(FrameType) /\ inbox # <<>>
      BY <1>7 DEF FollowBytes, Hears, Receives, RoomInv, FeedTypeOK, FrameType
    <3>2. Head(inbox) \in FrameType
      BY <3>1
    <3>3. Head(inbox).recs \in Seq(Record)
      BY <3>2 DEF FrameType
    <3> QED
      BY <1>0, <3>3
  <2>2. Whole(recs) \in Seq(Record) /\ Rest(recs) \in Seq(Record)
    <3> HIDE DEF recs
    <3> QED
      BY <2>1, WholeAndRest
  <2>3. printed \o Whole(recs) \in Seq(Record)
    <3> HIDE DEF recs
    <3> QED
      BY <1>0, <2>2
  <2>4. /\ printed' \in Seq(Record) /\ buf' \in Seq(Record) /\ checked' = TRUE
        /\ sawOutput' \in BOOLEAN
        /\ \/ /\ ending' = FALSE /\ lost' = FALSE /\ outcome' = "error"
              /\ ended' \in {"mismatch", "wrong"}
           \/ UNCHANGED <<outcome, ended, ending, lost>>
    <3>1. \/ /\ Stops("error", "mismatch") \/ Stops("error", "wrong")
             /\ UNCHANGED <<printed, buf, sawOutput>>
          \/ /\ printed' = printed \o Whole(recs) /\ buf' = Rest(recs)
             /\ sawOutput' = (sawOutput \/ Whole(recs) # <<>>)
             /\ UNCHANGED <<outcome, ended, ending, lost>>
      BY <1>7 DEF FollowBytes
    <3>2. sawOutput' \in BOOLEAN
      <4>1. sawOutput' = sawOutput \/ sawOutput' \in BOOLEAN
        BY <3>1
      <4> QED
        BY <4>1 DEF AgentTypeOK
    <3>3. checked' = TRUE
      BY <1>7 DEF FollowBytes
    <3> HIDE DEF recs
    <3> QED
      BY <1>0, <2>2, <2>3, <3>1, <3>2, <3>3 DEF Stops
  <2> HIDE DEF recs
  <2>5. UNCHANGED <<mode, opened, live, joined, heard>>
    BY <1>7 DEF FollowBytes
  <2>6. CASE ending' = FALSE /\ lost' = FALSE /\ outcome' = "error" /\ ended' \in {"mismatch", "wrong"}
    BY <2>4, <2>5, <2>6 DEF AgentTypeOK
  <2>7. CASE UNCHANGED <<outcome, ended, ending, lost>>
    BY <2>4, <2>5, <2>7 DEF AgentTypeOK
  <2> QED
    BY <2>4, <2>6, <2>7
<1>8. CASE FollowReset
  BY <1>8 DEF FollowReset, agentVars, AgentTypeOK
<1>9. CASE TimerFires
  BY <1>9 DEF TimerFires, Stops, AgentTypeOK
<1>10. CASE Cut
  BY <1>10 DEF Cut, Stops, AgentTypeOK
<1> QED
  BY <1>1, <1>2, <1>3, <1>4, <1>5, <1>6, <1>7, <1>8, <1>9, <1>10 DEF AgentNext, FollowMessage

(* A step of the room or its reader keeps what is known of the room.       *)
LEMMA NextRoom == RoomInv /\ [Next]_vars => RoomInv'
BY FeedStepRoom, ReaderConnects, ConnectsRoom DEF Next, Room, Page, Agent, vars

(* At first the room is sound, it has no records, and the variables are    *)
(* typed.                                                                  *)
LEMMA FirstTypes == Init => RoomInv /\ Numbered /\ TypeOK
<1> SUFFICES ASSUME Init PROVE RoomInv /\ Numbered /\ TypeOK
  OBVIOUS
<1>1. RoomInv /\ Numbered
  <2>1. stored = <<>> /\ made = 0 /\ Len(stored) = 0
    BY DEF Init, FeedInit
  <2> QED
    BY <2>1, FirstRoom DEF Numbered
<1>2. AgentTypeOK
  <2>1. <<>> \in Seq(Record) /\ 0 \in 0 .. Records
    BY FeedBounds
  <2> QED
    BY <2>1 DEF Init, AgentInit, AgentTypeOK
<1>3. PageTypeOK
  <2>1. <<>> \in Seq(Record) /\ 0 \in 0 .. MaxDelay /\ << <<>> >> \in Seq(Seq(Seq(Record)))
    BY DelayTyped
  <2> QED
    BY <2>1 DEF Init, PageInit, PageTypeOK
<1> QED
  BY <1>1, <1>2, <1>3 DEF Init, TypeOK, RoomInv

(* The room is sound, its records are numbered, and the variables typed.   *)
LEMMA AlwaysTyped == Spec => [](RoomInv /\ Numbered /\ TypeOK)
<1>1. Init => RoomInv /\ Numbered /\ TypeOK
  BY FirstTypes
<1>2. RoomInv /\ Numbered /\ TypeOK /\ [Next]_vars => RoomInv' /\ Numbered' /\ TypeOK'
  <2> SUFFICES ASSUME RoomInv, Numbered, TypeOK, [Next]_vars
               PROVE  RoomInv' /\ Numbered' /\ TypeOK'
    OBVIOUS
  <2>1. RoomInv' /\ Numbered'
    BY NextRoom, NextNumbered
  <2>2. PageTypeOK'
    <3>1. CASE Page
      BY <3>1, PageTypes DEF Page, TypeOK
    <3>2. CASE ~Page
      BY <3>2 DEF Next, Room, Agent, vars, TypeOK, PageTypeOK, pageVars, socketVars, screenVars,
                  verdictVars
    <3> QED
      BY <3>1, <3>2
  <2>3. AgentTypeOK'
    <3>1. CASE Agent
      BY <3>1, AgentTypes DEF Agent, TypeOK
    <3>2. CASE ~Agent
      BY <3>2 DEF Next, Room, Page, vars, TypeOK, AgentTypeOK, agentVars
    <3> QED
      BY <3>1, <3>2
  <2>4. reader' = reader
    BY DEF Next, Room, Page, Agent, vars
  <2> QED
    BY <2>1, <2>2, <2>3, <2>4 DEF TypeOK, RoomInv
<1> QED
  BY <1>1, <1>2, PTL DEF Spec

(* The variables have their types (room.js and agent.mjs, their state).    *)
THEOREM TypeCorrect == Spec => []TypeOK
BY AlwaysTyped, PTL

-----------------------------------------------------------------------------
(* The follower's timer.                                                   *)

(* The n-th frame of q tells that the broadcaster left; one between those  *)
(* in n and m that it is back.                                             *)
Leaving(q, n) == n \in DOMAIN q /\ q[n].kind = "offline"
Return(q, n, m) == \E k \in DOMAIN q : n < k /\ k < m /\ q[k].kind = "online"

(* When no leaving was announced again, a return is told between two that  *)
(* wait to be handled, before the first when the timer is set already, and *)
(* after the last when the broadcaster is attached.                        *)
Alternate(q, set, on) ==
    /\ \A n, m \in DOMAIN q : Leaving(q, n) /\ Leaving(q, m) /\ n < m => Return(q, n, m)
    /\ set => \A m \in DOMAIN q : Leaving(q, m) => Return(q, 0, m)
    /\ on => \A n \in DOMAIN q : Leaving(q, n) => Return(q, n, Len(q) + 1)
    /\ on /\ set => Return(q, 0, Len(q) + 1)

(* The timer is set only while the last status heard is that the           *)
(* broadcaster has left, and there is another only when that was announced *)
(* again; a follower it stopped hears nothing more.                        *)
TimerInv ==
    /\ ending => heard = "offline"
    /\ lost => repeats > 0
    /\ ended = "timer" => outcome # "running" /\ heard = "offline"
    /\ ended = "lostTimer" => repeats > 0
    /\ reader = "agent" /\ socket = "connecting" => ~ending
    /\ reader = "agent" /\ socket = "open" /\ repeats = 0 => Alternate(inbox, ending, online)

(* A frame that comes last.                                                *)
LEMMA AlternateOn ==
  ASSUME NEW q \in Seq(FrameType), NEW x \in FrameType, NEW set \in BOOLEAN, NEW on \in BOOLEAN,
         NEW off \in BOOLEAN, Alternate(q, set, on),
         x.kind = "online" \/ (x.kind = "offline" /\ on /\ ~off) \/ (x.kind # "offline" /\ (off => on))
  PROVE  Alternate(Append(q, x), set, off)
<1>1. PICK N \in Nat : N = Len(q) /\ DOMAIN q = 1 .. N
  OBVIOUS
<1> DEFINE r == Append(q, x)
<1>2. Len(r) = N + 1 /\ DOMAIN r = 1 .. N + 1 /\ r[N + 1] = x /\ \A i \in 1 .. N : r[i] = q[i]
  BY <1>1
<1> HIDE DEF r
<1>3. \A n, m : m <= N + 1 /\ m \in Nat /\ Return(q, n, m) => Return(r, n, m) /\ Return(r, n, N + 2)
  BY <1>1, <1>2 DEF Return
<1>4. \A n \in 0 .. N : x.kind = "online" => Return(r, n, N + 2)
  <2>1. ASSUME NEW n \in 0 .. N, x.kind = "online" PROVE Return(r, n, N + 2)
    <3>1. N + 1 \in DOMAIN r /\ n < N + 1 /\ N + 1 < N + 2 /\ r[N + 1].kind = "online"
      BY <1>2, <2>1
    <3> QED
      BY <3>1 DEF Return
  <2> QED
    BY <2>1
<1>5. \A n \in 1 .. N : Leaving(r, n) => Leaving(q, n)
  BY <1>1, <1>2 DEF Leaving
<1>6. Leaving(r, N + 1) => x.kind = "offline"
  BY <1>2 DEF Leaving
<1>7. ASSUME NEW n \in DOMAIN r, NEW m \in DOMAIN r, Leaving(r, n), Leaving(r, m), n < m
      PROVE  Return(r, n, m)
  <2>1. n \in 1 .. N /\ Leaving(q, n) /\ m \in 1 .. N + 1
    BY <1>2, <1>5, <1>7
  <2>2. CASE m = N + 1
    <3>1. on
      BY <1>6, <1>7, <2>2
    <3>2. Return(q, n, N + 1)
      BY <1>1, <2>1, <3>1 DEF Alternate
    <3> QED
      BY <1>3, <2>2, <3>2
  <2>3. CASE m # N + 1
    <3>1. m \in 1 .. N /\ Leaving(q, m)
      BY <1>5, <1>7, <2>1, <2>3
    <3>2. Return(q, n, m) /\ m <= N + 1 /\ m \in Nat
      BY <1>1, <1>7, <2>1, <3>1 DEF Alternate
    <3> QED
      BY <1>3, <3>2
  <2> QED
    BY <2>2, <2>3
<1>8. ASSUME set, NEW m \in DOMAIN r, Leaving(r, m) PROVE Return(r, 0, m)
  <2>1. CASE m = N + 1
    <3>1. on
      BY <1>6, <1>8, <2>1
    <3>2. Return(q, 0, N + 1)
      BY <1>1, <1>8, <3>1 DEF Alternate
    <3> QED
      BY <1>3, <2>1, <3>2
  <2>2. CASE m # N + 1
    <3>1. m \in 1 .. N /\ Leaving(q, m)
      BY <1>2, <1>5, <1>8, <2>2
    <3>2. Return(q, 0, m) /\ m <= N + 1 /\ m \in Nat
      BY <1>1, <1>8, <3>1 DEF Alternate
    <3> QED
      BY <1>3, <3>2
  <2> QED
    BY <2>1, <2>2
<1>9. ASSUME off PROVE x.kind = "online" \/ (x.kind # "offline" /\ on)
  BY <1>9
<1>10. ASSUME off, NEW n \in DOMAIN r, Leaving(r, n) PROVE Return(r, n, N + 2)
  <2>1. n \in 1 .. N /\ Leaving(q, n)
    BY <1>2, <1>5, <1>6, <1>9, <1>10
  <2>2. CASE x.kind = "online"
    BY <1>4, <2>1, <2>2
  <2>3. CASE on
    <3>1. Return(q, n, N + 1)
      BY <1>1, <2>1, <2>3 DEF Alternate
    <3> QED
      BY <1>3, <3>1
  <2> QED
    BY <1>9, <1>10, <2>2, <2>3
<1>11. ASSUME off, set PROVE Return(r, 0, N + 2)
  <2>1. CASE x.kind = "online"
    BY <1>4, <2>1
  <2>2. CASE on
    <3>1. Return(q, 0, N + 1)
      BY <1>1, <1>11, <2>2 DEF Alternate
    <3> QED
      BY <1>3, <3>1
  <2> QED
    BY <1>9, <1>11, <2>1, <2>2
<1>12. Len(r) + 1 = N + 2
  BY <1>2
<1>13. Alternate(r, set, off)
  BY <1>7, <1>8, <1>10, <1>11, <1>12 DEF Alternate
<1> QED
  BY <1>13 DEF r

(* The first frame is handled: the timer is set when it tells that the     *)
(* broadcaster left, which it does only when there is none, and a return   *)
(* stops it.                                                               *)
LEMMA AlternateAfter ==
  ASSUME NEW q \in Seq(FrameType), q # <<>>, NEW set \in BOOLEAN, NEW on \in BOOLEAN, Alternate(q, set, on)
  PROVE  /\ Head(q).kind = "offline" => ~set /\ Alternate(Tail(q), TRUE, on)
         /\ Head(q).kind # "online" => Alternate(Tail(q), set, on)
         /\ Alternate(Tail(q), FALSE, on)
<1>1. PICK N \in Nat \ {0} : N = Len(q) /\ DOMAIN q = 1 .. N
  OBVIOUS
<1> DEFINE r == Tail(q)
<1>2. Len(r) = N - 1 /\ DOMAIN r = 1 .. N - 1 /\ Head(q) = q[1] /\ \A i \in 1 .. N - 1 : r[i] = q[i + 1]
  BY <1>1
<1> HIDE DEF r
<1>3. \A n \in 1 .. N - 1 : Leaving(r, n) => n + 1 \in DOMAIN q /\ Leaving(q, n + 1)
  BY <1>1, <1>2 DEF Leaving
<1>4. ASSUME NEW n \in Nat, NEW m \in Nat, n > 0, Return(q, n, m + 1) PROVE Return(r, n - 1, m)
  <2>1. PICK k \in 1 .. N : n < k /\ k < m + 1 /\ q[k].kind = "online"
    BY <1>1, <1>4 DEF Return
  <2>2. PICK j \in 1 .. N - 1 : k = j + 1
    <3>1. k - 1 \in 1 .. N - 1 /\ k = (k - 1) + 1
      BY <1>4, <2>1
    <3> QED
      BY <3>1
  <2>3. j \in DOMAIN r /\ r[j].kind = "online" /\ n - 1 < j /\ j < m
    BY <1>2, <1>4, <2>1, <2>2
  <2> QED
    BY <2>3 DEF Return
<1>5. ASSUME NEW n \in DOMAIN r, NEW m \in DOMAIN r, Leaving(r, n), Leaving(r, m), n < m
      PROVE  Return(r, n, m)
  <2>1. Return(q, n + 1, m + 1)
    <3>1. /\ n \in 1 .. N - 1 /\ m \in 1 .. N - 1 /\ n + 1 < m + 1
          /\ n + 1 \in DOMAIN q /\ Leaving(q, n + 1) /\ m + 1 \in DOMAIN q /\ Leaving(q, m + 1)
      BY <1>2, <1>3, <1>5
    <3> QED
      BY <3>1 DEF Alternate
  <2>2. n \in Nat /\ m \in Nat /\ n + 1 \in Nat /\ n + 1 > 0 /\ (n + 1) - 1 = n
    <3>1. n \in 1 .. N - 1 /\ m \in 1 .. N - 1
      BY <1>2
    <3> QED
      BY <3>1
  <2> QED
    BY <1>4, <2>1, <2>2
<1>6. ASSUME on, NEW n \in DOMAIN r, Leaving(r, n) PROVE Return(r, n, N)
  <2>1. n \in 1 .. N - 1 /\ n + 1 \in DOMAIN q /\ Leaving(q, n + 1)
    BY <1>2, <1>3, <1>6
  <2>2. Return(q, n + 1, N + 1)
    BY <1>1, <1>6, <2>1 DEF Alternate
  <2>3. n + 1 \in Nat /\ n + 1 > 0 /\ (n + 1) - 1 = n
    BY <2>1
  <2> QED
    BY <1>4, <2>2, <2>3
<1>7. Alternate(r, FALSE, on)
  BY <1>1, <1>2, <1>5, <1>6 DEF Alternate
<1>8. ASSUME Head(q).kind = "offline" PROVE ~set /\ Alternate(r, TRUE, on)
  <2>1. 1 \in DOMAIN q /\ Leaving(q, 1)
    BY <1>1, <1>2, <1>8 DEF Leaving
  <2>2. ~Return(q, 0, 1)
    BY <1>1 DEF Return
  <2>3. ~set
    BY <2>1, <2>2 DEF Alternate
  <2>4. ASSUME NEW m \in DOMAIN r, Leaving(r, m) PROVE Return(r, 0, m)
    <3>1. m \in 1 .. N - 1 /\ m + 1 \in DOMAIN q /\ Leaving(q, m + 1) /\ 1 < m + 1
      BY <1>2, <1>3, <2>4
    <3>2. Return(q, 1, m + 1)
      BY <2>1, <3>1 DEF Alternate
    <3>3. m \in Nat /\ 1 - 1 = 0
      BY <3>1
    <3> QED
      BY <1>4, <3>2, <3>3
  <2>5. ASSUME on PROVE Return(r, 0, N)
    <3>1. Return(q, 1, N + 1)
      BY <1>1, <2>1, <2>5 DEF Alternate
    <3>2. 1 - 1 = 0
      OBVIOUS
    <3> QED
      BY <1>4, <3>1, <3>2
  <2> QED
    BY <1>1, <1>2, <1>7, <2>3, <2>4, <2>5 DEF Alternate
<1>9. ASSUME Head(q).kind # "online", set PROVE Alternate(r, TRUE, on)
  <2>1. ASSUME NEW m \in Nat, Return(q, 0, m + 1) PROVE Return(r, 0, m)
    <3>1. Return(q, 1, m + 1)
      <4>1. PICK k \in 1 .. N : 0 < k /\ k < m + 1 /\ q[k].kind = "online"
        BY <1>1, <2>1 DEF Return
      <4>2. 1 < k
        BY <1>2, <1>9, <4>1
      <4> QED
        BY <1>1, <4>1, <4>2 DEF Return
    <3>2. 1 - 1 = 0
      OBVIOUS
    <3> QED
      BY <1>4, <3>1, <3>2
  <2>2. ASSUME NEW m \in DOMAIN r, Leaving(r, m) PROVE Return(r, 0, m)
    <3>1. m \in Nat /\ m + 1 \in DOMAIN q /\ Leaving(q, m + 1)
      BY <1>2, <1>3, <2>2
    <3>2. Return(q, 0, m + 1)
      BY <1>9, <3>1 DEF Alternate
    <3> QED
      BY <2>1, <3>1, <3>2
  <2>3. on => Return(r, 0, N)
    <3>1. on => Return(q, 0, N + 1)
      BY <1>1, <1>9 DEF Alternate
    <3> QED
      BY <2>1, <3>1
  <2> QED
    BY <1>1, <1>2, <1>7, <2>2, <2>3 DEF Alternate
<1>10. set => set = TRUE
  OBVIOUS
<1>11. ~set => set = FALSE
  OBVIOUS
<1> QED
  BY <1>7, <1>8, <1>9, <1>10, <1>11 DEF r

(* One element after another.                                              *)
LEMMA Pair ==
  ASSUME NEW S, NEW a \in S, NEW b \in S
  PROVE  <<a, b>> \in Seq(S) /\ <<a>> \in Seq(S) /\ <<a, b>> = Append(<<a>>, b)
<1> DEFINE p == <<a, b>>
           c == Append(<<a>>, b)
<1>0. <<a>> \in Seq(S) /\ Len(<<a>>) = 1 /\ <<a>>[1] = a
  OBVIOUS
<1>1. p \in Seq(S) /\ Len(p) = 2 /\ p[1] = a /\ p[2] = b
  OBVIOUS
<1>2. c \in Seq(S) /\ Len(c) = 2 /\ c[1] = a /\ c[2] = b
  BY <1>0, AppendProperties
<1> HIDE DEF p, c
<1>3. p = c
  <2>1. \A i \in 1 .. 2 : p[i] = c[i]
    BY <1>1, <1>2
  <2> QED
    BY <1>1, <1>2, <2>1, SeqEqual
<1> QED
  BY <1>0, <1>1, <1>3 DEF p, c

(* A snapshot has one status, that of the broadcaster.                     *)
LEMMA SnapshotAlternates ==
  ASSUME RoomInv
  PROVE  Alternate(Snapshot, FALSE, online)
<1> DEFINE size   == Frame("size", <<>>, roomSize)
           bytes  == Frame("bytes", stored, NoSeal)
           on     == Status(online)
           count  == Frame("count", <<>>, NoSeal)
           first  == IF roomSize = NoSeal THEN <<>> ELSE <<size>>
           second == IF stored = <<>> THEN <<>> ELSE <<bytes>>
           third  == <<on, count>>
<1>0. stored \in Seq(Record) /\ online \in BOOLEAN
  BY DEF RoomInv, FeedTypeOK
<1>1. /\ roomSize # NoSeal => size \in FrameType
      /\ bytes \in FrameType /\ on \in FrameType /\ count \in FrameType
  BY FramesType DEF RoomInv, FeedTypeOK
<1>2. /\ size.kind = "size" /\ bytes.kind = "bytes" /\ count.kind = "count"
      /\ on.kind = IF online THEN "online" ELSE "offline"
  BY DEF Frame, Status
<1>3. Snapshot = (first \o second) \o third
  BY DEF Snapshot
<1> HIDE DEF size, bytes, on, count
<1>4. <<>> \in Seq(FrameType) /\ Alternate(<<>>, FALSE, TRUE)
  BY DEF Alternate
<1>5. first \in Seq(FrameType) /\ Alternate(first, FALSE, TRUE)
  <2>1. CASE roomSize = NoSeal
    BY <1>4, <2>1
  <2>2. CASE roomSize # NoSeal
    <3>1. Append(<<>>, size) = first /\ first \in Seq(FrameType)
      BY <1>1, <2>2
    <3> HIDE DEF first
    <3> QED
      BY <1>1, <1>2, <1>4, <2>2, <3>1, AlternateOn
  <2> QED
    BY <2>1, <2>2
<1> DEFINE both == first \o second
           more == Append(both, on)
<1>6. both \in Seq(FrameType) /\ Alternate(both, FALSE, TRUE)
  <2>1. CASE stored = <<>>
    <3>1. second = <<>>
      BY <2>1
    <3> HIDE DEF first, second
    <3> QED
      BY <1>5, <3>1, ConcatEmptySeq
  <2>2. CASE stored # <<>>
    <3>1. second = <<bytes>>
      BY <2>2
    <3> HIDE DEF first, second
    <3>2. first \o second = Append(first, bytes) /\ Append(first, bytes) \in Seq(FrameType)
      BY <1>1, <1>5, <3>1, AppendIsConcat, AppendProperties
    <3> QED
      BY <1>1, <1>2, <1>5, <3>2, AlternateOn
  <2> QED
    BY <2>1, <2>2
<1> HIDE DEF first, second, both
<1>7. more \in Seq(FrameType) /\ Alternate(more, FALSE, online)
  <2>1. more \in Seq(FrameType)
    BY <1>1, <1>6, AppendProperties
  <2>2. Alternate(more, FALSE, online)
    BY <1>0, <1>1, <1>2, <1>6, AlternateOn
  <2> QED
    BY <2>1, <2>2
<1>8. Alternate(Append(more, count), FALSE, online)
  <2> HIDE DEF more
  <2> QED
    BY <1>0, <1>1, <1>2, <1>7, AlternateOn
<1>9. both \o third = Append(more, count)
  <2>1. <<on, count>> = Append(<<on>>, count) /\ <<on>> \in Seq(FrameType)
    BY <1>1, Pair
  <2>2. Append(<<on>>, count) = <<on>> \o <<count>> /\ <<count>> \in Seq(FrameType)
    BY <1>1, <2>1, AppendIsConcat
  <2>3. (both \o <<on>>) \o <<count>> = both \o (<<on>> \o <<count>>)
    BY <1>6, <2>1, <2>2, ConcatAssociative
  <2>4. more = both \o <<on>>
    BY <1>1, <1>6, AppendIsConcat
  <2> HIDE DEF more
  <2>5. Append(more, count) = more \o <<count>>
    BY <1>1, <1>7, AppendIsConcat
  <2> QED
    BY <2>1, <2>2, <2>3, <2>4, <2>5
<1> QED
  BY <1>3, <1>8, <1>9 DEF both

(* What the room announces keeps that.                                     *)
LEMMA RoomTimer ==
  ASSUME RoomInv, AgentTypeOK, TimerInv, Room
  PROVE  TimerInv'
<1>0. inbox \in Seq(FrameType) /\ online \in BOOLEAN /\ ending \in BOOLEAN /\ repeats \in Nat
  BY FeedBounds DEF RoomInv, FeedTypeOK, FrameType, AgentTypeOK
<1>1. UNCHANGED <<ending, lost, ended, outcome, heard, reader, socket>>
  BY DEF Room, agentVars, FeedNext, BroadcasterAttaches, BroadcasterLeaves, OfflineAgain,
         SessionBegins, SessionSizes, SessionOutputs
<1>2. repeats' \in Nat /\ repeats' >= repeats
  <2>1. repeats' = repeats \/ repeats' = repeats + 1
    BY DEF Room, FeedNext, BroadcasterAttaches, BroadcasterLeaves, OfflineAgain, SessionBegins,
           SessionSizes, SessionOutputs
  <2> QED
    BY <1>0, <2>1
<1>3. ASSUME reader = "agent", socket = "open", repeats' = 0 PROVE Alternate(inbox', ending, online')
  <2>1. repeats = 0 /\ Alternate(inbox, ending, online)
    BY <1>0, <1>1, <1>2, <1>3 DEF TimerInv
  <2>2. ASSUME NEW f \in FrameType, Sends(f), online' \in BOOLEAN,
               \/ f.kind = "online"
               \/ f.kind = "offline" /\ online /\ ~online'
               \/ f.kind # "offline" /\ (online' => online)
        PROVE  Alternate(inbox', ending, online')
    <3>1. inbox' = Append(inbox, f)
      BY <1>3, <2>2 DEF Sends
    <3> QED
      BY <1>0, <2>1, <2>2, <3>1, AlternateOn
  <2>3. CASE BroadcasterAttaches
    <3>1. Status(TRUE).kind = "online" /\ Status(TRUE) \in FrameType
      BY FramesType DEF Status, Frame
    <3> QED
      BY <2>2, <2>3, <3>1 DEF BroadcasterAttaches
  <2>4. CASE BroadcasterLeaves
    <3>1. Status(FALSE).kind = "offline" /\ Status(FALSE) \in FrameType
      BY FramesType DEF Status, Frame
    <3> QED
      BY <2>2, <2>4, <3>1 DEF BroadcasterLeaves
  <2>5. ~OfflineAgain
    BY <1>0, <1>3, <2>1 DEF OfflineAgain
  <2>6. CASE SessionBegins
    <3>1. Frame("reset", <<>>, NoSeal).kind = "reset" /\ Frame("reset", <<>>, NoSeal) \in FrameType
      BY FramesType DEF Frame
    <3> QED
      BY <1>0, <2>2, <2>6, <3>1 DEF SessionBegins
  <2>7. CASE SessionSizes
    <3>1. Frame("size", <<>>, seal).kind = "size" /\ Frame("size", <<>>, seal) \in FrameType
      BY <2>7, FramesType DEF Frame, SessionSizes, RoomInv, FeedTypeOK
    <3> QED
      BY <1>0, <2>2, <2>7, <3>1 DEF SessionSizes
  <2>8. CASE SessionOutputs
    <3> DEFINE record == [n |-> made + 1, seal |-> seal]
               f      == Frame("bytes", <<record>>, NoSeal)
    <3>1. seal \in Seals /\ made + 1 \in 1 .. Records
      BY <2>8, FeedBounds DEF SessionOutputs, RoomInv, FeedTypeOK
    <3>2. record \in Record
      BY <3>1 DEF Record
    <3>3. Sends(f) /\ online' = online
      BY <2>8 DEF SessionOutputs
    <3> HIDE DEF record
    <3>4. <<record>> \in Seq(Record)
      BY <3>2
    <3>5. f \in FrameType /\ f.kind = "bytes"
      BY <3>4, FramesType DEF Frame
    <3> HIDE DEF f
    <3> QED
      BY <1>0, <2>2, <3>3, <3>5
  <2> QED
    BY <2>3, <2>4, <2>5, <2>6, <2>7, <2>8 DEF Room, FeedNext
<1> QED
  BY <1>0, <1>1, <1>2, <1>3 DEF TimerInv

(* So does a frame that the follower handles.                              *)
LEMMA FollowTimer ==
  ASSUME RoomInv, AgentTypeOK, TimerInv, reader = "agent", reader' = reader, FollowMessage
  PROVE  TimerInv'
<1> DEFINE f == Head(inbox)
<1>0. /\ inbox \in Seq(FrameType) /\ online \in BOOLEAN /\ ending \in BOOLEAN /\ lost \in BOOLEAN
      /\ repeats \in Nat
  BY FeedBounds DEF RoomInv, FeedTypeOK, FrameType, AgentTypeOK
<1>1. /\ socket = "open" /\ inbox # <<>> /\ inbox' = Tail(inbox) /\ UNCHANGED <<online, repeats>>
      /\ outcome = "running"
  BY DEF FollowMessage, FollowSize, FollowCount, FollowOnline, FollowOffline, FollowBytes, FollowReset, Hears,
         Receives, roomVars
<1>2. repeats = 0 =>
        /\ f.kind = "offline" => ~ending /\ Alternate(Tail(inbox), TRUE, online)
        /\ f.kind # "online" => Alternate(Tail(inbox), ending, online)
        /\ Alternate(Tail(inbox), FALSE, online)
  <2>1. repeats = 0 => Alternate(inbox, ending, online)
    BY <1>1 DEF TimerInv
  <2> QED
    BY <1>0, <1>1, <2>1, AlternateAfter
<1>3. repeats # 0 => repeats > 0
  BY <1>0
<1> HIDE DEF f
<1>4. CASE FollowSize \/ FollowBytes
  <2>1. f.kind # "online" /\ heard' = heard
    BY <1>4 DEF FollowSize, FollowBytes, Hears, Receives, f
  <2>2. \/ ending' = FALSE /\ lost' = FALSE /\ ended' \in {"mismatch", "wrong"} /\ socket' = "closed"
        \/ UNCHANGED <<ending, lost, ended, outcome, socket>>
    BY <1>4 DEF FollowSize, FollowBytes, Stops
  <2>3. CASE ending' = FALSE /\ lost' = FALSE /\ ended' \in {"mismatch", "wrong"} /\ socket' = "closed"
    BY <2>3 DEF TimerInv
  <2>4. CASE UNCHANGED <<ending, lost, ended, outcome, socket>>
    BY <1>1, <1>2, <2>1, <2>4 DEF TimerInv
  <2> QED
    BY <2>2, <2>3, <2>4
<1>5. CASE FollowCount \/ FollowReset
  <2>1. f.kind # "online" /\ UNCHANGED <<heard, socket, ending, lost, ended, outcome>>
    BY <1>1, <1>5 DEF FollowCount, FollowReset, agentVars, Hears, Receives, f
  <2> QED
    BY <1>1, <1>2, <2>1 DEF TimerInv
<1>6. CASE FollowOnline
  <2>1. ending' = FALSE /\ UNCHANGED <<socket, lost, ended, outcome>>
    BY <1>6 DEF FollowOnline
  <2> QED
    BY <1>1, <1>2, <2>1 DEF TimerInv
<1>7. CASE FollowOffline
  <2>1. f.kind = "offline" /\ heard' = "offline"
    BY <1>7 DEF FollowOffline, Hears, Receives, f
  <2>2. CASE live
    <3>1. ending' = TRUE /\ lost' = (lost \/ ending) /\ UNCHANGED <<socket, outcome, ended>>
      BY <1>7, <2>2 DEF FollowOffline
    <3> QED
      BY <1>1, <1>2, <1>3, <2>1, <3>1 DEF TimerInv
  <2>3. CASE ~live
    <3>1. ending' = FALSE /\ lost' = FALSE /\ ended' = "snapshot" /\ socket' = "closed"
      BY <1>7, <2>3 DEF FollowOffline, Stops
    <3> QED
      BY <1>1, <2>1, <3>1 DEF TimerInv
  <2> QED
    BY <2>2, <2>3
<1> QED
  BY <1>4, <1>5, <1>6, <1>7 DEF FollowMessage

(* A follower that ends by its timer heard that the broadcaster had left   *)
(* and nothing of its return; one it has no handle of exists only when the *)
(* leaving was announced twice (agent.mjs, ws.onmessage).                  *)
THEOREM BlipsAreNotEnds == Spec => []BlipIsNotTheEnd
<1>1. Init => TimerInv
  BY DEF Init, AgentInit, FeedInit, TimerInv
<1>2. RoomInv /\ TypeOK /\ TimerInv /\ [Next]_vars => TimerInv'
  <2> SUFFICES ASSUME RoomInv, AgentTypeOK, TimerInv, [Next]_vars PROVE TimerInv'
    BY DEF TypeOK
  <2>0. ending \in BOOLEAN
    BY DEF AgentTypeOK
  <2>1. CASE Room
    BY <2>1, RoomTimer
  <2>2. CASE Page
    <3>1. reader # "agent" /\ UNCHANGED <<ending, lost, ended, outcome, heard, reader, repeats>>
      <4>1. UNCHANGED roomVars
        BY <2>2 DEF Page, PageNext, TerminalCreated, Decrypted, PageOpens, PageCloses, PageReconnects,
                    PageMessage, Receives, Connected, Broken, feedVars
      <4> QED
        BY <2>2, <4>1 DEF Page, agentVars, roomVars
    <3> QED
      BY <3>1 DEF TimerInv
  <2>3. CASE Agent /\ ~FollowMessage
    <3>1. reader = "agent" /\ reader' = reader
      BY <2>3 DEF Agent
    <3>2. CASE Reads
      BY <3>1, <3>2 DEF Reads, Stops, roomVars, TimerInv
    <3>3. CASE FollowOpens
      <4>1. /\ ~ending /\ inbox' = Snapshot /\ socket' = "open"
            /\ UNCHANGED <<ending, lost, ended, outcome, heard, repeats, online>>
        BY <3>1, <3>3 DEF FollowOpens, Connected, TimerInv, roomVars
      <4>2. Alternate(Snapshot, FALSE, online)
        BY SnapshotAlternates
      <4>3. ending' = FALSE
        BY <2>0, <4>1
      <4> QED
        BY <3>1, <4>1, <4>2, <4>3 DEF TimerInv
    <3>4. CASE TimerFires
      BY <3>1, <3>4 DEF TimerFires, Stops, roomVars, TimerInv
    <3>5. CASE Cut
      BY <3>1, <3>5 DEF Cut, Broken, Stops, roomVars, TimerInv
    <3> QED
      BY <2>3, <3>2, <3>3, <3>4, <3>5 DEF Agent, AgentNext
  <2>4. CASE Agent /\ FollowMessage
    BY <2>4, FollowTimer DEF Agent
  <2>5. CASE UNCHANGED vars
    BY <2>5 DEF vars, agentVars, feedVars, roomVars, TimerInv, Alternate, Leaving, Return
  <2> QED
    BY <2>1, <2>2, <2>3, <2>4, <2>5 DEF Next
<1>3. TimerInv => BlipIsNotTheEnd
  BY DEF TimerInv, BlipIsNotTheEnd
<1>4. Spec => [](RoomInv /\ TypeOK)
  BY AlwaysTyped, PTL
<1> QED
  BY <1>1, <1>2, <1>3, <1>4, PTL DEF Spec

-----------------------------------------------------------------------------
(* The follower's log.                                                     *)

(* The records of each frame.                                              *)
RecsOf(q) == [i \in DOMAIN q |-> q[i].recs]

(* What frames bring, all of it.                                           *)
Brings(q) == FlattenSeq(RecsOf(q))

(* It is made of records, and that of frames after frames is theirs after  *)
(* theirs.                                                                 *)
LEMMA RecsTyped ==
  ASSUME NEW q \in Seq(FrameType), NEW N \in Nat, N = Len(q)
  PROVE  /\ RecsOf(q) \in Seq(Seq(Record)) /\ Len(RecsOf(q)) = N
         /\ \A i \in 1 .. N : RecsOf(q)[i] = q[i].recs
<1> DEFINE S == Seq(Record)
<1>1. \A f \in FrameType : f.recs \in S
  BY DEF FrameType
<1> HIDE DEF S
<1>2. DOMAIN q = 1 .. N /\ \A i \in 1 .. N : q[i] \in FrameType
  OBVIOUS
<1>3. RecsOf(q) = [i \in 1 .. N |-> q[i].recs] /\ \A i \in 1 .. N : q[i].recs \in S
  BY <1>1, <1>2 DEF RecsOf
<1>4. RecsOf(q) \in Seq(S) /\ Len(RecsOf(q)) = N /\ \A i \in 1 .. N : RecsOf(q)[i] = q[i].recs
  BY <1>3
<1> QED
  BY <1>4 DEF S

(* What frames bring are records.                                          *)
LEMMA BringsTyped ==
  ASSUME NEW q \in Seq(FrameType)
  PROVE  Brings(q) \in Seq(Record)
<1>1. RecsOf(q) \in Seq(Seq(Record))
  BY RecsTyped
<1>2. <<>> \in Seq(Record)
  OBVIOUS
<1> QED
  BY <1>1, <1>2, FlatAppend DEF Brings

(* Two runs of frames bring what the first brings, then the second.        *)
LEMMA BringsConcat ==
  ASSUME NEW p \in Seq(FrameType), NEW q \in Seq(FrameType)
  PROVE  Brings(p \o q) = Brings(p) \o Brings(q)
<1>1. PICK M \in Nat, N \in Nat : M = Len(p) /\ N = Len(q)
  OBVIOUS
<1> DEFINE c == p \o q
           S == Seq(Record)
<1>2. /\ c \in Seq(FrameType) /\ Len(c) = M + N
      /\ \A i \in 1 .. M : c[i] = p[i]
      /\ \A i \in 1 .. N : c[M + i] = q[i]
  BY <1>1, ConcatAt
<1> HIDE DEF c, S
<1>3. RecsOf(p) \in Seq(S) /\ Len(RecsOf(p)) = M /\ \A i \in 1 .. M : RecsOf(p)[i] = p[i].recs
  BY <1>1, RecsTyped DEF S
<1>4. RecsOf(q) \in Seq(S) /\ Len(RecsOf(q)) = N /\ \A i \in 1 .. N : RecsOf(q)[i] = q[i].recs
  BY <1>1, RecsTyped DEF S
<1>5. /\ RecsOf(c) \in Seq(S) /\ Len(RecsOf(c)) = M + N
      /\ \A i \in 1 .. M + N : RecsOf(c)[i] = c[i].recs
  <2>1. M + N \in Nat /\ M + N = Len(c)
    BY <1>2
  <2> QED
    BY <1>2, <2>1, RecsTyped DEF S
<1>6. ASSUME NEW i \in 1 .. M PROVE RecsOf(c)[i] = RecsOf(p)[i]
  <2>1. i \in 1 .. M + N
    OBVIOUS
  <2> QED
    BY <1>2, <1>3, <1>5, <2>1
<1>7. ASSUME NEW i \in 1 .. N PROVE RecsOf(c)[M + i] = RecsOf(q)[i]
  <2>1. M + i \in 1 .. M + N
    OBVIOUS
  <2> QED
    BY <1>2, <1>4, <1>5, <2>1
<1>8. Joined(S, RecsOf(p), RecsOf(q), RecsOf(c))
  BY <1>3, <1>4, <1>5, <1>6, <1>7 DEF Joined
<1>9. RecsOf(c) = RecsOf(p) \o RecsOf(q)
  BY <1>8, ConcatKnown
<1>10. FlattenSeq(RecsOf(p) \o RecsOf(q)) = FlattenSeq(RecsOf(p)) \o FlattenSeq(RecsOf(q))
  BY <1>3, <1>4, FlatConcat DEF S
<1> QED
  BY <1>9, <1>10 DEF Brings, c

(* Nothing brings nothing, and a frame what it carries.                    *)
LEMMA BringsSingle ==
  ASSUME NEW f \in FrameType
  PROVE  Brings(<<>>) = <<>> /\ Brings(<<f>>) = f.recs
<1>1. RecsOf(<<>>) = <<>>
  BY DEF RecsOf
<1>2. <<f>> \in Seq(FrameType) /\ Len(<<f>>) = 1 /\ <<f>>[1] = f /\ f.recs \in Seq(Record)
  BY DEF FrameType
<1>3. RecsOf(<<f>>) = <<f.recs>>
  <2> DEFINE S == Seq(Record)
             u == <<f.recs>>
             v == RecsOf(<<f>>)
  <2> HIDE DEF S
  <2>1. u \in Seq(S) /\ Len(u) = 1 /\ u[1] = f.recs
    BY <1>2 DEF S
  <2>2. v \in Seq(S) /\ Len(v) = 1 /\ v[1] = f.recs
    <3>1. 1 \in 1 .. 1 /\ 1 \in Nat
      OBVIOUS
    <3> QED
      BY <1>2, <3>1, RecsTyped DEF S
  <2> HIDE DEF u, v
  <2>3. \A i \in 1 .. 1 : u[i] = v[i]
    BY <2>1, <2>2
  <2>4. u = v
    BY <2>1, <2>2, <2>3, SeqEqual
  <2> QED
    BY <2>4 DEF u, v
<1> QED
  BY <1>1, <1>2, <1>3, FlatNothing, FlatSingle DEF Brings

(* A frame more brings more, and the first brings its part first.          *)
LEMMA BringsNext ==
  ASSUME NEW q \in Seq(FrameType)
  PROVE  /\ \A f \in FrameType : Brings(Append(q, f)) = Brings(q) \o f.recs
         /\ q # <<>> => Brings(q) = Head(q).recs \o Brings(Tail(q))
<1>1. ASSUME NEW f \in FrameType PROVE Brings(Append(q, f)) = Brings(q) \o f.recs
  <2>1. <<f>> \in Seq(FrameType) /\ Append(q, f) = q \o <<f>>
    BY AppendIsConcat
  <2> QED
    BY <2>1, BringsConcat, BringsSingle
<1>2. ASSUME q # <<>> PROVE Brings(q) = Head(q).recs \o Brings(Tail(q))
  <2>1. Head(q) \in FrameType /\ Tail(q) \in Seq(FrameType)
    BY <1>2
  <2>2. <<Head(q)>> \in Seq(FrameType) /\ q = <<Head(q)>> \o Tail(q)
    BY <1>2, <2>1
  <2>3. Brings(<<Head(q)>> \o Tail(q)) = Brings(<<Head(q)>>) \o Brings(Tail(q))
    BY <2>1, <2>2, BringsConcat
  <2> QED
    BY <2>1, <2>2, <2>3, BringsSingle
<1> QED
  BY <1>1, <1>2

(* A snapshot brings the history.                                          *)
LEMMA SnapshotBrings ==
  ASSUME RoomInv
  PROVE  Brings(Snapshot) = stored
<1> DEFINE first  == IF roomSize = NoSeal THEN <<>> ELSE <<Frame("size", <<>>, roomSize)>>
           second == IF stored = <<>> THEN <<>> ELSE <<Frame("bytes", stored, NoSeal)>>
           third  == <<Status(online), Frame("count", <<>>, NoSeal)>>
<1>0. stored \in Seq(Record) /\ <<>> \in Seq(Record)
  BY DEF RoomInv, FeedTypeOK
<1>1. first \in Seq(FrameType) /\ Brings(first) = <<>>
  <2>1. ASSUME roomSize # NoSeal
        PROVE  Frame("size", <<>>, roomSize) \in FrameType
               /\ Frame("size", <<>>, roomSize).recs = <<>>
    BY <2>1, FramesType DEF RoomInv, FeedTypeOK, Frame
  <2>2. Brings(<<>>) = <<>>
    BY FramesType, BringsSingle
  <2>3. CASE roomSize = NoSeal
    BY <2>2, <2>3
  <2>4. CASE roomSize # NoSeal
    <3> DEFINE size == Frame("size", <<>>, roomSize)
    <3>1. size \in FrameType /\ size.recs = <<>> /\ first = <<size>>
      BY <2>1, <2>4
    <3> HIDE DEF size, first
    <3>2. Brings(<<size>>) = <<>> /\ <<size>> \in Seq(FrameType)
      BY <3>1, BringsSingle
    <3> QED
      BY <3>1, <3>2
  <2> QED
    BY <2>3, <2>4
<1>2. second \in Seq(FrameType) /\ Brings(second) = stored
  <2>1. Frame("bytes", stored, NoSeal) \in FrameType /\ Frame("bytes", stored, NoSeal).recs = stored
    BY <1>0, FramesType DEF Frame
  <2> QED
    BY <2>1, BringsSingle
<1>3. third \in Seq(FrameType) /\ Brings(third) = <<>>
  <2> DEFINE on == Status(online)
             count == Frame("count", <<>>, NoSeal)
  <2>1. on \in FrameType /\ count \in FrameType /\ on.recs = <<>> /\ count.recs = <<>>
    BY FramesType DEF RoomInv, FeedTypeOK, Frame, Status
  <2> HIDE DEF on, count
  <2>2. <<on>> \in Seq(FrameType) /\ <<on, count>> = Append(<<on>>, count)
    BY <2>1, Pair
  <2>3. Brings(<<on, count>>) = <<>> \o <<>>
    BY <2>1, <2>2, BringsNext, BringsSingle
  <2>4. <<on, count>> \in Seq(FrameType)
    BY <2>1
  <2> QED
    BY <1>0, <2>3, <2>4 DEF on, count
<1> HIDE DEF first, second, third
<1>4. Snapshot = (first \o second) \o third
  BY DEF Snapshot, first, second, third
<1>5. first \o second \in Seq(FrameType) /\ Brings(first \o second) = <<>> \o stored
  BY <1>1, <1>2, BringsConcat, ConcatProperties
<1>6. Brings(Snapshot) = (<<>> \o stored) \o <<>>
  BY <1>3, <1>4, <1>5, BringsConcat
<1> QED
  BY <1>0, <1>6

(* Only output carries records, some, all of one session.                  *)
Regular(f) ==
  IF f.kind = "bytes" THEN f.recs # <<>> /\ \E s : \A i \in DOMAIN f.recs : f.recs[i].seal = s
                      ELSE f.recs = <<>>

AllRegular(q) == \A i \in DOMAIN q : Regular(q[i])

(* Regular frames after regular frames are regular, and so are the others  *)
(* when the first is handled.                                              *)
LEMMA RegularConcat ==
  ASSUME NEW p \in Seq(FrameType), NEW q \in Seq(FrameType), AllRegular(p), AllRegular(q)
  PROVE  p \o q \in Seq(FrameType) /\ AllRegular(p \o q)
<1>1. PICK M \in Nat, N \in Nat : M = Len(p) /\ N = Len(q)
  OBVIOUS
<1> DEFINE c == p \o q
<1>2. /\ c \in Seq(FrameType) /\ Len(c) = M + N
      /\ \A i \in 1 .. M : c[i] = p[i]
      /\ \A i \in 1 .. N : c[M + i] = q[i]
  BY <1>1, ConcatAt
<1> HIDE DEF c
<1>3. /\ DOMAIN c = 1 .. M + N
      /\ \A i \in 1 .. M : Regular(p[i])
      /\ \A i \in 1 .. N : Regular(q[i])
  <2>1. DOMAIN c = 1 .. M + N /\ DOMAIN p = 1 .. M /\ DOMAIN q = 1 .. N
    BY <1>1, <1>2
  <2> QED
    BY <2>1 DEF AllRegular
<1>4. ASSUME NEW i \in 1 .. M + N PROVE Regular(c[i])
  <2>1. CASE i \in 1 .. M
    BY <1>2, <1>3, <2>1
  <2>2. CASE i \notin 1 .. M
    <3>1. PICK j \in 1 .. N : i = M + j
      <4>1. i - M \in 1 .. N /\ i = M + (i - M)
        BY <2>2
      <4> QED
        BY <4>1
    <3> QED
      BY <1>2, <1>3, <3>1
  <2> QED
    BY <2>1, <2>2
<1> QED
  BY <1>2, <1>3, <1>4 DEF AllRegular, c

(* The frames after a regular one.                                         *)
LEMMA RegularTail ==
  ASSUME NEW q \in Seq(FrameType), q # <<>>, AllRegular(q)
  PROVE  Regular(Head(q)) /\ AllRegular(Tail(q))
<1>1. /\ Len(q) \in Nat \ {0} /\ DOMAIN q = 1 .. Len(q) /\ DOMAIN Tail(q) = 1 .. Len(q) - 1
      /\ \A i \in 1 .. Len(q) - 1 : Tail(q)[i] = q[i + 1]
      /\ q[1] = Head(q)
  OBVIOUS
<1>2. 1 \in DOMAIN q /\ \A i \in 1 .. Len(q) - 1 : i + 1 \in DOMAIN q
  BY <1>1
<1> QED
  BY <1>1, <1>2 DEF AllRegular

(* One regular frame.                                                      *)
LEMMA RegularSingle ==
  ASSUME NEW f, Regular(f)
  PROVE  AllRegular(<<f>>)
  BY DEF AllRegular

(* A snapshot is regular.                                                  *)
LEMMA SnapshotRegular ==
  ASSUME RoomInv
  PROVE  AllRegular(Snapshot)
<1> DEFINE size  == Frame("size", <<>>, roomSize)
           bytes == Frame("bytes", stored, NoSeal)
           on    == Status(online)
           count == Frame("count", <<>>, NoSeal)
           first  == IF roomSize = NoSeal THEN <<>> ELSE <<size>>
           second == IF stored = <<>> THEN <<>> ELSE <<bytes>>
           third  == <<on, count>>
<1>1. Regular(size) /\ Regular(on) /\ Regular(count)
  BY DEF Regular, Frame, Status
<1>2. stored # <<>> => Regular(bytes)
  BY DEF Regular, Frame, RoomInv
<1>3. /\ roomSize # NoSeal => size \in FrameType
      /\ bytes \in FrameType /\ on \in FrameType /\ count \in FrameType
  BY FramesType DEF RoomInv, FeedTypeOK
<1>4. Snapshot = (first \o second) \o third
  BY DEF Snapshot
<1> HIDE DEF size, bytes, on, count
<1>5. AllRegular(<<>>)
  BY DEF AllRegular
<1>6. first \in Seq(FrameType) /\ AllRegular(first)
  BY <1>1, <1>3, <1>5, RegularSingle
<1>7. second \in Seq(FrameType) /\ AllRegular(second)
  BY <1>2, <1>3, <1>5, RegularSingle
<1>8. third \in Seq(FrameType) /\ AllRegular(third)
  BY <1>1, <1>3 DEF AllRegular
<1> HIDE DEF first, second, third
<1> QED
  BY <1>4, <1>6, <1>7, <1>8, RegularConcat

(* Whatever is sent is regular.                                            *)
LEMMA NextRegular == RoomInv /\ AllRegular(inbox) /\ [Next]_vars => AllRegular(inbox')
<1> SUFFICES ASSUME RoomInv, AllRegular(inbox), [Next]_vars PROVE AllRegular(inbox')
  OBVIOUS
<1>0. inbox \in Seq(FrameType) /\ AllRegular(<<>>)
  BY DEF RoomInv, FeedTypeOK, FrameType, AllRegular
<1>1. ASSUME NEW f \in FrameType, Regular(f), Sends(f) PROVE AllRegular(inbox')
  <2>1. <<f>> \in Seq(FrameType) /\ Append(inbox, f) = inbox \o <<f>>
    BY <1>0, AppendIsConcat
  <2>2. AllRegular(inbox \o <<f>>)
    BY <1>0, <1>1, <2>1, RegularSingle, RegularConcat
  <2> QED
    BY <1>1, <2>1, <2>2 DEF Sends
<1>2. CASE Room
  <2>1. PICK f \in FrameType : Sends(f) /\ Regular(f)
    <3>1. Regular(Status(TRUE)) /\ Regular(Status(FALSE)) /\ Regular(Frame("reset", <<>>, NoSeal))
          /\ Regular(Frame("size", <<>>, seal))
      BY DEF Regular, Status, Frame
    <3>2. CASE BroadcasterAttaches \/ BroadcasterLeaves \/ OfflineAgain \/ SessionBegins
      BY <3>1, <3>2, FramesType DEF BroadcasterAttaches, BroadcasterLeaves, OfflineAgain, SessionBegins
    <3>3. CASE SessionSizes
      <4>1. seal \in Seals
        BY <3>3 DEF SessionSizes, RoomInv, FeedTypeOK
      <4> QED
        BY <3>1, <3>3, <4>1, FramesType DEF SessionSizes
    <3>4. CASE SessionOutputs
      <4> DEFINE record == [n |-> made + 1, seal |-> seal]
      <4>1. seal \in Seals /\ made + 1 \in 1 .. Records
        BY <3>4, FeedBounds DEF SessionOutputs, RoomInv, FeedTypeOK
      <4>2. record \in Record /\ Sends(Frame("bytes", <<record>>, NoSeal))
        BY <3>4, <4>1 DEF SessionOutputs, Record
      <4> HIDE DEF record
      <4>3. <<record>> \in Seq(Record) /\ <<record>> # <<>> /\ DOMAIN <<record>> = {1}
        BY <4>2
      <4>4. Regular(Frame("bytes", <<record>>, NoSeal))
        BY <4>3 DEF Regular, Frame
      <4> QED
        BY <4>2, <4>3, <4>4, FramesType
    <3> QED
      BY <1>2, <3>2, <3>3, <3>4 DEF Room, FeedNext
  <2> QED
    BY <1>1, <2>1
<1>3. CASE Connects
  BY <1>0, <1>3, SnapshotRegular, RegularTail DEF Connects, Connected, Broken
<1>4. CASE UNCHANGED feedVars
  BY <1>4 DEF feedVars
<1> QED
  BY <1>2, <1>3, <1>4, ReaderConnects DEF Next, Page, Agent, vars

(* Concatenations of records can be regrouped.                             *)
LEMMA Regroup ==
  ASSUME NEW p \in Seq(Record), NEW q \in Seq(Record), NEW r \in Seq(Record)
  PROVE  p \o q \in Seq(Record) /\ (p \o q) \o r = p \o (q \o r)
  BY ConcatAssociative, ConcatProperties

(* Records numbered from the one after a.                                  *)
NumberedFrom(a, recs) == \A i \in DOMAIN recs : recs[i].n = a + i

(* What it printed, what it waits to decode, and what it has yet to        *)
(* handle.                                                                 *)
Log == (printed \o buf) \o Brings(inbox)

(* A log starts after the records before its snapshot, and that of a       *)
(* follower that is connected ends with the room's last.                   *)
LogInv ==
  /\ NumberedFrom(joined, printed)
  /\ reader = "agent" /\ outcome = "running" /\ (mode = "once" \/ socket = "connecting") =>
       printed = <<>> /\ buf = <<>>
  /\ reader = "agent" /\ mode = "follow" /\ socket = "open" =>
       Len(Log) = made - joined /\ NumberedFrom(joined, Log)

(* A prefix is numbered from the same start.                               *)
LEMMA NumberedPrefix ==
  ASSUME NEW p \in Seq(Record), NEW q \in Seq(Record), NEW a, NumberedFrom(a, p \o q)
  PROVE  NumberedFrom(a, p)
<1>1. PICK M \in Nat, N \in Nat : M = Len(p) /\ N = Len(q)
  OBVIOUS
<1> DEFINE c == p \o q
<1>2. c \in Seq(Record) /\ Len(c) = M + N /\ \A i \in 1 .. M : c[i] = p[i]
  BY <1>1, ConcatAt
<1> HIDE DEF c
<1>3. NumberedFrom(a, c) /\ DOMAIN c = 1 .. M + N /\ DOMAIN p = 1 .. M
  BY <1>1, <1>2 DEF c
<1>4. \A i \in 1 .. M : i \in 1 .. M + N
  OBVIOUS
<1> QED
  BY <1>2, <1>3, <1>4 DEF NumberedFrom

(* The next record continues the numbering.                                *)
LEMMA NumberedNext ==
  ASSUME NEW q \in Seq(Record), NEW a, NumberedFrom(a, q),
         NEW r \in Record, r.n = a + (Len(q) + 1)
  PROVE  Len(q \o <<r>>) = Len(q) + 1 /\ NumberedFrom(a, q \o <<r>>)
<1>1. PICK N \in Nat : N = Len(q)
  OBVIOUS
<1> DEFINE c == q \o <<r>>
<1>2. /\ c \in Seq(Record) /\ Len(c) = N + 1 /\ c[N + 1] = r
      /\ \A i \in 1 .. N : c[i] = q[i]
  BY <1>1
<1> HIDE DEF c
<1>3. ASSUME NEW i \in 1 .. N + 1 PROVE c[i].n = a + i
  <2>1. CASE i = N + 1
    BY <1>1, <1>2, <2>1
  <2>2. CASE i # N + 1
    <3>1. i \in 1 .. N /\ DOMAIN q = 1 .. N
      BY <1>1, <2>2
    <3> QED
      BY <1>2, <3>1 DEF NumberedFrom
  <2> QED
    BY <2>1, <2>2
<1>4. DOMAIN c = 1 .. N + 1
  BY <1>2
<1> QED
  BY <1>1, <1>2, <1>3, <1>4 DEF NumberedFrom, c

(* What is sent to a follower that is connected goes to its log's end.     *)
LEMMA LogGrows ==
  ASSUME RoomInv, TypeOK, socket = "open", NEW f \in FrameType, Sends(f),
         UNCHANGED <<printed, buf>>
  PROVE  Log' = Log \o f.recs /\ Log \in Seq(Record)
<1>1. inbox \in Seq(FrameType) /\ inbox' = Append(inbox, f)
  BY DEF RoomInv, FeedTypeOK, FrameType, Sends
<1>2. Brings(inbox') = Brings(inbox) \o f.recs /\ Brings(inbox) \in Seq(Record)
      /\ f.recs \in Seq(Record)
  BY <1>1, BringsNext, BringsTyped DEF FrameType
<1>3. printed \in Seq(Record) /\ buf \in Seq(Record)
  BY DEF TypeOK, AgentTypeOK
<1>4. printed \o buf \in Seq(Record)
  BY <1>3, ConcatProperties
<1>5. ((printed \o buf) \o Brings(inbox)) \o f.recs = (printed \o buf) \o (Brings(inbox) \o f.recs)
  <2> DEFINE p == printed \o buf
             b == Brings(inbox)
             r == f.recs
  <2>1. p \in Seq(Record) /\ b \in Seq(Record) /\ r \in Seq(Record)
    BY <1>2, <1>4
  <2> HIDE DEF p, b, r
  <2>2. (p \o b) \o r = p \o (b \o r)
    BY <2>1, Regroup
  <2> QED
    BY <2>2 DEF p, b, r
<1>6. (printed \o buf) \o Brings(inbox) \in Seq(Record)
  BY <1>2, <1>4, ConcatProperties
<1> QED
  BY <1>2, <1>5, <1>6 DEF Log

(* The room sends the follower the next record, or none.                   *)
LEMMA RoomLog ==
  ASSUME RoomInv, TypeOK, LogInv, Room
  PROVE  LogInv'
<1>1. UNCHANGED <<joined, printed, buf, reader, mode, outcome, socket>>
  BY DEF Room, agentVars, FeedNext, BroadcasterAttaches, BroadcasterLeaves, OfflineAgain,
         SessionBegins, SessionSizes, SessionOutputs
<1>2. ASSUME reader = "agent", mode = "follow", socket = "open"
      PROVE  Len(Log') = made' - joined' /\ NumberedFrom(joined', Log')
  <2>0. Len(Log) = made - joined /\ NumberedFrom(joined, Log)
    BY <1>2 DEF LogInv
  <2>1. CASE SessionOutputs
    <3> DEFINE record == [n |-> made + 1, seal |-> seal]
    <3>1. made' = made + 1 /\ record \in Record /\ made \in Nat /\ joined \in Nat
      BY <2>1, FeedBounds DEF SessionOutputs, RoomInv, FeedTypeOK, Record, TypeOK, AgentTypeOK
    <3>2. record.n = made + 1
      OBVIOUS
    <3>3. Sends(Frame("bytes", <<record>>, NoSeal))
      BY <2>1 DEF SessionOutputs
    <3> HIDE DEF record
    <3>4. Frame("bytes", <<record>>, NoSeal) \in FrameType
          /\ Frame("bytes", <<record>>, NoSeal).recs = <<record>>
      <4>1. <<record>> \in Seq(Record)
        BY <3>1
      <4> QED
        BY <4>1, FramesType DEF Frame
    <3>5. Log' = Log \o <<record>> /\ Log \in Seq(Record)
      BY <1>1, <1>2, <3>3, <3>4, LogGrows
    <3>6. record.n = joined + (Len(Log) + 1)
      BY <2>0, <3>1, <3>2
    <3>7. Len(Log \o <<record>>) = Len(Log) + 1 /\ NumberedFrom(joined, Log \o <<record>>)
      BY <2>0, <3>1, <3>5, <3>6, NumberedNext
    <3> QED
      BY <1>1, <2>0, <3>1, <3>5, <3>7
  <2>2. CASE ~SessionOutputs
    <3>1. PICK f \in FrameType : Sends(f) /\ f.recs = <<>>
      <4>1. CASE BroadcasterAttaches
        <5>1. Status(TRUE).recs = <<>>
          BY DEF Status, Frame
        <5> QED
          BY <4>1, <5>1, FramesType DEF BroadcasterAttaches
      <4>2. CASE BroadcasterLeaves
        <5>1. Status(FALSE).recs = <<>>
          BY DEF Status, Frame
        <5> QED
          BY <4>2, <5>1, FramesType DEF BroadcasterLeaves
      <4>5. CASE OfflineAgain
        <5>1. Status(FALSE).recs = <<>>
          BY DEF Status, Frame
        <5> QED
          BY <4>5, <5>1, FramesType DEF OfflineAgain
      <4>3. CASE SessionBegins
        <5>1. Frame("reset", <<>>, NoSeal).recs = <<>>
          BY DEF Frame
        <5> QED
          BY <4>3, <5>1, FramesType DEF SessionBegins
      <4>4. CASE SessionSizes
        <5>1. Frame("size", <<>>, seal).recs = <<>> /\ seal \in Seals
          BY <4>4 DEF SessionSizes, RoomInv, FeedTypeOK, Frame
        <5> QED
          BY <4>4, <5>1, FramesType DEF SessionSizes
      <4> QED
        BY <2>2, <4>1, <4>2, <4>3, <4>4, <4>5 DEF Room, FeedNext
    <3>2. Log' = Log \o <<>> /\ Log \in Seq(Record)
      BY <1>1, <1>2, <3>1, LogGrows
    <3>3. Log' = Log
      BY <3>2, ConcatEmptySeq
    <3>4. made' = made
      BY <2>2 DEF Room, FeedNext, BroadcasterAttaches, BroadcasterLeaves, OfflineAgain, SessionBegins,
                  SessionSizes
    <3> QED
      BY <1>1, <2>0, <3>3, <3>4
  <2> QED
    BY <2>1, <2>2
<1> QED
  BY <1>1, <1>2 DEF LogInv

(* Output that is handled stays where it is in the log.                    *)
LEMMA BytesLog ==
  ASSUME RoomInv, TypeOK, LogInv, reader = "agent", FollowBytes, UNCHANGED <<reader>>
  PROVE  LogInv'
<1> DEFINE f == Head(inbox)
           recs == buf \o f.recs
<1>1. /\ socket = "open" /\ mode = "follow" /\ outcome = "running"
      /\ inbox \in Seq(FrameType) /\ inbox # <<>> /\ inbox' = Tail(inbox)
      /\ UNCHANGED <<joined, made, mode>>
  BY DEF FollowBytes, Hears, Receives, RoomInv, FeedTypeOK, FrameType, roomVars
<1>2. f \in FrameType /\ Tail(inbox) \in Seq(FrameType)
  BY <1>1
<1>3. f.recs \in Seq(Record) /\ printed \in Seq(Record) /\ buf \in Seq(Record)
      /\ Brings(Tail(inbox)) \in Seq(Record)
  BY <1>2, BringsTyped DEF FrameType, TypeOK, AgentTypeOK
<1>4. Brings(inbox) = f.recs \o Brings(Tail(inbox))
  BY <1>1, BringsNext
<1>5. \/ socket' = "closed" /\ UNCHANGED <<printed, buf>>
      \/ printed' = printed \o Whole(recs) /\ buf' = Rest(recs) /\ socket' = socket
  BY DEF FollowBytes
<1>6. CASE socket' = "closed" /\ UNCHANGED <<printed, buf>>
  BY <1>1, <1>6 DEF LogInv
<1>7. CASE printed' = printed \o Whole(recs) /\ buf' = Rest(recs) /\ socket' = socket
  <2> HIDE DEF f
  <2>1. recs \in Seq(Record)
    BY <1>3, ConcatProperties
  <2> DEFINE w == Whole(recs)
             x == Rest(recs)
             b == Brings(Tail(inbox))
  <2>2. w \in Seq(Record) /\ x \in Seq(Record) /\ w \o x = recs
    BY <2>1, WholeAndRest
  <2> DEFINE r == f.recs
  <2>4. Log = (printed \o buf) \o (r \o b)
    BY <1>4 DEF Log
  <2>5. Log' = ((printed \o w) \o x) \o b
    BY <1>1, <1>7 DEF Log
  <2>6. recs = buf \o r
    OBVIOUS
  <2>7. /\ b \in Seq(Record) /\ r \in Seq(Record)
        /\ printed \in Seq(Record) /\ buf \in Seq(Record)
    BY <1>3
  <2> HIDE DEF recs, w, x, b, r
  <2>3. w \in Seq(Record) /\ x \in Seq(Record)
    BY <2>2
  <2>8. (printed \o w) \o x = printed \o (buf \o r) /\ printed \o w \in Seq(Record)
    <3>1. (printed \o w) \o x = printed \o (w \o x) /\ printed \o w \in Seq(Record)
      BY <2>7, <2>3, Regroup, SMTT(30)
    <3> QED
      BY <2>2, <2>6, <3>1
  <2>9. (printed \o buf) \o r = printed \o (buf \o r) /\ printed \o buf \in Seq(Record)
    BY <2>7, Regroup
  <2>10. ((printed \o buf) \o r) \o b = (printed \o buf) \o (r \o b)
    BY <2>7, <2>9, Regroup
  <2>11. Log' = Log
    BY <2>4, <2>5, <2>8, <2>9, <2>10
  <2>12. Len(Log') = made' - joined' /\ NumberedFrom(joined', Log')
    BY <1>1, <2>11 DEF LogInv
  <2>13. NumberedFrom(joined, printed')
    <3>1. Log = printed' \o (x \o b) /\ printed' \in Seq(Record) /\ x \o b \in Seq(Record)
      <4>1. printed' = printed \o w
        BY <1>7 DEF w
      <4>2. printed \o w \in Seq(Record) /\ x \o b \in Seq(Record)
        BY <2>2, <2>7, Regroup
      <4>3. ((printed \o w) \o x) \o b = (printed \o w) \o (x \o b)
        <5>1. printed \o w \in Seq(Record)
          BY <4>2
        <5> QED
          BY <2>7, <2>3, <5>1, Regroup, ZenonT(60)
      <4> QED
        BY <2>5, <2>11, <4>1, <4>2, <4>3
    <3>2. NumberedFrom(joined, Log)
      BY <1>1 DEF LogInv
    <3> QED
      BY <3>1, <3>2, NumberedPrefix
  <2> QED
    BY <1>1, <1>7, <2>12, <2>13 DEF LogInv
<1> QED
  BY <1>5, <1>6, <1>7

(* The script keeps its log, starts it with the snapshot, or reads it      *)
(* whole.                                                                  *)
LEMMA AgentLog ==
  ASSUME RoomInv, Numbered, TypeOK, AllRegular(inbox), LogInv, reader = "agent", AgentNext,
         UNCHANGED reader
  PROVE  LogInv'
<1>0. /\ stored \in Seq(Record) /\ printed \in Seq(Record) /\ buf \in Seq(Record)
      /\ made \in Nat /\ Len(stored) \in Nat
      /\ NumberedFrom(made - Len(stored), stored)
  <2>1. stored \in Seq(Record) /\ made \in Nat
    BY DEF RoomInv, FeedTypeOK
  <2>2. DOMAIN stored = 1 .. Len(stored)
    BY <2>1
  <2> QED
    BY <2>1, <2>2 DEF TypeOK, AgentTypeOK, NumberedFrom, Numbered
<1>1. CASE Reads
  <2>1. printed = <<>> /\ mode = "once" /\ mode' = mode
        /\ joined' = made - Len(stored) /\ outcome' # "running"
        /\ printed' \in {printed, Whole(stored)}
    BY <1>1 DEF Reads, LogInv, Stops
  <2>2. NumberedFrom(joined', Whole(stored)) /\ NumberedFrom(joined', <<>>)
    <3>1. Whole(stored) \in Seq(Record) /\ Rest(stored) \in Seq(Record)
          /\ Whole(stored) \o Rest(stored) = stored
      BY <1>0, WholeAndRest
    <3>2. NumberedFrom(joined', Whole(stored))
      BY <1>0, <2>1, <3>1, NumberedPrefix
    <3> QED
      BY <3>2 DEF NumberedFrom
  <2>3. NumberedFrom(joined', printed')
    BY <2>1, <2>2
  <2> QED
    BY <2>1, <2>3 DEF LogInv
<1>2. CASE FollowOpens
  <2>1. /\ printed = <<>> /\ buf = <<>> /\ UNCHANGED <<printed, buf, mode>>
        /\ joined' = made - Len(stored) /\ inbox' = Snapshot /\ socket' = "open" /\ mode = "follow"
        /\ made' = made
    BY <1>2 DEF FollowOpens, Connected, LogInv, roomVars
  <2>2. Log' = stored
    <3>1. Brings(inbox') = stored
      BY <2>1, SnapshotBrings
    <3>2. Log' = (<<>> \o <<>>) \o stored
      BY <2>1, <3>1 DEF Log
    <3> QED
      BY <1>0, <3>2
  <2>3. Len(stored) = made' - joined'
    BY <1>0, <2>1
  <2>4. NumberedFrom(joined', printed')
    BY <2>1 DEF NumberedFrom
  <2> QED
    BY <1>0, <2>1, <2>2, <2>3, <2>4 DEF LogInv
<1>3. CASE FollowBytes
  BY <1>3, BytesLog
<1>4. CASE FollowMessage /\ ~FollowBytes
  <2>1. PICK kind \in {"size", "count", "reset", "online", "offline"} : Hears(kind)
    BY <1>4 DEF FollowMessage, FollowSize, FollowCount, FollowOnline, FollowOffline, FollowReset
  <2>2. /\ inbox \in Seq(FrameType) /\ inbox # <<>> /\ inbox' = Tail(inbox)
        /\ socket = "open" /\ mode = "follow" /\ UNCHANGED made /\ Head(inbox).kind # "bytes"
    BY <2>1 DEF Hears, Receives, RoomInv, FeedTypeOK, FrameType, roomVars
  <2>3. UNCHANGED <<printed, buf, joined, mode>> /\ socket' \in {"open", "closed"}
    BY <1>4, <2>2 DEF FollowMessage, FollowSize, FollowCount, FollowOnline, FollowOffline,
                      FollowReset, agentVars
  <2>4. Log' = Log
    <3>1. Head(inbox).recs = <<>>
      BY <2>2, RegularTail DEF Regular
    <3>2. Brings(Tail(inbox)) \in Seq(Record)
      <4>1. Tail(inbox) \in Seq(FrameType)
        BY <2>2
      <4> QED
        BY <4>1, BringsTyped
    <3>3. Brings(inbox) = <<>> \o Brings(Tail(inbox))
      BY <2>2, <3>1, BringsNext
    <3> QED
      BY <2>2, <2>3, <3>2, <3>3, ConcatEmptySeq DEF Log
  <2> QED
    BY <2>2, <2>3, <2>4 DEF LogInv
<1>5. CASE TimerFires \/ Cut
  <2>1. socket' = "closed" /\ UNCHANGED <<printed, buf, joined, mode>>
    BY <1>5 DEF TimerFires, Cut, Broken
  <2>2. outcome' = "running" => outcome = "running"
    BY <1>5 DEF TimerFires, Cut, Stops
  <2> QED
    BY <2>1, <2>2 DEF LogInv
<1> QED
  BY <1>1, <1>2, <1>3, <1>4, <1>5 DEF AgentNext

(* A follower's log has no hole and repeats nothing (agent.mjs: ws         *)
(* onmessage, decode and what is left in its buffer).                      *)
THEOREM LogsAreWhole == Spec => []LogIsWhole
<1> DEFINE Typed == RoomInv /\ Numbered /\ TypeOK
<1>1. Init => AllRegular(inbox) /\ LogInv
  <2> SUFFICES ASSUME Init PROVE AllRegular(inbox) /\ LogInv
    OBVIOUS
  <2>1. inbox = <<>> /\ socket = "connecting" /\ printed = <<>> /\ buf = <<>>
    BY DEF Init, FeedInit, AgentInit
  <2> QED
    BY <2>1 DEF AllRegular, LogInv, NumberedFrom
<1>2. Typed /\ AllRegular(inbox) /\ LogInv /\ [Next]_vars => AllRegular(inbox)' /\ LogInv'
  <2> SUFFICES ASSUME RoomInv, Numbered, TypeOK, AllRegular(inbox), LogInv, [Next]_vars
               PROVE  AllRegular(inbox)' /\ LogInv'
    OBVIOUS
  <2>1. AllRegular(inbox')
    BY NextRegular
  <2>2. LogInv'
    <3>2. CASE Room
      BY <3>2, RoomLog
    <3>3. CASE Page
      <4>1. reader = "page" /\ reader' = reader /\ UNCHANGED agentVars
        BY <3>3 DEF Page
      <4> QED
        BY <4>1 DEF LogInv, agentVars
    <3>4. CASE Agent
      BY <3>4, AgentLog DEF Agent
    <3>5. CASE UNCHANGED vars
      BY <3>5 DEF vars, feedVars, roomVars, agentVars, LogInv, Log
    <3> QED
      BY <3>2, <3>3, <3>4, <3>5 DEF Next
  <2> QED
    BY <2>1, <2>2
<1>3. Typed /\ LogInv => LogIsWhole
  <2> SUFFICES ASSUME RoomInv, TypeOK, LogInv PROVE LogIsWhole
    OBVIOUS
  <2> DEFINE Numbers(recs) == [i \in DOMAIN recs |-> recs[i].n - joined]
  <2>0. joined \in Nat /\ printed \in Seq(Record) /\ inbox \in Seq(FrameType)
    BY FeedBounds DEF TypeOK, AgentTypeOK, RoomInv, FeedTypeOK, FrameType
  <2>1. ASSUME NEW recs \in Seq(Record), NumberedFrom(joined, recs)
        PROVE  Numbers(recs) = [i \in DOMAIN recs |-> i]
    <3>1. \A i \in DOMAIN recs : i \in Nat /\ recs[i].n = joined + i
      BY <2>1 DEF NumberedFrom
    <3>2. \A i \in DOMAIN recs : recs[i].n - joined = i
      BY <2>0, <3>1
    <3> QED
      BY <3>2
  <2>2. Numbers(printed) = [i \in DOMAIN printed |-> i]
    BY <2>0, <2>1 DEF LogInv
  <2>3. ASSUME reader = "agent", mode = "follow", socket = "open", buf = <<>>
        PROVE  Numbers(printed \o Unread) = [i \in 1 .. made - joined |-> i]
    <3>1. Brings(inbox) \in Seq(Record) /\ Unread = Brings(inbox)
      <4>1. Unread = Brings(inbox)
        BY DEF Unread, Brings, RecsOf
      <4> QED
        BY <2>0, <4>1, BringsTyped
    <3>2. printed \o <<>> = printed
      BY <2>0, ConcatEmptySeq
    <3>3. printed \o Unread = Log
      BY <2>3, <3>1, <3>2 DEF Log
    <3>4. Log \in Seq(Record)
      BY <2>0, <3>1, <3>3, ConcatProperties
    <3>5. DOMAIN Log = 1 .. made - joined /\ NumberedFrom(joined, Log)
      BY <2>3, <3>4 DEF LogInv
    <3> HIDE DEF Numbers
    <3> QED
      BY <2>1, <3>3, <3>4, <3>5
  <2> QED
    BY <2>2, <2>3 DEF LogIsWhole
<1> QED
  BY <1>1, <1>2, <1>3, AlwaysTyped, PTL DEF Spec

-----------------------------------------------------------------------------
(* The page.                                                               *)

(* What the link opens of two parts is what it opens of each.              *)
LEMMA MineConcat ==
  ASSUME NEW p \in Seq(Record), NEW q \in Seq(Record)
  PROVE  Mine(p \o q) = Mine(p) \o Mine(q)
<1>1. PICK M \in Nat, N \in Nat : M = Len(p) /\ N = Len(q)
  OBVIOUS
<1> DEFINE c == p \o q
           S == Seq(Record)
<1>2. /\ c \in Seq(Record) /\ Len(c) = M + N
      /\ \A i \in 1 .. M : c[i] = p[i]
      /\ \A i \in 1 .. N : c[M + i] = q[i]
  BY <1>1, ConcatAt
<1> DEFINE unit(r) == IF r.seal = "mine" THEN <<r>> ELSE <<>>
<1> HIDE DEF c, S, unit
<1>3. /\ MineUnits(p) \in Seq(S) /\ Len(MineUnits(p)) = M
      /\ \A i \in 1 .. M : MineUnits(p)[i] = unit(p[i])
  BY <1>1, MineUnitsTyped DEF S, unit
<1>4. /\ MineUnits(q) \in Seq(S) /\ Len(MineUnits(q)) = N
      /\ \A i \in 1 .. N : MineUnits(q)[i] = unit(q[i])
  BY <1>1, MineUnitsTyped DEF S, unit
<1>5. /\ MineUnits(c) \in Seq(S) /\ Len(MineUnits(c)) = M + N
      /\ \A i \in 1 .. M + N : MineUnits(c)[i] = unit(c[i])
  BY <1>2, MineUnitsTyped DEF S, unit
<1>6. ASSUME NEW i \in 1 .. M PROVE MineUnits(c)[i] = MineUnits(p)[i]
  <2>1. i \in 1 .. M + N
    OBVIOUS
  <2> QED
    BY <1>2, <1>3, <1>5, <2>1
<1>7. ASSUME NEW i \in 1 .. N PROVE MineUnits(c)[M + i] = MineUnits(q)[i]
  <2>1. M + i \in 1 .. M + N
    OBVIOUS
  <2> QED
    BY <1>2, <1>4, <1>5, <2>1
<1>8. Joined(S, MineUnits(p), MineUnits(q), MineUnits(c))
  BY <1>3, <1>4, <1>5, <1>6, <1>7 DEF Joined
<1>9. MineUnits(c) = MineUnits(p) \o MineUnits(q)
  BY <1>8, ConcatKnown
<1>10. FlattenSeq(MineUnits(p) \o MineUnits(q))
         = FlattenSeq(MineUnits(p)) \o FlattenSeq(MineUnits(q))
  BY <1>3, <1>4, FlatConcat DEF S
<1>11. Mine(c) = Mine(p) \o Mine(q)
  BY <1>2, <1>9, <1>10, MineTyped
<1> QED
  BY <1>11 DEF c

(* A message, of some records, all of one session.                         *)
Uniform(recs, s) == recs \in Seq(Record) /\ recs # <<>> /\ \A i \in DOMAIN recs : recs[i].seal = s

(* The link opens it or none of it.                                        *)
LEMMA OpenedUniform ==
  ASSUME NEW recs, NEW s, Uniform(recs, s)
  PROVE  /\ Opened(recs) = Mine(recs)
         /\ Mine(recs) # <<>> <=> s = "mine"
         /\ Mine(<<>>) = <<>>
<1>0. recs \in Seq(Record) /\ recs # <<>> /\ DOMAIN recs = 1 .. Len(recs) /\ Len(recs) \in Nat
      /\ \A i \in 1 .. Len(recs) : recs[i].seal = s
  BY DEF Uniform
<1>1. PICK N \in Nat \ {0} : N = Len(recs)
  <2>1. Len(recs) # 0
    BY <1>0, NoLength
  <2> QED
    BY <1>0, <2>1
<1>2. /\ MineUnits(recs) \in Seq(Seq(Record)) /\ Len(MineUnits(recs)) = N
      /\ \A i \in 1 .. N : MineUnits(recs)[i] = IF s = "mine" THEN <<recs[i]>> ELSE <<>>
  BY <1>0, <1>1, MineUnitsTyped
<1>3. Mine(recs) = FlattenSeq(MineUnits(recs))
  BY <1>0, MineTyped
<1>4. ASSUME s # "mine" PROVE Mine(recs) = <<>>
  <2>1. \A i \in 1 .. Len(MineUnits(recs)) : MineUnits(recs)[i] = <<>>
    BY <1>2, <1>4
  <2> QED
    BY <1>2, <1>3, <2>1, FlatEmpties
<1>5. ASSUME s = "mine" PROVE Mine(recs) # <<>>
  <2>1. PICK f \in [0 .. N -> Seq(Record)] :
          /\ \A n \in 1 .. N : f[n] = f[n - 1] \o MineUnits(recs)[n]
          /\ FlattenSeq(MineUnits(recs)) = f[N]
    <3>1. Flattening(Record, MineUnits(recs), N) # {}
      BY <1>2, FlatSteps
    <3> QED
      BY <3>1 DEF Flattening
  <2>2. N \in 1 .. N /\ N - 1 \in 0 .. N
    OBVIOUS
  <2>3. f[N] = f[N - 1] \o <<recs[N]>>
    BY <1>2, <1>5, <2>1, <2>2
  <2>4. f[N - 1] \in Seq(Record) /\ <<recs[N]>> \in Seq(Record) /\ Len(<<recs[N]>>) = 1
    BY <1>0, <1>1, <2>2
  <2>5. Len(f[N]) = Len(f[N - 1]) + 1 /\ Len(f[N - 1]) \in Nat
    BY <2>3, <2>4, ConcatProperties
  <2>6. f[N] # <<>>
    BY <2>5
  <2> QED
    BY <1>3, <2>1, <2>6
<1>6. Mine(<<>>) = <<>>
  BY FlatNothing DEF Mine
<1>7. Opened(recs) = Mine(recs)
  <2>1. CASE s = "plain"
    BY <1>4, <2>1 DEF Opened
  <2>2. CASE s # "plain"
    <3>1. ~\E i \in DOMAIN recs : recs[i].seal = "plain"
      BY <1>0, <2>2
    <3> QED
      BY <3>1 DEF Opened
  <2> QED
    BY <2>1, <2>2
<1> QED
  BY <1>4, <1>5, <1>6, <1>7

-----------------------------------------------------------------------------
(* What handling frames makes of what a page knows: the records it was     *)
(* sent since it was cleared, and the broadcaster's status.                *)
Effect(h, f) ==
  [recs   |-> IF f.kind = "reset" THEN <<>> ELSE h.recs \o f.recs,
   status |-> IF f.kind \in {"online", "offline"} THEN f.kind ELSE h.status]

(* Handling the frames of q, a page that knows h comes to know t.          *)
Leads(h, q, t) ==
  \E f : f[0] = h /\ f[Len(q)] = t /\ \A n \in 1 .. Len(q) : f[n] = Effect(f[n - 1], q[n])

(* No frames lead nowhere else.                                            *)
LEMMA LeadsNowhere == ASSUME NEW h, NEW t PROVE Leads(h, <<>>, t) <=> h = t
<1>1. Len(<<>>) = 0 /\ 1 .. 0 = {}
  OBVIOUS
<1>2. ASSUME h = t PROVE Leads(h, <<>>, t)
  <2> DEFINE f == [n \in 0 .. 0 |-> h]
  <2>1. f[0] = h
    OBVIOUS
  <2> QED
    BY <1>1, <1>2, <2>1 DEF Leads
<1>3. Leads(h, <<>>, t) => h = t
  BY <1>1 DEF Leads
<1> QED
  BY <1>2, <1>3

(* A frame more.                                                           *)
LEMMA LeadsOn ==
  ASSUME NEW h, NEW t, NEW q \in Seq(FrameType), NEW x \in FrameType, Leads(h, q, t)
  PROVE  Leads(h, Append(q, x), Effect(t, x))
<1>1. PICK N \in Nat : N = Len(q)
  OBVIOUS
<1>2. PICK f : f[0] = h /\ f[N] = t /\ \A n \in 1 .. N : f[n] = Effect(f[n - 1], q[n])
  BY <1>1 DEF Leads
<1> DEFINE r == Append(q, x)
           g == [n \in 0 .. N + 1 |-> IF n = N + 1 THEN Effect(t, x) ELSE f[n]]
<1>3. Len(r) = N + 1 /\ r[N + 1] = x /\ \A i \in 1 .. N : r[i] = q[i]
  BY <1>1
<1>4. g[N + 1] = Effect(t, x) /\ \A n \in 0 .. N : g[n] = f[n]
  <2>1. N + 1 \in 0 .. N + 1 /\ \A n \in 0 .. N : n \in 0 .. N + 1 /\ n # N + 1
    OBVIOUS
  <2> QED
    BY <2>1
<1> HIDE DEF r, g
<1>5. ASSUME NEW n \in 1 .. N + 1 PROVE g[n] = Effect(g[n - 1], r[n])
  <2>1. CASE n = N + 1
    <3>1. n - 1 = N /\ N \in 0 .. N
      BY <2>1
    <3>2. g[n - 1] = t
      BY <1>2, <1>4, <3>1
    <3> QED
      BY <1>3, <1>4, <2>1, <3>2
  <2>2. CASE n # N + 1
    <3>1. n \in 1 .. N /\ n \in 0 .. N /\ n - 1 \in 0 .. N
      BY <2>2
    <3> QED
      BY <1>2, <1>3, <1>4, <3>1
  <2> QED
    BY <2>1, <2>2
<1>6. g[0] = h
  <2>1. 0 \in 0 .. N
    OBVIOUS
  <2> QED
    BY <1>2, <1>4, <2>1
<1>7. g[Len(r)] = Effect(t, x) /\ \A n \in 1 .. Len(r) : g[n] = Effect(g[n - 1], r[n])
  BY <1>3, <1>4, <1>5
<1>8. Leads(h, r, Effect(t, x))
  BY <1>6, <1>7 DEF Leads
<1> QED
  BY <1>8 DEF r

(* The first frame handled.                                                *)
LEMMA LeadsAfter ==
  ASSUME NEW h, NEW t, NEW q \in Seq(FrameType), q # <<>>, Leads(h, q, t)
  PROVE  Leads(Effect(h, Head(q)), Tail(q), t)
<1>1. PICK N \in Nat : N = Len(q)
  OBVIOUS
<1>2. PICK f : f[0] = h /\ f[N] = t /\ \A n \in 1 .. N : f[n] = Effect(f[n - 1], q[n])
  BY <1>1 DEF Leads
<1> DEFINE r == Tail(q)
           g == [n \in 0 .. N - 1 |-> f[n + 1]]
<1>3. N \in Nat \ {0} /\ Len(r) = N - 1 /\ Head(q) = q[1] /\ \A i \in 1 .. N - 1 : r[i] = q[i + 1]
  BY <1>1
<1>4. \A n \in 0 .. N - 1 : g[n] = f[n + 1]
  OBVIOUS
<1> HIDE DEF r, g
<1>5. ASSUME NEW n \in 1 .. N - 1 PROVE g[n] = Effect(g[n - 1], r[n])
  <2>1. /\ n \in 0 .. N - 1 /\ n - 1 \in 0 .. N - 1 /\ n + 1 \in 1 .. N
        /\ (n - 1) + 1 = n /\ (n + 1) - 1 = n
    BY <1>3
  <2>2. g[n - 1] = f[(n - 1) + 1]
    BY <1>4, <2>1
  <2>3. f[n + 1] = Effect(f[(n + 1) - 1], q[n + 1])
    BY <1>2, <2>1
  <2> QED
    BY <1>3, <1>4, <2>1, <2>2, <2>3
<1>6. g[0] = Effect(h, Head(q))
  <2>1. 0 \in 0 .. N - 1 /\ 1 \in 1 .. N /\ 0 + 1 = 1 /\ 1 - 1 = 0
    BY <1>3
  <2>2. g[0] = f[0 + 1] /\ f[1] = Effect(f[1 - 1], q[1])
    BY <1>2, <1>4, <2>1
  <2> QED
    BY <1>2, <1>3, <2>1, <2>2
<1>7. g[Len(r)] = t
  <2>1. N - 1 \in 0 .. N - 1 /\ (N - 1) + 1 = N
    BY <1>3
  <2>2. g[N - 1] = f[(N - 1) + 1]
    BY <1>4, <2>1
  <2> QED
    BY <1>2, <1>3, <2>1, <2>2
<1>8. \A n \in 1 .. Len(r) : g[n] = Effect(g[n - 1], r[n])
  BY <1>3, <1>5
<1>9. Leads(Effect(h, Head(q)), r, t)
  BY <1>6, <1>7, <1>8 DEF Leads
<1> QED
  BY <1>9 DEF r

(* The room as a page is to know it.                                       *)
Known == [recs |-> stored, status |-> IF online THEN "online" ELSE "offline"]

(* So it does, but perhaps for a status that was announced again.          *)
MayKnow(t) ==
  t.recs = stored /\ (repeats = 0 => t.status = IF online THEN "online" ELSE "offline")

(* A snapshot makes it known to a page that knows nothing.                 *)
LEMMA SnapshotLeads ==
  ASSUME RoomInv
  PROVE  Leads([recs |-> <<>>, status |-> "offline"], Snapshot, Known)
<1> DEFINE start  == [recs |-> <<>>, status |-> "offline"]
           size   == Frame("size", <<>>, roomSize)
           bytes  == Frame("bytes", stored, NoSeal)
           on     == Status(online)
           count  == Frame("count", <<>>, NoSeal)
           first  == IF roomSize = NoSeal THEN <<>> ELSE <<size>>
           second == IF stored = <<>> THEN <<>> ELSE <<bytes>>
           third  == <<on, count>>
           middle == [recs |-> stored, status |-> "offline"]
<1>0. stored \in Seq(Record) /\ online \in BOOLEAN /\ <<>> \o <<>> = <<>> /\ <<>> \o stored = stored
      /\ stored \o <<>> = stored
  BY DEF RoomInv, FeedTypeOK
<1>1. /\ roomSize # NoSeal => size \in FrameType
      /\ bytes \in FrameType /\ on \in FrameType /\ count \in FrameType
  BY FramesType DEF RoomInv, FeedTypeOK
<1>2. /\ Effect(start, size) = start /\ Effect(start, bytes) = middle
      /\ Effect(middle, on) = Known /\ Effect(Known, count) = Known
  <2>1. Effect(start, size) = start
    BY <1>0 DEF Effect, Frame
  <2>2. Effect(start, bytes) = middle
    BY <1>0 DEF Effect, Frame
  <2>3. Effect(middle, on) = Known
    BY <1>0 DEF Effect, Status, Frame, Known
  <2>4. Effect(Known, count) = Known
    BY <1>0 DEF Effect, Frame, Known
  <2> QED
    BY <2>1, <2>2, <2>3, <2>4
<1>3. Snapshot = (first \o second) \o third
  BY DEF Snapshot
<1>4. stored = <<>> => middle = start
  OBVIOUS
<1> HIDE DEF start, size, bytes, on, count, middle
<1>5. first \in Seq(FrameType) /\ Leads(start, first, start)
  <2>1. Leads(start, <<>>, start) /\ <<>> \in Seq(FrameType)
    BY LeadsNowhere
  <2>2. CASE roomSize = NoSeal
    BY <2>1, <2>2
  <2>3. CASE roomSize # NoSeal
    <3>1. Append(<<>>, size) = first /\ first \in Seq(FrameType)
      BY <1>1, <2>3
    <3> HIDE DEF first
    <3> QED
      BY <1>1, <1>2, <2>1, <2>3, <3>1, LeadsOn
  <2> QED
    BY <2>2, <2>3
<1>6. first \o second \in Seq(FrameType) /\ Leads(start, first \o second, middle)
  <2>1. CASE stored = <<>>
    <3>1. first \o second = first
      BY <1>5, <2>1, ConcatEmptySeq
    <3> QED
      BY <1>4, <1>5, <2>1, <3>1
  <2>2. CASE stored # <<>>
    <3>1. second = <<bytes>>
      BY <2>2
    <3> HIDE DEF first, second
    <3>2. first \o second = Append(first, bytes) /\ Append(first, bytes) \in Seq(FrameType)
      BY <1>1, <1>5, <3>1, AppendIsConcat, AppendProperties
    <3>3. Leads(start, Append(first, bytes), middle)
      BY <1>1, <1>2, <1>5, LeadsOn
    <3> QED
      BY <3>2, <3>3
  <2> QED
    BY <2>1, <2>2
<1> DEFINE both == first \o second
           more == Append(both, on)
<1> HIDE DEF first, second
<1>7. more \in Seq(FrameType) /\ Leads(start, more, Known)
  <2> HIDE DEF both
  <2>1. both \in Seq(FrameType) /\ Leads(start, both, middle)
    BY <1>6 DEF both
  <2>2. more \in Seq(FrameType)
    BY <1>1, <2>1, AppendProperties
  <2>3. Leads(start, more, Known)
    BY <1>1, <1>2, <2>1, LeadsOn
  <2> QED
    BY <2>2, <2>3
<1>8. Leads(start, Append(more, count), Known)
  <2> HIDE DEF more
  <2> QED
    BY <1>1, <1>2, <1>7, LeadsOn
<1>9. both \o third = Append(more, count)
  <2> HIDE DEF both
  <2>1. both \in Seq(FrameType)
    BY <1>6 DEF both
  <2>2. <<on, count>> = Append(<<on>>, count) /\ <<on>> \in Seq(FrameType)
    BY <1>1, Pair
  <2>3. Append(<<on>>, count) = <<on>> \o <<count>> /\ <<count>> \in Seq(FrameType)
    BY <1>1, <2>2, AppendIsConcat
  <2>4. (both \o <<on>>) \o <<count>> = both \o (<<on>> \o <<count>>)
    BY <2>1, <2>2, <2>3, ConcatAssociative
  <2>5. more = both \o <<on>> /\ Append(more, count) = more \o <<count>>
    <3>1. more = both \o <<on>>
      BY <1>1, <2>1, AppendIsConcat
    <3> HIDE DEF more
    <3>2. Append(more, count) = more \o <<count>>
      BY <1>1, <1>7, AppendIsConcat
    <3> QED
      BY <3>1, <3>2
  <2> HIDE DEF more
  <2> QED
    BY <2>2, <2>3, <2>4, <2>5
<1> QED
  BY <1>3, <1>8, <1>9 DEF start

-----------------------------------------------------------------------------
(* What the page shows, or will once there is a terminal.                  *)
Shown == screen \o pendingWrites

(* The page has decoded these records since it was cleared.                *)
Decoded(raw) ==
  /\ key = "good" =>
       /\ Shown = Mine(raw)
       /\ raw # <<>> => (notice = "hidden" <=> raw[Len(raw)].seal = "mine")
  /\ key = "none" /\ ~encryptedWithoutKey => Shown = raw

(* With those it waits to decrypt they are what it was sent.               *)
Sent(raw) == [recs |-> raw \o FlattenSeq(Last(chains)), status |-> status]

(* A page that never connected shows nothing and waits for nothing.        *)
Blank == screen = <<>> /\ pendingWrites = <<>> /\ Last(chains) = <<>>

(* Only a page with a key has anything to decrypt, and its notice says     *)
(* what it lacks.                                                          *)
PageShape ==
  /\ ~joinedBefore => Blank
  /\ socket = "open" => joinedBefore
  /\ status = "online" => socket = "open"
  /\ IF term THEN pendingWrites = <<>> ELSE screen = <<>>
  /\ chains # <<>>
  /\ \A j \in DOMAIN Last(chains) : \E s : Uniform(Last(chains)[j], s)
  /\ key # "good" => \A e \in DOMAIN chains : chains[e] = <<>>
  /\ key = "unusable" => notice = "unusable"
  /\ key = "none" => notice = IF encryptedWithoutKey THEN "missing" ELSE "hidden"

(* What a page has handled of its connection, and what it has not, is the  *)
(* room.                                                                   *)
PageKnows ==
  socket = "open" =>
    \E raw \in Seq(Record) : Decoded(raw) /\ \E t : Leads(Sent(raw), inbox, t) /\ MayKnow(t)

PageInv == IF reader = "page" THEN PageShape /\ PageKnows ELSE status = "offline"

(* The current epoch's chain is the last one.                              *)
LEMMA LastChain ==
  ASSUME NEW S, NEW c \in Seq(S), c # <<>>
  PROVE  /\ Len(c) \in DOMAIN c /\ Last(c) = c[Len(c)] /\ Last(c) \in S
         /\ \A x \in S : Append(c, x) # <<>> /\ Last(Append(c, x)) = x
<1>1. PICK N \in Nat \ {0} : N = Len(c) /\ DOMAIN c = 1 .. N
  OBVIOUS
<1>2. N \in 1 .. N /\ c[N] \in S
  BY <1>1
<1>3. ASSUME NEW x \in S PROVE Append(c, x) # <<>> /\ Last(Append(c, x)) = x
  BY <1>3 DEF Last
<1> QED
  BY <1>1, <1>2, <1>3 DEF Last

(* The types of what a page has.                                           *)
LEMMA PageParts ==
  ASSUME TypeOK, chains # <<>>
  PROVE  /\ screen \in Seq(Record) /\ pendingWrites \in Seq(Record)
         /\ chains \in Seq(Seq(Seq(Record))) /\ Last(chains) \in Seq(Seq(Record))
         /\ FlattenSeq(Last(chains)) \in Seq(Record) /\ Shown \in Seq(Record)
<1>1. screen \in Seq(Record) /\ pendingWrites \in Seq(Record)
      /\ chains \in Seq(Seq(Seq(Record)))
  BY DEF TypeOK, PageTypeOK
<1>2. Last(chains) \in Seq(Seq(Record))
  <2> DEFINE S == Seq(Seq(Record))
  <2> HIDE DEF S
  <2>1. Last(chains) \in S
    BY <1>1, LastChain DEF S
  <2> QED
    BY <2>1 DEF S
<1>3. <<>> \in Seq(Record)
  OBVIOUS
<1>4. FlattenSeq(Last(chains)) \in Seq(Record)
  BY <1>2, <1>3, FlatAppend
<1>5. Shown \in Seq(Record)
  BY <1>1, ConcatProperties DEF Shown
<1> QED
  BY <1>1, <1>2, <1>4, <1>5

(* Before anything happens.                                                *)
LEMMA FirstPage == Init => PageInv
<1> SUFFICES ASSUME Init PROVE PageInv
  OBVIOUS
<1>1. /\ socket = "connecting" /\ joinedBefore = FALSE /\ status = "offline"
      /\ chains = << <<>> >> /\ term = FALSE /\ pendingWrites = <<>> /\ screen = <<>>
      /\ encryptedWithoutKey = FALSE
      /\ notice = IF key = "unusable" THEN "unusable" ELSE "hidden"
  BY DEF Init, FeedInit, PageInit
<1>2. chains # <<>> /\ Last(chains) = <<>> /\ \A e \in DOMAIN chains : chains[e] = <<>>
  BY <1>1 DEF Last
<1>3. PageShape
  BY <1>1, <1>2 DEF PageShape, Blank
<1>4. PageKnows
  BY <1>1 DEF PageKnows
<1> QED
  BY <1>1, <1>3, <1>4 DEF PageInv

(* A quiet page shows what it knows.                                       *)
LEMMA QuietKnows ==
  ASSUME RoomInv, TypeOK, PageInv
  PROVE  PageShowsRoom
<1>1. status = "online" => socket = "open"
  BY DEF PageInv, PageShape, TypeOK
<1>2. ASSUME reader = "page", Quiet
      PROVE  /\ repeats = 0 => (status = "online" <=> online)
             /\ CASE key = "good" ->
                       /\ screen = Mine(stored)
                       /\ stored # <<>> => (notice = "hidden" <=> seal = "mine")
                  [] key = "none" /\ ~encryptedWithoutKey ->
                       screen = stored /\ notice = "hidden"
                  [] OTHER -> notice # "hidden"
  <2>1. PageShape /\ PageKnows /\ socket = "open" /\ inbox = <<>> /\ Last(chains) = <<>> /\ term
    BY <1>2 DEF PageInv, Quiet
  <2>2. PICK raw \in Seq(Record) :
               Decoded(raw) /\ \E t : Leads(Sent(raw), <<>>, t) /\ MayKnow(t)
    BY <2>1 DEF PageKnows
  <2>3. MayKnow(Sent(raw))
    BY <2>2, LeadsNowhere
  <2>4. raw \o FlattenSeq(Last(chains)) = raw
    BY <2>1, FlatNothing, ConcatEmptySeq
  <2>5. raw = stored /\ (repeats = 0 => status = IF online THEN "online" ELSE "offline")
    BY <2>3, <2>4 DEF Sent, MayKnow
  <2>6. Shown = screen
    <3>1. pendingWrites = <<>> /\ screen \in Seq(Record)
      BY <2>1 DEF PageShape, TypeOK, PageTypeOK
    <3> QED
      BY <3>1, ConcatEmptySeq DEF Shown
  <2>7. stored # <<>> => stored[Len(stored)].seal = seal
    <3>1. ASSUME stored # <<>> PROVE Len(stored) \in DOMAIN stored
      BY <3>1 DEF RoomInv, FeedTypeOK
    <3> QED
      BY <3>1 DEF RoomInv
  <2>8. key \in {"good", "none", "unusable"}
    BY FeedKinds DEF RoomInv, FeedTypeOK
  <2>9. CASE key = "good"
    BY <2>2, <2>5, <2>6, <2>7, <2>9 DEF Decoded
  <2>10. CASE key = "none" /\ ~encryptedWithoutKey
    BY <2>1, <2>2, <2>5, <2>6, <2>10 DEF Decoded, PageShape
  <2>11. CASE key # "good" /\ ~(key = "none" /\ ~encryptedWithoutKey)
    BY <2>1, <2>5, <2>8, <2>11 DEF PageShape
  <2> QED
    BY <2>9, <2>10, <2>11
<1> QED
  BY <1>1, <1>2 DEF PageShowsRoom

(* What the room does is sent to a connected page, so it still knows.      *)
LEMMA RoomKnows ==
  ASSUME RoomInv, TypeOK, PageInv, Room
  PROVE  PageInv'
<1>1. UNCHANGED <<reader, pageVars, key, socket>>
  BY DEF Room, FeedNext, BroadcasterAttaches, BroadcasterLeaves, OfflineAgain, SessionBegins,
         SessionSizes, SessionOutputs
<1>2. (\A raw : Decoded(raw)' = Decoded(raw) /\ Sent(raw)' = Sent(raw)) /\ PageShape' = PageShape
  BY <1>1 DEF pageVars, socketVars, screenVars, verdictVars, Decoded, Shown, Sent, PageShape, Blank
<1>3. PICK f \in FrameType : Sends(f) /\ \A t : MayKnow(t) => MayKnow(Effect(t, f))'
  <2>0. stored \in Seq(Record) /\ stored \o <<>> = stored
    BY ConcatEmptySeq DEF RoomInv, FeedTypeOK
  <2>1. CASE BroadcasterAttaches
    <3>1. \A t : MayKnow(t) => MayKnow(Effect(t, Status(TRUE)))'
      BY <2>0, <2>1 DEF BroadcasterAttaches, Status, Frame, Effect, MayKnow
    <3> QED
      BY <2>1, <3>1, FramesType DEF BroadcasterAttaches
  <2>2. CASE BroadcasterLeaves
    <3>1. \A t : MayKnow(t) => MayKnow(Effect(t, Status(FALSE)))'
      BY <2>0, <2>2 DEF BroadcasterLeaves, Status, Frame, Effect, MayKnow
    <3> QED
      BY <2>2, <3>1, FramesType DEF BroadcasterLeaves
  <2>6. CASE OfflineAgain
    <3>1. \A t : MayKnow(t) => MayKnow(Effect(t, Status(FALSE)))'
      <4>1. repeats' # 0
        BY <2>6 DEF OfflineAgain, RoomInv, FeedTypeOK
      <4> QED
        BY <2>0, <2>6, <4>1 DEF OfflineAgain, Status, Frame, Effect, MayKnow
    <3> QED
      BY <2>6, <3>1, FramesType DEF OfflineAgain
  <2>3. CASE SessionBegins
    <3>1. \A t : MayKnow(t) => MayKnow(Effect(t, Frame("reset", <<>>, NoSeal)))'
      BY <2>3 DEF SessionBegins, Frame, Effect, MayKnow
    <3> QED
      BY <2>3, <3>1, FramesType DEF SessionBegins
  <2>4. CASE SessionSizes
    <3>1. (\A t : MayKnow(t) => MayKnow(Effect(t, Frame("size", <<>>, seal)))') /\ seal \in Seals
      BY <2>0, <2>4 DEF SessionSizes, RoomInv, FeedTypeOK, Frame, Effect, MayKnow
    <3> QED
      BY <2>4, <3>1, FramesType DEF SessionSizes
  <2>5. CASE SessionOutputs
    <3> DEFINE record == [n |-> made + 1, seal |-> seal]
    <3>1. seal \in Seals /\ made + 1 \in 1 .. Records
      BY <2>5, FeedBounds DEF SessionOutputs, RoomInv, FeedTypeOK
    <3>2. record \in Record /\ Sends(Frame("bytes", <<record>>, NoSeal))
          /\ online' = online /\ repeats' = repeats /\ stored' = Append(stored, record)
      BY <2>5, <3>1 DEF SessionOutputs, Record
    <3> HIDE DEF record
    <3>3. <<record>> \in Seq(Record) /\ stored' = stored \o <<record>>
      BY <2>0, <3>2, AppendIsConcat
    <3>4. PICK bytes \in FrameType :
            bytes.kind = "bytes" /\ bytes.recs = <<record>> /\ Sends(bytes)
      <4>1. Frame("bytes", <<record>>, NoSeal) \in FrameType
        BY <3>3, FramesType
      <4>2. Frame("bytes", <<record>>, NoSeal).kind = "bytes"
            /\ Frame("bytes", <<record>>, NoSeal).recs = <<record>>
        BY DEF Frame
      <4> QED
        BY <3>2, <4>1, <4>2
    <3>5. \A t : MayKnow(t) => MayKnow(Effect(t, bytes))'
      BY <3>2, <3>3, <3>4 DEF Effect, MayKnow
    <3> QED
      BY <3>4, <3>5
  <2> QED
    BY <2>1, <2>2, <2>3, <2>4, <2>5, <2>6 DEF Room, FeedNext
<1>4. ASSUME reader = "page" PROVE PageKnows'
  <2> SUFFICES ASSUME socket = "open"
               PROVE  \E raw \in Seq(Record) :
                        Decoded(raw)' /\ \E t : Leads(Sent(raw)', inbox', t) /\ MayKnow(t)'
    BY <1>1 DEF PageKnows
  <2>1. PICK raw \in Seq(Record) : Decoded(raw) /\ \E t : Leads(Sent(raw), inbox, t) /\ MayKnow(t)
    BY <1>4 DEF PageInv, PageKnows
  <2>2. inbox \in Seq(FrameType) /\ inbox' = Append(inbox, f)
    BY <1>3 DEF RoomInv, FeedTypeOK, FrameType, Sends
  <2>3. PICK t : Leads(Sent(raw), inbox, t) /\ MayKnow(t)
    BY <2>1
  <2>4. Leads(Sent(raw), inbox', Effect(t, f)) /\ MayKnow(Effect(t, f))'
    BY <1>3, <2>2, <2>3, LeadsOn
  <2> QED
    BY <1>2, <2>1, <2>4
<1> QED
  BY <1>1, <1>2, <1>4 DEF PageInv, pageVars

(* The terminal comes, and with it what waited for it.                     *)
LEMMA CreatedPage ==
  ASSUME TypeOK, PageShape, TerminalCreated
  PROVE  PageShape' /\ \A raw : Decoded(raw)' = Decoded(raw) /\ Sent(raw)' = Sent(raw)
<1>1. /\ screen = <<>> /\ screen' = pendingWrites /\ pendingWrites' = <<>> /\ term' = TRUE
      /\ UNCHANGED <<feedVars, socketVars, status, chains, verdictVars>>
  BY DEF TerminalCreated, PageShape
<1>2. Shown' = Shown
  <2>1. pendingWrites \in Seq(Record)
    BY DEF TypeOK, PageTypeOK
  <2>2. <<>> \o pendingWrites = pendingWrites /\ pendingWrites \o <<>> = pendingWrites
    BY <2>1, ConcatEmptySeq
  <2> QED
    BY <1>1, <2>2 DEF Shown
<1>3. PageShape'
  BY <1>1 DEF feedVars, socketVars, verdictVars, PageShape, Blank
<1>4. \A raw : Decoded(raw)' = Decoded(raw) /\ Sent(raw)' = Sent(raw)
  BY <1>1, <1>2 DEF feedVars, verdictVars, Decoded, Sent
<1> QED
  BY <1>3, <1>4

(* What it knows is what it knew.                                          *)
LEMMA CreatedKnows ==
  ASSUME TypeOK, PageShape, PageKnows, TerminalCreated
  PROVE  PageShape' /\ PageKnows'
<1>1. (\A t : MayKnow(t)' <=> MayKnow(t)) /\ UNCHANGED <<socket, inbox>>
  BY DEF TerminalCreated, feedVars, roomVars, MayKnow
<1> QED
  BY <1>1, CreatedPage DEF PageKnows

(* A chain that is replaced is the last one, or leaves it.                 *)
ChainReplaced(S, c, e, x, d) ==
  c \in Seq(S) /\ x \in S /\ e \in DOMAIN c /\ d = [c EXCEPT ![e] = x]

(* Its last entry is the new one, or the one it was.                       *)
LastReplaced(S, c, e, x, d) ==
  /\ d # <<>> /\ Last(d) = IF e = Len(c) THEN x ELSE Last(c)
  /\ Last(c) = c[Len(c)] /\ Last(c) \in S /\ Len(c) \in DOMAIN c

(* Replacing an entry changes the last one only if it is that one.         *)
LEMMA LastAmong ==
  ASSUME NEW S, NEW c, NEW x, NEW e, NEW d, ChainReplaced(S, c, e, x, d)
  PROVE  LastReplaced(S, c, e, x, d)
<1>0. c \in Seq(S) /\ x \in S /\ e \in DOMAIN c /\ d = [c EXCEPT ![e] = x]
  BY DEF ChainReplaced
<1>1. PICK N \in Nat \ {0} : N = Len(c) /\ DOMAIN c = 1 .. N
  BY <1>0
<1>2. N \in 1 .. N /\ c[N] \in S
  BY <1>0, <1>1
<1>3. d \in Seq(S) /\ Len(d) = N /\ d[N] = IF e = N THEN x ELSE c[N]
  BY <1>0, <1>1, <1>2
<1>4. d # <<>>
  BY <1>3
<1> QED
  BY <1>1, <1>2, <1>3, <1>4 DEF Last, LastReplaced

(* A message is decrypted: it is more of what the link opens, and the      *)
(* notice is about it.                                                     *)
LEMMA DecryptedPage ==
  ASSUME RoomInv, TypeOK, PageShape, NEW e \in DOMAIN chains, Decrypted(e)
  PROVE  /\ PageShape'
         /\ \A raw \in Seq(Record) : Decoded(raw) =>
              \E r \in Seq(Record) : Decoded(r)' /\ Sent(r)' = Sent(raw)
<1> DEFINE S == Seq(Seq(Record))
<1>0. PICK m, rest : m = Head(chains[e]) /\ rest = Tail(chains[e])
  OBVIOUS
<1>1. /\ chains[e] # <<>> /\ chains' = [chains EXCEPT ![e] = rest]
      /\ UNCHANGED <<feedVars, socketVars, status, term, encryptedWithoutKey>>
      /\ chains # <<>> /\ key = "good"
  BY <1>0 DEF Decrypted, PageShape
<1>2. /\ chains \in Seq(S) /\ chains[e] \in S
      /\ screen \in Seq(Record) /\ pendingWrites \in Seq(Record) /\ Shown \in Seq(Record)
  <2>1. chains \in Seq(S)
    BY <1>1, PageParts
  <2>2. chains[e] \in S
    <3> HIDE DEF S
    <3> QED
      BY <2>1
  <2> QED
    BY <1>1, <2>1, <2>2, PageParts
<1>3. rest \in S /\ m \in Seq(Record)
  BY <1>0, <1>1, <1>2
<1>4. chains' # <<>> /\ Last(chains') = (IF e = Len(chains) THEN rest ELSE Last(chains))
      /\ Last(chains) = chains[Len(chains)] /\ Last(chains) \in S
  <2> HIDE DEF S
  <2>1. chains \in Seq(S) /\ rest \in S /\ chains' = [chains EXCEPT ![e] = rest]
    BY <1>1, <1>2, <1>3
  <2>2. LastReplaced(S, chains, e, rest, chains')
    BY <2>1, LastAmong DEF ChainReplaced
  <2> QED
    BY <2>2 DEF LastReplaced
<1>5. UNCHANGED <<key, socket, inbox, joinedBefore, status, term, encryptedWithoutKey>>
  BY <1>1 DEF feedVars, roomVars, socketVars
<1>6. CASE e # Len(chains)
  <2>1. Last(chains') = Last(chains) /\ UNCHANGED <<pendingWrites, screen, notice>>
    BY <1>4, <1>6 DEF Decrypted
  <2>4. chains' # <<>> /\ key' = "good"
    BY <1>1, <1>4, <1>5
  <2>2. PageShape'
    BY <1>5, <2>1, <2>4 DEF PageShape, Blank
  <2>3. \A raw : Decoded(raw)' = Decoded(raw) /\ Sent(raw)' = Sent(raw)
    BY <1>5, <2>1 DEF Decoded, Sent, Shown
  <2> QED
    BY <2>2, <2>3
<1>7. CASE e = Len(chains)
  <2>0. Last(chains) = chains[e] /\ Last(chains') = rest
    BY <1>4, <1>7
  <2>1. PICK s : Uniform(m, s)
    <3>1. 1 \in DOMAIN chains[e] /\ m = chains[e][1]
      BY <1>0, <1>1, <1>2
    <3> QED
      BY <2>0, <3>1 DEF PageShape
  <2>2. /\ Opened(m) = Mine(m) /\ (Mine(m) # <<>> <=> s = "mine") /\ Mine(m) \in Seq(Record)
        /\ Mine(<<>>) = <<>>
    BY <1>3, <2>1, OpenedUniform, MineTyped
  <2>3. Write(Mine(m)) /\ notice' = IF Mine(m) # <<>> THEN "hidden" ELSE "wrong"
    BY <1>0, <1>7, <2>2 DEF Decrypted
  <2>4. /\ Shown' = Shown \o Mine(m)
        /\ IF term' THEN pendingWrites' = <<>> ELSE screen' = <<>>
    <3>1. CASE term
      <4>1. pendingWrites = <<>> /\ screen' = screen \o Mine(m) /\ pendingWrites' = <<>>
        BY <2>3, <3>1 DEF Write, PageShape
      <4>2. screen \o <<>> = screen /\ (screen \o Mine(m)) \o <<>> = screen \o Mine(m)
        BY <1>2, <2>2, ConcatEmptySeq, ConcatProperties
      <4> QED
        BY <1>5, <3>1, <4>1, <4>2 DEF Shown
    <3>2. CASE ~term
      <4>1. screen = <<>> /\ pendingWrites' = pendingWrites \o Mine(m) /\ screen' = <<>>
        BY <2>3, <3>2 DEF Write, PageShape
      <4>2. <<>> \o (pendingWrites \o Mine(m)) = (<<>> \o pendingWrites) \o Mine(m)
        <5>1. <<>> \in Seq(Record)
          OBVIOUS
        <5> QED
          BY <1>2, <2>2, <5>1, Regroup
      <4> QED
        BY <1>5, <3>2, <4>1, <4>2 DEF Shown
    <3> QED
      BY <3>1, <3>2
  <2>5. PageShape'
    <3>1. joinedBefore
      BY <1>1, <2>0 DEF PageShape, Blank
    <3>2. \A j \in DOMAIN rest : \E z : Uniform(rest[j], z)
      <4>1. \A j \in DOMAIN rest : j + 1 \in DOMAIN chains[e] /\ rest[j] = chains[e][j + 1]
        BY <1>0, <1>1, <1>2
      <4> QED
        BY <2>0, <4>1 DEF PageShape
    <3> QED
      BY <1>1, <1>4, <1>5, <2>0, <2>4, <3>1, <3>2 DEF PageShape
  <2>6. ASSUME NEW raw \in Seq(Record), Decoded(raw)
        PROVE  /\ raw \o m \in Seq(Record) /\ Decoded(raw \o m)'
               /\ Sent(raw \o m)' = Sent(raw)
    <3>1. raw \o m \in Seq(Record) /\ Len(raw \o m) = Len(raw) + Len(m) /\ Len(raw) \in Nat
          /\ Len(m) \in Nat \ {0} /\ (raw \o m)[Len(raw \o m)] = m[Len(m)]
      <4>1. PICK M \in Nat, N \in Nat : M = Len(raw) /\ N = Len(m)
        BY <1>3
      <4>2. N # 0
        BY <1>3, <2>1, <4>1, NoLength DEF Uniform
      <4>3. /\ raw \o m \in Seq(Record) /\ Len(raw \o m) = M + N
            /\ \A i \in 1 .. N : (raw \o m)[M + i] = m[i]
        BY <1>3, <4>1, ConcatAt
      <4>4. N \in 1 .. N
        BY <4>2
      <4> QED
        BY <4>1, <4>2, <4>3, <4>4
    <3>2. Shown' = Mine(raw \o m)
      BY <1>1, <1>3, <2>4, <2>6, MineConcat DEF Decoded
    <3>3. m[Len(m)].seal = s
      <4>1. Len(m) \in DOMAIN m
        BY <1>3, <3>1
      <4> QED
        BY <2>1, <4>1 DEF Uniform
    <3>4. notice' = "hidden" <=> (raw \o m)[Len(raw \o m)].seal = "mine"
      BY <2>2, <2>3, <3>1, <3>3
    <3>5. FlattenSeq(Last(chains)) = m \o FlattenSeq(rest) /\ FlattenSeq(rest) \in Seq(Record)
      <4>1. chains[e] = <<m>> \o rest /\ <<m>> \in S
        <5> DEFINE T == Seq(Record)
        <5> HIDE DEF T
        <5>1. chains[e] \in Seq(T) /\ chains[e] # <<>>
          BY <1>1, <1>2 DEF T
        <5>2. chains[e] = <<m>> \o rest /\ <<m>> \in Seq(T)
          BY <1>0, <5>1
        <5> QED
          BY <5>2 DEF T
      <4>2. FlattenSeq(<<m>> \o rest) = FlattenSeq(<<m>>) \o FlattenSeq(rest)
        BY <1>3, <4>1, FlatConcat
      <4>3. FlattenSeq(<<m>>) = m
        BY <1>3, FlatSingle
      <4>4. <<>> \in Seq(Record)
        OBVIOUS
      <4>5. FlattenSeq(rest) \in Seq(Record)
        BY <1>3, <4>4, FlatAppend
      <4> QED
        BY <2>0, <4>1, <4>2, <4>3, <4>5
    <3>6. (raw \o m) \o FlattenSeq(rest) = raw \o FlattenSeq(Last(chains))
      <4>1. (raw \o m) \o FlattenSeq(rest) = raw \o (m \o FlattenSeq(rest))
        BY <1>3, <3>5, Regroup
      <4> QED
        BY <3>5, <4>1
    <3>7. Decoded(raw \o m)'
      BY <1>1, <1>5, <3>2, <3>4 DEF Decoded
    <3>8. Sent(raw \o m)' = Sent(raw)
      BY <1>5, <2>0, <3>6 DEF Sent
    <3> QED
      BY <3>1, <3>7, <3>8
  <2> QED
    BY <2>5, <2>6
<1> QED
  BY <1>6, <1>7

(* It knows no more than before.                                           *)
LEMMA DecryptedKnows ==
  ASSUME RoomInv, TypeOK, PageShape, PageKnows, NEW e \in DOMAIN chains, Decrypted(e)
  PROVE  PageShape' /\ PageKnows'
<1>1. (\A t : MayKnow(t)' <=> MayKnow(t)) /\ UNCHANGED <<socket, inbox>>
  BY DEF Decrypted, feedVars, roomVars, MayKnow
<1>2. ASSUME socket = "open"
      PROVE  \E raw \in Seq(Record) :
               Decoded(raw)' /\ \E t : Leads(Sent(raw)', inbox', t) /\ MayKnow(t)'
  <2>1. PICK raw \in Seq(Record) : Decoded(raw) /\ \E t : Leads(Sent(raw), inbox, t) /\ MayKnow(t)
    BY <1>2 DEF PageKnows
  <2>2. PICK r \in Seq(Record) : Decoded(r)' /\ Sent(r)' = Sent(raw)
    BY <2>1, DecryptedPage
  <2> QED
    BY <1>1, <2>1, <2>2
<1> QED
  BY <1>1, <1>2, DecryptedPage DEF PageKnows

(* A connection starts the page over: it shows nothing, and is sent all.   *)
LEMMA OpensPage ==
  ASSUME RoomInv, TypeOK, PageShape, PageOpens
  PROVE  PageShape' /\ Decoded(<<>>)' /\ Sent(<<>>)' = [recs |-> <<>>, status |-> "offline"]
<1>1. /\ socket = "connecting" /\ socket' = "open" /\ inbox' = Snapshot /\ joinedBefore' = TRUE
      /\ UNCHANGED <<roomVars, key, status, verdictVars>>
  BY DEF PageOpens, Connected
<1>2. /\ screen' = <<>> /\ pendingWrites' = <<>> /\ Last(chains') = <<>> /\ chains' # <<>>
      /\ (\A e \in DOMAIN chains : chains[e] = <<>>) => \A e \in DOMAIN chains' : chains'[e] = <<>>
  <2>1. CASE ~joinedBefore
    BY <2>1 DEF PageOpens, PageShape, Blank, screenVars
  <2>2. CASE joinedBefore
    <3> DEFINE S == Seq(Seq(Record))
    <3>1. chains \in Seq(S) /\ <<>> \in S /\ chains # <<>>
      BY PageParts DEF PageShape
    <3>2. chains' = Append(chains, <<>>) /\ pendingWrites' = <<>> /\ screen' = <<>>
      BY <2>2 DEF PageOpens, ClearScreen
    <3> HIDE DEF S
    <3>3. chains' # <<>> /\ Last(chains') = <<>>
      BY <3>1, <3>2, LastChain
    <3>4. (\A e \in DOMAIN chains : chains[e] = <<>>) => \A e \in DOMAIN chains' : chains'[e] = <<>>
      BY <3>1, <3>2
    <3> QED
      BY <3>2, <3>3, <3>4
  <2> QED
    BY <2>1, <2>2
<1>3. status = "offline"
  BY <1>1 DEF PageShape, TypeOK, PageTypeOK
<1>4. PageShape'
  BY <1>1, <1>2, <1>3 DEF PageShape, Blank, verdictVars
<1>5. Decoded(<<>>)' /\ Sent(<<>>)' = [recs |-> <<>>, status |-> "offline"]
  <2>1. <<>> \in Seq(Record) /\ FlattenSeq(<<>>) = <<>> /\ <<>> \o <<>> = <<>> /\ Mine(<<>>) = <<>>
    BY FlatNothing DEF Mine
  <2>2. Decoded(<<>>)'
    BY <1>2, <2>1 DEF Decoded, Shown
  <2>3. Sent(<<>>)' = [recs |-> <<>>, status |-> "offline"]
    BY <1>1, <1>2, <1>3, <2>1 DEF Sent
  <2> QED
    BY <2>2, <2>3
<1> QED
  BY <1>4, <1>5

(* So what it is sent tells it all there is to know.                       *)
LEMMA OpensKnows ==
  ASSUME RoomInv, TypeOK, PageShape, PageOpens
  PROVE  PageShape' /\ PageKnows'
<1>1. inbox' = Snapshot /\ UNCHANGED roomVars /\ <<>> \in Seq(Record)
  BY DEF PageOpens, Connected
<1>2. MayKnow(Known)'
  BY <1>1 DEF roomVars, MayKnow, Known
<1>3. Leads(Sent(<<>>)', inbox', Known')
  <2>1. Known' = Known
    BY <1>1 DEF roomVars, Known
  <2> QED
    BY <1>1, <2>1, OpensPage, SnapshotLeads
<1> QED
  BY <1>1, <1>2, <1>3, OpensPage DEF PageKnows

(* One that closes takes the broadcaster's status with it.                 *)
LEMMA ClosesKnows ==
  ASSUME TypeOK, PageShape, PageCloses \/ PageReconnects
  PROVE  PageShape' /\ PageKnows'
<1>1. /\ socket' \in {"closed", "connecting"} /\ status' = "offline"
      /\ UNCHANGED <<joinedBefore, screenVars, verdictVars, key>>
  BY DEF PageCloses, PageReconnects, Broken, PageShape, TypeOK, PageTypeOK, pageVars, socketVars
<1>2. PageShape'
  BY <1>1 DEF PageShape, Blank, screenVars, verdictVars
<1> QED
  BY <1>1, <1>2 DEF PageKnows

(* A frame is handled: the page knows what it says.  That a page without a *)
(* key may learn so only stops it from writing.                            *)
LEMMA MessagePage ==
  ASSUME RoomInv, TypeOK, AllRegular(inbox), PageShape, PageMessage,
         NEW raw \in Seq(Record), Decoded(raw)
  PROVE  /\ PageShape'
         /\ \E r \in Seq(Record) : Decoded(r)' /\ Sent(r)' = Effect(Sent(raw), Head(inbox))
<1>0. PICK f : f = Head(inbox)
  OBVIOUS
<1>1. /\ socket = "open" /\ inbox # <<>> /\ inbox' = Tail(inbox) /\ inbox \in Seq(FrameType)
      /\ UNCHANGED <<socket, joinedBefore, roomVars, key>> /\ joinedBefore
      /\ \/ f.kind = "size" /\ ReceiveSize
         \/ f.kind = "bytes" /\ ReceiveBytes
         \/ f.kind = "online" /\ ReceiveStatus(TRUE)
         \/ f.kind = "offline" /\ ReceiveStatus(FALSE)
         \/ f.kind = "count" /\ ReceiveCount
         \/ f.kind = "reset" /\ ReceiveReset
  BY <1>0 DEF PageMessage, Receives, RoomInv, FeedTypeOK, FrameType, PageShape
<1>2. f \in FrameType /\ f.recs \in Seq(Record) /\ Regular(f)
  <2>1. f \in FrameType /\ Regular(f)
    BY <1>0, <1>1, RegularTail
  <2> QED
    BY <2>1 DEF FrameType
<1> DEFINE now == FlattenSeq(Last(chains))
<1>3. /\ screen \in Seq(Record) /\ pendingWrites \in Seq(Record)
      /\ chains \in Seq(Seq(Seq(Record))) /\ Last(chains) \in Seq(Seq(Record))
      /\ now \in Seq(Record) /\ Shown \in Seq(Record) /\ chains # <<>>
  BY PageParts DEF PageShape
<1> HIDE DEF now
<1>4. Decoded(raw)
  OBVIOUS
<1>5. Sent(raw) = [recs |-> raw \o now, status |-> status] /\ raw \o now \in Seq(Record)
  <2>1. raw \o now \in Seq(Record)
    BY <1>3, ConcatProperties
  <2> QED
    BY <2>1 DEF Sent, now
<1> DEFINE Goes == \E r \in Seq(Record) : Decoded(r)' /\ Sent(r)' = Effect(Sent(raw), f)
<1>7. ASSUME NEW r \in Seq(Record), Decoded(r)', Sent(r)' = Effect(Sent(raw), f)
      PROVE  Goes
  BY <1>7
<1> SUFFICES PageShape' /\ Goes
  BY <1>0
<1> HIDE DEF Goes
<1>8. ASSUME f.kind # "bytes", f.kind # "reset"
      PROVE  Effect(Sent(raw), f)
               = [recs   |-> raw \o now,
                  status |-> IF f.kind \in {"online", "offline"} THEN f.kind ELSE status]
  <2>1. f.recs = <<>> /\ (raw \o now) \o <<>> = raw \o now
    BY <1>2, <1>5, <1>8, ConcatEmptySeq DEF Regular
  <2>2. Sent(raw).recs = raw \o now /\ Sent(raw).status = status
    BY <1>5
  <2> QED
    BY <1>8, <2>1, <2>2 DEF Effect
<1>9. CASE f.kind = "size"
  <2>1. ReceiveSize
    BY <1>1, <1>9
  <2>2. /\ UNCHANGED <<status, screenVars>>
        /\ (encryptedWithoutKey => encryptedWithoutKey')
        /\ key # "none" => notice' = notice /\ encryptedWithoutKey' = encryptedWithoutKey
    BY <2>1 DEF ReceiveSize, TypeOK, PageTypeOK
  <2>3. Effect(Sent(raw), f) = Sent(raw)
    BY <1>5, <1>8, <1>9
  <2>4. Sent(raw)' = Sent(raw)
    BY <2>2 DEF Sent, screenVars
  <2>5. Decoded(raw)'
    BY <1>1, <1>4, <2>2 DEF Decoded, Shown, screenVars
  <2>6. PageShape'
    <3>1. key = "none" => notice' = IF encryptedWithoutKey' THEN "missing" ELSE "hidden"
      BY <2>1 DEF ReceiveSize, PageShape
    <3> QED
      BY <1>1, <2>2, <3>1 DEF PageShape, Blank, screenVars
  <2> QED
    BY <1>7, <2>3, <2>4, <2>5, <2>6
<1>10. CASE f.kind \in {"online", "offline"}
  <2>1. UNCHANGED <<screenVars, verdictVars>> /\ status' = f.kind
    BY <1>1, <1>10 DEF ReceiveStatus
  <2>2. Effect(Sent(raw), f) = [recs |-> raw \o now, status |-> f.kind]
    BY <1>8, <1>10
  <2>3. Sent(raw)' = [recs |-> raw \o now, status |-> f.kind]
    BY <2>1 DEF Sent, screenVars, now
  <2>4. Decoded(raw)'
    BY <1>1, <1>4, <2>1 DEF Decoded, Shown, screenVars, verdictVars
  <2>5. PageShape'
    BY <1>1, <2>1 DEF PageShape, Blank, screenVars, verdictVars
  <2> QED
    BY <1>7, <2>2, <2>3, <2>4, <2>5
<1>11. CASE f.kind = "count"
  <2>1. UNCHANGED <<status, screenVars, verdictVars>>
    BY <1>1, <1>11 DEF ReceiveCount
  <2>2. Effect(Sent(raw), f) = Sent(raw)
    BY <1>5, <1>8, <1>11
  <2>3. Sent(raw)' = Sent(raw)
    BY <2>1 DEF Sent, screenVars
  <2>4. Decoded(raw)'
    BY <1>1, <1>4, <2>1 DEF Decoded, Shown, screenVars, verdictVars
  <2>5. PageShape'
    BY <1>1, <2>1 DEF PageShape, Blank, screenVars, verdictVars
  <2> QED
    BY <1>7, <2>2, <2>3, <2>4, <2>5
<1>12. CASE f.kind = "reset"
  <2>1. /\ chains' = Append(chains, <<>>) /\ pendingWrites' = <<>> /\ screen' = <<>>
        /\ UNCHANGED <<status, term, verdictVars>>
    BY <1>1, <1>12 DEF ReceiveReset, ClearScreen
  <2>2. chains' # <<>> /\ Last(chains') = <<>>
    <3> DEFINE S == Seq(Seq(Record))
    <3>1. chains \in Seq(S) /\ <<>> \in S
      BY <1>3
    <3> HIDE DEF S
    <3>2. Append(chains, <<>>) # <<>> /\ Last(Append(chains, <<>>)) = <<>>
      BY <1>3, <3>1, LastChain
    <3> QED
      BY <2>1, <3>2
  <2>3. (\A e \in DOMAIN chains : chains[e] = <<>>) => \A e \in DOMAIN chains' : chains'[e] = <<>>
    <3> DEFINE S == Seq(Seq(Record))
    <3>1. chains \in Seq(S) /\ <<>> \in S
      BY <1>3
    <3> HIDE DEF S
    <3> QED
      BY <2>1, <3>1
  <2>4. <<>> \in Seq(Record) /\ FlattenSeq(<<>>) = <<>> /\ <<>> \o <<>> = <<>> /\ Mine(<<>>) = <<>>
    BY FlatNothing DEF Mine
  <2>5. Effect(Sent(raw), f) = [recs |-> <<>>, status |-> status]
    BY <1>5, <1>12 DEF Effect
  <2>6. Sent(<<>>)' = [recs |-> <<>>, status |-> status]
    BY <2>1, <2>2, <2>4 DEF Sent
  <2>7. Decoded(<<>>)'
    BY <2>1, <2>4 DEF Decoded, Shown
  <2>8. PageShape'
    BY <1>1, <2>1, <2>2, <2>3 DEF PageShape, Blank, verdictVars
  <2> QED
    BY <1>7, <2>4, <2>5, <2>6, <2>7, <2>8
<1>13. CASE f.kind = "bytes"
  <2>0. PICK recs \in Seq(Record) : recs = f.recs
    BY <1>2
  <2>1. PICK s : Uniform(recs, s)
    BY <1>2, <1>13, <2>0 DEF Regular, Uniform
  <2>2. /\ ReceiveBytes /\ recs = Head(inbox).recs
        /\ UNCHANGED <<status, term, encryptedWithoutKey, notice>>
    BY <1>0, <1>1, <1>13, <2>0 DEF ReceiveBytes, verdictVars
  <2>3. Effect(Sent(raw), f) = [recs |-> (raw \o now) \o recs, status |-> status]
    BY <1>5, <1>13, <2>0 DEF Effect
  <2>4. key \in {"good", "none", "unusable"}
    BY FeedKinds DEF RoomInv, FeedTypeOK
  <2>5. CASE key = "good"
    <3> DEFINE S == Seq(Seq(Record))
    <3>1. chains' = [chains EXCEPT ![Len(chains)] = Append(Last(chains), recs)]
          /\ UNCHANGED <<pendingWrites, screen>>
      BY <2>2, <2>5 DEF ReceiveBytes, Last
    <3>2. chains \in Seq(S) /\ Append(Last(chains), recs) \in S /\ Len(chains) \in DOMAIN chains
      <4>1. chains \in Seq(S) /\ Append(Last(chains), recs) \in S
        BY <1>3
      <4> HIDE DEF S
      <4> QED
        BY <1>3, <4>1, LastChain
    <3> HIDE DEF S
    <3>3. LastReplaced(S, chains, Len(chains), Append(Last(chains), recs), chains')
      BY <3>1, <3>2, LastAmong DEF ChainReplaced
    <3>4. chains' # <<>> /\ Last(chains') = Append(Last(chains), recs)
      BY <3>3 DEF LastReplaced
    <3>5. FlattenSeq(Append(Last(chains), recs)) = now \o recs
      BY <1>3, FlatAppend DEF now
    <3>6. raw \o (now \o recs) = (raw \o now) \o recs
      <4>1. now \in Seq(Record)
        BY <1>3
      <4> QED
        BY <4>1, Regroup, SMTT(30)
    <3>7. Sent(raw)' = [recs |-> (raw \o now) \o recs, status |-> status]
      BY <2>2, <3>4, <3>5, <3>6 DEF Sent
    <3>8. Decoded(raw)'
      BY <1>1, <1>4, <2>2, <3>1 DEF Decoded, Shown
    <3>9. \A j \in DOMAIN Last(chains') : \E z : Uniform(Last(chains')[j], z)
      <4> DEFINE T == Seq(Record)
      <4>1. Last(chains) \in Seq(T) /\ recs \in T
        BY <1>3
      <4> HIDE DEF T
      <4>2. ASSUME NEW j \in DOMAIN Append(Last(chains), recs)
            PROVE  \E z : Uniform(Append(Last(chains), recs)[j], z)
        <5>1. \/ Append(Last(chains), recs)[j] = recs
              \/ j \in DOMAIN Last(chains) /\ Append(Last(chains), recs)[j] = Last(chains)[j]
          BY <4>1
        <5> QED
          BY <2>1, <5>1 DEF PageShape
      <4> QED
        BY <3>4, <4>2
    <3>10. PageShape'
      BY <1>1, <2>2, <2>5, <3>1, <3>4, <3>9 DEF PageShape
    <3> QED
      BY <1>7, <2>3, <3>7, <3>8, <3>10
  <2>6. CASE key # "good"
    <3>1. chains' = chains
      BY <2>2, <2>6 DEF ReceiveBytes, Write
    <3>2. now = <<>> /\ raw \o now = raw
      <4>1. Len(chains) \in DOMAIN chains /\ Last(chains) = chains[Len(chains)]
        <5> DEFINE S == Seq(Seq(Record))
        <5>1. chains \in Seq(S)
          BY <1>3
        <5> HIDE DEF S
        <5> QED
          BY <1>3, <5>1, LastChain
      <4>2. Last(chains) = <<>>
        BY <2>6, <4>1 DEF PageShape
      <4> QED
        BY <4>2, FlatNothing, ConcatEmptySeq DEF now
    <3>3. raw \o recs \in Seq(Record) /\ (raw \o recs) \o now = raw \o recs
      <4>1. raw \o recs \in Seq(Record)
        BY ConcatProperties
      <4> QED
        BY <3>2, <4>1, ConcatEmptySeq
    <3>4. \A r : Sent(r)' = [recs |-> r \o now, status |-> status]
      BY <2>2, <3>1 DEF Sent, now
    <3>5. Sent(raw \o recs)' = Effect(Sent(raw), f)
      BY <2>3, <3>2, <3>3, <3>4
    <3>6. CASE key = "none" /\ ~encryptedWithoutKey
      <4>1. Write(recs) /\ Shown = raw
        BY <1>4, <2>2, <3>6 DEF ReceiveBytes, Decoded
      <4>2. /\ Shown' = Shown \o recs
            /\ IF term' THEN pendingWrites' = <<>> ELSE screen' = <<>>
        <5>1. CASE term
          <6>1. pendingWrites = <<>> /\ screen' = screen \o recs /\ pendingWrites' = <<>>
            BY <4>1, <5>1 DEF Write, PageShape
          <6>2. screen \o <<>> = screen /\ (screen \o recs) \o <<>> = screen \o recs
            BY <1>3, ConcatEmptySeq, ConcatProperties
          <6> QED
            BY <2>2, <5>1, <6>1, <6>2 DEF Shown
        <5>2. CASE ~term
          <6>1. screen = <<>> /\ pendingWrites' = pendingWrites \o recs /\ screen' = <<>>
            BY <4>1, <5>2 DEF Write, PageShape
          <6>2. <<>> \o (pendingWrites \o recs) = (<<>> \o pendingWrites) \o recs
            <7>1. <<>> \in Seq(Record)
              OBVIOUS
            <7> QED
              BY <1>3, <7>1, Regroup
          <6> QED
            BY <2>2, <5>2, <6>1, <6>2 DEF Shown
        <5> QED
          BY <5>1, <5>2
      <4>3. PageShape'
        BY <1>1, <2>2, <2>6, <3>1, <4>2 DEF PageShape
      <4>4. Decoded(raw \o recs)'
        BY <1>1, <2>6, <4>1, <4>2 DEF Decoded
      <4> QED
        BY <1>7, <3>3, <3>5, <4>3, <4>4
    <3>7. CASE ~(key = "none" /\ ~encryptedWithoutKey)
      <4>1. UNCHANGED <<screen, pendingWrites>>
        BY <2>2, <2>6, <3>7 DEF ReceiveBytes
      <4>2. PageShape'
        BY <1>1, <2>2, <3>1, <4>1 DEF PageShape, Blank
      <4>3. Decoded(raw \o recs)'
        BY <1>1, <2>2, <2>6, <3>7 DEF Decoded
      <4> QED
        BY <1>7, <3>3, <3>5, <4>2, <4>3
    <3> QED
      BY <3>6, <3>7
  <2> QED
    BY <2>5, <2>6
<1> QED
  BY <1>1, <1>9, <1>10, <1>11, <1>12, <1>13

(* It goes on to know the room.                                            *)
LEMMA MessageKnows ==
  ASSUME RoomInv, TypeOK, AllRegular(inbox), PageShape, PageKnows, PageMessage
  PROVE  PageShape' /\ PageKnows'
<1>1. /\ socket = "open" /\ inbox # <<>> /\ inbox' = Tail(inbox) /\ inbox \in Seq(FrameType)
      /\ UNCHANGED roomVars
  BY DEF PageMessage, Receives, RoomInv, FeedTypeOK, FrameType
<1>2. \A t : MayKnow(t)' <=> MayKnow(t)
  BY <1>1 DEF roomVars, MayKnow
<1>3. PICK raw \in Seq(Record) : Decoded(raw) /\ \E t : Leads(Sent(raw), inbox, t) /\ MayKnow(t)
  BY <1>1 DEF PageKnows
<1>6. PICK t : Leads(Sent(raw), inbox, t) /\ MayKnow(t)
  BY <1>3
<1>4. PICK r \in Seq(Record) : Decoded(r)' /\ Sent(r)' = Effect(Sent(raw), Head(inbox))
  BY <1>3, MessagePage
<1>5. Leads(Effect(Sent(raw), Head(inbox)), inbox', t) /\ MayKnow(t)'
  BY <1>1, <1>2, <1>6, LeadsAfter
<1> QED
  BY <1>3, <1>4, <1>5, MessagePage DEF PageKnows

(* A quiet page shows what the room holds and its link can open (room.js:  *)
(* onopen, onMessage, decryptRecords, clearScreen, createTerminal, the     *)
(* verdicts on its key and the status dot).                                *)
THEOREM PagesShowTheRoom == Spec => []PageShowsRoom
<1> DEFINE Typed == RoomInv /\ Numbered /\ TypeOK
<1>1. Init => AllRegular(inbox) /\ PageInv
  <2>1. Init => AllRegular(inbox)
    BY DEF Init, FeedInit, AllRegular
  <2> QED
    BY <2>1, FirstPage
<1>2. Typed /\ AllRegular(inbox) /\ PageInv /\ [Next]_vars => AllRegular(inbox)' /\ PageInv'
  <2> SUFFICES ASSUME RoomInv, TypeOK, AllRegular(inbox), PageInv, [Next]_vars
               PROVE  AllRegular(inbox)' /\ PageInv'
    OBVIOUS
  <2>1. AllRegular(inbox')
    BY NextRegular
  <2>2. PageInv'
    <3>1. CASE Room
      BY <3>1, RoomKnows
    <3>2. CASE Page
      <4>1. reader = "page" /\ reader' = reader /\ PageNext /\ PageShape /\ PageKnows
        BY <3>2 DEF Page, PageInv
      <4>2. PageShape' /\ PageKnows'
        <5>1. CASE TerminalCreated
          BY <4>1, <5>1, CreatedKnows
        <5>2. CASE \E e \in DOMAIN chains : Decrypted(e)
          BY <4>1, <5>2, DecryptedKnows
        <5>3. CASE PageOpens
          BY <4>1, <5>3, OpensKnows
        <5>4. CASE PageCloses \/ PageReconnects
          BY <4>1, <5>4, ClosesKnows
        <5>5. CASE PageMessage
          BY <4>1, <5>5, MessageKnows
        <5> QED
          BY <4>1, <5>1, <5>2, <5>3, <5>4, <5>5 DEF PageNext
      <4> QED
        BY <4>1, <4>2 DEF PageInv
    <3>3. CASE Agent
      <4>1. reader = "agent" /\ reader' = reader /\ status' = status
        BY <3>3 DEF Agent, pageVars
      <4> QED
        BY <4>1 DEF PageInv
    <3>4. CASE UNCHANGED vars
      BY <3>4 DEF vars, feedVars, roomVars, pageVars, socketVars, screenVars, verdictVars, PageInv,
                  PageShape, PageKnows, Blank, Decoded, Shown, Sent, MayKnow
    <3> QED
      BY <3>1, <3>2, <3>3, <3>4 DEF Next
  <2> QED
    BY <2>1, <2>2
<1>3. Typed /\ PageInv => PageShowsRoom
  BY QuietKnows
<1> QED
  BY <1>1, <1>2, <1>3, AlwaysTyped, PTL DEF Spec

-----------------------------------------------------------------------------
(* What comes last in a sequence, and what comes first.                    *)

All(q, S) == \A i \in DOMAIN q : q[i] \in S
Some(q, S) == \E i \in DOMAIN q : q[i] \in S

(* Something of G is in q, and only what is in S after it.                 *)
Leaves(q, G, S) == \E j \in DOMAIN q : q[j] \in G /\ \A i \in DOMAIN q : i > j => q[i] \in S

(* Before what is in H something of W is in q.                             *)
Guarded(q, H, W) == \A i \in DOMAIN q : q[i] \in H => \E j \in DOMAIN q : j < i /\ q[j] \in W

(* What p and q leave is what q leaves, or what p does and q spares; and   *)
(* what p guards is guarded after it.                                      *)
LEMMA InTwoParts ==
  ASSUME NEW T, NEW p \in Seq(T), NEW q \in Seq(T), NEW G, NEW S
  PROVE  /\ All(p \o q, S) <=> All(p, S) /\ All(q, S)
         /\ Some(p \o q, S) <=> Some(p, S) \/ Some(q, S)
         /\ Leaves(p \o q, G, S) <=> Leaves(q, G, S) \/ (Leaves(p, G, S) /\ All(q, S))
         /\ Guarded(p \o q, G, S) <=> Guarded(p, G, S) /\ (Some(p, S) \/ Guarded(q, G, S))
<1>1. PICK M \in Nat, N \in Nat : M = Len(p) /\ N = Len(q)
  OBVIOUS
<1> DEFINE c == p \o q
<1>2. /\ c \in Seq(T) /\ Len(c) = M + N
      /\ \A i \in 1 .. M : c[i] = p[i]
      /\ \A i \in 1 .. N : c[M + i] = q[i]
  BY <1>1, ConcatAt
<1> HIDE DEF c
<1>3. DOMAIN c = 1 .. M + N /\ DOMAIN p = 1 .. M /\ DOMAIN q = 1 .. N
  BY <1>1, <1>2
<1>4. ASSUME NEW i \in 1 .. M + N PROVE i \in 1 .. M \/ \E k \in 1 .. N : i = M + k
  <2>1. CASE i \in 1 .. M
    BY <2>1
  <2>2. CASE i \notin 1 .. M
    <3>1. i - M \in 1 .. N /\ i = M + (i - M)
      BY <2>2
    <3> QED
      BY <3>1
  <2> QED
    BY <2>1, <2>2
<1>5. /\ \A i \in 1 .. M : i \in 1 .. M + N
      /\ \A k \in 1 .. N : M + k \in 1 .. M + N
      /\ \A i \in 1 .. M : \A k \in 1 .. N : i < M + k /\ ~(M + k < i) /\ M + k > i /\ ~(i > M + k)
      /\ \A k, l \in 1 .. N : (M + k > M + l <=> k > l) /\ (M + k < M + l <=> k < l)
  OBVIOUS
<1>6. All(c, S) <=> All(p, S) /\ All(q, S)
  <2>1. All(c, S) => All(p, S) /\ All(q, S)
    BY <1>2, <1>3, <1>5 DEF All
  <2>2. ASSUME All(p, S), All(q, S) PROVE All(c, S)
    <3>1. ASSUME NEW i \in 1 .. M + N PROVE c[i] \in S
      <4>1. CASE i \in 1 .. M
        BY <1>2, <1>3, <2>2, <4>1 DEF All
      <4>2. CASE \E k \in 1 .. N : i = M + k
        BY <1>2, <1>3, <2>2, <4>2 DEF All
      <4> QED
        BY <1>4, <4>1, <4>2
    <3> QED
      BY <1>3, <3>1 DEF All
  <2> QED
    BY <2>1, <2>2
<1>7. Some(c, S) <=> Some(p, S) \/ Some(q, S)
  <2>1. ASSUME Some(c, S) PROVE Some(p, S) \/ Some(q, S)
    <3>1. PICK i \in 1 .. M + N : c[i] \in S
      BY <1>3, <2>1 DEF Some
    <3>2. CASE i \in 1 .. M
      BY <1>2, <1>3, <3>1, <3>2 DEF Some
    <3>3. CASE \E k \in 1 .. N : i = M + k
      BY <1>2, <1>3, <3>1, <3>3 DEF Some
    <3> QED
      BY <1>4, <3>2, <3>3
  <2>2. Some(p, S) \/ Some(q, S) => Some(c, S)
    BY <1>2, <1>3, <1>5 DEF Some
  <2> QED
    BY <2>1, <2>2
<1>8. Leaves(c, G, S) => Leaves(q, G, S) \/ (Leaves(p, G, S) /\ All(q, S))
  <2> SUFFICES ASSUME Leaves(c, G, S) PROVE Leaves(q, G, S) \/ (Leaves(p, G, S) /\ All(q, S))
    OBVIOUS
  <2>1. PICK j \in 1 .. M + N : c[j] \in G /\ \A i \in 1 .. M + N : i > j => c[i] \in S
    BY <1>3 DEF Leaves
  <2>2. CASE j \in 1 .. M
    <3>1. p[j] \in G /\ \A i \in 1 .. M : i > j => p[i] \in S
      BY <1>2, <1>5, <2>1, <2>2
    <3>2. \A k \in 1 .. N : q[k] \in S
      BY <1>2, <1>5, <2>1, <2>2
    <3> QED
      BY <1>3, <2>2, <3>1, <3>2 DEF Leaves, All
  <2>3. CASE \E k \in 1 .. N : j = M + k
    <3>1. PICK k \in 1 .. N : j = M + k
      BY <2>3
    <3>2. q[k] \in G /\ \A l \in 1 .. N : l > k => q[l] \in S
      BY <1>2, <1>5, <2>1, <3>1
    <3> QED
      BY <1>3, <3>2 DEF Leaves
  <2> QED
    BY <1>4, <2>2, <2>3
<1>9. Leaves(q, G, S) => Leaves(c, G, S)
  <2> SUFFICES ASSUME Leaves(q, G, S) PROVE Leaves(c, G, S)
    OBVIOUS
  <2>1. PICK k \in 1 .. N : q[k] \in G /\ \A l \in 1 .. N : l > k => q[l] \in S
    BY <1>3 DEF Leaves
  <2>2. c[M + k] \in G
    BY <1>2, <2>1
  <2>3. ASSUME NEW i \in 1 .. M + N, i > M + k PROVE c[i] \in S
    <3>1. PICK l \in 1 .. N : i = M + l
      BY <1>4, <1>5, <2>3
    <3> QED
      BY <1>2, <1>5, <2>1, <2>3, <3>1
  <2> QED
    BY <1>3, <1>5, <2>2, <2>3 DEF Leaves
<1>10. Leaves(p, G, S) /\ All(q, S) => Leaves(c, G, S)
  <2> SUFFICES ASSUME Leaves(p, G, S), All(q, S) PROVE Leaves(c, G, S)
    OBVIOUS
  <2>1. PICK j \in 1 .. M : p[j] \in G /\ \A i \in 1 .. M : i > j => p[i] \in S
    BY <1>3 DEF Leaves
  <2>2. c[j] \in G
    BY <1>2, <2>1
  <2>3. ASSUME NEW i \in 1 .. M + N, i > j PROVE c[i] \in S
    <3>1. CASE i \in 1 .. M
      BY <1>2, <2>1, <2>3, <3>1
    <3>2. CASE \E k \in 1 .. N : i = M + k
      BY <1>2, <1>3, <3>2 DEF All
    <3> QED
      BY <1>4, <3>1, <3>2
  <2> QED
    BY <1>3, <1>5, <2>2, <2>3 DEF Leaves
<1>11. Guarded(c, G, S) => Guarded(p, G, S) /\ (Some(p, S) \/ Guarded(q, G, S))
  <2> SUFFICES ASSUME Guarded(c, G, S)
               PROVE  Guarded(p, G, S) /\ (Some(p, S) \/ Guarded(q, G, S))
    OBVIOUS
  <2>1. \A i \in 1 .. M + N : c[i] \in G => \E j \in 1 .. M + N : j < i /\ c[j] \in S
    BY <1>3 DEF Guarded
  <2>2. ASSUME NEW i \in 1 .. M, p[i] \in G PROVE \E j \in 1 .. M : j < i /\ p[j] \in S
    <3>1. PICK j \in 1 .. M + N : j < i /\ c[j] \in S
      BY <1>2, <1>5, <2>1, <2>2
    <3>2. j \in 1 .. M
      BY <1>4, <1>5, <3>1
    <3> QED
      BY <1>2, <3>1, <3>2
  <2>3. ASSUME NEW k \in 1 .. N, q[k] \in G, ~Some(p, S)
        PROVE  \E l \in 1 .. N : l < k /\ q[l] \in S
    <3>1. PICK j \in 1 .. M + N : j < M + k /\ c[j] \in S
      BY <1>2, <1>5, <2>1, <2>3
    <3>2. j \notin 1 .. M
      BY <1>2, <1>3, <2>3, <3>1 DEF Some
    <3>3. PICK l \in 1 .. N : j = M + l
      BY <1>4, <3>2
    <3> QED
      BY <1>2, <1>5, <3>1, <3>3
  <2> QED
    BY <1>3, <2>2, <2>3 DEF Guarded
<1>12. Guarded(p, G, S) /\ (Some(p, S) \/ Guarded(q, G, S)) => Guarded(c, G, S)
  <2> SUFFICES ASSUME Guarded(p, G, S), Some(p, S) \/ Guarded(q, G, S), NEW i \in 1 .. M + N, c[i] \in G
               PROVE  \E j \in 1 .. M + N : j < i /\ c[j] \in S
    BY <1>3 DEF Guarded
  <2>1. CASE i \in 1 .. M
    <3>1. PICK j \in 1 .. M : j < i /\ p[j] \in S
      BY <1>2, <1>3, <2>1 DEF Guarded
    <3> QED
      BY <1>2, <1>5, <3>1
  <2>2. CASE \E k \in 1 .. N : i = M + k
    <3>1. PICK k \in 1 .. N : i = M + k
      BY <2>2
    <3>2. CASE Some(p, S)
      <4>1. PICK j \in 1 .. M : p[j] \in S
        BY <1>3, <3>2 DEF Some
      <4>2. c[j] \in S /\ j < i
        BY <1>2, <1>5, <3>1, <4>1
      <4> QED
        BY <1>5, <4>2
    <3>3. CASE Guarded(q, G, S)
      <4>1. PICK l \in 1 .. N : l < k /\ q[l] \in S
        BY <1>2, <1>3, <3>1, <3>3 DEF Guarded
      <4>2. M + l < i /\ c[M + l] \in S
        BY <1>2, <1>5, <3>1, <4>1
      <4> QED
        BY <1>5, <4>2
    <3> QED
      BY <3>2, <3>3
  <2> QED
    BY <1>4, <2>1, <2>2
<1> QED
  BY <1>6, <1>7, <1>8, <1>9, <1>10, <1>11, <1>12 DEF c

(* One, and none.                                                          *)
LEMMA InOne ==
  ASSUME NEW x, NEW G, NEW S
  PROVE  /\ All(<<x>>, S) <=> x \in S
         /\ Some(<<x>>, S) <=> x \in S
         /\ Leaves(<<x>>, G, S) <=> x \in G
         /\ Guarded(<<x>>, G, S) <=> x \notin G
         /\ All(<<>>, S) /\ ~Some(<<>>, S) /\ ~Leaves(<<>>, G, S) /\ Guarded(<<>>, G, S)
<1>1. DOMAIN <<x>> = {1} /\ <<x>>[1] = x /\ DOMAIN <<>> = {} /\ ~(1 > 1) /\ ~(1 < 1)
  OBVIOUS
<1>2. PICK y : y = <<x>>
  OBVIOUS
<1>3. PICK z : z = <<>>
  OBVIOUS
<1> QED
  BY <1>1, <1>2, <1>3 DEF All, Some, Leaves, Guarded

-----------------------------------------------------------------------------
(* A room whose reader lags.                                               *)

OnOff(on) == IF on THEN "online" ELSE "offline"

(* How many records were made before those of the history.                 *)
Base == made - Len(stored)

(* The broadcaster's state changes and is told, or a session begins.       *)
Tells(f) ==
  /\ f.kind \in {"online", "offline"} /\ (repeats' = 0 => f.kind = OnOff(online'))
  /\ UNCHANGED <<stored, seal>> /\ (sized' => sized)
Clears(f) ==
  f.kind = "reset" /\ stored' = <<>> /\ seal' \in Seals /\ UNCHANGED <<online, repeats>> /\ ~sized'
Announced(f) ==
  /\ outbox' = IF link = "open" THEN Append(outbox, f) ELSE outbox
  /\ f.recs = <<>>
  /\ Tells(f) \/ Clears(f)
  /\ UNCHANGED <<roomSize, made, key, socket, inbox, breaks, readerVars, link, backlog>>

(* What is announced is one frame.                                         *)
LEMMA AnnouncesOne ==
  ASSUME RoomInv, Announces
  PROVE  \E f \in FrameType : Announced(f)
<1>1. CASE Queue!BroadcasterAttaches
  <2>1. Status(TRUE) \in FrameType /\ Status(TRUE).recs = <<>> /\ Status(TRUE).kind = "online"
    BY FramesType DEF Status, Frame
  <2>2. Queue!Status(TRUE) = Status(TRUE)
    BY DEF Queue!Status, Queue!Frame, Queue!NoSeal, Status, Frame, NoSeal
  <2>3. Announced(Status(TRUE))
    BY <1>1, <2>1, <2>2 DEF Announces, Queue!BroadcasterAttaches, Queue!Sends, Announced, Tells, OnOff
  <2> QED
    BY <2>1, <2>3
<1>2. CASE Queue!BroadcasterLeaves
  <2>1. Status(FALSE) \in FrameType /\ Status(FALSE).recs = <<>> /\ Status(FALSE).kind = "offline"
    BY FramesType DEF Status, Frame
  <2>2. Queue!Status(FALSE) = Status(FALSE)
    BY DEF Queue!Status, Queue!Frame, Queue!NoSeal, Status, Frame, NoSeal
  <2>3. Announced(Status(FALSE))
    BY <1>2, <2>1, <2>2 DEF Announces, Queue!BroadcasterLeaves, Queue!Sends, Announced, Tells, OnOff
  <2> QED
    BY <2>1, <2>3
<1>3. CASE Queue!SessionBegins
  <2> DEFINE reset == Frame("reset", <<>>, NoSeal)
  <2>1. reset \in FrameType /\ reset.recs = <<>> /\ reset.kind = "reset"
    BY FramesType DEF Frame
  <2>2. Queue!Frame("reset", <<>>, Queue!NoSeal) = reset
    BY DEF Queue!Frame, Queue!NoSeal, Frame, NoSeal
  <2> HIDE DEF reset
  <2>3. seal' \in Seals
    BY <1>3 DEF Queue!SessionBegins, Queue!Sealings
  <2>4. Announced(reset)
    BY <1>3, <2>1, <2>2, <2>3 DEF Announces, Queue!SessionBegins, Queue!Sends, Announced, Clears
  <2> QED
    BY <2>1, <2>4
<1>4. CASE Queue!OfflineAgain
  <2>1. Status(FALSE) \in FrameType /\ Status(FALSE).recs = <<>> /\ Status(FALSE).kind = "offline"
    BY FramesType DEF Status, Frame
  <2>2. Queue!Status(FALSE) = Status(FALSE)
    BY DEF Queue!Status, Queue!Frame, Queue!NoSeal, Status, Frame, NoSeal
  <2>3. repeats' # 0
    BY <1>4 DEF Queue!OfflineAgain, RoomInv, FeedTypeOK
  <2>4. Announced(Status(FALSE))
    BY <1>4, <2>1, <2>2, <2>3 DEF Announces, Queue!OfflineAgain, Queue!Sends, Announced, Tells
  <2> QED
    BY <2>1, <2>4
<1> QED
  BY <1>1, <1>2, <1>3, <1>4 DEF Announces

(* The session's size is published, or a record.                           *)
Sizes(f) ==
  /\ f.kind = "size" /\ f.recs = <<>> /\ f.seal = seal /\ seal \in Seals /\ seal # NoSeal
  /\ roomSize' = seal /\ sized' = TRUE /\ UNCHANGED <<stored, made>>
Outputs(f) ==
  /\ f.kind = "bytes" /\ sized
  /\ \E r \in Record : r.n = made + 1 /\ r.seal = seal /\ f.recs = <<r>> /\ stored' = Append(stored, r)
  /\ made' = made + 1 /\ made' \in 0 .. Records /\ UNCHANGED <<roomSize, sized>>
Published(f) ==
  /\ backlog' = Append(backlog, f)
  /\ Sizes(f) \/ Outputs(f)
  /\ UNCHANGED <<seal, online, repeats, key, socket, inbox, breaks, readerVars, link, outbox>>

(* What is published is one frame.                                         *)
LEMMA PublishesOne ==
  ASSUME RoomInv, Publishes
  PROVE  \E f \in FrameType : Published(f)
<1>1. CASE Shard!SessionSizes
  <2> DEFINE size == Frame("size", <<>>, seal)
  <2>1. seal \in Seals /\ seal # NoSeal
    BY <1>1 DEF Shard!SessionSizes, Shard!NoSeal, NoSeal, RoomInv, FeedTypeOK
  <2>2. size \in FrameType /\ size.recs = <<>> /\ size.kind = "size" /\ size.seal = seal
    BY <2>1, FramesType DEF Frame
  <2>3. Shard!Frame("size", <<>>, seal) = size
    BY DEF Shard!Frame, Frame
  <2> HIDE DEF size
  <2>4. Published(size)
    BY <1>1, <2>1, <2>2, <2>3 DEF Publishes, Shard!SessionSizes, Shard!Sends, Published, Sizes
  <2> QED
    BY <2>2, <2>4
<1>2. CASE Shard!SessionOutputs
  <2> DEFINE record == [n |-> made + 1, seal |-> seal]
             bytes == Frame("bytes", <<record>>, NoSeal)
  <2>1. seal \in Seals /\ made + 1 \in 1 .. Records
    BY <1>2, FeedBounds DEF Shard!SessionOutputs, RoomInv, FeedTypeOK
  <2>2. record \in Record /\ record.n = made + 1 /\ record.seal = seal
    BY <2>1 DEF Record
  <2>3. /\ Shard!Sends(Shard!Frame("bytes", <<record>>, Shard!NoSeal))
        /\ made' = made + 1 /\ stored' = Append(stored, record) /\ sized
        /\ UNCHANGED <<seal, roomSize, sized, online, repeats, key, breaks>>
    BY <1>2 DEF Shard!SessionOutputs
  <2>4. Shard!Frame("bytes", <<record>>, Shard!NoSeal) = bytes
    BY DEF Shard!Frame, Shard!NoSeal, Frame, NoSeal
  <2> HIDE DEF record
  <2>5. bytes \in FrameType /\ bytes.recs = <<record>> /\ bytes.kind = "bytes"
    <3>1. <<record>> \in Seq(Record)
      BY <2>2
    <3> QED
      BY <3>1, FramesType DEF Frame
  <2> HIDE DEF bytes
  <2>6. Outputs(bytes)
    BY <2>1, <2>2, <2>3, <2>5 DEF Outputs
  <2>7. Published(bytes)
    BY <1>2, <2>3, <2>4, <2>6 DEF Publishes, Shard!Sends, Published
  <2> QED
    BY <2>5, <2>7
<1> QED
  BY <1>1, <1>2 DEF Publishes

(* The queues hold frames.                                                 *)
Queues ==
  /\ link \in {"open", "closed"}
  /\ outbox \in Seq(FrameType) /\ backlog \in Seq(FrameType)
  /\ AllRegular(inbox) /\ AllRegular(outbox) /\ AllRegular(backlog)
  /\ \A i \in DOMAIN backlog : backlog[i].kind \in {"size", "bytes"}
  /\ socket = "open" => link = "open"
  /\ link = "closed" => outbox = <<>>
  /\ mode = "follow"

(* The types of a room, of its reader and of the queues.                   *)
LagTyped == RoomInv /\ Numbered /\ TypeOK /\ Queues

(* A frame more in a queue.                                                *)
LEMMA QueueGrows ==
  ASSUME NEW q \in Seq(FrameType), NEW f \in FrameType, AllRegular(q), Regular(f)
  PROVE  Append(q, f) \in Seq(FrameType) /\ AllRegular(Append(q, f)) /\ Append(q, f) = q \o <<f>>
<1>1. <<f>> \in Seq(FrameType) /\ Append(q, f) = q \o <<f>>
  BY AppendIsConcat
<1> QED
  BY <1>1, RegularSingle, RegularConcat

(* Announcing keeps the room and the queues.                               *)
LEMMA AnnouncedTyped ==
  ASSUME LagTyped, NEW f \in FrameType, Announced(f), departures' \in 0 .. Departures,
         sessions' \in 0 .. Sessions, online' \in BOOLEAN, sized' \in BOOLEAN,
         online' => departures' < Departures, repeats' \in 0 .. Repeats
  PROVE  LagTyped'
<1>0. /\ RoomInv /\ Numbered /\ TypeOK /\ Queues
      /\ UNCHANGED <<roomSize, made, key, socket, inbox, breaks, readerVars, link, backlog>>
  BY DEF LagTyped, Announced
<1>1. stored' \in Seq(Record) /\ seal' \in Seals \cup {NoSeal}
      /\ (\A i \in DOMAIN stored' : stored'[i].seal = seal')
      /\ (stored' # <<>> \/ sized' => roomSize' = seal' /\ seal' # NoSeal)
      /\ Numbered'
  <2>1. CASE Tells(f)
    BY <1>0, <2>1 DEF Tells, RoomInv, FeedTypeOK, Numbered
  <2>2. CASE Clears(f)
    <3>1. stored' = <<>> /\ Len(stored') = 0 /\ made \in Nat
      BY <1>0, <2>2 DEF Clears, RoomInv, FeedTypeOK
    <3> QED
      BY <1>0, <2>2, <3>1 DEF Clears, Numbered
  <2> QED
    BY <2>1, <2>2 DEF Announced
<1>2. RoomInv'
  BY <1>0, <1>1 DEF RoomInv, FeedTypeOK
<1>3. Regular(f)
  BY DEF Announced, Tells, Clears, Regular
<1>4. outbox' \in Seq(FrameType) /\ AllRegular(outbox')
  BY <1>0, <1>3, QueueGrows DEF Announced, Queues
<1>5. link = "closed" => outbox' = outbox
  BY DEF Announced
<1>6. UNCHANGED <<pageVars, agentVars, reader>>
  BY <1>0 DEF readerVars
<1>7. Queues'
  BY <1>0, <1>4, <1>5, <1>6 DEF Queues, agentVars
<1>8. TypeOK'
  BY <1>0, <1>2, <1>6 DEF TypeOK, RoomInv, PageTypeOK, AgentTypeOK, pageVars, socketVars, screenVars,
                          verdictVars, agentVars
<1> QED
  BY <1>1, <1>2, <1>7, <1>8 DEF LagTyped

(* The announcements of the room keep the types.                           *)
LEMMA AnnouncesTyped ==
  ASSUME LagTyped, Announces
  PROVE  LagTyped'
<1>0. RoomInv
  BY DEF LagTyped
<1>1. PICK f \in FrameType : Announced(f)
  BY <1>0, AnnouncesOne
<1>2. /\ departures' \in 0 .. Departures /\ online' \in BOOLEAN /\ sized' \in BOOLEAN
      /\ (online' => departures' < Departures)
      /\ sessions' \in 0 .. Sessions /\ repeats' \in 0 .. Repeats
  <2> USE FeedBounds
  <2>1. CASE Queue!BroadcasterAttaches
    BY <1>0, <2>1 DEF Queue!BroadcasterAttaches, RoomInv, FeedTypeOK
  <2>2. CASE Queue!BroadcasterLeaves
    <3>1. /\ departures \in 0 .. Departures /\ departures < Departures
          /\ departures' = departures + 1 /\ online' = FALSE
      BY <1>0, <2>2 DEF Queue!BroadcasterLeaves, RoomInv, FeedTypeOK
    <3>2. departures' \in 0 .. Departures
      BY <3>1
    <3>3. UNCHANGED <<sized, sessions, repeats>>
      BY <2>2 DEF Queue!BroadcasterLeaves
    <3> QED
      BY <1>0, <3>1, <3>2, <3>3 DEF RoomInv, FeedTypeOK
  <2>4. CASE Queue!OfflineAgain
    <3>1. repeats \in 0 .. Repeats /\ repeats' = repeats + 1 /\ repeats < Repeats
      BY <1>0, <2>4 DEF Queue!OfflineAgain, RoomInv, FeedTypeOK
    <3>2. repeats' \in 0 .. Repeats
      BY <3>1
    <3> QED
      BY <1>0, <2>4, <3>2 DEF Queue!OfflineAgain, RoomInv, FeedTypeOK
  <2>3. CASE Queue!SessionBegins
    <3>1. sessions \in 0 .. Sessions /\ sessions' = sessions + 1 /\ sessions < Sessions
      BY <1>0, <2>3 DEF Queue!SessionBegins, RoomInv, FeedTypeOK
    <3>2. sessions' \in 0 .. Sessions
      BY <3>1
    <3> QED
      BY <1>0, <2>3, <3>2 DEF Queue!SessionBegins, RoomInv, FeedTypeOK
  <2> QED
    BY <2>1, <2>2, <2>3, <2>4 DEF Announces
<1> QED
  BY <1>1, <1>2, AnnouncedTyped

(* What a session publishes keeps them.                                    *)
LEMMA PublishesTyped ==
  ASSUME LagTyped, Publishes
  PROVE  LagTyped'
<1>0. RoomInv /\ Numbered /\ TypeOK /\ Queues
  BY DEF LagTyped
<1>1. PICK f \in FrameType : Published(f)
  BY <1>0, PublishesOne
<1>2. UNCHANGED <<seal, online, repeats, key, socket, inbox, breaks, link, outbox, pageVars, agentVars, reader>>
  BY <1>1 DEF Published, readerVars
<1>3. UNCHANGED <<sessions, departures>>
  BY DEF Publishes, Shard!SessionSizes, Shard!SessionOutputs
<1>4. /\ stored' \in Seq(Record) /\ made' \in 0 .. Records
      /\ (\A i \in DOMAIN stored' : stored'[i].seal = seal')
      /\ roomSize' \in Seals \cup {NoSeal} /\ sized' \in BOOLEAN
      /\ (stored' # <<>> \/ sized' => roomSize' = seal' /\ seal' # NoSeal)
      /\ Numbered' /\ Regular(f) /\ f.kind \in {"size", "bytes"}
  <2>1. CASE Sizes(f)
    BY <1>0, <1>2, <2>1 DEF Sizes, RoomInv, FeedTypeOK, Numbered, Regular
  <2>2. CASE Outputs(f)
    <3>1. PICK r \in Record : r.n = made + 1 /\ r.seal = seal /\ f.recs = <<r>> /\ stored' = Append(stored, r)
      BY <2>2 DEF Outputs
    <3>2. /\ sized /\ made' = made + 1 /\ made' \in 0 .. Records /\ made \in Nat /\ stored \in Seq(Record)
          /\ f.kind = "bytes" /\ UNCHANGED <<roomSize, sized>>
      BY <1>0, <2>2 DEF Outputs, RoomInv, FeedTypeOK
    <3>3. PICK N \in Nat : N = Len(stored)
      BY <3>2
    <3>4. /\ stored' \in Seq(Record) /\ Len(stored') = N + 1 /\ stored'[N + 1] = r
          /\ \A i \in 1 .. N : stored'[i] = stored[i]
      BY <3>1, <3>2, <3>3, AppendProperties
    <3>5. ASSUME NEW i \in 1 .. N + 1 PROVE stored'[i].seal = seal /\ stored'[i].n = (made' - (N + 1)) + i
      <4>1. CASE i = N + 1
        BY <3>1, <3>2, <3>4, <4>1
      <4>2. CASE i # N + 1
        <5>1. i \in 1 .. N /\ i \in DOMAIN stored
          BY <3>2, <3>3, <4>2
        <5>2. stored[i].seal = seal /\ stored[i].n = (made - N) + i
          BY <1>0, <3>3, <5>1 DEF RoomInv, Numbered
        <5>3. (made' - (N + 1)) + i = (made - N) + i
          BY <3>2
        <5> QED
          BY <3>4, <5>1, <5>2, <5>3
      <4> QED
        BY <4>1, <4>2
    <3>6. N <= made
      BY <1>0, <3>3 DEF Numbered
    <3>7. N + 1 <= made'
      BY <3>2, <3>6
    <3>8. Numbered'
      BY <3>4, <3>5, <3>7 DEF Numbered
    <3>9. Regular(f)
      <4>1. f.recs # <<>> /\ DOMAIN f.recs = {1} /\ f.recs[1] = r
        BY <3>1
      <4> QED
        BY <3>2, <4>1 DEF Regular
    <3>10. \A i \in DOMAIN stored' : stored'[i].seal = seal'
      BY <1>2, <3>4, <3>5
    <3> QED
      BY <1>0, <1>2, <3>2, <3>4, <3>8, <3>9, <3>10 DEF RoomInv, FeedTypeOK
  <2> QED
    BY <1>1, <2>1, <2>2 DEF Published
<1>5. RoomInv'
  BY <1>0, <1>2, <1>3, <1>4 DEF RoomInv, FeedTypeOK
<1>6. /\ backlog' \in Seq(FrameType) /\ AllRegular(backlog')
      /\ \A i \in DOMAIN backlog' : backlog'[i].kind \in {"size", "bytes"}
  <2>1. backlog \in Seq(FrameType) /\ AllRegular(backlog) /\ backlog' = Append(backlog, f)
    BY <1>0, <1>1 DEF Queues, Published
  <2>2. backlog' \in Seq(FrameType) /\ AllRegular(backlog')
    BY <1>4, <2>1, QueueGrows
  <2>3. ASSUME NEW i \in DOMAIN backlog' PROVE backlog'[i] = f \/ (i \in DOMAIN backlog /\ backlog'[i] = backlog[i])
    BY <2>1, AppendProperties
  <2> QED
    BY <1>0, <1>4, <2>2, <2>3 DEF Queues
<1>7. Queues'
  BY <1>0, <1>2, <1>6 DEF Queues, agentVars
<1>8. TypeOK'
  BY <1>0, <1>2, <1>5 DEF TypeOK, RoomInv, PageTypeOK, AgentTypeOK, pageVars, socketVars, screenVars,
                          verdictVars, agentVars
<1> QED
  BY <1>4, <1>5, <1>7, <1>8 DEF LagTyped

(* Frames go from queue to queue.                                          *)
LEMMA PassesTyped ==
  ASSUME LagTyped, FansOut \/ Registers \/ Relays
  PROVE  LagTyped'
<1>0. RoomInv /\ Numbered /\ TypeOK /\ Queues
  BY DEF LagTyped
<1>1. inbox \in Seq(FrameType) /\ outbox \in Seq(FrameType) /\ backlog \in Seq(FrameType)
  BY <1>0 DEF RoomInv, FeedTypeOK, FrameType, Queues
<1>2. CASE FansOut
  <2>1. UNCHANGED <<vars, link>> /\ backlog # <<>> /\ backlog' = Tail(backlog)
        /\ outbox' = IF link = "open" THEN Append(outbox, Head(backlog)) ELSE outbox
    BY <1>2 DEF FansOut, Queue!Sends
  <2>2. Head(backlog) \in FrameType /\ Regular(Head(backlog)) /\ AllRegular(backlog')
        /\ backlog' \in Seq(FrameType)
    BY <1>0, <1>1, <2>1, RegularTail DEF Queues
  <2>3. outbox' \in Seq(FrameType) /\ AllRegular(outbox') /\ (link = "closed" => outbox' = outbox)
    BY <1>0, <1>1, <2>1, <2>2, QueueGrows DEF Queues
  <2>4. \A i \in DOMAIN backlog' : backlog'[i].kind \in {"size", "bytes"}
    <3>1. \A i \in DOMAIN Tail(backlog) : i + 1 \in DOMAIN backlog /\ Tail(backlog)[i] = backlog[i + 1]
      BY <1>1, <2>1
    <3> QED
      BY <1>0, <2>1, <3>1 DEF Queues
  <2>5. UNCHANGED <<feedVars, pageVars, agentVars, reader>>
    BY <2>1 DEF vars
  <2>6. Queues'
    BY <1>0, <2>1, <2>2, <2>3, <2>4, <2>5 DEF Queues, feedVars, agentVars
  <2> QED
    BY <1>0, <2>5, <2>6 DEF LagTyped, RoomInv, Numbered, TypeOK, FeedTypeOK, PageTypeOK, AgentTypeOK,
                            feedVars, roomVars, pageVars, socketVars, screenVars, verdictVars, agentVars
<1>3. CASE Registers
  <2>1. UNCHANGED <<feedVars, pageVars, agentVars, reader, outbox, backlog>> /\ link' = "open"
    BY <1>3 DEF Registers, vars
  <2>2. Queues'
    BY <1>0, <2>1 DEF Queues, feedVars, agentVars
  <2> QED
    BY <1>0, <2>1, <2>2 DEF LagTyped, RoomInv, Numbered, TypeOK, FeedTypeOK, PageTypeOK, AgentTypeOK,
                            feedVars, roomVars, pageVars, socketVars, screenVars, verdictVars, agentVars
<1>4. CASE Relays
  <2>1. /\ inbox' = inbox \o outbox /\ outbox' = <<>>
        /\ UNCHANGED <<roomVars, key, socket, breaks, readerVars, link, backlog>>
    BY <1>4 DEF Relays
  <2>2. inbox' \in Seq(FrameType) /\ AllRegular(inbox') /\ AllRegular(<<>>)
    BY <1>0, <1>1, <2>1, RegularConcat DEF Queues, AllRegular
  <2>3. UNCHANGED <<pageVars, agentVars, reader>>
    BY <2>1 DEF readerVars
  <2>4. Queues'
    BY <1>0, <2>1, <2>2, <2>3 DEF Queues, agentVars
  <2>5. FeedTypeOK'
    BY <1>0, <2>1, <2>2 DEF RoomInv, FeedTypeOK, FrameType, roomVars
  <2>6. RoomInv' /\ Numbered'
    BY <1>0, <2>1, <2>5 DEF RoomInv, Numbered, roomVars
  <2>7. TypeOK'
    BY <1>0, <2>3, <2>5 DEF TypeOK, PageTypeOK, AgentTypeOK, pageVars, socketVars, screenVars,
                            verdictVars, agentVars
  <2> QED
    BY <2>4, <2>6, <2>7 DEF LagTyped
<1> QED
  BY <1>2, <1>3, <1>4

(* A follower reads no history, and what the reader does to its connection *)
(* is one of these.                                                        *)
LEMMA StepsConnect ==
  ASSUME Steps
  PROVE  /\ Connects \/ UNCHANGED feedVars
         /\ UNCHANGED <<roomVars, key, reader, mode, backlog>>
         /\ socket' = "open" => link = "open" /\ link' = "open" /\ outbox' = outbox
         /\ socket' = "closed" => link' = "closed" /\ outbox' = <<>>
         /\ socket' # "closed" => link' = link /\ outbox' = outbox
<1>1. Connects \/ UNCHANGED feedVars
  BY ReaderConnects DEF Steps, Page, Agent
<1>2. UNCHANGED <<roomVars, key>>
  BY <1>1 DEF Connects, Connected, Broken, feedVars
<1>3. UNCHANGED <<reader, mode>>
  BY DEF Steps, Page, Agent, agentVars, AgentNext, Reads, FollowOpens, FollowMessage, FollowSize,
         FollowCount, FollowOnline, FollowOffline, FollowBytes, FollowReset, TimerFires, Cut
<1> QED
  BY <1>1, <1>2, <1>3 DEF Steps

(* The reader's own steps keep them.                                       *)
LEMMA StepsTyped ==
  ASSUME LagTyped, Steps
  PROVE  LagTyped'
<1>0. RoomInv /\ Numbered /\ TypeOK /\ Queues
  BY DEF LagTyped
<1>1. [Next]_vars
  BY DEF Steps, Next
<1>2. RoomInv' /\ Numbered' /\ AllRegular(inbox)'
  BY <1>0, <1>1, NextRoom, NextNumbered, NextRegular DEF Queues
<1>3. TypeOK'
  <2>1. PageTypeOK'
    <3>1. CASE Page
      BY <1>0, <3>1, PageTypes DEF Page, TypeOK
    <3>2. CASE ~Page
      BY <1>0, <3>2 DEF Steps, Agent, TypeOK, PageTypeOK, pageVars, socketVars, screenVars, verdictVars
    <3> QED
      BY <3>1, <3>2
  <2>2. AgentTypeOK'
    <3>1. CASE Agent
      BY <1>0, <3>1, AgentTypes DEF Agent, TypeOK
    <3>2. CASE ~Agent
      BY <1>0, <3>2 DEF Steps, Page, TypeOK, AgentTypeOK, agentVars
    <3> QED
      BY <3>1, <3>2
  <2> QED
    BY <1>0, <1>2, <2>1, <2>2, StepsConnect DEF TypeOK, RoomInv
<1>4. Queues'
  <2>1. AllRegular(<<>>) /\ <<>> \in Seq(FrameType)
    BY DEF AllRegular
  <2>2. /\ UNCHANGED <<mode, backlog>>
        /\ socket' = "open" => link' = "open" /\ outbox' = outbox
        /\ socket' = "closed" => link' = "closed" /\ outbox' = <<>>
        /\ socket' # "closed" => link' = link /\ outbox' = outbox
    BY StepsConnect
  <2> QED
    BY <1>0, <1>2, <2>1, <2>2 DEF Queues
<1> QED
  BY <1>2, <1>3, <1>4 DEF LagTyped

(* Nothing happens.                                                        *)
LEMMA SameTyped ==
  ASSUME LagTyped, UNCHANGED lagVars
  PROVE  LagTyped'
<1>1. UNCHANGED <<feedVars, pageVars, agentVars, reader, link, outbox, backlog>>
  BY DEF lagVars, vars
<1>2. Queues'
  BY <1>1 DEF LagTyped, Queues, feedVars, agentVars
<1> QED
  BY <1>1, <1>2 DEF LagTyped, RoomInv, Numbered, TypeOK, FeedTypeOK, PageTypeOK, AgentTypeOK,
                    feedVars, roomVars, pageVars, socketVars, screenVars, verdictVars, agentVars

(* A step keeps the types.                                                 *)
LEMMA LagNextTyped == LagTyped /\ [LagNext]_lagVars => LagTyped'
BY AnnouncesTyped, PublishesTyped, PassesTyped, StepsTyped, SameTyped DEF LagNext

(* At first there are no frames.                                           *)
LEMMA FirstTyped == LagInit => LagTyped
<1> SUFFICES ASSUME LagInit PROVE LagTyped
  OBVIOUS
<1>1. Init /\ link = "closed" /\ outbox = <<>> /\ backlog = <<>> /\ mode = "follow"
  BY DEF LagInit
<1>2. RoomInv /\ Numbered /\ TypeOK
  BY <1>1, FirstTypes
<1>3. socket = "connecting" /\ inbox = <<>> /\ <<>> \in Seq(FrameType) /\ AllRegular(<<>>)
  BY <1>1 DEF Init, FeedInit, AllRegular
<1>4. Queues
  BY <1>1, <1>3 DEF Queues
<1> QED
  BY <1>2, <1>4 DEF LagTyped

(* The types hold throughout.                                              *)
LEMMA LagAlwaysTyped == LagSpec => []LagTyped
BY FirstTyped, LagNextTyped, PTL DEF LagSpec

(* The variables of a lagging reader and of the queues before it have      *)
(* their types (server/viewers.rs, its channels).                          *)
THEOREM LagTypeCorrect == LagSpec => []LagTypeOK
<1>1. LagTyped => LagTypeOK
  BY FeedKinds DEF LagTyped, Queues, RoomInv, TypeOK, LagTypeOK, FeedTypeOK, FrameType, NoSeal,
         Queue!FeedTypeOK, Queue!NoSeal, Queue!Record, Shard!FeedTypeOK, Shard!NoSeal, Shard!Record, Record
<1> QED
  BY <1>1, LagAlwaysTyped, PTL

-----------------------------------------------------------------------------
(* What reaches a reader that lags.                                        *)

Nth(m) == {r \in Record : r.n = m}
Newer(m) == {r \in Record : r.n > m}

(* The frames that leave record m with a reader that handles them, and     *)
(* those that do not take it away: to a page a reset does, and what comes  *)
(* after it has to be newer.                                               *)
Giving(m) == {f \in FrameType : Leaves(f.recs, Nth(m), Newer(m))}
Sparing(who, m) == {f \in FrameType : (who = "page" => f.kind # "reset") /\ All(f.recs, Newer(m))}

(* The frames that tell whether the broadcaster is attached, rightly       *)
(* unless that it left was announced again, and the others.                *)
Telling(w) ==
  {f \in FrameType : f.kind \in {"online", "offline"} /\ (w.again = 0 => f.kind = OnOff(w.on))}
Silent == {f \in FrameType : f.kind \notin {"online", "offline"}}

(* A room as a lagging reader of this kind is to know it: the records made *)
(* so far, those of them before its history, its seal and its status, and  *)
(* how often its going offline was announced again.                        *)
View == [who |-> reader, n |-> made, base |-> Base, seal |-> seal, on |-> online, again |-> repeats]

(* The frames whose records were made, the current session's as it sends.  *)
OfRoom(w) == {r \in Record : r.n <= w.n /\ (r.n > w.base => r.seal = w.seal)}
Bearing(w) == {f \in FrameType : All(f.recs, OfRoom(w))}

(* A reader that handles x has every record from the one after lo on, and  *)
(* nothing that was not sent, and knows the broadcaster's state.           *)
Catches(x, lo, w) ==
  /\ \A m \in Nat : lo < m /\ m <= w.n => Leaves(x, Giving(m), Sparing(w.who, m))
  /\ All(x, Bearing(w))
  /\ Leaves(x, Telling(w), Silent)

(* What is known of u may be said of v.                                    *)
Replaces(u, v, w) ==
  /\ u \in Seq(FrameType) /\ v \in Seq(FrameType)
  /\ \A m \in Nat : Leaves(u, Giving(m), Sparing(w.who, m)) => Leaves(v, Giving(m), Sparing(w.who, m))
  /\ All(u, Bearing(w)) => All(v, Bearing(w))
  /\ Leaves(u, Telling(w), Silent) => Leaves(v, Telling(w), Silent)

(* The first frames may be replaced.                                       *)
LEMMA ReplacedFirst ==
  ASSUME NEW u, NEW v, NEW w, NEW q \in Seq(FrameType), NEW lo, Replaces(u, v, w), Catches(u \o q, lo, w)
  PROVE  Catches(v \o q, lo, w)
<1>0. u \in Seq(FrameType) /\ v \in Seq(FrameType)
  BY DEF Replaces
<1>1. ASSUME NEW m \in Nat, Leaves(u \o q, Giving(m), Sparing(w.who, m))
      PROVE  Leaves(v \o q, Giving(m), Sparing(w.who, m))
  BY <1>0, <1>1, InTwoParts DEF Replaces
<1>2. All(u \o q, Bearing(w)) => All(v \o q, Bearing(w))
  BY <1>0, InTwoParts DEF Replaces
<1>3. Leaves(u \o q, Telling(w), Silent) => Leaves(v \o q, Telling(w), Silent)
  BY <1>0, InTwoParts DEF Replaces
<1> QED
  BY <1>1, <1>2, <1>3 DEF Catches

(* A state of a reader or of the room, as a frame that says what it holds. *)
Holding(s, recs) == Frame(s, recs, NoSeal)

(* The history of the room viewed: the last records made.                  *)
History(recs, w) ==
  /\ recs \in Seq(Record) /\ w.n \in Nat /\ w.on \in BOOLEAN
  /\ \E N \in Nat : N = Len(recs) /\ N <= w.n /\ w.base = w.n - N
                    /\ \A i \in 1 .. N : recs[i].n = (w.n - N) + i /\ recs[i].seal = w.seal

(* That of the room is.                                                    *)
LEMMA RoomHistory == RoomInv /\ Numbered => History(stored, View)
<1> SUFFICES ASSUME RoomInv, Numbered PROVE History(stored, View)
  OBVIOUS
<1>0. stored \in Seq(Record) /\ made \in Nat /\ online \in BOOLEAN
  BY DEF RoomInv, FeedTypeOK
<1>1. PICK N \in Nat : N = Len(stored)
  BY <1>0
<1>2. N <= made /\ Base = made - N /\ DOMAIN stored = 1 .. N
  BY <1>0, <1>1 DEF Numbered, Base
<1>3. \A i \in 1 .. N : stored[i].n = (made - N) + i /\ stored[i].seal = seal
  BY <1>1, <1>2 DEF Numbered, RoomInv
<1>4. View.n = made /\ View.base = Base /\ View.seal = seal /\ View.on = online
  BY DEF View
<1> QED
  BY <1>0, <1>1, <1>2, <1>3, <1>4 DEF History

(* A frame with the history gives all of it.                               *)
LEMMA HistoryGives ==
  ASSUME NEW recs, NEW w, History(recs, w)
  PROVE  /\ w.base \in Nat /\ w.n \in Nat /\ recs \in Seq(Record) /\ w.on \in BOOLEAN
         /\ All(recs, OfRoom(w))
         /\ \A m \in Nat : w.base < m /\ m <= w.n => Leaves(recs, Nth(m), Newer(m))
<1>0. recs \in Seq(Record) /\ w.n \in Nat /\ w.on \in BOOLEAN
  BY DEF History
<1>1. PICK N \in Nat : N = Len(recs) /\ N <= w.n /\ w.base = w.n - N
                       /\ \A i \in 1 .. N : recs[i].n = (w.n - N) + i /\ recs[i].seal = w.seal
  BY DEF History
<1>2. PICK n \in Nat, b \in Nat : n = w.n /\ b = w.base /\ b = n - N
  <2>1. w.n - N \in Nat
    BY <1>0, <1>1
  <2> QED
    BY <1>0, <1>1, <2>1
<1>3. DOMAIN recs = 1 .. N /\ \A i \in 1 .. N : recs[i] \in Record /\ recs[i].n = b + i /\ recs[i].seal = w.seal
  BY <1>0, <1>1, <1>2
<1>4. All(recs, OfRoom(w))
  <2>1. ASSUME NEW i \in 1 .. N PROVE b + i <= n
    BY <1>2
  <2> QED
    BY <1>2, <1>3, <2>1 DEF OfRoom, All
<1>5. ASSUME NEW m \in Nat, b < m, m <= n PROVE Leaves(recs, Nth(m), Newer(m))
  <2>1. PICK j \in 1 .. N : m = b + j
    <3>1. m - b \in 1 .. N /\ m = b + (m - b)
      BY <1>2, <1>5
    <3> QED
      BY <3>1
  <2>2. recs[j] \in Nth(m)
    BY <1>3, <2>1 DEF Nth
  <2>3. ASSUME NEW i \in 1 .. N, i > j PROVE recs[i] \in Newer(m)
    <3>1. b + i > m
      BY <2>1, <2>3
    <3> QED
      BY <1>3, <3>1 DEF Newer
  <2> QED
    BY <1>3, <2>2, <2>3 DEF Leaves
<1> QED
  BY <1>0, <1>2, <1>4, <1>5

(* The frame that holds the room.                                          *)
RoomFrame(recs, w) == Holding(OnOff(w.on), recs)

(* It says all of the room and nothing else.                               *)
LEMMA RoomFrameGives ==
  ASSUME NEW recs, NEW w, History(recs, w)
  PROVE  /\ RoomFrame(recs, w) \in FrameType
         /\ RoomFrame(recs, w) \in Telling(w) /\ RoomFrame(recs, w) \in Bearing(w)
         /\ \A m \in Nat : w.base < m /\ m <= w.n => RoomFrame(recs, w) \in Giving(m)
<1>1. /\ recs \in Seq(Record) /\ All(recs, OfRoom(w))
      /\ \A m \in Nat : w.base < m /\ m <= w.n => Leaves(recs, Nth(m), Newer(m))
  BY HistoryGives
<1>2. RoomFrame(recs, w) \in FrameType /\ RoomFrame(recs, w).recs = recs
      /\ RoomFrame(recs, w).kind = OnOff(w.on) /\ OnOff(w.on) \in {"online", "offline"}
  BY <1>1 DEF RoomFrame, Holding, Frame, FrameType, OnOff
<1> QED
  BY <1>1, <1>2 DEF Telling, Bearing, Giving

(* It makes up for what is dropped after it, and for what was before it.   *)
LEMMA RoomFrameMakesUp ==
  ASSUME NEW recs, NEW w, History(recs, w), NEW p \in Seq(FrameType), NEW q \in Seq(FrameType), NEW lo,
         Catches(p \o q, lo, w), lo = w.base
  PROVE  Catches(<<RoomFrame(recs, w)>> \o q, w.base, w)
<1> DEFINE one == <<RoomFrame(recs, w)>>
<1>1. one \in Seq(FrameType) /\ RoomFrame(recs, w) \in FrameType
  BY RoomFrameGives
<1>2. ASSUME NEW G, NEW S, RoomFrame(recs, w) \in G, Leaves(p \o q, G, S) PROVE Leaves(one \o q, G, S)
  <2>1. Leaves(one, G, S)
    BY <1>2, InOne
  <2> HIDE DEF one
  <2>2. Leaves(q, G, S) \/ All(q, S)
    BY <1>2, InTwoParts
  <2> QED
    BY <1>1, <2>1, <2>2, InTwoParts
<1>3. All(one \o q, Bearing(w))
  <2>1. All(one, Bearing(w))
    BY RoomFrameGives, InOne
  <2> HIDE DEF one
  <2>2. All(q, Bearing(w))
    BY InTwoParts DEF Catches
  <2> QED
    BY <1>1, <2>1, <2>2, InTwoParts
<1>4. Leaves(one \o q, Telling(w), Silent)
  BY <1>2, RoomFrameGives DEF Catches
<1>5. ASSUME NEW m \in Nat, w.base < m, m <= w.n
      PROVE  Leaves(one \o q, Giving(m), Sparing(w.who, m))
  <2>1. Leaves(p \o q, Giving(m), Sparing(w.who, m)) /\ RoomFrame(recs, w) \in Giving(m)
    BY <1>5, RoomFrameGives DEF Catches
  <2> HIDE DEF one
  <2> QED
    BY <1>2, <2>1
<1> HIDE DEF one
<1> QED
  BY <1>3, <1>4, <1>5 DEF Catches, one

(* A status, or a reset, changes the view.                                 *)
Told(f, w, u) ==
  /\ f.kind \in {"online", "offline"} /\ (u.again = 0 => f.kind = OnOff(u.on))
  /\ u.who = w.who /\ u.n = w.n /\ u.base = w.base /\ u.seal = w.seal
Cleared(f, w, u) ==
  /\ f.kind = "reset"
  /\ u.who = w.who /\ u.n = w.n /\ u.base = w.n /\ u.on = w.on /\ u.again = w.again

(* A frame without records has nothing to be wrong.                        *)
LEMMA EmptyFrame ==
  ASSUME NEW f \in FrameType, f.recs = <<>>
  PROVE  /\ \A w : f \in Bearing(w)
         /\ \A m, who : (who = "page" => f.kind # "reset") => f \in Sparing(who, m)
<1>1. \A S : All(f.recs, S)
  BY InOne
<1> QED
  BY <1>1 DEF Bearing, Sparing

(* A frame may come between when it takes nothing away.                    *)
LEMMA InBetween ==
  ASSUME NEW f \in FrameType, NEW p \in Seq(FrameType), NEW q \in Seq(FrameType), NEW G, NEW S
  PROVE  /\ p \o <<f>> \in Seq(FrameType)
         /\ f \in S /\ Leaves(p \o q, G, S) => Leaves((p \o <<f>>) \o q, G, S)
         /\ f \in G /\ All(q, S) => Leaves((p \o <<f>>) \o q, G, S)
         /\ f \in S /\ All(p \o q, S) => All((p \o <<f>>) \o q, S)
<1> DEFINE one == <<f>>
<1>1. one \in Seq(FrameType) /\ (All(one, S) <=> f \in S) /\ (Leaves(one, G, S) <=> f \in G)
  BY InOne
<1> HIDE DEF one
<1>2. p \o one \in Seq(FrameType)
  BY <1>1, ConcatProperties
<1>3. /\ Leaves(p \o q, G, S) <=> Leaves(q, G, S) \/ (Leaves(p, G, S) /\ All(q, S))
      /\ Leaves(p \o one, G, S) <=> Leaves(one, G, S) \/ (Leaves(p, G, S) /\ All(one, S))
      /\ Leaves((p \o one) \o q, G, S) <=> Leaves(q, G, S) \/ (Leaves(p \o one, G, S) /\ All(q, S))
      /\ All(p \o q, S) <=> All(p, S) /\ All(q, S)
      /\ All(p \o one, S) <=> All(p, S) /\ All(one, S)
      /\ All((p \o one) \o q, S) <=> All(p \o one, S) /\ All(q, S)
  BY <1>1, <1>2, InTwoParts
<1> QED
  BY <1>1, <1>2, <1>3 DEF one

(* What is announced may overtake what is published.                       *)
LEMMA ControlCatches ==
  ASSUME NEW f \in FrameType, f.recs = <<>>, NEW w, NEW u, Told(f, w, u) \/ Cleared(f, w, u),
         NEW p \in Seq(FrameType), NEW q \in Seq(FrameType), All(q, Silent),
         NEW lo, NEW to, to = lo \/ to = w.n, Cleared(f, w, u) /\ w.who = "page" => to = w.n,
         w.n \in Nat, Catches(p \o q, lo, w)
  PROVE  Catches((p \o <<f>>) \o q, to, u)
<1> DEFINE x == p \o q
           y == (p \o <<f>>) \o q
<1>1. /\ \A v : f \in Bearing(v)
      /\ \A m, who : (who = "page" => f.kind # "reset") => f \in Sparing(who, m)
  BY EmptyFrame
<1>2. \A G, S : /\ f \in S /\ Leaves(x, G, S) => Leaves(y, G, S)
                /\ f \in G => Leaves(y, G, S) \/ ~All(q, S)
                /\ f \in S /\ All(x, S) => All(y, S)
  BY InBetween
<1>3. Catches(x, lo, w)
  OBVIOUS
<1>8. x \in Seq(FrameType)
  BY ConcatProperties
<1> HIDE DEF x, y
<1>4. u.n = w.n /\ u.who = w.who
  BY DEF Told, Cleared
<1>5. ASSUME NEW m \in Nat, to < m, m <= u.n PROVE Leaves(y, Giving(m), Sparing(u.who, m))
  <2>1. to = lo
    BY <1>4, <1>5
  <2>2. w.who = "page" => f.kind # "reset"
    <3>1. ASSUME w.who = "page", f.kind = "reset" PROVE FALSE
      <4>1. Cleared(f, w, u)
        BY <3>1 DEF Told
      <4>2. to = w.n
        BY <3>1, <4>1
      <4> QED
        BY <1>4, <1>5, <4>2
    <3> QED
      BY <3>1
  <2>3. f \in Sparing(w.who, m)
    BY <1>1, <2>2
  <2>4. Leaves(x, Giving(m), Sparing(w.who, m))
    BY <1>3, <1>4, <1>5, <2>1 DEF Catches
  <2> QED
    BY <1>2, <1>4, <2>3, <2>4
<1>6. All(y, Bearing(u))
  <2>1. All(x, Bearing(w))
    BY <1>3 DEF Catches
  <2>2. All(x, Bearing(u))
    <3>1. CASE Told(f, w, u)
      BY <2>1, <3>1 DEF Told, Bearing, OfRoom
    <3>2. CASE Cleared(f, w, u)
      <4>1. \A r \in Record : r.n \in Nat
        BY FeedBounds DEF Record
      <4>2. OfRoom(w) \subseteq OfRoom(u)
        <5>1. ASSUME NEW r \in OfRoom(w) PROVE r \in OfRoom(u)
          <6>1. r \in Record /\ r.n <= w.n
            BY DEF OfRoom
          <6>2. ~(r.n > w.n)
            BY <4>1, <6>1
          <6> QED
            BY <3>2, <6>1, <6>2 DEF OfRoom, Cleared
        <5> QED
          BY <5>1
      <4>3. Bearing(w) \subseteq Bearing(u)
        BY <4>2 DEF Bearing, All
      <4> QED
        BY <2>1, <4>3 DEF All
    <3> QED
      BY <3>1, <3>2
  <2> QED
    BY <1>1, <1>2, <2>2
<1>7. Leaves(y, Telling(u), Silent)
  <2>1. CASE Told(f, w, u)
    <3>1. f \in Telling(u)
      BY <2>1 DEF Told, Telling
    <3> QED
      BY <1>2, <3>1
  <2>2. CASE Cleared(f, w, u)
    <3>1. f \in Silent
      BY <2>2 DEF Cleared, Silent
    <3>2. Telling(u) = Telling(w)
      BY <2>2 DEF Cleared, Telling
    <3>3. Leaves(x, Telling(w), Silent)
      BY <1>3 DEF Catches
    <3> QED
      BY <1>2, <3>1, <3>2, <3>3
  <2> QED
    BY <2>1, <2>2
<1> QED
  BY <1>5, <1>6, <1>7 DEF Catches, y

(* A size, or the next record.                                             *)
Sized(f, w, u) == f.kind = "size" /\ f.recs = <<>> /\ u = w
Added(f, w, u) ==
  /\ f.kind = "bytes"
  /\ \E r \in Record : r.n = w.n + 1 /\ r.seal = w.seal /\ f.recs = <<r>>
  /\ u.who = w.who /\ u.n = w.n + 1 /\ u.base = w.base /\ u.seal = w.seal /\ u.on = w.on
  /\ u.again = w.again

(* What is published comes last.                                           *)
LEMMA OutputCatches ==
  ASSUME NEW f \in FrameType, NEW w, NEW u, Sized(f, w, u) \/ Added(f, w, u),
         NEW p \in Seq(FrameType), NEW lo, w.n \in Nat, Catches(p, lo, w)
  PROVE  Catches(p \o <<f>>, lo, u)
<1> DEFINE one == <<f>>
           y == p \o one
<1>1. one \in Seq(FrameType)
  OBVIOUS
<1>2. \A G, S : /\ All(one, S) <=> f \in S
                /\ Leaves(one, G, S) <=> f \in G
  BY InOne
<1> HIDE DEF one
<1>3. \A G, S : /\ f \in S /\ Leaves(p, G, S) => Leaves(y, G, S)
                /\ f \in G => Leaves(y, G, S)
                /\ f \in S /\ All(p, S) => All(y, S)
  BY <1>1, <1>2, InTwoParts
<1>4. Catches(p, lo, w)
  OBVIOUS
<1> HIDE DEF y
<1>5. f \in Silent
  BY DEF Sized, Added, Silent
<1>6. CASE Sized(f, w, u)
  <2>1. f.recs = <<>> /\ f.kind # "reset" /\ u = w
    BY <1>6 DEF Sized
  <2>2. (\A v : f \in Bearing(v)) /\ \A m, who : f \in Sparing(who, m)
    BY <2>1, EmptyFrame
  <2> QED
    BY <1>3, <1>4, <1>5, <2>1, <2>2 DEF Catches, y, one
<1>7. CASE Added(f, w, u)
  <2>1. PICK r \in Record : r.n = w.n + 1 /\ r.seal = w.seal /\ f.recs = <<r>>
    BY <1>7 DEF Added
  <2>2. /\ f.kind = "bytes"
        /\ u.who = w.who /\ u.n = w.n + 1 /\ u.base = w.base /\ u.seal = w.seal /\ u.on = w.on
        /\ u.again = w.again
    BY <1>7 DEF Added
  <2>3. \A G, S : /\ All(f.recs, S) <=> r \in S
                  /\ Leaves(f.recs, G, S) <=> r \in G
    BY <2>1, InOne
  <2>4. ASSUME NEW m \in Nat, lo < m, m <= u.n PROVE Leaves(y, Giving(m), Sparing(u.who, m))
    <3>1. CASE m = w.n + 1
      <4>1. f \in Giving(m)
        BY <2>1, <2>3, <3>1 DEF Giving, Nth
      <4> QED
        BY <1>3, <4>1
    <3>2. CASE m # w.n + 1
      <4>1. m <= w.n /\ w.n + 1 > m
        BY <2>2, <2>4, <3>2
      <4>2. f \in Sparing(w.who, m)
        BY <2>1, <2>2, <2>3, <4>1 DEF Sparing, Newer
      <4>3. Leaves(p, Giving(m), Sparing(w.who, m))
        BY <1>4, <2>4, <4>1 DEF Catches
      <4> QED
        BY <1>3, <2>2, <4>2, <4>3
    <3> QED
      BY <3>1, <3>2
  <2>5. All(y, Bearing(u))
    <3>1. r \in OfRoom(u)
      BY <2>1, <2>2 DEF OfRoom
    <3>2. f \in Bearing(u)
      BY <2>3, <3>1 DEF Bearing
    <3>3. OfRoom(w) \subseteq OfRoom(u)
      <4>1. \A z \in Record : z.n \in Nat
        BY FeedBounds DEF Record
      <4>2. \A k \in Nat : k <= w.n => k <= w.n + 1
        OBVIOUS
      <4> QED
        BY <2>2, <4>1, <4>2 DEF OfRoom
    <3>4. Bearing(w) \subseteq Bearing(u)
      BY <3>3 DEF Bearing, All
    <3>5. All(p, Bearing(u))
      BY <1>4, <3>4 DEF Catches, All
    <3> QED
      BY <1>3, <3>2, <3>5
  <2>6. Leaves(y, Telling(u), Silent)
    <3>1. Telling(u) = Telling(w)
      BY <2>2 DEF Telling
    <3>2. Leaves(p, Telling(w), Silent)
      BY <1>4 DEF Catches
    <3> QED
      BY <1>3, <1>5, <3>1, <3>2
  <2> QED
    BY <2>4, <2>5, <2>6 DEF Catches, y, one
<1> QED
  BY <1>6, <1>7

(* What a reader holds when it has handled a frame.                        *)
After(who, x, f) ==
  Holding(IF f.kind \in {"online", "offline"} THEN f.kind ELSE x.kind,
          IF f.kind = "reset" /\ who = "page" THEN <<>> ELSE x.recs \o f.recs)

(* It holds what is left of both.                                          *)
LEMMA HandledReplaces ==
  ASSUME NEW x \in FrameType, NEW f \in FrameType, NEW w, Regular(f), x.kind \in {"online", "offline"}
  PROVE  After(w.who, x, f) \in FrameType /\ Replaces(<<x, f>>, <<After(w.who, x, f)>>, w)
<1> DEFINE y == After(w.who, x, f)
<1>0. x.recs \in Seq(Record) /\ f.recs \in Seq(Record)
  BY DEF FrameType
<1>1. PICK recs : recs = IF f.kind = "reset" /\ w.who = "page" THEN <<>> ELSE x.recs \o f.recs
  OBVIOUS
<1>2. recs \in Seq(Record)
  BY <1>0, <1>1, ConcatProperties
<1>3. /\ y \in FrameType /\ y.recs = recs
      /\ y.kind = IF f.kind \in {"online", "offline"} THEN f.kind ELSE x.kind
  BY <1>1, <1>2 DEF After, Holding, Frame, FrameType
<1> HIDE DEF y
<1>4. /\ <<x>> \in Seq(FrameType) /\ <<f>> \in Seq(FrameType) /\ <<y>> \in Seq(FrameType)
      /\ <<x, f>> \in Seq(FrameType) /\ <<x, f>> = <<x>> \o <<f>>
  <2>1. <<x>> \in Seq(FrameType) /\ <<f>> \in Seq(FrameType)
    OBVIOUS
  <2>2. <<y>> \in Seq(FrameType)
    BY <1>3
  <2>3. <<x, f>> \in Seq(FrameType)
    OBVIOUS
  <2>4. <<x, f>> = <<x>> \o <<f>>
    <3>1. <<x, f>> = Append(<<x>>, f)
      BY Pair
    <3>2. Append(<<x>>, f) = <<x>> \o <<f>>
      BY <2>1, AppendIsConcat
    <3> QED
      BY <3>1, <3>2
  <2> QED
    BY <2>1, <2>2, <2>3, <2>4
<1>5. \A G, S : /\ Leaves(<<x, f>>, G, S) <=> f \in G \/ (x \in G /\ f \in S)
                /\ All(<<x, f>>, S) <=> x \in S /\ f \in S
                /\ Leaves(<<y>>, G, S) <=> y \in G
                /\ All(<<y>>, S) <=> y \in S
  <2> TAKE G, S
  <2>1. /\ Leaves(<<x>>, G, S) <=> x \in G
        /\ Leaves(<<f>>, G, S) <=> f \in G
        /\ All(<<x>>, S) <=> x \in S
        /\ All(<<f>>, S) <=> f \in S
        /\ Leaves(<<y>>, G, S) <=> y \in G
        /\ All(<<y>>, S) <=> y \in S
    BY InOne
  <2>2. /\ Leaves(<<x>> \o <<f>>, G, S) <=> Leaves(<<f>>, G, S) \/ (Leaves(<<x>>, G, S) /\ All(<<f>>, S))
        /\ All(<<x>> \o <<f>>, S) <=> All(<<x>>, S) /\ All(<<f>>, S)
    BY <1>4, InTwoParts
  <2> QED
    BY <1>4, <2>1, <2>2
<1>6. ASSUME NEW m \in Nat, Leaves(<<x, f>>, Giving(m), Sparing(w.who, m))
      PROVE  Leaves(<<y>>, Giving(m), Sparing(w.who, m))
  <2>1. f \in Giving(m) \/ (x \in Giving(m) /\ f \in Sparing(w.who, m))
    BY <1>5, <1>6
  <2>2. ~(f.kind = "reset" /\ w.who = "page")
    <3>1. ASSUME f.kind = "reset", w.who = "page" PROVE FALSE
      <4>1. f.recs = <<>>
        BY <3>1 DEF Regular
      <4>2. ~Leaves(<<>>, Nth(m), Newer(m))
        BY InOne
      <4>4. f \notin Giving(m)
        BY <4>1, <4>2 DEF Giving
      <4> QED
        BY <2>1, <3>1, <4>4 DEF Sparing
    <3> QED
      BY <3>1
  <2>3. Leaves(x.recs \o f.recs, Nth(m), Newer(m))
    BY <1>0, <2>1, InTwoParts DEF Giving, Sparing
  <2>4. y \in Giving(m)
    BY <1>1, <1>3, <2>2, <2>3 DEF Giving
  <2> QED
    BY <1>5, <2>4
<1>7. ASSUME All(<<x, f>>, Bearing(w)) PROVE All(<<y>>, Bearing(w))
  <2>1. All(x.recs, OfRoom(w)) /\ All(f.recs, OfRoom(w))
    BY <1>5, <1>7 DEF Bearing
  <2>2. All(x.recs \o f.recs, OfRoom(w)) /\ All(<<>>, OfRoom(w))
    BY <1>0, <2>1, InTwoParts, InOne
  <2>3. y \in Bearing(w)
    BY <1>1, <1>3, <2>2 DEF Bearing
  <2> QED
    BY <1>5, <2>3
<1>8. ASSUME Leaves(<<x, f>>, Telling(w), Silent) PROVE Leaves(<<y>>, Telling(w), Silent)
  <2>1. f \in Telling(w) \/ (x \in Telling(w) /\ f \in Silent)
    BY <1>5, <1>8
  <2>2. y \in Telling(w)
    BY <1>3, <2>1 DEF Telling, Silent, OnOff
  <2> QED
    BY <1>5, <2>2
<1> QED
  BY <1>3, <1>4, <1>6, <1>7, <1>8 DEF Replaces, y

(* A status is one frame, and the end of a snapshot is two.                *)
LEMMA Ending ==
  ASSUME RoomInv, NEW G, NEW S, NEW A
  PROVE  LET third == <<Status(online), Frame("count", <<>>, NoSeal)>> IN
         /\ third \in Seq(FrameType)
         /\ All(third, A) <=> Status(online) \in A /\ Frame("count", <<>>, NoSeal) \in A
         /\ Status(online) \in G /\ Frame("count", <<>>, NoSeal) \in S => Leaves(third, G, S)
<1> DEFINE on == Status(online)
           count == Frame("count", <<>>, NoSeal)
<1>1. on \in FrameType /\ count \in FrameType
  BY FramesType DEF RoomInv, FeedTypeOK, Frame, Status
<1> HIDE DEF on, count
<1>2. <<on>> \in Seq(FrameType) /\ <<count>> \in Seq(FrameType) /\ <<on, count>> \in Seq(FrameType)
  BY <1>1
<1>3. <<on, count>> = <<on>> \o <<count>>
  <2>1. <<on, count>> = Append(<<on>>, count)
    BY <1>1, Pair
  <2>2. Append(<<on>>, count) = <<on>> \o <<count>>
    BY <1>1, <1>2, AppendIsConcat
  <2> QED
    BY <2>1, <2>2
<1>4. /\ All(<<on>>, A) <=> on \in A
      /\ All(<<count>>, A) <=> count \in A
      /\ All(<<count>>, S) <=> count \in S
      /\ Leaves(<<on>>, G, S) <=> on \in G
  BY InOne
<1>5. /\ All(<<on>> \o <<count>>, A) <=> All(<<on>>, A) /\ All(<<count>>, A)
      /\ Leaves(<<on>> \o <<count>>, G, S)
           <=> Leaves(<<count>>, G, S) \/ (Leaves(<<on>>, G, S) /\ All(<<count>>, S))
  BY <1>2, InTwoParts
<1> QED
  BY <1>2, <1>3, <1>4, <1>5 DEF on, count

(* A snapshot holds what the room does, to one who holds nothing.          *)
LEMMA SnapshotReplaces ==
  ASSUME RoomInv, NEW s \in {"online", "offline"}, NEW w, w.on = online
  PROVE  /\ Snapshot \in Seq(FrameType) /\ Holding(s, <<>>) \in FrameType
         /\ RoomFrame(stored, w) \in FrameType
         /\ Replaces(<<RoomFrame(stored, w)>>, <<Holding(s, <<>>)>> \o Snapshot, w)
<1> DEFINE first  == IF roomSize = NoSeal THEN <<>> ELSE <<Frame("size", <<>>, roomSize)>>
           second == IF stored = <<>> THEN <<>> ELSE <<Frame("bytes", stored, NoSeal)>>
           third  == <<Status(online), Frame("count", <<>>, NoSeal)>>
           x0 == Holding(s, <<>>)
           room == RoomFrame(stored, w)
<1>0. /\ stored \in Seq(Record) /\ <<>> \in Seq(Record) /\ online \in BOOLEAN
      /\ \A S : All(<<>>, S)
  <2>1. \A S : All(<<>>, S)
    BY InOne
  <2> QED
    BY <2>1 DEF RoomInv, FeedTypeOK
<1>1. x0 \in FrameType /\ x0.recs = <<>>
  BY <1>0 DEF Holding, Frame, FrameType
<1>2. room \in FrameType /\ room.recs = stored
  BY <1>0 DEF RoomFrame, Holding, Frame, FrameType, OnOff
<1>3. /\ Status(online) \in FrameType /\ Status(online).recs = <<>>
      /\ Status(online).kind = OnOff(online) /\ OnOff(online) \in {"online", "offline"}
      /\ Frame("count", <<>>, NoSeal) \in FrameType /\ Frame("count", <<>>, NoSeal).recs = <<>>
      /\ Frame("count", <<>>, NoSeal).kind = "count"
  BY FramesType DEF RoomInv, FeedTypeOK, Frame, Status, OnOff
<1>4. first \in Seq(FrameType) /\ All(first, Bearing(w))
  <2>1. CASE roomSize = NoSeal
    BY <1>0, <2>1
  <2>2. CASE roomSize # NoSeal
    <3> DEFINE size == Frame("size", <<>>, roomSize)
    <3>1. size \in FrameType /\ size.recs = <<>> /\ first = <<size>>
      BY <2>2, FramesType DEF RoomInv, FeedTypeOK, Frame
    <3> HIDE DEF size, first
    <3>2. size \in Bearing(w)
      BY <3>1, EmptyFrame
    <3> QED
      BY <3>1, <3>2, InOne
  <2> QED
    BY <2>1, <2>2
<1>5. second \in Seq(FrameType) /\ (All(stored, OfRoom(w)) => All(second, Bearing(w)))
      /\ \A m \in Nat : \A S : Leaves(stored, Nth(m), Newer(m)) => Leaves(second, Giving(m), S)
  <2>1. CASE stored = <<>>
    <3>1. \A m : ~Leaves(stored, Nth(m), Newer(m))
      BY <2>1, InOne
    <3>2. second = <<>>
      BY <2>1
    <3> QED
      BY <1>0, <3>1, <3>2
  <2>2. CASE stored # <<>>
    <3> DEFINE bytes == Frame("bytes", stored, NoSeal)
    <3>1. bytes \in FrameType /\ bytes.recs = stored /\ second = <<bytes>>
      BY <1>0, <2>2, FramesType DEF Frame
    <3> HIDE DEF bytes, second
    <3>2. All(stored, OfRoom(w)) => bytes \in Bearing(w)
      BY <3>1 DEF Bearing
    <3>3. \A m : Leaves(stored, Nth(m), Newer(m)) => bytes \in Giving(m)
      BY <3>1 DEF Giving
    <3>4. \A G, S : (All(<<bytes>>, S) <=> bytes \in S) /\ (Leaves(<<bytes>>, G, S) <=> bytes \in G)
      BY InOne
    <3> QED
      BY <3>1, <3>2, <3>3, <3>4
  <2> QED
    BY <2>1, <2>2
<1>6. /\ third \in Seq(FrameType) /\ All(third, Bearing(w))
      /\ \A m, who : All(third, Sparing(who, m))
      /\ Leaves(third, Telling(w), Silent)
  <2>1. Status(online) \in Bearing(w) /\ Frame("count", <<>>, NoSeal) \in Bearing(w)
    BY <1>3, EmptyFrame
  <2>2. \A m, who : Status(online) \in Sparing(who, m) /\ Frame("count", <<>>, NoSeal) \in Sparing(who, m)
    BY <1>3, EmptyFrame DEF OnOff
  <2>3. Status(online) \in Telling(w) /\ Frame("count", <<>>, NoSeal) \in Silent
    BY <1>3 DEF Telling, Silent
  <2> QED
    BY <2>1, <2>2, <2>3, Ending
<1> HIDE DEF first, second, third, x0, room
<1>7. Snapshot = (first \o second) \o third
  BY DEF Snapshot, first, second, third
<1>8. first \o second \in Seq(FrameType) /\ Snapshot \in Seq(FrameType) /\ <<x0>> \in Seq(FrameType)
      /\ <<room>> \in Seq(FrameType) /\ <<x0>> \o Snapshot \in Seq(FrameType)
  <2>1. first \o second \in Seq(FrameType)
    BY <1>4, <1>5, ConcatProperties
  <2>2. Snapshot \in Seq(FrameType)
    BY <1>6, <1>7, <2>1, ConcatProperties
  <2>3. <<x0>> \in Seq(FrameType) /\ <<room>> \in Seq(FrameType)
    BY <1>1, <1>2
  <2> QED
    BY <2>1, <2>2, <2>3, ConcatProperties
<1>9. \A G, S : /\ Leaves(third, G, S) => Leaves(Snapshot, G, S)
                /\ Leaves(second, G, S) /\ All(third, S) => Leaves(Snapshot, G, S)
                /\ All(first, S) /\ All(second, S) /\ All(third, S) => All(Snapshot, S)
  BY <1>4, <1>5, <1>6, <1>7, <1>8, InTwoParts
<1>10. \A G, S : /\ Leaves(Snapshot, G, S) => Leaves(<<x0>> \o Snapshot, G, S)
                 /\ x0 \in S /\ All(Snapshot, S) => All(<<x0>> \o Snapshot, S)
  <2> TAKE G, S
  <2>1. All(<<x0>>, S) <=> x0 \in S
    BY InOne
  <2> QED
    BY <1>8, <2>1, InTwoParts
<1>11. \A G, S : (All(<<room>>, S) <=> room \in S) /\ (Leaves(<<room>>, G, S) <=> room \in G)
  BY InOne
<1>12. ASSUME NEW m \in Nat, Leaves(<<room>>, Giving(m), Sparing(w.who, m))
       PROVE  Leaves(<<x0>> \o Snapshot, Giving(m), Sparing(w.who, m))
  <2>1. Leaves(stored, Nth(m), Newer(m))
    BY <1>2, <1>11, <1>12 DEF Giving
  <2> QED
    BY <1>5, <1>6, <1>9, <1>10, <2>1
<1>13. ASSUME All(<<room>>, Bearing(w)) PROVE All(<<x0>> \o Snapshot, Bearing(w))
  <2>1. All(stored, OfRoom(w))
    BY <1>2, <1>11, <1>13 DEF Bearing
  <2>2. x0 \in Bearing(w)
    BY <1>1, EmptyFrame
  <2> QED
    BY <1>4, <1>5, <1>6, <1>9, <1>10, <2>1, <2>2
<1>14. Leaves(<<x0>> \o Snapshot, Telling(w), Silent)
  BY <1>6, <1>9, <1>10
<1> QED
  BY <1>1, <1>2, <1>8, <1>12, <1>13, <1>14 DEF Replaces, x0, room

-----------------------------------------------------------------------------
(* What the queues make of what reaches the reader.                        *)

(* Concatenations of frames can be regrouped.                              *)
LEMMA Rejoined ==
  ASSUME NEW p \in Seq(FrameType), NEW q \in Seq(FrameType), NEW r \in Seq(FrameType)
  PROVE  p \o q \in Seq(FrameType) /\ (p \o q) \o r = p \o (q \o r)
         /\ <<>> \o p = p /\ p \o <<>> = p
  BY ConcatAssociative, ConcatProperties, ConcatEmptySeq

(* Three sequences of frames, by whichever end they are joined.            *)
LEMMA Associates ==
  ASSUME NEW p \in Seq(FrameType), NEW q \in Seq(FrameType), NEW r \in Seq(FrameType)
  PROVE  (p \o q) \o r = p \o (q \o r)
  BY ConcatAssociative

(* What is put between o and b, or after them, is where it is whichever    *)
(* way they are joined to a.                                               *)
Grouped(a, o, b, one) ==
  /\ ((a \o o) \o one) \o b = a \o ((o \o one) \o b)
  /\ (a \o (o \o b)) \o one = a \o (o \o (b \o one))

(* What is put between, and what is put last.                              *)
LEMMA RejoinedTwice ==
  ASSUME NEW a \in Seq(FrameType), NEW o \in Seq(FrameType), NEW b \in Seq(FrameType),
         NEW one \in Seq(FrameType)
  PROVE  Grouped(a, o, b, one)
<1>1. PICK ao, oc, ob, bc : ao = a \o o /\ oc = o \o one /\ ob = o \o b /\ bc = b \o one
  OBVIOUS
<1>2. /\ ao \in Seq(FrameType) /\ oc \in Seq(FrameType)
      /\ ob \in Seq(FrameType) /\ bc \in Seq(FrameType)
  BY <1>1, Rejoined
<1>3. ao \o one = a \o oc
  BY <1>1, Rejoined
<1>4. (a \o oc) \o b = a \o (oc \o b)
  <2>1. a \in Seq(FrameType) /\ oc \in Seq(FrameType) /\ b \in Seq(FrameType)
    BY <1>2
  <2> QED
    BY ONLY <2>1, Associates, ZenonT(30)
<1>5. ob \o one = o \o bc
  BY <1>1, Rejoined
<1>6. (a \o ob) \o one = a \o (ob \o one)
  <2>1. a \in Seq(FrameType) /\ ob \in Seq(FrameType) /\ one \in Seq(FrameType)
    BY <1>2
  <2> QED
    BY ONLY <2>1, Associates, ZenonT(30)
<1>7. (ao \o one) \o b = a \o (oc \o b)
  BY <1>3, <1>4
<1>8. (a \o ob) \o one = a \o (o \o bc)
  BY <1>5, <1>6
<1> QED
  BY <1>1, <1>7, <1>8, Zenon DEF Grouped

(* After a, an announcement goes ahead of the shard's queue b.             *)
LEMMA AnnouncedCatches ==
  ASSUME NEW f \in FrameType, f.recs = <<>>, NEW w, NEW u, Told(f, w, u) \/ Cleared(f, w, u),
         NEW a \in Seq(FrameType), NEW o \in Seq(FrameType), NEW b \in Seq(FrameType), All(b, Silent),
         NEW lo, NEW to, to = lo \/ to = w.n, Cleared(f, w, u) /\ w.who = "page" => to = w.n,
         w.n \in Nat, Catches(a \o (o \o b), lo, w)
  PROVE  Catches(a \o (Append(o, f) \o b), to, u) /\ Append(o, f) \in Seq(FrameType)
<1>1. <<f>> \in Seq(FrameType) /\ Append(o, f) = o \o <<f>>
  BY AppendIsConcat
<1> DEFINE one == <<f>>
<1>2. a \o o \in Seq(FrameType) /\ o \o one \in Seq(FrameType)
  BY <1>1, Rejoined
<1>3. a \o (o \o b) = (a \o o) \o b
  <2>1. a \in Seq(FrameType) /\ o \in Seq(FrameType) /\ b \in Seq(FrameType)
    OBVIOUS
  <2> QED
    BY ONLY <2>1, Associates, ZenonT(30)
<1>4. Catches(((a \o o) \o one) \o b, to, u)
  BY <1>2, <1>3, ControlCatches
<1> HIDE DEF one
<1>5. ((a \o o) \o one) \o b = a \o ((o \o one) \o b)
  <2>1. one \in Seq(FrameType)
    BY <1>1 DEF one
  <2>2. Grouped(a, o, b, one)
    BY <2>1, RejoinedTwice
  <2> QED
    BY <2>2 DEF Grouped
<1> QED
  BY <1>1, <1>2, <1>4, <1>5 DEF one

(* Output goes to the end of it.                                           *)
LEMMA PublishedCatches ==
  ASSUME NEW f \in FrameType, NEW w, NEW u, Sized(f, w, u) \/ Added(f, w, u),
         NEW a \in Seq(FrameType), NEW o \in Seq(FrameType), NEW b \in Seq(FrameType),
         NEW lo, w.n \in Nat, Catches(a \o (o \o b), lo, w)
  PROVE  Catches(a \o (o \o Append(b, f)), lo, u)
<1> DEFINE one == <<f>>
<1>1. one \in Seq(FrameType) /\ Append(b, f) = b \o one
  BY AppendIsConcat
<1>2. o \o b \in Seq(FrameType) /\ a \o (o \o b) \in Seq(FrameType)
  <2>1. o \o b \in Seq(FrameType)
    BY Rejoined
  <2> QED
    BY <2>1, Rejoined
<1>3. Catches((a \o (o \o b)) \o one, lo, u)
  BY <1>2, OutputCatches
<1> HIDE DEF one
<1>4. (a \o (o \o b)) \o one = a \o (o \o (b \o one))
  <2>1. one \in Seq(FrameType)
    BY <1>1
  <2>2. Grouped(a, o, b, one)
    BY <2>1, RejoinedTwice
  <2> QED
    BY <2>2 DEF Grouped
<1> QED
  BY <1>1, <1>3, <1>4

(* A frame that is fanned out stays where it was.                          *)
LEMMA FannedOut ==
  ASSUME NEW o \in Seq(FrameType), NEW b \in Seq(FrameType), b # <<>>
  PROVE  /\ Head(b) \in FrameType /\ Tail(b) \in Seq(FrameType)
         /\ <<Head(b)>> \in Seq(FrameType) /\ b = <<Head(b)>> \o Tail(b)
         /\ Append(o, Head(b)) \o Tail(b) = o \o b
<1>1. Head(b) \in FrameType /\ Tail(b) \in Seq(FrameType)
  BY HeadTailProperties
<1>2. <<Head(b)>> \in Seq(FrameType) /\ b = <<Head(b)>> \o Tail(b)
  BY <1>1
<1>3. Append(o, Head(b)) = o \o <<Head(b)>>
  BY <1>1, AppendIsConcat
<1> DEFINE one == <<Head(b)>>
           rest == Tail(b)
<1>4. one \in Seq(FrameType) /\ rest \in Seq(FrameType) /\ b = one \o rest
  BY <1>1, <1>2
<1> HIDE DEF one, rest
<1>5. (o \o one) \o rest = o \o b
  <2>1. o \in Seq(FrameType) /\ one \in Seq(FrameType) /\ rest \in Seq(FrameType)
    BY <1>4
  <2>2. (o \o one) \o rest = o \o (one \o rest)
    BY ONLY <2>1, Associates, ZenonT(30)
  <2> QED
    BY <1>4, <2>2
<1> QED
  BY <1>1, <1>2, <1>3, <1>5 DEF one, rest

(* The room, and what its queues hold for a reader to come.                *)
RoomCatches == Catches(<<RoomFrame(stored, View)>> \o (outbox \o backlog), Base, View)

(* What the reader has handled, as a frame.                                *)
Held(x) ==
  IF reader = "page"
    THEN \E raw \in Seq(Record) : Decoded(raw) /\ x = Holding(Sent(raw).status, Sent(raw).recs)
    ELSE x = Holding(heard, printed \o buf)

(* A page is to have the room's history, a follower's log all since its    *)
(* snapshot.                                                               *)
From == IF reader = "page" THEN Base ELSE joined

(* A page is shaped as one, and a follower starts with nothing.            *)
ReaderStarts ==
  /\ reader = "page" => PageShape
  /\ reader = "agent" /\ socket = "connecting" => printed = <<>> /\ buf = <<>>

(* A reader that handles all that is under way has what it is to have.     *)
ReaderCatches ==
  socket = "open" =>
    \E x \in FrameType : x.kind \in {"online", "offline"} /\ Held(x)
                         /\ Catches((<<x>> \o inbox) \o (outbox \o backlog), From, View)

(* The inductive invariant.                                                *)
LagInv == LagTyped /\ RoomCatches /\ ReaderStarts /\ ReaderCatches

(* What is known of all parts.                                             *)
LagIs ==
  /\ inbox \in Seq(FrameType) /\ outbox \in Seq(FrameType) /\ backlog \in Seq(FrameType)
  /\ All(backlog, Silent)
  /\ made \in Nat /\ Base \in Nat
  /\ History(stored, View)
  /\ View.n = made /\ View.base = Base /\ View.who = reader /\ View.seal = seal /\ View.on = online
  /\ View.again = repeats
  /\ RoomFrame(stored, View) \in FrameType /\ <<RoomFrame(stored, View)>> \in Seq(FrameType)

(* The types say so.                                                       *)
LEMMA LagParts == LagTyped => LagIs
<1> SUFFICES ASSUME LagTyped PROVE LagIs
  OBVIOUS
<1>1. RoomInv /\ Numbered /\ Queues
  BY DEF LagTyped
<1>2. inbox \in Seq(FrameType) /\ outbox \in Seq(FrameType) /\ backlog \in Seq(FrameType) /\ made \in Nat
  BY <1>1 DEF RoomInv, FeedTypeOK, FrameType, Queues
<1>3. All(backlog, Silent)
  <2>1. \A i \in DOMAIN backlog : backlog[i] \in FrameType
    BY <1>2
  <2> QED
    BY <1>1, <2>1 DEF Queues, All, Silent
<1>4. History(stored, View)
  BY <1>1, RoomHistory
<1>5. /\ View.n = made /\ View.base = Base /\ View.who = reader /\ View.seal = seal /\ View.on = online
      /\ View.again = repeats
  BY DEF View
<1>6. Base \in Nat
  BY <1>4, <1>5, HistoryGives
<1>7. RoomFrame(stored, View) \in FrameType
  BY <1>4, RoomFrameGives
<1>8. <<RoomFrame(stored, View)>> \in Seq(FrameType)
  BY <1>7
<1> QED
  BY <1>2, <1>3, <1>4, <1>5, <1>6, <1>7, <1>8 DEF LagIs

(* A frame that is not queued is in front of the queues.                   *)
LEMMA NotQueued ==
  ASSUME NEW a \in Seq(FrameType), NEW f \in FrameType, NEW b \in Seq(FrameType)
  PROVE  a \o <<f>> \in Seq(FrameType) /\ a \o (Append(<<>>, f) \o b) = (a \o <<f>>) \o (<<>> \o b)
<1> DEFINE one == <<f>>
<1>1. one \in Seq(FrameType) /\ Append(<<>>, f) = one
  OBVIOUS
<1> HIDE DEF one
<1>2. a \o one \in Seq(FrameType) /\ <<>> \o b = b /\ (a \o one) \o b = a \o (one \o b)
  BY <1>1, Rejoined
<1> QED
  BY <1>1, <1>2 DEF one

(* The room has what its queues do, whatever was before them.              *)
LEMMA RoomKeeps ==
  ASSUME NEW recs, NEW w, History(recs, w), NEW p \in Seq(FrameType), NEW q \in Seq(FrameType),
         NEW lo, lo = w.base, NEW c, c = p \o q, Catches(c, lo, w)
  PROVE  Catches(<<RoomFrame(recs, w)>> \o q, w.base, w)
BY RoomFrameMakesUp

(* Announcements reach the reader, whoever it is.                          *)
LEMMA AnnouncesCatches ==
  ASSUME LagInv, Announces
  PROVE  RoomCatches' /\ ReaderCatches'
<1>0. LagTyped /\ LagTyped' /\ RoomCatches /\ ReaderCatches
  BY AnnouncesTyped DEF LagInv
<1>1. LagIs /\ LagIs'
  <2>1. LagTyped => LagIs
    BY LagParts
  <2>2. (LagTyped => LagIs)'
    BY LagParts, PTL
  <2> QED
    BY <1>0, <2>1, <2>2
<1>2. PICK f \in FrameType : Announced(f)
  BY <1>0, AnnouncesOne DEF LagTyped
<1>3. PICK w, u, o, b, o2 : w = View /\ u = View' /\ o = outbox /\ b = backlog /\ o2 = outbox'
  OBVIOUS
<1>4. /\ f.recs = <<>> /\ b = backlog' /\ o2 = IF link = "open" THEN Append(o, f) ELSE o
      /\ link = "closed" => o = <<>>
      /\ UNCHANGED <<made, reader, socket, inbox, joined, link>>
  BY <1>0, <1>2, <1>3 DEF Announced, LagTyped, Queues, readerVars, agentVars
<1>5. /\ o \in Seq(FrameType) /\ b \in Seq(FrameType) /\ o2 \in Seq(FrameType)
      /\ All(b, Silent) /\ w.n \in Nat /\ w.n = made /\ w.base = Base /\ w.who = reader
      /\ w.on = online /\ w.seal = seal
      /\ u.n = made' /\ u.base = Base' /\ u.who = reader' /\ u.on = online' /\ u.seal = seal'
      /\ w.again = repeats /\ u.again = repeats'
      /\ online' \in BOOLEAN
  BY <1>0, <1>1, <1>3 DEF LagIs, LagTyped, RoomInv, FeedTypeOK
<1>6. Told(f, w, u) \/ Cleared(f, w, u)
  <2>1. CASE Tells(f)
    <3>1. /\ f.kind \in {"online", "offline"} /\ (u.again = 0 => f.kind = OnOff(u.on))
          /\ UNCHANGED <<stored, seal>>
      BY <1>5, <2>1 DEF Tells
    <3>2. Base' = Base
      BY <1>4, <3>1 DEF Base
    <3> QED
      BY <1>4, <1>5, <3>1, <3>2 DEF Told
  <2>2. CASE Clears(f)
    <3>1. f.kind = "reset" /\ stored' = <<>> /\ UNCHANGED <<online, repeats>>
      BY <2>2 DEF Clears
    <3>2. Base' = made - 0
      BY <1>4, <3>1 DEF Base
    <3> QED
      BY <1>4, <1>5, <3>1, <3>2 DEF Cleared
  <2> QED
    BY <1>2, <2>1, <2>2 DEF Announced
<1>7. Told(f, w, u) => u.base = w.base
  BY DEF Told
<1>8. Cleared(f, w, u) => u.base = w.n
  BY DEF Cleared
<1>9. RoomCatches'
  <2>1. PICK a : a = <<RoomFrame(stored, View)>>
    OBVIOUS
  <2>2. a \in Seq(FrameType) /\ Catches(a \o (o \o b), w.base, w)
    BY <1>0, <1>1, <1>3, <1>5, <2>1 DEF RoomCatches, LagIs
  <2>3. PICK to : to = u.base
    OBVIOUS
  <2>4. (to = w.base \/ to = w.n) /\ (Cleared(f, w, u) => to = w.n)
    BY <1>6, <1>7, <1>8, <2>3
  <2>5. Catches(a \o (Append(o, f) \o b), to, u)
    BY <1>4, <1>5, <1>6, <2>2, <2>4, AnnouncedCatches
  <2>6. PICK p \in Seq(FrameType) : a \o (Append(o, f) \o b) = p \o (o2 \o b)
    <3>1. CASE link = "open"
      BY <1>4, <2>2, <3>1
    <3>2. CASE link # "open"
      <4>1. o = <<>> /\ o2 = <<>>
        BY <1>0, <1>4, <3>2 DEF LagTyped, Queues
      <4> QED
        BY <1>5, <2>2, <4>1, NotQueued
    <3> QED
      BY <3>1, <3>2
  <2>7. o2 \o b \in Seq(FrameType) /\ History(stored', u)
    BY <1>1, <1>3, <1>5, Rejoined DEF LagIs
  <2>8. Catches(<<RoomFrame(stored', u)>> \o (o2 \o b), u.base, u)
    BY <2>3, <2>5, <2>6, <2>7, RoomKeeps
  <2> QED
    BY <1>3, <1>4, <1>5, <2>8 DEF RoomCatches
<1>10. ReaderCatches'
  <2> SUFFICES ASSUME socket' = "open"
               PROVE  \E x \in FrameType : x.kind \in {"online", "offline"} /\ Held(x)'
                        /\ Catches((<<x>> \o inbox') \o (o2 \o b), From', u)
    BY <1>3, <1>4 DEF ReaderCatches
  <2>1. PICK x \in FrameType : x.kind \in {"online", "offline"} /\ Held(x)
                               /\ Catches((<<x>> \o inbox) \o (o \o b), From, w)
    BY <1>0, <1>3, <1>4 DEF ReaderCatches
  <2>2. PICK a : a = <<x>> \o inbox
    OBVIOUS
  <2>3. a \in Seq(FrameType) /\ inbox' = inbox
    <3>1. <<x>> \in Seq(FrameType)
      OBVIOUS
    <3>2. inbox \in Seq(FrameType)
      BY <1>1 DEF LagIs
    <3> QED
      BY <1>4, <2>2, <3>1, <3>2, ConcatProperties
  <2>4. PICK lo, to : lo = From /\ to = From'
    OBVIOUS
  <2>5. (to = lo \/ to = w.n) /\ (Cleared(f, w, u) /\ w.who = "page" => to = w.n)
    BY <1>4, <1>5, <1>6, <1>7, <1>8, <2>4 DEF From
  <2>6. Catches(a \o (o \o b), lo, w)
    BY <2>1, <2>2, <2>4
  <2>7. Catches(a \o (Append(o, f) \o b), to, u)
    BY <1>4, <1>5, <1>6, <2>3, <2>5, <2>6, AnnouncedCatches
  <2>8. link = "open"
    BY <1>0, <1>4 DEF LagTyped, Queues
  <2>9. Held(x)'
    BY <1>2, <2>1 DEF Announced, readerVars, Held, Decoded, Shown, Sent, pageVars, screenVars,
                      verdictVars, agentVars
  <2> QED
    BY <1>4, <2>1, <2>2, <2>3, <2>4, <2>7, <2>8, <2>9
<1> QED
  BY <1>9, <1>10

(* Both sides of a step.                                                   *)
LEMMA BothSides ==
  ASSUME LagTyped, LagTyped'
  PROVE  LagIs /\ LagIs'
<1>1. LagTyped => LagIs
  BY LagParts
<1>2. (LagTyped => LagIs)'
  BY LagParts, PTL
<1> QED
  BY <1>1, <1>2

(* A reader that does nothing holds what it held.                          *)
LEMMA HeldStill ==
  ASSUME UNCHANGED <<key, readerVars>>
  PROVE  \A x : Held(x) => Held(x)'
BY DEF readerVars, Held, Decoded, Shown, Sent, pageVars, screenVars, verdictVars, agentVars

(* Output reaches the reader by way of the shard.                          *)
LEMMA PublishesCatches ==
  ASSUME LagInv, Publishes
  PROVE  RoomCatches' /\ ReaderCatches'
<1>0. LagTyped /\ LagTyped' /\ RoomCatches /\ ReaderCatches
  BY PublishesTyped DEF LagInv
<1>1. LagIs /\ LagIs'
  BY <1>0, BothSides
<1>2. PICK f \in FrameType : Published(f)
  BY <1>0, PublishesOne DEF LagTyped
<1>3. PICK w, u, o, b : w = View /\ u = View' /\ o = outbox /\ b = backlog
  OBVIOUS
<1>4. /\ backlog' = Append(b, f) /\ outbox' = o
      /\ UNCHANGED <<seal, online, repeats, reader, socket, inbox, joined, key, readerVars>>
  BY <1>2, <1>3 DEF Published, readerVars, agentVars
<1>5. /\ o \in Seq(FrameType) /\ b \in Seq(FrameType) /\ backlog' \in Seq(FrameType)
      /\ w.n \in Nat /\ w.n = made /\ w.base = Base /\ w.who = reader
      /\ w.on = online /\ w.seal = seal
      /\ u.n = made' /\ u.base = Base' /\ u.who = reader' /\ u.on = online' /\ u.seal = seal'
      /\ w.again = repeats /\ u.again = repeats'
  BY <1>1, <1>3, <1>4 DEF LagIs
<1>6. (Sized(f, w, u) \/ Added(f, w, u)) /\ Base' = Base
  <2>1. CASE Sizes(f)
    <3>1. UNCHANGED <<stored, made>> /\ f.kind = "size" /\ f.recs = <<>>
      BY <2>1 DEF Sizes
    <3>2. Base' = Base
      BY <3>1 DEF Base
    <3>3. u = w
      BY <1>3, <1>4, <3>1, <3>2 DEF View
    <3> QED
      BY <3>1, <3>2, <3>3 DEF Sized
  <2>2. CASE Outputs(f)
    <3>1. PICK r \in Record : r.n = made + 1 /\ r.seal = seal /\ f.recs = <<r>> /\ stored' = Append(stored, r)
      BY <2>2 DEF Outputs
    <3>2. f.kind = "bytes" /\ made' = made + 1
      BY <2>2 DEF Outputs
    <3>3. stored \in Seq(Record) /\ made \in Nat
      BY <1>0 DEF LagTyped, RoomInv, FeedTypeOK
    <3>4. PICK N \in Nat : N = Len(stored)
      BY <3>3
    <3>5. Len(stored') = N + 1
      BY <3>1, <3>3, <3>4
    <3>6. Base' = (made + 1) - (N + 1) /\ Base = made - N
      BY <3>2, <3>4, <3>5 DEF Base
    <3>7. Base' = Base
      BY <3>3, <3>6
    <3> QED
      BY <1>4, <1>5, <3>1, <3>2, <3>7 DEF Added
  <2> QED
    BY <1>2, <2>1, <2>2 DEF Published
<1>7. RoomCatches'
  <2>1. PICK a : a = <<RoomFrame(stored, View)>>
    OBVIOUS
  <2>2. a \in Seq(FrameType) /\ Catches(a \o (o \o b), w.base, w)
    BY <1>0, <1>1, <1>3, <1>5, <2>1 DEF RoomCatches, LagIs
  <2>3. Catches(a \o (o \o Append(b, f)), w.base, u)
    BY <1>5, <1>6, <2>2, PublishedCatches
  <2>4. PICK q : q = o \o Append(b, f)
    OBVIOUS
  <2>5. q \in Seq(FrameType) /\ History(stored', u)
    BY <1>1, <1>3, <1>4, <1>5, <2>4, Rejoined DEF LagIs
  <2>6. Catches(<<RoomFrame(stored', u)>> \o q, u.base, u)
    BY <1>5, <1>6, <2>2, <2>3, <2>4, <2>5, RoomKeeps
  <2> QED
    BY <1>3, <1>4, <1>5, <2>4, <2>6 DEF RoomCatches
<1>8. ReaderCatches'
  <2> SUFFICES ASSUME socket' = "open"
               PROVE  \E x \in FrameType : x.kind \in {"online", "offline"} /\ Held(x)'
                        /\ Catches((<<x>> \o inbox') \o (o \o backlog'), From', u)
    BY <1>3, <1>4 DEF ReaderCatches
  <2>1. PICK x \in FrameType : x.kind \in {"online", "offline"} /\ Held(x)
                               /\ Catches((<<x>> \o inbox) \o (o \o b), From, w)
    BY <1>0, <1>3, <1>4 DEF ReaderCatches
  <2>2. PICK a : a = <<x>> \o inbox
    OBVIOUS
  <2>3. a \in Seq(FrameType) /\ inbox' = inbox
    <3>1. <<x>> \in Seq(FrameType)
      OBVIOUS
    <3>2. inbox \in Seq(FrameType)
      BY <1>1 DEF LagIs
    <3> QED
      BY <1>4, <2>2, <3>1, <3>2, ConcatProperties
  <2>4. PICK lo : lo = From
    OBVIOUS
  <2>5. From' = lo
    BY <1>4, <1>6, <2>4 DEF From
  <2>6. Catches(a \o (o \o b), lo, w)
    BY <2>1, <2>2, <2>4
  <2>7. Catches(a \o (o \o Append(b, f)), lo, u)
    BY <1>5, <1>6, <2>3, <2>6, PublishedCatches
  <2>9. Held(x)'
    BY <1>4, <2>1, HeldStill
  <2> QED
    BY <1>4, <2>1, <2>2, <2>3, <2>5, <2>7, <2>9
<1> QED
  BY <1>7, <1>8

(* The shard's task and the relay take frames from queue to queue.         *)
LEMMA PassesCatches ==
  ASSUME LagInv, FansOut \/ Registers \/ Relays
  PROVE  RoomCatches' /\ ReaderCatches'
<1>0. LagTyped /\ LagTyped' /\ RoomCatches /\ ReaderCatches
  BY PassesTyped DEF LagInv
<1>1. LagIs /\ LagIs'
  BY <1>0, BothSides
<1>2. UNCHANGED <<roomVars, key, socket, readerVars>>
  BY DEF FansOut, Registers, Relays, vars, feedVars, roomVars, readerVars
<1>3. PICK w, i, o, b : w = View /\ i = inbox /\ o = outbox /\ b = backlog
  OBVIOUS
<1>4. /\ View' = w /\ From' = From /\ Base' = Base /\ stored' = stored
  BY <1>2, <1>3 DEF roomVars, readerVars, agentVars, View, From, Base
<1>5. /\ i \in Seq(FrameType) /\ o \in Seq(FrameType) /\ b \in Seq(FrameType)
      /\ inbox' \in Seq(FrameType) /\ outbox' \in Seq(FrameType) /\ backlog' \in Seq(FrameType)
      /\ w.base = Base /\ History(stored, w)
      /\ <<RoomFrame(stored, w)>> \in Seq(FrameType)
  BY <1>1, <1>3 DEF LagIs
<1>6. PICK a : a = <<RoomFrame(stored, w)>>
  OBVIOUS
<1>7. a \in Seq(FrameType) /\ Catches(a \o (o \o b), w.base, w)
  BY <1>0, <1>3, <1>5, <1>6 DEF RoomCatches
<1>8. RoomCatches' <=> Catches(a \o (outbox' \o backlog'), w.base, w)
  BY <1>4, <1>5, <1>6 DEF RoomCatches
<1>9. ASSUME NEW p \in Seq(FrameType), NEW q \in Seq(FrameType), NEW c, c = p \o q, Catches(c, w.base, w)
      PROVE  Catches(a \o q, w.base, w)
  BY <1>5, <1>6, <1>9, RoomKeeps
<1>10. ASSUME \A y \in Seq(FrameType) :
                Catches((y \o i) \o (o \o b), From, w) => Catches((y \o inbox') \o (outbox' \o backlog'), From, w)
       PROVE  ReaderCatches'
  <2> SUFFICES ASSUME socket' = "open"
               PROVE  \E x \in FrameType : x.kind \in {"online", "offline"} /\ Held(x)'
                        /\ Catches((<<x>> \o inbox') \o (outbox' \o backlog'), From', w)
    BY <1>4 DEF ReaderCatches
  <2>1. PICK x \in FrameType : x.kind \in {"online", "offline"} /\ Held(x)
                               /\ Catches((<<x>> \o i) \o (o \o b), From, w)
    BY <1>0, <1>2, <1>3 DEF ReaderCatches
  <2>2. <<x>> \in Seq(FrameType)
    OBVIOUS
  <2>3. Held(x)'
    BY <1>2, <2>1, HeldStill
  <2> QED
    BY <1>4, <1>10, <2>1, <2>2, <2>3
<1>11. CASE FansOut
  <2>1. /\ b # <<>> /\ backlog' = Tail(b) /\ inbox' = i
        /\ outbox' = IF link = "open" THEN Append(o, Head(b)) ELSE o
    BY <1>3, <1>11 DEF FansOut, Queue!Sends, vars, feedVars
  <2>2. /\ Head(b) \in FrameType /\ <<Head(b)>> \in Seq(FrameType) /\ b = <<Head(b)>> \o Tail(b)
        /\ Append(o, Head(b)) \o Tail(b) = o \o b
    BY <1>5, <2>1, FannedOut
  <2>3. CASE link = "open"
    <3>1. outbox' \o backlog' = o \o b
      BY <2>1, <2>2, <2>3
    <3> QED
      BY <1>7, <1>8, <1>10, <2>1, <3>1
  <2>4. CASE link # "open"
    <3>1. o = <<>> /\ outbox' = <<>> /\ socket # "open"
      BY <1>0, <1>3, <2>1, <2>4 DEF LagTyped, Queues
    <3>2. PICK t, one : t = Tail(b) /\ one = <<Head(b)>>
      OBVIOUS
    <3>3. t \in Seq(FrameType) /\ one \in Seq(FrameType) /\ b = one \o t
      BY <1>5, <2>1, <2>2, <3>2
    <3>4. <<>> \o b = b /\ <<>> \o t = t /\ a \o one \in Seq(FrameType) /\ a \o b = (a \o one) \o t
      <4>1. a \in Seq(FrameType) /\ b \in Seq(FrameType) /\ t \in Seq(FrameType)
            /\ one \in Seq(FrameType)
        BY <1>5, <1>7, <3>3
      <4>2. <<>> \o b = b /\ <<>> \o t = t /\ a \o one \in Seq(FrameType)
        BY <4>1, Rejoined
      <4>3. (a \o one) \o t = a \o (one \o t)
        BY <4>1, Associates
      <4> QED
        BY <3>3, <4>2, <4>3
    <3>5. Catches(a \o t, w.base, w)
      BY <1>7, <1>9, <3>1, <3>3, <3>4
    <3>6. RoomCatches'
      BY <1>8, <2>1, <3>1, <3>2, <3>4, <3>5
    <3> QED
      BY <1>2, <3>1, <3>6 DEF ReaderCatches
  <2> QED
    BY <2>3, <2>4
<1>12. CASE Registers
  <2>1. inbox' = i /\ outbox' = o /\ backlog' = b
    BY <1>3, <1>12 DEF Registers, vars, feedVars
  <2> QED
    BY <1>7, <1>8, <1>10, <2>1
<1>13. CASE Relays
  <2>1. inbox' = i \o o /\ outbox' = <<>> /\ backlog' = b /\ <<>> \o b = b
    BY <1>3, <1>5, <1>13, Rejoined DEF Relays
  <2>2. a \o o \in Seq(FrameType) /\ a \o (o \o b) = (a \o o) \o b
    <3>1. a \in Seq(FrameType) /\ o \in Seq(FrameType) /\ b \in Seq(FrameType)
      BY <1>5, <1>7
    <3>2. a \o o \in Seq(FrameType)
      BY <3>1, Rejoined
    <3>3. (a \o o) \o b = a \o (o \o b)
      BY <3>1, Associates
    <3> QED
      BY <3>2, <3>3
  <2>3. RoomCatches'
    BY <1>5, <1>7, <1>8, <1>9, <2>1, <2>2
  <2>4. ASSUME NEW y \in Seq(FrameType)
        PROVE  (y \o (i \o o)) \o b = (y \o i) \o (o \o b)
    <3>1. PICK yi, io : yi = y \o i /\ io = i \o o
      OBVIOUS
    <3>2. i \in Seq(FrameType) /\ o \in Seq(FrameType) /\ b \in Seq(FrameType)
      BY <1>5
    <3>3. yi \in Seq(FrameType)
      BY <3>1, <3>2, Rejoined
    <3>4. (y \o i) \o o = y \o (i \o o)
      BY <3>2, Associates
    <3>5. (yi \o o) \o b = yi \o (o \o b)
      BY <3>2, <3>3, Associates
    <3>6. yi \o o = y \o io
      BY <3>1, <3>4
    <3> QED
      BY <3>1, <3>5, <3>6
  <2> QED
    BY <1>10, <2>1, <2>3, <2>4
<1> QED
  BY <1>11, <1>12, <1>13

(* The next frame is handled.                                              *)
LEMMA HandledCatches ==
  ASSUME NEW x \in FrameType, x.kind \in {"online", "offline"}, NEW i \in Seq(FrameType), i # <<>>,
         Regular(Head(i)), NEW q \in Seq(FrameType), NEW lo, NEW w, Catches((<<x>> \o i) \o q, lo, w)
  PROVE  /\ After(w.who, x, Head(i)) \in FrameType
         /\ Catches((<<After(w.who, x, Head(i))>> \o Tail(i)) \o q, lo, w)
<1>1. PICK f, t, y : f = Head(i) /\ t = Tail(i) /\ y = After(w.who, x, f)
  OBVIOUS
<1>2. f \in FrameType /\ t \in Seq(FrameType) /\ i = <<f>> \o t
  BY <1>1, FannedOut
<1>3. y \in FrameType /\ Replaces(<<x, f>>, <<y>>, w)
  BY <1>1, <1>2, HandledReplaces
<1>4. PICK one, two, xf, new : one = <<x>> /\ two = <<f>> /\ xf = <<x, f>> /\ new = <<y>>
  OBVIOUS
<1>5. /\ one \in Seq(FrameType) /\ two \in Seq(FrameType) /\ xf \in Seq(FrameType)
      /\ new \in Seq(FrameType) /\ xf = one \o two
  <2>1. <<x>> \in Seq(FrameType) /\ <<f>> \in Seq(FrameType) /\ <<y>> \in Seq(FrameType)
    BY <1>2, <1>3
  <2>2. <<x, f>> = Append(<<x>>, f) /\ <<x, f>> \in Seq(FrameType)
    BY <1>2, Pair
  <2>3. Append(<<x>>, f) = <<x>> \o <<f>>
    BY <2>1, <1>2, AppendIsConcat
  <2> QED
    BY <1>4, <2>1, <2>2, <2>3
<1>6. one \o i = xf \o t
  <2>1. t \in Seq(FrameType)
    BY <1>2
  <2>2. one \in Seq(FrameType) /\ two \in Seq(FrameType) /\ t \in Seq(FrameType)
    BY <1>5, <2>1
  <2>3. (one \o two) \o t = one \o (two \o t)
    BY ONLY <2>2, Associates, ZenonT(30)
  <2> QED
    BY <1>2, <1>4, <1>5, <2>3
<1>7. (xf \o t) \o q = xf \o (t \o q) /\ (new \o t) \o q = new \o (t \o q) /\ t \o q \in Seq(FrameType)
  <2>1. /\ xf \in Seq(FrameType) /\ new \in Seq(FrameType) /\ t \in Seq(FrameType)
        /\ q \in Seq(FrameType)
    BY <1>2, <1>5
  <2>2. (xf \o t) \o q = xf \o (t \o q)
    BY ONLY <2>1, Associates, ZenonT(30)
  <2>3. (new \o t) \o q = new \o (t \o q)
    BY ONLY <2>1, Associates, ZenonT(30)
  <2>4. t \o q \in Seq(FrameType)
    BY <2>1, Rejoined
  <2> QED
    BY <2>2, <2>3, <2>4
<1>8. PICK tq : tq = t \o q
  OBVIOUS
<1>9. tq \in Seq(FrameType) /\ Catches(xf \o tq, lo, w) /\ Replaces(xf, new, w)
  BY <1>3, <1>4, <1>6, <1>7, <1>8
<1>10. Catches(new \o tq, lo, w)
  BY <1>9, ReplacedFirst
<1> QED
  BY <1>1, <1>3, <1>4, <1>7, <1>8, <1>10

(* What a page holds after a frame.                                        *)
LEMMA EffectIsAfter ==
  ASSUME NEW h, NEW f
  PROVE  After("page", Holding(h.status, h.recs), f) = Holding(Effect(h, f).status, Effect(h, f).recs)
BY DEF After, Holding, Effect, Frame

(* A page handles a frame, decrypts, or gets its terminal.                 *)
LEMMA PageHolds ==
  ASSUME LagInv, Page, ~PageOpens, socket' = "open", NEW x \in FrameType, Held(x)
  PROVE  /\ socket = "open"
         /\ PageShape'
         /\ \/ Held(x)' /\ inbox' = inbox
            \/ /\ \E y : y = After(reader, x, Head(inbox)) /\ Held(y)'
               /\ inbox # <<>> /\ inbox' = Tail(inbox) /\ Regular(Head(inbox))
<1>0. /\ RoomInv /\ TypeOK /\ AllRegular(inbox) /\ PageShape /\ reader = "page" /\ reader' = "page"
      /\ inbox \in Seq(FrameType)
  BY DEF LagInv, LagTyped, Queues, ReaderStarts, Page, RoomInv, FeedTypeOK, FrameType
<1>1. PICK raw \in Seq(Record) : Decoded(raw) /\ x = Holding(Sent(raw).status, Sent(raw).recs)
  BY <1>0 DEF Held
<1>2. ASSUME NEW r \in Seq(Record), NEW y, Decoded(r)', y = Holding(Sent(r).status, Sent(r).recs)'
      PROVE  Held(y)'
  BY <1>0, <1>2 DEF Held
<1>3. CASE TerminalCreated
  <2>1. socket' = socket /\ inbox' = inbox
    BY <1>3 DEF TerminalCreated, feedVars
  <2>2. PageShape' /\ Decoded(raw)' /\ Sent(raw)' = Sent(raw)
    BY <1>0, <1>1, <1>3, CreatedPage
  <2> QED
    BY <1>1, <1>2, <2>1, <2>2
<1>4. CASE \E e \in DOMAIN chains : Decrypted(e)
  <2>1. PICK e \in DOMAIN chains : Decrypted(e)
    BY <1>4
  <2>2. socket' = socket /\ inbox' = inbox
    BY <2>1 DEF Decrypted, feedVars
  <2>3. PageShape'
    BY <1>0, <2>1, DecryptedPage
  <2>4. PICK r \in Seq(Record) : Decoded(r)' /\ Sent(r)' = Sent(raw)
    BY <1>0, <1>1, <2>1, DecryptedPage
  <2> QED
    BY <1>1, <1>2, <2>2, <2>3, <2>4
<1>5. CASE PageMessage
  <2>1. socket = "open" /\ inbox # <<>> /\ inbox' = Tail(inbox)
    BY <1>5 DEF PageMessage, Receives
  <2>2. PageShape'
    BY <1>0, <1>1, <1>5, MessagePage
  <2>3. PICK r \in Seq(Record) : Decoded(r)' /\ Sent(r)' = Effect(Sent(raw), Head(inbox))
    BY <1>0, <1>1, <1>5, MessagePage
  <2>4. After("page", x, Head(inbox)) = Holding(Sent(r)'.status, Sent(r)'.recs)
    BY <1>1, <2>3, EffectIsAfter
  <2>5. PICK y : y = After(reader, x, Head(inbox))
    OBVIOUS
  <2>7. Held(y)'
    BY <1>0, <1>2, <2>3, <2>4, <2>5
  <2>6. Regular(Head(inbox))
    BY <1>0, <2>1, RegularTail
  <2> QED
    BY <2>1, <2>2, <2>5, <2>6, <2>7
<1>6. CASE PageCloses \/ PageReconnects
  BY <1>6 DEF PageCloses, PageReconnects, Broken
<1> QED
  BY <1>3, <1>4, <1>5, <1>6 DEF Page, PageNext

(* A follower handles a frame.                                             *)
LEMMA AgentHolds ==
  ASSUME LagInv, Agent, ~FollowOpens, socket' = "open", NEW x \in FrameType, Held(x)
  PROVE  /\ socket = "open" /\ UNCHANGED joined
         /\ \E y : y = After(reader, x, Head(inbox)) /\ Held(y)'
         /\ inbox # <<>> /\ inbox' = Tail(inbox) /\ Regular(Head(inbox))
<1>0. /\ RoomInv /\ TypeOK /\ AllRegular(inbox) /\ reader = "agent" /\ reader' = "agent"
      /\ inbox \in Seq(FrameType) /\ mode = "follow"
      /\ printed \in Seq(Record) /\ buf \in Seq(Record) /\ heard \in {"online", "offline"}
  BY DEF LagInv, LagTyped, Queues, Agent, RoomInv, FeedTypeOK, FrameType, TypeOK, AgentTypeOK
<1>1. x = Holding(heard, printed \o buf)
  BY <1>0 DEF Held
<1>2. FollowMessage
  BY <1>0 DEF Agent, AgentNext, Reads, TimerFires, Cut, Broken
<1>3. PICK f : f = Head(inbox)
  OBVIOUS
<1>9. PICK y : y = After(reader, x, f)
  OBVIOUS
<1>10. y = Holding(heard', printed' \o buf') => Held(y)'
  BY <1>0 DEF Held
<1>4. PICK kind \in {"size", "bytes", "count", "reset", "online", "offline"} : Hears(kind)
  BY <1>2 DEF FollowMessage, FollowSize, FollowCount, FollowOnline, FollowOffline, FollowBytes, FollowReset
<1>5. socket = "open" /\ inbox # <<>> /\ inbox' = Tail(inbox) /\ f.kind = kind
  BY <1>3, <1>4 DEF Hears, Receives
<1>6. f \in FrameType /\ Regular(f) /\ f.recs \in Seq(Record)
  <2>1. f \in FrameType /\ Regular(f)
    BY <1>0, <1>3, <1>5, RegularTail
  <2> QED
    BY <2>1 DEF FrameType
<1>7. CASE FollowBytes
  <2>1. PICK recs : recs = buf \o f.recs
    OBVIOUS
  <2>2. recs \in Seq(Record)
    BY <1>0, <1>6, <2>1, ConcatProperties
  <2>3. /\ printed' = printed \o Whole(recs) /\ buf' = Rest(recs) /\ heard' = heard /\ joined' = joined
        /\ f.kind = "bytes"
    BY <1>3, <1>7, <2>1 DEF FollowBytes, Hears, Receives
  <2>4. Whole(recs) \in Seq(Record) /\ Rest(recs) \in Seq(Record) /\ Whole(recs) \o Rest(recs) = recs
    BY <2>2, WholeAndRest
  <2>5. PICK a, c, g, p, d : a = Whole(recs) /\ c = Rest(recs) /\ g = f.recs /\ p = printed /\ d = buf
    OBVIOUS
  <2>6. /\ a \in Seq(Record) /\ c \in Seq(Record) /\ g \in Seq(Record)
        /\ p \in Seq(Record) /\ d \in Seq(Record)
    BY <1>0, <1>6, <2>4, <2>5
  <2>7. (p \o a) \o c = p \o (a \o c)
    <3>1. p \in Seq(Record) /\ a \in Seq(Record) /\ c \in Seq(Record)
      BY <2>6
    <3> QED
      BY ONLY <3>1, Regroup
  <2>8. (p \o d) \o g = p \o (d \o g)
    <3>1. p \in Seq(Record) /\ d \in Seq(Record) /\ g \in Seq(Record)
      BY <2>6
    <3> QED
      BY <3>1, ConcatAssociative
  <2>9. a \o c = d \o g
    BY <2>1, <2>4, <2>5
  <2>10. printed' \o buf' = (printed \o buf) \o f.recs
    BY <2>3, <2>5, <2>7, <2>8, <2>9
  <2>11. After(reader, x, f) = Holding(heard', printed' \o buf')
    BY <1>0, <1>1, <2>3, <2>10 DEF After, Holding, Frame
  <2> QED
    BY <1>3, <1>5, <1>6, <1>9, <1>10, <2>3, <2>11
<1>8. CASE ~FollowBytes
  <2>1. /\ UNCHANGED <<printed, buf, joined>> /\ f.kind # "bytes"
        /\ heard' = IF f.kind \in {"online", "offline"} THEN f.kind ELSE heard
    BY <1>2, <1>3, <1>8 DEF FollowMessage, FollowSize, FollowCount, FollowOnline, FollowOffline, FollowReset,
                     agentVars, Hears, Receives
  <2>2. f.recs = <<>>
    BY <1>6, <2>1 DEF Regular
  <2>3. (printed \o buf) \o <<>> = printed \o buf
    BY <1>0, ConcatProperties, ConcatEmptySeq
  <2>4. After(reader, x, f) = Holding(heard', printed' \o buf')
    BY <1>0, <1>1, <2>1, <2>2, <2>3 DEF After, Holding, Frame
  <2> QED
    BY <1>3, <1>5, <1>6, <1>9, <1>10, <2>1, <2>4
<1> QED
  BY <1>7, <1>8

(* A connection that opens is caught up with what the room holds.          *)
LEMMA OpensCatches ==
  ASSUME LagInv, (Page /\ PageOpens) \/ (Agent /\ FollowOpens)
  PROVE  /\ reader = "page" => PageShape'
         /\ From' = Base' /\ inbox' = Snapshot
         /\ \E s \in {"online", "offline"} : \E y : y = Holding(s, <<>>) /\ Held(y)'
<1>0. RoomInv /\ TypeOK /\ LagTyped /\ ReaderStarts
  BY DEF LagInv, LagTyped
<1>1. CASE Page /\ PageOpens
  <2>1. reader = "page" /\ reader' = "page" /\ PageShape
    BY <1>0, <1>1 DEF Page, ReaderStarts
  <2>2. PageShape' /\ Decoded(<<>>)' /\ Sent(<<>>)' = [recs |-> <<>>, status |-> "offline"]
    BY <1>0, <1>1, <2>1, OpensPage
  <2>3. PICK y : y = Holding("offline", <<>>)
    OBVIOUS
  <2>5. y = Holding(Sent(<<>>)'.status, Sent(<<>>)'.recs) /\ <<>> \in Seq(Record)
    BY <2>2, <2>3
  <2>6. Held(y)'
    BY <2>1, <2>2, <2>5 DEF Held
  <2>4. inbox' = Snapshot
    BY <1>1 DEF PageOpens, Connected
  <2> QED
    BY <2>1, <2>2, <2>3, <2>4, <2>6 DEF From
<1>2. CASE Agent /\ FollowOpens
  <2>1. /\ reader = "agent" /\ reader' = "agent" /\ socket = "connecting" /\ inbox' = Snapshot
        /\ joined' = made - Len(stored) /\ UNCHANGED <<printed, buf, heard, roomVars>>
    BY <1>2 DEF Agent, FollowOpens, Connected
  <2>2. printed' = <<>> /\ buf' = <<>> /\ heard' \in {"online", "offline"}
    BY <1>0, <2>1 DEF ReaderStarts, TypeOK, AgentTypeOK
  <2>3. PICK s, y : s = heard' /\ y = Holding(s, <<>>)
    OBVIOUS
  <2>5. Held(y)' /\ s \in {"online", "offline"}
    <3>1. <<>> \o <<>> = <<>>
      OBVIOUS
    <3> QED
      BY <2>1, <2>2, <2>3, <3>1 DEF Held
  <2>4. From' = Base'
    BY <2>1 DEF From, Base, roomVars
  <2> QED
    BY <2>1, <2>2, <2>3, <2>4, <2>5
<1> QED
  BY <1>1, <1>2

(* The reader's own steps.                                                 *)
LEMMA StepsCatches ==
  ASSUME LagInv, Steps
  PROVE  RoomCatches' /\ ReaderStarts' /\ ReaderCatches'
<1>0. LagTyped /\ LagTyped' /\ RoomCatches /\ ReaderCatches /\ ReaderStarts
  BY StepsTyped DEF LagInv
<1>1. LagIs /\ LagIs'
  BY <1>0, BothSides
<1>2. /\ UNCHANGED <<roomVars, key, reader, mode, backlog>>
      /\ Connects \/ UNCHANGED feedVars
      /\ socket' = "open" => link = "open" /\ outbox' = outbox
      /\ outbox' \in {outbox, <<>>}
  <2>1. socket' \in {"connecting", "open", "closed"}
    BY <1>0 DEF LagTyped, RoomInv, FeedTypeOK
  <2> QED
    BY <2>1, StepsConnect
<1>3. PICK w, o, b, q : w = View /\ o = outbox /\ b = backlog /\ q = o \o b
  OBVIOUS
<1>4. View' = w /\ Base' = Base /\ stored' = stored
  BY <1>2, <1>3 DEF roomVars, View, Base
<1>5. /\ o \in Seq(FrameType) /\ b \in Seq(FrameType) /\ q \in Seq(FrameType)
      /\ w.base = Base /\ History(stored, w) /\ w.who = reader /\ w.on = online
      /\ <<RoomFrame(stored, w)>> \in Seq(FrameType)
      /\ inbox \in Seq(FrameType)
  BY <1>1, <1>3, Rejoined DEF LagIs
<1>6. PICK a : a = <<RoomFrame(stored, w)>>
  OBVIOUS
<1>7. a \in Seq(FrameType) /\ Catches(a \o (o \o b), w.base, w)
  BY <1>0, <1>3, <1>5, <1>6 DEF RoomCatches
<1>8. RoomCatches'
  <2>1. CASE outbox' = outbox
    BY <1>2, <1>3, <1>4, <1>5, <1>6, <1>7, <2>1 DEF RoomCatches
  <2>2. CASE outbox' = <<>>
    <3>1. a \o o \in Seq(FrameType)
      BY <1>5, <1>7, Rejoined
    <3>2. (a \o o) \o b = a \o (o \o b)
      <4>1. a \in Seq(FrameType) /\ o \in Seq(FrameType) /\ b \in Seq(FrameType)
        BY <1>5, <1>7
      <4> QED
        BY <4>1, Associates
    <3>3. Catches(a \o b, w.base, w)
      BY <1>5, <1>6, <1>7, <3>1, <3>2, RoomKeeps
    <3>4. <<>> \o b = b /\ outbox' = <<>> /\ backlog' = b
      BY <1>2, <1>3, <1>5, <2>2, Rejoined
    <3> QED
      BY <1>4, <1>5, <1>6, <3>3, <3>4 DEF RoomCatches
  <2> QED
    BY <1>2, <2>1, <2>2
<1>9. ASSUME socket' = "open"
      PROVE  /\ reader = "page" => PageShape'
             /\ \E x \in FrameType : x.kind \in {"online", "offline"} /\ Held(x)'
                  /\ Catches((<<x>> \o inbox') \o q, From', w)
  <2>1. CASE (Page /\ PageOpens) \/ (Agent /\ FollowOpens)
    <3>1. (reader = "page" => PageShape') /\ From' = Base' /\ inbox' = Snapshot
      BY <2>1, OpensCatches
    <3>2. PICK s \in {"online", "offline"} : \E y : y = Holding(s, <<>>) /\ Held(y)'
      BY <2>1, OpensCatches
    <3>3. PICK y : y = Holding(s, <<>>) /\ Held(y)'
      BY <3>2
    <3>4. /\ y \in FrameType /\ Replaces(a, <<y>> \o Snapshot, w)
      BY <1>0, <1>5, <1>6, <3>3, SnapshotReplaces DEF LagTyped
    <3>5. Catches((<<y>> \o Snapshot) \o q, w.base, w)
      BY <1>3, <1>5, <1>7, <3>4, ReplacedFirst
    <3>6. y.kind \in {"online", "offline"}
      BY <3>3 DEF Holding, Frame
    <3> QED
      BY <1>4, <1>5, <3>1, <3>3, <3>4, <3>5, <3>6
  <2>2. CASE ~((Page /\ PageOpens) \/ (Agent /\ FollowOpens))
    <3>1. socket = "open"
      <4>1. CASE Page
        BY <1>0, <1>9, <2>2, <4>1 DEF Page, PageNext, PageCloses, PageReconnects, Broken, TerminalCreated, Decrypted,
                        PageMessage, feedVars
      <4>2. CASE Agent
        BY <1>0, <1>9, <2>2, <4>2 DEF LagTyped, Queues, Agent, AgentNext, Reads, TimerFires, Cut, Broken,
                        FollowMessage, FollowSize, FollowCount, FollowOnline, FollowOffline, FollowBytes,
                        FollowReset, Hears, Receives
      <4> QED
        BY <4>1, <4>2 DEF Steps
    <3>2. PICK x \in FrameType : x.kind \in {"online", "offline"} /\ Held(x)
                                 /\ Catches((<<x>> \o inbox) \o q, From, w)
      BY <1>0, <1>3, <3>1 DEF ReaderCatches
    <3>3. /\ reader = "page" => PageShape'
          /\ From' = From
          /\ \/ Held(x)' /\ inbox' = inbox
             \/ /\ \E y : y = After(reader, x, Head(inbox)) /\ Held(y)'
                /\ inbox # <<>> /\ inbox' = Tail(inbox) /\ Regular(Head(inbox))
      <4>1. CASE Page
        <5>1. ~PageOpens /\ reader = "page"
          BY <2>2, <4>1 DEF Page
        <5>2. From' = From
          BY <1>2, <1>4, <5>1 DEF From
        <5> QED
          BY <1>9, <3>2, <4>1, <5>1, <5>2, PageHolds
      <4>2. CASE Agent
        <5>1. ~FollowOpens /\ reader = "agent"
          BY <2>2, <4>2 DEF Agent
        <5>2. /\ UNCHANGED joined
              /\ \E y : y = After(reader, x, Head(inbox)) /\ Held(y)'
              /\ inbox # <<>> /\ inbox' = Tail(inbox) /\ Regular(Head(inbox))
          BY <1>9, <3>2, <4>2, <5>1, AgentHolds
        <5>3. From' = From
          BY <1>2, <5>1, <5>2 DEF From
        <5> QED
          BY <5>1, <5>2, <5>3
      <4> QED
        BY <4>1, <4>2 DEF Steps
    <3>4. CASE Held(x)' /\ inbox' = inbox
      BY <3>2, <3>3, <3>4
    <3>5. CASE /\ \E y : y = After(reader, x, Head(inbox)) /\ Held(y)'
               /\ inbox # <<>> /\ inbox' = Tail(inbox) /\ Regular(Head(inbox))
      <4>1. PICK y : y = After(reader, x, Head(inbox)) /\ Held(y)'
        BY <3>5
      <4>2. y \in FrameType /\ Catches((<<y>> \o Tail(inbox)) \o q, From, w)
        BY <1>5, <3>2, <3>5, <4>1, HandledCatches
      <4>3. y.kind \in {"online", "offline"}
        BY <3>2, <4>1 DEF After, Holding, Frame
      <4> QED
        BY <3>3, <3>5, <4>1, <4>2, <4>3
    <3> QED
      BY <3>3, <3>4, <3>5
  <2> QED
    BY <2>1, <2>2
<1>10. ReaderCatches'
  BY <1>2, <1>3, <1>4, <1>9 DEF ReaderCatches
<1>11. ReaderStarts'
  <2>1. ASSUME reader' = "page" PROVE PageShape'
    <3>1. reader = "page" /\ PageShape /\ TypeOK /\ RoomInv
      BY <1>0, <1>2, <2>1 DEF ReaderStarts, LagTyped
    <3>2. CASE socket' = "open"
      BY <1>9, <3>1, <3>2
    <3>3. CASE socket' # "open"
      <4>1. Page
        BY <3>1 DEF Steps, Agent
      <4>2. CASE TerminalCreated
        BY <3>1, <4>2, CreatedPage
      <4>3. CASE \E e \in DOMAIN chains : Decrypted(e)
        BY <3>1, <4>3, DecryptedPage
      <4>4. CASE PageOpens
        BY <3>3, <4>4 DEF PageOpens, Connected
      <4>5. CASE PageCloses \/ PageReconnects
        BY <3>1, <4>5, ClosesKnows
      <4>6. CASE PageMessage
        BY <3>1, <3>3, <4>6 DEF PageMessage, Receives
      <4> QED
        BY <4>1, <4>2, <4>3, <4>4, <4>5, <4>6 DEF Page, PageNext
    <3> QED
      BY <3>2, <3>3
  <2>2. ASSUME reader' = "agent", socket' = "connecting" PROVE printed' = <<>> /\ buf' = <<>>
    <3>1. reader = "agent" /\ Agent
      BY <1>2, <2>2 DEF Steps, Page
    <3>2. /\ socket = "connecting" /\ UNCHANGED <<printed, buf>>
      BY <1>0, <2>2, <3>1 DEF LagTyped, Queues, Agent, AgentNext, Reads, TimerFires, Cut, Broken,
                        FollowMessage, FollowSize, FollowCount, FollowOnline, FollowOffline, FollowBytes,
                        FollowReset, FollowOpens, Connected, Hears, Receives
    <3> QED
      BY <1>0, <3>1, <3>2 DEF ReaderStarts
  <2> QED
    BY <2>1, <2>2 DEF ReaderStarts
<1> QED
  BY <1>8, <1>10, <1>11

(* The whole invariant.                                                    *)
LEMMA StillCatches ==
  ASSUME LagInv, UNCHANGED lagVars
  PROVE  LagInv'
<1>1. UNCHANGED <<roomVars, key, socket, inbox, readerVars, link, outbox, backlog>>
  BY DEF lagVars, vars, feedVars, readerVars
<1>2. View' = View /\ From' = From /\ Base' = Base
  BY <1>1 DEF roomVars, readerVars, agentVars, View, From, Base
<1>3. RoomCatches'
  BY <1>1, <1>2 DEF LagInv, RoomCatches, roomVars
<1>4. ReaderCatches'
  BY <1>1, <1>2, HeldStill DEF LagInv, ReaderCatches
<1>5. ReaderStarts'
  BY <1>1 DEF LagInv, ReaderStarts, PageShape, Blank, readerVars, pageVars, socketVars, screenVars,
              verdictVars, agentVars
<1> QED
  BY <1>3, <1>4, <1>5, SameTyped DEF LagInv

(* A step keeps it.                                                        *)
LEMMA LagNextCatches == LagInv /\ [LagNext]_lagVars => LagInv'
<1> SUFFICES ASSUME LagInv, [LagNext]_lagVars PROVE LagInv'
  OBVIOUS
<1>1. ASSUME UNCHANGED <<key, socket, readerVars>> PROVE ReaderStarts'
  BY <1>1 DEF LagInv, ReaderStarts, PageShape, Blank, readerVars, pageVars, socketVars, screenVars,
              verdictVars, agentVars
<1>2. CASE Announces
  <2>1. UNCHANGED <<key, socket, readerVars>>
    BY <1>2 DEF Announces, Queue!BroadcasterAttaches, Queue!BroadcasterLeaves, Queue!OfflineAgain,
                Queue!SessionBegins
  <2> QED
    BY <1>1, <1>2, <2>1, AnnouncesCatches, AnnouncesTyped DEF LagInv
<1>3. CASE Publishes
  <2>1. UNCHANGED <<key, socket, readerVars>>
    BY <1>3 DEF Publishes, Shard!SessionSizes, Shard!SessionOutputs
  <2> QED
    BY <1>1, <1>3, <2>1, PublishesCatches, PublishesTyped DEF LagInv
<1>4. CASE FansOut \/ Registers \/ Relays
  <2>1. UNCHANGED <<key, socket, readerVars>>
    BY <1>4 DEF FansOut, Registers, Relays, vars, feedVars, readerVars
  <2> QED
    BY <1>1, <1>4, <2>1, PassesCatches, PassesTyped DEF LagInv
<1>5. CASE Steps
  BY <1>5, StepsCatches, StepsTyped DEF LagInv
<1>6. CASE UNCHANGED lagVars
  BY <1>6, StillCatches
<1> QED
  BY <1>2, <1>3, <1>4, <1>5, <1>6 DEF LagNext

(* At first there is nothing.                                              *)
LEMMA FirstCatches == LagInit => LagInv
<1> SUFFICES ASSUME LagInit PROVE LagInv
  OBVIOUS
<1>0. LagTyped /\ LagIs
  BY FirstTyped, LagParts
<1>1. /\ outbox = <<>> /\ backlog = <<>> /\ socket = "connecting" /\ made = 0 /\ stored = <<>>
      /\ printed = <<>> /\ buf = <<>>
  BY DEF LagInit, Init, FeedInit, AgentInit
<1>2. ReaderCatches
  BY <1>1 DEF ReaderCatches
<1>3. ReaderStarts
  <2>1. Init
    BY DEF LagInit
  <2>2. PageInv
    BY <2>1, FirstPage
  <2> QED
    BY <1>1, <2>2 DEF ReaderStarts, PageInv
<1>4. RoomCatches
  <2>1. PICK w, a : w = View /\ a = RoomFrame(stored, w)
    OBVIOUS
  <2>2. /\ a \in FrameType /\ a \in Telling(w) /\ a \in Bearing(w) /\ <<a>> \in Seq(FrameType)
        /\ \A m \in Nat : w.base < m /\ m <= w.n => a \in Giving(m)
        /\ w.base = Base
    BY <1>0, <2>1, RoomFrameGives DEF LagIs
  <2>3. <<a>> \o (<<>> \o <<>>) = <<a>>
    BY <2>2, ConcatEmptySeq
  <2>4. \A G, S : (All(<<a>>, S) <=> a \in S) /\ (Leaves(<<a>>, G, S) <=> a \in G)
    BY InOne
  <2>5. Catches(<<a>>, w.base, w)
    BY <2>2, <2>4 DEF Catches
  <2> QED
    BY <1>1, <2>1, <2>2, <2>3, <2>5 DEF RoomCatches
<1> QED
  BY <1>0, <1>2, <1>3, <1>4 DEF LagInv

(* It holds throughout.                                                    *)
LEMMA AlwaysCatches == LagSpec => []LagInv
BY FirstCatches, LagNextCatches, PTL DEF LagSpec

-----------------------------------------------------------------------------
(* What a reader shows of what it caught.                                  *)

(* Something of G is in q between what comes before it and what is in S.   *)
LEMMA LeftLast ==
  ASSUME NEW T, NEW q \in Seq(T), NEW G, NEW S, Leaves(q, G, S)
  PROVE  \E a \in Seq(T), c \in Seq(T), g \in T :
           q = (a \o <<g>>) \o c /\ g \in G /\ All(c, S)
<1>1. PICK N \in Nat : N = Len(q)
  OBVIOUS
<1>2. DOMAIN q = 1 .. N /\ \A i \in 1 .. N : q[i] \in T
  BY <1>1
<1>3. PICK j \in 1 .. N : q[j] \in G /\ \A i \in 1 .. N : i > j => q[i] \in S
  BY <1>2 DEF Leaves
<1>4. PICK a, c, g, ag : /\ a = SubSeq(q, 1, j - 1) /\ c = SubSeq(q, j + 1, N) /\ g = q[j]
                         /\ ag = SubSeq(q, 1, j)
  OBVIOUS
<1>5. g \in T /\ g \in G
  BY <1>2, <1>3, <1>4
<1>6. a \in Seq(T) /\ c \in Seq(T)
  <2>1. (\A i \in 1 .. j - 1 : q[i] \in T) /\ \A i \in j + 1 .. N : q[i] \in T
    BY <1>2
  <2>2. SubSeq(q, 1, j - 1) \in Seq(T)
    BY <2>1, SubSeqProperties
  <2>3. SubSeq(q, j + 1, N) \in Seq(T)
    BY <2>1, SubSeqProperties
  <2> QED
    BY <1>4, <2>2, <2>3
<1>7. ag = a \o <<g>>
  <2>1. 1 \in 1 .. Len(q) + 1 /\ j - 1 \in (1 - 1) .. Len(q) /\ j \in j - 1 .. Len(q)
    BY <1>1
  <2>2. SubSeq(q, 1, j - 1) \o SubSeq(q, (j - 1) + 1, j) = SubSeq(q, 1, j)
    BY <2>1, ConcatAdjacentSubSeq
  <2>3. SubSeq(q, j, j) = <<q[j]>> /\ (j - 1) + 1 = j
    <3>1. \A i \in j .. j : q[i] \in T
      BY <1>2
    <3>2. PICK s : s = SubSeq(q, j, j)
      OBVIOUS
    <3>3. s \in Seq(T) /\ Len(s) = 1 /\ s[1] = q[j]
      BY <3>1, <3>2, SubSeqProperties
    <3>4. s = <<q[j]>>
      BY <3>3
    <3> QED
      BY <3>2, <3>4
  <2> QED
    BY <1>4, <2>2, <2>3
<1>8. q = ag \o c
  <2>1. 1 \in 1 .. Len(q) + 1 /\ j \in (1 - 1) .. Len(q) /\ N \in j .. Len(q)
    BY <1>1
  <2>2. SubSeq(q, 1, j) \o SubSeq(q, j + 1, N) = SubSeq(q, 1, N)
    BY <2>1, ConcatAdjacentSubSeq
  <2>3. SubSeq(q, 1, N) = q
    BY <1>1, SubSeqFull
  <2> QED
    BY <1>4, <2>2, <2>3
<1>9. All(c, S)
  <2>1. PICK M \in Nat : M = N - j
    OBVIOUS
  <2>2. Len(c) = M /\ \A i \in 1 .. M : c[i] = q[j + i]
    BY <1>1, <1>4, <2>1
  <2>3. DOMAIN c = 1 .. M
    BY <1>6, <2>2
  <2>4. \A i \in 1 .. M : j + i \in 1 .. N /\ j + i > j
    BY <2>1
  <2> QED
    BY <1>3, <2>2, <2>3, <2>4 DEF All
<1> QED
  BY <1>5, <1>6, <1>7, <1>8, <1>9

(* The other way round.                                                    *)
LEMMA LastLeft ==
  ASSUME NEW T, NEW a \in Seq(T), NEW e \in Seq(T), NEW c \in Seq(T), NEW G, NEW S,
         Leaves(e, G, S), All(c, S)
  PROVE  (a \o e) \o c \in Seq(T) /\ Leaves((a \o e) \o c, G, S)
<1>1. PICK d : d = a \o e
  OBVIOUS
<1>2. d \in Seq(T)
  BY <1>1, ConcatProperties
<1>3. Leaves(d, G, S)
  BY <1>1, InTwoParts
<1>4. Leaves(d \o c, G, S) /\ d \o c \in Seq(T)
  BY <1>2, <1>3, InTwoParts, ConcatProperties
<1> QED
  BY <1>1, <1>4

(* What is flattened of parts in S is in S.                                *)
LEMMA FlatIn ==
  ASSUME NEW T, NEW u \in Seq(Seq(T)), NEW S, \A i \in DOMAIN u : All(u[i], S)
  PROVE  All(FlattenSeq(u), S)
<1> DEFINE R == T \cap S
<1>1. PICK N \in Nat : N = Len(u)
  OBVIOUS
<1>2. DOMAIN u = 1 .. N /\ \A i \in 1 .. N : u[i] \in Seq(T)
  BY <1>1
<1>3. ASSUME NEW i \in 1 .. N PROVE u[i] \in Seq(R)
  <2>1. PICK v : v = u[i]
    OBVIOUS
  <2>2. v \in Seq(T) /\ All(v, S)
    BY <1>2, <1>3, <2>1
  <2>3. \A k \in 1 .. Len(v) : v[k] \in T \cap S
    BY <2>2 DEF All
  <2>4. v \in Seq(R)
    BY <2>2, <2>3
  <2> QED
    BY <2>1, <2>4
<1> HIDE DEF R
<1>4. u \in Seq(Seq(R))
  <2> DEFINE Q == Seq(R)
  <2>1. PICK v : v = u
    OBVIOUS
  <2>2. \A i \in 1 .. N : v[i] \in Q
    BY <1>3, <2>1
  <2>3. v = [i \in 1 .. N |-> v[i]]
    BY <1>1, <1>2, <2>1
  <2> HIDE DEF Q
  <2>4. v \in Seq(Q)
    BY <2>2, <2>3
  <2> QED
    BY <2>1, <2>4 DEF Q
<1>5. <<>> \in Seq(R)
  OBVIOUS
<1>6. FlattenSeq(u) \in Seq(R)
  BY <1>4, <1>5, FlatAppend
<1> QED
  BY <1>6 DEF R, All

(* What the link opens of records in S is in S.                            *)
LEMMA MineIn ==
  ASSUME NEW recs \in Seq(Record), NEW S, All(recs, S)
  PROVE  All(Mine(recs), S) /\ \A i \in DOMAIN Mine(recs) : Mine(recs)[i].seal = "mine"
<1>1. PICK u : u = MineUnits(recs)
  OBVIOUS
<1>2. PICK N \in Nat : N = Len(recs)
  OBVIOUS
<1>3. /\ u \in Seq(Seq(Record)) /\ Len(u) = N
      /\ \A i \in 1 .. N : u[i] = IF recs[i].seal = "mine" THEN <<recs[i]>> ELSE <<>>
  BY <1>1, <1>2, MineUnitsTyped
<1>4. Mine(recs) = FlattenSeq(u)
  BY <1>1, MineTyped
<1> DEFINE R == {r \in Record : r \in S /\ r.seal = "mine"}
<1>5. \A i \in 1 .. N : recs[i] \in Record /\ recs[i] \in S
  BY <1>2 DEF All
<1>6. ASSUME NEW i \in 1 .. N PROVE All(u[i], R)
  <2>1. All(<<recs[i]>>, R) <=> recs[i] \in R
    BY InOne
  <2>2. All(<<>>, R)
    BY InOne
  <2> QED
    BY <1>3, <1>5, <2>1, <2>2
<1> HIDE DEF R
<1>7. DOMAIN u = 1 .. N
  BY <1>3
<1>8. All(FlattenSeq(u), R)
  BY <1>3, <1>6, <1>7, FlatIn
<1> QED
  BY <1>4, <1>8 DEF R, All

(* What frames bring of records in S is in S, and what they leave is left. *)
LEMMA BringsIn ==
  ASSUME NEW q \in Seq(FrameType), NEW S, \A i \in DOMAIN q : All(q[i].recs, S)
  PROVE  All(Brings(q), S)
<1>1. PICK u : u = RecsOf(q)
  OBVIOUS
<1>2. PICK N \in Nat : N = Len(q)
  OBVIOUS
<1>3. u \in Seq(Seq(Record)) /\ Len(u) = N /\ \A i \in 1 .. N : u[i] = q[i].recs
  BY <1>1, <1>2, RecsTyped
<1>4. DOMAIN u = 1 .. N /\ DOMAIN q = 1 .. N
  BY <1>2, <1>3
<1>5. \A i \in DOMAIN u : All(u[i], S)
  BY <1>3, <1>4
<1> QED
  BY <1>1, <1>3, <1>5, FlatIn DEF Brings

(* The last copy of a record is the last that the frames bring.            *)
LEMMA BringsLeaves ==
  ASSUME NEW q \in Seq(FrameType), NEW m \in Nat, NEW who, Leaves(q, Giving(m), Sparing(who, m))
  PROVE  Leaves(Brings(q), Nth(m), Newer(m))
<1>1. PICK a \in Seq(FrameType), c \in Seq(FrameType), g \in FrameType :
        q = (a \o <<g>>) \o c /\ g \in Giving(m) /\ All(c, Sparing(who, m))
  BY LeftLast
<1>2. <<g>> \in Seq(FrameType) /\ Brings(<<g>>) = g.recs
  BY BringsSingle
<1>3. a \o <<g>> \in Seq(FrameType) /\ Brings(a \o <<g>>) = Brings(a) \o g.recs
  BY <1>2, BringsConcat, ConcatProperties
<1>4. Brings(q) = (Brings(a) \o g.recs) \o Brings(c)
  BY <1>1, <1>3, BringsConcat
<1>5. Leaves(g.recs, Nth(m), Newer(m)) /\ g.recs \in Seq(Record)
  BY <1>1 DEF Giving, FrameType
<1>6. All(Brings(c), Newer(m))
  <2>1. \A i \in DOMAIN c : All(c[i].recs, Newer(m))
    BY <1>1 DEF All, Sparing
  <2> QED
    BY <2>1, BringsIn
<1>7. Brings(a) \in Seq(Record) /\ Brings(c) \in Seq(Record)
  BY BringsTyped
<1> QED
  BY <1>4, <1>5, <1>6, <1>7, LastLeft

(* What leaves a record with nothing but newer ones after it keeps it.     *)
LEMMA LeavesKeeps ==
  ASSUME NEW shown \in Seq(Record), NEW recs,
         \A r \in ToSet(recs) : r \in Record /\ Leaves(shown, {r}, Newer(r.n))
  PROVE  Keeps(shown, recs)
<1>1. PICK N \in Nat : N = Len(shown) /\ DOMAIN shown = 1 .. N
  OBVIOUS
<1>2. ASSUME NEW r \in ToSet(recs)
      PROVE  \E j \in 1 .. N : shown[j] = r /\ \A i \in j + 1 .. N : shown[i].n > r.n
  <2>1. PICK j \in 1 .. N : shown[j] = r /\ \A i \in 1 .. N : i > j => shown[i] \in Newer(r.n)
    BY <1>1, <1>2 DEF Leaves
  <2>2. \A i \in j + 1 .. N : i \in 1 .. N /\ i > j
    OBVIOUS
  <2> QED
    BY <2>1, <2>2 DEF Newer
<1> QED
  BY <1>1, <1>2 DEF Keeps

(* The records of the history are there.                                   *)
LEMMA CaughtUp ==
  ASSUME NEW w, NEW recs, History(recs, w), NEW raw \in Seq(Record), All(raw, OfRoom(w)),
         \A m \in Nat : w.base < m /\ m <= w.n => Leaves(raw, Nth(m), Newer(m))
  PROVE  /\ \A r \in ToSet(recs) : /\ r \in Record /\ r.seal = w.seal
                                   /\ Leaves(raw, {r}, Newer(r.n))
         /\ recs # <<>> => raw # <<>> /\ raw[Len(raw)].seal = w.seal
<1>0. recs \in Seq(Record) /\ w.n \in Nat /\ w.base \in Nat
  BY HistoryGives
<1>1. PICK N \in Nat : N = Len(recs) /\ N <= w.n /\ w.base = w.n - N
                       /\ \A i \in 1 .. N : recs[i].n = (w.n - N) + i /\ recs[i].seal = w.seal
  BY DEF History
<1>2. PICK n, b \in Nat : n = w.n /\ b = w.base
  BY <1>0
<1>3. n = b + N
  BY <1>1, <1>2
<1>4. DOMAIN recs = 1 .. N /\ \A i \in 1 .. N : recs[i] \in Record /\ recs[i].n = b + i /\ recs[i].seal = w.seal
  BY <1>0, <1>1, <1>2, <1>3
<1>5. PICK M \in Nat : M = Len(raw) /\ DOMAIN raw = 1 .. M
  OBVIOUS
<1>6. \A i \in 1 .. M : raw[i] \in Record /\ raw[i].n <= n /\ (raw[i].n > b => raw[i].seal = w.seal)
  BY <1>2, <1>5 DEF All, OfRoom
<1>7. ASSUME NEW k \in 1 .. N PROVE Leaves(raw, {recs[k]}, Newer(recs[k].n))
  <2>1. PICK m \in Nat : m = b + k
    BY <1>2
  <2>2. b < m /\ m <= n
    BY <1>3, <2>1
  <2>3. Leaves(raw, Nth(m), Newer(m)) /\ recs[k].n = m /\ recs[k] \in Record /\ recs[k].seal = w.seal
    BY <1>2, <1>4, <2>1, <2>2
  <2>4. PICK j \in 1 .. M : raw[j] \in Nth(m) /\ \A i \in 1 .. M : i > j => raw[i] \in Newer(m)
    BY <1>5, <2>3 DEF Leaves
  <2>5. raw[j].n = m /\ raw[j] \in Record /\ raw[j].seal = w.seal
    BY <1>6, <2>2, <2>4 DEF Nth
  <2>6. \A r, s \in Record : r.n = s.n /\ r.seal = s.seal => r = s
    BY DEF Record
  <2>7. raw[j] = recs[k]
    BY <2>3, <2>5, <2>6
  <2> QED
    BY <1>5, <2>3, <2>4, <2>7 DEF Leaves
<1>8. ASSUME recs # <<>> PROVE raw # <<>> /\ raw[M].seal = w.seal
  <2>1. N > 0
    BY <1>0, <1>1, <1>8
  <2>2. b < n /\ n \in Nat /\ n <= n
    BY <1>2, <1>3, <2>1
  <2>3. Leaves(raw, Nth(n), Newer(n))
    BY <1>2, <2>2
  <2>4. PICK j \in 1 .. M : raw[j] \in Nth(n) /\ \A i \in 1 .. M : i > j => raw[i] \in Newer(n)
    BY <1>5, <2>3 DEF Leaves
  <2>5. M \in 1 .. M /\ (j = M \/ M > j)
    OBVIOUS
  <2>6. raw[M].n = n \/ raw[M].n > n
    BY <2>4, <2>5 DEF Nth, Newer
  <2>7. raw[M].n > b
    <3>1. raw[M] \in Record /\ raw[M].n \in Nat
      BY <1>6, <2>5, FeedBounds DEF Record
    <3> QED
      BY <2>2, <2>6, <3>1
  <2>8. raw # <<>>
    BY <1>5, <2>5
  <2> QED
    BY <1>6, <2>5, <2>7, <2>8
<1>9. ASSUME NEW r \in ToSet(recs) PROVE \E k \in 1 .. N : r = recs[k]
  BY <1>4, <1>9 DEF ToSet
<1>10. ASSUME NEW r \in ToSet(recs)
       PROVE  r \in Record /\ r.seal = w.seal /\ Leaves(raw, {r}, Newer(r.n))
  <2>1. PICK k \in 1 .. N : r = recs[k]
    BY <1>9, <1>10
  <2>2. recs[k] \in Record /\ recs[k].seal = w.seal
    BY <1>4
  <2>3. Leaves(raw, {recs[k]}, Newer(recs[k].n))
    BY <1>7
  <2> QED
    BY <2>1, <2>2, <2>3
<1>11. recs # <<>> => raw # <<>> /\ raw[Len(raw)].seal = w.seal
  BY <1>5, <1>8
<1> QED
  BY <1>10, <1>11

(* What the link opens of them is too.                                     *)
LEMMA MineCaughtUp ==
  ASSUME NEW raw \in Seq(Record), NEW r \in Record, r.seal = "mine", Leaves(raw, {r}, Newer(r.n))
  PROVE  Leaves(Mine(raw), {r}, Newer(r.n))
<1>1. PICK m : m = r.n
  OBVIOUS
<1>2. PICK a \in Seq(Record), c \in Seq(Record), g \in Record :
        raw = (a \o <<g>>) \o c /\ g \in {r} /\ All(c, Newer(m))
  <2> DEFINE Only(s) == {s}
  <2>1. Leaves(raw, Only(r), Newer(m))
    BY <1>1
  <2> HIDE DEF Only
  <2>2. \E a \in Seq(Record), c \in Seq(Record), g \in Record :
          raw = (a \o <<g>>) \o c /\ g \in Only(r) /\ All(c, Newer(m))
    BY <2>1, LeftLast
  <2> QED
    BY <2>2 DEF Only
<1>3. <<r>> \in Seq(Record) /\ Mine(<<r>>) = <<r>>
  <2>1. MineUnits(<<r>>) = <<<<r>>>>
    BY DEF MineUnits
  <2>2. <<r>> \in Seq(Record)
    OBVIOUS
  <2>3. Mine(<<r>>) = FlattenSeq(MineUnits(<<r>>))
    BY <2>2, MineTyped
  <2>4. FlattenSeq(<<<<r>>>>) = <<r>>
    BY <2>2, FlatSingle
  <2> QED
    BY <2>1, <2>2, <2>3, <2>4
<1>4. raw = (a \o <<r>>) \o c
  BY <1>2
<1>5. a \o <<r>> \in Seq(Record) /\ Mine(a \o <<r>>) = Mine(a) \o <<r>>
  <2> DEFINE one == <<r>>
  <2>1. a \in Seq(Record) /\ one \in Seq(Record) /\ Mine(one) = one
    BY <1>3
  <2> HIDE DEF one
  <2>2. Mine(a \o one) = Mine(a) \o Mine(one)
    BY ONLY <2>1, MineConcat
  <2>3. a \o one \in Seq(Record)
    BY ONLY <2>1, ConcatProperties
  <2> QED
    BY <2>1, <2>2, <2>3 DEF one
<1>6. Mine(raw) = (Mine(a) \o <<r>>) \o Mine(c)
  BY <1>4, <1>5, MineConcat
<1>7. All(Mine(c), Newer(m)) /\ Mine(a) \in Seq(Record) /\ Mine(c) \in Seq(Record)
  BY <1>2, MineIn, MineTyped
<1>8. Leaves(<<r>>, {r}, Newer(m))
  BY InOne
<1>9. PICK x, y, e : x = Mine(a) /\ y = Mine(c) /\ e = <<r>>
  OBVIOUS
<1>10. PICK G, S : G = {r} /\ S = Newer(m)
  OBVIOUS
<1>11. x \in Seq(Record) /\ y \in Seq(Record) /\ e \in Seq(Record) /\ All(y, S) /\ Leaves(e, G, S)
  BY <1>3, <1>7, <1>8, <1>9, <1>10
<1>12. Leaves((x \o e) \o y, G, S)
  BY <1>11, LastLeft
<1> QED
  BY <1>1, <1>6, <1>9, <1>10, <1>12

(* A page that has caught up with a room that lagged shows all that the    *)
(* room holds and its link opens, and the notice and the status that go    *)
(* with it (server/viewers.rs, join, relay and fanout_loop, and room.js).  *)
THEOREM PagesMissNothing == LagSpec => []PageMissesNothing
<1>1. LagInv => PageMissesNothing
  <2> SUFFICES ASSUME LagInv, reader = "page", Quiet, outbox = <<>>, backlog = <<>>
               PROVE  /\ repeats = 0 => (status = "online" <=> online)
                      /\ CASE key = "good" ->
                                /\ Keeps(screen, Mine(stored))
                                /\ stored # <<>> => (notice = "hidden" <=> seal = "mine")
                           [] key = "none" /\ ~encryptedWithoutKey ->
                                Keeps(screen, stored) /\ notice = "hidden"
                           [] OTHER -> notice # "hidden"
    BY DEF PageMissesNothing
  <2>0. /\ LagTyped /\ LagIs /\ RoomInv /\ TypeOK /\ PageShape /\ ReaderCatches
        /\ socket = "open" /\ inbox = <<>> /\ Last(chains) = <<>> /\ term
    BY LagParts DEF LagInv, LagTyped, ReaderStarts, Quiet
  <2>1. PICK x \in FrameType : Held(x) /\ Catches((<<x>> \o <<>>) \o (<<>> \o <<>>), Base, View)
    BY <2>0 DEF ReaderCatches, From
  <2>2. PICK raw \in Seq(Record) : Decoded(raw) /\ x = Holding(Sent(raw).status, Sent(raw).recs)
    BY <2>1 DEF Held
  <2>3. x = Holding(status, raw)
    <3>1. raw \o FlattenSeq(Last(chains)) = raw
      BY <2>0, FlatNothing, ConcatEmptySeq
    <3> QED
      BY <2>2, <3>1 DEF Sent
  <2>4. x.recs = raw /\ x.kind = status
    BY <2>3 DEF Holding, Frame
  <2>5. Catches(<<x>>, Base, View)
    <3>1. <<x>> \in Seq(FrameType)
      OBVIOUS
    <3>2. (<<x>> \o <<>>) \o (<<>> \o <<>>) = <<x>>
      BY <3>1, ConcatEmptySeq
    <3> QED
      BY <2>1, <3>2
  <2>6. PICK w : w = View
    OBVIOUS
  <2>7. /\ History(stored, w) /\ w.base = Base /\ w.seal = seal /\ w.on = online /\ w.again = repeats
        /\ online \in BOOLEAN
    BY <2>0, <2>6 DEF LagIs, RoomInv, FeedTypeOK
  <2>8. \A G, S : (All(<<x>>, S) <=> x \in S) /\ (Leaves(<<x>>, G, S) <=> x \in G)
    BY InOne
  <2>9. /\ \A m \in Nat : w.base < m /\ m <= w.n => Leaves(raw, Nth(m), Newer(m))
        /\ All(raw, OfRoom(w))
        /\ repeats = 0 => status = OnOff(online)
    <3>1. Catches(<<x>>, w.base, w)
      BY <2>5, <2>6, <2>7
    <3>2. ASSUME NEW m \in Nat, w.base < m /\ m <= w.n PROVE Leaves(raw, Nth(m), Newer(m))
      <4>1. Leaves(<<x>>, Giving(m), Sparing(w.who, m))
        BY <3>1, <3>2 DEF Catches
      <4>2. x \in Giving(m)
        BY <2>8, <4>1
      <4> QED
        BY <2>4, <4>2 DEF Giving
    <3>3. x \in Bearing(w)
      <4>1. All(<<x>>, Bearing(w))
        BY <3>1 DEF Catches
      <4> QED
        BY <2>8, <4>1
    <3>4. x \in Telling(w)
      <4>1. Leaves(<<x>>, Telling(w), Silent)
        BY <3>1 DEF Catches
      <4> QED
        BY <2>8, <4>1
    <3>5. All(raw, OfRoom(w))
      BY <2>4, <3>3 DEF Bearing
    <3>6. repeats = 0 => status = OnOff(online)
      BY <2>4, <2>7, <3>4 DEF Telling
    <3> QED
      BY <3>2, <3>5, <3>6
  <2>10. /\ \A r \in ToSet(stored) : r \in Record /\ r.seal = seal /\ Leaves(raw, {r}, Newer(r.n))
         /\ stored # <<>> => raw # <<>> /\ raw[Len(raw)].seal = seal
    BY <2>7, <2>9, CaughtUp
  <2>11. Shown = screen /\ stored \in Seq(Record)
    <3>1. pendingWrites = <<>> /\ screen \in Seq(Record) /\ stored \in Seq(Record)
      BY <2>0 DEF PageShape, TypeOK, PageTypeOK, RoomInv, FeedTypeOK
    <3> QED
      BY <3>1, ConcatEmptySeq DEF Shown
  <2>12. repeats = 0 => (status = "online" <=> online)
    BY <2>7, <2>9 DEF OnOff
  <2>13. key \in {"good", "none", "unusable"}
    BY <2>0, FeedKinds DEF RoomInv, FeedTypeOK
  <2>14. CASE key = "good"
    <3>1. screen = Mine(raw) /\ (raw # <<>> => (notice = "hidden" <=> raw[Len(raw)].seal = "mine"))
      BY <2>2, <2>11, <2>14 DEF Decoded
    <3>2. ASSUME NEW r \in ToSet(Mine(stored)) PROVE r \in Record /\ Leaves(Mine(raw), {r}, Newer(r.n))
      <4>1. All(stored, ToSet(stored))
        BY DEF All, ToSet
      <4>2. r \in ToSet(stored) /\ r.seal = "mine"
        BY <2>11, <3>2, <4>1, MineIn DEF All, ToSet
      <4> QED
        BY <2>10, <4>2, MineCaughtUp
    <3>3. Keeps(Mine(raw), Mine(stored))
      BY <3>2, MineTyped, LeavesKeeps
    <3>4. stored # <<>> => (notice = "hidden" <=> seal = "mine")
      BY <2>10, <3>1
    <3> QED
      BY <2>12, <2>14, <3>1, <3>3, <3>4
  <2>15. CASE key = "none" /\ ~encryptedWithoutKey
    <3>1. screen = raw
      BY <2>2, <2>11, <2>15 DEF Decoded
    <3>2. Keeps(raw, stored)
      BY <2>10, LeavesKeeps
    <3>3. notice = "hidden"
      BY <2>0, <2>15 DEF PageShape
    <3> QED
      BY <2>12, <2>15, <3>1, <3>2, <3>3
  <2>16. CASE key # "good" /\ ~(key = "none" /\ ~encryptedWithoutKey)
    <3>1. notice # "hidden"
      BY <2>0, <2>13, <2>16 DEF PageShape
    <3> QED
      BY <2>12, <2>16, <3>1
  <2> QED
    BY <2>14, <2>15, <2>16
<1> QED
  BY <1>1, AlwaysCatches, PTL

(* A follower's log, with what is in the queues, has every record since    *)
(* its snapshot (server/viewers.rs, join, relay and fanout_loop, and       *)
(* agent.mjs, its follow branch).                                          *)
THEOREM LogsMissNothing == LagSpec => []LogMissesNothing
<1>1. LagInv => LogMissesNothing
  <2> DEFINE log == printed \o Carried(inbox \o outbox \o backlog)
  <2> SUFFICES ASSUME LagInv, reader = "agent", socket = "open", buf = <<>>, NEW m \in joined + 1 .. made
               PROVE  \E j \in DOMAIN log : log[j].n = m /\ \A i \in j + 1 .. Len(log) : log[i].n > m
    BY DEF LogMissesNothing
  <2>0. LagIs /\ ReaderCatches /\ TypeOK
    BY LagParts DEF LagInv, LagTyped
  <2>1. PICK x \in FrameType : Held(x) /\ Catches((<<x>> \o inbox) \o (outbox \o backlog), joined, View)
    BY <2>0 DEF ReaderCatches, From
  <2>2. printed \in Seq(Record) /\ joined \in Nat /\ made \in Nat
    BY <2>0 DEF TypeOK, AgentTypeOK, LagIs
  <2>3. x.recs = printed
    <3>1. printed \o <<>> = printed
      BY <2>2, ConcatEmptySeq
    <3> QED
      BY <2>1, <3>1 DEF Held, Holding, Frame
  <2>4. m \in Nat /\ joined < m /\ m <= made
    BY <2>2
  <2>5. PICK one, i, o, b : one = <<x>> /\ i = inbox /\ o = outbox /\ b = backlog
    OBVIOUS
  <2>6. /\ one \in Seq(FrameType) /\ i \in Seq(FrameType) /\ o \in Seq(FrameType) /\ b \in Seq(FrameType)
        /\ Brings(one) = printed
    <3>1. <<x>> \in Seq(FrameType) /\ Brings(<<x>>) = x.recs
      BY BringsSingle
    <3> QED
      BY <2>0, <2>3, <2>5, <3>1 DEF LagIs
  <2>7. Leaves((one \o i) \o (o \o b), Giving(m), Sparing(reader, m))
    BY <2>0, <2>1, <2>4, <2>5 DEF Catches, LagIs
  <2>8. PICK q : q = (i \o o) \o b
    OBVIOUS
  <2>9. q \in Seq(FrameType) /\ (one \o i) \o (o \o b) = one \o q
    <3>1. PICK ob, io : ob = o \o b /\ io = i \o o
      OBVIOUS
    <3>2. i \in Seq(FrameType) /\ o \in Seq(FrameType) /\ b \in Seq(FrameType) /\ one \in Seq(FrameType)
      BY <2>6
    <3>3. ob \in Seq(FrameType) /\ io \in Seq(FrameType)
      BY <3>1, <3>2, Rejoined
    <3>4. (one \o i) \o ob = one \o (i \o ob)
      BY <3>2, <3>3, Associates
    <3>5. (i \o o) \o b = i \o (o \o b)
      BY <3>2, Associates
    <3>6. q \in Seq(FrameType)
      BY <2>8, <3>1, <3>2, <3>3, Rejoined
    <3> QED
      BY <2>8, <3>1, <3>4, <3>5, <3>6
  <2>10. one \o q \in Seq(FrameType) /\ Brings(one \o q) = printed \o Brings(q)
    BY <2>6, <2>9, BringsConcat, Rejoined
  <2>11. Leaves(printed \o Brings(q), Nth(m), Newer(m))
    BY <2>4, <2>7, <2>9, <2>10, BringsLeaves
  <2>12. log = printed \o Brings(q)
    BY <2>5, <2>8 DEF Carried, Brings, RecsOf
  <2> HIDE DEF log
  <2>13. log \in Seq(Record)
    BY <2>2, <2>9, <2>12, BringsTyped, ConcatProperties
  <2>14. PICK N \in Nat : N = Len(log) /\ DOMAIN log = 1 .. N
    BY <2>13
  <2>15. PICK j \in 1 .. N : log[j] \in Nth(m) /\ \A k \in 1 .. N : k > j => log[k] \in Newer(m)
    BY <2>11, <2>12, <2>14 DEF Leaves
  <2>16. \A k \in j + 1 .. N : k \in 1 .. N /\ k > j
    OBVIOUS
  <2> QED
    BY <2>14, <2>15, <2>16 DEF Nth, Newer, log
<1> QED
  BY <1>1, AlwaysCatches, PTL

(* However far the fan-out lags and whatever overtakes it, no reader       *)
(* misses anything.                                                        *)
THEOREM NobodyMissesAnything == LagSpec => []ReadersMissNothing
<1>1. PageMissesNothing /\ LogMissesNothing => ReadersMissNothing
  BY DEF ReadersMissNothing
<1> QED
  BY <1>1, PagesMissNothing, LogsMissNothing, PTL

-----------------------------------------------------------------------------
(* What a lagging reader without a key may be shown: what is plain, and    *)
(* what no history has any more.                                           *)
Unsealed == {r \in Record : r.n <= made /\ (r.n > Base => r.seal = "plain")}

(* The frames that bring more than that, and those that warn of it.        *)
Hiding == {f \in FrameType : ~All(f.recs, Unsealed)}
Warnings == {f \in FrameType : Warns(f)}

(* A warning comes before what is to be hidden, and before what is to come *)
(* of a sealed session.                                                    *)
Safe(q) == Guarded(q, Hiding, Warnings) /\ (sized /\ seal # "plain" => Some(q, Warnings))

(* What is under way is safe for a reader that was not warned.             *)
Sheltered ==
  socket = "open" /\ ~Warned => \E q \in Seq(FrameType) : q = inbox \o (outbox \o backlog) /\ Safe(q)

(* A reader without a key was shown no more than that.                     *)
OutputUnsealed ==
  /\ screen \in Seq(Record) /\ pendingWrites \in Seq(Record) /\ printed \in Seq(Record)
  /\ All(screen, Unsealed) /\ All(pendingWrites, Unsealed) /\ All(printed, Unsealed)
  /\ chains \in Seq({<<>>}) /\ buf = <<>>

(* That is so of every reader without a key.                               *)
StaleInv == ~HasKey => OutputUnsealed /\ Sheltered

(* The past only grows.                                                    *)
Older ==
  /\ made \in Nat /\ made' \in Nat /\ Base \in Nat /\ Base' \in Nat
  /\ made <= made' /\ Base <= Base' /\ Base' <= made'

(* What may be shown grows with it.                                        *)
LEMMA UnsealedGrows ==
  ASSUME Older, Base = Base' \/ Base' = made
  PROVE  Unsealed \subseteq Unsealed' /\ Hiding' \subseteq Hiding
<1>1. \A r \in Record : r.n \in Nat
  BY FeedBounds DEF Record
<1>2. ASSUME NEW r \in Unsealed PROVE r \in Unsealed'
  <2>1. r \in Record /\ r.n <= made /\ (r.n > Base => r.seal = "plain") /\ r.n \in Nat
    BY <1>1 DEF Unsealed
  <2>2. r.n <= made'
    BY <2>1 DEF Older
  <2>3. r.n > Base' => r.seal = "plain"
    <3>1. ~(r.n > made)
      BY <2>1 DEF Older
    <3> QED
      BY <2>1, <3>1
  <2> QED
    BY <2>1, <2>2, <2>3 DEF Unsealed
<1>3. Unsealed \subseteq Unsealed'
  BY <1>2
<1> QED
  BY <1>3 DEF Hiding, All

(* What is guarded of more is guarded of less.                             *)
LEMMA GuardedLess ==
  ASSUME NEW q, NEW H, NEW G, NEW W, G \subseteq H, Guarded(q, H, W)
  PROVE  Guarded(q, G, W)
BY DEF Guarded

(* What is in S is in all that has S.                                      *)
LEMMA AllMore ==
  ASSUME NEW q, NEW S, NEW T, S \subseteq T, All(q, S)
  PROVE  All(q, T)
BY DEF All

(* The output is what it was.                                              *)
LEMMA OutputStill ==
  ASSUME OutputUnsealed, Unsealed \subseteq Unsealed', UNCHANGED <<pageVars, agentVars>>
  PROVE  OutputUnsealed'
<1>1. UNCHANGED <<screen, pendingWrites, printed, chains, buf>>
  BY DEF pageVars, screenVars, agentVars
<1>2. ASSUME NEW q, All(q, Unsealed) PROVE All(q, Unsealed')
  BY <1>2, AllMore
<1> QED
  BY <1>1, <1>2 DEF OutputUnsealed, All

(* What is announced brings nothing.                                       *)
LEMMA SafeBetween ==
  ASSUME NEW p \in Seq(FrameType), NEW q \in Seq(FrameType), NEW f \in FrameType,
         Safe(p \o q), f \notin Hiding
  PROVE  Safe((p \o <<f>>) \o q)
<1> DEFINE one == <<f>>
<1>1. one \in Seq(FrameType) /\ (\A H, W : Guarded(one, H, W) <=> f \notin H)
  BY InOne
<1> HIDE DEF one
<1>2. p \o one \in Seq(FrameType)
  BY <1>1, Rejoined
<1>3. \A W : /\ Some(p \o q, W) <=> Some(p, W) \/ Some(q, W)
             /\ Some(p \o one, W) <=> Some(p, W) \/ Some(one, W)
             /\ Some((p \o one) \o q, W) <=> Some(p \o one, W) \/ Some(q, W)
  <2>1. p \in Seq(FrameType) /\ q \in Seq(FrameType) /\ one \in Seq(FrameType)
    BY <1>1
  <2>2. ASSUME NEW W PROVE Some(p \o q, W) <=> Some(p, W) \/ Some(q, W)
    BY ONLY <2>1, InTwoParts
  <2>3. ASSUME NEW W PROVE Some(p \o one, W) <=> Some(p, W) \/ Some(one, W)
    BY ONLY <2>1, InTwoParts
  <2>4. ASSUME NEW W PROVE Some((p \o one) \o q, W) <=> Some(p \o one, W) \/ Some(q, W)
    BY ONLY <2>1, <1>2, InTwoParts
  <2> QED
    BY <2>2, <2>3, <2>4
<1>4. /\ \A H, W : Guarded(p \o q, H, W) <=> Guarded(p, H, W) /\ (Some(p, W) \/ Guarded(q, H, W))
      /\ \A H, W : Guarded(p \o one, H, W) <=> Guarded(p, H, W) /\ (Some(p, W) \/ Guarded(one, H, W))
  BY <1>1, InTwoParts
<1>5. \A H, W : Guarded((p \o one) \o q, H, W) <=>
                  Guarded(p \o one, H, W) /\ (Some(p \o one, W) \/ Guarded(q, H, W))
  BY <1>2, InTwoParts
<1> QED
  BY <1>1, <1>3, <1>4, <1>5 DEF Safe, one

(* What is published of a sealed session comes after its warning.          *)
LEMMA GuardedLast ==
  ASSUME NEW q \in Seq(FrameType), NEW f \in FrameType, NEW H, NEW W, Guarded(q, H, W),
         f \notin H \/ Some(q, W)
  PROVE  Guarded(q \o <<f>>, H, W) /\ (Some(q, W) \/ f \in W => Some(q \o <<f>>, W))
<1> DEFINE one == <<f>>
<1>1. one \in Seq(FrameType) /\ (Guarded(one, H, W) <=> f \notin H) /\ (Some(one, W) <=> f \in W)
  BY InOne
<1> HIDE DEF one
<1>2. /\ Some(q \o one, W) <=> Some(q, W) \/ Some(one, W)
      /\ Guarded(q \o one, H, W) <=> Guarded(q, H, W) /\ (Some(q, W) \/ Guarded(one, H, W))
  BY <1>1, InTwoParts
<1> QED
  BY <1>1, <1>2 DEF one

(* A frame is handled.                                                     *)
LEMMA SafeTail ==
  ASSUME NEW i \in Seq(FrameType), i # <<>>, NEW q \in Seq(FrameType), Safe(i \o q)
  PROVE  /\ Head(i) \notin Hiding
         /\ ~Warns(Head(i)) => Safe(Tail(i) \o q)
<1>1. PICK f, t, one : f = Head(i) /\ t = Tail(i) /\ one = <<f>>
  OBVIOUS
<1>2. f \in FrameType /\ t \in Seq(FrameType) /\ one \in Seq(FrameType) /\ i = one \o t
  BY <1>1, FannedOut
<1>3. PICK r : r = t \o q
  OBVIOUS
<1>4. r \in Seq(FrameType) /\ i \o q = one \o r
  <2>1. (one \o t) \o q = one \o (t \o q) /\ t \o q \in Seq(FrameType)
    <3>1. one \in Seq(FrameType) /\ t \in Seq(FrameType)
      BY <1>2
    <3> QED
      BY <3>1, Associates, Rejoined
  <2> QED
    BY <1>2, <1>3, <2>1
<1>5. \A H, W : /\ Some(one \o r, W) <=> Some(one, W) \/ Some(r, W)
                /\ Guarded(one \o r, H, W) <=> Guarded(one, H, W) /\ (Some(one, W) \/ Guarded(r, H, W))
  BY <1>2, <1>4, InTwoParts
<1>6. \A H, W : (Guarded(one, H, W) <=> f \notin H) /\ (Some(one, W) <=> f \in W)
  BY <1>1, InOne
<1>7. f \in Warnings <=> Warns(f)
  BY <1>2 DEF Warnings
<1> QED
  BY <1>1, <1>3, <1>4, <1>5, <1>6, <1>7 DEF Safe

(* Announcements overtake what is queued, and bring nothing.               *)
LEMMA AnnouncesStale ==
  ASSUME LagInv, StaleInv, Announces
  PROVE  StaleInv'
<1>0. LagTyped /\ LagTyped'
  BY AnnouncesTyped DEF LagInv
<1>1. LagIs /\ LagIs'
  BY <1>0, BothSides
<1>2. PICK f \in FrameType : Announced(f)
  BY <1>0, AnnouncesOne DEF LagTyped
<1>3. /\ UNCHANGED <<made, key, socket, inbox, link, backlog, pageVars, agentVars, reader>>
      /\ f.recs = <<>> /\ outbox' = IF link = "open" THEN Append(outbox, f) ELSE outbox
  BY <1>2 DEF Announced, readerVars
<1>4. Older /\ (Base = Base' \/ Base' = made)
  <2>1. /\ made \in Nat /\ made' = made /\ Base \in Nat /\ Base' \in Nat
        /\ stored \in Seq(Record)
    BY <1>0, <1>1, <1>3 DEF LagIs, LagTyped, RoomInv, FeedTypeOK
  <2>2. PICK N \in Nat : N = Len(stored)
    BY <2>1
  <2>3. Base = made - N
    BY <2>2 DEF Base
  <2>4. Base' = Base \/ Base' = made
    <3>1. CASE Tells(f)
      BY <1>3, <3>1 DEF Tells, Base
    <3>2. CASE Clears(f)
      <4>1. Len(stored') = 0
        BY <3>2 DEF Clears
      <4>2. Base' = made - 0
        BY <2>1, <4>1 DEF Base
      <4> QED
        BY <2>1, <4>2
    <3> QED
      BY <1>2, <3>1, <3>2 DEF Announced
  <2>5. Base <= made
    BY <2>1, <2>2, <2>3
  <2> QED
    BY <2>1, <2>4, <2>5 DEF Older
<1>5. Unsealed \subseteq Unsealed' /\ Hiding' \subseteq Hiding
  BY <1>4, UnsealedGrows
<1> SUFFICES ASSUME ~HasKey' PROVE OutputUnsealed' /\ Sheltered'
  BY DEF StaleInv
<1>6. OutputUnsealed /\ Sheltered
  BY <1>3 DEF StaleInv, HasKey
<1>7. OutputUnsealed'
  BY <1>3, <1>5, <1>6, OutputStill
<1>8. Sheltered'
  <2> SUFFICES ASSUME socket' = "open", ~Warned'
               PROVE  \E q \in Seq(FrameType) : q = inbox' \o (outbox' \o backlog') /\ Safe(q)'
    BY DEF Sheltered
  <2>1. socket = "open" /\ ~Warned
    BY <1>3 DEF Warned, pageVars, verdictVars, agentVars
  <2>2. PICK i, o, b, one : i = inbox /\ o = outbox /\ b = backlog /\ one = <<f>>
    OBVIOUS
  <2>3. /\ i \in Seq(FrameType) /\ o \in Seq(FrameType) /\ b \in Seq(FrameType) /\ one \in Seq(FrameType)
        /\ Append(o, f) = o \o one
    BY <1>1, <2>2, AppendIsConcat DEF LagIs
  <2>4. Safe(i \o (o \o b))
    BY <1>6, <2>1, <2>2 DEF Sheltered
  <2>5. PICK p : p = i \o o
    OBVIOUS
  <2>6. p \in Seq(FrameType) /\ i \o (o \o b) = p \o b
    <3>1. i \in Seq(FrameType) /\ o \in Seq(FrameType) /\ b \in Seq(FrameType)
      BY <2>3
    <3>2. (i \o o) \o b = i \o (o \o b)
      BY <3>1, Associates
    <3> QED
      BY <2>5, <3>1, <3>2, Rejoined
  <2>7. f \notin Hiding
    <3>1. All(f.recs, Unsealed)
      BY <1>3, InOne
    <3> QED
      BY <3>1 DEF Hiding
  <2>8. Safe((p \o one) \o b)
    BY <2>2, <2>3, <2>4, <2>6, <2>7, SafeBetween
  <2>9. (p \o one) \o b = i \o ((o \o one) \o b)
    <3>1. Grouped(i, o, b, one)
      BY <2>3, RejoinedTwice
    <3> QED
      BY <2>5, <3>1 DEF Grouped
  <2>10. PICK q : q = (p \o one) \o b
    OBVIOUS
  <2>11. q \in Seq(FrameType)
    <3>1. p \o one \in Seq(FrameType)
      BY <2>3, <2>6, Rejoined
    <3> QED
      BY <2>3, <2>10, <3>1, Rejoined
  <2>12. q = inbox' \o (outbox' \o backlog')
    <3>1. link = "open"
      BY <1>0, <2>1 DEF LagTyped, Queues
    <3> QED
      BY <1>3, <2>2, <2>3, <2>9, <2>10, <3>1
  <2>13. Safe(q)'
    <3>1. Guarded(q, Hiding, Warnings) /\ (sized /\ seal # "plain" => Some(q, Warnings))
      BY <2>8, <2>10 DEF Safe
    <3>2. Guarded(q, Hiding', Warnings)
      BY <1>5, <3>1, GuardedLess
    <3>3. sized' /\ seal' # "plain" => sized /\ seal # "plain"
      BY <1>2 DEF Announced, Tells, Clears
    <3> QED
      BY <3>1, <3>2, <3>3 DEF Safe
  <2> QED
    BY <2>11, <2>12, <2>13
<1> QED
  BY <1>7, <1>8

(* Of a sealed session the size goes first.                                *)
LEMMA PublishesStale ==
  ASSUME LagInv, StaleInv, Publishes
  PROVE  StaleInv'
<1>0. LagTyped /\ LagTyped'
  BY PublishesTyped DEF LagInv
<1>1. LagIs /\ LagIs'
  BY <1>0, BothSides
<1>2. PICK f \in FrameType : Published(f)
  BY <1>0, PublishesOne DEF LagTyped
<1>3. /\ UNCHANGED <<seal, key, socket, inbox, link, outbox, pageVars, agentVars, reader>>
      /\ backlog' = Append(backlog, f)
  BY <1>2 DEF Published, readerVars
<1>4. Older /\ (Base = Base' \/ Base' = made)
  <2>1. /\ made \in Nat /\ made' \in Nat /\ Base \in Nat /\ Base' \in Nat
        /\ stored \in Seq(Record)
    BY <1>0, <1>1, <1>3 DEF LagIs, LagTyped, RoomInv, FeedTypeOK
  <2>2. PICK N \in Nat : N = Len(stored)
    BY <2>1
  <2>3. made <= made' /\ Base' = Base
    <3>1. CASE Sizes(f)
      BY <2>1, <3>1 DEF Sizes, Base
    <3>2. CASE Outputs(f)
      <4>1. PICK r \in Record : stored' = Append(stored, r)
        BY <3>2 DEF Outputs
      <4>2. Len(stored') = N + 1 /\ made' = made + 1
        BY <2>1, <2>2, <3>2, <4>1 DEF Outputs
      <4>3. Base' = (made + 1) - (N + 1) /\ Base = made - N
        BY <2>2, <4>2 DEF Base
      <4> QED
        BY <2>1, <4>2, <4>3
    <3> QED
      BY <1>2, <3>1, <3>2 DEF Published
  <2>4. Base <= made
    BY <2>1, <2>2 DEF Base
  <2> QED
    BY <2>1, <2>3, <2>4 DEF Older
<1>5. Unsealed \subseteq Unsealed' /\ Hiding' \subseteq Hiding
  BY <1>4, UnsealedGrows
<1> SUFFICES ASSUME ~HasKey' PROVE OutputUnsealed' /\ Sheltered'
  BY DEF StaleInv
<1>6. OutputUnsealed /\ Sheltered
  BY <1>3 DEF StaleInv, HasKey
<1>7. OutputUnsealed'
  BY <1>3, <1>5, <1>6, OutputStill
<1>8. Sheltered'
  <2> SUFFICES ASSUME socket' = "open", ~Warned'
               PROVE  \E q \in Seq(FrameType) : q = inbox' \o (outbox' \o backlog') /\ Safe(q)'
    BY DEF Sheltered
  <2>1. socket = "open" /\ ~Warned
    BY <1>3 DEF Warned, pageVars, verdictVars, agentVars
  <2>2. PICK i, o, b, one : i = inbox /\ o = outbox /\ b = backlog /\ one = <<f>>
    OBVIOUS
  <2>3. /\ i \in Seq(FrameType) /\ o \in Seq(FrameType) /\ b \in Seq(FrameType) /\ one \in Seq(FrameType)
        /\ Append(b, f) = b \o one
    BY <1>1, <2>2, AppendIsConcat DEF LagIs
  <2>4. PICK q : q = i \o (o \o b)
    OBVIOUS
  <2>5. Safe(q)
    BY <1>6, <2>1, <2>2, <2>4 DEF Sheltered
  <2>6. q \in Seq(FrameType) /\ q \o one \in Seq(FrameType)
    <3>1. o \o b \in Seq(FrameType)
      BY <2>3, Rejoined
    <3>2. q \in Seq(FrameType)
      BY <2>3, <2>4, <3>1, Rejoined
    <3> QED
      BY <2>3, <3>2, Rejoined
  <2>7. q \o one = i \o (o \o (b \o one))
    <3>1. Grouped(i, o, b, one)
      BY <2>3, RejoinedTwice
    <3> QED
      BY <2>4, <3>1 DEF Grouped
  <2>8. q \o one = inbox' \o (outbox' \o backlog')
    BY <1>3, <2>2, <2>3, <2>7
  <2>9. Guarded(q, Hiding', Warnings) /\ (sized /\ seal # "plain" => Some(q, Warnings))
    BY <1>5, <2>5, GuardedLess DEF Safe
  <2>10. f \notin Hiding' \/ Some(q, Warnings)
    <3>1. CASE Sizes(f)
      <4>1. All(f.recs, Unsealed')
        <5>1. f.recs = <<>>
          BY <3>1 DEF Sizes
        <5>2. All(<<>>, Unsealed')
          BY InOne
        <5> QED
          BY <5>1, <5>2
      <4> QED
        BY <4>1 DEF Hiding
    <3>2. CASE Outputs(f)
      <4>1. CASE seal = "plain"
        <5>1. PICK r \in Record : r.n = made + 1 /\ r.seal = seal /\ f.recs = <<r>>
          BY <3>2 DEF Outputs
        <5>2. r.n <= made'
          BY <3>2, <5>1, <1>4 DEF Outputs, Older
        <5>3. r \in Unsealed'
          BY <4>1, <5>1, <5>2 DEF Unsealed
        <5>4. All(f.recs, Unsealed')
          BY <5>1, <5>3, InOne
        <5> QED
          BY <5>4 DEF Hiding
      <4>2. CASE seal # "plain"
        BY <2>9, <3>2, <4>2 DEF Outputs
      <4> QED
        BY <4>1, <4>2
    <3> QED
      BY <1>2, <3>1, <3>2 DEF Published
  <2>11. Guarded(q \o one, Hiding', Warnings) /\ (Some(q, Warnings) \/ f \in Warnings => Some(q \o one, Warnings))
    BY <2>2, <2>6, <2>9, <2>10, GuardedLast
  <2>12. sized' /\ seal' # "plain" => Some(q, Warnings) \/ f \in Warnings
    <3>1. CASE Sizes(f)
      BY <1>3, <3>1 DEF Sizes, Warnings, Warns
    <3>2. CASE Outputs(f)
      BY <1>3, <2>9, <3>2 DEF Outputs
    <3> QED
      BY <1>2, <3>1, <3>2 DEF Published
  <2>13. PICK p : p = q \o one
    OBVIOUS
  <2>14. Safe(p)'
    BY <2>11, <2>12, <2>13 DEF Safe
  <2> QED
    BY <2>6, <2>8, <2>13, <2>14
<1> QED
  BY <1>7, <1>8

(* The reader's steps, and its queues, leave the room as it is.            *)
LEMMA SameUnsealed ==
  ASSUME UNCHANGED roomVars
  PROVE  Unsealed' = Unsealed /\ Hiding' = Hiding /\ \A q : Safe(q) => Safe(q)'
<1>1. Unsealed' = Unsealed
  BY DEF roomVars, Unsealed, Base
<1>2. Hiding' = Hiding
  BY <1>1 DEF Hiding
<1> QED
  BY <1>1, <1>2 DEF roomVars, Safe

(* From queue to queue nothing changes.                                    *)
LEMMA PassesStale ==
  ASSUME LagInv, StaleInv, FansOut \/ Registers \/ Relays
  PROVE  StaleInv'
<1>0. LagTyped /\ LagIs
  BY LagParts DEF LagInv
<1>1. UNCHANGED <<roomVars, key, socket, pageVars, agentVars, reader>>
  BY DEF FansOut, Registers, Relays, vars, feedVars, readerVars
<1>2. Unsealed' = Unsealed /\ \A q : Safe(q) => Safe(q)'
  BY <1>1, SameUnsealed
<1> SUFFICES ASSUME ~HasKey' PROVE OutputUnsealed' /\ Sheltered'
  BY DEF StaleInv
<1>3. OutputUnsealed /\ Sheltered
  BY <1>1 DEF StaleInv, HasKey
<1>4. OutputUnsealed'
  BY <1>1, <1>2, <1>3, OutputStill
<1>5. Sheltered'
  <2> SUFFICES ASSUME socket' = "open", ~Warned'
               PROVE  \E q \in Seq(FrameType) : q = inbox' \o (outbox' \o backlog') /\ Safe(q)'
    BY DEF Sheltered
  <2>1. socket = "open" /\ ~Warned /\ link = "open"
    BY <1>0, <1>1 DEF Warned, pageVars, verdictVars, agentVars, LagTyped, Queues
  <2>2. PICK q \in Seq(FrameType) : q = inbox \o (outbox \o backlog) /\ Safe(q)
    BY <1>3, <2>1 DEF Sheltered
  <2>3. PICK i, o, b : i = inbox /\ o = outbox /\ b = backlog
    OBVIOUS
  <2>4. i \in Seq(FrameType) /\ o \in Seq(FrameType) /\ b \in Seq(FrameType)
    BY <1>0, <2>3 DEF LagIs
  <2>5. q = inbox' \o (outbox' \o backlog')
    <3>1. CASE FansOut
      <4>1. /\ inbox' = i /\ outbox' = Append(o, Head(b)) /\ backlog' = Tail(b) /\ b # <<>>
        BY <2>1, <2>3, <3>1 DEF FansOut, Queue!Sends, vars, feedVars
      <4>2. Append(o, Head(b)) \o Tail(b) = o \o b
        BY <2>4, <4>1, FannedOut
      <4> QED
        BY <2>2, <2>3, <4>1, <4>2
    <3>2. CASE Registers
      BY <2>2, <3>2 DEF Registers, vars, feedVars
    <3>3. CASE Relays
      <4>1. inbox' = i \o o /\ outbox' = <<>> /\ backlog' = b
        BY <2>3, <3>3 DEF Relays
      <4>2. (i \o o) \o b = i \o (o \o b)
        BY ONLY <2>4, Associates, ZenonT(30)
      <4>3. <<>> \o b = b
        BY ONLY <2>4, Rejoined
      <4> QED
        BY <2>2, <2>3, <4>1, <4>2, <4>3
    <3> QED
      BY <3>1, <3>2, <3>3
  <2> QED
    BY <1>2, <2>2, <2>5
<1> QED
  BY <1>4, <1>5

(* A connection that opens is safe: its snapshot warns of a sealed history *)
(* and of a session that may go on, and nothing else under way is of one   *)
(* that the history still has.                                             *)
LEMMA OpensSafe ==
  ASSUME LagTyped, LagIs, NEW x \in FrameType, NEW t \in Seq(FrameType),
         NEW w, w = View, Catches((<<x>> \o Snapshot) \o t, w.base, w), Snapshot \in Seq(FrameType)
  PROVE  Safe(Snapshot \o t)
<1>0. RoomInv /\ w.n = made /\ w.base = Base /\ w.seal = seal /\ stored \in Seq(Record)
  BY DEF LagTyped, RoomInv, FeedTypeOK, LagIs
<1>1. PICK s : s = Snapshot
  OBVIOUS
<1>2. s \in Seq(FrameType) /\ s \o t \in Seq(FrameType)
  BY <1>1, Rejoined
<1>3. All(s, Bearing(w)) /\ All(t, Bearing(w))
  <2>1. PICK one : one = <<x>>
    OBVIOUS
  <2>2. one \in Seq(FrameType)
    BY <2>1
  <2>3. one \o s \in Seq(FrameType)
    BY <1>2, <2>2, Rejoined
  <2>4. All((one \o s) \o t, Bearing(w))
    BY <1>1, <2>1 DEF Catches
  <2>5. All(one \o s, Bearing(w)) /\ All(t, Bearing(w))
    BY <2>3, <2>4, InTwoParts
  <2> QED
    BY <1>2, <2>2, <2>5, InTwoParts
<1>4. CASE roomSize \notin {NoSeal, "plain"}
  <2> DEFINE size == Frame("size", <<>>, roomSize)
             second == IF stored = <<>> THEN <<>> ELSE <<Frame("bytes", stored, NoSeal)>>
             third == <<Status(online), Frame("count", <<>>, NoSeal)>>
  <2>1. size \in FrameType /\ size.recs = <<>> /\ size \in Warnings
    <3>1. roomSize \in Seals
      BY <1>0, <1>4 DEF RoomInv, FeedTypeOK
    <3>2. size \in FrameType
      BY <3>1, FramesType
    <3>3. size.recs = <<>> /\ Warns(size)
      BY <1>4 DEF Warns, Frame
    <3> QED
      BY <3>2, <3>3 DEF Warnings
  <2>2. s = (<<size>> \o second) \o third
    BY <1>1, <1>4 DEF Snapshot
  <2>3. second \in Seq(FrameType) /\ third \in Seq(FrameType)
    <3>1. Frame("bytes", stored, NoSeal) \in FrameType /\ Status(online) \in FrameType
          /\ Frame("count", <<>>, NoSeal) \in FrameType
      BY <1>0, FramesType DEF RoomInv, FeedTypeOK
    <3> QED
      BY <3>1
  <2>4. PICK one, rest : one = <<size>> /\ rest = second
    OBVIOUS
  <2>5. one \in Seq(FrameType) /\ rest \in Seq(FrameType) /\ Some(one, Warnings)
        /\ Guarded(one, Hiding, Warnings)
    <3>1. All(size.recs, Unsealed)
      <4>1. All(<<>>, Unsealed)
        BY InOne
      <4> QED
        BY <2>1, <4>1
    <3>2. size \notin Hiding
      BY <3>1 DEF Hiding
    <3> QED
      BY <2>1, <2>3, <2>4, <3>2, InOne
  <2>6. PICK or : or = one \o rest
    OBVIOUS
  <2>7. or \in Seq(FrameType) /\ Some(or, Warnings) /\ Guarded(or, Hiding, Warnings)
    BY <2>5, <2>6, InTwoParts, Rejoined
  <2> HIDE DEF size, second, third
  <2>8. s = or \o third
    BY <2>2, <2>4, <2>6
  <2>9. Some(s, Warnings) /\ Guarded(s, Hiding, Warnings)
    BY <2>3, <2>7, <2>8, InTwoParts
  <2>10. Some(s \o t, Warnings) /\ Guarded(s \o t, Hiding, Warnings)
    BY <1>2, <2>9, InTwoParts
  <2> QED
    BY <1>1, <2>10 DEF Safe
<1>5. CASE roomSize \in {NoSeal, "plain"}
  <2>1. (stored # <<>> => seal = "plain") /\ (sized => seal = "plain")
    BY <1>0, <1>5 DEF RoomInv
  <2>2. OfRoom(w) \subseteq Unsealed
    <3>1. CASE seal = "plain"
      BY <1>0, <3>1 DEF OfRoom, Unsealed
    <3>2. CASE stored = <<>>
      <4>1. Base = made - 0 /\ made \in Nat
        BY <3>2 DEF Base, LagIs
      <4>2. Base = made
        BY <4>1
      <4>3. \A r \in Record : r.n \in Nat
        BY FeedBounds DEF Record
      <4>4. ASSUME NEW r \in OfRoom(w) PROVE r \in Unsealed
        <5>1. r \in Record /\ r.n <= made /\ r.n \in Nat
          BY <1>0, <4>3 DEF OfRoom
        <5>2. ~(r.n > Base)
          BY <4>1, <4>2, <5>1
        <5> QED
          BY <5>1, <5>2 DEF Unsealed
      <4> QED
        BY <4>4
    <3> QED
      BY <2>1, <3>1, <3>2
  <2>3. ASSUME NEW f \in Bearing(w) PROVE f \notin Hiding
    <3>1. All(f.recs, Unsealed)
      BY <2>2, AllMore DEF Bearing
    <3> QED
      BY <3>1 DEF Hiding
  <2>4. All(s \o t, Bearing(w))
    BY <1>2, <1>3, InTwoParts
  <2>5. Guarded(s \o t, Hiding, Warnings)
    BY <2>3, <2>4 DEF All, Guarded
  <2> QED
    BY <1>1, <2>1, <2>5 DEF Safe
<1> QED
  BY <1>4, <1>5

(* So is what is to come when a reader's connection opens.                 *)
LEMMA OpensSheltered ==
  ASSUME LagInv, LagInv', StaleInv, UNCHANGED <<roomVars, reader, outbox, backlog>>, From' = Base',
         inbox' = Snapshot
  PROVE  Sheltered'
<1> SUFFICES ASSUME socket' = "open"
             PROVE  \E q \in Seq(FrameType) : q = inbox' \o (outbox' \o backlog') /\ Safe(q)'
  BY DEF Sheltered
<1>0. LagTyped /\ LagIs /\ LagIs' /\ ReaderCatches'
  BY BothSides DEF LagInv
<1>1. View' = View /\ Base' = Base
  BY DEF roomVars, View, Base
<1>2. PICK i, t, w : i = Snapshot /\ t = outbox \o backlog /\ w = View
  OBVIOUS
<1>3. i \in Seq(FrameType) /\ t \in Seq(FrameType)
  BY <1>0, <1>2, Rejoined DEF LagIs
<1>4. PICK x \in FrameType : Catches((<<x>> \o i) \o t, w.base, w)
  BY <1>0, <1>1, <1>2 DEF ReaderCatches, LagIs
<1>5. Safe(i \o t)
  BY <1>0, <1>2, <1>3, <1>4, OpensSafe
<1>6. PICK q : q = i \o t
  OBVIOUS
<1>7. q \in Seq(FrameType) /\ Safe(q)'
  BY <1>3, <1>5, <1>6, SameUnsealed, Rejoined
<1> QED
  BY <1>2, <1>6, <1>7

(* A reader that handles a frame and was not warned is shown nothing that  *)
(* it should not be, and what is to come stays safe.                       *)
LEMMA HandledStale ==
  ASSUME LagTyped, LagIs, StaleInv, ~HasKey, UNCHANGED <<outbox, backlog>> \/ socket' # "open",
         NEW kind, Receives(kind)
  PROVE  /\ Head(inbox) \in FrameType /\ Head(inbox).kind = kind
         /\ ~Warned => All(Head(inbox).recs, Unsealed)
         /\ (Warned => Warned') /\ (Warns(Head(inbox)) => Warned') => Sheltered'
<1>1. inbox \in Seq(FrameType) /\ inbox # <<>> /\ inbox' = Tail(inbox) /\ socket = "open"
      /\ UNCHANGED roomVars /\ outbox \in Seq(FrameType) /\ backlog \in Seq(FrameType)
  BY DEF LagIs, Receives
<1>2. Head(inbox) \in FrameType /\ Tail(inbox) \in Seq(FrameType)
  BY <1>1
<1>3. PICK i, t : i = inbox /\ t = outbox \o backlog
  OBVIOUS
<1>4. i \in Seq(FrameType) /\ t \in Seq(FrameType) /\ i # <<>>
  BY <1>1, <1>3, Rejoined
<1>5. ASSUME ~Warned PROVE Head(i) \notin Hiding /\ (~Warns(Head(i)) => Safe(Tail(i) \o t))
  <2>1. Safe(i \o t)
    BY <1>1, <1>3, <1>5 DEF StaleInv, Sheltered
  <2> QED
    BY <1>4, <2>1, SafeTail
<1>6. ASSUME Warned => Warned', Warns(Head(inbox)) => Warned' PROVE Sheltered'
  <2> SUFFICES ASSUME socket' = "open", ~Warned'
               PROVE  \E q \in Seq(FrameType) : q = inbox' \o (outbox' \o backlog') /\ Safe(q)'
    BY DEF Sheltered
  <2>1. ~Warned /\ ~Warns(Head(i))
    BY <1>3, <1>6
  <2>2. PICK q : q = Tail(i) \o t
    OBVIOUS
  <2>3. Safe(q)'
    BY <1>1, <1>5, <2>1, <2>2, SameUnsealed
  <2>4. q \in Seq(FrameType)
    <3>1. PICK r : r = Tail(i)
      OBVIOUS
    <3>2. r \in Seq(FrameType)
      BY <1>2, <1>3, <3>1
    <3> QED
      BY <1>4, <2>2, <3>1, <3>2, Rejoined
  <2>5. q = inbox' \o (outbox' \o backlog')
    BY <1>1, <1>3, <2>2
  <2> QED
    BY <2>3, <2>4, <2>5
<1>7. ~Warned => All(Head(inbox).recs, Unsealed)
  BY <1>2, <1>3, <1>5 DEF Hiding
<1> QED
  BY <1>2, <1>6, <1>7 DEF Receives

(* The page keeps its output so.                                           *)
LEMMA PageStale ==
  ASSUME LagInv, LagInv', StaleInv, ~HasKey, Steps, Page
  PROVE  OutputUnsealed' /\ Sheltered'
<1>0. /\ OutputUnsealed /\ key # "good" /\ buf' = buf /\ printed' = printed
      /\ reader = "page" /\ reader' = "page" /\ PageNext /\ LagTyped /\ LagIs
      /\ TypeOK /\ \A e \in DOMAIN chains : chains[e] = <<>>
  <2>1. OutputUnsealed
    BY DEF StaleInv
  <2>2. \A e \in DOMAIN chains : chains[e] = <<>>
    BY <2>1 DEF OutputUnsealed
  <2> QED
    BY <2>1, <2>2, LagParts DEF HasKey, Page, agentVars, LagInv, LagTyped
<1>1. /\ UNCHANGED <<roomVars, key, reader, backlog>>
      /\ socket' = "open" => outbox' = outbox
  BY StepsConnect
<1>2. PICK S : S = Unsealed
  OBVIOUS
<1>4. Unsealed' = S /\ All(screen, S) /\ All(pendingWrites, S) /\ All(printed', S) /\ All(<<>>, S)
      /\ printed' \in Seq(Record) /\ screen \in Seq(Record) /\ pendingWrites \in Seq(Record)
      /\ chains \in Seq({<<>>}) /\ buf' = <<>>
  BY <1>0, <1>1, <1>2, SameUnsealed, InOne DEF OutputUnsealed
<1>5. ASSUME UNCHANGED screenVars PROVE OutputUnsealed'
  BY <1>4, <1>5 DEF screenVars, OutputUnsealed
<1>6. ASSUME ClearScreen PROVE OutputUnsealed'
  <2>1. chains' = Append(chains, <<>>) /\ pendingWrites' = <<>> /\ screen' = <<>>
    BY <1>6 DEF ClearScreen
  <2>2. chains' \in Seq({<<>>}) /\ <<>> \in Seq(Record)
    BY <1>4, <2>1
  <2> QED
    BY <1>4, <2>1, <2>2 DEF OutputUnsealed
<1>7. CASE TerminalCreated
  <2>1. UNCHANGED <<chains, key, encryptedWithoutKey, inbox, socket>>
        /\ screen' = pendingWrites /\ pendingWrites' = <<>>
    BY <1>7 DEF TerminalCreated, feedVars, verdictVars
  <2>2. OutputUnsealed'
    <3>1. <<>> \in Seq(Record)
      OBVIOUS
    <3> QED
      BY <1>4, <2>1, <3>1 DEF OutputUnsealed
  <2>3. Sheltered'
    <3> SUFFICES ASSUME socket' = "open", ~Warned'
                 PROVE  \E q \in Seq(FrameType) : q = inbox' \o (outbox' \o backlog') /\ Safe(q)'
      BY DEF Sheltered
    <3>1. socket = "open" /\ ~Warned /\ Sheltered
      BY <1>0, <2>1 DEF Warned, StaleInv
    <3>2. PICK q \in Seq(FrameType) : q = inbox \o (outbox \o backlog) /\ Safe(q)
      BY <3>1 DEF Sheltered
    <3> QED
      BY <1>1, <2>1, <3>2, SameUnsealed
  <2> QED
    BY <2>2, <2>3
<1>8. CASE \E e \in DOMAIN chains : Decrypted(e)
  BY <1>0, <1>8 DEF Decrypted
<1>9. CASE PageOpens
  <2>1. OutputUnsealed'
    BY <1>5, <1>6, <1>9 DEF PageOpens
  <2>2. Sheltered'
    <3>1. From' = Base' /\ inbox' = Snapshot
      BY <1>9, OpensCatches
    <3>2. UNCHANGED <<outbox, backlog>>
      BY <1>1, <1>9 DEF PageOpens, Connected
    <3> QED
      BY <1>1, <3>1, <3>2, OpensSheltered
  <2> QED
    BY <2>1, <2>2
<1>10. CASE PageCloses \/ PageReconnects
  <2>1. socket' # "open" /\ UNCHANGED screenVars
    BY <1>10 DEF PageCloses, PageReconnects, Broken, pageVars
  <2> QED
    BY <1>5, <2>1 DEF Sheltered
<1>11. CASE PageMessage
  <2>1. PICK kind \in {"size", "bytes", "count", "reset", "online", "offline"} : Receives(kind)
    BY <1>11 DEF PageMessage
  <2>2. PICK f : f = Head(inbox)
    OBVIOUS
  <2>3. /\ f \in FrameType /\ f.kind = kind /\ (~Warned => All(f.recs, S))
        /\ (Warned => Warned') /\ (Warns(f) => Warned') => Sheltered'
    <3>1. UNCHANGED <<outbox, backlog>> \/ socket' # "open"
      BY <1>1
    <3> QED
      BY <1>0, <1>2, <2>1, <2>2, <3>1, HandledStale
  <2>4. CASE kind = "size"
    <3>1. ReceiveSize
      BY <1>11, <2>1, <2>4 DEF PageMessage, Receives
    <3>2. (Warned => Warned') /\ (Warns(f) => Warned')
      <4>1. key \in {"none", "unusable"}
        BY <1>0, FeedKinds DEF LagTyped, RoomInv, FeedTypeOK
      <4> QED
        BY <1>0, <1>1, <2>2, <3>1, <4>1 DEF ReceiveSize, Warned, Warns
    <3> QED
      BY <1>5, <2>3, <3>1, <3>2 DEF ReceiveSize
  <2>5. CASE kind = "bytes"
    <3>1. ReceiveBytes /\ f.recs \in Seq(Record) /\ f.kind = "bytes"
      BY <1>11, <2>1, <2>3, <2>5 DEF PageMessage, Receives, FrameType
    <3>2. (Warned => Warned') /\ ~Warns(f)
      BY <1>0, <1>1, <3>1 DEF ReceiveBytes, Warned, Warns, verdictVars
    <3>3. chains' = chains
      BY <1>0, <3>1 DEF ReceiveBytes, Write
    <3>4. OutputUnsealed'
      <4>1. CASE key = "none" /\ ~encryptedWithoutKey
        <5>1. All(f.recs, S)
          BY <1>0, <2>3, <4>1 DEF Warned
        <5>2. Write(f.recs)
          BY <2>2, <3>1, <4>1 DEF ReceiveBytes
        <5>3. ASSUME NEW q \in Seq(Record), All(q, S) PROVE q \o f.recs \in Seq(Record) /\ All(q \o f.recs, S)
          BY <3>1, <5>1, <5>3, InTwoParts, ConcatProperties
        <5>4. \/ screen' = screen \o f.recs /\ pendingWrites' = pendingWrites
              \/ pendingWrites' = pendingWrites \o f.recs /\ screen' = screen
          BY <5>2 DEF Write
        <5>5. /\ screen' \in Seq(Record) /\ All(screen', S)
              /\ pendingWrites' \in Seq(Record) /\ All(pendingWrites', S)
          BY <1>4, <5>3, <5>4
        <5> QED
          BY <1>4, <3>3, <5>5 DEF OutputUnsealed
      <4>2. CASE ~(key = "none" /\ ~encryptedWithoutKey)
        <5>1. UNCHANGED <<screen, pendingWrites>>
          BY <1>0, <3>1, <4>2 DEF ReceiveBytes
        <5> QED
          BY <1>4, <3>3, <5>1 DEF OutputUnsealed
      <4> QED
        BY <4>1, <4>2
    <3> QED
      BY <2>3, <3>2, <3>4
  <2>6. CASE kind \in {"count", "online", "offline"}
    <3>1. UNCHANGED <<screenVars, verdictVars>>
      BY <1>11, <2>1, <2>6 DEF PageMessage, Receives, ReceiveCount, ReceiveStatus
    <3>2. (Warned => Warned') /\ ~Warns(f)
      BY <1>0, <1>1, <2>3, <2>6, <3>1 DEF Warned, Warns, verdictVars
    <3> QED
      BY <1>5, <2>3, <3>1, <3>2
  <2>7. CASE kind = "reset"
    <3>1. ClearScreen /\ UNCHANGED verdictVars
      BY <1>11, <2>1, <2>7 DEF PageMessage, Receives, ReceiveReset
    <3>2. (Warned => Warned') /\ ~Warns(f)
      BY <1>0, <1>1, <2>3, <2>7, <3>1 DEF Warned, Warns, verdictVars
    <3> QED
      BY <1>6, <2>3, <3>1, <3>2
  <2> QED
    BY <2>1, <2>4, <2>5, <2>6, <2>7
<1> QED
  BY <1>0, <1>7, <1>8, <1>9, <1>10, <1>11 DEF PageNext

(* So does the follower, which stops at a warning.                         *)
LEMMA AgentStale ==
  ASSUME LagInv, LagInv', StaleInv, ~HasKey, Steps, Agent
  PROVE  OutputUnsealed' /\ Sheltered'
<1>0. /\ OutputUnsealed /\ reader = "agent" /\ reader' = "agent" /\ AgentNext /\ LagTyped /\ LagIs
      /\ UNCHANGED <<screen, pendingWrites, chains>> /\ mode = "follow"
  BY LagParts DEF StaleInv, Agent, pageVars, screenVars, LagInv, LagTyped, Queues
<1>1. /\ UNCHANGED <<roomVars, key, reader, mode, backlog>>
      /\ socket' = "open" => outbox' = outbox
  BY StepsConnect
<1>2. PICK S : S = Unsealed
  OBVIOUS
<1>3. /\ Unsealed' = S /\ All(screen, S) /\ All(pendingWrites, S) /\ All(printed, S)
      /\ screen' \in Seq(Record) /\ pendingWrites' \in Seq(Record) /\ printed \in Seq(Record)
      /\ chains' \in Seq({<<>>}) /\ buf = <<>>
  BY <1>0, <1>1, <1>2, SameUnsealed DEF OutputUnsealed
<1>4. ASSUME UNCHANGED <<printed, buf>> PROVE OutputUnsealed'
  BY <1>0, <1>3, <1>4 DEF OutputUnsealed
<1>5. CASE Reads
  BY <1>0, <1>5 DEF Reads
<1>6. CASE FollowOpens
  <2>1. From' = Base' /\ inbox' = Snapshot
    BY <1>6, OpensCatches
  <2>2. UNCHANGED <<outbox, backlog, printed, buf>>
    BY <1>1, <1>6 DEF FollowOpens, Connected
  <2> QED
    BY <1>1, <1>4, <2>1, <2>2, OpensSheltered
<1>7. CASE TimerFires \/ Cut
  <2>1. socket' = "closed" /\ UNCHANGED <<buf, printed>>
    BY <1>7 DEF TimerFires, Cut, Broken
  <2> QED
    BY <1>4, <2>1 DEF Sheltered
<1>8. CASE FollowMessage
  <2>1. PICK kind \in {"size", "bytes", "count", "reset", "online", "offline"} : Hears(kind)
    BY <1>8 DEF FollowMessage, FollowSize, FollowCount, FollowOnline, FollowOffline,
                FollowBytes, FollowReset
  <2>2. PICK f : f = Head(inbox)
    OBVIOUS
  <2>3. /\ f \in FrameType /\ f.kind = kind /\ All(f.recs, S)
        /\ Receives(kind) /\ ~Warned
        /\ (Warns(f) => Warned') => Sheltered'
    <3>1. UNCHANGED <<outbox, backlog>> \/ socket' # "open"
      BY <1>1
    <3>2. Receives(kind) /\ ~Warned
      BY <1>0, <2>1 DEF Hears, Warned
    <3> QED
      BY <1>0, <1>2, <2>2, <3>1, <3>2, HandledStale
  <2>4. Warns(f) => Warned'
    <3>1. ASSUME Warns(f) PROVE FollowSize
      BY <1>8, <2>2, <2>3, <3>1 DEF Warns, FollowMessage, FollowCount, FollowOnline, FollowOffline,
                              FollowBytes, FollowReset, Hears, Receives
    <3> QED
      BY <1>0, <2>2, <3>1 DEF FollowSize, Stops, Warned, Warns
  <2>5. OutputUnsealed'
    <3>1. CASE FollowBytes
      <4>1. f.recs \in Seq(Record)
        BY <2>3 DEF FrameType
      <4>2. PICK r : r = f.recs
        OBVIOUS
      <4>3. r \in Seq(Record) /\ All(r, S) /\ <<>> \o r = r /\ Whole(r) = r /\ Rest(r) = <<>>
        BY <2>3, <4>1, <4>2, DecodedAsIs, ConcatEmptySeq
      <4>4. buf' = <<>> /\ printed' \in {printed, printed \o r}
        <5>1. \/ buf' = buf /\ printed' = printed
              \/ /\ printed' = printed \o Whole(buf \o r)
                 /\ buf' = Rest(buf \o r)
          BY <2>2, <3>1, <4>2 DEF FollowBytes
        <5> QED
          BY <1>3, <4>3, <5>1
      <4>5. printed \o r \in Seq(Record) /\ All(printed \o r, S)
        BY <1>3, <4>3, InTwoParts, ConcatProperties
      <4>6. printed' \in Seq(Record) /\ All(printed', S)
        BY <1>3, <4>4, <4>5
      <4> QED
        BY <1>0, <1>3, <4>4, <4>6 DEF OutputUnsealed
    <3>2. CASE ~FollowBytes
      <4>1. UNCHANGED <<printed, buf>>
        BY <1>8, <3>2 DEF FollowMessage, FollowSize, FollowCount, FollowOnline,
                          FollowOffline, FollowReset, agentVars
      <4> QED
        BY <1>4, <4>1
    <3> QED
      BY <3>1, <3>2
  <2> QED
    BY <2>3, <2>4, <2>5
<1> QED
  BY <1>0, <1>5, <1>6, <1>7, <1>8 DEF AgentNext

(* Every step keeps it.                                                    *)
LEMMA LagNextStale ==
  ASSUME LagInv, LagInv', StaleInv, [LagNext]_lagVars
  PROVE  StaleInv'
<1>1. CASE Announces
  BY <1>1, AnnouncesStale
<1>2. CASE Publishes
  BY <1>2, PublishesStale
<1>3. CASE FansOut \/ Registers \/ Relays
  BY <1>3, PassesStale
<1>4. CASE Steps
  <2> SUFFICES ASSUME ~HasKey' PROVE OutputUnsealed' /\ Sheltered'
    BY DEF StaleInv
  <2>1. ~HasKey
    BY <1>4, StepsConnect DEF HasKey
  <2> QED
    BY <1>4, <2>1, PageStale, AgentStale DEF Steps
<1>5. CASE UNCHANGED lagVars
  <2>1. /\ UNCHANGED <<roomVars, pageVars, agentVars, reader>>
        /\ UNCHANGED <<key, socket, inbox, outbox, backlog>>
    BY <1>5 DEF lagVars, vars, feedVars
  <2>2. Unsealed' = Unsealed /\ \A q : Safe(q) => Safe(q)'
    BY <2>1, SameUnsealed
  <2>3. OutputUnsealed => OutputUnsealed'
    BY <2>1, <2>2, OutputStill
  <2>4. Warned' = Warned /\ HasKey' = HasKey
    BY <2>1 DEF Warned, HasKey, pageVars, verdictVars, agentVars
  <2>5. Sheltered => Sheltered'
    BY <2>1, <2>2, <2>4 DEF Sheltered
  <2> QED
    BY <2>3, <2>4, <2>5 DEF StaleInv
<1> QED
  BY <1>1, <1>2, <1>3, <1>4, <1>5 DEF LagNext

(* Ciphertext that a reader without a key is shown is of a session whose   *)
(* output was overtaken by the reset that ended it: no record the history  *)
(* still has (server/viewers.rs, publish_control and join; room.js, onSize *)
(* and onMessage; agent.mjs, mismatch).                                    *)
THEOREM StaleCiphertext == LagSpec => []CiphertextIsStale
<1>1. LagInit => StaleInv
  <2> SUFFICES ASSUME LagInit PROVE StaleInv
    OBVIOUS
  <2>1. socket = "connecting"
    BY DEF LagInit, Init, FeedInit
  <2>2. OutputUnsealed
    <3>1. /\ screen = <<>> /\ pendingWrites = <<>> /\ printed = <<>> /\ buf = <<>>
          /\ chains = << <<>> >> /\ <<>> \in Seq(Record)
      BY DEF LagInit, Init, PageInit, AgentInit
    <3>2. \A S : All(<<>>, S)
      BY InOne
    <3>3. chains \in Seq({<<>>})
      BY <3>1
    <3> QED
      BY <3>1, <3>2, <3>3 DEF OutputUnsealed
  <2> QED
    BY <2>1, <2>2 DEF StaleInv, Sheltered
<1>2. LagInv /\ LagInv' /\ StaleInv /\ [LagNext]_lagVars => StaleInv'
  BY LagNextStale
<1>3. LagInv /\ StaleInv => CiphertextIsStale
  <2> SUFFICES ASSUME LagInv, OutputUnsealed, NEW r \in ToSet(screen \o pendingWrites \o printed),
                      r \in ToSet(stored)
               PROVE  r.seal = "plain"
    BY DEF StaleInv, CiphertextIsStale
  <2>1. LagIs
    BY LagParts DEF LagInv
  <2>2. PICK s, p, t : s = screen /\ p = pendingWrites /\ t = printed
    OBVIOUS
  <2>3. /\ s \in Seq(Record) /\ p \in Seq(Record) /\ t \in Seq(Record)
        /\ All(s, Unsealed) /\ All(p, Unsealed) /\ All(t, Unsealed)
    BY <2>2 DEF OutputUnsealed
  <2>4. PICK sp : sp = s \o p
    OBVIOUS
  <2>5. sp \in Seq(Record) /\ All(sp, Unsealed)
    BY <2>3, <2>4, InTwoParts, ConcatProperties
  <2>6. sp \o t \in Seq(Record) /\ All(sp \o t, Unsealed)
    BY <2>3, <2>5, InTwoParts, ConcatProperties
  <2>7. r \in Unsealed
    BY <2>2, <2>4, <2>6 DEF All, ToSet
  <2>8. r.n > Base
    <3>1. PICK N \in Nat : N = Len(stored) /\ Base = made - N /\ \A i \in 1 .. N : stored[i].n = (made - N) + i
      BY <2>1 DEF LagIs, History
    <3>2. PICK i \in 1 .. N : r = stored[i]
      <4>1. stored \in Seq(Record)
        BY <2>1 DEF LagIs, History
      <4>2. DOMAIN stored = 1 .. N
        BY <3>1, <4>1
      <4> QED
        BY <4>2 DEF ToSet
    <3>3. r.n = Base + i /\ Base \in Nat
      BY <2>1, <3>1, <3>2 DEF LagIs
    <3> QED
      BY <3>3
  <2> QED
    BY <2>7, <2>8 DEF Unsealed
<1> QED
  BY <1>1, <1>2, <1>3, AlwaysCatches, PTL DEF LagSpec
=============================================================================
