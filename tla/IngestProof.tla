---------------------------- MODULE IngestProof ----------------------------
(* Theorems about Ingest, for any number of connections and passwords, any *)
(* mix of frames, any timeouts, deletes, evictions and dying tasks.        *)
EXTENDS Ingest, FiniteSetTheorems, TLAPS

-----------------------------------------------------------------------------
(* The operations of Rooms yield rooms.                                    *)

(* A room's age is bounded by a natural number.                            *)
LEMMA StaleType == Stale \in Nat /\ Stale > 0
BY TimesTyped DEF Stale

(* What an update of an entry leaves: a Room, with the fields it names.    *)
LEMMA Updates ==
  ASSUME NEW r \in Room
  PROVE  /\ Refreshed(r) \in Room
         /\ Refreshed(r).password = r.password
         /\ Refreshed(r).broadcasters = r.broadcasters
         /\ Refreshed(r).live = r.live
         /\ \A h \in BOOLEAN : LET q == [r EXCEPT !.hist = h]
                               IN  /\ q \in Room
                                   /\ q.password = r.password
                                   /\ q.broadcasters = r.broadcasters
                                   /\ q.live = r.live
         /\ \A n \in Nat, l \in BOOLEAN :
              /\ Counting(r, n, l) \in Room
              /\ Counting(r, n, l).password = r.password
              /\ Counting(r, n, l).broadcasters = n
              /\ Counting(r, n, l).live = l
         /\ \A size, message \in BOOLEAN :
              /\ Filled(r, size, message) \in Room
              /\ Filled(r, size, message).password = r.password
              /\ Filled(r, size, message).broadcasters = r.broadcasters
              /\ Filled(r, size, message).live = r.live
<1>1. /\ Refreshed(r) \in Room
      /\ Refreshed(r).password = r.password
      /\ Refreshed(r).broadcasters = r.broadcasters
      /\ Refreshed(r).live = r.live
  BY StaleType DEF Room, Refreshed
<1>2. ASSUME NEW h \in BOOLEAN
      PROVE  LET q == [r EXCEPT !.hist = h]
             IN  /\ q \in Room
                 /\ q.password = r.password
                 /\ q.broadcasters = r.broadcasters
                 /\ q.live = r.live
  BY DEF Room
<1>3. ASSUME NEW n \in Nat, NEW l \in BOOLEAN
      PROVE  /\ Counting(r, n, l) \in Room
             /\ Counting(r, n, l).password = r.password
             /\ Counting(r, n, l).broadcasters = n
             /\ Counting(r, n, l).live = l
  BY DEF Room, Counting
<1>4. ASSUME NEW size \in BOOLEAN, NEW message \in BOOLEAN
      PROVE  /\ Filled(r, size, message) \in Room
             /\ Filled(r, size, message).password = r.password
             /\ Filled(r, size, message).broadcasters = r.broadcasters
             /\ Filled(r, size, message).live = r.live
  <2>1. (r.size \/ size) \in BOOLEAN /\ (r.hist \/ message) \in BOOLEAN
    OBVIOUS
  <2> QED
    BY <2>1 DEF Room, Filled
<1> QED
  BY <1>1, <1>2, <1>3, <1>4

(* The entry append leaves: the caller's when there was none, with no      *)
(* broadcaster; otherwise the old one, its claim and count untouched.      *)
LEMMA AppendedRoom ==
  ASSUME room \in Room \cup {NoRoom}, NEW s \in Secrets,
         NEW size \in BOOLEAN, NEW message \in BOOLEAN
  PROVE  /\ Appended(s, size, message) \in Room
         /\ room = NoRoom => /\ Appended(s, size, message).password = s
                             /\ Appended(s, size, message).broadcasters = 0
                             /\ Appended(s, size, message).live = FALSE
         /\ room # NoRoom => /\ Appended(s, size, message).password = room.password
                             /\ Appended(s, size, message).broadcasters = room.broadcasters
                             /\ Appended(s, size, message).live = room.live
<1> DEFINE entry == IF room = NoRoom THEN NewRoom(s) ELSE room
<1>1. /\ NewRoom(s) \in Room /\ NewRoom(s).password = s
      /\ NewRoom(s).broadcasters = 0 /\ NewRoom(s).live = FALSE
  BY StaleType DEF NewRoom, Room
<1>2. entry \in Room
  BY <1>1
<1>3. Appended(s, size, message) = Refreshed(Filled(entry, size, message))
  BY DEF Appended
<1> HIDE DEF entry
<1>4. /\ Appended(s, size, message) \in Room
      /\ Appended(s, size, message).password = entry.password
      /\ Appended(s, size, message).broadcasters = entry.broadcasters
      /\ Appended(s, size, message).live = entry.live
  <2> DEFINE filled == Filled(entry, size, message)
  <2>1. /\ filled \in Room
        /\ filled.password = entry.password
        /\ filled.broadcasters = entry.broadcasters
        /\ filled.live = entry.live
    BY <1>2, Updates
  <2> HIDE DEF filled
  <2>2. Appended(s, size, message) = Refreshed(filled)
    BY <1>3 DEF filled
  <2>3. /\ Refreshed(filled) \in Room
        /\ Refreshed(filled).password = filled.password
        /\ Refreshed(filled).broadcasters = filled.broadcasters
        /\ Refreshed(filled).live = filled.live
    BY <2>1, Updates
  <2> QED
    BY <2>1, <2>2, <2>3
<1> QED
  BY <1>1, <1>4 DEF entry

(* The entry reset leaves: the same claim and count.                       *)
LEMMA ResetRoom ==
  ASSUME room \in Room
  PROVE  /\ Reset \in Room
         /\ Reset.password = room.password
         /\ Reset.broadcasters = room.broadcasters
         /\ Reset.live = room.live
<1> DEFINE cleared == [room EXCEPT !.hist = FALSE]
<1>1. /\ cleared \in Room
      /\ cleared.password = room.password
      /\ cleared.broadcasters = room.broadcasters
      /\ cleared.live = room.live
  BY Updates
<1>2. Reset = room \/ Reset = Refreshed(cleared)
  BY DEF Reset
<1> HIDE DEF cleared
<1> QED
  BY <1>1, <1>2, Updates

(* broadcaster_connected and broadcaster_disconnected: nothing on a missing *)
(* or foreign room, otherwise one more, or one less but never below zero.  *)
LEMMA CountedRoom ==
  ASSUME room \in Room, NEW s \in Secrets
  PROVE  /\ Connect(s) \in Room /\ Disconnect(s) \in Room
         /\ Connect(s).password = room.password
         /\ Disconnect(s).password = room.password
         /\ room.password # s => Connect(s) = room /\ Disconnect(s) = room
         /\ room.password = s =>
              /\ Connect(s).broadcasters = room.broadcasters + 1
              /\ Connect(s).live = (room.live \/ room.broadcasters = 0)
              /\ Disconnect(s).broadcasters = Less1(room.broadcasters)
              /\ Disconnect(s).live = (room.live /\ room.broadcasters > 1)
<1>1. room # NoRoom /\ room.broadcasters \in Nat /\ room.live \in BOOLEAN
  BY NoRoomFresh DEF Room
<1>2. Less1(room.broadcasters) \in Nat
  BY <1>1 DEF Less1
<1>3. (room.live \/ room.broadcasters = 0) \in BOOLEAN
      /\ (room.live /\ room.broadcasters > 1) \in BOOLEAN
  OBVIOUS
<1>4. CASE room.password # s
  BY <1>1, <1>4 DEF Connect, Disconnect, CountAfterConnect
<1>5. CASE room.password = s
  <2>1. Connect(s) = Counting(room, room.broadcasters + 1, room.live \/ room.broadcasters = 0)
    BY <1>1, <1>5 DEF Connect, CountAfterConnect
  <2>2. Disconnect(s) = Counting(room, Less1(room.broadcasters), room.live /\ room.broadcasters > 1)
    BY <1>1, <1>5 DEF Disconnect
  <2>3. room.broadcasters + 1 \in Nat
    BY <1>1
  <2> DEFINE up == (room.live \/ room.broadcasters = 0)
             down == (room.live /\ room.broadcasters > 1)
  <2> HIDE DEF up, down
  <2>4. Connect(s) = Counting(room, room.broadcasters + 1, up) /\ up \in BOOLEAN
    BY <1>3, <2>1 DEF up
  <2>5. Disconnect(s) = Counting(room, Less1(room.broadcasters), down) /\ down \in BOOLEAN
    BY <1>3, <2>2 DEF down
  <2>6. /\ Connect(s) \in Room /\ Connect(s).password = room.password
        /\ Connect(s).broadcasters = room.broadcasters + 1 /\ Connect(s).live = up
    BY <2>3, <2>4, Updates
  <2>7. /\ Disconnect(s) \in Room /\ Disconnect(s).password = room.password
        /\ Disconnect(s).broadcasters = Less1(room.broadcasters) /\ Disconnect(s).live = down
    BY <1>2, <2>5, Updates, SMTT(30)
  <2> QED
    BY <1>5, <2>6, <2>7 DEF up, down
<1> QED
  BY <1>4, <1>5

(* On a missing room they do nothing.                                      *)
LEMMA CountedNoRoom ==
  ASSUME room = NoRoom, NEW s
  PROVE  Connect(s) = NoRoom /\ Disconnect(s) = NoRoom /\ Reset = NoRoom
BY DEF Connect, Disconnect, CountAfterConnect, Reset

(* The operations of Rooms return rooms.                                   *)
LEMMA RoomOps ==
  ASSUME room \in Room \cup {NoRoom}, NEW s \in Secrets
  PROVE  /\ \A size, message \in BOOLEAN : Appended(s, size, message) \in Room
         /\ Reset \in Room \cup {NoRoom}
         /\ Connect(s) \in Room \cup {NoRoom}
         /\ Disconnect(s) \in Room \cup {NoRoom}
BY AppendedRoom, ResetRoom, CountedRoom, CountedNoRoom

(* The password a connection presents is one of the passwords.             *)
LEMMA SecretType == \A c \in Conns : SecretOf[c] \in Secrets
BY SecretsTyped

-----------------------------------------------------------------------------
(* Type correctness.                                                       *)

(* The types are kept, timers aside; they are seen to after that.          *)

(* A step of a server task keeps the types.                                *)
LEMMA ServerStepType ==
  ASSUME TypeOK, NEW c \in Conns, ServerStep(c)
  PROVE  InTime' => TypeOK'
<1> USE SecretType
<1>1. CASE UpgradeFails(c)
  BY <1>1 DEF UpgradeFails, Goto, Rearm, TypeOK, PCs
<1>2. CASE Attach(c)
  BY <1>2, RoomOps DEF Attach, Goto, Rearm, TypeOK, PCs, Attached
<1>3. CASE Announce(c)
  BY <1>3 DEF Announce, Goto, TypeOK, PCs, Attached
<1>4. CASE ReceiveTimesOut(c)
  BY <1>4 DEF ReceiveTimesOut, Goto, Rearm, TypeOK, PCs, Attached
<1>5. CASE AckSent(c)
  BY <1>5 DEF AckSent, Goto, Rearm, TypeOK, PCs, Attached
<1>6. CASE AckFails(c)
  BY <1>6 DEF AckFails, Goto, Rearm, TypeOK, PCs, Attached
<1>7. CASE Detach(c)
  BY <1>7, RoomOps DEF Detach, Goto, TypeOK, PCs
<1>8. CASE AnnounceOff(c)
  <2>1. opened' \in Int
    BY <1>8 DEF AnnounceOff, TypeOK
  <2> QED
    BY <1>8, <2>1 DEF AnnounceOff, Goto, TypeOK, PCs
<1> QED
  BY <1>1, <1>2, <1>3, <1>4, <1>5, <1>6, <1>7, <1>8 DEF ServerStep

(* A delete keeps the types of what it touches.                            *)
LEMMA DeleteType ==
  ASSUME TypeOK, NEW s, Delete(s)
  PROVE  room' \in Room \cup {NoRoom} /\ opened' \in Int /\ vanished' \in BOOLEAN
<1>1. room' \in Room \cup {NoRoom}
  BY DEF Delete, TypeOK
<1>2. opened' \in Int
  BY DEF Delete, TypeOK
<1>3. vanished' \in BOOLEAN
  BY DEF Delete, TypeOK
<1> QED
  BY <1>1, <1>2, <1>3

(* A frame, a handshake or a vanishing peer keeps the types.               *)
LEMMA ClientStepType ==
  ASSUME TypeOK, NEW c \in Conns, ClientStep(c)
  PROVE  InTime' => TypeOK'
<1> USE SecretType
<1>1. CASE Handshake(c)
  BY <1>1, RoomOps DEF Handshake, Goto, TypeOK, PCs
<1>2. CASE PeerVanishes(c)
  BY <1>2 DEF PeerVanishes, TypeOK
<1>3. ASSUME NEW f, Receives(c, f)
      PROVE  stage' \in [Conns -> {"new", "greeted", "sized"}] /\ UNCHANGED <<gone, announced, lost>>
  BY <1>3 DEF Receives, TypeOK
<1>4. ASSUME NEW size \in BOOLEAN, NEW message \in BOOLEAN, NEW to \in PCs,
             Store(c, size, message, to)
      PROVE  /\ room' \in Room \cup {NoRoom}
             /\ pc' \in [Conns -> PCs]
             /\ silent' \in [Conns -> Nat]
             /\ UNCHANGED <<opened, vanished>>
  BY <1>4, RoomOps DEF Store, Goto, Rearm, TypeOK, PCs, Attached
<1>5. CASE ReceiveData(c)
  BY <1>3, <1>4, <1>5 DEF ReceiveData, TypeOK, PCs, Attached
<1>6. CASE ReceiveSize(c)
  BY <1>3, <1>4, <1>6 DEF ReceiveSize, TypeOK, PCs, Attached
<1>7. CASE ReceiveAlive(c)
  BY <1>3, <1>4, <1>7 DEF ReceiveAlive, TypeOK, PCs, Attached
<1>8. CASE ReceiveReset(c)
  BY <1>3, <1>8, RoomOps DEF ReceiveReset, Goto, Rearm, TypeOK, PCs, Attached
<1>9. CASE ReceiveDelete(c)
  <2>1. room' \in Room \cup {NoRoom} /\ opened' \in Int /\ vanished' \in BOOLEAN
    BY <1>9, DeleteType DEF ReceiveDelete
  <2> QED
    BY <1>3, <1>9, <2>1 DEF ReceiveDelete, Goto, Rearm, TypeOK, PCs, Attached
<1>10. CASE ReceiveEnd(c)
  BY <1>3, <1>10 DEF ReceiveEnd, Goto, Rearm, TypeOK, PCs, Attached
<1> QED
  BY <1>1, <1>2, <1>5, <1>6, <1>7, <1>8, <1>9, <1>10 DEF ClientStep

(* Every step keeps the types.                                             *)
LEMMA NextTypeInTime ==
  ASSUME TypeOK, [Next]_vars
  PROVE  InTime' => TypeOK'
<1>1. ASSUME NEW c \in Conns, ServerStep(c) PROVE InTime' => TypeOK'
  BY <1>1, ServerStepType
<1>2. ASSUME NEW c \in Conns, ClientStep(c) PROVE InTime' => TypeOK'
  BY <1>2, ClientStepType
<1>3. ASSUME NEW c \in Conns, TaskDies(c) PROVE InTime' => TypeOK'
  BY <1>3 DEF TaskDies, Goto, Rearm, TypeOK, PCs, Attached
<1>4. ASSUME NEW s \in Deleters, HttpDelete(s) PROVE InTime' => TypeOK'
  BY <1>4, DeleteType DEF HttpDelete, TypeOK
<1>5. CASE Evict
  BY <1>5 DEF Evict, TypeOK
<1>6. CASE Tick
  <2>1. room' \in Room \cup {NoRoom}
    BY <1>6, StaleType DEF Tick, TypeOK, Room
  <2>2. silent' \in [Conns -> Nat]
    BY <1>6 DEF Tick, TypeOK
  <2> QED
    BY <1>6, <2>1, <2>2 DEF Tick, TypeOK
<1>7. CASE UNCHANGED vars
  BY <1>7 DEF vars, TypeOK
<1> QED
  BY <1>1, <1>2, <1>3, <1>4, <1>5, <1>6, <1>7 DEF Next

(* A wait that starts, and a task that did not wait, are in time.          *)
LEMMA MovesInTime ==
  ASSUME TypeOK, NEW c \in Conns, NEW to,
         UNCHANGED pc \/ pc' = [pc EXCEPT ![c] = to],
         \/ silent' = [silent EXCEPT ![c] = 0]
         \/ silent' = silent /\ (pc' = pc \/ Limit(pc[c]) = 0)
  PROVE  InTime'
<1>1. \A at : Limit(at) \in Nat
  BY TimesTyped DEF Limit
<1> SUFFICES ASSUME NEW d \in Conns PROVE silent'[d] <= Limit(pc'[d])
  BY DEF InTime
<1>2. silent[d] \in Nat /\ silent[d] <= Limit(pc[d]) /\ Limit(pc[d]) \in Nat
  BY <1>1 DEF TypeOK, InTime
<1>3. silent'[d] = 0 \/ silent'[d] = silent[d]
  BY DEF TypeOK
<1>4. Limit(pc'[d]) \in Nat
  BY <1>1
<1>5. CASE silent'[d] = 0
  BY <1>4, <1>5
<1>6. CASE silent'[d] # 0
  <2>1. silent'[d] = silent[d] /\ Limit(pc[d]) # 0
    BY <1>2, <1>3, <1>6
  <2>2. d # c \/ pc' = pc
    BY <1>6, <2>1 DEF TypeOK
  <2>3. pc'[d] = pc[d]
    BY <2>2 DEF TypeOK
  <2> QED
    BY <1>2, <2>1, <2>3
<1> QED
  BY <1>5, <1>6

(* Every step is in time.                                                  *)
LEMMA NextInTime ==
  ASSUME TypeOK, [Next]_vars
  PROVE  InTime'
<1>1. \A at \in {"idle", "announce", "announceFirst", "detach", "emitOff", "emitEnd"} : Limit(at) = 0
  BY DEF Limit
<1>2. ASSUME NEW c \in Conns, ServerStep(c) PROVE InTime'
  BY <1>1, <1>2, MovesInTime DEF ServerStep, UpgradeFails, Attach, Announce, ReceiveTimesOut, AckSent,
                                 AckFails, Detach, AnnounceOff, Goto, Rearm
<1>3. ASSUME NEW c \in Conns, ClientStep(c) PROVE InTime'
  BY <1>1, <1>3, MovesInTime DEF ClientStep, Handshake, PeerVanishes, ReceiveData, ReceiveSize,
                                 ReceiveAlive, ReceiveReset, ReceiveDelete, ReceiveEnd, Store, Goto, Rearm
<1>4. ASSUME NEW c \in Conns, TaskDies(c) PROVE InTime'
  BY <1>4, MovesInTime DEF TaskDies, Goto, Rearm
<1>5. ASSUME UNCHANGED <<pc, silent>> PROVE InTime'
  BY <1>5 DEF TypeOK, InTime
<1>6. CASE Tick
  <2> SUFFICES ASSUME NEW c \in Conns PROVE silent'[c] <= Limit(pc'[c])
    BY DEF InTime
  <2>1. pc' = pc /\ silent[c] \in Nat /\ silent[c] <= Limit(pc[c])
    BY <1>6 DEF Tick, TypeOK, InTime
  <2>2. CASE pc[c] \in {"loop", "ack", "upgrading"}
    <3>1. silent'[c] = silent[c] + 1 /\ silent[c] < Limit(pc[c]) /\ Limit(pc[c]) \in Nat
      BY <1>6, <2>2, TimesTyped DEF Tick, Limit
    <3> QED
      BY <2>1, <3>1
  <2>3. CASE pc[c] \notin {"loop", "ack", "upgrading"}
    BY <1>6, <2>1, <2>3 DEF Tick
  <2> QED
    BY <2>2, <2>3
<1> QED
  BY <1>2, <1>3, <1>4, <1>5, <1>6 DEF Next, HttpDelete, Evict, vars

(* A step keeps the types and the timers.                                  *)
LEMMA NextType ==
  ASSUME TypeOK, [Next]_vars
  PROVE  TypeOK'
BY NextTypeInTime, NextInTime

(* The server starts well typed.                                           *)
LEMMA InitType == Init => TypeOK
<1>1. Init => room \in Room \cup {NoRoom} /\ pc \in [Conns -> PCs] /\ gone \subseteq Conns
  BY DEF Init, PCs
<1>2. Init => /\ silent \in [Conns -> Nat]
              /\ stage \in [Conns -> {"new", "greeted", "sized"}]
  BY DEF Init
<1>3. Init => opened \in Int /\ lost \in Nat
  BY DEF Init
<1>4. Init => announced \in BOOLEAN /\ vanished \in BOOLEAN
  BY DEF Init
<1>5. Init => InTime
  BY DEF Init, InTime, Limit
<1> QED
  BY <1>1, <1>2, <1>3, <1>4, <1>5 DEF TypeOK

(* Every reachable state of the server is well typed (all of Ingest).      *)
THEOREM TypeCorrect == Spec => []TypeOK
BY InitType, NextType, PTL DEF Spec

-----------------------------------------------------------------------------
(* Who holds a count.                                                      *)

(* The holders are finitely many.                                          *)
LEMMA HoldersFinite ==
  ASSUME NEW at, NEW s
  PROVE  IsFiniteSet(HoldersAt(at, s)) /\ Cardinality(HoldersAt(at, s)) \in Nat
<1>1. HoldersAt(at, s) \subseteq Conns
  BY DEF HoldersAt
<1> QED
  BY <1>1, ConnsFinite, FS_Subset, FS_CardinalityType

(* Task c goes to `to' and the others stay.                                *)
Moves(at, next, c, to) ==
    /\ at \in [Conns -> PCs] /\ c \in Conns /\ to \in PCs
    /\ next = [at EXCEPT ![c] = to]

(* When one task moves, the holders of s gain it, lose it or stay.         *)
LEMMA HoldersMove ==
  ASSUME NEW at, NEW next, NEW c, NEW to, NEW s, Moves(at, next, c, to)
  PROVE  /\ (SecretOf[c] # s \/ (at[c] \in Attached <=> to \in Attached))
              => HoldersAt(next, s) = HoldersAt(at, s)
         /\ (SecretOf[c] = s /\ at[c] \notin Attached /\ to \in Attached)
              => Cardinality(HoldersAt(next, s)) = Cardinality(HoldersAt(at, s)) + 1
         /\ (SecretOf[c] = s /\ at[c] \in Attached /\ to \notin Attached)
              => /\ Cardinality(HoldersAt(next, s)) = Cardinality(HoldersAt(at, s)) - 1
                 /\ Cardinality(HoldersAt(at, s)) > 0
<1>1. c \in Conns /\ \A d \in Conns : next[d] = IF d = c THEN to ELSE at[d]
  BY DEF Moves
<1>2. ASSUME SecretOf[c] # s \/ (at[c] \in Attached <=> to \in Attached)
      PROVE  HoldersAt(next, s) = HoldersAt(at, s)
  BY <1>1, <1>2 DEF HoldersAt
<1>3. ASSUME SecretOf[c] = s, at[c] \notin Attached, to \in Attached
      PROVE  Cardinality(HoldersAt(next, s)) = Cardinality(HoldersAt(at, s)) + 1
  <2>1. HoldersAt(next, s) = HoldersAt(at, s) \cup {c} /\ c \notin HoldersAt(at, s)
    BY <1>1, <1>3 DEF HoldersAt
  <2> QED
    BY <2>1, HoldersFinite, FS_AddElement
<1>4. ASSUME SecretOf[c] = s, at[c] \in Attached, to \notin Attached
      PROVE  /\ Cardinality(HoldersAt(next, s)) = Cardinality(HoldersAt(at, s)) - 1
             /\ Cardinality(HoldersAt(at, s)) > 0
  <2>1. HoldersAt(next, s) = HoldersAt(at, s) \ {c} /\ c \in HoldersAt(at, s)
    BY <1>1, <1>4 DEF HoldersAt
  <2>2. Cardinality(HoldersAt(next, s)) = Cardinality(HoldersAt(at, s)) - 1
    BY <2>1, HoldersFinite, FS_RemoveElement
  <2>3. Cardinality(HoldersAt(next, s)) \in Nat /\ Cardinality(HoldersAt(at, s)) \in Nat
    BY HoldersFinite
  <2> QED
    BY <2>2, <2>3
<1> QED
  BY <1>2, <1>3, <1>4

(* More holders than one task accounts for means another holder.           *)
LEMMA AnotherHolder ==
  ASSUME NEW at \in [Conns -> PCs], NEW s, NEW c \in Conns,
         Cardinality(HoldersAt(at, s)) > (IF c \in HoldersAt(at, s) THEN 1 ELSE 0)
  PROVE  \E d \in Conns \ {c} : at[d] \in Attached
<1>1. CASE c \in HoldersAt(at, s)
  <2>1. Cardinality(HoldersAt(at, s) \ {c}) = Cardinality(HoldersAt(at, s)) - 1
        /\ IsFiniteSet(HoldersAt(at, s) \ {c})
    BY <1>1, HoldersFinite, FS_RemoveElement
  <2>2. HoldersAt(at, s) \ {c} # {}
    BY <1>1, <2>1, HoldersFinite, FS_EmptySet
  <2> QED
    BY <2>2 DEF HoldersAt
<1>2. CASE c \notin HoldersAt(at, s)
  <2>1. HoldersAt(at, s) # {}
    BY <1>2, HoldersFinite, FS_EmptySet
  <2> QED
    BY <1>2, <2>1 DEF HoldersAt
<1> QED
  BY <1>1, <1>2

-----------------------------------------------------------------------------
(* The broadcaster count.                                                  *)

(* How any step moves the room against its holders: the entry is the same  *)
(* one with its count and its holders moving alike, a fresh one, or none.  *)
Tracks ==
    \/ room' = NoRoom
    \/ room = NoRoom /\ room' \in Room /\ room'.broadcasters = 0 /\ ~room'.live
    \/ /\ room \in Room /\ room' \in Room
       /\ room'.password = room.password
       /\ \/ /\ room'.broadcasters = room.broadcasters
             /\ room'.live <=> room.live
             /\ HoldersAt(pc', room.password) = HoldersAt(pc, room.password)
          \/ /\ room'.broadcasters = room.broadcasters + 1
             /\ room'.live <=> (room.live \/ room.broadcasters = 0)
             /\ Cardinality(HoldersAt(pc', room.password))
                  = Cardinality(HoldersAt(pc, room.password)) + 1
          \/ /\ room'.broadcasters = Less1(room.broadcasters)
             /\ room'.live <=> (room.live /\ room.broadcasters > 1)
             /\ Cardinality(HoldersAt(pc', room.password))
                  = Cardinality(HoldersAt(pc, room.password)) - 1
             /\ Cardinality(HoldersAt(pc, room.password)) > 0

(* A step that leaves the count alone and moves no task in or out of the   *)
(* attached ones tracks.                                                   *)
LEMMA QuietTracks ==
  ASSUME TypeOK, NEW c \in Conns, NEW to \in PCs, pc' = [pc EXCEPT ![c] = to],
         pc[c] \in Attached <=> to \in Attached,
         room' = room
  PROVE  Tracks
<1>1. Moves(pc, pc', c, to)
  BY DEF TypeOK, Moves
<1>2. HoldersAt(pc', room.password) = HoldersAt(pc, room.password)
  BY <1>1, HoldersMove
<1> QED
  BY <1>2 DEF TypeOK, Tracks

(* A frame's append tracks.                                                *)
LEMMA StoreTracks ==
  ASSUME TypeOK, NEW c \in Conns, NEW to \in PCs, pc' = [pc EXCEPT ![c] = to],
         pc[c] \in Attached <=> to \in Attached,
         NEW size \in BOOLEAN, NEW message \in BOOLEAN,
         room' = Appended(SecretOf[c], size, message)
  PROVE  Tracks
<1> Moves(pc, pc', c, to)
  BY DEF TypeOK, Moves
<1>1. HoldersAt(pc', room.password) = HoldersAt(pc, room.password)
  BY HoldersMove
<1>2. room \in Room \cup {NoRoom}
  BY DEF TypeOK
<1>3. CASE room = NoRoom
  BY <1>2, <1>3, AppendedRoom, SecretType, ZenonT(60) DEF Tracks
<1>4. CASE room # NoRoom
  BY <1>1, <1>2, <1>4, AppendedRoom, SecretType DEF Tracks
<1> QED
  BY <1>3, <1>4

(* Every step of a server task tracks.                                     *)
LEMMA ServerStepTracks ==
  ASSUME TypeOK, NEW c \in Conns, ServerStep(c)
  PROVE  Tracks
<1> USE SecretType
<1>1. CASE UpgradeFails(c)
  BY <1>1, QuietTracks DEF UpgradeFails, Goto, PCs, Attached
<1>2. CASE Attach(c)
  <2> DEFINE to == CASE CountAfterConnect(SecretOf[c]) = 0 -> "loop"
                     [] CountAfterConnect(SecretOf[c]) = 1 -> "announceFirst"
                     [] OTHER -> "announce"
  <2>1. /\ pc' = [pc EXCEPT ![c] = to] /\ to \in Attached /\ to \in PCs
        /\ pc[c] \notin Attached /\ room' = Connect(SecretOf[c])
    BY <1>2 DEF Attach, Goto, PCs, Attached
  <2>0. Moves(pc, pc', c, to)
    BY <2>1 DEF TypeOK, Moves
  <2> HIDE DEF to
  <2>2. CASE room = NoRoom
    BY <2>1, <2>2, CountedNoRoom DEF Tracks
  <2>3. CASE room \in Room /\ room.password # SecretOf[c]
    <3>1. room' = room
      BY <2>1, <2>3, CountedRoom
    <3>2. HoldersAt(pc', room.password) = HoldersAt(pc, room.password)
      BY <2>0, <2>3, HoldersMove
    <3> QED
      BY <2>3, <3>1, <3>2 DEF Tracks
  <2>4. CASE room \in Room /\ room.password = SecretOf[c]
    <3>1. /\ room' \in Room /\ room'.password = room.password
          /\ room'.broadcasters = room.broadcasters + 1
          /\ room'.live <=> (room.live \/ room.broadcasters = 0)
      BY <2>1, <2>4, CountedRoom
    <3>2. Cardinality(HoldersAt(pc', room.password))
            = Cardinality(HoldersAt(pc, room.password)) + 1
      BY <2>0, <2>1, <2>4, HoldersMove
    <3> QED
      BY <2>4, <3>1, <3>2 DEF Tracks
  <2> QED
    BY <2>2, <2>3, <2>4 DEF TypeOK
<1>3. CASE Announce(c)
  BY <1>3, QuietTracks DEF Announce, Goto, PCs, Attached
<1>4. CASE ReceiveTimesOut(c)
  BY <1>4, QuietTracks DEF ReceiveTimesOut, Goto, PCs, Attached
<1>5. CASE AckSent(c)
  BY <1>5, QuietTracks DEF AckSent, Goto, PCs, Attached
<1>6. CASE AckFails(c)
  BY <1>6, QuietTracks DEF AckFails, Goto, PCs, Attached
<1>7. CASE Detach(c)
  <2> DEFINE to == IF EndsSegment(SecretOf[c]) THEN "emitEnd"
                   ELSE IF Remaining(SecretOf[c]) > 0 THEN "done"
                   ELSE "emitOff"
  <2>1. /\ pc' = [pc EXCEPT ![c] = to] /\ to \notin Attached /\ to \in PCs
        /\ pc[c] \in Attached /\ room' = Disconnect(SecretOf[c])
    BY <1>7 DEF Detach, Goto, PCs, Attached
  <2>0. Moves(pc, pc', c, to)
    BY <2>1 DEF TypeOK, Moves
  <2> HIDE DEF to
  <2>2. CASE room = NoRoom
    BY <2>1, <2>2, CountedNoRoom DEF Tracks
  <2>3. CASE room \in Room /\ room.password # SecretOf[c]
    <3>1. room' = room
      BY <2>1, <2>3, CountedRoom
    <3>2. HoldersAt(pc', room.password) = HoldersAt(pc, room.password)
      BY <2>0, <2>3, HoldersMove
    <3> QED
      BY <2>3, <3>1, <3>2 DEF Tracks
  <2>4. CASE room \in Room /\ room.password = SecretOf[c]
    <3>1. /\ room' \in Room /\ room'.password = room.password
          /\ room'.broadcasters = Less1(room.broadcasters)
          /\ room'.live <=> (room.live /\ room.broadcasters > 1)
      BY <2>1, <2>4, CountedRoom
    <3>2. /\ Cardinality(HoldersAt(pc', room.password))
               = Cardinality(HoldersAt(pc, room.password)) - 1
          /\ Cardinality(HoldersAt(pc, room.password)) > 0
      BY <2>0, <2>1, <2>4, HoldersMove
    <3> QED
      BY <2>4, <3>1, <3>2 DEF Tracks
  <2> QED
    BY <2>2, <2>3, <2>4 DEF TypeOK
<1>8. CASE AnnounceOff(c)
  BY <1>8, QuietTracks DEF AnnounceOff, Goto, PCs, Attached
<1> QED
  BY <1>1, <1>2, <1>3, <1>4, <1>5, <1>6, <1>7, <1>8 DEF ServerStep

(* A step that leaves every task where it is, and of the room changes at   *)
(* most the age, tracks.                                                   *)
LEMMA StillTracks ==
  ASSUME TypeOK, pc' = pc,
         room' = room \/ (room \in Room /\ room' = [room EXCEPT !.age = @ + 1] /\ room' \in Room)
  PROVE  Tracks
<1>1. CASE room' = room
  BY <1>1 DEF TypeOK, Tracks
<1>2. CASE room \in Room /\ room' = [room EXCEPT !.age = @ + 1] /\ room' \in Room
  <2>1. /\ room'.password = room.password
        /\ room'.broadcasters = room.broadcasters
        /\ room'.live <=> room.live
    BY <1>2 DEF Room
  <2> QED
    BY <1>2, <2>1 DEF Tracks
<1> QED
  BY <1>1, <1>2

(* Every frame, handshake and vanishing peer tracks.                       *)
LEMMA ClientStepTracks ==
  ASSUME TypeOK, NEW c \in Conns, ClientStep(c)
  PROVE  Tracks
<1>1. CASE Handshake(c)
  BY <1>1, QuietTracks, StoreTracks DEF Handshake, Goto, PCs, Attached
<1>2. CASE PeerVanishes(c)
  BY <1>2, StillTracks DEF PeerVanishes
<1>3. ASSUME NEW size \in BOOLEAN, NEW message \in BOOLEAN, NEW to \in {"ack", "loop"},
             pc[c] = "loop", Store(c, size, message, to)
      PROVE  Tracks
  BY <1>3, QuietTracks, StoreTracks DEF Store, Goto, PCs, Attached
<1>4. CASE ReceiveData(c)
  BY <1>3, <1>4 DEF ReceiveData, Receives
<1>5. CASE ReceiveSize(c)
  BY <1>3, <1>5 DEF ReceiveSize, Receives
<1>6. CASE ReceiveAlive(c)
  BY <1>3, <1>6 DEF ReceiveAlive, Receives
<1>7. CASE ReceiveReset(c)
  <2> DEFINE to == IF Authorized(SecretOf[c]) THEN "loop" ELSE "detach"
  <2>1. /\ pc' = [pc EXCEPT ![c] = to] /\ to \in Attached /\ to \in PCs
        /\ pc[c] \in Attached /\ (room' = Reset \/ room' = room)
    BY <1>7 DEF ReceiveReset, Receives, Goto, PCs, Attached
  <2> HIDE DEF to
  <2>2. CASE room' = room
    BY <2>1, <2>2, QuietTracks
  <2>3. CASE room = NoRoom
    BY <2>1, <2>3, CountedNoRoom DEF Tracks
  <2>4. CASE room \in Room /\ room' = Reset
    <3>1. Moves(pc, pc', c, to)
      BY <2>1 DEF TypeOK, Moves
    <3>2. HoldersAt(pc', room.password) = HoldersAt(pc, room.password)
      BY <2>1, <3>1, HoldersMove
    <3> QED
      BY <2>4, <3>2, ResetRoom DEF Tracks
  <2> QED
    BY <2>1, <2>2, <2>3, <2>4 DEF TypeOK
<1>8. CASE ReceiveDelete(c)
  <2>1. room' = NoRoom \/ room' = room
    BY <1>8 DEF ReceiveDelete, Delete
  <2>2. pc' = [pc EXCEPT ![c] = "detach"] /\ pc[c] = "loop"
    BY <1>8 DEF ReceiveDelete, Receives, Goto
  <2>3. CASE room' = room
    BY <2>2, <2>3, QuietTracks DEF PCs, Attached
  <2> QED
    BY <2>1, <2>3 DEF Tracks
<1>9. CASE ReceiveEnd(c)
  BY <1>9, QuietTracks DEF ReceiveEnd, Receives, Goto, PCs, Attached
<1> QED
  BY <1>1, <1>2, <1>4, <1>5, <1>6, <1>7, <1>8, <1>9 DEF ClientStep

(* Every step tracks.                                                      *)
LEMMA NextTracks ==
  ASSUME TypeOK, [Next]_vars
  PROVE  Tracks
<1>1. ASSUME NEW c \in Conns, ServerStep(c) PROVE Tracks
  BY <1>1, ServerStepTracks
<1>2. ASSUME NEW c \in Conns, ClientStep(c) PROVE Tracks
  BY <1>2, ClientStepTracks
<1>3. ASSUME NEW c \in Conns, TaskDies(c) PROVE Tracks
  BY <1>3, QuietTracks DEF TaskDies, Goto, PCs, Attached
<1>4. ASSUME NEW s \in Deleters, HttpDelete(s) PROVE Tracks
  <2>1. room' = NoRoom \/ (room' = room /\ pc' = pc)
    BY <1>4 DEF HttpDelete, Delete
  <2> QED
    BY <2>1, StillTracks DEF Tracks
<1>5. CASE Evict
  BY <1>5 DEF Evict, Tracks
<1>6. CASE Tick
  <2>1. ASSUME room \in Room, room.age # Stale
        PROVE  [room EXCEPT !.age = @ + 1] \in Room
    BY <2>1, StaleType DEF Room
  <2>2. /\ pc' = pc
        /\ room' = room \/ (/\ room \in Room /\ room.age # Stale
                            /\ room' = [room EXCEPT !.age = @ + 1])
    BY <1>6 DEF Tick, TypeOK
  <2> QED
    BY <2>1, <2>2, StillTracks
<1>7. CASE UNCHANGED vars
  BY <1>7, StillTracks DEF vars
<1> QED
  BY <1>1, <1>2, <1>3, <1>4, <1>5, <1>6, <1>7 DEF Next

(* A step that tracks keeps the count below its holders and the live flag  *)
(* with the count.                                                         *)
LEMMA TracksCount ==
  ASSUME TypeOK, TypeOK', Tracks, NoPhantomBroadcaster, LiveMatchesCount
  PROVE  NoPhantomBroadcaster' /\ LiveMatchesCount'
<1>1. CASE room' = NoRoom
  BY <1>1 DEF NoPhantomBroadcaster, LiveMatchesCount
<1>2. CASE room = NoRoom /\ room' \in Room /\ room'.broadcasters = 0 /\ ~room'.live
  <2>1. Cardinality(HoldersAt(pc', room'.password)) \in Nat
    BY HoldersFinite
  <2> QED
    BY <1>2, <2>1 DEF NoPhantomBroadcaster, LiveMatchesCount, Holders
<1>3. CASE room \in Room /\ room' \in Room /\ room'.password = room.password
  <2>1. /\ Cardinality(HoldersAt(pc, room.password)) \in Nat
        /\ Cardinality(HoldersAt(pc', room.password)) \in Nat
    BY HoldersFinite
  <2>2. /\ room # NoRoom
        /\ room.broadcasters \in Nat
        /\ room.broadcasters <= Cardinality(HoldersAt(pc, room.password))
        /\ room.live <=> room.broadcasters > 0
    BY <1>3, NoRoomFresh DEF NoPhantomBroadcaster, LiveMatchesCount, Holders, Room
  <2>3. /\ room'.broadcasters <= Cardinality(HoldersAt(pc', room.password))
        /\ room'.live <=> room'.broadcasters > 0
    <3> DEFINE before == HoldersAt(pc, room.password)
               after == HoldersAt(pc', room.password)
    <3>1. CASE /\ room'.broadcasters = room.broadcasters
               /\ room'.live <=> room.live
               /\ after = before
      BY <2>2, <3>1
    <3>2. CASE /\ room'.broadcasters = room.broadcasters + 1
               /\ room'.live <=> (room.live \/ room.broadcasters = 0)
               /\ Cardinality(after) = Cardinality(before) + 1
      BY <2>1, <2>2, <3>2
    <3>3. CASE /\ room'.broadcasters = Less1(room.broadcasters)
               /\ room'.live <=> (room.live /\ room.broadcasters > 1)
               /\ Cardinality(after) = Cardinality(before) - 1
               /\ Cardinality(before) > 0
      BY <2>1, <2>2, <3>3 DEF Less1
    <3>4. \/ room' = NoRoom \/ room = NoRoom
          \/ /\ room'.broadcasters = room.broadcasters
             /\ room'.live <=> room.live
             /\ after = before
          \/ /\ room'.broadcasters = room.broadcasters + 1
             /\ room'.live <=> (room.live \/ room.broadcasters = 0)
             /\ Cardinality(after) = Cardinality(before) + 1
          \/ /\ room'.broadcasters = Less1(room.broadcasters)
             /\ room'.live <=> (room.live /\ room.broadcasters > 1)
             /\ Cardinality(after) = Cardinality(before) - 1
             /\ Cardinality(before) > 0
      BY DEF Tracks
    <3> HIDE DEF before, after
    <3> QED
      BY <1>3, <3>1, <3>2, <3>3, <3>4, NoRoomFresh
  <2> QED
    BY <1>3, <2>3 DEF NoPhantomBroadcaster, LiveMatchesCount, Holders
<1> QED
  BY <1>1, <1>2, <1>3 DEF Tracks

(* What the count rests on.                                                *)
CountInv == TypeOK /\ NoPhantomBroadcaster /\ LiveMatchesCount

(* The count and the live flag hold at every step of Ingest.               *)
LEMMA CountInvariant == Spec => []CountInv
<1>1. Init => CountInv
  <2>1. Init => TypeOK
    BY InitType
  <2> QED
    BY <2>1 DEF Init, CountInv, NoPhantomBroadcaster, LiveMatchesCount
<1>2. CountInv /\ [Next]_vars => CountInv'
  BY NextType, NextTracks, TracksCount DEF CountInv
<1> QED
  BY <1>1, <1>2, PTL DEF Spec

(* No room ever counts a broadcaster that is not attached: the count in    *)
(* the Room's entry is at most the tasks that still owe it a detach, or    *)
(* that died owing it.                                                     *)
THEOREM CountNeverPhantom == Spec => []NoPhantomBroadcaster
BY CountInvariant, PTL DEF CountInv

(* live_since is set exactly while the room counts a broadcaster.          *)
THEOREM LiveSegmentMatches == Spec => []LiveMatchesCount
BY CountInvariant, PTL DEF CountInv

-----------------------------------------------------------------------------
(* The announcement.                                                       *)

(* A task that has its detach or the publication of FALSE ahead of it.     *)
Owning == Attached \cup {"emitOff", "emitEnd"}

(* An announcement survives the move of a task that goes on owning it, and *)
(* of one that never did.                                                  *)
LEMMA OwnedMove ==
  ASSUME TypeOK, OnlineIsOwned, NEW c \in Conns, NEW to \in PCs,
         pc' = [pc EXCEPT ![c] = to], pc[c] \in Owning => to \in Owning,
         announced' = announced
  PROVE  OnlineIsOwned'
<1>1. \A d \in Conns : pc'[d] = IF d = c THEN to ELSE pc[d]
  BY DEF TypeOK
<1> QED
  BY <1>1 DEF OnlineIsOwned, Owning

(* A detach that leaves others counted leaves another owner: the count     *)
(* cannot be a phantom.                                                    *)
LEMMA DetachLeavesOwner ==
  ASSUME CountInv, OnlineIsOwned, NEW c \in Conns, Detach(c)
  PROVE  OnlineIsOwned'
<1>1. TypeOK /\ pc \in [Conns -> PCs] /\ pc[c] = "detach" /\ announced' = announced
  BY DEF CountInv, TypeOK, Detach
<1>2. CASE EndsSegment(SecretOf[c])
  <2>1. pc' = [pc EXCEPT ![c] = "emitEnd"]
    BY <1>2 DEF Detach, Goto
  <2> QED
    BY <1>1, <2>1, OwnedMove DEF Owning, PCs
<1>3. CASE ~EndsSegment(SecretOf[c]) /\ ~(Remaining(SecretOf[c]) > 0)
  BY <1>1, <1>3, OwnedMove DEF Detach, Goto, Owning, PCs
<1>4. CASE ~EndsSegment(SecretOf[c]) /\ Remaining(SecretOf[c]) > 0
  <2>1. room # NoRoom /\ room \in Room /\ room.broadcasters \in Nat
    BY <1>1, <1>4 DEF TypeOK, Remaining, Room
  <2>2. room.broadcasters <= Cardinality(HoldersAt(pc, room.password))
    BY <2>1 DEF CountInv, NoPhantomBroadcaster, Holders
  <2>3. Cardinality(HoldersAt(pc, room.password)) \in Nat
    BY HoldersFinite
  <2>4. Cardinality(HoldersAt(pc, room.password))
          > (IF c \in HoldersAt(pc, room.password) THEN 1 ELSE 0)
    <3>1. CASE room.password = SecretOf[c]
      BY <1>4, <2>1, <2>2, <2>3, <3>1 DEF Remaining, Less1
    <3>2. CASE room.password # SecretOf[c]
      <4>1. c \notin HoldersAt(pc, room.password)
        BY <3>2 DEF HoldersAt
      <4> QED
        BY <1>4, <2>1, <2>2, <2>3, <3>2, <4>1 DEF Remaining
    <3> QED
      BY <3>1, <3>2
  <2>5. PICK d \in Conns \ {c} : pc[d] \in Attached
    BY <1>1, <2>4, AnotherHolder
  <2>6. pc' = [pc EXCEPT ![c] = "done"]
    BY <1>4 DEF Detach, Goto
  <2>7. pc'[d] \in Attached
    BY <1>1, <2>5, <2>6
  <2> QED
    BY <2>7 DEF OnlineIsOwned
<1> QED
  BY <1>2, <1>3, <1>4

(* A step of a server task leaves an announcement an owner.                *)
LEMMA ServerStepOwned ==
  ASSUME CountInv, OnlineIsOwned, NEW c \in Conns, ServerStep(c)
  PROVE  OnlineIsOwned'
<1> USE DEF CountInv
<1>1. CASE UpgradeFails(c)
  BY <1>1, OwnedMove DEF UpgradeFails, Goto, Owning, PCs, Attached
<1>2. CASE Attach(c)
  BY <1>2, OwnedMove DEF Attach, Goto, Owning, PCs, Attached
<1>3. CASE Announce(c)
  <2>1. pc'[c] = "loop"
    BY <1>3 DEF Announce, Goto, TypeOK
  <2> QED
    BY <2>1 DEF OnlineIsOwned, Attached
<1>4. CASE ReceiveTimesOut(c)
  BY <1>4, OwnedMove DEF ReceiveTimesOut, Goto, Owning, PCs, Attached
<1>5. CASE AckSent(c)
  BY <1>5, OwnedMove DEF AckSent, Goto, Owning, PCs, Attached
<1>6. CASE AckFails(c)
  BY <1>6, OwnedMove DEF AckFails, Goto, Owning, PCs, Attached
<1>7. CASE Detach(c)
  BY <1>7, DetachLeavesOwner
<1>8. CASE AnnounceOff(c)
  BY <1>8 DEF AnnounceOff, OnlineIsOwned
<1> QED
  BY <1>1, <1>2, <1>3, <1>4, <1>5, <1>6, <1>7, <1>8 DEF ServerStep

(* A client's step leaves an announcement its owner.                       *)
LEMMA ClientStepOwned ==
  ASSUME TypeOK, OnlineIsOwned, NEW c \in Conns, ClientStep(c)
  PROVE  OnlineIsOwned'
<1>1. CASE Handshake(c)
  BY <1>1, OwnedMove DEF Handshake, Goto, Owning, PCs, Attached
<1>2. CASE PeerVanishes(c)
  BY <1>2 DEF PeerVanishes, OnlineIsOwned
<1>3. ASSUME NEW f, Receives(c, f), NEW to \in {"loop", "ack", "detach"},
             pc' = [pc EXCEPT ![c] = to]
      PROVE  OnlineIsOwned'
  BY <1>3, OwnedMove DEF Receives, Owning, PCs, Attached
<1>4. CASE ReceiveData(c)
  BY <1>3, <1>4 DEF ReceiveData, Store, Goto
<1>5. CASE ReceiveSize(c)
  BY <1>3, <1>5 DEF ReceiveSize, Store, Goto
<1>6. CASE ReceiveAlive(c)
  BY <1>3, <1>6 DEF ReceiveAlive, Store, Goto
<1>7. CASE ReceiveReset(c)
  BY <1>3, <1>7 DEF ReceiveReset, Goto
<1>8. CASE ReceiveDelete(c)
  BY <1>3, <1>8 DEF ReceiveDelete, Goto
<1>9. CASE ReceiveEnd(c)
  BY <1>3, <1>9 DEF ReceiveEnd, Goto
<1> QED
  BY <1>1, <1>2, <1>4, <1>5, <1>6, <1>7, <1>8, <1>9 DEF ClientStep

(* Viewers are never left online with nobody to take it back, whatever the *)
(* interleaving of attaches, detaches, publications, deletes and           *)
(* evictions: the detach that finds others counted is right that there are *)
(* others.                                                                 *)
THEOREM OnlineOwned == Spec => []OnlineIsOwned
<1>1. Init => OnlineIsOwned
  BY DEF Init, OnlineIsOwned
<1>2. CountInv /\ OnlineIsOwned /\ [Next]_vars => OnlineIsOwned'
  <2> SUFFICES ASSUME CountInv, OnlineIsOwned, [Next]_vars
               PROVE  OnlineIsOwned'
    OBVIOUS
  <2>0. TypeOK
    BY DEF CountInv
  <2>1. ASSUME NEW c \in Conns, ServerStep(c) PROVE OnlineIsOwned'
    BY <2>1, ServerStepOwned
  <2>2. ASSUME NEW c \in Conns, ClientStep(c) PROVE OnlineIsOwned'
    BY <2>0, <2>2, ClientStepOwned
  <2>3. ASSUME NEW c \in Conns, TaskDies(c) PROVE OnlineIsOwned'
    BY <2>0, <2>3, OwnedMove DEF TaskDies, Goto, Owning, PCs, Attached
  <2>4. ASSUME NEW s \in Deleters, HttpDelete(s) PROVE OnlineIsOwned'
    BY <2>4 DEF HttpDelete, OnlineIsOwned
  <2>5. CASE Evict
    BY <2>5 DEF Evict, OnlineIsOwned
  <2>6. CASE Tick
    BY <2>6 DEF Tick, OnlineIsOwned
  <2>7. CASE UNCHANGED vars
    BY <2>7 DEF vars, OnlineIsOwned
  <2> QED
    BY <2>1, <2>2, <2>3, <2>4, <2>5, <2>6, <2>7 DEF Next
<1> QED
  BY <1>1, <1>2, CountInvariant, PTL DEF Spec

-----------------------------------------------------------------------------
(* Tasks of another owner.                                                 *)

(* The operations of Rooms under a password that is not the room's change  *)
(* nothing.                                                                *)
LEMMA ForeignOps ==
  ASSUME room # NoRoom, NEW s, room.password # s
  PROVE  ~Authorized(s) /\ Connect(s) = room /\ Disconnect(s) = room
         /\ (Delete(s) => room' = room)
BY DEF Authorized, Connect, CountAfterConnect, Disconnect, Delete

(* A task's step that moves it, under a foreign password, keeps the room.  *)
LEMMA ForeignStep ==
  ASSUME room # NoRoom, NEW c \in Conns, SecretOf[c] # room.password,
         ServerStep(c) \/ ClientStep(c) \/ TaskDies(c)
  PROVE  room' = room
<1> USE ForeignOps
<1>1. CASE ServerStep(c)
  BY <1>1 DEF ServerStep, UpgradeFails, Attach, Announce, ReceiveTimesOut, AckSent,
              AckFails, Detach, AnnounceOff
<1>2. CASE ClientStep(c)
  <2>1. ASSUME NEW size, NEW message, NEW to, Store(c, size, message, to)
        PROVE  room' = room
    BY <2>1 DEF Store
  <2>2. CASE ReceiveReset(c) \/ ReceiveDelete(c) \/ ReceiveEnd(c)
    BY <2>2 DEF ReceiveReset, ReceiveDelete, ReceiveEnd
  <2>3. CASE Handshake(c) \/ PeerVanishes(c)
    BY <2>3 DEF Handshake, PeerVanishes
  <2> QED
    BY <1>2, <2>1, <2>2, <2>3 DEF ClientStep, ReceiveData, ReceiveSize, ReceiveAlive
<1>3. CASE TaskDies(c)
  BY <1>3 DEF TaskDies
<1> QED
  BY <1>1, <1>2, <1>3

(* A step of one task moves no other.                                      *)
LEMMA OneTaskMoves ==
  ASSUME TypeOK, NEW c \in Conns, ServerStep(c) \/ ClientStep(c) \/ TaskDies(c),
         NEW d \in Conns, pc'[d] # pc[d]
  PROVE  c = d
<1>1. \/ \E to : pc' = [pc EXCEPT ![c] = to]
      \/ pc' = pc
  <2>1. CASE ServerStep(c)
    BY <2>1 DEF ServerStep, UpgradeFails, Attach, Announce, ReceiveTimesOut, AckSent,
                AckFails, Detach, AnnounceOff, Goto
  <2>2. CASE ClientStep(c)
    BY <2>2 DEF ClientStep, Handshake, PeerVanishes, ReceiveData, ReceiveSize, ReceiveAlive,
                ReceiveReset, ReceiveDelete, ReceiveEnd, Store, Goto
  <2>3. CASE TaskDies(c)
    BY <2>3 DEF TaskDies, Goto
  <2> QED
    BY <2>1, <2>2, <2>3
<1> QED
  BY <1>1 DEF TypeOK

(* A task left over from before the room changed hands, whatever frame or  *)
(* detach it runs, leaves the new owner's entry alone.                     *)
THEOREM ForeignTasksTouchNothing == Spec => ForeignTaskTouchesNothing
<1> DEFINE Untouched ==
      \A c \in Conns :
        (room # NoRoom /\ SecretOf[c] # room.password /\ pc'[c] # pc[c]) => room' = room
<1>1. TypeOK /\ [Next]_vars => [Untouched]_vars
  <2> SUFFICES ASSUME TypeOK, Next PROVE Untouched
    OBVIOUS
  <2>1. ASSUME NEW c \in Conns, ServerStep(c) \/ ClientStep(c) \/ TaskDies(c)
        PROVE  Untouched
    BY <2>1, OneTaskMoves, ForeignStep
  <2>2. CASE (\E s \in Deleters : HttpDelete(s)) \/ Evict \/ Tick
    BY <2>2 DEF HttpDelete, Evict, Tick
  <2> QED
    BY <2>1, <2>2 DEF Next
<1> QED
  BY <1>1, TypeCorrect, PTL DEF Spec, ForeignTaskTouchesNothing

-----------------------------------------------------------------------------
(* The exact count.                                                        *)

(* In a room nobody removed in use, a step that tracks and lets only tasks *)
(* with the room's password use it keeps the count exact.                  *)
LEMMA ExactStep ==
  ASSUME TypeOK, Tracks, ExactWhileRoomStays, ~vanished, room \in Room, room' \in Room,
         \A d \in Conns : pc'[d] \in Using => SecretOf[d] = room.password
  PROVE  ExactWhileRoomStays'
<1> DEFINE before == HoldersAt(pc, room.password)
           after  == HoldersAt(pc', room.password)
<1>1. room # NoRoom /\ room' # NoRoom /\ room.broadcasters \in Nat
  BY NoRoomFresh DEF Room
<1>2. room.broadcasters = Cardinality(before)
  BY <1>1 DEF ExactWhileRoomStays, Holders
<1>3. Cardinality(before) \in Nat /\ Cardinality(after) \in Nat
  BY HoldersFinite
<1>4. /\ room'.password = room.password
      /\ \/ room'.broadcasters = room.broadcasters /\ after = before
         \/ /\ room'.broadcasters = room.broadcasters + 1
            /\ Cardinality(after) = Cardinality(before) + 1
         \/ /\ room'.broadcasters = Less1(room.broadcasters)
            /\ Cardinality(after) = Cardinality(before) - 1
            /\ Cardinality(before) > 0
  BY <1>1 DEF Tracks
<1> HIDE DEF before, after
<1>5. room'.broadcasters = Cardinality(after)
  BY <1>2, <1>3, <1>4 DEF Less1
<1> QED
  BY <1>1, <1>4, <1>5 DEF ExactWhileRoomStays, Holders, after

(* A task that uses a room that was never removed in use has its password. *)
LEMMA UsersKnowPassword ==
  ASSUME TypeOK, ExactWhileRoomStays, ~vanished, NEW c \in Conns, pc[c] \in Using
  PROVE  room \in Room /\ room # NoRoom /\ SecretOf[c] = room.password
BY NoRoomFresh DEF TypeOK, ExactWhileRoomStays, InUse

(* A step of a task that uses the room, and leaves the entry there, keeps  *)
(* the count exact.                                                        *)
LEMMA UserStepExact ==
  ASSUME TypeOK, TypeOK', Tracks, ExactWhileRoomStays, ~vanished,
         NEW c \in Conns, NEW to, pc[c] \in Using, pc' = [pc EXCEPT ![c] = to],
         room' # NoRoom
  PROVE  ExactWhileRoomStays'
<1>1. room \in Room /\ room # NoRoom /\ room' \in Room
  BY UsersKnowPassword DEF TypeOK
<1>2. ASSUME NEW d \in Conns, pc'[d] \in Using
      PROVE  SecretOf[d] = room.password
  <2>1. pc[d] \in Using
    BY <1>2 DEF TypeOK
  <2> QED
    BY <2>1, UsersKnowPassword
<1> QED
  BY <1>1, <1>2, ExactStep

(* The first handshake meets a room nobody holds; a later one that is let  *)
(* in presents its password.                                               *)
LEMMA HandshakeExact ==
  ASSUME TypeOK, TypeOK', Tracks, ExactWhileRoomStays, ~vanished, NEW c \in Conns, Handshake(c)
  PROVE  ExactWhileRoomStays'
<1> USE SecretType
<1>1. \A d \in Conns : pc'[d] \in Using => pc[d] \in Using \/ (d = c /\ Authorized(SecretOf[c]))
  BY DEF Handshake, Goto, TypeOK, Using, Attached
<1>2. CASE room # NoRoom
  <2>1. room \in Room /\ room' \in Room
    <3>1. CASE room' = room
      BY <1>2, <3>1 DEF TypeOK
    <3>2. CASE room' = Appended(SecretOf[c], FALSE, FALSE)
      BY <1>2, <3>2, AppendedRoom DEF TypeOK
    <3> QED
      BY <1>2, <3>1, <3>2 DEF Handshake, TypeOK
  <2>2. ASSUME NEW d \in Conns, pc'[d] \in Using
        PROVE  SecretOf[d] = room.password
    BY <1>1, <1>2, <2>2, UsersKnowPassword DEF Authorized
  <2> QED
    BY <2>1, <2>2, ExactStep
<1>3. CASE room = NoRoom
  <2>1. ~InUse
    BY <1>3 DEF ExactWhileRoomStays
  <2>2. room' = Appended(SecretOf[c], FALSE, FALSE)
    BY <1>3 DEF Handshake, Authorized
  <2>3. room' # NoRoom /\ room'.password = SecretOf[c] /\ room'.broadcasters = 0
    BY <1>3, <2>2, AppendedRoom, NoRoomFresh DEF TypeOK
  <2>4. \A d \in Conns : pc'[d] \in Using => d = c
    BY <1>1, <2>1 DEF InUse
  <2>5. pc'[c] \notin Attached
    BY DEF Handshake, Goto, TypeOK, Attached
  <2>6. HoldersAt(pc', room'.password) = {}
    BY <2>4, <2>5 DEF HoldersAt, Using
  <2> QED
    BY <2>3, <2>4, <2>6, FS_EmptySet DEF ExactWhileRoomStays, Holders
<1> QED
  BY <1>2, <1>3

(* An entry that goes without anybody using it leaves nobody behind.       *)
LEMMA RemovedExact ==
  ASSUME room' = NoRoom, pc' = pc, vanished' = (vanished \/ InUse)
  PROVE  ExactWhileRoomStays'
BY DEF ExactWhileRoomStays, InUse

(* A step that moves no task and leaves the entry there keeps the count.   *)
LEMMA StillExact ==
  ASSUME TypeOK, TypeOK', Tracks, ExactWhileRoomStays, ~vanished, pc' = pc,
         room' = NoRoom <=> room = NoRoom
  PROVE  ExactWhileRoomStays'
<1>1. CASE room = NoRoom
  BY <1>1 DEF ExactWhileRoomStays, InUse
<1>2. CASE room # NoRoom
  <2>1. room \in Room /\ room' \in Room
    BY <1>2 DEF TypeOK
  <2> QED
    BY <2>1, ExactStep, UsersKnowPassword
<1> QED
  BY <1>1, <1>2

(* A step of a server task keeps the count exact.                          *)
LEMMA ServerStepExact ==
  ASSUME TypeOK, TypeOK', Tracks, ExactWhileRoomStays, ~vanished, NEW c \in Conns, ServerStep(c)
  PROVE  ExactWhileRoomStays'
<1> USE SecretType
<1>1. CASE AnnounceOff(c)
  <2>1. room' = room /\ \A d \in Conns : pc'[d] \in Using => pc[d] \in Using
    BY <1>1 DEF AnnounceOff, Goto, TypeOK, Using, Attached
  <2>2. CASE room = NoRoom
    BY <2>1, <2>2 DEF ExactWhileRoomStays, InUse
  <2>3. CASE room # NoRoom
    <3>1. room \in Room /\ room' \in Room
      BY <2>1, <2>3 DEF TypeOK
    <3> QED
      BY <2>1, <3>1, ExactStep, UsersKnowPassword
  <2> QED
    BY <2>2, <2>3
<1>2. CASE ~AnnounceOff(c)
  <2>1. pc[c] \in Using /\ \E to : pc' = [pc EXCEPT ![c] = to]
    BY <1>2 DEF ServerStep, UpgradeFails, Attach, Announce, ReceiveTimesOut, AckSent,
                AckFails, Detach, Goto, Using, Attached
  <2>2. room \in Room /\ room # NoRoom
    BY <2>1, UsersKnowPassword
  <2>3. room' # NoRoom
    BY <1>2, <2>2, CountedRoom, NoRoomFresh
    DEF ServerStep, UpgradeFails, Attach, Announce, ReceiveTimesOut, AckSent, AckFails, Detach
  <2> QED
    BY <2>1, <2>3, UserStepExact
<1> QED
  BY <1>1, <1>2

(* So does a client's.                                                     *)
LEMMA ClientStepExact ==
  ASSUME TypeOK, TypeOK', Tracks, ExactWhileRoomStays, ~vanished, ~vanished',
         NEW c \in Conns, ClientStep(c)
  PROVE  ExactWhileRoomStays'
<1> USE SecretType
<1>1. CASE Handshake(c)
  BY <1>1, HandshakeExact
<1>2. CASE PeerVanishes(c)
  BY <1>2, StillExact DEF PeerVanishes
<1>3. ASSUME NEW f, Receives(c, f) PROVE pc[c] \in Using /\ room \in Room /\ room # NoRoom
  <2>1. pc[c] \in Using
    BY <1>3 DEF Receives, Using, Attached
  <2> QED
    BY <2>1, UsersKnowPassword
<1>4. ASSUME NEW f, Receives(c, f), NEW size \in BOOLEAN, NEW message \in BOOLEAN,
             NEW to, Store(c, size, message, to)
      PROVE  ExactWhileRoomStays'
  <2>1. room' = room \/ room' = Appended(SecretOf[c], size, message)
    BY <1>4 DEF Store
  <2>2. room' # NoRoom
    BY <1>3, <1>4, <2>1, AppendedRoom, NoRoomFresh
  <2>3. \E at : pc' = [pc EXCEPT ![c] = at]
    BY <1>4 DEF Store, Goto
  <2> QED
    BY <1>3, <1>4, <2>2, <2>3, UserStepExact
<1>5. CASE ReceiveData(c) \/ ReceiveSize(c) \/ ReceiveAlive(c)
  BY <1>4, <1>5 DEF ReceiveData, ReceiveSize, ReceiveAlive
<1>6. CASE ReceiveReset(c)
  <2>1. room' # NoRoom /\ \E at : pc' = [pc EXCEPT ![c] = at]
    BY <1>3, <1>6, ResetRoom, NoRoomFresh DEF ReceiveReset, Goto
  <2> QED
    BY <1>3, <1>6, <2>1, UserStepExact DEF ReceiveReset
<1>7. CASE ReceiveDelete(c)
  <2>1. pc[c] \in Using /\ room # NoRoom /\ room' = room
    BY <1>3, <1>7 DEF ReceiveDelete, Delete, InUse
  <2> QED
    BY <1>7, <2>1, UserStepExact DEF ReceiveDelete, Goto
<1>8. CASE ReceiveEnd(c)
  BY <1>3, <1>8, UserStepExact DEF ReceiveEnd, Goto
<1> QED
  BY <1>1, <1>2, <1>5, <1>6, <1>7, <1>8 DEF ClientStep

(* vanished stays once it is set.                                          *)
LEMMA VanishedStays ==
  ASSUME TypeOK, [Next]_vars, vanished
  PROVE  vanished'
<1>1. ASSUME NEW c \in Conns, ServerStep(c) \/ TaskDies(c) PROVE vanished'
  BY <1>1 DEF ServerStep, UpgradeFails, Attach, Announce, ReceiveTimesOut, AckSent,
              AckFails, Detach, AnnounceOff, TaskDies
<1>2. ASSUME NEW c \in Conns, ClientStep(c) PROVE vanished'
  BY <1>2 DEF ClientStep, Handshake, PeerVanishes, ReceiveData, ReceiveSize, ReceiveAlive,
              ReceiveReset, ReceiveDelete, ReceiveEnd, Store, Delete
<1>3. CASE (\E s \in Deleters : HttpDelete(s)) \/ Evict \/ Tick \/ UNCHANGED vars
  BY <1>3 DEF HttpDelete, Delete, Evict, Tick, vars
<1> QED
  BY <1>1, <1>2, <1>3 DEF Next

(* As long as no entry was removed in use, broadcaster_connected and       *)
(* broadcaster_disconnected keep the count equal to the connections that   *)
(* hold it, and everybody past the handshake holds the room's password.    *)
THEOREM CountExact == Spec => []ExactWhileRoomStays
<1>1. Init => ExactWhileRoomStays
  BY DEF Init, ExactWhileRoomStays, InUse, Using, Attached
<1>2. TypeOK /\ ExactWhileRoomStays /\ [Next]_vars => ExactWhileRoomStays'
  <2> SUFFICES ASSUME TypeOK, ExactWhileRoomStays, [Next]_vars, ~vanished'
               PROVE  ExactWhileRoomStays'
    BY DEF ExactWhileRoomStays
  <2>1. ~vanished /\ TypeOK' /\ Tracks
    BY VanishedStays, NextType, NextTracks
  <2>2. ASSUME NEW c \in Conns, ServerStep(c) PROVE ExactWhileRoomStays'
    BY <2>1, <2>2, ServerStepExact
  <2>3. ASSUME NEW c \in Conns, ClientStep(c) PROVE ExactWhileRoomStays'
    BY <2>1, <2>3, ClientStepExact
  <2>4. ASSUME NEW c \in Conns, TaskDies(c) PROVE ExactWhileRoomStays'
    <3>1. pc[c] \in Using /\ room' = room
      BY <2>4 DEF TaskDies, Using, Attached
    <3> QED
      BY <2>1, <2>4, <3>1, UserStepExact, UsersKnowPassword DEF TaskDies, Goto
  <2>5. ASSUME NEW s \in Deleters, HttpDelete(s) PROVE ExactWhileRoomStays'
    BY <2>1, <2>5, RemovedExact, StillExact DEF HttpDelete, Delete
  <2>6. CASE Evict
    BY <2>6, RemovedExact DEF Evict
  <2>7. CASE Tick
    <3>1. pc' = pc /\ (room' = NoRoom <=> room = NoRoom)
      BY <2>1, <2>7, NoRoomFresh, StaleType DEF Tick, TypeOK, Room
    <3> QED
      BY <2>1, <3>1, StillExact
  <2>8. CASE UNCHANGED vars
    BY <2>1, <2>8, StillExact DEF vars
  <2> QED
    BY <2>2, <2>3, <2>4, <2>5, <2>6, <2>7, <2>8 DEF Next
<1> QED
  BY <1>1, <1>2, TypeCorrect, PTL DEF Spec

(* The broadcaster count never exceeds the tasks that can take it down, and *)
(* equals their number while the room was never removed in use.            *)
THEOREM CountRight == Spec => []CountIsRight
<1>1. NoPhantomBroadcaster /\ ExactWhileRoomStays => CountIsRight
  BY DEF CountIsRight
<1> QED
  BY <1>1, CountNeverPhantom, CountExact, PTL

-----------------------------------------------------------------------------
(* The analytics segments.                                                 *)

(* Tasks anywhere are finitely many; when one moves, the place it leaves   *)
(* has one less, the place it goes to one more.                            *)
LEMMA AtMove ==
  ASSUME NEW at, NEW next, NEW c, NEW to, NEW p, Moves(at, next, c, to)
  PROVE  /\ Cardinality(At(at, p)) \in Nat /\ Cardinality(At(next, p)) \in Nat
         /\ (at[c] = p <=> to = p) => Cardinality(At(next, p)) = Cardinality(At(at, p))
         /\ (at[c] # p /\ to = p) => Cardinality(At(next, p)) = Cardinality(At(at, p)) + 1
         /\ (at[c] = p /\ to # p) => Cardinality(At(next, p)) = Cardinality(At(at, p)) - 1
<1>1. /\ IsFiniteSet(At(at, p)) /\ Cardinality(At(at, p)) \in Nat
      /\ IsFiniteSet(At(next, p)) /\ Cardinality(At(next, p)) \in Nat
  <2>1. At(at, p) \subseteq Conns /\ At(next, p) \subseteq Conns
    BY DEF At
  <2> QED
    BY <2>1, ConnsFinite, FS_Subset, FS_CardinalityType
<1>2. c \in Conns /\ \A d \in Conns : next[d] = IF d = c THEN to ELSE at[d]
  BY DEF Moves
<1>3. CASE at[c] = p <=> to = p
  <2>1. At(next, p) = At(at, p)
    BY <1>2, <1>3 DEF At
  <2> QED
    BY <1>1, <1>3, <2>1
<1>4. CASE at[c] # p /\ to = p
  <2>1. At(next, p) = At(at, p) \cup {c} /\ c \notin At(at, p)
    BY <1>2, <1>4 DEF At
  <2> QED
    BY <1>1, <1>4, <2>1, FS_AddElement
<1>5. CASE at[c] = p /\ to # p
  <2>1. At(next, p) = At(at, p) \ {c} /\ c \in At(at, p)
    BY <1>2, <1>5 DEF At
  <2> QED
    BY <1>1, <1>5, <2>1, FS_RemoveElement
<1> QED
  BY <1>3, <1>4, <1>5

(* The segments a room has open.                                           *)
Open(entry) == IF entry # NoRoom /\ entry.live THEN 1 ELSE 0

Due(pcs) == Cardinality(At(pcs, "announceFirst"))
DueEnds(pcs) == Cardinality(At(pcs, "emitEnd"))

(* A step keeps the books when both sides change alike.                    *)
Balances ==
    opened' - opened + Due(pc') - Due(pc)
      = Open(room') - Open(room) + lost' - lost + DueEnds(pc') - DueEnds(pc)

(* Both are natural numbers,                                               *)
LEMMA DueType == ASSUME NEW pcs PROVE Due(pcs) \in Nat /\ DueEnds(pcs) \in Nat
<1>1. At(pcs, "announceFirst") \subseteq Conns /\ At(pcs, "emitEnd") \subseteq Conns
  BY DEF At
<1> QED
  BY <1>1, ConnsFinite, FS_Subset, FS_CardinalityType DEF Due, DueEnds

(* and a room has one segment open at most.                                *)
LEMMA OpenType == ASSUME NEW entry PROVE Open(entry) \in {0, 1}
BY DEF Open

(* A task that moves elsewhere, with no segment begun or ended.            *)
LEMMA QuietBalances ==
  ASSUME TypeOK, NEW c \in Conns, NEW to \in PCs \ {"announceFirst", "emitEnd"},
         pc[c] \notin {"announceFirst", "emitEnd"}, pc' = [pc EXCEPT ![c] = to],
         UNCHANGED <<opened, lost>>, Open(room') = Open(room)
  PROVE  Balances
<1>1. Moves(pc, pc', c, to)
  BY DEF Moves, TypeOK
<1>2. Due(pc') = Due(pc) /\ DueEnds(pc') = DueEnds(pc)
  BY <1>1, AtMove DEF Due, DueEnds
<1> QED
  BY <1>2, DueType, OpenType DEF Balances, TypeOK

(* No task moves.                                                          *)
LEMMA StillBalances ==
  ASSUME TypeOK, TypeOK', pc' = pc, opened' - opened = Open(room') - Open(room) + lost' - lost
  PROVE  Balances
BY DueType, OpenType DEF Balances, TypeOK

(* append and reset begin and end nothing.                                 *)
LEMMA StoreOpen ==
  ASSUME TypeOK, NEW c \in Conns, NEW size \in BOOLEAN, NEW message \in BOOLEAN
  PROVE  Open(Appended(SecretOf[c], size, message)) = Open(room) /\ Open(Reset) = Open(room)
<1>1. CASE room = NoRoom
  BY <1>1, AppendedRoom, CountedNoRoom, SecretType, NoRoomFresh DEF TypeOK, Open
<1>2. CASE room \in Room
  BY <1>2, AppendedRoom, ResetRoom, SecretType, NoRoomFresh, ZenonT(60) DEF TypeOK, Open
<1> QED
  BY <1>1, <1>2 DEF TypeOK

(* An attach begins a segment exactly when it takes the room live.         *)
LEMMA AttachBalances ==
  ASSUME CountInv, NEW c \in Conns, Attach(c)
  PROVE  Balances
<1> USE SecretType
<1> DEFINE n == CountAfterConnect(SecretOf[c])
<1>1. TypeOK /\ LiveMatchesCount /\ pc[c] = "upgrading" /\ room' = Connect(SecretOf[c])
      /\ UNCHANGED <<opened, lost>>
  BY DEF CountInv, Attach
<1>2. CASE n = 0
  <2>1. room' = room /\ pc' = [pc EXCEPT ![c] = "loop"]
    BY <1>1, <1>2 DEF Attach, Goto, Connect
  <2> QED
    BY <1>1, <2>1, QuietBalances DEF PCs, Attached
<1>3. CASE n # 0
  <2>1. /\ room # NoRoom /\ room \in Room /\ room.password = SecretOf[c]
        /\ room.broadcasters \in Nat /\ n = room.broadcasters + 1
    BY <1>1, <1>3 DEF CountAfterConnect, TypeOK, Room
  <2>2. room' \in Room /\ room' # NoRoom /\ (room'.live <=> (room.live \/ room.broadcasters = 0))
    BY <1>1, <2>1, CountedRoom, NoRoomFresh
  <2>3. room.live <=> room.broadcasters > 0
    BY <1>1, <2>1 DEF LiveMatchesCount
  <2>4. Open(room') = 1 /\ Open(room) = IF n = 1 THEN 0 ELSE 1
    BY <2>1, <2>2, <2>3 DEF Open
  <2>5. CASE n = 1
    <3>1. pc' = [pc EXCEPT ![c] = "announceFirst"]
      BY <2>5 DEF Attach, Goto
    <3>2. Moves(pc, pc', c, "announceFirst")
      BY <1>1, <3>1 DEF Moves, TypeOK, PCs, Attached
    <3>3. Due(pc') = Due(pc) + 1 /\ DueEnds(pc') = DueEnds(pc)
      BY <1>1, <3>2, AtMove DEF Due, DueEnds
    <3> QED
      BY <1>1, <2>4, <2>5, <3>3, DueType DEF Balances, TypeOK
  <2>6. CASE n # 1
    <3>1. pc' = [pc EXCEPT ![c] = "announce"]
      BY <1>3, <2>6 DEF Attach, Goto
    <3>2. Open(room') = Open(room)
      BY <2>4, <2>6
    <3> QED
      BY <1>1, <3>1, <3>2, QuietBalances DEF PCs, Attached
  <2> QED
    BY <2>5, <2>6
<1> QED
  BY <1>2, <1>3

(* A detach ends one exactly when it takes the count to zero.              *)
LEMMA DetachBalances ==
  ASSUME CountInv, NEW c \in Conns, Detach(c)
  PROVE  Balances
<1> USE SecretType
<1>1. TypeOK /\ LiveMatchesCount /\ pc[c] = "detach" /\ room' = Disconnect(SecretOf[c])
      /\ UNCHANGED <<opened, lost>>
  BY DEF CountInv, Detach
<1>2. CASE EndsSegment(SecretOf[c])
  <2>1. /\ room # NoRoom /\ room \in Room /\ room.password = SecretOf[c]
        /\ room.live /\ ~(room.broadcasters > 1)
    BY <1>1, <1>2 DEF EndsSegment, TypeOK, Room
  <2>2. room' \in Room /\ ~room'.live
    BY <1>1, <2>1, CountedRoom
  <2>3. Open(room) = 1 /\ Open(room') = 0
    BY <2>1, <2>2 DEF Open
  <2>4. pc' = [pc EXCEPT ![c] = "emitEnd"]
    BY <1>2 DEF Detach, Goto
  <2>5. Moves(pc, pc', c, "emitEnd")
    BY <1>1, <2>4 DEF Moves, TypeOK, PCs
  <2>6. Due(pc') = Due(pc) /\ DueEnds(pc') = DueEnds(pc) + 1
    BY <1>1, <2>5, AtMove DEF Due, DueEnds
  <2> QED
    BY <1>1, <2>3, <2>6, DueType DEF Balances, TypeOK
<1>3. CASE ~EndsSegment(SecretOf[c])
  <2>1. Open(room') = Open(room)
    <3>1. CASE room = NoRoom \/ room.password # SecretOf[c]
      BY <1>1, <3>1 DEF Disconnect
    <3>2. CASE room # NoRoom /\ room.password = SecretOf[c]
      <4>1. room \in Room /\ room.broadcasters \in Nat
        BY <1>1, <3>2 DEF TypeOK, Room
      <4>2. room' \in Room /\ (room'.live <=> (room.live /\ room.broadcasters > 1))
        BY <1>1, <3>2, <4>1, CountedRoom
      <4>3. room'.live <=> room.live
        BY <1>3, <3>2, <4>1, <4>2 DEF EndsSegment
      <4> QED
        BY <3>2, <4>2, <4>3, NoRoomFresh DEF Open
    <3> QED
      BY <3>1, <3>2
  <2>2. pc' = [pc EXCEPT ![c] = "done"] \/ pc' = [pc EXCEPT ![c] = "emitOff"]
    BY <1>3 DEF Detach, Goto
  <2> QED
    BY <1>1, <2>1, <2>2, QuietBalances DEF PCs
<1> QED
  BY <1>2, <1>3

(* A publication reports what is due.                                      *)
LEMMA ReportBalances ==
  ASSUME TypeOK, NEW c \in Conns, Announce(c) \/ AnnounceOff(c)
  PROVE  Balances
<1>1. CASE Announce(c) /\ pc[c] = "announceFirst"
  <2>1. Moves(pc, pc', c, "loop") /\ room' = room /\ lost' = lost /\ opened' = opened + 1
    BY <1>1 DEF Announce, Goto, Moves, TypeOK, PCs, Attached
  <2>2. Due(pc') = Due(pc) - 1 /\ DueEnds(pc') = DueEnds(pc)
    BY <1>1, <2>1, AtMove DEF Due, DueEnds
  <2> QED
    BY <2>1, <2>2, DueType, OpenType DEF Balances, TypeOK
<1>2. CASE AnnounceOff(c) /\ pc[c] = "emitEnd"
  <2>1. Moves(pc, pc', c, "done") /\ room' = room /\ lost' = lost /\ opened' = opened - 1
    BY <1>2 DEF AnnounceOff, Goto, Moves, TypeOK, PCs
  <2>2. Due(pc') = Due(pc) /\ DueEnds(pc') = DueEnds(pc) - 1
    BY <1>2, <2>1, AtMove DEF Due, DueEnds
  <2> QED
    BY <2>1, <2>2, DueType, OpenType DEF Balances, TypeOK
<1>3. CASE pc[c] \notin {"announceFirst", "emitEnd"}
  BY <1>3, QuietBalances DEF Announce, AnnounceOff, Goto, PCs, Attached
<1> QED
  BY <1>1, <1>2, <1>3 DEF Announce, AnnounceOff

(* A delete ends the segment it finds and reports it at once.              *)
LEMMA DeleteOpen ==
  ASSUME TypeOK, NEW s, Delete(s)
  PROVE  opened' - opened = Open(room') - Open(room)
<1>1. CASE room' = NoRoom /\ room # NoRoom /\ opened' = IF room.live THEN opened - 1 ELSE opened
  BY <1>1 DEF Open, TypeOK
<1>2. CASE room' = room /\ opened' = opened
  BY <1>2, OpenType DEF TypeOK
<1> QED
  BY <1>1, <1>2 DEF Delete

(* The steps of the server's tasks keep the books,                         *)
LEMMA ServerStepBalances ==
  ASSUME CountInv, NEW c \in Conns, ServerStep(c)
  PROVE  Balances
<1>0. TypeOK
  BY DEF CountInv
<1>1. CASE UpgradeFails(c) \/ ReceiveTimesOut(c) \/ AckSent(c) \/ AckFails(c)
  BY <1>0, <1>1, QuietBalances
  DEF UpgradeFails, ReceiveTimesOut, AckSent, AckFails, Goto, PCs, Attached
<1> QED
  BY <1>0, <1>1, AttachBalances, DetachBalances, ReportBalances DEF ServerStep

(* and so do the clients'.                                                 *)
LEMMA ClientStepBalances ==
  ASSUME TypeOK, TypeOK', NEW c \in Conns, ClientStep(c)
  PROVE  Balances
<1>1. CASE Handshake(c)
  <2>1. Open(room') = Open(room)
    <3>1. room' = room \/ room' = Appended(SecretOf[c], FALSE, FALSE)
      BY <1>1 DEF Handshake
    <3>2. Open(Appended(SecretOf[c], FALSE, FALSE)) = Open(room)
      BY StoreOpen
    <3> QED
      BY <3>1, <3>2
  <2> QED
    BY <1>1, <2>1, QuietBalances DEF Handshake, Goto, PCs, Attached
<1>2. CASE PeerVanishes(c)
  BY <1>2, StillBalances, OpenType DEF PeerVanishes, TypeOK
<1>3. ASSUME NEW f, Receives(c, f), NEW size \in BOOLEAN, NEW message \in BOOLEAN,
             NEW to \in {"ack", "loop"}, Store(c, size, message, to)
      PROVE  Balances
  <2>1. Open(room') = Open(room)
    BY <1>3, StoreOpen DEF Store
  <2> QED
    BY <1>3, <2>1, QuietBalances DEF Receives, Store, Goto, PCs, Attached
<1>4. CASE ReceiveData(c) \/ ReceiveSize(c) \/ ReceiveAlive(c)
  BY <1>3, <1>4 DEF ReceiveData, ReceiveSize, ReceiveAlive
<1>5. CASE ReceiveReset(c)
  <2>1. Open(room') = Open(room)
    BY <1>5, StoreOpen DEF ReceiveReset
  <2> QED
    BY <1>5, <2>1, QuietBalances DEF ReceiveReset, Receives, Goto, PCs, Attached
<1>6. CASE ReceiveDelete(c)
  <2>1. Moves(pc, pc', c, "detach") /\ pc[c] = "loop" /\ lost' = lost
    BY <1>6 DEF ReceiveDelete, Receives, Goto, Moves, TypeOK, PCs, Attached
  <2>2. Due(pc') = Due(pc) /\ DueEnds(pc') = DueEnds(pc)
    BY <2>1, AtMove DEF Due, DueEnds
  <2>3. opened' - opened = Open(room') - Open(room)
    BY <1>6, DeleteOpen DEF ReceiveDelete
  <2> QED
    BY <2>1, <2>2, <2>3, DueType, OpenType DEF Balances, TypeOK
<1>7. CASE ReceiveEnd(c)
  BY <1>7, QuietBalances DEF ReceiveEnd, Receives, Goto, PCs, Attached
<1> QED
  BY <1>1, <1>2, <1>4, <1>5, <1>6, <1>7 DEF ClientStep

(* Ageing ends nothing.                                                    *)
LEMMA AgedRoom ==
  ASSUME NEW r \in Room, r.age # Stale
  PROVE  LET aged == [r EXCEPT !.age = @ + 1]
         IN  aged.live = r.live /\ aged # NoRoom
BY NoRoomFresh, StaleType DEF Room

(* Whatever attaches, detaches, deletes and evictions come in between,     *)
(* live_since and the broadcast_started and broadcast_ended reports agree: *)
(* every segment is counted once, and an open one is somebody's.           *)
THEOREM SegmentsReportedOnce == Spec => []SegmentsBalance
<1> DEFINE Books == opened + Due(pc) = Open(room) + lost + DueEnds(pc)
<1>1. Init => Books
  <2> SUFFICES ASSUME Init PROVE Books
    OBVIOUS
  <2>1. At(pc, "announceFirst") = {} /\ At(pc, "emitEnd") = {}
    BY DEF Init, At
  <2> QED
    BY <2>1, FS_EmptySet DEF Init, Due, DueEnds, Open
<1>2. CountInv /\ Books /\ [Next]_vars => Books'
  <2> SUFFICES ASSUME CountInv, Books, [Next]_vars PROVE Books'
    OBVIOUS
  <2>1. TypeOK /\ TypeOK'
    BY NextType DEF CountInv
  <2>2. Balances
    <3>1. ASSUME NEW c \in Conns, ServerStep(c) PROVE Balances
      BY <3>1, ServerStepBalances
    <3>2. ASSUME NEW c \in Conns, ClientStep(c) PROVE Balances
      BY <2>1, <3>2, ClientStepBalances
    <3>3. ASSUME NEW c \in Conns, TaskDies(c) PROVE Balances
      BY <2>1, <3>3, QuietBalances DEF TaskDies, Goto, PCs, Attached
    <3>4. ASSUME NEW s \in Deleters, HttpDelete(s) PROVE Balances
      BY <2>1, <3>4, DeleteOpen, StillBalances, OpenType DEF HttpDelete, TypeOK
    <3>5. CASE Evict
      BY <2>1, <3>5, StillBalances DEF Evict, Open, TypeOK
    <3>6. CASE Tick
      <4>1. Open(room') = Open(room)
        <5>1. CASE room' = room
          BY <5>1
        <5>2. CASE room # NoRoom /\ room.age # Stale /\ room' = [room EXCEPT !.age = @ + 1]
          <6>1. room \in Room
            BY <2>1, <5>2 DEF TypeOK
          <6>2. room'.live = room.live /\ room' # NoRoom
            BY <5>2, <6>1, AgedRoom
          <6> QED
            BY <5>2, <6>2 DEF Open
        <5> QED
          BY <3>6, <5>1, <5>2 DEF Tick
      <4> QED
        BY <2>1, <3>6, <4>1, StillBalances, OpenType DEF Tick, TypeOK
    <3>7. CASE UNCHANGED vars
      BY <2>1, <3>7, StillBalances, OpenType DEF vars, TypeOK
    <3> QED
      BY <3>1, <3>2, <3>3, <3>4, <3>5, <3>6, <3>7 DEF Next
  <2>3. /\ opened \in Int /\ opened' \in Int /\ lost \in Nat /\ lost' \in Nat
        /\ Due(pc) \in Nat /\ Due(pc') \in Nat /\ DueEnds(pc) \in Nat /\ DueEnds(pc') \in Nat
        /\ Open(room) \in {0, 1} /\ Open(room') \in {0, 1}
    BY <2>1, DueType, OpenType DEF TypeOK
  <2> QED
    BY <2>2, <2>3 DEF Balances
<1>3. CountInv /\ Books => SegmentsBalance
  BY DEF CountInv, SegmentsBalance, Due, DueEnds, Open
<1> QED
  BY <1>1, <1>2, <1>3, CountInvariant, PTL DEF Spec

-----------------------------------------------------------------------------
(* Time.                                                                   *)

(* What append, reset and the counting do to the age, the history and the  *)
(* size of the entry.                                                      *)
LEMMA AppendedContent ==
  ASSUME room \in Room \cup {NoRoom}, NEW s \in Secrets,
         NEW size \in BOOLEAN, NEW message \in BOOLEAN
  PROVE  /\ Appended(s, size, message).age = 0
         /\ Appended(s, size, message).size = ((room # NoRoom /\ room.size) \/ size)
         /\ Appended(s, size, message).hist = ((room # NoRoom /\ room.hist) \/ message)
<1> DEFINE entry == IF room = NoRoom THEN NewRoom(s) ELSE room
<1>1. /\ NewRoom(s) \in Room /\ NewRoom(s).size = FALSE /\ NewRoom(s).hist = FALSE
  BY StaleType DEF NewRoom, Room
<1>2. /\ entry \in Room
      /\ entry.size = (room # NoRoom /\ room.size) /\ entry.hist = (room # NoRoom /\ room.hist)
  BY <1>1 DEF Room
<1>3. Appended(s, size, message) = Refreshed(Filled(entry, size, message))
  BY DEF Appended
<1> HIDE DEF entry
<1> DEFINE filled == Filled(entry, size, message)
<1>4. filled \in Room /\ filled.size = (entry.size \/ size) /\ filled.hist = (entry.hist \/ message)
  <2>1. (entry.size \/ size) \in BOOLEAN /\ (entry.hist \/ message) \in BOOLEAN
    OBVIOUS
  <2> QED
    BY <1>2, <2>1 DEF Room, Filled
<1>5. /\ Refreshed(filled).age = 0 /\ Refreshed(filled).size = filled.size
      /\ Refreshed(filled).hist = filled.hist
  BY <1>4 DEF Refreshed, Room
<1> QED
  BY <1>2, <1>3, <1>4, <1>5

(* reset.                                                                  *)
LEMMA ResetContent ==
  ASSUME room \in Room
  PROVE  /\ Reset.age \in {0, room.age} /\ Reset.size = room.size
         /\ Reset.hist => room.hist
<1>1. CASE Reset = room
  BY <1>1
<1>2. CASE Reset = Refreshed([room EXCEPT !.hist = FALSE])
  <2>1. /\ Refreshed([room EXCEPT !.hist = FALSE]).age = 0
        /\ Refreshed([room EXCEPT !.hist = FALSE]).size = room.size
        /\ Refreshed([room EXCEPT !.hist = FALSE]).hist = FALSE
    BY DEF Refreshed, Room
  <2> QED
    BY <1>2, <2>1
<1> QED
  BY <1>1, <1>2 DEF Reset

(* broadcaster_connected and broadcaster_disconnected.                     *)
LEMMA CountedContent ==
  ASSUME room \in Room, NEW s
  PROVE  /\ Connect(s).age = room.age /\ Disconnect(s).age = room.age
         /\ Connect(s).size = room.size /\ Disconnect(s).size = room.size
         /\ Connect(s).hist = room.hist /\ Disconnect(s).hist = room.hist
<1>1. ASSUME NEW n, NEW l
      PROVE  /\ Counting(room, n, l).age = room.age /\ Counting(room, n, l).size = room.size
             /\ Counting(room, n, l).hist = room.hist
  BY DEF Counting, Room
<1> QED
  BY <1>1 DEF Connect, Disconnect

(* How much longer than the current wait of a task at `at' the room may    *)
(* have been without a refresh: the upgrade came before the first frame,   *)
(* and a reset that clears nothing refreshes nothing.                      *)
Slack(at, st) ==
  IF at \in {"upgrading", "ack"} THEN 0
  ELSE IF at = "detach" THEN UpgradeLimit + 2 * IdleTimeout
  ELSE IF at = "loop" /\ st # "new" THEN UpgradeLimit + IdleTimeout
  ELSE UpgradeLimit

Timely(at, waited, st) ==
  /\ at \in {"loop", "ack"} => waited <= IdleTimeout
  /\ at = "upgrading" => waited <= UpgradeLimit
  /\ at \in {"idle", "announce", "announceFirst", "detach"} => waited = 0
  /\ at \in {"idle", "upgrading", "announce", "announceFirst"} => st = "new"
  /\ at = "ack" => st # "new"

(* No wait outlasts its timer, and no frame comes before the loop.         *)
Timers == \A c \in Conns : Timely(pc[c], silent[c], stage[c])

(* Whoever is attached, or about to be, has refreshed the room lately.     *)
Recent ==
  (~vanished /\ room # NoRoom) =>
     \A c \in Conns :
       pc[c] \in Using \ {"dead"} => room.age <= silent[c] + Slack(pc[c], stage[c])

(* What a connection that sent its size left in the room is still there.   *)
Sized ==
  (~vanished /\ room # NoRoom) =>
     /\ room.hist => room.size
     /\ \A c \in Conns : pc[c] \in {"loop", "ack"} /\ stage[c] = "sized" => room.size

TimeInv == Timers /\ Recent /\ Sized

(* The task c moves to `to'; nobody else's clock or stage changes.         *)
MovesAlone(c, to) ==
  /\ pc' = [pc EXCEPT ![c] = to]
  /\ \A d \in Conns : d # c => silent'[d] = silent[d] /\ stage'[d] = stage[d]

(* A task that moves alone is where it goes, and the others stay.          *)
LEMMA MovedAlone ==
  ASSUME TypeOK, NEW c \in Conns, NEW to, MovesAlone(c, to)
  PROVE  /\ pc'[c] = to
         /\ \A d \in Conns : d # c => pc'[d] = pc[d] /\ silent'[d] = silent[d] /\ stage'[d] = stage[d]
BY DEF TypeOK, MovesAlone

(* The slack is a number.                                                  *)
LEMMA SlackType == ASSUME NEW at, NEW st PROVE Slack(at, st) \in Nat
BY TimesTyped DEF Slack

(* Such a move keeps the invariant if it does for the task that moves: the *)
(* room gets no older by it, and loses no size.                            *)
LEMMA MoveKeeps ==
  ASSUME TypeOK, TimeInv, NEW c \in Conns, NEW to, MovesAlone(c, to),
         Timely(to, silent'[c], stage'[c]),
         (~vanished' /\ room' # NoRoom) =>
            /\ ~vanished /\ room # NoRoom
            /\ room'.age \in {0, room.age}
            /\ to \in Using \ {"dead"} => room'.age <= silent'[c] + Slack(to, stage'[c])
            /\ room.size => room'.size
            /\ room'.hist => room'.size
            /\ to \in {"loop", "ack"} /\ stage'[c] = "sized" => room'.size
  PROVE  TimeInv'
<1>1. Timers'
  <2>1. ASSUME NEW d \in Conns PROVE Timely(pc'[d], silent'[d], stage'[d])
    BY MovedAlone DEF Timers, TimeInv
  <2> QED
    BY <2>1 DEF Timers, Timely
<1>2. Recent'
  <2> SUFFICES ASSUME ~vanished', room' # NoRoom, NEW d \in Conns, pc'[d] \in Using \ {"dead"}
               PROVE  room'.age <= silent'[d] + Slack(pc'[d], stage'[d])
    BY DEF Recent, Using, Attached, Slack
  <2>1. CASE d = c
    BY <2>1, MovedAlone
  <2>2. CASE d # c
    <3>1. pc'[d] = pc[d] /\ silent'[d] = silent[d] /\ stage'[d] = stage[d]
      BY <2>2, MovedAlone
    <3>2. room.age <= silent[d] + Slack(pc[d], stage[d])
      BY <3>1 DEF Recent, TimeInv
    <3>3. silent[d] \in Nat /\ Slack(pc[d], stage[d]) \in Nat
      BY SlackType DEF TypeOK
    <3> QED
      BY <3>1, <3>2, <3>3
  <2> QED
    BY <2>1, <2>2
<1>3. Sized'
  <2> SUFFICES ASSUME ~vanished', room' # NoRoom, NEW d \in Conns,
                      pc'[d] \in {"loop", "ack"}, stage'[d] = "sized"
               PROVE  room'.size
    BY DEF Sized
  <2>1. CASE d = c
    BY <2>1, MovedAlone
  <2>2. CASE d # c
    BY <2>2, MovedAlone DEF Sized, TimeInv
  <2> QED
    BY <2>1, <2>2
<1> QED
  BY <1>1, <1>2, <1>3 DEF TimeInv

(* A task that leaves the room, which nothing else happens to.             *)
LEMMA LeaveKeeps ==
  ASSUME TypeOK, TimeInv, NEW c \in Conns, NEW to \in PCs \ (Using \ {"dead"}), to # "idle",
         MovesAlone(c, to), room' = room, vanished' = vanished
  PROVE  TimeInv'
<1>1. Timely(to, silent'[c], stage'[c])
  BY DEF Timely, Using, Attached
<1>2. (~vanished' /\ room' # NoRoom) => (room'.hist => room'.size)
  BY DEF TimeInv, Sized
<1> QED
  BY <1>1, <1>2, MoveKeeps DEF Using, Attached

(* In its loop a task has not let the room age for long.                   *)
LEMMA LoopAge ==
  ASSUME TypeOK, TimeInv, ~vanished, room # NoRoom, NEW c \in Conns, pc[c] \in {"loop", "ack"}
  PROVE  room.age \in Nat /\ room.age <= UpgradeLimit + 2 * IdleTimeout
<1>1. room.age \in Nat
  BY StaleType DEF TypeOK, Room
<1>2. room.age <= silent[c] + Slack(pc[c], stage[c]) /\ silent[c] \in Nat /\ silent[c] <= IdleTimeout
  BY DEF TimeInv, Recent, Timers, Timely, TypeOK, Using, Attached
<1>3. Slack(pc[c], stage[c]) \in Nat /\ Slack(pc[c], stage[c]) <= UpgradeLimit + IdleTimeout
  BY TimesTyped DEF Slack
<1> QED
  BY <1>1, <1>2, <1>3, TimesTyped

(* A step of a server task.                                                *)
LEMMA ServerStepTime ==
  ASSUME TypeOK, ExactWhileRoomStays, TimeInv, NEW c \in Conns, ServerStep(c)
  PROVE  TimeInv'
<1> USE SecretType, TimesTyped
<1>1. CASE UpgradeFails(c) \/ AnnounceOff(c)
  BY <1>1, LeaveKeeps
  DEF UpgradeFails, AnnounceOff, Goto, Rearm, MovesAlone, TypeOK, PCs, Using, Attached
<1>2. CASE Attach(c)
  <2>a. PICK to \in {"loop", "announce", "announceFirst"} :
          /\ pc' = [pc EXCEPT ![c] = to]
          /\ to = "loop" => CountAfterConnect(SecretOf[c]) = 0
    <3>1. PICK n : n = CountAfterConnect(SecretOf[c])
      OBVIOUS
    <3>2. pc' = [pc EXCEPT ![c] = CASE n = 0 -> "loop" [] n = 1 -> "announceFirst"
                                    [] OTHER -> "announce"]
      BY <1>2, <3>1 DEF Attach, Goto
    <3>3. CASE n = 0
      BY <3>1, <3>2, <3>3
    <3>4. CASE n = 1
      BY <3>1, <3>2, <3>4
    <3>5. CASE n \notin {0, 1}
      BY <3>1, <3>2, <3>5
    <3> QED
      BY <3>3, <3>4, <3>5
  <2>1. MovesAlone(c, to) /\ (to = "loop" => CountAfterConnect(SecretOf[c]) = 0)
    BY <1>2, <2>a DEF Attach, Rearm, MovesAlone, TypeOK
  <2>2. /\ pc[c] = "upgrading" /\ silent'[c] = 0 /\ stage' = stage /\ vanished' = vanished
        /\ room' = Connect(SecretOf[c]) /\ stage[c] = "new"
    BY <1>2 DEF Attach, Rearm, TypeOK, TimeInv, Timers, Timely
  <2>3. Timely(to, silent'[c], stage'[c])
    BY <2>1, <2>2 DEF Timely
  <2>4. ASSUME ~vanished', room' # NoRoom
        PROVE  /\ ~vanished /\ room # NoRoom
               /\ room'.age = room.age /\ room'.size = room.size /\ room'.hist = room.hist
               /\ to # "loop" /\ room.age <= UpgradeLimit
    <3>1. room \in Room /\ room # NoRoom /\ SecretOf[c] = room.password
      BY <2>2, <2>4, UsersKnowPassword DEF Using
    <3>2. room'.age = room.age /\ room'.size = room.size /\ room'.hist = room.hist
      BY <2>2, <3>1, CountedContent
    <3>3. room.broadcasters \in Nat
      BY <3>1 DEF Room
    <3>4. to # "loop"
      BY <2>1, <3>1, <3>3 DEF CountAfterConnect
    <3>5. room.age <= silent[c] + 0 /\ silent[c] <= UpgradeLimit
      BY <2>2, <2>4, <3>1 DEF TimeInv, Recent, Timers, Timely, Slack, Using
    <3>6. room.age \in Nat /\ silent[c] \in Nat
      BY <3>1, StaleType DEF Room, TypeOK
    <3> QED
      BY <2>2, <2>4, <3>1, <3>2, <3>4, <3>5, <3>6
  <2>5. ASSUME ~vanished', room' # NoRoom PROVE room.hist => room.size
    BY <2>4, <2>5 DEF TimeInv, Sized
  <2>6. to # "loop" => Slack(to, stage'[c]) = UpgradeLimit
    BY <2>1 DEF Slack
  <2> QED
    BY <2>1, <2>2, <2>3, <2>4, <2>5, <2>6, MoveKeeps
<1>3. CASE Announce(c)
  <2>1. /\ MovesAlone(c, "loop") /\ pc[c] \in {"announce", "announceFirst"}
        /\ room' = room /\ vanished' = vanished /\ silent' = silent /\ stage' = stage
    BY <1>3 DEF Announce, Goto, MovesAlone
  <2>2. silent[c] = 0 /\ stage[c] = "new"
    BY <2>1 DEF TimeInv, Timers, Timely
  <2>3. Timely("loop", silent'[c], stage'[c])
    BY <2>1, <2>2 DEF Timely
  <2>4. Slack("loop", stage[c]) = Slack(pc[c], stage[c])
    BY <2>1, <2>2 DEF Slack
  <2>5. (~vanished /\ room # NoRoom) => room.age <= silent[c] + Slack(pc[c], stage[c])
    BY <2>1 DEF TimeInv, Recent, Using, Attached
  <2>6. (~vanished /\ room # NoRoom) => (room.hist => room.size)
    BY DEF TimeInv, Sized
  <2> QED
    BY <2>1, <2>2, <2>3, <2>4, <2>5, <2>6, MoveKeeps
<1>4. CASE ReceiveTimesOut(c) \/ AckFails(c)
  <2>1. /\ MovesAlone(c, "detach") /\ pc[c] \in {"loop", "ack"} /\ silent'[c] = 0
        /\ room' = room /\ vanished' = vanished /\ stage' = stage
    BY <1>4 DEF ReceiveTimesOut, AckFails, Goto, Rearm, MovesAlone, TypeOK
  <2>2. Timely("detach", silent'[c], stage'[c])
    BY <2>1 DEF Timely
  <2>3. Slack("detach", stage'[c]) = UpgradeLimit + 2 * IdleTimeout
    BY DEF Slack
  <2>4. (~vanished /\ room # NoRoom) => room.age <= 0 + (UpgradeLimit + 2 * IdleTimeout)
    BY <2>1, LoopAge
  <2>5. (~vanished /\ room # NoRoom) => (room.hist => room.size)
    BY DEF TimeInv, Sized
  <2> QED
    BY <2>1, <2>2, <2>3, <2>4, <2>5, MoveKeeps
<1>5. CASE AckSent(c)
  <2>1. /\ MovesAlone(c, "loop") /\ pc[c] = "ack" /\ silent'[c] = 0
        /\ room' = room /\ vanished' = vanished /\ stage' = stage
    BY <1>5 DEF AckSent, Goto, Rearm, MovesAlone, TypeOK
  <2>2. Timely("loop", silent'[c], stage'[c])
    BY <2>1 DEF Timely
  <2>3. Slack("loop", stage'[c]) = UpgradeLimit + IdleTimeout
    BY <2>1 DEF Slack, TimeInv, Timers, Timely
  <2>4. (~vanished /\ room # NoRoom) => room.age <= IdleTimeout
    <3> SUFFICES ASSUME ~vanished, room # NoRoom PROVE room.age <= IdleTimeout
      OBVIOUS
    <3>1. room.age <= silent[c] + 0 /\ silent[c] <= IdleTimeout
      BY <2>1 DEF TimeInv, Recent, Timers, Timely, Slack, Using, Attached
    <3>2. room.age \in Nat /\ silent[c] \in Nat
      BY StaleType DEF Room, TypeOK
    <3> QED
      BY <3>1, <3>2
  <2>6. (~vanished /\ room # NoRoom) => room.age <= 0 + (UpgradeLimit + IdleTimeout)
    <3>1. (~vanished /\ room # NoRoom) => room.age \in Nat
      BY StaleType DEF Room, TypeOK
    <3> QED
      BY <2>4, <3>1
  <2>5. (~vanished /\ room # NoRoom) =>
          (room.hist => room.size) /\ (stage[c] = "sized" => room.size)
    BY <2>1 DEF TimeInv, Sized
  <2> QED
    BY <2>1, <2>2, <2>3, <2>5, <2>6, MoveKeeps
<1>6. CASE Detach(c)
  <2>1. PICK to \in {"emitEnd", "done", "emitOff"} : MovesAlone(c, to)
    BY <1>6 DEF Detach, Goto, MovesAlone
  <2>2. Timely(to, silent'[c], stage'[c]) /\ to \notin Using
    BY <2>1 DEF Timely, Using, Attached
  <2>3. room' = Disconnect(SecretOf[c]) /\ vanished' = vanished
    BY <1>6 DEF Detach
  <2>4. ASSUME ~vanished', room' # NoRoom
        PROVE  /\ ~vanished /\ room # NoRoom
               /\ room'.age = room.age /\ room'.size = room.size /\ room'.hist = room.hist
    BY <2>3, <2>4, CountedContent, CountedNoRoom DEF TypeOK
  <2>5. ASSUME ~vanished', room' # NoRoom PROVE room.hist => room.size
    BY <2>4, <2>5 DEF TimeInv, Sized
  <2> QED
    BY <2>1, <2>2, <2>4, <2>5, MoveKeeps
<1> QED
  BY <1>1, <1>2, <1>3, <1>4, <1>5, <1>6 DEF ServerStep

(* A frame that is stored. *)
LEMMA StoreTime ==
  ASSUME CliOrder, TypeOK, ExactWhileRoomStays, TimeInv, NEW c \in Conns, NEW f, Receives(c, f),
         NEW size \in BOOLEAN, NEW message \in BOOLEAN, NEW to \in {"ack", "loop"},
         message => f = "data", f = "size" => size, Store(c, size, message, to)
  PROVE  TimeInv'
<1> USE SecretType, TimesTyped
<1>1. /\ pc[c] = "loop" /\ silent'[c] = 0 /\ vanished' = vanished
      /\ stage'[c] # "new" /\ (stage'[c] = "sized" => stage[c] = "sized" \/ f = "size")
      /\ (f = "data" => stage[c] = "sized")
      /\ \A d \in Conns : d # c => silent'[d] = silent[d] /\ stage'[d] = stage[d]
  BY DEF Receives, Store, Rearm, TypeOK
<1>2. CASE Authorized(SecretOf[c])
  <2>1. MovesAlone(c, to) /\ room' = Appended(SecretOf[c], size, message)
    BY <1>1, <1>2 DEF Store, Goto, MovesAlone
  <2>2. Timely(to, silent'[c], stage'[c])
    BY <1>1 DEF Timely
  <2>3. /\ room'.age = 0
        /\ room'.size = ((room # NoRoom /\ room.size) \/ size)
        /\ room'.hist = ((room # NoRoom /\ room.hist) \/ message)
    BY <2>1, AppendedContent DEF TypeOK
  <2>4. ~vanished => room # NoRoom
    BY <1>1, UsersKnowPassword DEF Using, Attached
  <2>5. ~vanished => (room.hist => room.size) /\ (stage[c] = "sized" => room.size)
    BY <1>1, <2>4 DEF TimeInv, Sized
  <2>6. 0 <= 0 + Slack(to, stage'[c])
    BY SlackType
  <2>7. ~vanished => /\ room.size => room'.size
                     /\ room'.hist => room'.size
                     /\ stage'[c] = "sized" => room'.size
    BY <1>1, <2>3, <2>4, <2>5
  <2> QED
    BY <1>1, <2>1, <2>2, <2>3, <2>4, <2>6, <2>7, MoveKeeps
<1>3. CASE ~Authorized(SecretOf[c])
  <2>1. MovesAlone(c, "detach") /\ Timely("detach", silent'[c], stage'[c])
    BY <1>1, <1>3 DEF Store, Goto, MovesAlone, Timely
  <2>2. vanished
    BY <1>1, <1>3, UsersKnowPassword DEF Using, Attached, Authorized
  <2> QED
    BY <1>1, <2>1, <2>2, MoveKeeps
<1> QED
  BY <1>2, <1>3

(* A step of a client. *)
LEMMA ClientStepTime ==
  ASSUME CliOrder, TypeOK, TypeOK', ExactWhileRoomStays, TimeInv, NEW c \in Conns, ClientStep(c)
  PROVE  TimeInv'
<1> USE SecretType, TimesTyped
<1>1. CASE Handshake(c) /\ room # NoRoom
  <2>1. /\ silent' = silent /\ stage' = stage /\ vanished' = vanished
        /\ silent[c] = 0 /\ stage[c] = "new"
    BY <1>1 DEF Handshake, TimeInv, Timers, Timely
  <2>2. room # NoRoom => (~vanished => (room.hist => room.size))
    BY DEF TimeInv, Sized
  <2>3. CASE Authorized(SecretOf[c])
    <3>1. MovesAlone(c, "upgrading") /\ room' = Appended(SecretOf[c], FALSE, FALSE)
      BY <1>1, <2>1, <2>3 DEF Handshake, Goto, MovesAlone
    <3>2. /\ room'.age = 0 /\ room'.size = room.size /\ room'.hist = room.hist
      <4>1. room.size \in BOOLEAN /\ room.hist \in BOOLEAN
        BY <1>1 DEF TypeOK, Room
      <4> QED
        BY <1>1, <3>1, <4>1, AppendedContent DEF TypeOK
    <3>3. Timely("upgrading", silent'[c], stage'[c]) /\ 0 <= silent'[c] + Slack("upgrading", stage'[c])
      BY <2>1 DEF Timely, Slack
    <3> QED
      BY <1>1, <2>1, <2>2, <3>1, <3>2, <3>3, MoveKeeps
  <2>4. CASE ~Authorized(SecretOf[c])
    <3>1. MovesAlone(c, "rejected") /\ room' = room
      BY <1>1, <2>1, <2>4 DEF Handshake, Goto, MovesAlone
    <3> QED
      BY <2>1, <3>1, LeaveKeeps DEF PCs, Using, Attached
  <2> QED
    BY <2>3, <2>4
<1>2. CASE Handshake(c) /\ room = NoRoom
  <2>1. /\ silent' = silent /\ stage' = stage /\ vanished' = vanished
        /\ silent[c] = 0 /\ stage[c] = "new"
        /\ pc' = [pc EXCEPT ![c] = "upgrading"] /\ room' = Appended(SecretOf[c], FALSE, FALSE)
    BY <1>2 DEF Handshake, TimeInv, Timers, Timely, Authorized, Goto
  <2>2. room'.age = 0 /\ room'.hist = FALSE
    BY <1>2, <2>1, AppendedContent DEF TypeOK
  <2>3. ~vanished => \A d \in Conns : pc[d] \notin Using
    BY <1>2 DEF ExactWhileRoomStays, InUse
  <2>4. Timers'
    <3>1. MovesAlone(c, "upgrading") /\ Timely("upgrading", silent'[c], stage'[c])
      BY <2>1 DEF MovesAlone, Timely
    <3>2. ASSUME NEW d \in Conns PROVE Timely(pc'[d], silent'[d], stage'[d])
      BY <3>1, MovedAlone DEF Timers, TimeInv
    <3> QED
      BY <3>2 DEF Timers, Timely
  <2>5. ASSUME NEW d \in Conns, ~vanished, pc'[d] \in Using PROVE d = c /\ pc'[d] = "upgrading"
    BY <2>1, <2>3, <2>5 DEF TypeOK
  <2>6. 0 <= silent'[c] + Slack("upgrading", stage'[c])
    BY <2>1 DEF Slack
  <2>7. Recent'
    BY <2>1, <2>2, <2>5, <2>6 DEF Recent, Slack, Using, Attached
  <2>8. Sized'
    BY <2>1, <2>2, <2>5 DEF Sized, Using, Attached
  <2> QED
    BY <2>4, <2>7, <2>8 DEF TimeInv
<1>3. CASE PeerVanishes(c)
  BY <1>3 DEF PeerVanishes, TimeInv, Timers, Timely, Recent, Slack, Sized
<1>4. CASE ReceiveData(c) \/ ReceiveSize(c) \/ ReceiveAlive(c)
  <2>1. CASE ReceiveData(c)
    <3>1. PICK size \in BOOLEAN, message \in BOOLEAN, to \in {"ack", "loop"} :
            ~size /\ Store(c, size, message, to)
      BY <2>1 DEF ReceiveData
    <3>2. Receives(c, "data") /\ (message => "data" = "data") /\ ("data" = "size" => size)
      BY <2>1 DEF ReceiveData
    <3> QED
      BY <3>1, <3>2, StoreTime
  <2>2. CASE ReceiveSize(c)
    BY <2>2, StoreTime DEF ReceiveSize
  <2>3. CASE ReceiveAlive(c)
    <3>1. PICK size \in BOOLEAN, message \in BOOLEAN, to \in {"ack", "loop"} :
            ~size /\ ~message /\ Store(c, size, message, to)
      BY <2>3 DEF ReceiveAlive
    <3>2. Receives(c, "alive") /\ (message => "alive" = "data") /\ ("alive" = "size" => size)
      BY <2>3, <3>1 DEF ReceiveAlive
    <3> QED
      BY <3>1, <3>2, StoreTime
  <2> QED
    BY <1>4, <2>1, <2>2, <2>3
<1>5. ASSUME NEW f, Receives(c, f), pc' = [pc EXCEPT ![c] = "detach"], Rearm(c),
             (~vanished' /\ room' # NoRoom) => room' = room /\ ~vanished
      PROVE  TimeInv'
  <2>1. /\ MovesAlone(c, "detach") /\ pc[c] = "loop" /\ silent'[c] = 0
    BY <1>5 DEF Receives, Rearm, MovesAlone, TypeOK
  <2>2. Timely("detach", silent'[c], stage'[c])
    BY <2>1 DEF Timely
  <2>3. Slack("detach", stage'[c]) = UpgradeLimit + 2 * IdleTimeout
    BY DEF Slack
  <2>4. (~vanished /\ room # NoRoom) => room.age <= 0 + (UpgradeLimit + 2 * IdleTimeout)
    BY <2>1, LoopAge
  <2>5. (~vanished /\ room # NoRoom) => (room.hist => room.size)
    BY DEF TimeInv, Sized
  <2> QED
    BY <1>5, <2>1, <2>2, <2>3, <2>4, <2>5, MoveKeeps
<1>6. CASE ReceiveReset(c) /\ Authorized(SecretOf[c])
  <2>1. /\ MovesAlone(c, "loop") /\ pc[c] = "loop" /\ silent'[c] = 0 /\ room' = Reset
        /\ vanished' = vanished /\ stage[c] = "new" /\ stage'[c] = "greeted"
    BY <1>6 DEF ReceiveReset, Receives, Goto, Rearm, MovesAlone, TypeOK
  <2>2. Timely("loop", silent'[c], stage'[c])
    BY <2>1 DEF Timely
  <2>3. Slack("loop", stage'[c]) = UpgradeLimit + IdleTimeout /\ Slack("loop", stage[c]) = UpgradeLimit
    BY <2>1 DEF Slack
  <2>4. ASSUME ~vanished', room' # NoRoom
        PROVE  /\ ~vanished /\ room # NoRoom /\ room'.age \in {0, room.age}
               /\ room'.size = room.size /\ (room'.hist => room.hist)
               /\ room'.age <= 0 + (UpgradeLimit + IdleTimeout)
               /\ room.hist => room.size
    <3>1. room \in Room /\ room # NoRoom /\ ~vanished
      BY <2>1, <2>4, UsersKnowPassword DEF Using, Attached
    <3>2. /\ room'.age \in {0, room.age} /\ room'.size = room.size /\ (room'.hist => room.hist)
      BY <2>1, <3>1, ResetContent
    <3>3. room.age <= silent[c] + UpgradeLimit /\ silent[c] <= IdleTimeout
      BY <2>1, <2>3, <3>1 DEF TimeInv, Recent, Timers, Timely, Using, Attached
    <3>4. room.age \in Nat /\ silent[c] \in Nat
      BY <3>1, StaleType DEF TypeOK, Room
    <3>5. room.age <= 0 + (UpgradeLimit + IdleTimeout)
      BY <3>3, <3>4
    <3>6. room'.age <= 0 + (UpgradeLimit + IdleTimeout)
      BY <3>2, <3>5
    <3>7. room.hist => room.size
      BY <3>1 DEF TimeInv, Sized
    <3> QED
      BY <3>1, <3>2, <3>6, <3>7
  <2> QED
    BY <2>1, <2>2, <2>3, <2>4, MoveKeeps
<1>7. CASE ReceiveReset(c) /\ ~Authorized(SecretOf[c])
  BY <1>5, <1>7 DEF ReceiveReset, Goto
<1>8. CASE ReceiveDelete(c)
  <2>1. (~vanished' /\ room' # NoRoom) => room' = room /\ ~vanished
    BY <1>8 DEF ReceiveDelete, Delete, TypeOK
  <2> QED
    BY <1>5, <1>8, <2>1 DEF ReceiveDelete, Goto
<1>9. CASE ReceiveEnd(c)
  BY <1>5, <1>9 DEF ReceiveEnd, Goto
<1> QED
  BY <1>1, <1>2, <1>3, <1>4, <1>6, <1>7, <1>8, <1>9 DEF ClientStep

(* A tick of the clock. *)
LEMMA TickTime ==
  ASSUME TypeOK, TypeOK', TimeInv, Tick
  PROVE  TimeInv'
<1>1. pc' = pc /\ stage' = stage /\ vanished' = vanished
  BY DEF Tick
<1>2. Timers'
  <2>1. ASSUME NEW d \in Conns PROVE Timely(pc'[d], silent'[d], stage'[d])
    <3>1. CASE pc[d] \in {"loop", "ack", "upgrading"}
      <4>1. silent[d] \in Nat /\ silent'[d] = silent[d] + 1
        BY <3>1 DEF Tick, TypeOK
      <4>2. (pc[d] = "upgrading" /\ silent[d] < UpgradeLimit) \/ (pc[d] # "upgrading" /\ silent[d] < IdleTimeout)
        BY <3>1 DEF Tick
      <4>3. (pc[d] = "upgrading" => silent[d] + 1 <= UpgradeLimit)
            /\ (pc[d] # "upgrading" => silent[d] + 1 <= IdleTimeout)
        BY <4>1, <4>2, TimesTyped
      <4> QED
        BY <1>1, <3>1, <4>1, <4>3 DEF Timely, TimeInv, Timers
    <3>2. CASE pc[d] \notin {"loop", "ack", "upgrading"}
      <4>1. silent'[d] = silent[d]
        BY <3>2 DEF Tick
      <4> QED
        BY <1>1, <3>2, <4>1 DEF Timely, TimeInv, Timers
    <3> QED
      BY <3>1, <3>2
  <2> QED
    BY <2>1 DEF Timers, Timely
<1>3. room' = room \/ (room \in Room /\ room # NoRoom /\ room' = [room EXCEPT !.age = @ + 1])
  BY DEF Tick, TypeOK
<1>4. room # NoRoom /\ room' # NoRoom =>
        /\ room.age \in Nat /\ room'.age \in Nat /\ room'.age <= room.age + 1
        /\ room'.size = room.size /\ room'.hist = room.hist
  <2>1. CASE room' = room
    BY <2>1, StaleType DEF TypeOK, Room
  <2>2. CASE room \in Room /\ room # NoRoom /\ room' = [room EXCEPT !.age = @ + 1]
    BY <2>2, StaleType DEF Room
  <2> QED
    BY <1>3, <2>1, <2>2
<1>5. room' # NoRoom => room # NoRoom
  BY <1>3
<1>6. Recent'
  <2> SUFFICES ASSUME ~vanished', room' # NoRoom, NEW d \in Conns, pc'[d] \in Using \ {"dead"}
               PROVE  room'.age <= silent'[d] + Slack(pc'[d], stage'[d])
    BY DEF Recent, Using, Attached, Slack
  <2>1. room.age <= silent[d] + Slack(pc[d], stage[d])
    BY <1>1, <1>5 DEF TimeInv, Recent
  <2>2. pc[d] \in {"loop", "ack", "upgrading"}
    BY <1>1 DEF Tick, Running, Using, Attached
  <2>3. silent'[d] = silent[d] + 1 /\ silent[d] \in Nat /\ Slack(pc[d], stage[d]) \in Nat
    BY <2>2, SlackType DEF Tick, TypeOK
  <2>4. room.age \in Nat /\ room'.age \in Nat /\ room'.age <= room.age + 1
    BY <1>4, <1>5
  <2> QED
    BY <1>1, <2>1, <2>3, <2>4
<1>7. Sized'
  BY <1>1, <1>4, <1>5 DEF TimeInv, Sized
<1> QED
  BY <1>2, <1>6, <1>7 DEF TimeInv

(* The invariant, and what follows from it.                                *)
LEMMA TimeInvariant ==
  ASSUME CliOrder
  PROVE  Spec => [](TypeOK /\ ExactWhileRoomStays /\ TimeInv)
<1>1. Init => TimeInv
  BY DEF Init, TimeInv, Timers, Timely, Recent, Sized
<1>2. TypeOK /\ TypeOK' /\ ExactWhileRoomStays /\ TimeInv /\ [Next]_vars => TimeInv'
  <2> SUFFICES ASSUME TypeOK, TypeOK', ExactWhileRoomStays, TimeInv, [Next]_vars PROVE TimeInv'
    OBVIOUS
  <2>1. ASSUME NEW c \in Conns, ServerStep(c) PROVE TimeInv'
    BY <2>1, ServerStepTime
  <2>2. ASSUME NEW c \in Conns, ClientStep(c) PROVE TimeInv'
    BY <2>2, ClientStepTime
  <2>3. ASSUME NEW c \in Conns, TaskDies(c) PROVE TimeInv'
    <3>1. MovesAlone(c, "dead") /\ room' = room /\ vanished' = vanished
      BY <2>3 DEF TaskDies, Goto, Rearm, MovesAlone, TypeOK
    <3> QED
      BY <3>1, LeaveKeeps DEF PCs, Attached
  <2>4. ASSUME room' \in {room, NoRoom}, UNCHANGED <<pc, silent, stage>>, vanished => vanished'
        PROVE  TimeInv'
    BY <2>4 DEF TimeInv, Timers, Timely, Recent, Slack, Sized
  <2>5. ASSUME NEW s \in Deleters, HttpDelete(s) PROVE TimeInv'
    BY <2>4, <2>5 DEF HttpDelete, Delete
  <2>6. CASE Evict
    BY <2>4, <2>6 DEF Evict
  <2>7. CASE Tick
    BY <2>7, TickTime
  <2>8. CASE UNCHANGED vars
    BY <2>4, <2>8 DEF vars
  <2> QED
    BY <2>1, <2>2, <2>3, <2>5, <2>6, <2>7, <2>8 DEF Next
<1> QED
  BY <1>1, <1>2, TypeCorrect, CountExact, PTL DEF Spec

(* The grace outlasts two silences and an upgrade: 300 seconds against     *)
(* twice 90 and a handshake.                                               *)
GraceSuffices == UpgradeLimit + 2 * IdleTimeout <= Grace

(* A healthy connection is counted, and the room is fresh.                 *)
LEMMA HealthyOnline ==
  ASSUME GraceSuffices, TypeOK, ExactWhileRoomStays, TimeInv, ~vanished, room # NoRoom,
         NEW c \in Healthy
  PROVE  SnapshotOnline
<1>1. c \in Conns /\ pc[c] \in Attached \ {"dead"} /\ pc[c] \in Using
  BY DEF Healthy, Using
<1>2. SecretOf[c] = room.password /\ room.broadcasters = Cardinality(Holders(room.password))
  BY <1>1 DEF ExactWhileRoomStays
<1>3. room.broadcasters > 0
  <2>1. c \in Holders(room.password)
    BY <1>1, <1>2 DEF Holders, HoldersAt
  <2>2. IsFiniteSet(Holders(room.password))
    <3>1. Holders(room.password) \subseteq Conns
      BY DEF Holders, HoldersAt
    <3> QED
      BY <3>1, ConnsFinite, FS_Subset
  <2>3. Cardinality(Holders(room.password)) \in Nat /\ Cardinality(Holders(room.password)) # 0
    BY <2>1, <2>2, FS_CardinalityType, FS_EmptySet
  <2> QED
    BY <1>2, <2>3
<1>4. room.age \in Nat /\ silent[c] \in Nat
  BY <1>1, StaleType DEF TypeOK, Room
<1>5. room.age <= UpgradeLimit + 2 * IdleTimeout
  <2>1. CASE pc[c] \in {"loop", "ack"}
    BY <1>1, <2>1, LoopAge
  <2>2. CASE pc[c] \notin {"loop", "ack"}
    <3>1. silent[c] = 0 /\ pc[c] \in {"announce", "announceFirst", "detach"}
      BY <1>1, <2>2 DEF TimeInv, Timers, Timely, Attached
    <3>2. room.age <= 0 + Slack(pc[c], stage[c])
      BY <1>1, <3>1 DEF TimeInv, Recent
    <3>3. Slack(pc[c], stage[c]) \in Nat /\ Slack(pc[c], stage[c]) <= UpgradeLimit + 2 * IdleTimeout
      BY TimesTyped DEF Slack
    <3> QED
      BY <1>4, <3>2, <3>3, TimesTyped
  <2> QED
    BY <2>1, <2>2
<1>6. room.age <= Grace
  BY <1>4, <1>5, TimesTyped DEF GraceSuffices
<1> QED
  BY <1>3, <1>6 DEF SnapshotOnline

(* With frames in the order of the CLI and a grace that outlasts two       *)
(* silences, snapshot tells whoever joins the truth about the broadcaster, *)
(* and sends the size along with a history.                                *)
THEOREM JoinersToldTruth ==
  ASSUME CliOrder, GraceSuffices
  PROVE  Spec => []SnapshotTruthful
<1>1. TypeOK /\ ExactWhileRoomStays /\ TimeInv => SnapshotTruthful
  <2> SUFFICES ASSUME TypeOK, ExactWhileRoomStays, TimeInv, ~vanished, room # NoRoom
               PROVE  /\ Healthy # {} => SnapshotOnline
                      /\ Holders(room.password) = {} => ~SnapshotOnline
                      /\ room.hist => room.size
    BY DEF SnapshotTruthful
  <2>1. Healthy # {} => SnapshotOnline
    BY HealthyOnline
  <2>2. Holders(room.password) = {} => ~SnapshotOnline
    BY FS_EmptySet DEF ExactWhileRoomStays, SnapshotOnline
  <2>3. room.hist => room.size
    BY DEF TimeInv, Sized
  <2> QED
    BY <2>1, <2>2, <2>3
<1> QED
  BY <1>1, TimeInvariant, PTL

(* Then evict_stale never ends a live segment that an attached connection  *)
(* was counted in: the deadline of a counted room is at least the grace.   *)
THEOREM EvictionSpares ==
  ASSUME CliOrder, GraceSuffices
  PROVE  Spec => EvictionSparesBroadcasters
<1> DEFINE Spared == (~vanished /\ lost' > lost) => Healthy = {}
<1>1. TypeOK /\ ExactWhileRoomStays /\ TimeInv /\ [Next]_vars => [Spared]_vars
  <2> SUFFICES ASSUME TypeOK, ExactWhileRoomStays, TimeInv, Next PROVE Spared
    OBVIOUS
  <2>0. ~(lost > lost)
    BY DEF TypeOK
  <2>1. ASSUME NEW c \in Conns, ServerStep(c) \/ ClientStep(c) \/ TaskDies(c) PROVE lost' = lost
    <3>1. CASE ServerStep(c)
      BY <3>1 DEF ServerStep, UpgradeFails, Attach, Announce, ReceiveTimesOut, AckSent,
                  AckFails, Detach, AnnounceOff
    <3>2. CASE ClientStep(c)
      BY <3>2 DEF ClientStep, Handshake, PeerVanishes, ReceiveData, ReceiveSize, ReceiveAlive,
                  ReceiveReset, ReceiveDelete, ReceiveEnd, Receives
    <3>3. CASE TaskDies(c)
      BY <3>3 DEF TaskDies
    <3> QED
      BY <2>1, <3>1, <3>2, <3>3
  <2>2. CASE (\E s \in Deleters : HttpDelete(s)) \/ Tick
    BY <2>0, <2>2 DEF HttpDelete, Tick
  <2>3. CASE Evict
    <3> SUFFICES ASSUME ~vanished, Healthy # {} PROVE FALSE
      OBVIOUS
    <3>1. room # NoRoom /\ room.age > Deadline
      BY <2>3 DEF Evict
    <3>2. room.broadcasters > 0 /\ room.age <= Grace
      BY <3>1, HealthyOnline DEF SnapshotOnline
    <3>3. Deadline \in Nat /\ Grace <= Deadline /\ room.age \in Nat
      BY <3>1, <3>2, TimesTyped, StaleType DEF Deadline, TypeOK, Room
    <3> QED
      BY <3>1, <3>2, <3>3, TimesTyped
  <2> QED
    BY <2>0, <2>1, <2>2, <2>3 DEF Next
<1> QED
  BY <1>1, TimeInvariant, PTL DEF EvictionSparesBroadcasters, Spec
=============================================================================
