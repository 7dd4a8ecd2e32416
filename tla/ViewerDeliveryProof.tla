------------------------ MODULE ViewerDeliveryProof ------------------------
(***************************************************************************)
(* Proofs about ViewerDelivery, for any viewers, writers and bounds.       *)
(***************************************************************************)
EXTENDS ViewerDelivery, SumsProof

-----------------------------------------------------------------------------
(* The registry.                                                           *)

(* A viewer that has joined and may still have to look after the entry.    *)
Resting == {"new", "recount", "done"}
Busy(v) == pc[v] \notin Resting

(* Who is registered has yet to leave, and an entry has somebody who will  *)
(* be there when it empties.                                               *)
EntryInv ==
    /\ DOMAIN pc = Viewers
    /\ registered \subseteq Viewers
    /\ \A v \in registered : Busy(v) /\ pc[v] # "sweep"
    /\ entry => \E v \in Viewers : Busy(v)

(* The registry starts empty.                                              *)
LEMMA InitEntry == Init => EntryInv
BY DEF Init, EntryInv

(* A send only takes viewers from the entry, which stays.                  *)
LEMMA SendEntry ==
  ASSUME EntryInv, NEW msg, Send(msg), UNCHANGED pc
  PROVE  EntryInv'
<1>1. registered' \subseteq registered /\ entry' = entry /\ pc' = pc
  BY DEF Send
<1> QED
  BY <1>1 DEF EntryInv, Busy

(* What leaves the registry alone.                                         *)
LEMMA StillEntry ==
  ASSUME EntryInv, UNCHANGED <<registered, entry, pc>>
  PROVE  EntryInv'
BY DEF EntryInv, Busy

(* A viewer that goes on to a place before its sweep stays responsible.    *)
LEMMA GoesOnEntry ==
  ASSUME EntryInv, NEW v \in Viewers, NEW to, Goto(v, to),
         to \notin Resting, to # "sweep", UNCHANGED <<registered, entry>>
  PROVE  EntryInv'
<1>1. DOMAIN pc' = Viewers /\ pc'[v] = to /\ \A u \in Viewers \ {v} : pc'[u] = pc[u]
  BY DEF Goto, EntryInv
<1> QED
  BY <1>1 DEF EntryInv, Busy

(* A viewer joins: from then on it is responsible for the entry.           *)
LEMMA JoinEntry ==
  ASSUME EntryInv, NEW v \in Viewers, Join(v)
  PROVE  EntryInv'
<1>1. CASE pc[v] = "new"
  <2>1. registered' = registered \cup {v} /\ Goto(v, "joined")
    BY <1>1 DEF Join, JoinThenSnapshot
  <2>2. DOMAIN pc' = Viewers /\ pc'[v] = "joined" /\ \A u \in Viewers \ {v} : pc'[u] = pc[u]
    BY <2>1 DEF Goto, EntryInv
  <2> QED
    BY <2>1, <2>2 DEF EntryInv, Busy, Resting
<1>2. CASE pc[v] = "joined"
  <2>1. Goto(v, "size") /\ UNCHANGED <<registered, entry>>
    BY <1>2 DEF Join, JoinThenSnapshot, registryVars
  <2> QED
    BY <2>1, GoesOnEntry DEF Resting
<1> QED
  BY <1>1, <1>2 DEF Join, JoinThenSnapshot

(* A catching-up viewer stays responsible.                                 *)
LEMMA CatchUpEntry ==
  ASSUME EntryInv, NEW v \in Viewers, CatchUp(v)
  PROVE  EntryInv'
<1>1. PICK to \in {"history", "online", "count", "loop"} : Goto(v, to)
  BY DEF CatchUp, CatchingUp
<1>2. UNCHANGED <<registered, entry>>
  BY DEF CatchUp, registryVars
<1> QED
  BY <1>1, <1>2, GoesOnEntry DEF Resting

(* A connection that ends has its leave ahead.                             *)
LEMMA EndsEntry ==
  ASSUME EntryInv, NEW v \in Viewers, WriteFails(v) \/ ChannelCloses(v) \/ PeerEnds(v)
  PROVE  EntryInv'
<1>1. Goto(v, "leave") /\ UNCHANGED <<registered, entry>>
  BY DEF WriteFails, ChannelCloses, PeerEnds, registryVars
<1> QED
  BY <1>1, GoesOnEntry DEF Resting

(* The last to leave an entry becomes the one to sweep it; before that,    *)
(* the others are still to leave.                                          *)
LEMMA LeaveEntry ==
  ASSUME EntryInv, NEW v \in Viewers, Leave(v)
  PROVE  EntryInv'
<1>1. /\ registered' = registered \ {v} /\ entry' = entry
      /\ Goto(v, IF entry /\ registered' = {} THEN "sweep" ELSE "recount")
  BY DEF Leave
<1>2. /\ DOMAIN pc' = Viewers /\ \A u \in Viewers \ {v} : pc'[u] = pc[u]
      /\ pc'[v] = IF entry /\ registered' = {} THEN "sweep" ELSE "recount"
  BY <1>1 DEF Goto, EntryInv
<1>3. \A u \in registered' : Busy(u)' /\ pc'[u] # "sweep"
  BY <1>1, <1>2 DEF EntryInv, Busy
<1>4. entry' => \E u \in Viewers : Busy(u)'
  <2>1. CASE entry /\ registered' = {}
    BY <1>2, <2>1 DEF Busy, Resting
  <2>2. CASE registered' # {}
    BY <1>1, <1>3, <2>2 DEF EntryInv
  <2> QED
    BY <1>1, <2>1, <2>2
<1> QED
  BY <1>1, <1>2, <1>3, <1>4 DEF EntryInv

(* An entry that survives the sweep is somebody else's by now.             *)
LEMMA SweepEntry ==
  ASSUME EntryInv, NEW v \in Viewers, Sweep(v)
  PROVE  EntryInv'
<1>1. /\ registered' = registered /\ entry' = (entry /\ registered # {})
      /\ pc[v] = "sweep" /\ Goto(v, "recount")
  BY DEF Sweep
<1>2. DOMAIN pc' = Viewers /\ \A u \in Viewers \ {v} : pc'[u] = pc[u]
  BY <1>1 DEF Goto, EntryInv
<1>3. \A u \in registered : u # v /\ Busy(u)' /\ pc'[u] # "sweep"
  BY <1>1, <1>2 DEF EntryInv, Busy
<1> QED
  BY <1>1, <1>2, <1>3 DEF EntryInv

(* Who asks for the count is done with the entry.                          *)
LEMMA LeftEntry ==
  ASSUME EntryInv, NEW v \in Viewers, Left(v)
  PROVE  EntryInv'
<1>1. pc[v] = "recount" /\ Goto(v, "done") /\ UNCHANGED <<registered, entry>>
  BY DEF Left, registryVars
<1>2. DOMAIN pc' = Viewers /\ \A u \in Viewers \ {v} : pc'[u] = pc[u]
  BY <1>1 DEF Goto, EntryInv
<1>3. ~Busy(v)
  BY <1>1 DEF Busy, Resting
<1> QED
  BY <1>1, <1>2, <1>3 DEF EntryInv, Busy

(* Every step keeps an entry in somebody's care.                           *)
LEMMA NextEntry == EntryInv /\ [Next]_vars => EntryInv'
<1> SUFFICES ASSUME EntryInv, [Next]_vars PROVE EntryInv'
  OBVIOUS
<1>1. ASSUME NEW w \in Writers, WriterStep(w) \/ WriterInput(w) PROVE EntryInv'
  <2>1. CASE Announce(w) \/ PublishReset(w) \/ AnnounceOff(w)
    BY <2>1, SendEntry DEF Announce, PublishReset, AnnounceOff, connVars
  <2>2. CASE Publish(w) \/ WriterInput(w)
    BY <2>2, StillEntry DEF Publish, WriterInput, Attach, Store, Reset, Detach,
                            registryVars, connVars
  <2> QED
    BY <1>1, <2>1, <2>2 DEF WriterStep
<1>2. CASE FanoutEmit \/ UserCountSend
  BY <1>2, SendEntry DEF FanoutEmit, UserCountSend, connVars
<1>3. CASE FanoutTake \/ UserCountRead
  BY <1>3, StillEntry DEF FanoutTake, UserCountRead, registryVars, connVars
<1>4. ASSUME NEW v \in Viewers, ViewerStep(v) \/ PeerEnds(v) \/ PeerStalls(v)
      PROVE  EntryInv'
  <2>1. CASE RelayTake(v) \/ RelayWrite(v) \/ PeerStalls(v)
    BY <2>1, StillEntry DEF RelayTake, RelayWrite, PeerStalls, registryVars
  <2> QED
    BY <1>4, <2>1, JoinEntry, CatchUpEntry, EndsEntry, LeaveEntry, SweepEntry, LeftEntry
       DEF ViewerStep
<1>5. CASE UNCHANGED vars
  BY <1>5, StillEntry DEF vars, registryVars, connVars
<1> QED
  BY <1>1, <1>2, <1>3, <1>4, <1>5 DEF Next

(* An entry of the registry (Viewers) without viewers has a connection     *)
(* that is still to run leave or its remove_if, whatever joins, leaves and *)
(* overflows come between its two critical sections.                       *)
THEOREM EntriesAreSwept == Spec => []NoEntryLeaks
<1>1. EntryInv => NoEntryLeaks
  BY DEF EntryInv, NoEntryLeaks, Busy, Resting
<1> QED
  BY <1>1, InitEntry, NextEntry, PTL DEF Spec

-----------------------------------------------------------------------------
(* Types.                                                                  *)

(* The messages the code makes: a payload is not empty, a size and a count *)
(* carry one number.                                                       *)
Sent == {m \in Msg : /\ m.kind = "bytes" => m.ns # <<>>
                     /\ m.kind \in {"size", "count"} => Len(m.ns) = 1}

(* What the constructors of messages make has their shape.                 *)
LEMMA SentMade ==
  ASSUME NEW n \in Nat
  PROVE  /\ SizeControl(n) \in Sent /\ CountControl(n) \in Sent /\ Bytes(<<n>>) \in Sent
         /\ \A kind \in {"reset", "online", "offline"} : Control(kind) \in Sent
<1>1. <<n>> \in Seq(Nat) /\ Len(<<n>>) = 1 /\ <<n>> # <<>> /\ <<>> \in Seq(Nat)
  OBVIOUS
<1> DEFINE one == <<n>>
<1> HIDE DEF one
<1>2. one \in Seq(Nat) /\ Len(one) = 1 /\ one # <<>>
  BY <1>1 DEF one
<1>3. /\ [kind |-> "size", ns |-> one] \in Sent /\ [kind |-> "count", ns |-> one] \in Sent
      /\ [kind |-> "bytes", ns |-> one] \in Sent
  BY <1>2 DEF Sent, Msg
<1>4. \A kind \in {"reset", "online", "offline"} : Control(kind) \in Sent
  BY <1>1 DEF Sent, Msg, Control
<1> QED
  BY <1>3, <1>4 DEF SizeControl, CountControl, Bytes, one

(* What is known of a message.                                             *)
LEMMA SentShape ==
  ASSUME NEW m \in Sent
  PROVE  /\ m.kind \in {"bytes", "size", "count", "reset", "online", "offline"}
         /\ m.ns \in Seq(Nat)
         /\ m.kind = "bytes" => m.ns # <<>>
         /\ m.kind \in {"size", "count"} => Len(m.ns) = 1 /\ m.ns[1] \in Nat
<1>1. m \in Msg /\ m.ns \in Seq(Nat)
  BY DEF Sent, Msg
<1>2. Len(m.ns) = 1 => m.ns[1] \in Nat
  BY <1>1, ElementOfSeq
<1> QED
  BY <1>1, <1>2 DEF Sent, Msg

(* One more chunk in the batch. *)
LEMMA MergedTyped ==
  ASSUME NEW out \in Seq(Sent), NEW n \in Nat
  PROVE  Merged(out, n) \in Seq(Sent)
<1>1. \A m \in Sent : Append(out, m) \in Seq(Sent)
  OBVIOUS
<1>2. ASSUME out # <<>>
      PROVE Append(Front(out), Bytes(Append(Last(out).ns, n))) \in Seq(Sent)
  <2>1. PICK N \in Nat : N = Len(out) /\ N # 0
    BY <1>2, EmptySeq
  <2>2. Last(out) \in Sent
    <3>1. N \in 1 .. N
      BY <2>1
    <3> QED
      BY <2>1, <3>1, ElementOfSeq DEF Last
  <2>3. Front(out) \in Seq(Sent)
    <3>1. \A i \in 1 .. N - 1 : out[i] \in Sent
      <4>1. \A i \in 1 .. N - 1 : i \in 1 .. N
        BY <2>1
      <4> QED
        BY <2>1, <4>1, ElementOfSeq
    <3>2. SubSeq(out, 1, N - 1) \in Seq(Sent)
      BY <2>1, SubSeqProperties
    <3> QED
      BY <2>1, <3>2 DEF Front
  <2>4. Append(Last(out).ns, n) \in Seq(Nat) /\ Append(Last(out).ns, n) # <<>>
    <3>1. PICK ns \in Seq(Nat) : ns = Last(out).ns
      BY <2>2, SentShape
    <3>2. Append(ns, n) \in Seq(Nat) /\ Append(ns, n) # <<>>
      BY AppendProperties, EmptySeq
    <3> QED
      BY <3>1, <3>2
  <2>5. Bytes(Append(Last(out).ns, n)) \in Sent
    BY <2>4 DEF Sent, Msg, Bytes
  <2>6. \A s \in Seq(Sent), m \in Sent : Append(s, m) \in Seq(Sent)
    OBVIOUS
  <2> QED
    BY <2>3, <2>5, <2>6
<1> QED
  BY <1>1, <1>2, SentMade DEF Merged

(* What the recursive definition of Coalesced means. *)
LEMMA CoalescedSteps ==
  ASSUME NEW items \in Seq(Nat), NEW N \in Nat, N = Len(items)
  PROVE  \E f \in [0 .. N -> Seq(Sent)] :
            /\ f[0] = <<>>
            /\ \A n \in 1 .. N : f[n] = Merged(f[n - 1], items[n])
            /\ Coalesced(items) = f[N]
<1> DEFINE Def(f) == f = [n \in 0 .. N |-> IF n = 0 THEN <<>> ELSE Merged(f[n - 1], items[n])]
           batch == CHOOSE f : Def(f)
           g == [n \in 1 .. N |-> [out \in Seq(Sent) |-> Merged(out, items[n])]]
<1>1. \A n \in 1 .. N : items[n] \in Nat
  BY ElementOfSeq
<1>2. \A n \in 1 .. N : \A out \in Seq(Sent) : g[n][out] = Merged(out, items[n]) /\ g[n][out] \in Seq(Sent)
  BY <1>1, MergedTyped
<1>3. g \in [1 .. N -> [Seq(Sent) -> Seq(Sent)]]
  BY <1>1, MergedTyped
<1> HIDE DEF g
<1>4. PICK f \in [0 .. N -> Seq(Sent)] : f[0] = <<>> /\ \A n \in 1 .. N : f[n] = g[n][f[n - 1]]
  <2>1. <<>> \in Seq(Sent)
    OBVIOUS
  <2>2. Recursive(N, Seq(Sent), <<>>, g) # {}
    BY <1>3, <2>1, Recursion
  <2> QED
    BY <2>2 DEF Recursive
<1>5. \A n \in 1 .. N : f[n] = Merged(f[n - 1], items[n])
  <2> TAKE n \in 1 .. N
  <2>1. f[n - 1] \in Seq(Sent)
    <3>1. n - 1 \in 0 .. N
      OBVIOUS
    <3> QED
      BY <3>1
  <2> QED
    BY <1>2, <1>4, <2>1
<1>6. Def(f)
  <2>1. \A n \in 0 .. N : f[n] = IF n = 0 THEN <<>> ELSE Merged(f[n - 1], items[n])
    BY <1>4, <1>5
  <2> QED
    BY <2>1
<1>7. Def(batch)
  BY <1>6
<1>8. Coalesced(items) = batch[N]
  BY DEF Coalesced
<1> HIDE DEF batch
<1>9. \A n \in 1 .. N : batch[n] = Merged(batch[n - 1], items[n])
  <2> TAKE n \in 1 .. N
  <2>1. n \in 0 .. N /\ n # 0
    OBVIOUS
  <2> QED
    BY <1>7, <2>1
<1>10. batch[0] = <<>> /\ batch = [n \in 0 .. N |-> batch[n]]
  BY <1>7
<1> HIDE DEF Def
<1>11. 0 .. N \subseteq {n \in 0 .. N : batch[n] \in Seq(Sent)}
  <2> DEFINE Good == {n \in 0 .. N : batch[n] \in Seq(Sent)}
  <2>1. 0 \in Good
    <3>1. <<>> \in Seq(Sent) /\ 0 \in 0 .. N
      OBVIOUS
    <3>2. batch[0] = <<>>
      BY <1>10
    <3>3. batch[0] \in Seq(Sent)
      BY <3>1, <3>2
    <3> QED
      BY <3>1, <3>3
  <2>2. ASSUME NEW n \in 0 .. N - 1, n \in Good PROVE n + 1 \in Good
    <3>1. n + 1 \in 1 .. N /\ (n + 1) - 1 = n /\ n + 1 \in 0 .. N
      OBVIOUS
    <3>2. batch[n + 1] = Merged(batch[n], items[n + 1])
      BY <1>9, <3>1
    <3>3. batch[n + 1] \in Seq(Sent)
      BY <1>1, <2>2, <3>1, <3>2, MergedTyped
    <3> QED
      BY <3>1, <3>3
  <2> HIDE DEF Good
  <2>3. 0 .. N \subseteq Good
    <3>1. \A n \in 0 .. N - 1 : n \in Good => n + 1 \in Good
      BY <2>2
    <3> QED
      BY <2>1, <3>1, SetInduction
  <2> QED
    BY <2>3 DEF Good
<1>12. batch \in [0 .. N -> Seq(Sent)]
  BY <1>10, <1>11
<1> QED
  BY <1>8, <1>9, <1>10, <1>12

(* A batch is a sequence of messages.                                      *)
LEMMA CoalescedTyped ==
  ASSUME NEW items \in Seq(Nat)
  PROVE  Coalesced(items) \in Seq(Sent)
<1>1. PICK N \in Nat : N = Len(items)
  OBVIOUS
<1>2. PICK f \in [0 .. N -> Seq(Sent)] : Coalesced(items) = f[N]
  BY <1>1, CoalescedSteps
<1> QED
  BY <1>2

(* What the recursive definition of ItemsOf means. *)
LEMMA ItemsSteps ==
  ASSUME NEW msgs \in Seq(Sent), NEW N \in Nat, N = Len(msgs)
  PROVE  \E f \in [0 .. N -> Seq(Nat)] :
            /\ f[0] = <<>>
            /\ \A n \in 1 .. N : f[n] = IF msgs[n].kind \in {"bytes", "size"}
                                          THEN f[n - 1] \o msgs[n].ns ELSE f[n - 1]
            /\ ItemsOf(msgs) = f[N]
<1> DEFINE Next1(n, ns) == IF msgs[n].kind \in {"bytes", "size"} THEN ns \o msgs[n].ns ELSE ns
           Def(f) == f = [n \in 0 .. N |-> IF n = 0 THEN <<>>
                          ELSE IF msgs[n].kind \in {"bytes", "size"} THEN f[n - 1] \o msgs[n].ns
                          ELSE f[n - 1]]
           items == CHOOSE f : Def(f)
           g == [n \in 1 .. N |-> [ns \in Seq(Nat) |-> Next1(n, ns)]]
<1>1. \A n \in 1 .. N : msgs[n].ns \in Seq(Nat)
  BY ElementOfSeq, SentShape
<1>2. \A n \in 1 .. N : \A ns \in Seq(Nat) : Next1(n, ns) \in Seq(Nat)
  BY <1>1, ConcatProperties
<1> HIDE DEF Next1
<1>3. \A n \in 1 .. N : \A ns \in Seq(Nat) : g[n][ns] = Next1(n, ns)
  OBVIOUS
<1>4. g \in [1 .. N -> [Seq(Nat) -> Seq(Nat)]]
  BY <1>2
<1> HIDE DEF g
<1>5. PICK f \in [0 .. N -> Seq(Nat)] : f[0] = <<>> /\ \A n \in 1 .. N : f[n] = g[n][f[n - 1]]
  <2>1. <<>> \in Seq(Nat)
    OBVIOUS
  <2>2. Recursive(N, Seq(Nat), <<>>, g) # {}
    BY <1>4, <2>1, Recursion
  <2> QED
    BY <2>2 DEF Recursive
<1>6. \A n \in 1 .. N : f[n] = Next1(n, f[n - 1])
  <2> TAKE n \in 1 .. N
  <2>1. f[n - 1] \in Seq(Nat)
    <3>1. n - 1 \in 0 .. N
      OBVIOUS
    <3> QED
      BY <3>1
  <2> QED
    BY <1>3, <1>5, <2>1
<1>7. Def(f)
  <2>1. \A n \in 0 .. N : f[n] = IF n = 0 THEN <<>> ELSE Next1(n, f[n - 1])
    BY <1>5, <1>6
  <2> QED
    BY <2>1 DEF Next1
<1>8. Def(items)
  BY <1>7
<1>9. ItemsOf(msgs) = items[N]
  BY DEF ItemsOf
<1> HIDE DEF items
<1>10. \A n \in 1 .. N : items[n] = Next1(n, items[n - 1])
  <2> TAKE n \in 1 .. N
  <2>1. n \in 0 .. N /\ n # 0
    OBVIOUS
  <2> QED
    BY <1>8, <2>1 DEF Next1
<1>11. items[0] = <<>> /\ items = [n \in 0 .. N |-> items[n]]
  BY <1>8
<1> HIDE DEF Def
<1>12. 0 .. N \subseteq {n \in 0 .. N : items[n] \in Seq(Nat)}
  <2> DEFINE Good == {n \in 0 .. N : items[n] \in Seq(Nat)}
  <2>1. 0 \in Good
    <3>1. <<>> \in Seq(Nat) /\ 0 \in 0 .. N
      OBVIOUS
    <3>2. items[0] = <<>>
      BY <1>11
    <3>3. items[0] \in Seq(Nat)
      BY <3>1, <3>2
    <3> QED
      BY <3>1, <3>3
  <2>2. ASSUME NEW n \in 0 .. N - 1, n \in Good PROVE n + 1 \in Good
    <3>1. n + 1 \in 1 .. N /\ (n + 1) - 1 = n /\ n + 1 \in 0 .. N
      OBVIOUS
    <3>2. items[n + 1] = Next1(n + 1, items[n])
      BY <1>10, <3>1
    <3> QED
      BY <1>2, <2>2, <3>1, <3>2
  <2> HIDE DEF Good
  <2>3. 0 .. N \subseteq Good
    <3>1. \A n \in 0 .. N - 1 : n \in Good => n + 1 \in Good
      BY <2>2
    <3> QED
      BY <2>1, <3>1, SetInduction
  <2> QED
    BY <2>3 DEF Good
<1>13. items \in [0 .. N -> Seq(Nat)]
  BY <1>11, <1>12
<1> QED
  BY <1>9, <1>10, <1>11, <1>13 DEF Next1

(* How many payloads a queue begins with. *)
LEMMA PayloadsKnown ==
  ASSUME NEW q \in Seq(Sent)
  PROVE  /\ Payloads(q) \in 0 .. Len(q)
         /\ \A i \in 1 .. Payloads(q) : q[i].kind = "bytes"
         /\ Payloads(q) < Len(q) => q[Payloads(q) + 1].kind # "bytes"
<1>1. PICK N \in Nat : N = Len(q)
  OBVIOUS
<1> DEFINE T == {n \in 0 .. N : n < N => q[n + 1].kind # "bytes"}
           Good(n) == (\A i \in 1 .. n : q[i].kind = "bytes") /\ (n < N => q[n + 1].kind # "bytes")
<1>2. T \in SUBSET Nat /\ N \in T
  OBVIOUS
<1>3. PICK n \in T : \A m \in T : n <= m
  BY <1>2, NatLeast
<1>4. ASSUME NEW i \in 1 .. n PROVE q[i].kind = "bytes"
  <2>1. i - 1 \in 0 .. N /\ ~(n <= i - 1) /\ i - 1 < N /\ (i - 1) + 1 = i
    OBVIOUS
  <2>2. i - 1 \notin T
    BY <1>3, <2>1
  <2> QED
    BY <2>1, <2>2
<1>5. n \in 0 .. N /\ Good(n)
  BY <1>4
<1>6. Payloads(q) = CHOOSE m \in 0 .. N : Good(m)
  BY <1>1 DEF Payloads
<1> HIDE DEF Good
<1>7. Payloads(q) \in 0 .. N /\ Good(Payloads(q))
  BY <1>5, <1>6
<1> QED
  BY <1>1, <1>7 DEF Good

(* relay drains no more than there is.                                     *)
LEMMA DrainedKnown ==
  ASSUME NEW q \in Seq(Sent)
  PROVE  Drained(q) \in 0 .. Len(q)
<1>1. PICK N \in Nat : N = Len(q)
  OBVIOUS
<1> QED
  BY <1>1, PayloadsKnown DEF Drained

(* The parts of a sequence that is cut in two. *)
LEMMA CutTyped ==
  ASSUME NEW S, NEW q \in Seq(S), NEW N \in Nat, N = Len(q), NEW d \in 0 .. N
  PROVE  /\ SubSeq(q, 1, d) \in Seq(S) /\ Len(SubSeq(q, 1, d)) = d
         /\ \A i \in 1 .. d : SubSeq(q, 1, d)[i] = q[i]
         /\ SubSeq(q, d + 1, N) \in Seq(S) /\ Len(SubSeq(q, d + 1, N)) = N - d
         /\ \A i \in 1 .. N - d : SubSeq(q, d + 1, N)[i] = q[d + i]
  OBVIOUS

(* Payloads in one frame: it is not empty. *)
LEMMA FrameOfPayloads ==
  ASSUME NEW msgs \in Seq(Sent), msgs # <<>>, \A i \in 1 .. Len(msgs) : msgs[i].kind = "bytes"
  PROVE  Bytes(ItemsOf(msgs)) \in Sent
<1>1. PICK N \in Nat : N = Len(msgs) /\ N # 0
  BY EmptySeq
<1>2. PICK f \in [0 .. N -> Seq(Nat)] :
        /\ \A n \in 1 .. N : f[n] = IF msgs[n].kind \in {"bytes", "size"}
                                      THEN f[n - 1] \o msgs[n].ns ELSE f[n - 1]
        /\ ItemsOf(msgs) = f[N]
  BY <1>1, ItemsSteps
<1>3. N \in 1 .. N /\ N - 1 \in 0 .. N /\ N \in 0 .. N
  BY <1>1
<1>4. msgs[N] \in Sent /\ msgs[N].kind = "bytes"
  BY <1>1, <1>3, ElementOfSeq
<1>5. ItemsOf(msgs) = f[N - 1] \o msgs[N].ns
  BY <1>2, <1>3, <1>4
<1>6. PICK u \in Seq(Nat), t \in Seq(Nat) : u = f[N - 1] /\ t = msgs[N].ns /\ t # <<>>
  BY <1>2, <1>3, <1>4, SentShape
<1>7. u \o t \in Seq(Nat) /\ u \o t # <<>>
  <2>1. Len(u \o t) = Len(u) + Len(t) /\ u \o t \in Seq(Nat)
    BY ConcatProperties
  <2>2. Len(t) # 0 /\ Len(u) \in Nat /\ Len(t) \in Nat
    BY <1>6, EmptySeq
  <2>3. Len(u \o t) # 0
    BY <2>1, <2>2
  <2> QED
    BY <2>1, <2>3, EmptySeq
<1> QED
  BY <1>5, <1>6, <1>7 DEF Sent, Msg, Bytes

Page == [shown : SUBSET Nat, size : Nat, online : BOOLEAN, count : Nat, last : Nat]
Snapshot == [hist : SUBSET Nat, size : Nat, online : BOOLEAN]

(* A frame leaves a page.                                                  *)
LEMMA RenderedTyped ==
  ASSUME NEW p \in Page, NEW m \in Sent
  PROVE  Rendered(p, m) \in Page
<1>1. CASE m.kind = "bytes"
  <2>1. PICK ns \in Seq(Nat) : ns = m.ns /\ ns # <<>>
    BY <1>1, SentShape
  <2>2. Last(ns) \in Nat
    <3>1. Len(ns) \in 1 .. Len(ns)
      BY <2>1, EmptySeq
    <3> QED
      BY <3>1, ElementOfSeq DEF Last
  <2>3. ToSet(ns) \in SUBSET Nat
    BY ElementOfSeq DEF ToSet
  <2>4. Rendered(p, m) = [[p EXCEPT !.shown = @ \cup ToSet(ns)] EXCEPT !.last = Last(ns)]
    BY <1>1, <2>1 DEF Rendered
  <2> QED
    BY <2>2, <2>3, <2>4 DEF Page
<1>2. CASE m.kind = "size"
  <2>1. Rendered(p, m) = [[p EXCEPT !.size = m.ns[1]] EXCEPT !.last = m.ns[1]] /\ m.ns[1] \in Nat
    BY <1>2, SentShape DEF Rendered
  <2> QED
    BY <2>1 DEF Page
<1>3. CASE m.kind = "count"
  <2>1. Rendered(p, m) = [p EXCEPT !.count = m.ns[1]] /\ m.ns[1] \in Nat
    BY <1>3, SentShape DEF Rendered
  <2> QED
    BY <2>1 DEF Page
<1>4. CASE m.kind \in {"reset", "online", "offline"}
  BY <1>4 DEF Rendered, Page
<1> QED
  BY <1>1, <1>2, <1>3, <1>4, SentShape

(* The types by what they are of, with the messages' shape. *)
RoomTyped ==
    /\ log \in Seq({"chunk", "size"}) /\ hist \subseteq DOMAIN log
    /\ roomSize \in 0 .. Len(log) /\ attached \subseteq Writers
    /\ writer \in [Writers -> {"away", "announce", "start", "loop", "publish",
                             "cleared", "skipped", "off", "gone"}]
    /\ item \in [Writers -> 0 .. Len(log)]
TasksTyped ==
    fanout \in Seq(Nat) /\ outbox \in Seq(Sent) /\ recount \in BOOLEAN /\ count \in Nat
RegistryTyped ==
    /\ registered \subseteq Viewers /\ entry \in BOOLEAN
    /\ queue \in [Viewers -> Seq(Sent)]
    /\ \A v \in Viewers : Len(queue[v]) <= Capacity
ConnsTyped ==
    /\ pc \in [Viewers -> PCs] /\ stalled \subseteq Stalling
    /\ snap \in [Viewers -> Snapshot] /\ page \in [Viewers -> Page]
    /\ carry \in [Viewers -> Seq(Sent)]
    /\ \A v \in Viewers : Len(carry[v]) <= Capacity
Typed == RoomTyped /\ TasksTyped /\ RegistryTyped /\ ConnsTyped

(* The types imply the run's type invariant.                               *)
LEMMA TypedIsTypeOK == Typed => TypeOK
<1>1. Sent \subseteq Msg
  BY DEF Sent
<1>2. \A q \in Seq(Sent) : q \in Seq(Msg)
  BY <1>1, SeqMonotonic
<1> QED
  BY <1>2 DEF Typed, RoomTyped, TasksTyped, RegistryTyped, ConnsTyped, TypeOK, Page, Snapshot

(* The types hold at the start.                                            *)
LEMMA InitTyped == Init => Typed
<1> SUFFICES ASSUME Init PROVE Typed
  OBVIOUS
<1>1. <<>> \in Seq(Sent) /\ Len(<<>>) = 0 /\ <<>> \in Seq(Nat) /\ <<>> \in Seq({"chunk", "size"})
  OBVIOUS
<1>2. RoomTyped
  BY <1>1 DEF Init, RoomTyped
<1>3. TasksTyped
  BY <1>1 DEF Init, TasksTyped, NoCount
<1>4. RegistryTyped
  <2>1. registered = {} /\ entry = FALSE /\ queue = [v \in Viewers |-> <<>>]
    BY DEF Init
  <2>2. queue \in [Viewers -> Seq(Sent)] /\ \A v \in Viewers : Len(queue[v]) = 0
    <3> DEFINE none == <<>>
    <3>1. none \in Seq(Sent) /\ Len(none) = 0
      BY <1>1
    <3> HIDE DEF none
    <3>2. queue = [v \in Viewers |-> none]
      BY <2>1 DEF none
    <3> QED
      BY <3>1, <3>2
  <2>3. \A v \in Viewers : Len(queue[v]) <= Capacity
    <3>1. 0 <= Capacity
      BY BoundsTyped
    <3> QED
      BY <2>2, <3>1
  <2>4. registered \subseteq Viewers /\ entry \in BOOLEAN
    BY <2>1
  <2> QED
    BY <2>2, <2>3, <2>4 DEF RegistryTyped
<1>5. ConnsTyped
  BY <1>1, BoundsTyped DEF Init, ConnsTyped, PCs, Blank, NoSnapshot, Page, Snapshot
<1> QED
  BY <1>2, <1>3, <1>4, <1>5 DEF Typed

(* A send keeps every queue within its capacity. *)
LEMMA SendTyped ==
  ASSUME RegistryTyped, NEW msg \in Sent, Send(msg)
  PROVE  RegistryTyped'
<1>1. /\ registered' = {v \in registered : Len(queue[v]) < Capacity} /\ entry' = entry
      /\ queue' = [v \in Viewers |-> IF v \in registered' THEN Append(queue[v], msg) ELSE queue[v]]
  BY DEF Send
<1>2. ASSUME NEW v \in Viewers PROVE queue'[v] \in Seq(Sent) /\ Len(queue'[v]) <= Capacity
  <2>1. PICK q \in Seq(Sent) : q = queue[v] /\ Len(q) <= Capacity /\ Len(q) \in Nat
    BY DEF RegistryTyped
  <2>2. Append(q, msg) \in Seq(Sent) /\ Len(Append(q, msg)) = Len(q) + 1
    BY AppendProperties
  <2>3. CASE v \in registered'
    <3>1. queue'[v] = Append(q, msg) /\ Len(q) < Capacity
      BY <1>1, <2>1, <2>3
    <3> QED
      BY <2>1, <2>2, <3>1, BoundsTyped
  <2>4. CASE v \notin registered'
    BY <1>1, <2>1, <2>4
  <2> QED
    BY <2>3, <2>4
<1>3. queue' \in [Viewers -> Seq(Sent)]
  <2>1. queue' = [v \in Viewers |-> queue'[v]]
    BY <1>1
  <2> QED
    BY <1>2, <2>1
<1> QED
  BY <1>1, <1>2, <1>3 DEF RegistryTyped

(* The types depend on their own variables only.                           *)
LEMMA SameTypes ==
  /\ RoomTyped /\ UNCHANGED roomVars => RoomTyped'
  /\ TasksTyped /\ UNCHANGED taskVars => TasksTyped'
  /\ RegistryTyped /\ UNCHANGED registryVars => RegistryTyped'
  /\ ConnsTyped /\ UNCHANGED connVars => ConnsTyped'
<1>1. RoomTyped /\ UNCHANGED roomVars => RoomTyped'
  BY DEF RoomTyped, roomVars
<1>2. TasksTyped /\ UNCHANGED taskVars => TasksTyped'
  BY DEF TasksTyped, taskVars
<1>3. RegistryTyped /\ UNCHANGED registryVars => RegistryTyped'
  BY DEF RegistryTyped, registryVars
<1>4. ConnsTyped /\ UNCHANGED connVars => ConnsTyped'
  BY DEF ConnsTyped, connVars
<1> QED
  BY <1>1, <1>2, <1>3, <1>4

(* The room, as the ingest loops change it. *)
LEMMA RoomStepTyped ==
  ASSUME RoomTyped, NEW w \in Writers, WriterStep(w) \/ WriterInput(w)
  PROVE  RoomTyped'
<1>1. ASSUME NEW kind \in {"chunk", "size"}, Store(w, kind) PROVE RoomTyped'
  <2>1. /\ log' = Append(log, kind) /\ attached' = attached
        /\ item' = [item EXCEPT ![w] = Len(log')]
        /\ hist' = IF kind = "chunk" THEN hist \cup {Len(log')} ELSE hist
        /\ roomSize' = IF kind = "size" THEN Len(log') ELSE roomSize
        /\ writer' = [writer EXCEPT ![w] = "publish"]
    BY <1>1 DEF Store, At
  <2>2. PICK N \in Nat : N = Len(log) /\ DOMAIN log = 1 .. N
    BY DEF RoomTyped
  <2>3. /\ log' \in Seq({"chunk", "size"}) /\ Len(log') = N + 1 /\ DOMAIN log' = 1 .. N + 1
    <3>1. log' \in Seq({"chunk", "size"}) /\ Len(log') = Len(log) + 1
      BY <2>1, AppendProperties DEF RoomTyped
    <3> QED
      BY <2>2, <3>1, LenProperties
  <2>4. hist' \subseteq DOMAIN log' /\ roomSize' \in 0 .. Len(log')
    BY <2>1, <2>2, <2>3 DEF RoomTyped
  <2>5. item' \in [Writers -> 0 .. Len(log')]
    <3>1. item \in [Writers -> 0 .. N]
      BY <2>2 DEF RoomTyped
    <3>2. \A x \in Writers : item[x] \in 0 .. N + 1
      BY <3>1
    <3>3. item' = [item EXCEPT ![w] = N + 1] /\ Len(log') = N + 1
      BY <2>1, <2>3
    <3> QED
      BY <3>1, <3>2, <3>3
  <2>6. writer' \in [Writers -> {"away", "announce", "start", "loop", "publish",
                             "cleared", "skipped", "off", "gone"}]
    BY <2>1 DEF RoomTyped
  <2> QED
    BY <2>1, <2>3, <2>4, <2>5, <2>6 DEF RoomTyped
<1>2. CASE Attach(w) \/ Detach(w) \/ Announce(w) \/ AnnounceOff(w)
  BY <1>2 DEF Attach, Detach, Announce, AnnounceOff, At, RoomTyped
<1>3. CASE Reset(w) \/ PublishReset(w)
  BY <1>3 DEF Reset, PublishReset, At, RoomTyped
<1>4. CASE Publish(w)
  <2>1. 0 \in 0 .. Len(log)
    BY DEF RoomTyped
  <2> QED
    BY <1>4, <2>1 DEF Publish, At, RoomTyped
<1> QED
  BY <1>1, <1>2, <1>3, <1>4 DEF WriterStep, WriterInput

(* The steps of an ingest loop keep the types.                             *)
LEMMA WriterTyped ==
  ASSUME Typed, NEW w \in Writers, WriterStep(w) \/ WriterInput(w)
  PROVE  Typed'
<1>1. RoomTyped'
  BY RoomStepTyped DEF Typed
<1>2. ConnsTyped'
  <2>1. UNCHANGED connVars
    BY DEF WriterStep, WriterInput, Attach, Announce, Store, Publish, Reset, PublishReset,
           Detach, AnnounceOff
  <2> QED
    BY <2>1, SameTypes DEF Typed
<1>3. RegistryTyped'
  <2>1. ASSUME NEW kind \in {"reset", "online", "offline"}, Send(Control(kind)) PROVE RegistryTyped'
    BY <2>1, SendTyped, SentMade DEF Typed
  <2>2. CASE Announce(w) \/ PublishReset(w) \/ AnnounceOff(w)
    BY <2>1, <2>2 DEF Announce, PublishReset, AnnounceOff
  <2>3. CASE UNCHANGED registryVars
    BY <2>3, SameTypes DEF Typed
  <2> QED
    BY <2>2, <2>3 DEF WriterStep, WriterInput, Attach, Store, Publish, Reset, Detach
<1>4. TasksTyped'
  <2>1. CASE Publish(w)
    <3>1. item[w] \in Nat
      BY DEF Typed, RoomTyped
    <3>2. Append(fanout, item[w]) \in Seq(Nat)
      BY <3>1, AppendProperties DEF Typed, TasksTyped
    <3> QED
      BY <2>1, <3>2 DEF Publish, Typed, TasksTyped
  <2>2. CASE UNCHANGED taskVars
    BY <2>2, SameTypes DEF Typed
  <2> QED
    BY <2>1, <2>2 DEF WriterStep, WriterInput, Attach, Announce, Store, Reset, PublishReset,
                      Detach, AnnounceOff
<1> QED
  BY <1>1, <1>2, <1>3, <1>4 DEF Typed

(* The number of viewers. *)
LEMMA Counted == registered \subseteq Viewers => Cardinality(registered) \in Nat
  BY SetsTyped, FS_Subset, FS_CardinalityType

(* The steps of the two tasks keep the types.                              *)
LEMMA TaskTyped ==
  ASSUME Typed, FanoutTake \/ FanoutEmit \/ UserCountRead \/ UserCountSend
  PROVE  Typed'
<1>1. RoomTyped' /\ ConnsTyped'
  <2>1. UNCHANGED <<roomVars, connVars>>
    BY DEF FanoutTake, FanoutEmit, UserCountRead, UserCountSend
  <2> QED
    BY <2>1, SameTypes DEF Typed
<1>2. CASE FanoutTake
  <2>1. TasksTyped'
    <3>1. Coalesced(fanout) \in Seq(Sent) /\ <<>> \in Seq(Nat)
      BY CoalescedTyped DEF Typed, TasksTyped
    <3> QED
      BY <1>2, <3>1 DEF FanoutTake, Typed, TasksTyped
  <2>2. RegistryTyped'
    BY <1>2, SameTypes DEF FanoutTake, Typed
  <2> QED
    BY <1>1, <2>1, <2>2 DEF Typed
<1>3. CASE FanoutEmit
  <2>1. Head(outbox) \in Sent /\ Tail(outbox) \in Seq(Sent)
    BY <1>3, HeadTailProperties DEF FanoutEmit, Typed, TasksTyped
  <2>2. TasksTyped'
    BY <1>3, <2>1 DEF FanoutEmit, Typed, TasksTyped
  <2>3. RegistryTyped'
    BY <1>3, <2>1, SendTyped DEF FanoutEmit, Typed
  <2> QED
    BY <1>1, <2>2, <2>3 DEF Typed
<1>4. CASE UserCountRead
  <2>1. TasksTyped'
    BY <1>4, Counted DEF UserCountRead, Typed, TasksTyped, RegistryTyped
  <2>2. RegistryTyped'
    BY <1>4, SameTypes DEF UserCountRead, Typed
  <2> QED
    BY <1>1, <2>1, <2>2 DEF Typed
<1>5. CASE UserCountSend
  <2>1. TasksTyped'
    BY <1>5 DEF UserCountSend, Typed, TasksTyped, NoCount
  <2>2. RegistryTyped'
    <3>1. CountControl(count) \in Sent
      BY SentMade DEF Typed, TasksTyped
    <3> QED
      BY <1>5, <3>1, SendTyped DEF UserCountSend, Typed
  <2> QED
    BY <1>1, <2>1, <2>2 DEF Typed
<1> QED
  BY <1>2, <1>3, <1>4, <1>5

(* A viewer's page, snapshot and place change as the types allow. *)
LEMMA ViewerTyped ==
  ASSUME Typed, NEW v \in Viewers, ViewerStep(v) \/ PeerEnds(v) \/ PeerStalls(v)
  PROVE  Typed'
<1>1. RoomTyped'
  <2>1. UNCHANGED roomVars
    BY DEF ViewerStep, Join, CatchUp, RelayTake, RelayWrite, WriteFails, ChannelCloses,
           Leave, Sweep, Left, PeerEnds, PeerStalls
  <2> QED
    BY <2>1, SameTypes DEF Typed
<1>2. TasksTyped'
  <2>1. fanout' = fanout /\ outbox' = outbox /\ count' = count /\ recount' \in {recount, TRUE}
    <3>1. CASE CatchUp(v)
      <4>1. recount' \in {recount, TRUE}
        BY <3>1 DEF CatchUp, CatchingUp
      <4> QED
        BY <3>1, <4>1 DEF CatchUp
    <3>2. CASE Left(v)
      BY <3>2 DEF Left
    <3>3. CASE UNCHANGED taskVars
      BY <3>3 DEF taskVars
    <3> QED
      BY <3>1, <3>2, <3>3 DEF ViewerStep, Join, RelayTake, RelayWrite, WriteFails,
              ChannelCloses, Leave, Sweep, PeerEnds, PeerStalls
  <2> QED
    BY <2>1 DEF Typed, TasksTyped
<1>3. ASSUME RegistryTyped', ConnsTyped' PROVE Typed'
  BY <1>1, <1>2, <1>3 DEF Typed
<1>4. CASE Join(v)
  <2>1. RegistryTyped'
    BY <1>4 DEF Join, JoinThenSnapshot, Typed, RegistryTyped, registryVars
  <2>2. /\ pc' \in [Viewers -> PCs] /\ UNCHANGED <<carry, page, stalled>>
        /\ snap' \in {snap, [snap EXCEPT ![v] = [hist |-> hist, size |-> roomSize,
                                                 online |-> attached # {}]]}
    BY <1>4 DEF Join, JoinThenSnapshot, Goto, PCs, CatchingUp, Typed, ConnsTyped
  <2>3. [hist |-> hist, size |-> roomSize, online |-> attached # {}] \in Snapshot
    <3>1. hist \in SUBSET Nat /\ roomSize \in Nat
      <4>1. PICK N \in Nat : N = Len(log) /\ DOMAIN log = 1 .. N
        BY DEF Typed, RoomTyped
      <4> QED
        BY <4>1 DEF Typed, RoomTyped
    <3> QED
      BY <3>1 DEF Snapshot
  <2>4. snap' \in [Viewers -> Snapshot]
    BY <2>2, <2>3 DEF Typed, ConnsTyped
  <2>5. ConnsTyped'
    BY <2>2, <2>4 DEF Typed, ConnsTyped
  <2> QED
    BY <1>3, <2>1, <2>5
<1>5. CASE CatchUp(v)
  <2>1. RegistryTyped' /\ UNCHANGED <<carry, stalled>>
    BY <1>5, SameTypes DEF CatchUp, Typed
  <2>2. PICK s \in Snapshot, p \in Page : s = snap[v] /\ p = page[v]
    BY DEF Typed, ConnsTyped
  <2>3. /\ s.hist \in SUBSET Nat /\ s.size \in Nat /\ s.online \in BOOLEAN
        /\ Cardinality(registered) \in Nat
    BY Counted DEF Snapshot, Typed, RegistryTyped
  <2>4. page' \in [Viewers -> Page]
    <3>1. PICK q \in Page : page' = [page EXCEPT ![v] = q]
      <4>1. CASE pc[v] = "size"
        <5>1. page' = [page EXCEPT ![v] = [p EXCEPT !.size = s.size]]
          BY <1>5, <2>2, <4>1 DEF CatchUp
        <5>2. [p EXCEPT !.size = s.size] \in Page
          BY <2>3 DEF Page
        <5> QED
          BY <5>1, <5>2
      <4>2. CASE pc[v] = "history"
        <5>1. page' = [page EXCEPT ![v] = [p EXCEPT !.shown = s.hist]]
          BY <1>5, <2>2, <4>2 DEF CatchUp
        <5>2. [p EXCEPT !.shown = s.hist] \in Page
          BY <2>3 DEF Page
        <5> QED
          BY <5>1, <5>2
      <4>3. CASE pc[v] = "online"
        <5>1. page' = [page EXCEPT ![v] = [p EXCEPT !.online = s.online]]
          BY <1>5, <2>2, <4>3 DEF CatchUp
        <5>2. [p EXCEPT !.online = s.online] \in Page
          BY <2>3 DEF Page
        <5> QED
          BY <5>1, <5>2
      <4>4. CASE pc[v] = "count"
        <5>1. page' = [page EXCEPT ![v] = [p EXCEPT !.count = Cardinality(registered)]]
          BY <1>5, <2>2, <4>4 DEF CatchUp
        <5>2. [p EXCEPT !.count = Cardinality(registered)] \in Page
          BY <2>3 DEF Page
        <5> QED
          BY <5>1, <5>2
      <4> QED
        BY <1>5, <4>1, <4>2, <4>3, <4>4 DEF CatchUp, CatchingUp
    <3> QED
      BY <3>1 DEF Typed, ConnsTyped
  <2>5. snap' \in [Viewers -> Snapshot]
    <3>1. NoSnapshot \in Snapshot
      BY DEF NoSnapshot, Snapshot
    <3>2. snap' \in {snap, [snap EXCEPT ![v] = NoSnapshot]}
      BY <1>5 DEF CatchUp, CatchingUp
    <3> QED
      BY <3>1, <3>2 DEF Typed, ConnsTyped
  <2>6. pc' \in [Viewers -> PCs]
    <3>1. PICK to \in PCs : Goto(v, to)
      BY <1>5 DEF CatchUp, CatchingUp, PCs
    <3> QED
      BY <3>1 DEF Goto, Typed, ConnsTyped
  <2>7. ConnsTyped'
    BY <2>1, <2>4, <2>5, <2>6 DEF Typed, ConnsTyped
  <2> QED
    BY <1>3, <2>1, <2>7
<1>6. CASE RelayTake(v)
  <2>1. PICK q \in Seq(Sent), N \in Nat : q = queue[v] /\ N = Len(q) /\ N <= Capacity
    BY DEF Typed, RegistryTyped
  <2>2. PICK d \in 0 .. N : d = Drained(q)
    BY <2>1, DrainedKnown
  <2>3. PICK s \in Seq(Sent), t \in Seq(Sent) :
          /\ s = SubSeq(q, 1, d) /\ t = SubSeq(q, d + 1, N)
          /\ Len(s) <= Capacity /\ Len(t) <= Capacity
    <3>1. d <= Capacity /\ N - d <= Capacity
      BY <2>1, <2>2, BoundsTyped
    <3>2. /\ SubSeq(q, 1, d) \in Seq(Sent) /\ Len(SubSeq(q, 1, d)) = d
          /\ SubSeq(q, d + 1, N) \in Seq(Sent) /\ Len(SubSeq(q, d + 1, N)) = N - d
      BY <2>1, CutTyped
    <3> QED
      BY <3>1, <3>2
  <2>4. /\ carry' = [carry EXCEPT ![v] = s] /\ queue' = [queue EXCEPT ![v] = t]
        /\ UNCHANGED <<registered, entry, pc, snap, page, stalled>>
    BY <1>6, <2>1, <2>2, <2>3 DEF RelayTake, Typed, RegistryTyped
  <2>5. RegistryTyped'
    BY <2>3, <2>4 DEF Typed, RegistryTyped
  <2>6. ConnsTyped'
    BY <2>3, <2>4 DEF Typed, ConnsTyped
  <2> QED
    BY <1>3, <2>5, <2>6
<1>7. CASE RelayWrite(v)
  <2>1. PICK q \in Seq(Sent), N \in Nat : q = carry[v] /\ N = Len(q) /\ N <= Capacity /\ q # <<>>
    BY <1>7 DEF RelayWrite, Typed, ConnsTyped
  <2>2. PICK n \in 0 .. N : n = Payloads(q) /\ \A i \in 1 .. n : q[i].kind = "bytes"
    BY <2>1, PayloadsKnown
  <2>3. N # 0
    BY <2>1, EmptySeq
  <2>4. PICK d \in 0 .. N : d + 1 = IF n = 0 THEN 2 ELSE n + 1
    <3>1. CASE n = 0
      BY <2>3, <3>1
    <3>2. CASE n # 0
      BY <3>2
    <3> QED
      BY <3>1, <3>2
  <2>5. PICK m \in Sent : m = IF n = 0 THEN Head(q) ELSE Bytes(ItemsOf(SubSeq(q, 1, n)))
    <3>1. Head(q) \in Sent
      BY <2>1, HeadTailProperties
    <3>2. ASSUME n # 0 PROVE Bytes(ItemsOf(SubSeq(q, 1, n))) \in Sent
      <4>1. PICK s \in Seq(Sent) : s = SubSeq(q, 1, n) /\ Len(s) = n /\ \A i \in 1 .. n : s[i] = q[i]
        <5>1. /\ SubSeq(q, 1, n) \in Seq(Sent) /\ Len(SubSeq(q, 1, n)) = n
              /\ \A i \in 1 .. n : SubSeq(q, 1, n)[i] = q[i]
          BY <2>1, CutTyped
        <5> QED
          BY <5>1
      <4>2. s # <<>>
        BY <3>2, <4>1, EmptySeq
      <4>3. Bytes(ItemsOf(s)) \in Sent
        BY <2>2, <4>1, <4>2, FrameOfPayloads
      <4> QED
        BY <4>1, <4>3
    <3> QED
      BY <3>1, <3>2
  <2>6. PICK t \in Seq(Sent) : t = SubSeq(q, d + 1, N) /\ Len(t) <= Capacity
    <3>1. N - d <= Capacity
      BY <2>1, BoundsTyped
    <3>2. SubSeq(q, d + 1, N) \in Seq(Sent) /\ Len(SubSeq(q, d + 1, N)) = N - d
      BY <2>1, CutTyped
    <3> QED
      BY <3>1, <3>2
  <2>7. PICK p \in Page : p = Rendered(page[v], m)
    BY RenderedTyped DEF Typed, ConnsTyped
  <2>8. /\ page' = [page EXCEPT ![v] = p] /\ carry' = [carry EXCEPT ![v] = t]
        /\ UNCHANGED <<registryVars, pc, snap, stalled>>
    BY <1>7, <2>1, <2>2, <2>4, <2>5, <2>6, <2>7 DEF RelayWrite, Typed, ConnsTyped
  <2>9. ConnsTyped'
    BY <2>6, <2>7, <2>8 DEF Typed, ConnsTyped
  <2>10. RegistryTyped'
    BY <2>8, SameTypes DEF Typed
  <2> QED
    BY <1>3, <2>9, <2>10
<1>8. CASE WriteFails(v) \/ ChannelCloses(v) \/ PeerEnds(v)
  <2>1. Goto(v, "leave") /\ UNCHANGED <<registryVars, snap, carry, page, stalled>>
    BY <1>8 DEF WriteFails, ChannelCloses, PeerEnds
  <2>2. ConnsTyped'
    BY <2>1 DEF Goto, PCs, Typed, ConnsTyped
  <2> QED
    BY <1>3, <2>1, <2>2, SameTypes DEF Typed
<1>9. CASE PeerStalls(v)
  <2>1. UNCHANGED <<registryVars, pc, snap, carry, page>> /\ stalled' \subseteq Stalling
    BY <1>9 DEF PeerStalls, Typed, ConnsTyped
  <2>2. ConnsTyped'
    BY <2>1 DEF Typed, ConnsTyped
  <2> QED
    BY <1>3, <2>1, <2>2, SameTypes DEF Typed
<1>10. CASE Leave(v)
  <2>1. /\ registered' = registered \ {v} /\ Gone(v) /\ entry' = entry
        /\ pc' \in [Viewers -> PCs]
    BY <1>10 DEF Leave, Goto, PCs, Typed, ConnsTyped
  <2>2. PICK none \in Seq(Sent) : none = <<>> /\ Len(none) = 0 /\ 0 <= Capacity
    <3>1. <<>> \in Seq(Sent) /\ Len(<<>>) = 0
      BY EmptySeq
    <3>2. 0 <= Capacity
      BY BoundsTyped
    <3> QED
      BY <3>1, <3>2
  <2>3. /\ queue' = [queue EXCEPT ![v] = none] /\ carry' = [carry EXCEPT ![v] = none]
        /\ snap' = [snap EXCEPT ![v] = NoSnapshot] /\ page' = [page EXCEPT ![v] = Blank]
        /\ stalled' = stalled \ {v}
    BY <2>1, <2>2 DEF Gone
  <2>4. NoSnapshot \in Snapshot /\ Blank \in Page
    BY DEF NoSnapshot, Snapshot, Blank, Page
  <2>5. RegistryTyped'
    BY <2>1, <2>2, <2>3 DEF Typed, RegistryTyped
  <2>6. ConnsTyped'
    BY <2>1, <2>2, <2>3, <2>4 DEF Typed, ConnsTyped
  <2> QED
    BY <1>3, <2>5, <2>6
<1>11. CASE Sweep(v) \/ Left(v)
  <2>1. /\ UNCHANGED <<registered, queue, snap, carry, page, stalled>>
        /\ entry' \in BOOLEAN /\ pc' \in [Viewers -> PCs]
    BY <1>11 DEF Sweep, Left, registryVars, Goto, PCs, Typed, ConnsTyped, RegistryTyped
  <2>2. RegistryTyped' /\ ConnsTyped'
    BY <2>1 DEF Typed, RegistryTyped, ConnsTyped
  <2> QED
    BY <1>3, <2>2
<1> QED
  BY <1>4, <1>5, <1>6, <1>7, <1>8, <1>9, <1>10, <1>11 DEF ViewerStep

(* Every step keeps the types.                                             *)
LEMMA NextTyped == Typed /\ [Next]_vars => Typed'
<1> SUFFICES ASSUME Typed, [Next]_vars PROVE Typed'
  OBVIOUS
<1>1. CASE UNCHANGED vars
  BY <1>1, SameTypes DEF Typed, vars
<1> QED
  BY <1>1, WriterTyped, TaskTyped, ViewerTyped DEF Next

(* The types, and the bound of every viewer's queue (VIEWER_QUEUE): a send *)
(* that finds it full takes the viewer from the registry.                  *)
THEOREM TypeCorrect == Spec => []TypeOK
<1> QED
  BY InitTyped, NextTyped, TypedIsTypeOK, PTL DEF Spec

-----------------------------------------------------------------------------
(* Messages as spans of the log.  Every message stands between two marks,  *)
(* which count the items published up to it: a payload covers the chunks   *)
(* between its marks, a size its item, a status or a count nothing; and    *)
(* after a reset comes all that the room would replay.                     *)

(* The items a + 1 .. b in their order. *)
Run(ns, a, b) ==
    ns \in Seq(Nat) /\ b = a + Len(ns) /\ \A i \in 1 .. Len(ns) : ns[i] = a + i

(* What m between the marks a and b covers of the log L, H being the       *)
(* history.                                                                *)
Covers(L, H, m, a, b) ==
    /\ m.kind = "bytes" => a < b /\ Run(m.ns, a, b) /\ \A n \in a + 1 .. b : L[n] = "chunk"
    /\ m.kind = "size" => b = a + 1 /\ m.ns = <<b>> /\ L[b] = "size"
    /\ m.kind \notin {"bytes", "size"} => b = a
    /\ m.kind = "reset" => \A n \in H : n > b

(* The marks of a sequence of messages.                                    *)
Marks(L, H, msgs, N, f) ==
    /\ f \in [0 .. N -> 0 .. Len(L)]
    /\ \A i, j \in 0 .. N : i <= j => f[i] <= f[j]
    /\ \A i \in 1 .. N : Covers(L, H, msgs[i], f[i - 1], f[i])

Carries(L, H, msgs, a, b) ==
    \E N \in Nat : N = Len(msgs) /\ \E f : Marks(L, H, msgs, N, f) /\ f[0] = a /\ f[N] = b

Log == Seq({"chunk", "size"})

(* No messages carry nothing.                                              *)
LEMMA CarriesNothing ==
  ASSUME NEW L \in Log, NEW H, NEW a \in 0 .. Len(L)
  PROVE  Carries(L, H, <<>>, a, a)
<1> DEFINE f == [i \in 0 .. 0 |-> a]
<1>1. f \in [0 .. 0 -> 0 .. Len(L)] /\ f[0] = a /\ \A i \in 0 .. 0 : i = 0
  OBVIOUS
<1>2. PICK N \in Nat : N = 0 /\ N = Len(<<>>) /\ 1 .. N = {}
  OBVIOUS
<1> HIDE DEF f
<1>3. Marks(L, H, <<>>, N, f)
  BY <1>1, <1>2 DEF Marks
<1> QED
  BY <1>1, <1>2, <1>3 DEF Carries

(* The marks of a covering message are in order. *)
LEMMA CoversUp ==
  ASSUME NEW L, NEW H, NEW m \in Sent, NEW a \in Nat, NEW b \in Nat, Covers(L, H, m, a, b)
  PROVE  a <= b
BY DEF Covers

(* Messages and one more.                                                  *)
LEMMA CarriesAppend ==
  ASSUME NEW L \in Log, NEW H, NEW msgs \in Seq(Sent), NEW m \in Sent,
         NEW a, NEW b, Carries(L, H, msgs, a, b),
         NEW c \in 0 .. Len(L), Covers(L, H, m, b, c)
  PROVE  Carries(L, H, Append(msgs, m), a, c)
<1>0. PICK N \in Nat : N = Len(msgs) /\ \E f : Marks(L, H, msgs, N, f) /\ f[0] = a /\ f[N] = b
  BY DEF Carries
<1>1. PICK f : N = Len(msgs) /\ Marks(L, H, msgs, N, f) /\ f[0] = a /\ f[N] = b
  BY <1>0
<1>2. PICK K \in Nat : K = Len(L)
  BY DEF Log
<1>3. /\ f \in [0 .. N -> 0 .. K] /\ N \in 0 .. N /\ b \in 0 .. K
      /\ \A i, j \in 0 .. N : i <= j => f[i] <= f[j]
      /\ \A i \in 1 .. N : Covers(L, H, msgs[i], f[i - 1], f[i])
  BY <1>1, <1>2 DEF Marks
<1>4. PICK q \in Seq(Sent) :
        q = Append(msgs, m) /\ Len(q) = N + 1 /\ q[N + 1] = m /\ \A i \in 1 .. N : q[i] = msgs[i]
  <2>1. /\ Append(msgs, m) \in Seq(Sent) /\ Len(Append(msgs, m)) = N + 1
        /\ Append(msgs, m)[N + 1] = m /\ \A i \in 1 .. N : Append(msgs, m)[i] = msgs[i]
    BY <1>1, AppendProperties
  <2> QED
    BY <2>1
<1> DEFINE g == [i \in 0 .. N + 1 |-> IF i = N + 1 THEN c ELSE f[i]]
<1>5. b <= c /\ c \in 0 .. K
  BY <1>2, <1>3, CoversUp
<1>6. /\ g \in [0 .. N + 1 -> 0 .. K] /\ g[0] = a /\ g[N + 1] = c
      /\ \A i \in 0 .. N : g[i] = f[i]
  <2>1. \A i \in 0 .. N + 1 : i # N + 1 => i \in 0 .. N
    OBVIOUS
  <2> QED
    BY <1>1, <1>3, <1>5, <2>1
<1> HIDE DEF g
<1>7. ASSUME NEW i \in 0 .. N + 1, NEW j \in 0 .. N + 1, i <= j PROVE g[i] <= g[j]
  <2>1. CASE j = N + 1 /\ i # N + 1
    <3>1. i \in 0 .. N /\ f[i] <= f[N] /\ f[i] \in 0 .. K
      BY <1>3, <2>1
    <3>2. g[i] = f[i] /\ g[j] = c
      BY <1>6, <2>1, <3>1
    <3> QED
      BY <1>1, <1>3, <1>5, <3>1, <3>2
  <2>2. CASE j # N + 1
    <3>1. i \in 0 .. N /\ j \in 0 .. N
      BY <1>7, <2>2
    <3> QED
      BY <1>3, <1>6, <1>7, <3>1
  <2>3. CASE i = N + 1
    <3>1. i = j /\ g[i] \in 0 .. K
      BY <1>6, <1>7, <2>3
    <3> QED
      BY <3>1
  <2> QED
    BY <2>1, <2>2, <2>3
<1>8. ASSUME NEW i \in 1 .. N + 1 PROVE Covers(L, H, q[i], g[i - 1], g[i])
  <2>1. CASE i = N + 1
    <3>1. i - 1 = N /\ g[i - 1] = b /\ g[i] = c /\ q[i] = m
      BY <1>1, <1>3, <1>4, <1>6, <2>1
    <3> QED
      BY <3>1
  <2>2. CASE i # N + 1
    <3>1. i \in 1 .. N /\ i \in 0 .. N /\ i - 1 \in 0 .. N
      BY <2>2
    <3>2. g[i] = f[i] /\ g[i - 1] = f[i - 1] /\ q[i] = msgs[i]
      BY <1>4, <1>6, <3>1
    <3> QED
      BY <1>3, <3>1, <3>2
  <2> QED
    BY <2>1, <2>2
<1>9. Marks(L, H, q, N + 1, g)
  BY <1>2, <1>6, <1>7, <1>8 DEF Marks
<1>10. N + 1 \in Nat /\ N + 1 = Len(q)
  BY <1>4
<1> QED
  BY <1>4, <1>6, <1>9, <1>10 DEF Carries

(* Messages may be cut anywhere. *)
LEMMA CarriesCut ==
  ASSUME NEW L \in Log, NEW H, NEW msgs \in Seq(Sent), NEW N \in Nat, N = Len(msgs),
         NEW d \in 0 .. N, NEW a, NEW c, Carries(L, H, msgs, a, c)
  PROVE  \E b \in 0 .. Len(L) :
            /\ Carries(L, H, SubSeq(msgs, 1, d), a, b)
            /\ Carries(L, H, SubSeq(msgs, d + 1, N), b, c)
<1>1. PICK f : Marks(L, H, msgs, N, f) /\ f[0] = a /\ f[N] = c
  BY DEF Carries
<1>2. PICK K \in Nat : K = Len(L)
  BY DEF Log
<1>3. /\ f \in [0 .. N -> 0 .. K] /\ N \in 0 .. N
      /\ \A i, j \in 0 .. N : i <= j => f[i] <= f[j]
      /\ \A i \in 1 .. N : Covers(L, H, msgs[i], f[i - 1], f[i])
  BY <1>1, <1>2 DEF Marks
<1> DEFINE b == f[d]
           g == [i \in 0 .. d |-> f[i]]
           h == [i \in 0 .. N - d |-> f[d + i]]
<1>4. b \in 0 .. K
  BY <1>3
<1>5. PICK s \in Seq(Sent) : s = SubSeq(msgs, 1, d) /\ Len(s) = d /\ \A i \in 1 .. d : s[i] = msgs[i]
  <2>1. /\ SubSeq(msgs, 1, d) \in Seq(Sent) /\ Len(SubSeq(msgs, 1, d)) = d
        /\ \A i \in 1 .. d : SubSeq(msgs, 1, d)[i] = msgs[i]
    BY CutTyped
  <2> QED
    BY <2>1
<1>6. PICK t \in Seq(Sent) :
        t = SubSeq(msgs, d + 1, N) /\ Len(t) = N - d /\ \A i \in 1 .. N - d : t[i] = msgs[d + i]
  <2>1. /\ SubSeq(msgs, d + 1, N) \in Seq(Sent) /\ Len(SubSeq(msgs, d + 1, N)) = N - d
        /\ \A i \in 1 .. N - d : SubSeq(msgs, d + 1, N)[i] = msgs[d + i]
    BY CutTyped, SMTT(30)
  <2> QED
    BY <2>1
<1>7. \A i \in 0 .. d : i \in 0 .. N /\ g[i] = f[i]
  OBVIOUS
<1>8. \A i \in 0 .. N - d : d + i \in 0 .. N /\ h[i] = f[d + i]
  OBVIOUS
<1>9. g \in [0 .. d -> 0 .. K] /\ h \in [0 .. N - d -> 0 .. K]
  BY <1>3, <1>7, <1>8
<1> HIDE DEF g, h
<1>10. Marks(L, H, s, d, g)
  <2>1. \A i, j \in 0 .. d : i <= j => g[i] <= g[j]
    BY <1>3, <1>7
  <2>2. ASSUME NEW i \in 1 .. d PROVE Covers(L, H, s[i], g[i - 1], g[i])
    <3>1. i \in 1 .. N /\ i \in 0 .. d /\ i - 1 \in 0 .. d
      OBVIOUS
    <3>2. s[i] = msgs[i] /\ g[i] = f[i] /\ g[i - 1] = f[i - 1]
      BY <1>5, <1>7, <3>1
    <3> QED
      BY <1>3, <3>1, <3>2
  <2> QED
    BY <1>2, <1>9, <2>1, <2>2 DEF Marks
<1>11. Marks(L, H, t, N - d, h)
  <2>1. ASSUME NEW i \in 0 .. N - d, NEW j \in 0 .. N - d, i <= j PROVE h[i] <= h[j]
    <3>1. d + i \in 0 .. N /\ d + j \in 0 .. N /\ d + i <= d + j
      BY <2>1
    <3> QED
      BY <1>3, <1>8, <3>1
  <2>2. ASSUME NEW i \in 1 .. N - d PROVE Covers(L, H, t[i], h[i - 1], h[i])
    <3>1. d + i \in 1 .. N /\ i \in 0 .. N - d /\ i - 1 \in 0 .. N - d /\ d + (i - 1) = (d + i) - 1
      OBVIOUS
    <3>2. t[i] = msgs[d + i] /\ h[i] = f[d + i] /\ h[i - 1] = f[(d + i) - 1]
      BY <1>6, <1>8, <3>1
    <3> QED
      BY <1>3, <3>1, <3>2
  <2> QED
    BY <1>2, <1>9, <2>1, <2>2 DEF Marks
<1>12. g[0] = a /\ g[d] = b /\ h[0] = b /\ h[N - d] = c
  <2>1. 0 \in 0 .. d /\ d \in 0 .. d /\ 0 \in 0 .. N - d /\ N - d \in 0 .. N - d /\ d + 0 = d /\ d + (N - d) = N
    OBVIOUS
  <2> QED
    BY <1>1, <1>7, <1>8, <2>1
<1> HIDE DEF b
<1>13. Carries(L, H, s, a, b) /\ Carries(L, H, t, b, c)
  <2>1. d \in Nat /\ N - d \in Nat
    OBVIOUS
  <2> QED
    BY <1>5, <1>6, <1>10, <1>11, <1>12, <2>1 DEF Carries
<1> QED
  BY <1>2, <1>4, <1>5, <1>6, <1>13

(* A single message covers what it carries. *)
LEMMA CarriesOne ==
  ASSUME NEW L, NEW H, NEW msgs, NEW a, NEW b, Carries(L, H, msgs, a, b), Len(msgs) = 1
  PROVE  Covers(L, H, msgs[1], a, b)
<1>0. PICK N \in Nat : N = Len(msgs) /\ \E f : Marks(L, H, msgs, N, f) /\ f[0] = a /\ f[N] = b
  BY DEF Carries
<1>1. PICK f : N = Len(msgs) /\ Marks(L, H, msgs, N, f) /\ f[0] = a /\ f[N] = b
  BY <1>0
<1>2. 1 \in 1 .. N /\ 1 - 1 = 0 /\ N = 1
  BY <1>1
<1>3. Covers(L, H, msgs[1], f[1 - 1], f[1])
  BY <1>1, <1>2 DEF Marks
<1> QED
  BY <1>1, <1>2, <1>3

(* The room stores another item, or forgets its history.                   *)
LEMMA CarriesGrow ==
  ASSUME NEW L \in Log, NEW H, NEW L2 \in Log, NEW H2, NEW msgs, NEW a, NEW b,
         Carries(L, H, msgs, a, b),
         Len(L) <= Len(L2), \A n \in 1 .. Len(L) : L2[n] = L[n],
         \A n \in H2 : n \in H \/ (n \in Nat /\ n > Len(L))
  PROVE  Carries(L2, H2, msgs, a, b)
<1>0. PICK N \in Nat : N = Len(msgs) /\ \E f : Marks(L, H, msgs, N, f) /\ f[0] = a /\ f[N] = b
  BY DEF Carries
<1>1. PICK f : N = Len(msgs) /\ Marks(L, H, msgs, N, f) /\ f[0] = a /\ f[N] = b
  BY <1>0
<1>2. PICK K \in Nat, M \in Nat : K = Len(L) /\ M = Len(L2)
  BY DEF Log
<1>3. /\ f \in [0 .. N -> 0 .. K]
      /\ \A i, j \in 0 .. N : i <= j => f[i] <= f[j]
      /\ \A i \in 1 .. N : Covers(L, H, msgs[i], f[i - 1], f[i])
  BY <1>1, <1>2 DEF Marks
<1>4. f \in [0 .. N -> 0 .. M]
  <2>1. \A x \in 0 .. K : x \in 0 .. M
    BY <1>2
  <2> QED
    BY <1>3, <2>1
<1>5. ASSUME NEW i \in 1 .. N PROVE Covers(L2, H2, msgs[i], f[i - 1], f[i])
  <2>1. i \in 0 .. N /\ i - 1 \in 0 .. N
    OBVIOUS
  <2>2. PICK x \in 0 .. K, y \in 0 .. K : x = f[i - 1] /\ y = f[i]
    BY <1>3, <2>1
  <2>3. Covers(L, H, msgs[i], x, y)
    BY <1>3, <2>2
  <2>4. \A n \in x + 1 .. y : L2[n] = L[n]
    BY <1>2
  <2>5. y # 0 => L2[y] = L[y]
    BY <1>2
  <2>6. Covers(L2, H2, msgs[i], x, y)
    <3>1. msgs[i].kind = "reset" => \A n \in H2 : n > y
      BY <1>2, <2>3 DEF Covers
    <3>2. msgs[i].kind = "bytes" => \A n \in x + 1 .. y : L2[n] = "chunk"
      BY <2>3, <2>4 DEF Covers
    <3>3. msgs[i].kind = "size" => L2[y] = "size"
      BY <2>3, <2>5 DEF Covers
    <3> QED
      BY <2>3, <3>1, <3>2, <3>3 DEF Covers
  <2> QED
    BY <2>2, <2>6
<1>6. Marks(L2, H2, msgs, N, f)
  BY <1>2, <1>3, <1>4, <1>5 DEF Marks
<1> QED
  BY <1>1, <1>6 DEF Carries

(* An item between the first and the last mark is between two neighbours.  *)
LEMMA Between ==
  ASSUME NEW N \in Nat, NEW f \in [0 .. N -> Nat], NEW n \in Nat, f[0] < n, n <= f[N]
  PROVE  \E i \in 1 .. N : f[i - 1] < n /\ n <= f[i]
<1> DEFINE T == {i \in 0 .. N : n <= f[i]}
<1>1. T \in SUBSET Nat /\ N \in T
  OBVIOUS
<1>2. PICK i \in T : \A j \in T : i <= j
  BY <1>1, NatLeast
<1>3. f[0] \in Nat /\ ~(n <= f[0])
  OBVIOUS
<1>4. i # 0 /\ i \in 0 .. N /\ n <= f[i]
  BY <1>3
<1>5. i - 1 \in 0 .. N /\ ~(i <= i - 1)
  BY <1>4
<1>6. i - 1 \notin T
  BY <1>2, <1>5
<1>7. f[i - 1] < n
  BY <1>5, <1>6
<1> QED
  BY <1>4, <1>7

(* Payloads cover chunks, and at least one.                                *)
LEMMA CarriesChunks ==
  ASSUME NEW L \in Log, NEW H, NEW msgs \in Seq(Sent), NEW a \in Nat, NEW b \in Nat,
         Carries(L, H, msgs, a, b), \A i \in 1 .. Len(msgs) : msgs[i].kind = "bytes"
  PROVE  /\ \A n \in a + 1 .. b : L[n] = "chunk"
         /\ msgs # <<>> => a < b
<1>0. PICK N \in Nat : N = Len(msgs) /\ \E f : Marks(L, H, msgs, N, f) /\ f[0] = a /\ f[N] = b
  BY DEF Carries
<1>1. PICK f : N = Len(msgs) /\ Marks(L, H, msgs, N, f) /\ f[0] = a /\ f[N] = b
  BY <1>0
<1>2. /\ f \in [0 .. N -> Nat]
      /\ \A i, j \in 0 .. N : i <= j => f[i] <= f[j]
      /\ \A i \in 1 .. N : Covers(L, H, msgs[i], f[i - 1], f[i])
  <2>1. \A x \in 0 .. Len(L) : x \in Nat
    OBVIOUS
  <2> QED
    BY <1>1, <2>1 DEF Marks
<1>3. ASSUME NEW n \in a + 1 .. b PROVE L[n] = "chunk"
  <2>1. PICK i \in 1 .. N : f[i - 1] < n /\ n <= f[i]
    <3>1. n \in Nat /\ f[0] < n /\ n <= f[N]
      BY <1>1
    <3> QED
      BY <1>2, <3>1, Between
  <2>2. n \in f[i - 1] + 1 .. f[i]
    <3>1. i \in 0 .. N /\ i - 1 \in 0 .. N
      OBVIOUS
    <3>2. f[i - 1] \in Nat /\ f[i] \in Nat
      BY <1>2, <3>1
    <3> QED
      BY <2>1, <3>2
  <2> QED
    BY <1>1, <1>2, <2>2 DEF Covers
<1>4. ASSUME msgs # <<>> PROVE a < b
  <2>1. N # 0
    BY <1>1, <1>4, EmptySeq
  <2>2. N \in 1 .. N /\ N - 1 \in 0 .. N /\ 0 \in 0 .. N /\ 0 <= N - 1
    BY <2>1
  <2>3. f[N - 1] < f[N] /\ f[0] <= f[N - 1]
    BY <1>1, <1>2, <2>2 DEF Covers
  <2>4. f[N - 1] \in Nat
    BY <1>2, <2>2
  <2> QED
    BY <1>1, <2>3, <2>4
<1> QED
  BY <1>3, <1>4

(* Two runs that follow on from each other are one.                        *)
LEMMA RunConcat ==
  ASSUME NEW a \in Nat, NEW b \in Nat, NEW c \in Nat, NEW s, NEW t, Run(s, a, b), Run(t, b, c)
  PROVE  Run(s \o t, a, c)
<1>1. PICK M \in Nat, N \in Nat : M = Len(s) /\ N = Len(t)
  BY DEF Run
<1>2. s \in Seq(Nat) /\ t \in Seq(Nat) /\ b = a + M /\ c = b + N
      /\ (\A i \in 1 .. M : s[i] = a + i) /\ \A i \in 1 .. N : t[i] = b + i
  BY <1>1 DEF Run
<1> DEFINE u == s \o t
<1>3. /\ u \in Seq(Nat) /\ Len(u) = M + N
      /\ (\A i \in 1 .. M : u[i] = s[i]) /\ \A i \in 1 .. N : u[M + i] = t[i]
  BY <1>1, <1>2, ConcatAt
<1> HIDE DEF u
<1>4. ASSUME NEW i \in 1 .. M + N PROVE u[i] = a + i
  <2>1. CASE i <= M
    <3>1. i \in 1 .. M
      BY <2>1
    <3> QED
      BY <1>2, <1>3, <3>1
  <2>2. CASE ~(i <= M)
    <3>1. PICK j \in 1 .. N : i = M + j
      <4>1. i - M \in 1 .. N /\ i = M + (i - M)
        BY <2>2
      <4> QED
        BY <4>1
    <3>2. u[i] = b + j
      BY <1>2, <1>3, <3>1
    <3> QED
      BY <1>2, <3>1, <3>2
  <2> QED
    BY <2>1, <2>2
<1>5. Run(u, a, c)
  BY <1>2, <1>3, <1>4 DEF Run
<1> QED
  BY <1>5 DEF u

(* A run and its next item.                                                *)
LEMMA RunAppend ==
  ASSUME NEW a \in Nat, NEW b \in Nat, NEW s, Run(s, a, b)
  PROVE  Run(Append(s, b + 1), a, b + 1) /\ Append(s, b + 1) # <<>>
<1>1. PICK N \in Nat : N = Len(s) /\ s \in Seq(Nat) /\ b = a + N /\ \A i \in 1 .. N : s[i] = a + i
  BY DEF Run
<1>2. /\ Append(s, b + 1) \in Seq(Nat) /\ Len(Append(s, b + 1)) = N + 1
      /\ Append(s, b + 1)[N + 1] = b + 1 /\ \A i \in 1 .. N : Append(s, b + 1)[i] = s[i]
      /\ Append(s, b + 1) # <<>>
  BY <1>1, AppendProperties
<1> DEFINE u == Append(s, b + 1)
<1> HIDE DEF u
<1>3. /\ u \in Seq(Nat) /\ Len(u) = N + 1 /\ u[N + 1] = b + 1 /\ \A i \in 1 .. N : u[i] = s[i]
      /\ u # <<>>
  BY <1>2 DEF u
<1>4. ASSUME NEW i \in 1 .. N + 1 PROVE u[i] = a + i
  <2>1. CASE i = N + 1
    BY <1>1, <1>3, <2>1
  <2>2. CASE i # N + 1
    <3>1. i \in 1 .. N
      BY <2>2
    <3> QED
      BY <1>1, <1>3, <3>1
  <2> QED
    BY <2>1, <2>2
<1>5. Run(u, a, b + 1)
  BY <1>1, <1>3, <1>4 DEF Run
<1> QED
  BY <1>3, <1>5 DEF u

(* The empty run.                                                          *)
LEMMA RunNothing == ASSUME NEW a \in Nat PROVE Run(<<>>, a, a)
<1>1. <<>> \in Seq(Nat) /\ Len(<<>>) = 0 /\ 1 .. 0 = {}
  OBVIOUS
<1> QED
  BY <1>1 DEF Run

(* A run of one item.                                                      *)
LEMMA RunOne ==
  ASSUME NEW a \in Nat
  PROVE  Run(<<a + 1>>, a, a + 1) /\ <<a + 1>> # <<>>
<1> DEFINE one == <<a + 1>>
<1>1. one \in Seq(Nat) /\ Len(one) = 1 /\ one[1] = a + 1 /\ one # <<>>
  OBVIOUS
<1> HIDE DEF one
<1>2. Run(one, a, a + 1)
  BY <1>1 DEF Run
<1> QED
  BY <1>1, <1>2 DEF one

(* The items of a sequence of messages are those between its first and its *)
(* last mark.                                                              *)
LEMMA CarriesRun ==
  ASSUME NEW L \in Log, NEW H, NEW msgs \in Seq(Sent), NEW a, NEW b, Carries(L, H, msgs, a, b)
  PROVE  a \in 0 .. Len(L) /\ b \in 0 .. Len(L) /\ Run(ItemsOf(msgs), a, b)
<1>0. PICK N \in Nat : N = Len(msgs) /\ \E f : Marks(L, H, msgs, N, f) /\ f[0] = a /\ f[N] = b
  BY DEF Carries
<1>1. PICK f : N = Len(msgs) /\ Marks(L, H, msgs, N, f) /\ f[0] = a /\ f[N] = b
  BY <1>0
<1>2. /\ f \in [0 .. N -> Nat] /\ a \in Nat /\ a \in 0 .. Len(L) /\ b \in 0 .. Len(L)
      /\ \A i \in 1 .. N : Covers(L, H, msgs[i], f[i - 1], f[i])
  <2>1. f \in [0 .. N -> 0 .. Len(L)] /\ \A i \in 1 .. N : Covers(L, H, msgs[i], f[i - 1], f[i])
    BY <1>1 DEF Marks
  <2>2. 0 \in 0 .. N /\ N \in 0 .. N /\ \A x \in 0 .. Len(L) : x \in Nat
    OBVIOUS
  <2> QED
    BY <1>1, <2>1, <2>2
<1>3. PICK g \in [0 .. N -> Seq(Nat)] :
        /\ g[0] = <<>>
        /\ \A n \in 1 .. N : g[n] = IF msgs[n].kind \in {"bytes", "size"}
                                      THEN g[n - 1] \o msgs[n].ns ELSE g[n - 1]
        /\ ItemsOf(msgs) = g[N]
  BY <1>1, ItemsSteps
<1> DEFINE Good == {n \in 0 .. N : Run(g[n], a, f[n])}
<1>4. 0 \in Good
  <2>1. 0 \in 0 .. N /\ a \in Nat
    BY <1>2
  <2>2. Run(<<>>, a, a)
    BY <2>1, RunNothing
  <2> QED
    BY <1>1, <1>3, <2>1, <2>2
<1>5. ASSUME NEW n \in 0 .. N - 1, n \in Good PROVE n + 1 \in Good
  <2>1. n + 1 \in 1 .. N /\ (n + 1) - 1 = n /\ n + 1 \in 0 .. N /\ n \in 0 .. N
    OBVIOUS
  <2>2. PICK x \in Nat, y \in Nat : x = f[n] /\ y = f[n + 1] /\ a \in Nat
    BY <1>2, <2>1
  <2>3. Covers(L, H, msgs[n + 1], x, y) /\ Run(g[n], a, x)
    BY <1>2, <1>5, <2>1, <2>2
  <2>4. CASE msgs[n + 1].kind \in {"bytes", "size"}
    <3>1. g[n + 1] = g[n] \o msgs[n + 1].ns
      BY <1>3, <2>1, <2>4
    <3>2. Run(msgs[n + 1].ns, x, y)
      <4>1. CASE msgs[n + 1].kind = "bytes"
        BY <2>3, <4>1 DEF Covers
      <4>2. CASE msgs[n + 1].kind = "size"
        <5>1. y = x + 1 /\ msgs[n + 1].ns = <<y>>
          BY <2>3, <4>2 DEF Covers
        <5> QED
          BY <5>1, RunOne
      <4> QED
        BY <2>4, <4>1, <4>2
    <3>3. Run(g[n] \o msgs[n + 1].ns, a, y)
      BY <2>2, <2>3, <3>2, RunConcat
    <3> QED
      BY <2>1, <2>2, <3>1, <3>3
  <2>5. CASE msgs[n + 1].kind \notin {"bytes", "size"}
    <3>1. g[n + 1] = g[n] /\ y = x
      BY <1>3, <2>1, <2>3, <2>5 DEF Covers
    <3> QED
      BY <2>1, <2>2, <2>3, <3>1
  <2> QED
    BY <2>4, <2>5
<1> HIDE DEF Good
<1>6. 0 .. N \subseteq Good
  <2>1. \A n \in 0 .. N - 1 : n \in Good => n + 1 \in Good
    BY <1>5
  <2> QED
    BY <1>4, <2>1, SetInduction
<1>7. N \in Good
  BY <1>6
<1> QED
  BY <1>1, <1>2, <1>3, <1>7 DEF Good

(* The last message before a mark. *)
LEMMA CarriesLast ==
  ASSUME NEW L \in Log, NEW H, NEW msgs \in Seq(Sent), NEW N \in Nat, N = Len(msgs), N # 0,
         NEW a, NEW c, Carries(L, H, msgs, a, c)
  PROVE  \E b \in 0 .. Len(L) : Carries(L, H, SubSeq(msgs, 1, N - 1), a, b) /\ Covers(L, H, msgs[N], b, c)
<1>1. PICK d \in 0 .. N : d = N - 1 /\ d + 1 = N
  OBVIOUS
<1>2. PICK b \in 0 .. Len(L) : Carries(L, H, SubSeq(msgs, 1, d), a, b) /\ Carries(L, H, SubSeq(msgs, d + 1, N), b, c)
  BY CarriesCut
<1>3. Len(SubSeq(msgs, d + 1, N)) = 1 /\ SubSeq(msgs, d + 1, N)[1] = msgs[N]
  <2>1. Len(SubSeq(msgs, d + 1, N)) = N - d /\ \A i \in 1 .. N - d : SubSeq(msgs, d + 1, N)[i] = msgs[d + i]
    BY CutTyped
  <2> QED
    BY <1>1, <2>1
<1>4. Covers(L, H, msgs[N], b, c)
  BY <1>2, <1>3, CarriesOne
<1> QED
  BY <1>1, <1>2, <1>4

(* The first message after a mark. *)
LEMMA CarriesFirst ==
  ASSUME NEW L \in Log, NEW H, NEW msgs \in Seq(Sent), msgs # <<>>,
         NEW a, NEW c, Carries(L, H, msgs, a, c)
  PROVE  \E b \in 0 .. Len(L) : Covers(L, H, Head(msgs), a, b) /\ Carries(L, H, Tail(msgs), b, c)
<1>0. PICK N \in Nat : N = Len(msgs) /\ N # 0
  BY EmptySeq
<1>1. PICK d \in 0 .. N : d = 1
  BY <1>0
<1>2. PICK b \in 0 .. Len(L) : Carries(L, H, SubSeq(msgs, 1, d), a, b) /\ Carries(L, H, SubSeq(msgs, d + 1, N), b, c)
  BY <1>0, CarriesCut
<1>3. Len(SubSeq(msgs, 1, d)) = 1 /\ SubSeq(msgs, 1, d)[1] = Head(msgs)
  <2>1. Len(SubSeq(msgs, 1, d)) = d /\ \A i \in 1 .. d : SubSeq(msgs, 1, d)[i] = msgs[i]
    BY <1>0, CutTyped
  <2>2. Head(msgs) = msgs[1]
    OBVIOUS
  <2> QED
    BY <1>1, <2>1, <2>2
<1>4. Covers(L, H, Head(msgs), a, b)
  BY <1>2, <1>3, CarriesOne
<1>5. Tail(msgs) = SubSeq(msgs, d + 1, N)
  BY <1>0, <1>1, TailIsSubSeq
<1> QED
  BY <1>2, <1>4, <1>5

(* One turn of fanout_loop. *)
LEMMA CarriesMerged ==
  ASSUME NEW out \in Seq(Sent), NEW a \in Nat, NEW c \in Nat, c + 1 \in 1 .. Len(log), log \in Log,
         NEW H, Carries(log, H, out, a, c)
  PROVE  Carries(log, H, Merged(out, c + 1), a, c + 1)
<1> DEFINE n == c + 1
<1>1. n \in 0 .. Len(log) /\ n \in Nat /\ c < n /\ (log[n] = "size" \/ log[n] = "chunk")
      /\ \A k \in c + 1 .. n : k = n
  BY ElementOfSeq DEF Log
<1>2. CASE log[n] = "size"
  <2>1. Covers(log, H, SizeControl(n), c, n) /\ SizeControl(n) \in Sent
    BY <1>1, <1>2, SentMade DEF Covers, SizeControl
  <2>2. Merged(out, n) = Append(out, SizeControl(n))
    BY <1>2 DEF Merged
  <2> QED
    BY <1>1, <2>1, <2>2, CarriesAppend
<1>3. CASE log[n] = "chunk" /\ ~(out # <<>> /\ Last(out).kind = "bytes" /\ Len(Last(out).ns) < MaxBatch)
  <2>1. Run(<<n>>, c, n)
    BY RunOne
  <2>2. Covers(log, H, Bytes(<<n>>), c, n)
    BY <1>1, <1>3, <2>1 DEF Covers, Bytes
  <2>3. Merged(out, n) = Append(out, Bytes(<<n>>)) /\ Bytes(<<n>>) \in Sent
    BY <1>1, <1>3, SentMade DEF Merged
  <2> QED
    BY <1>1, <2>2, <2>3, CarriesAppend
<1>4. CASE log[n] = "chunk" /\ (out # <<>> /\ Last(out).kind = "bytes" /\ Len(Last(out).ns) < MaxBatch)
  <2>1. PICK N \in Nat : N = Len(out) /\ N # 0 /\ Last(out) = out[N]
    BY <1>4, EmptySeq DEF Last
  <2>2. PICK b \in 0 .. Len(log) : Carries(log, H, SubSeq(out, 1, N - 1), a, b) /\ Covers(log, H, out[N], b, c)
    BY <2>1, CarriesLast
  <2>3. b < c /\ Run(out[N].ns, b, c) /\ \A k \in b + 1 .. c : log[k] = "chunk"
    BY <1>4, <2>1, <2>2 DEF Covers
  <2>4. PICK ns : ns = Append(out[N].ns, n)
    OBVIOUS
  <2>5. Run(ns, b, n) /\ ns # <<>>
    <3>1. b \in Nat
      OBVIOUS
    <3> QED
      BY <2>3, <2>4, <3>1, RunAppend
  <2>6. \A k \in b + 1 .. n : log[k] = "chunk"
    BY <1>4, <2>3
  <2>7. Covers(log, H, Bytes(ns), b, n)
    BY <1>1, <2>3, <2>5, <2>6 DEF Covers, Bytes
  <2>8. Bytes(ns) \in Sent
    BY <2>5 DEF Sent, Msg, Bytes, Run
  <2>9. SubSeq(out, 1, N - 1) \in Seq(Sent)
    <3>1. N - 1 \in 0 .. N
      BY <2>1
    <3> QED
      BY <2>1, <3>1, CutTyped
  <2>10. Carries(log, H, Append(SubSeq(out, 1, N - 1), Bytes(ns)), a, n)
    BY <1>1, <2>2, <2>7, <2>8, <2>9, CarriesAppend
  <2>11. Merged(out, n) = Append(SubSeq(out, 1, N - 1), Bytes(ns))
    BY <1>4, <2>1, <2>4 DEF Merged, Front
  <2> QED
    BY <2>10, <2>11
<1> QED
  BY <1>1, <1>2, <1>3, <1>4

(* A batch emits the items that it took, in order. *)
LEMMA CarriesCoalesced ==
  ASSUME log \in Log, NEW items, NEW a \in Nat, NEW b \in 0 .. Len(log), Run(items, a, b), NEW H
  PROVE  Carries(log, H, Coalesced(items), a, b)
<1>1. PICK N \in Nat : N = Len(items) /\ items \in Seq(Nat) /\ b = a + N /\ \A i \in 1 .. N : items[i] = a + i
  BY DEF Run
<1>2. PICK f \in [0 .. N -> Seq(Sent)] :
         f[0] = <<>> /\ (\A n \in 1 .. N : f[n] = Merged(f[n - 1], items[n])) /\ Coalesced(items) = f[N]
  BY <1>1, CoalescedSteps
<1>3. PICK K \in Nat : K = Len(log)
  BY DEF Log
<1> DEFINE Good == {n \in 0 .. N : Carries(log, H, f[n], a, a + n)}
<1>4. 0 \in Good
  <2>1. a \in 0 .. Len(log) /\ a + 0 = a /\ 0 \in 0 .. N
    BY <1>1, <1>3
  <2>2. Carries(log, H, <<>>, a, a)
    BY <2>1, CarriesNothing
  <2> QED
    BY <1>2, <2>1, <2>2
<1>5. ASSUME NEW n \in 0 .. N - 1, n \in Good PROVE n + 1 \in Good
  <2>1. n + 1 \in 1 .. N /\ (n + 1) - 1 = n /\ n + 1 \in 0 .. N /\ n \in 0 .. N
    OBVIOUS
  <2>2. PICK c \in Nat : c = a + n /\ c + 1 = a + (n + 1) /\ c + 1 \in 1 .. Len(log)
    <3>1. a + n \in Nat /\ (a + n) + 1 = a + (n + 1) /\ (a + n) + 1 \in 1 .. K
      BY <1>1, <1>3
    <3> QED
      BY <1>3, <3>1
  <2>3. f[n] \in Seq(Sent) /\ f[n + 1] = Merged(f[n], c + 1)
    BY <1>1, <1>2, <2>1, <2>2
  <2>4. Carries(log, H, f[n], a, c)
    BY <1>5, <2>2
  <2>5. Carries(log, H, Merged(f[n], c + 1), a, c + 1)
    BY <2>2, <2>3, <2>4, CarriesMerged
  <2> QED
    BY <2>1, <2>2, <2>3, <2>5
<1> HIDE DEF Good
<1>6. 0 .. N \subseteq Good
  <2>1. \A n \in 0 .. N - 1 : n \in Good => n + 1 \in Good
    BY <1>5
  <2> QED
    BY <1>4, <2>1, SetInduction
<1>7. N \in Good
  BY <1>6
<1> QED
  BY <1>1, <1>2, <1>7 DEF Good

-----------------------------------------------------------------------------
(* The room and its ingest loops, one at a time.                           *)

Using == {"announce", "start", "loop", "publish", "cleared", "skipped"}
Active(w) == writer[w] \notin {"away", "gone"}

(* The history has chunks and the size is the newest; what is stored and   *)
(* not published is the newest item; at most one writer is busy, and it is *)
(* the one attached; after its clear the history stays empty until the     *)
(* reset is published.                                                     *)
RoomInv ==
    /\ \A n \in hist : log[n] = "chunk"
    /\ roomSize # 0 => log[roomSize] = "size"
    /\ \A n \in 1 .. Len(log) : log[n] = "size" => n <= roomSize
    /\ \A w \in Writers : /\ item[w] = IF writer[w] = "publish" THEN Len(log) ELSE 0
                          /\ writer[w] = "publish" => Len(log) # 0
                          /\ writer[w] = "cleared" => hist = {}
                          /\ writer[w] # "skipped"
    /\ \A w, x \in Writers : Active(w) /\ Active(x) => w = x
    /\ attached = {w \in Writers : writer[w] \in Using}

(* The room starts with nobody attached.                                   *)
LEMMA InitRoom == Init => RoomInv
<1> SUFFICES ASSUME Init PROVE RoomInv
  OBVIOUS
<1>1. log = <<>> /\ hist = {} /\ roomSize = 0 /\ attached = {} /\ 1 .. Len(<<>>) = {}
  BY DEF Init
<1>2. \A w \in Writers : writer[w] = "away" /\ item[w] = 0
  BY DEF Init
<1> QED
  BY <1>1, <1>2 DEF RoomInv, Active, Using

(* RoomInv depends on the room's variables only.                           *)
LEMMA SameRoom == RoomInv /\ UNCHANGED roomVars => RoomInv'
BY DEF RoomInv, roomVars, Active

(* While a writer is busy the others are not. *)
LEMMA Alone ==
  ASSUME RoomInv, NEW w \in Writers, Active(w)
  PROVE  /\ \A x \in Writers \ {w} : ~Active(x)
         /\ attached = IF writer[w] \in Using THEN {w} ELSE {}
BY DEF RoomInv, Active, Using

(* An item is stored: the log grows by it.                                 *)
LEMMA StoreRoom ==
  ASSUME RoomTyped, RoomInv, NEW w \in Writers, NEW kind \in {"chunk", "size"}, Store(w, kind)
  PROVE  /\ RoomInv' /\ Len(log') = Len(log) + 1
         /\ \A n \in 1 .. Len(log) : log'[n] = log[n]
         /\ log'[Len(log) + 1] = kind
<1>1. PICK N \in Nat : N = Len(log) /\ DOMAIN log = 1 .. N
  BY DEF RoomTyped
<1>2. /\ Len(log') = N + 1 /\ \A n \in 1 .. N : log'[n] = log[n]
      /\ log'[N + 1] = kind
  <2>1. log' = Append(log, kind) /\ log \in Seq({"chunk", "size"})
    BY DEF Store, RoomTyped
  <2> QED
    BY <1>1, <2>1, AppendProperties
<1>3. /\ hist' = IF kind = "chunk" THEN hist \cup {N + 1} ELSE hist
      /\ roomSize' = IF kind = "size" THEN N + 1 ELSE roomSize
      /\ attached' = attached
      /\ item' = [item EXCEPT ![w] = N + 1]
      /\ writer[w] \in {"start", "loop"} /\ writer' = [writer EXCEPT ![w] = "publish"]
  BY <1>2 DEF Store, At
<1>4. /\ writer'[w] = "publish" /\ item'[w] = N + 1
      /\ \A x \in Writers \ {w} : writer'[x] = writer[x] /\ item'[x] = item[x]
  BY <1>3 DEF RoomTyped
<1>5. Active(w) /\ \A x \in Writers \ {w} : ~Active(x)
  BY <1>3, Alone DEF Active
<1>6. \A n \in hist' : log'[n] = "chunk"
  BY <1>1, <1>2, <1>3 DEF RoomInv, RoomTyped
<1>7. roomSize' # 0 => log'[roomSize'] = "size"
  BY <1>1, <1>2, <1>3 DEF RoomInv, RoomTyped
<1>8. ASSUME NEW n \in 1 .. Len(log'), log'[n] = "size" PROVE n <= roomSize'
  <2>1. CASE n = N + 1
    <3>1. kind = "size"
      BY <1>2, <1>8, <2>1
    <3>2. roomSize' = n
      BY <1>3, <2>1, <3>1
    <3>3. n \in Nat
      BY <2>1
    <3> QED
      BY <3>2, <3>3
  <2>2. CASE n # N + 1
    <3>1. n \in 1 .. N /\ log[n] = "size"
      BY <1>2, <1>8, <2>2
    <3>2. n <= roomSize /\ roomSize \in 0 .. N
      BY <1>1, <3>1 DEF RoomInv, RoomTyped
    <3> QED
      BY <1>3, <3>1, <3>2
  <2> QED
    BY <2>1, <2>2
<1>9. ASSUME NEW x \in Writers
      PROVE  /\ item'[x] = IF writer'[x] = "publish" THEN Len(log') ELSE 0
             /\ writer'[x] = "publish" => Len(log') # 0
             /\ writer'[x] = "cleared" => hist' = {}
             /\ writer'[x] # "skipped"
  <2>1. CASE x = w
    BY <1>2, <1>4, <2>1
  <2>2. CASE x # w
    <3>1. writer[x] \in {"away", "gone"} /\ item[x] = 0
      BY <1>5, <2>2 DEF RoomInv, Active
    <3> QED
      BY <1>4, <2>2, <3>1
  <2> QED
    BY <2>1, <2>2
<1>10. \A x, y \in Writers : Active(x)' /\ Active(y)' => x = y
  BY <1>4, <1>5 DEF Active
<1>11. attached' = {x \in Writers : writer'[x] \in Using}
  BY <1>3, <1>4 DEF RoomInv, Using
<1> QED
  BY <1>1, <1>2, <1>6, <1>7, <1>8, <1>9, <1>10, <1>11 DEF RoomInv

(* The steps of a writer that store nothing. *)
LEMMA WriterRoom ==
  ASSUME ~Overlapping, RoomTyped, RoomInv, NEW w \in Writers,
         WriterStep(w) \/ Attach(w) \/ Reset(w) \/ Detach(w)
  PROVE  RoomInv'
<1>1. PICK next \in {"announce", "start", "loop", "cleared", "off", "gone"} :
        writer' = [writer EXCEPT ![w] = next]
  <2>1. CASE Reset(w)
    <3>1. Cardinality(attached) = 1
      <4>1. attached = {w}
        BY <2>1, Alone DEF Reset, At, Active, Using
      <4> QED
        BY <4>1, FS_Singleton
    <3>2. ~(Cardinality(attached) > 1)
      BY <3>1
    <3>3. writer' = [writer EXCEPT ![w] = "cleared"]
      BY <2>1, <3>2 DEF Reset, At
    <3> QED
      BY <3>3
  <2>2. CASE ~Reset(w)
    BY <2>2 DEF WriterStep, Attach, Announce, Publish, PublishReset, Detach, AnnounceOff, At
  <2> QED
    BY <2>1, <2>2
<1>2. log' = log /\ roomSize' = roomSize /\ hist' \in {hist, {}}
  BY DEF WriterStep, Attach, Announce, Publish, Reset, PublishReset, Detach, AnnounceOff
<1>3. writer'[w] = next /\ \A x \in Writers \ {w} : writer'[x] = writer[x]
  BY <1>1 DEF RoomTyped
<1>4. \A x \in Writers \ {w} : ~Active(x)
  <2>1. CASE Attach(w)
    BY <2>1 DEF Attach, Active
  <2>2. CASE ~Attach(w)
    <3>1. Active(w)
      BY <2>2 DEF WriterStep, Announce, Publish, Reset, PublishReset, Detach, AnnounceOff, At, Active
    <3> QED
      BY <3>1, Alone
  <2> QED
    BY <2>1, <2>2
<1>5. \A x, y \in Writers : Active(x)' /\ Active(y)' => x = y
  BY <1>3, <1>4 DEF Active
<1>6. item'[w] = 0 /\ \A x \in Writers \ {w} : item'[x] = item[x]
  <2>1. CASE Publish(w)
    BY <2>1 DEF Publish, RoomTyped
  <2>2. CASE ~Publish(w)
    <3>1. item' = item /\ writer[w] # "publish"
      BY <2>2 DEF WriterStep, Attach, Announce, Reset, PublishReset, Detach, AnnounceOff, At
    <3> QED
      BY <3>1 DEF RoomInv
  <2> QED
    BY <2>1, <2>2
<1>7. \A n \in hist' : log'[n] = "chunk"
  BY <1>2 DEF RoomInv
<1>8. next = "cleared" => hist' = {}
  BY <1>1, <1>3 DEF WriterStep, Attach, Announce, Publish, Reset, PublishReset, Detach, AnnounceOff, At,
          RoomTyped
<1>9. ASSUME NEW x \in Writers
      PROVE  /\ item'[x] = IF writer'[x] = "publish" THEN Len(log') ELSE 0
             /\ writer'[x] = "publish" => Len(log') # 0
             /\ writer'[x] = "cleared" => hist' = {}
             /\ writer'[x] # "skipped"
  <2>1. CASE x = w
    BY <1>1, <1>3, <1>6, <1>8, <2>1
  <2>2. CASE x # w
    <3>1. writer[x] \in {"away", "gone"} /\ item[x] = 0
      BY <1>4, <2>2 DEF RoomInv, Active
    <3> QED
      BY <1>3, <1>6, <2>2, <3>1
  <2> QED
    BY <2>1, <2>2
<1>10. attached' = {x \in Writers : writer'[x] \in Using}
  <2>1. CASE Attach(w)
    <3>1. attached' = attached \cup {w} /\ writer'[w] = "announce"
      BY <2>1 DEF Attach, At, RoomTyped
    <3> QED
      BY <1>3, <3>1 DEF RoomInv, Using
  <2>2. CASE Detach(w)
    <3>1. attached' = attached \ {w} /\ writer'[w] \in {"off", "gone"}
      BY <2>2 DEF Detach, At, RoomTyped
    <3> QED
      BY <1>3, <3>1 DEF RoomInv, Using
  <2>3. CASE Announce(w) \/ Publish(w) \/ PublishReset(w) \/ Reset(w)
    <3>1. attached' = attached /\ writer'[w] \in Using /\ writer[w] \in Using
      BY <2>3 DEF Announce, Publish, PublishReset, Reset, At, RoomTyped, Using
    <3> QED
      BY <1>3, <3>1 DEF RoomInv
  <2>4. CASE AnnounceOff(w)
    <3>1. attached' = attached /\ writer'[w] \notin Using /\ writer[w] \notin Using
      BY <2>4 DEF AnnounceOff, At, RoomTyped, Using
    <3> QED
      BY <1>3, <3>1 DEF RoomInv
  <2> QED
    BY <2>1, <2>2, <2>3, <2>4 DEF WriterStep
<1> QED
  BY <1>2, <1>5, <1>7, <1>9, <1>10 DEF RoomInv

(* How much of the log is published. *)
Published == IF ToPublish = {} THEN Len(log) ELSE Len(log) - 1

(* What is stored and not published is the newest item at most.            *)
LEMMA Pending ==
  ASSUME RoomTyped, RoomInv
  PROVE  /\ ToPublish = IF \E w \in Writers : writer[w] = "publish" THEN {Len(log)} ELSE {}
         /\ Published \in 0 .. Len(log)
         /\ \A n \in Published + 1 .. Len(log) : n \in ToPublish
<1>1. PICK N \in Nat : N = Len(log)
  BY DEF RoomTyped
<1>2. CASE \E w \in Writers : writer[w] = "publish"
  <2>1. PICK w \in Writers : writer[w] = "publish"
    BY <1>2
  <2>2. item[w] = N /\ N # 0 /\ \A x \in Writers : item[x] \in {0, N}
    BY <1>1, <2>1 DEF RoomInv
  <2>3. ToPublish = {N}
    BY <1>1, <2>2 DEF ToPublish
  <2>4. Published = N - 1
    BY <1>1, <2>3 DEF Published
  <2> QED
    BY <1>1, <1>2, <2>2, <2>3, <2>4
<1>3. CASE ~\E w \in Writers : writer[w] = "publish"
  <2>1. ToPublish = {}
    BY <1>3 DEF RoomInv, ToPublish
  <2>2. Published = N
    BY <1>1, <2>1 DEF Published
  <2> QED
    BY <1>1, <1>3, <2>1, <2>2
<1> QED
  BY <1>2, <1>3

-----------------------------------------------------------------------------
(* From the log to the pages.                                              *)

Watching == CatchingUp \cup {"loop"}

(* A viewer that has not joined has received nothing, and until its        *)
(* history is written its page shows nothing.                              *)
FreshInv ==
    \A v \in Viewers :
      /\ pc[v] \in {"new", "joined", "size", "history"} => page[v].shown = {}
      /\ pc[v] = "new" => queue[v] = <<>> /\ carry[v] = <<>> /\ page[v].last = 0

(* All of the history and the size up to the mark a are on v's page or in  *)
(* what it has yet to be told of its snapshot.                             *)
Seen(v, a) ==
    /\ \A n \in hist : n <= a => \/ n \in page[v].shown
                                 \/ pc[v] \in {"size", "history"} /\ n \in snap[v].hist
    /\ roomSize <= a => roomSize = IF pc[v] = "size" THEN snap[v].size ELSE page[v].size

(* v has received what comes before a; what comes up to e is on its way.   *)
Behind(v, a, e) ==
    /\ Carries(log, hist, OwnMsgs(v), a, e)
    /\ page[v].last \in {0, a}
    /\ pc[v] \in Watching => Seen(v, a)

(* What is published is in the channel, in the batch being emitted, or was *)
(* sent to every registered viewer; in this order, without a hole.         *)
Passes(t, e) ==
    /\ Run(fanout, t, Published) /\ Carries(log, hist, outbox, e, t)
    /\ \A v \in registered : \E a \in Nat : Behind(v, a, e)

Flow == \E t, e \in Nat : Passes(t, e)

(* No viewer has joined at the start.                                      *)
LEMMA InitFresh == Init => FreshInv
BY DEF Init, FreshInv, Blank

(* Queues only grow of those that have joined.                             *)
LEMMA NextFresh ==
  ASSUME Typed, EntryInv, FreshInv, [Next]_vars
  PROVE  FreshInv'
<1>1. ASSUME NEW msg, Send(msg), UNCHANGED connVars PROVE FreshInv'
  <2>1. \A v \in Viewers : pc[v] = "new" => v \notin registered
    BY DEF EntryInv, Busy, Resting
  <2>2. \A v \in Viewers : v \notin registered => queue'[v] = queue[v]
    BY <1>1 DEF Send
  <2> QED
    BY <1>1, <2>1, <2>2 DEF FreshInv, connVars
<1>2. ASSUME UNCHANGED <<queue, connVars>> PROVE FreshInv'
  BY <1>2 DEF FreshInv, connVars
<1>3. ASSUME NEW w \in Writers, WriterStep(w) \/ WriterInput(w) PROVE FreshInv'
  BY <1>1, <1>2, <1>3 DEF WriterStep, WriterInput, Attach, Announce, Store, Publish, Reset,
     PublishReset, Detach, AnnounceOff, registryVars
<1>4. CASE FanoutTake \/ FanoutEmit \/ UserCountRead \/ UserCountSend
  BY <1>1, <1>2, <1>4 DEF FanoutTake, FanoutEmit, UserCountRead, UserCountSend, registryVars
<1>5. ASSUME NEW v \in Viewers, ViewerStep(v) \/ PeerEnds(v) \/ PeerStalls(v) PROVE FreshInv'
  <2>1. SUFFICES /\ pc'[v] \in {"new", "joined", "size", "history"} => page'[v].shown = {}
                 /\ pc'[v] # "new" \/ UNCHANGED <<pc, queue, carry, page>>
                 /\ \A u \in Viewers \ {v} : /\ pc'[u] = pc[u] /\ page'[u] = page[u]
                                             /\ queue'[u] = queue[u] /\ carry'[u] = carry[u]
    BY DEF FreshInv
  <2>2. CASE Join(v)
    BY <2>2 DEF Join, JoinThenSnapshot, Goto, FreshInv, registryVars, Typed, ConnsTyped
  <2>3. CASE CatchUp(v)
    <3>1. PICK p : page' = [page EXCEPT ![v] = p] /\ (pc[v] = "size" => p.shown = page[v].shown)
      <4>1. CASE pc[v] = "size"
        <5>1. page' = [page EXCEPT ![v] = [page[v] EXCEPT !.size = snap[v].size]]
          BY <2>3, <4>1 DEF CatchUp
        <5>2. [page[v] EXCEPT !.size = snap[v].size].shown = page[v].shown
          BY DEF Typed, ConnsTyped, Page
        <5> QED
          BY <5>1, <5>2
      <4>2. CASE pc[v] # "size"
        BY <2>3, <4>2 DEF CatchUp, CatchingUp
      <4> QED
        BY <4>1, <4>2
    <3>2. /\ pc'[v] \in {"history", "online", "count", "loop"} /\ (pc'[v] = "history" => pc[v] = "size")
          /\ \A u \in Viewers \ {v} : pc'[u] = pc[u]
      BY <2>3 DEF CatchUp, CatchingUp, Goto, Typed, ConnsTyped
    <3>3. queue' = queue /\ carry' = carry
      BY <2>3 DEF CatchUp, registryVars
    <3> QED
      BY <3>1, <3>2, <3>3 DEF FreshInv, Typed, ConnsTyped
  <2>4. CASE RelayTake(v) \/ RelayWrite(v)
    <3>1. pc[v] = "loop" /\ pc' = pc
      BY <2>4 DEF RelayTake, RelayWrite
    <3>2. \A u \in Viewers \ {v} : page'[u] = page[u] /\ queue'[u] = queue[u] /\ carry'[u] = carry[u]
      BY <2>4 DEF RelayTake, RelayWrite, registryVars, Typed, ConnsTyped, RegistryTyped
    <3> QED
      BY <3>1, <3>2
  <2>5. CASE WriteFails(v) \/ ChannelCloses(v) \/ PeerEnds(v)
    <3>1. Goto(v, "leave") /\ UNCHANGED <<queue, carry, page>>
      BY <2>5 DEF WriteFails, ChannelCloses, PeerEnds, registryVars
    <3> QED
      BY <3>1 DEF Goto, Typed, ConnsTyped
  <2>6. CASE PeerStalls(v)
    BY <2>6 DEF PeerStalls, registryVars, FreshInv
  <2>7. CASE Leave(v)
    <3>1. pc'[v] \in {"sweep", "recount"} /\ \A u \in Viewers \ {v} : pc'[u] = pc[u]
      BY <2>7 DEF Leave, Goto, Typed, ConnsTyped
    <3>2. \A u \in Viewers \ {v} : page'[u] = page[u] /\ queue'[u] = queue[u] /\ carry'[u] = carry[u]
      BY <2>7 DEF Leave, Gone, Typed, ConnsTyped, RegistryTyped
    <3> QED
      BY <3>1, <3>2
  <2>8. CASE Sweep(v) \/ Left(v)
    <3>1. PICK to \in {"recount", "done"} : Goto(v, to) /\ UNCHANGED <<queue, carry, page>>
      BY <2>8 DEF Sweep, Left, registryVars
    <3> QED
      BY <3>1 DEF Goto, Typed, ConnsTyped
  <2> QED
    BY <1>5, <2>2, <2>3, <2>4, <2>5, <2>6, <2>7, <2>8 DEF ViewerStep
<1>6. CASE UNCHANGED vars
  BY <1>2, <1>6 DEF vars, registryVars
<1> QED
  BY <1>3, <1>4, <1>5, <1>6 DEF Next

(* Nothing is stored at the start.                                         *)
LEMMA InitFlow == Init => Flow
<1> SUFFICES ASSUME Init PROVE Flow
  OBVIOUS
<1>1. log = <<>> /\ outbox = <<>> /\ fanout = <<>> /\ registered = {} /\ \A w \in Writers : item[w] = 0
  BY DEF Init
<1>2. log \in Log /\ Len(log) = 0
  BY <1>1 DEF Log
<1>3. Published = 0
  BY <1>1, <1>2 DEF Published, ToPublish
<1>4. Run(fanout, 0, Published)
  BY <1>1, <1>3, RunNothing
<1>5. Carries(log, hist, outbox, 0, 0)
  BY <1>1, <1>2, CarriesNothing
<1>6. Passes(0, 0)
  BY <1>1, <1>4, <1>5 DEF Passes
<1> QED
  BY <1>6 DEF Flow

(* What is on its way to a viewer, when a message is appended or some are  *)
(* taken.                                                                  *)
LEMMA AppendOwn ==
  ASSUME NEW S, NEW s \in Seq(S), NEW t \in Seq(S), NEW m \in S
  PROVE  s \o Append(t, m) = Append(s \o t, m)
<1>1. Append(t, m) = t \o <<m>> /\ Append(s \o t, m) = (s \o t) \o <<m>>
  <2>1. s \o t \in Seq(S)
    BY ConcatProperties
  <2> QED
    BY <2>1, AppendIsConcat
<1>2. (s \o t) \o <<m>> = s \o (t \o <<m>>)
  <2>1. <<m>> \in Seq(S)
    OBVIOUS
  <2> QED
    BY <2>1, ConcatAssociative
<1> QED
  BY <1>1, <1>2

(* K messages s and t, M of them s, cut after the first d.                 *)
CutAt(s, t, M, d, K) ==
    /\ SubSeq(s \o t, 1, d) = SubSeq(s, 1, d)
    /\ SubSeq(s \o t, d + 1, K) = SubSeq(s, d + 1, M) \o t

(* Cutting within s leaves t whole.                                        *)
LEMMA CutOwn ==
  ASSUME NEW S, NEW s \in Seq(S), NEW t \in Seq(S), NEW M \in Nat, M = Len(s), NEW d \in 0 .. M,
         NEW K \in Nat, K = Len(s \o t)
  PROVE  CutAt(s, t, M, d, K)
<1>1. PICK N \in Nat : N = Len(t)
  OBVIOUS
<1> DEFINE u == s \o t
           x == SubSeq(s, 1, d)
           y == SubSeq(s, d + 1, M)
           p == SubSeq(u, 1, d)
           q == SubSeq(u, d + 1, K)
<1>2. /\ u \in Seq(S) /\ Len(u) = M + N /\ K = M + N
      /\ (\A i \in 1 .. M : u[i] = s[i]) /\ \A i \in 1 .. N : u[M + i] = t[i]
  BY <1>1, ConcatAt
<1> HIDE DEF u
<1>3. /\ x \in Seq(S) /\ Len(x) = d /\ \A i \in 1 .. d : x[i] = s[i]
      /\ y \in Seq(S) /\ Len(y) = M - d /\ \A i \in 1 .. M - d : y[i] = s[d + i]
  BY CutTyped
<1>4. /\ p \in Seq(S) /\ Len(p) = d /\ \A i \in 1 .. d : p[i] = u[i]
      /\ q \in Seq(S) /\ Len(q) = K - d /\ \A i \in 1 .. K - d : q[i] = u[d + i]
  <2>1. d \in 0 .. K /\ K = Len(u)
    BY <1>2
  <2> QED
    BY <1>2, <2>1, CutTyped
<1> HIDE DEF x, y, p, q
<1>5. p = x
  <2>1. \A i \in 1 .. d : p[i] = x[i]
    BY <1>2, <1>3, <1>4
  <2> QED
    BY <1>3, <1>4, <2>1, SeqEqual
<1>6. q = y \o t
  <2>1. \A i \in 1 .. M - d : q[i] = y[i]
    <3> TAKE i \in 1 .. M - d
    <3>1. i \in 1 .. K - d /\ d + i \in 1 .. M
      BY <1>2
    <3> QED
      BY <1>2, <1>3, <1>4, <3>1
  <2>2. \A i \in 1 .. N : q[(M - d) + i] = t[i]
    <3> TAKE i \in 1 .. N
    <3>1. (M - d) + i \in 1 .. K - d /\ d + ((M - d) + i) = M + i
      <4>1. K = M + N
        BY <1>2
      <4> QED
        BY <4>1
    <3> QED
      BY <1>2, <1>4, <3>1, SMTT(30)
  <2>3. M - d \in Nat /\ M - d = Len(y) /\ Len(q) = (M - d) + N
    BY <1>2, <1>3, <1>4
  <2>4. Joined(S, y, t, q)
    BY <1>1, <1>3, <1>4, <2>1, <2>2, <2>3 DEF Joined
  <2> QED
    BY <2>4, ConcatKnown
<1> QED
  BY <1>5, <1>6 DEF u, x, y, p, q, CutAt

(* What is on its way is a sequence of messages. *)
LEMMA OwnTyped ==
  ASSUME Typed, NEW v \in Viewers
  PROVE  /\ OwnMsgs(v) \in Seq(Sent) /\ OwnMsgs(v) = carry[v] \o queue[v]
         /\ carry[v] \in Seq(Sent) /\ queue[v] \in Seq(Sent)
<1>1. carry[v] \in Seq(Sent) /\ queue[v] \in Seq(Sent)
  BY DEF Typed, ConnsTyped, RegistryTyped
<1> QED
  BY <1>1, ConcatProperties DEF OwnMsgs

(* The same as an implication, to be primed. *)
LEMMA PendingNow ==
  RoomTyped /\ RoomInv =>
    ToPublish = IF \E x \in Writers : writer[x] = "publish" THEN {Len(log)} ELSE {}
BY Pending

(* The same after a step.                                                  *)
LEMMA PendingNext ==
  ASSUME RoomTyped', RoomInv'
  PROVE  ToPublish' = IF \E x \in Writers : writer'[x] = "publish" THEN {Len(log')} ELSE {}
<1>1. (RoomTyped /\ RoomInv =>
         ToPublish = IF \E x \in Writers : writer[x] = "publish" THEN {Len(log)} ELSE {})'
  BY PendingNow, PTL
<1> QED
  BY <1>1

(* The log and what points into it. *)
LEMMA LogTyped ==
  ASSUME RoomTyped
  PROVE  /\ log \in Log /\ Len(log) \in Nat /\ roomSize \in 0 .. Len(log)
         /\ \A n \in hist : n \in 1 .. Len(log)
BY DEF RoomTyped, Log

(* A message is sent: it is appended to what is on its way. *)
LEMMA SendFlow ==
  ASSUME Typed, NEW msg \in Sent, Send(msg), UNCHANGED <<connVars, log, hist, roomSize>>,
         NEW e \in Nat, NEW e2 \in 0 .. Len(log), Covers(log, hist, msg, e, e2),
         \A v \in registered : \E a \in Nat : Behind(v, a, e)
  PROVE  \A v \in registered' : \E a \in Nat : Behind(v, a, e2)'
<1> TAKE v \in registered'
<1>1. v \in registered /\ v \in Viewers /\ queue'[v] = Append(queue[v], msg)
  BY DEF Send, Typed, RegistryTyped
<1>2. PICK a \in Nat : Behind(v, a, e)
  BY <1>1
<1>3. OwnMsgs(v)' = Append(OwnMsgs(v), msg)
  <2>1. carry'[v] = carry[v]
    BY DEF connVars
  <2>2. carry[v] \o Append(queue[v], msg) = Append(carry[v] \o queue[v], msg)
    <3>1. PICK c \in Seq(Sent), q \in Seq(Sent) : c = carry[v] /\ q = queue[v]
      BY <1>1, OwnTyped
    <3>2. c \o Append(q, msg) = Append(c \o q, msg)
      BY AppendOwn
    <3> QED
      BY <3>1, <3>2
  <2> QED
    BY <1>1, <2>1, <2>2 DEF OwnMsgs
<1>4. Carries(log, hist, Append(OwnMsgs(v), msg), a, e2)
  <2>1. OwnMsgs(v) \in Seq(Sent) /\ log \in Log
    BY <1>1, OwnTyped, LogTyped DEF Typed
  <2>2. Carries(log, hist, OwnMsgs(v), a, e)
    BY <1>2 DEF Behind
  <2> QED
    BY <2>1, <2>2, CarriesAppend
<1>5. Carries(log, hist, OwnMsgs(v), a, e2)'
  BY <1>3, <1>4
<1>6. page'[v].last \in {0, a} /\ (pc'[v] \in Watching => Seen(v, a)')
  BY <1>2 DEF Behind, connVars, Seen
<1> QED
  BY <1>5, <1>6 DEF Behind

(* The room stores or forgets: what is on its way stays what it was. *)
LEMMA RoomFlow ==
  ASSUME RoomTyped, RoomTyped', UNCHANGED <<fanout, outbox, registryVars, connVars>>,
         Len(log) <= Len(log'), \A n \in 1 .. Len(log) : log'[n] = log[n],
         \A n \in hist' : n \in hist \/ (n \in Nat /\ n > Len(log)),
         roomSize' = roomSize \/ roomSize' > Len(log),
         Published' = Published, Flow
  PROVE  Flow'
<1>1. PICK t \in Nat, e \in Nat : Passes(t, e)
  BY DEF Flow
<1>2. log \in Log /\ log' \in Log
  BY DEF RoomTyped, Log
<1>3. ASSUME NEW msgs, NEW a, NEW b, Carries(log, hist, msgs, a, b)
      PROVE  Carries(log', hist', msgs, a, b)
  BY <1>2, <1>3, CarriesGrow
<1>4. Run(fanout, t, Published)' /\ Carries(log, hist, outbox, e, t)'
  BY <1>1, <1>3 DEF Passes
<1>5. ASSUME NEW v \in registered' PROVE \E a \in Nat : Behind(v, a, e)'
  <2>1. PICK a \in Nat : Behind(v, a, e)
    BY <1>1, <1>5 DEF Passes, registryVars
  <2>2. OwnMsgs(v)' = OwnMsgs(v)
    BY DEF OwnMsgs, connVars, registryVars
  <2>3. Carries(log, hist, OwnMsgs(v), a, e)' /\ a <= Len(log)
    <3>1. Carries(log, hist, OwnMsgs(v), a, e)
      BY <2>1 DEF Behind
    <3>2. a \in 0 .. Len(log)
      <4>0. PICK N \in Nat : N = Len(OwnMsgs(v)) /\ \E f : Marks(log, hist, OwnMsgs(v), N, f) /\ f[0] = a
        BY <3>1 DEF Carries
      <4>1. PICK f : N = Len(OwnMsgs(v)) /\ Marks(log, hist, OwnMsgs(v), N, f) /\ f[0] = a
        BY <4>0
      <4>2. f \in [0 .. N -> 0 .. Len(log)] /\ 0 \in 0 .. N
        BY <4>1 DEF Marks
      <4> QED
        BY <4>1, <4>2
    <3> QED
      BY <1>3, <2>2, <3>1, <3>2
  <2>4. ASSUME pc'[v] \in Watching PROVE Seen(v, a)'
    <3>1. Seen(v, a) /\ UNCHANGED <<pc, page, snap>>
      BY <2>1, <2>4 DEF Behind, connVars
    <3>2. \A n \in hist' : n <= a => n \in hist
      BY <1>2, <2>3 DEF Log
    <3>3. roomSize' <= a => roomSize' = roomSize
      <4>1. Len(log) \in Nat /\ roomSize' \in Nat
        BY <1>2, LogTyped DEF Log, RoomTyped
      <4> QED
        BY <2>3, <4>1
    <3> QED
      BY <3>1, <3>2, <3>3 DEF Seen
  <2> QED
    BY <2>1, <2>3, <2>4 DEF Behind, connVars
<1>6. Passes(t, e)'
  BY <1>4, <1>5 DEF Passes
<1> QED
  BY <1>6 DEF Flow

(* An item is stored: it is pending, and nothing that is published         *)
(* changes.                                                                *)
LEMMA StoreFlow ==
  ASSUME RoomTyped, RoomTyped', RoomInv, Flow, NEW w \in Writers,
         NEW kind \in {"chunk", "size"}, Store(w, kind)
  PROVE  Flow'
<1>1. RoomInv' /\ Len(log') = Len(log) + 1 /\ \A n \in 1 .. Len(log) : log'[n] = log[n]
  BY StoreRoom
<1>2. PICK N \in Nat : N = Len(log) /\ Len(log') = N + 1
  BY <1>1, LogTyped
<1>3. Published' = Published
  <2>1. writer[w] # "publish" /\ writer'[w] = "publish" /\ Active(w)
    BY DEF Store, At, Active, RoomTyped
  <2>2. \A x \in Writers : writer[x] # "publish"
    BY <2>1, Alone DEF Active
  <2>3. ToPublish = {}
    BY <2>2, Pending
  <2>4. ToPublish' = {N + 1}
    <3>1. ToPublish' = IF \E x \in Writers : writer'[x] = "publish" THEN {Len(log')} ELSE {}
      BY <1>1, PendingNext DEF Typed
    <3> QED
      BY <1>1, <1>2, <2>1, <3>1
  <2> QED
    BY <1>2, <2>3, <2>4 DEF Published
<1>4. UNCHANGED <<fanout, outbox, registryVars, connVars>>
  BY DEF Store, taskVars
<1>5. \A n \in hist' : n \in hist \/ (n \in Nat /\ n > Len(log))
  BY <1>2 DEF Store
<1>6. roomSize' = roomSize \/ roomSize' > Len(log)
  BY <1>2 DEF Store
<1>7. Len(log) <= Len(log')
  BY <1>2
<1> QED
  BY <1>1, <1>3, <1>4, <1>5, <1>6, <1>7, RoomFlow

(* The other steps of the ingest loops.                                    *)
LEMMA SamePublished ==
  ASSUME RoomTyped, RoomTyped', RoomInv, RoomInv', log' = log,
         \A w \in Writers : (writer'[w] = "publish") = (writer[w] = "publish")
  PROVE  Published' = Published
<1>1. ToPublish = IF \E w \in Writers : writer[w] = "publish" THEN {Len(log)} ELSE {}
  BY Pending
<1>2. ToPublish' = IF \E x \in Writers : writer'[x] = "publish" THEN {Len(log')} ELSE {}
  BY <1>1, PendingNext DEF Typed
<1>3. ToPublish' = ToPublish
  BY <1>1, <1>2
<1> QED
  BY <1>3 DEF Published

(* A status or a reset is sent past the fan-out channel; it covers no      *)
(* item.                                                                   *)
LEMMA ControlFlow ==
  ASSUME Typed, Typed', RoomInv, RoomInv', Flow, NEW w \in Writers,
         Announce(w) \/ PublishReset(w) \/ AnnounceOff(w)
  PROVE  Flow'
<1>1. PICK t \in Nat, e \in Nat : Passes(t, e)
  BY DEF Flow
<1>2. PICK kind \in {"reset", "online", "offline"} :
        /\ Send(Control(kind))
        /\ kind = "reset" => hist = {}
  BY DEF Announce, PublishReset, AnnounceOff, At, RoomInv
<1>3. UNCHANGED <<connVars, log, hist, roomSize, fanout, outbox>>
  BY DEF Announce, PublishReset, AnnounceOff, taskVars
<1>4. Covers(log, hist, Control(kind), e, e)
  BY <1>2 DEF Covers, Control
<1>5. e \in 0 .. Len(log)
  BY <1>1, CarriesRun, LogTyped DEF Passes, Typed, TasksTyped
<1>6. \A v \in registered' : \E a \in Nat : Behind(v, a, e)'
  BY <1>1, <1>2, <1>3, <1>4, <1>5, SentMade, SendFlow DEF Passes
<1>7. Published' = Published
  <2>1. \A x \in Writers : (writer'[x] = "publish") = (writer[x] = "publish")
    BY DEF Announce, PublishReset, AnnounceOff, At, Typed, RoomTyped
  <2> QED
    BY <1>3, <2>1, SamePublished DEF Typed
<1>8. Passes(t, e)'
  BY <1>1, <1>3, <1>6, <1>7 DEF Passes
<1> QED
  BY <1>8 DEF Flow

(* The pending item enters the fan-out channel as the next one.            *)
LEMMA PublishFlow ==
  ASSUME Typed, Typed', RoomInv, RoomInv', Flow, NEW w \in Writers, Publish(w)
  PROVE  Flow'
<1>1. PICK t \in Nat, e \in Nat : Passes(t, e)
  BY DEF Flow
<1>2. PICK N \in Nat : N = Len(log)
  BY LogTyped DEF Typed
<1>3. /\ writer[w] = "publish" /\ writer' = [writer EXCEPT ![w] = "loop"] /\ log' = log
      /\ fanout' = Append(fanout, item[w])
      /\ UNCHANGED <<hist, roomSize, outbox, registryVars, connVars>>
  BY DEF Publish, At
<1>4. item[w] = N /\ N # 0
  BY <1>2, <1>3 DEF RoomInv
<1>5. Published = N - 1
  <2>1. ToPublish # {}
    BY <1>3, Pending DEF Typed
  <2> QED
    BY <1>2, <2>1 DEF Published
<1>6. Published' = N
  <2>1. \A x \in Writers : writer'[x] # "publish"
    BY <1>3, Alone DEF Active, Typed, RoomTyped
  <2>2. ToPublish' = IF \E x \in Writers : writer'[x] = "publish" THEN {Len(log')} ELSE {}
    BY <1>1, PendingNext DEF Typed
  <2>3. ToPublish' = {}
    BY <2>1, <2>2 DEF Typed
  <2> QED
    BY <1>2, <1>3, <2>3 DEF Published
<1>7. Run(fanout', t, N)
  <2>1. PICK P \in Nat : P = N - 1 /\ P + 1 = N
    BY <1>4
  <2>2. Run(fanout, t, P)
    BY <1>1, <1>5, <2>1 DEF Passes
  <2> QED
    BY <1>3, <1>4, <2>1, <2>2, RunAppend
<1>8. \A v \in registered' : \E a \in Nat : Behind(v, a, e)'
  BY <1>1, <1>3 DEF Passes, Behind, Seen, OwnMsgs, registryVars, connVars
<1>9. Passes(t, e)'
  BY <1>1, <1>3, <1>6, <1>7, <1>8 DEF Passes
<1> QED
  BY <1>9 DEF Flow

(* What leaves the room, the channels and the viewers alone. *)
LEMMA StillFlow ==
  ASSUME Flow, UNCHANGED <<log, hist, roomSize, fanout, outbox, connVars, registryVars, Published>>
  PROVE  Flow'
BY DEF Flow, Passes, Behind, Seen, OwnMsgs, registryVars, connVars

(* The steps of an ingest loop keep the order.                             *)
LEMMA WriterFlow ==
  ASSUME ~Overlapping, Typed, Typed', RoomInv, RoomInv', Flow, NEW w \in Writers,
         WriterStep(w) \/ WriterInput(w)
  PROVE  Flow'
<1>1. ASSUME NEW kind \in {"chunk", "size"}, Store(w, kind) PROVE Flow'
  BY <1>1, StoreFlow DEF Typed
<1>2. CASE Attach(w) \/ Detach(w)
  <2>1. UNCHANGED <<log, hist, roomSize, fanout, outbox, connVars, registryVars>>
    BY <1>2 DEF Attach, Detach, taskVars
  <2>2. \A x \in Writers : (writer'[x] = "publish") = (writer[x] = "publish")
    BY <1>2 DEF Attach, Detach, At, Typed, RoomTyped
  <2>3. Published' = Published
    BY <2>1, <2>2, SamePublished DEF Typed
  <2> QED
    BY <2>1, <2>3, StillFlow
<1>3. CASE Reset(w)
  <2>1. UNCHANGED <<log, roomSize, fanout, outbox, registryVars, connVars>> /\ hist' \in {hist, {}}
    BY <1>3 DEF Reset, taskVars
  <2>2. \A x \in Writers : (writer'[x] = "publish") = (writer[x] = "publish")
    BY <1>3 DEF Reset, At, Typed, RoomTyped
  <2>3. Published' = Published
    BY <2>1, <2>2, SamePublished DEF Typed
  <2>4. Len(log) <= Len(log')
    BY <2>1, LogTyped DEF Typed
  <2> QED
    BY <2>1, <2>3, <2>4, RoomFlow DEF Typed
<1> QED
  BY <1>1, <1>2, <1>3, ControlFlow, PublishFlow DEF WriterStep, WriterInput

(* The task takes what the channel holds; its order and its marks stay.    *)
LEMMA FanoutTakeFlow ==
  ASSUME Typed, RoomInv, Flow, FanoutTake, UNCHANGED Published
  PROVE  Flow'
<1>1. PICK t \in Nat, e \in Nat : Passes(t, e)
  BY DEF Flow
<1>2. /\ outbox = <<>> /\ outbox' = Coalesced(fanout) /\ fanout' = <<>>
      /\ UNCHANGED <<log, hist, roomSize, connVars, registryVars>>
  BY DEF FanoutTake, roomVars
<1>3. log \in Log /\ outbox \in Seq(Sent) /\ Published \in Nat /\ Published \in 0 .. Len(log)
  <2>1. Len(log) \in Nat
    BY LogTyped DEF Typed
  <2> QED
    BY <2>1, LogTyped, Pending DEF Typed, TasksTyped
<1>4. e = t
  <2>1. Run(ItemsOf(outbox), e, t) /\ Run(ItemsOf(outbox), t, t)
    <3>1. Carries(log, hist, outbox, e, t)
      BY <1>1 DEF Passes
    <3>2. t \in 0 .. Len(log)
      BY <1>3, <3>1, CarriesRun
    <3>3. Carries(log, hist, outbox, t, t)
      BY <1>2, <1>3, <3>2, CarriesNothing
    <3> QED
      BY <1>3, <3>1, <3>3, CarriesRun
  <2> QED
    <3> DEFINE n == Len(ItemsOf(outbox))
    <3>1. n \in Nat /\ t = e + n /\ t = t + n
      BY <2>1 DEF Run
    <3> HIDE DEF n
    <3> QED
      BY <3>1, <1>1
<1>5. Carries(log, hist, outbox', e, Published)
  BY <1>1, <1>2, <1>3, <1>4, CarriesCoalesced DEF Passes
<1>6. Run(fanout', Published, Published)
  BY <1>2, <1>3, RunNothing
<1>7. \A v \in registered' : \E a \in Nat : Behind(v, a, e)'
  BY <1>1, <1>2 DEF Passes, Behind, Seen, OwnMsgs, registryVars, connVars
<1>8. Passes(Published, e)'
  BY <1>2, <1>5, <1>6, <1>7 DEF Passes
<1> QED
  BY <1>3, <1>8 DEF Flow

(* The task sends the first message of its batch to everybody.             *)
LEMMA FanoutEmitFlow ==
  ASSUME Typed, RoomInv, Flow, FanoutEmit, UNCHANGED Published
  PROVE  Flow'
<1>1. PICK t \in Nat, e \in Nat : Passes(t, e)
  BY DEF Flow
<1>2. /\ outbox # <<>> /\ Send(Head(outbox)) /\ outbox' = Tail(outbox)
      /\ UNCHANGED <<log, hist, roomSize, fanout, connVars>>
  BY DEF FanoutEmit, roomVars
<1>3. log \in Log /\ outbox \in Seq(Sent) /\ Head(outbox) \in Sent /\ Len(log) \in Nat
  <2>1. outbox \in Seq(Sent)
    BY DEF Typed, TasksTyped
  <2> QED
    BY <1>2, <2>1, LogTyped DEF Typed
<1>4. PICK b \in 0 .. Len(log) :
        Covers(log, hist, Head(outbox), e, b) /\ Carries(log, hist, Tail(outbox), b, t)
  <2>1. Carries(log, hist, outbox, e, t)
    BY <1>1 DEF Passes
  <2> QED
    BY <1>2, <1>3, <2>1, CarriesFirst
<1>5. \A v \in registered' : \E a \in Nat : Behind(v, a, b)'
  <2>1. \A v \in registered : \E a \in Nat : Behind(v, a, e)
    BY <1>1 DEF Passes
  <2> QED
    BY <1>2, <1>3, <1>4, <2>1, SendFlow
<1>6. Passes(t, b)'
  BY <1>1, <1>2, <1>4, <1>5 DEF Passes
<1> QED
  BY <1>3, <1>6 DEF Flow

(* A count covers no item.                                                 *)
LEMMA UserCountFlow ==
  ASSUME Typed, RoomInv, Flow, UserCountRead \/ UserCountSend, UNCHANGED Published
  PROVE  Flow'
<1>1. PICK t \in Nat, e \in Nat : Passes(t, e)
  BY DEF Flow
<1>2. CASE UserCountRead
  <2>1. UNCHANGED <<log, hist, roomSize, fanout, outbox, connVars, registryVars>>
    BY <1>2 DEF UserCountRead, roomVars
  <2> QED
    BY <2>1, StillFlow
<1>3. CASE UserCountSend
  <2>1. Send(CountControl(count)) /\ UNCHANGED <<log, hist, roomSize, fanout, outbox, connVars>>
    BY <1>3 DEF UserCountSend, roomVars
  <2>2. CountControl(count) \in Sent
    BY SentMade DEF Typed, TasksTyped
  <2>3. Covers(log, hist, CountControl(count), e, e)
    BY DEF Covers, CountControl
  <2>4. e \in 0 .. Len(log)
    BY <1>1, CarriesRun, LogTyped DEF Passes, Typed, TasksTyped
  <2>5. \A v \in registered' : \E a \in Nat : Behind(v, a, e)'
    BY <1>1, <2>1, <2>2, <2>3, <2>4, SendFlow DEF Passes
  <2>6. Passes(t, e)'
    BY <1>1, <2>1, <2>5 DEF Passes
  <2> QED
    BY <2>6 DEF Flow
<1> QED
  BY <1>2, <1>3

(* A step of one connection: the others' view stays.                       *)
LEMMA OneFlow ==
  ASSUME Typed, RoomInv, Flow, NEW v \in Viewers, UNCHANGED <<log, hist, roomSize, fanout, outbox, Published>>,
         \A x \in Viewers \ {v} : /\ x \in registered' <=> x \in registered
                                  /\ pc'[x] = pc[x] /\ snap'[x] = snap[x] /\ page'[x] = page[x]
                                  /\ carry'[x] = carry[x] /\ queue'[x] = queue[x],
         registered' \subseteq Viewers,
         v \in registered' =>
            \A e \in 0 .. Len(log) :
              (v \in registered => \E a \in Nat : Behind(v, a, e)) => \E a \in Nat : Behind(v, a, e)'
  PROVE  Flow'
<1>1. PICK t \in Nat, e \in Nat : Passes(t, e)
  BY DEF Flow
<1>2. e \in 0 .. Len(log)
  BY <1>1, CarriesRun, LogTyped DEF Passes, Typed, TasksTyped
<1>3. ASSUME NEW x \in registered' PROVE \E a \in Nat : Behind(x, a, e)'
  <2>1. CASE x = v
    BY <1>1, <1>2, <1>3, <2>1 DEF Passes
  <2>2. CASE x # v
    <3>1. x \in Viewers \ {v} /\ x \in registered
      BY <1>3, <2>2
    <3>2. PICK a \in Nat : Behind(x, a, e)
      BY <1>1, <3>1 DEF Passes
    <3>3. /\ pc'[x] = pc[x] /\ snap'[x] = snap[x] /\ page'[x] = page[x]
          /\ carry'[x] = carry[x] /\ queue'[x] = queue[x]
      BY <3>1
    <3> QED
      BY <3>2, <3>3 DEF Behind, Seen, OwnMsgs
  <2> QED
    BY <2>1, <2>2
<1>4. Passes(t, e)'
  BY <1>1, <1>3 DEF Passes
<1> QED
  BY <1>4 DEF Flow

(* The numbers of a run. *)
LEMMA RunSet ==
  ASSUME NEW ns, NEW a \in Nat, NEW b \in Nat, Run(ns, a, b)
  PROVE  /\ ToSet(ns) = a + 1 .. b
         /\ a < b => Last(ns) = b
<1>1. PICK N \in Nat : N = Len(ns) /\ b = a + N
  BY DEF Run
<1>2. ns \in Seq(Nat) /\ DOMAIN ns = 1 .. N /\ \A i \in 1 .. N : ns[i] = a + i
  BY <1>1 DEF Run
<1>3. \A n \in a + 1 .. b : n - a \in 1 .. N /\ n = a + (n - a)
  BY <1>1
<1>4. ToSet(ns) = {ns[i] : i \in 1 .. N}
  BY <1>2 DEF ToSet
<1>5. \A n \in a + 1 .. b : n \in ToSet(ns)
  BY <1>2, <1>3, <1>4
<1>6. \A n \in ToSet(ns) : n \in a + 1 .. b
  BY <1>1, <1>2, <1>4
<1>7. a < b => Last(ns) = b
  BY <1>1, <1>2 DEF Last
<1> QED
  BY <1>5, <1>6, <1>7

(* A frame that covers what comes next brings the page up to its mark:     *)
(* payloads add their chunks, the newest size is the room's, and after a   *)
(* reset all that the room would replay is still to come.                  *)
LEMMA RenderedSeen ==
  ASSUME RoomTyped, RoomInv, NEW v, NEW m \in Sent, NEW a \in Nat, NEW b \in 0 .. Len(log),
         Covers(log, hist, m, a, b), pc[v] = "loop", Seen(v, a), page[v] \in Page,
         page[v].last \in {0, a}, UNCHANGED <<log, hist, roomSize, pc>>,
         page'[v] = Rendered(page[v], m)
  PROVE  Seen(v, b)' /\ page'[v].last \in {0, b}
<1>1. Len(log) \in Nat /\ b \in Nat /\ roomSize \in Nat /\ \A n \in hist : n \in 1 .. Len(log)
  BY LogTyped
<1>2. /\ \A n \in hist : n <= a => n \in page[v].shown
      /\ roomSize <= a => roomSize = page[v].size
  BY DEF Seen
<1>3. SUFFICES /\ \A n \in hist : n <= b => n \in page'[v].shown
               /\ roomSize <= b => roomSize = page'[v].size
               /\ page'[v].last \in {0, b}
  BY DEF Seen
<1>4. CASE m.kind = "bytes"
  <2>1. a < b /\ Run(m.ns, a, b) /\ \A n \in a + 1 .. b : log[n] = "chunk"
    BY <1>4 DEF Covers
  <2>2. ToSet(m.ns) = a + 1 .. b /\ Last(m.ns) = b
    BY <1>1, <2>1, RunSet
  <2>3. /\ page'[v].shown = page[v].shown \cup ToSet(m.ns)
        /\ page'[v].last = Last(m.ns) /\ page'[v].size = page[v].size
    BY <1>4 DEF Rendered, Page
  <2>4. roomSize <= b => roomSize <= a
    BY <1>1, <2>1 DEF RoomInv
  <2>5. \A n \in hist : n <= b => n <= a \/ n \in a + 1 .. b
    BY <1>1
  <2> QED
    BY <1>2, <2>2, <2>3, <2>4, <2>5
<1>5. CASE m.kind = "size"
  <2>1. b = a + 1 /\ m.ns = <<b>> /\ log[b] = "size"
    BY <1>5 DEF Covers
  <2>2. page'[v].shown = page[v].shown /\ page'[v].last = b /\ page'[v].size = b
    <3>1. m.ns[1] = b
      BY <2>1
    <3>2. page'[v] = [[page[v] EXCEPT !.size = m.ns[1]] EXCEPT !.last = m.ns[1]]
      BY <1>5 DEF Rendered
    <3> QED
      BY <3>1, <3>2 DEF Page
  <2>3. \A n \in hist : n <= b => n <= a
    BY <1>1, <2>1 DEF RoomInv
  <2>4. b <= roomSize
    BY <1>1, <2>1 DEF RoomInv
  <2> QED
    BY <1>1, <1>2, <2>2, <2>3, <2>4
<1>6. CASE m.kind \notin {"bytes", "size"}
  <2>1. b = a /\ (m.kind = "reset" => \A n \in hist : n > b)
    BY <1>6 DEF Covers
  <2>2. m.kind \in {"reset", "online", "offline", "count"}
    BY <1>6, SentShape
  <2>3. /\ page'[v].shown = IF m.kind = "reset" THEN {} ELSE page[v].shown
        /\ page'[v].last = page[v].last /\ page'[v].size = page[v].size
    BY <2>2 DEF Rendered, Page
  <2>4. m.kind = "reset" => \A n \in hist : ~(n <= b)
    BY <1>1, <2>1
  <2> QED
    BY <1>2, <2>1, <2>3, <2>4
<1> QED
  BY <1>4, <1>5, <1>6

(* Who joins has nothing on its way yet, and its snapshot has all up to    *)
(* there.                                                                  *)
LEMMA JoinFlow ==
  ASSUME Typed, RoomInv, Flow, FreshInv, NEW v \in Viewers, Join(v), UNCHANGED Published
  PROVE  Flow'
<1>1. /\ UNCHANGED <<log, hist, roomSize, fanout, outbox, queue, carry, page>>
      /\ pc' = [pc EXCEPT ![v] = pc'[v]] /\ \A x \in Viewers \ {v} : snap'[x] = snap[x]
      /\ registered' \in {registered, registered \cup {v}}
  BY DEF Join, JoinThenSnapshot, Goto, roomVars, taskVars, registryVars, Typed, ConnsTyped
<1>2. registered' \subseteq Viewers /\ \A x \in Viewers \ {v} : x \in registered' <=> x \in registered
  BY <1>1 DEF Typed, RegistryTyped
<1>3. \A x \in Viewers \ {v} : pc'[x] = pc[x]
  BY <1>1 DEF Typed, ConnsTyped
<1>4. ASSUME NEW e \in 0 .. Len(log), v \in registered => \E a \in Nat : Behind(v, a, e), v \in registered'
      PROVE  \E a \in Nat : Behind(v, a, e)'
  <2>1. OwnMsgs(v)' = OwnMsgs(v)
    BY <1>1 DEF OwnMsgs
  <2>2. CASE pc[v] = "new"
    <3>1. queue[v] = <<>> /\ carry[v] = <<>> /\ page[v].last = 0 /\ pc'[v] = "joined"
      BY <2>2 DEF FreshInv, Join, JoinThenSnapshot, Goto, Typed, ConnsTyped
    <3>2. OwnMsgs(v)' = <<>>
      BY <2>1, <3>1 DEF OwnMsgs
    <3>3. Carries(log, hist, OwnMsgs(v), e, e)'
      BY <1>1, <3>2, LogTyped, CarriesNothing DEF Typed
    <3>4. pc'[v] \notin Watching /\ page'[v].last = 0
      BY <1>1, <3>1 DEF Watching, CatchingUp
    <3>5. e \in Nat
      BY LogTyped DEF Typed
    <3> QED
      BY <3>3, <3>4, <3>5 DEF Behind
  <2>3. CASE pc[v] = "joined"
    <3>1. /\ snap'[v] = [hist |-> hist, size |-> roomSize, online |-> attached # {}]
          /\ pc'[v] = "size" /\ registered' = registered
      BY <2>3 DEF Join, JoinThenSnapshot, Goto, Typed, ConnsTyped, registryVars
    <3>2. PICK a \in Nat : Behind(v, a, e)
      BY <1>4, <3>1
    <3>3. Seen(v, a)'
      BY <1>1, <3>1 DEF Seen
    <3> QED
      BY <1>1, <2>1, <3>2, <3>3 DEF Behind
  <2> QED
    BY <2>2, <2>3 DEF Join, JoinThenSnapshot
<1> QED
  BY <1>1, <1>2, <1>3, <1>4, OneFlow

(* The history is written when the page is still empty. *)
LEMMA CatchUpFlow ==
  ASSUME Typed, RoomInv, Flow, FreshInv, NEW v \in Viewers, CatchUp(v), UNCHANGED Published
  PROVE  Flow'
<1>1. /\ UNCHANGED <<log, hist, roomSize, fanout, outbox, queue, carry, registered>>
      /\ pc[v] \in CatchingUp
  BY DEF CatchUp, roomVars, registryVars
<1>2. \A x \in Viewers \ {v} : pc'[x] = pc[x] /\ snap'[x] = snap[x] /\ page'[x] = page[x]
  BY DEF CatchUp, CatchingUp, Goto, Typed, ConnsTyped
<1>3. ASSUME NEW a \in Nat, NEW e, Behind(v, a, e) PROVE Behind(v, a, e)'
  <2>1. OwnMsgs(v)' = OwnMsgs(v)
    BY <1>1 DEF OwnMsgs
  <2>2. Seen(v, a) /\ page[v].last \in {0, a} /\ Carries(log, hist, OwnMsgs(v), a, e)
    BY <1>1, <1>3 DEF Behind, Watching
  <2>3. pc[v] \in {"size", "history"} => page[v].shown = {}
    BY DEF FreshInv
  <2>4. /\ pc \in [Viewers -> PCs] /\ page[v] \in Page /\ snap[v] \in Snapshot
        /\ page \in [Viewers -> Page] /\ snap \in [Viewers -> Snapshot]
    BY DEF Typed, ConnsTyped
  <2>5. Seen(v, a)' /\ page'[v].last = page[v].last
    <3>1. CASE pc[v] = "size"
      <4>1. /\ page'[v] = [page[v] EXCEPT !.size = snap[v].size]
            /\ pc'[v] = "history" /\ snap' = snap
        BY <2>4, <3>1 DEF CatchUp, Goto
      <4> QED
        BY <1>1, <2>2, <2>4, <3>1, <4>1 DEF Seen, Page
    <3>2. CASE pc[v] = "history"
      <4>1. /\ page'[v] = [page[v] EXCEPT !.shown = snap[v].hist]
            /\ pc'[v] = "online" /\ snap' = snap
        BY <2>4, <3>2 DEF CatchUp, Goto
      <4> QED
        BY <1>1, <2>2, <2>3, <2>4, <3>2, <4>1 DEF Seen, Page
    <3>3. CASE pc[v] = "online"
      <4>1. /\ page'[v] = [page[v] EXCEPT !.online = snap[v].online]
            /\ pc'[v] = "count"
        BY <2>4, <3>3 DEF CatchUp, Goto
      <4> QED
        BY <1>1, <2>2, <2>4, <3>3, <4>1 DEF Seen, Page
    <3>4. CASE pc[v] = "count"
      <4>1. /\ page'[v] = [page[v] EXCEPT !.count = Cardinality(registered)]
            /\ pc'[v] = "loop"
        BY <2>4, <3>4 DEF CatchUp, Goto
      <4> QED
        BY <1>1, <2>2, <2>4, <3>4, <4>1 DEF Seen, Page
    <3> QED
      BY <1>1, <3>1, <3>2, <3>3, <3>4 DEF CatchingUp
  <2> QED
    BY <1>1, <2>1, <2>2, <2>5 DEF Behind
<1> QED
  <2>1. registered' \subseteq Viewers
    BY <1>1 DEF Typed, RegistryTyped
  <2> QED
    BY <1>1, <1>2, <1>3, <2>1, OneFlow

(* A sequence is its two parts. *)
LEMMA CutWhole ==
  ASSUME NEW S, NEW q \in Seq(S), NEW N \in Nat, N = Len(q), NEW d \in 0 .. N
  PROVE  SubSeq(q, 1, d) \o SubSeq(q, d + 1, N) = q
<1>1. SubSeq(q, 1, N) = q
  BY SubSeqFull
<1>2. SubSeq(q, 1, d) \o SubSeq(q, d + 1, N) = SubSeq(q, 1, N)
  <2>1. 1 \in 1 .. Len(q) + 1 /\ d \in 1 - 1 .. Len(q) /\ N \in d .. Len(q)
    OBVIOUS
  <2> QED
    BY <2>1, ConcatAdjacentSubSeq
<1> QED
  BY <1>1, <1>2

(* What relay drains is still on its way. *)
LEMMA RelayTakes ==
  ASSUME Typed, NEW v \in Viewers, RelayTake(v), NEW x \in Viewers
  PROVE  OwnMsgs(x)' = OwnMsgs(x)
<1>1. carry[v] = <<>> /\ (x # v => carry'[x] = carry[x] /\ queue'[x] = queue[x])
  BY DEF RelayTake, Typed, ConnsTyped, RegistryTyped
<1>2. PICK q \in Seq(Sent), N \in Nat, d \in Nat :
        /\ q = queue[v] /\ N = Len(q) /\ d \in 0 .. N
        /\ carry'[v] = SubSeq(q, 1, d) /\ queue'[v] = SubSeq(q, d + 1, N)
  <2>1. queue \in [Viewers -> Seq(Sent)] /\ carry \in [Viewers -> Seq(Sent)]
    BY DEF Typed, ConnsTyped, RegistryTyped
  <2>2. PICK q \in Seq(Sent), N \in Nat : q = queue[v] /\ N = Len(q)
    BY <2>1
  <2>3. Drained(q) \in 0 .. N
    BY <2>2, DrainedKnown
  <2>4. carry'[v] = SubSeq(q, 1, Drained(q)) /\ queue'[v] = SubSeq(q, Drained(q) + 1, N)
    BY <2>1, <2>2 DEF RelayTake
  <2>5. PICK d \in Nat : d \in 0 .. N /\ d = Drained(q)
    BY <2>2, <2>3
  <2>6. carry'[v] = SubSeq(q, 1, d) /\ queue'[v] = SubSeq(q, d + 1, N)
    BY <2>4, <2>5
  <2> QED
    BY <2>2, <2>5, <2>6
<1>3. OwnMsgs(v)' = OwnMsgs(v)
  <2>1. OwnMsgs(v) = q
    BY <1>1, <1>2, ConcatEmptySeq DEF OwnMsgs
  <2>2. OwnMsgs(v)' = SubSeq(q, 1, d) \o SubSeq(q, d + 1, N)
    BY <1>2 DEF OwnMsgs
  <2>3. SubSeq(q, 1, d) \o SubSeq(q, d + 1, N) = q
    BY <1>2, CutWhole
  <2> QED
    BY <2>1, <2>2, <2>3
<1> QED
  BY <1>1, <1>3 DEF OwnMsgs

(* Draining changes nothing of what is on its way.                         *)
LEMMA RelayTakeFlow ==
  ASSUME Typed, RoomInv, Flow, NEW v \in Viewers, RelayTake(v), UNCHANGED Published
  PROVE  Flow'
<1>1. /\ UNCHANGED <<log, hist, roomSize, fanout, outbox, registered, pc, snap, page>>
      /\ \A x \in Viewers \ {v} : carry'[x] = carry[x] /\ queue'[x] = queue[x]
  BY DEF RelayTake, roomVars, taskVars, Typed, ConnsTyped, RegistryTyped
<1>2. OwnMsgs(v)' = OwnMsgs(v)
  BY RelayTakes
<1>3. ASSUME NEW e, NEW a \in Nat, Behind(v, a, e) PROVE Behind(v, a, e)'
  BY <1>1, <1>2, <1>3 DEF Behind, Seen
<1>4. registered' \subseteq Viewers
  BY <1>1 DEF Typed, RegistryTyped
<1> QED
  BY <1>1, <1>3, <1>4, OneFlow

(* What relay writes: the first d messages of those on their way to v, in  *)
(* one frame m; more than one only if they are payloads.                   *)
Framed(v, s, K, d, m) ==
    /\ s = OwnMsgs(v) /\ K = Len(s) /\ d \in 1 .. K
    /\ OwnMsgs(v)' = SubSeq(s, d + 1, K)
    /\ page'[v] = Rendered(page[v], m)
    /\ \/ d = 1 /\ m = s[1]
       \/ /\ m = Bytes(ItemsOf(SubSeq(s, 1, d)))
          /\ \A i \in 1 .. d : s[i].kind = "bytes"

(* relay writes some of the first messages in one frame.                   *)
LEMMA RelayFrame ==
  ASSUME Typed, NEW v \in Viewers, RelayWrite(v)
  PROVE  \E s \in Seq(Sent), K \in Nat, d \in Nat, m \in Sent : Framed(v, s, K, d, m)
<1>1. /\ queue' = queue
      /\ carry[v] # <<>>
  BY DEF RelayWrite, registryVars
<1>2. PICK c \in Seq(Sent), q \in Seq(Sent), M \in Nat :
        c = carry[v] /\ q = queue[v] /\ M = Len(c) /\ M # 0
  <2>1. carry[v] \in Seq(Sent) /\ queue[v] \in Seq(Sent)
    BY OwnTyped
  <2>2. Len(carry[v]) \in Nat /\ Len(carry[v]) # 0
    BY <1>1, <2>1, EmptySeq
  <2> QED
    BY <2>1, <2>2
<1>3. PICK d \in 1 .. M, m \in Sent :
        /\ carry'[v] = SubSeq(c, d + 1, M)
        /\ page'[v] = Rendered(page[v], m)
        /\ \/ d = 1 /\ m = c[1]
           \/ /\ m = Bytes(ItemsOf(SubSeq(c, 1, d)))
              /\ \A i \in 1 .. d : c[i].kind = "bytes"
  <2> DEFINE n == Payloads(c)
  <2>1. n \in 0 .. M /\ \A i \in 1 .. n : c[i].kind = "bytes"
    BY <1>2, PayloadsKnown
  <2>2. /\ page'[v] = Rendered(page[v], IF n = 0 THEN Head(c) ELSE Bytes(ItemsOf(SubSeq(c, 1, n))))
        /\ carry'[v] = SubSeq(c, IF n = 0 THEN 2 ELSE n + 1, M)
    BY <1>2 DEF RelayWrite, Typed, ConnsTyped
  <2> HIDE DEF n
  <2>3. CASE n = 0
    <3>1. Head(c) = c[1] /\ c[1] \in Sent /\ 1 \in 1 .. M
      BY <1>2
    <3>2. page'[v] = Rendered(page[v], c[1]) /\ carry'[v] = SubSeq(c, 1 + 1, M)
      BY <2>2, <2>3, <3>1
    <3> QED
      BY <3>1, <3>2
  <2>4. CASE n # 0
    <3>1. n \in 1 .. M /\ n \in 0 .. M
      BY <2>1, <2>4
    <3>2. /\ SubSeq(c, 1, n) \in Seq(Sent) /\ Len(SubSeq(c, 1, n)) = n
          /\ \A i \in 1 .. n : SubSeq(c, 1, n)[i] = c[i]
      BY <1>2, <3>1, CutTyped
    <3>3. PICK s \in Seq(Sent) : s = SubSeq(c, 1, n) /\ s # <<>> /\ \A i \in 1 .. Len(s) : s[i].kind = "bytes"
      <4>1. PICK s \in Seq(Sent) : s = SubSeq(c, 1, n) /\ Len(s) = n /\ \A i \in 1 .. n : s[i] = c[i]
        BY <3>2
      <4>2. \A i \in 1 .. Len(s) : s[i].kind = "bytes"
        BY <2>1, <4>1
      <4>3. s # <<>>
        BY <2>4, <4>1, EmptySeq
      <4> QED
        BY <4>1, <4>2, <4>3
    <3>4. Bytes(ItemsOf(s)) \in Sent
      BY <3>3, FrameOfPayloads
    <3>5. page'[v] = Rendered(page[v], Bytes(ItemsOf(s))) /\ carry'[v] = SubSeq(c, n + 1, M)
      BY <2>2, <2>4, <3>3
    <3> QED
      BY <2>1, <3>1, <3>3, <3>4, <3>5
  <2> QED
    BY <2>3, <2>4
<1>4. PICK s \in Seq(Sent), K \in Nat : /\ s = c \o q /\ K = Len(s) /\ s = OwnMsgs(v) /\ d \in 1 .. K
                                        /\ \A i \in 1 .. M : s[i] = c[i]
  <2>1. PICK N \in Nat : N = Len(q)
    OBVIOUS
  <2>2. M = Len(c)
    BY <1>2
  <2>3. /\ c \o q \in Seq(Sent) /\ Len(c \o q) = M + N
        /\ \A i \in 1 .. M : (c \o q)[i] = c[i]
    BY <2>1, <2>2, ConcatAt
  <2>4. PICK s \in Seq(Sent) : s = c \o q /\ Len(s) = M + N
    BY <2>3
  <2>5. \A i \in 1 .. M : s[i] = c[i]
    BY <2>4, <2>3
  <2>6. d \in 1 .. M + N /\ M + N \in Nat
    BY <2>4
  <2> QED
    BY <1>2, <2>4, <2>5, <2>6 DEF OwnMsgs
<1>5. SubSeq(s, 1, d) = SubSeq(c, 1, d) /\ SubSeq(s, d + 1, K) = SubSeq(c, d + 1, M) \o q
  <2>1. d \in 0 .. M /\ M = Len(c) /\ K = Len(c \o q)
    BY <1>2, <1>4
  <2>2. CutAt(c, q, M, d, K)
    BY <2>1, CutOwn
  <2> QED
    BY <1>4, <2>2 DEF CutAt
<1>6. OwnMsgs(v)' = SubSeq(s, d + 1, K)
  BY <1>1, <1>2, <1>3, <1>5 DEF OwnMsgs
<1>7. s[1] = c[1] /\ \A i \in 1 .. d : s[i] = c[i]
  BY <1>4
<1>8. Framed(v, s, K, d, m)
  BY <1>3, <1>4, <1>5, <1>6, <1>7 DEF Framed
<1> QED
  BY <1>8

(* relay writes one frame: it covers what comes next for the page.         *)
LEMMA RelayWriteFlow ==
  ASSUME Typed, RoomInv, Flow, NEW v \in Viewers, RelayWrite(v), UNCHANGED Published
  PROVE  Flow'
<1>1. /\ UNCHANGED <<log, hist, roomSize, fanout, outbox, registered, queue, pc, snap>>
      /\ pc[v] = "loop"
      /\ \A x \in Viewers \ {v} : carry'[x] = carry[x] /\ page'[x] = page[x]
  BY DEF RelayWrite, roomVars, taskVars, registryVars, Typed, ConnsTyped
<1>2. PICK s \in Seq(Sent), K \in Nat, d \in Nat, m \in Sent : Framed(v, s, K, d, m)
  BY RelayFrame
<1>3. /\ s = OwnMsgs(v) /\ K = Len(s) /\ d \in 1 .. K /\ d \in 0 .. K
      /\ OwnMsgs(v)' = SubSeq(s, d + 1, K)
      /\ page'[v] = Rendered(page[v], m)
  BY <1>2 DEF Framed
<1>4. ASSUME NEW e \in 0 .. Len(log), NEW a \in Nat, Behind(v, a, e)
      PROVE  \E b \in Nat : Behind(v, b, e)'
  <2>1. log \in Log /\ Len(log) \in Nat
    BY LogTyped DEF Typed
  <2>2. Carries(log, hist, s, a, e)
    BY <1>3, <1>4 DEF Behind
  <2>3. PICK b \in 0 .. Len(log) :
          /\ Carries(log, hist, SubSeq(s, 1, d), a, b)
          /\ Carries(log, hist, SubSeq(s, d + 1, K), b, e)
    BY <1>3, <2>1, <2>2, CarriesCut
  <2>4. Covers(log, hist, m, a, b)
    <3>1. PICK q \in Seq(Sent) : /\ q = SubSeq(s, 1, d) /\ Len(q) = d
                                 /\ \A i \in 1 .. d : q[i] = s[i]
      <4>1. /\ SubSeq(s, 1, d) \in Seq(Sent) /\ Len(SubSeq(s, 1, d)) = d
            /\ \A i \in 1 .. d : SubSeq(s, 1, d)[i] = s[i]
        BY <1>3, CutTyped
      <4> QED
        BY <4>1
    <3>2. Carries(log, hist, q, a, b)
      BY <2>3, <3>1
    <3>3. CASE d = 1 /\ m = s[1]
      <4>1. q[1] = m /\ Len(q) = 1
        BY <3>1, <3>3
      <4> QED
        BY <3>2, <4>1, CarriesOne
    <3>4. CASE m = Bytes(ItemsOf(SubSeq(s, 1, d))) /\ \A i \in 1 .. d : s[i].kind = "bytes"
      <4>1. Run(ItemsOf(q), a, b)
        BY <2>1, <3>2, CarriesRun
      <4>2. q # <<>> /\ \A i \in 1 .. Len(q) : q[i].kind = "bytes"
        <5>1. \A i \in 1 .. Len(q) : q[i].kind = "bytes"
          BY <3>1, <3>4
        <5>2. q # <<>>
          <6>1. Len(q) # 0
            BY <1>3, <3>1
          <6> QED
            BY <6>1, EmptySeq
        <5> QED
          BY <5>1, <5>2
      <4>3. a < b /\ \A n \in a + 1 .. b : log[n] = "chunk"
        BY <2>1, <3>2, <4>2, CarriesChunks
      <4>4. m.kind = "bytes" /\ m.ns = ItemsOf(q)
        BY <3>1, <3>4 DEF Bytes
      <4> QED
        BY <4>1, <4>3, <4>4 DEF Covers
    <3> QED
      BY <1>2, <3>3, <3>4 DEF Framed
  <2>5. Seen(v, b)' /\ page'[v].last \in {0, b}
    <3>1. Seen(v, a) /\ page[v].last \in {0, a} /\ page[v] \in Page
      BY <1>1, <1>4 DEF Behind, Watching, Typed, ConnsTyped
    <3> QED
      BY <1>1, <1>3, <2>4, <3>1, RenderedSeen DEF Typed
  <2>6. b \in Nat
    BY <2>1
  <2> QED
    BY <1>1, <1>3, <2>3, <2>5, <2>6 DEF Behind
<1>5. registered' \subseteq Viewers
  BY <1>1 DEF Typed, RegistryTyped
<1> QED
  BY <1>1, <1>4, <1>5, OneFlow

(* The steps that end a connection.                                        *)
LEMMA EndFlow ==
  ASSUME Typed, RoomInv, Flow, NEW v \in Viewers, UNCHANGED Published,
         \/ WriteFails(v) \/ ChannelCloses(v) \/ Leave(v) \/ Sweep(v) \/ Left(v)
         \/ PeerEnds(v) \/ PeerStalls(v)
  PROVE  Flow'
<1>1. UNCHANGED <<log, hist, roomSize, fanout, outbox>>
  BY DEF WriteFails, ChannelCloses, Leave, Sweep, Left, PeerEnds, PeerStalls, roomVars, taskVars
<1>2. CASE Leave(v)
  <2>1. /\ \A x \in Viewers \ {v} : /\ pc'[x] = pc[x] /\ snap'[x] = snap[x] /\ page'[x] = page[x]
                                    /\ carry'[x] = carry[x] /\ queue'[x] = queue[x]
        /\ registered' = registered \ {v}
    BY <1>2 DEF Leave, Gone, Goto, Typed, ConnsTyped, RegistryTyped
  <2>2. registered' \subseteq Viewers /\ v \notin registered' /\ \A x \in Viewers \ {v} : x \in registered' <=> x \in registered
    BY <2>1 DEF Typed, RegistryTyped
  <2> QED
    BY <1>1, <2>1, <2>2, OneFlow
<1>3. CASE ~Leave(v)
  <2>1. /\ UNCHANGED <<registered, queue, snap, carry, page>>
        /\ \A x \in Viewers \ {v} : pc'[x] = pc[x]
        /\ pc'[v] = pc[v] \/ pc'[v] \notin Watching
    BY <1>3 DEF WriteFails, ChannelCloses, Sweep, Left, PeerEnds, PeerStalls, registryVars, Goto,
                Watching, CatchingUp, Typed, ConnsTyped
  <2>2. ASSUME NEW e, NEW a \in Nat, Behind(v, a, e) PROVE Behind(v, a, e)'
    BY <1>1, <2>1, <2>2 DEF Behind, Seen, OwnMsgs
  <2>3. registered' \subseteq Viewers
    BY <2>1 DEF Typed, RegistryTyped
  <2> QED
    BY <1>1, <2>1, <2>2, <2>3, OneFlow
<1> QED
  BY <1>2, <1>3

(* The steps by who takes them.                                            *)
LEMMA NextCases ==
  ASSUME [Next]_vars
  PROVE  \/ \E w \in Writers : WriterStep(w) \/ WriterInput(w)
         \/ /\ UNCHANGED roomVars
            /\ \/ FanoutTake \/ FanoutEmit \/ UserCountRead \/ UserCountSend
               \/ \E v \in Viewers : ViewerStep(v) \/ PeerEnds(v) \/ PeerStalls(v)
               \/ UNCHANGED vars
<1>1. FanoutTake \/ FanoutEmit \/ UserCountRead \/ UserCountSend => UNCHANGED roomVars
  BY DEF FanoutTake, FanoutEmit, UserCountRead, UserCountSend
<1>2. \A v \in Viewers : ViewerStep(v) \/ PeerEnds(v) \/ PeerStalls(v) => UNCHANGED roomVars
  BY DEF ViewerStep, Join, CatchUp, RelayTake, RelayWrite, WriteFails, ChannelCloses, Leave,
         Sweep, Left, PeerEnds, PeerStalls
<1>3. UNCHANGED vars => UNCHANGED roomVars
  BY DEF vars
<1> QED
  BY <1>1, <1>2, <1>3 DEF Next

(* Every step keeps one broadcaster after another in order.                *)
LEMMA NextRoom ==
  ASSUME ~Overlapping, RoomTyped, RoomInv, [Next]_vars
  PROVE  RoomInv'
<1>1. ASSUME NEW w \in Writers, NEW kind \in {"chunk", "size"}, Store(w, kind) PROVE RoomInv'
  BY <1>1, StoreRoom
<1>2. ASSUME NEW w \in Writers, WriterStep(w) \/ WriterInput(w) PROVE RoomInv'
  BY <1>1, <1>2, WriterRoom DEF WriterInput
<1>3. CASE UNCHANGED roomVars
  BY <1>3, SameRoom
<1> QED
  BY <1>2, <1>3, NextCases

(* Every step keeps the order and the marks.                               *)
LEMMA NextFlow ==
  ASSUME ~Overlapping, Typed, Typed', RoomInv, RoomInv', FreshInv, Flow, [Next]_vars
  PROVE  Flow'
<1>1. ASSUME NEW w \in Writers, WriterStep(w) \/ WriterInput(w) PROVE Flow'
  BY <1>1, WriterFlow
<1>2. CASE UNCHANGED roomVars /\ ~UNCHANGED vars
  <2>1. Published' = Published
    BY <1>2 DEF roomVars, Published, ToPublish
  <2>2. CASE FanoutTake \/ FanoutEmit \/ UserCountRead \/ UserCountSend
    BY <2>1, <2>2, FanoutTakeFlow, FanoutEmitFlow, UserCountFlow
  <2>3. ASSUME NEW v \in Viewers, ViewerStep(v) \/ PeerEnds(v) \/ PeerStalls(v) PROVE Flow'
    <3>1. CASE Join(v) \/ CatchUp(v)
      BY <2>1, <3>1, JoinFlow, CatchUpFlow
    <3>2. CASE RelayTake(v) \/ RelayWrite(v)
      BY <2>1, <3>2, RelayTakeFlow, RelayWriteFlow
    <3>3. CASE \/ WriteFails(v) \/ ChannelCloses(v) \/ Leave(v) \/ Sweep(v) \/ Left(v)
               \/ PeerEnds(v) \/ PeerStalls(v)
      BY <2>1, <3>3, EndFlow
    <3> QED
      BY <2>3, <3>1, <3>2, <3>3 DEF ViewerStep
  <2> QED
    BY <1>1, <1>2, <2>2, <2>3, NextCases
<1>3. CASE UNCHANGED vars
  <2>1. Published' = Published
    BY <1>3 DEF vars, roomVars, Published, ToPublish
  <2> QED
    BY <1>3, <2>1, StillFlow DEF vars, roomVars, taskVars
<1> QED
  BY <1>1, <1>2, <1>3, NextCases

(* The inductive invariant, for broadcasters that come one after another.  *)
DeliveryInv == Typed /\ EntryInv /\ RoomInv /\ FreshInv /\ Flow

(* The invariant holds at the start.                                       *)
LEMMA InitDelivery == Init => DeliveryInv
BY InitTyped, InitEntry, InitRoom, InitFresh, InitFlow DEF DeliveryInv

(* The invariant is inductive.                                             *)
LEMMA NextDelivery == ~Overlapping /\ DeliveryInv /\ [Next]_vars => DeliveryInv'
<1> SUFFICES ASSUME ~Overlapping, DeliveryInv, [Next]_vars PROVE DeliveryInv'
  OBVIOUS
<1>1. Typed' /\ EntryInv'
  BY NextTyped, NextEntry DEF DeliveryInv
<1>2. RoomInv'
  BY NextRoom DEF DeliveryInv, Typed
<1>3. FreshInv'
  BY NextFresh DEF DeliveryInv
<1>4. Flow'
  BY <1>1, <1>2, NextFlow DEF DeliveryInv
<1> QED
  BY <1>1, <1>2, <1>3, <1>4 DEF DeliveryInv

(* So it holds always.                                                     *)
LEMMA DeliveryHolds ==
  ASSUME ~Overlapping
  PROVE  Spec => []DeliveryInv
<1>1. Init => DeliveryInv
  BY InitDelivery
<1>2. DeliveryInv /\ [Next]_vars => DeliveryInv'
  BY NextDelivery
<1> QED
  BY <1>1, <1>2, PTL DEF Spec

(* What is on its way to everybody is a run up to what is published.       *)
LEMMA UpstreamRun ==
  ASSUME Typed, RoomInv, NEW t \in Nat, NEW e \in Nat, Passes(t, e)
  PROVE  Run(Upstream, e, Published) /\ Published \in 0 .. Len(log)
<1>1. Published \in 0 .. Len(log) /\ Published \in Nat
  BY Pending, LogTyped DEF Typed
<1>2. Run(ItemsOf(outbox), e, t)
  BY CarriesRun, LogTyped DEF Passes, Typed, TasksTyped
<1>3. Run(fanout, t, Published)
  BY DEF Passes
<1> QED
  BY <1>1, <1>2, <1>3, RunConcat DEF Upstream

(* It implies that delivery is FIFO.                                       *)
LEMMA FifoFollows == DeliveryInv => LiveIsFifo
<1> SUFFICES ASSUME DeliveryInv PROVE LiveIsFifo
  OBVIOUS
<1>1. PICK t \in Nat, e \in Nat : Passes(t, e)
  BY DEF DeliveryInv, Flow
<1>2. Typed /\ RoomInv /\ RoomTyped
  BY DEF DeliveryInv, Typed
<1>3. PICK P \in Nat : P = Published /\ Run(Upstream, e, P)
  BY <1>1, <1>2, UpstreamRun, LogTyped
<1> SUFFICES ASSUME NEW v \in registered, NEW way, way = ItemsOf(OwnMsgs(v)) \o Upstream
             PROVE  /\ \A i \in DOMAIN way : way[i] = way[1] + i - 1
                    /\ \A n \in ToPublish : way # <<>> => n = Last(way) + 1
                    /\ (way # <<>> /\ page[v].last # 0) => way[1] = page[v].last + 1
  BY DEF LiveIsFifo
<1>4. PICK a \in Nat : Behind(v, a, e)
  BY <1>1 DEF Passes
<1>5. Run(way, a, P)
  <2>1. Run(ItemsOf(OwnMsgs(v)), a, e)
    <3>1. OwnMsgs(v) \in Seq(Sent) /\ log \in Log
      BY <1>2, OwnTyped, LogTyped DEF Typed, RegistryTyped
    <3> QED
      BY <1>4, <3>1, CarriesRun DEF Behind
  <2> QED
    BY <1>3, <2>1, RunConcat
<1>6. PICK N \in Nat : N = Len(way) /\ P = a + N /\ way \in Seq(Nat) /\ \A i \in 1 .. N : way[i] = a + i
  BY <1>5 DEF Run
<1>7. DOMAIN way = 1 .. N
  BY <1>6
<1>8. way # <<>> => N # 0
  BY <1>6, EmptySeq
<1>9. \A i \in DOMAIN way : way[i] = way[1] + i - 1
  <2> TAKE i \in DOMAIN way
  <2>1. i \in 1 .. N /\ 1 \in 1 .. N
    BY <1>6, <1>7
  <2>2. way[i] = a + i /\ way[1] = a + 1
    BY <1>6, <2>1
  <2> QED
    BY <2>1, <2>2
<1>10. \A n \in ToPublish : way # <<>> => n = Last(way) + 1
  <2> SUFFICES ASSUME NEW n \in ToPublish, N # 0 PROVE n = Last(way) + 1
    BY <1>8
  <2>1. Last(way) = P
    BY <1>6 DEF Last
  <2>2. n = Len(log) /\ ToPublish # {}
    BY <1>2, Pending
  <2>3. P = Len(log) - 1
    BY <1>3, <2>2 DEF Published
  <2> QED
    BY <1>2, <2>1, <2>2, <2>3, LogTyped
<1>11. (way # <<>> /\ page[v].last # 0) => way[1] = page[v].last + 1
  BY <1>4, <1>6, <1>8 DEF Behind
<1> QED
  BY <1>9, <1>10, <1>11

(* With one broadcaster after another, what a viewer is sent follows on    *)
(* from what its page has, item by item: the fan-out's merging and its     *)
(* barriers, the queues, the relay's batches and the overflows neither     *)
(* reorder nor skip, whatever Capacity and MaxBatch are.                   *)
THEOREM DeliveryIsFifo ==
  ASSUME ~Overlapping
  PROVE  Spec => []LiveIsFifo
<1>1. DeliveryInv => LiveIsFifo
  BY FifoFollows
<1>2. Spec => []DeliveryInv
  BY DeliveryHolds
<1> QED
  BY <1>1, <1>2, PTL

(* The items a message brings between its marks. *)
LEMMA CoveredItems ==
  ASSUME NEW L \in Log, NEW H, NEW m \in Sent, NEW a \in 0 .. Len(L), NEW b \in 0 .. Len(L),
         Covers(L, H, m, a, b)
  PROVE  ToSet(ItemsOf(<<m>>)) = a + 1 .. b
<1>1. Carries(L, H, <<>>, a, a)
  BY CarriesNothing
<1>2. <<>> \in Seq(Sent) /\ Append(<<>>, m) = <<m>>
  OBVIOUS
<1>3. Carries(L, H, <<m>>, a, b)
  <2> DEFINE none == <<>>
  <2>1. Carries(L, H, none, a, a) /\ none \in Seq(Sent) /\ Append(none, m) = <<m>>
    BY <1>1, <1>2
  <2> HIDE DEF none
  <2>2. Carries(L, H, Append(none, m), a, b)
    BY <2>1, CarriesAppend
  <2> QED
    BY <2>1, <2>2
<1>4. Run(ItemsOf(<<m>>), a, b) /\ a \in Nat /\ b \in Nat
  <2>1. PICK s \in Seq(Sent) : s = <<m>>
    <3>1. <<m>> \in Seq(Sent)
      OBVIOUS
    <3> QED
      BY <3>1
  <2>2. Run(ItemsOf(s), a, b)
    BY <1>3, <2>1, CarriesRun
  <2>3. Len(L) \in Nat
    BY DEF Log
  <2> QED
    BY <2>1, <2>2, <2>3
<1> QED
  BY <1>4, RunSet

(* It implies that nothing is missed.                                      *)
LEMMA MissedFollows == DeliveryInv => NothingMissed
<1> SUFFICES ASSUME DeliveryInv, NEW v \in registered, pc[v] \in Watching, NEW n \in hist
             PROVE  n \in Outcome(v)
  BY DEF NothingMissed, Watching
<1>1. PICK t \in Nat, e \in Nat : Passes(t, e)
  BY DEF DeliveryInv, Flow
<1>2. Typed /\ RoomInv /\ RoomTyped /\ log \in Log /\ n \in 1 .. Len(log) /\ Len(log) \in Nat
      /\ log[n] = "chunk"
  BY LogTyped DEF DeliveryInv, Typed, RoomInv
<1>3. PICK P \in Nat : P = Published /\ P \in 0 .. Len(log) /\ Run(Upstream, e, P)
  BY <1>1, <1>2, UpstreamRun, LogTyped
<1>4. PICK a \in Nat : Carries(log, hist, OwnMsgs(v), a, e) /\ Seen(v, a)
  BY <1>1 DEF Passes, Behind
<1>5. PICK msgs \in Seq(Sent) : msgs = OwnMsgs(v)
  BY <1>2, OwnTyped DEF Typed, RegistryTyped
<1>60. PICK N \in Nat : N = Len(msgs) /\ \E f : Marks(log, hist, msgs, N, f) /\ f[0] = a /\ f[N] = e
  BY <1>4, <1>5 DEF Carries
<1>6. PICK f : Marks(log, hist, msgs, N, f) /\ f[0] = a /\ f[N] = e
  BY <1>60
<1>7. /\ f \in [0 .. N -> 0 .. Len(log)] /\ f \in [0 .. N -> Nat]
      /\ \A i, j \in 0 .. N : i <= j => f[i] <= f[j]
      /\ \A i \in 1 .. N : Covers(log, hist, msgs[i], f[i - 1], f[i])
  BY <1>2, <1>6 DEF Marks
<1> DEFINE resets == {i \in DOMAIN msgs : msgs[i].kind = "reset"}
           after == {i \in DOMAIN msgs : \A r \in resets : i > r}
           coming == (UNION {ToSet(ItemsOf(<<msgs[i]>>)) : i \in after})
                     \cup ToSet(Upstream) \cup ToPublish
<1>8. DOMAIN msgs = 1 .. N
  BY <1>60
<1>9. \A r \in resets : r \in 1 .. N /\ f[r] < n
  <2> TAKE r \in resets
  <2>1. r \in 1 .. N /\ msgs[r].kind = "reset"
    BY <1>8
  <2>2. n > f[r] /\ r \in 0 .. N
    BY <1>7, <2>1 DEF Covers
  <2> QED
    BY <1>2, <1>7, <2>1, <2>2
<1>10. Outcome(v) = (IF resets # {} THEN {}
                     ELSE page[v].shown \cup
                          (IF pc[v] \in {"size", "history"} THEN snap[v].hist ELSE {}))
                    \cup Chunks(coming)
  BY <1>5 DEF Outcome
<1>11. n \in coming => n \in Outcome(v)
  BY <1>2, <1>10 DEF Chunks
<1>12. CASE n <= a
  <2>1. resets = {}
    <3> SUFFICES ASSUME NEW r \in resets PROVE FALSE
      OBVIOUS
    <3>1. r \in 1 .. N /\ f[r] < n
      BY <1>9
    <3>2. 0 \in 0 .. N /\ r \in 0 .. N /\ 0 <= r
      BY <3>1
    <3>3. f[0] <= f[r] /\ f[r] \in Nat
      BY <1>7, <3>2
    <3> QED
      BY <1>2, <1>6, <1>12, <3>1, <3>3
  <2>2. n \in page[v].shown \/ (pc[v] \in {"size", "history"} /\ n \in snap[v].hist)
    BY <1>4, <1>12 DEF Seen
  <2> QED
    BY <1>10, <2>1, <2>2
<1>13. CASE a < n /\ n <= e
  <2>1. PICK i \in 1 .. N : f[i - 1] < n /\ n <= f[i]
    <3>1. n \in Nat /\ f[0] < n /\ n <= f[N]
      BY <1>2, <1>6, <1>13
    <3> QED
      BY <1>7, <3>1, Between
  <2>2. i - 1 \in 0 .. N /\ i \in 0 .. N /\ i \in DOMAIN msgs
    BY <1>8
  <2>3. i \in after
    <3> SUFFICES ASSUME NEW r \in resets, ~(i > r) PROVE FALSE
      BY <2>2
    <3>1. r \in 0 .. N /\ f[r] < n
      BY <1>9
    <3>2. i <= r
      BY <3>1
    <3>3. f[i] <= f[r] /\ f[i] \in Nat /\ f[r] \in Nat
      BY <1>7, <2>2, <3>1, <3>2
    <3> QED
      BY <1>2, <2>1, <3>1, <3>3
  <2>4. n \in ToSet(ItemsOf(<<msgs[i]>>))
    <3>1. /\ msgs[i] \in Sent /\ f[i - 1] \in 0 .. Len(log) /\ f[i] \in 0 .. Len(log)
          /\ Covers(log, hist, msgs[i], f[i - 1], f[i])
      BY <1>7, <2>2, <1>60, SMTT(30)
    <3>2. ToSet(ItemsOf(<<msgs[i]>>)) = f[i - 1] + 1 .. f[i]
      BY <1>2, <3>1, CoveredItems
    <3> QED
      BY <1>2, <2>1, <3>1, <3>2
  <2> QED
    BY <1>11, <2>3, <2>4
<1>14. CASE e < n /\ n <= P
  <2>1. ToSet(Upstream) = e + 1 .. P
    BY <1>3, RunSet
  <2> QED
    BY <1>2, <1>11, <1>14, <2>1
<1>15. CASE P < n
  <2>1. n \in P + 1 .. Len(log)
    BY <1>2, <1>15
  <2>2. n \in ToPublish
    BY <1>2, <1>3, <2>1, Pending
  <2> QED
    BY <1>11, <2>2
<1> QED
  BY <1>2, <1>12, <1>13, <1>14, <1>15

(* A viewer that has joined misses nothing of what the room would replay:  *)
(* it is on its page, in the snapshot it is being sent, or on its way, and *)
(* no reset that is still under way takes it off again.                    *)
THEOREM ViewersMissNothing ==
  ASSUME ~Overlapping
  PROVE  Spec => []NothingMissed
<1>1. DeliveryInv => NothingMissed
  BY MissedFollows
<1>2. Spec => []DeliveryInv
  BY DeliveryHolds
<1> QED
  BY <1>1, <1>2, PTL

(* Of the messages that are news, the last one is right; or none of them   *)
(* is news.                                                                *)
Final(msgs, news, right) ==
    \E i \in 1 .. Len(msgs) : /\ msgs[i] \in right
                              /\ \A j \in i + 1 .. Len(msgs) : msgs[j] \notin news
Silent(msgs, news) == \A i \in 1 .. Len(msgs) : msgs[i] \notin news

(* A right message is the last news; one that is no news changes nothing.  *)
LEMMA FinalAppend ==
  ASSUME NEW S, NEW msgs \in Seq(S), NEW m \in S, NEW news, NEW right
  PROVE  /\ m \in right => Final(Append(msgs, m), news, right)
         /\ m \notin news /\ Final(msgs, news, right) => Final(Append(msgs, m), news, right)
         /\ m \notin news /\ Silent(msgs, news) => Silent(Append(msgs, m), news)
<1>1. PICK q \in Seq(S), N \in Nat :
        /\ q = Append(msgs, m) /\ N = Len(msgs) /\ Len(q) = N + 1
        /\ q[N + 1] = m /\ \A i \in 1 .. N : q[i] = msgs[i]
  <2>1. PICK N \in Nat : N = Len(msgs)
    OBVIOUS
  <2>2. /\ Append(msgs, m) \in Seq(S) /\ Len(Append(msgs, m)) = N + 1
        /\ Append(msgs, m)[N + 1] = m /\ \A i \in 1 .. N : Append(msgs, m)[i] = msgs[i]
    BY <2>1
  <2> QED
    BY <2>1, <2>2
<1>2. \A i \in 1 .. N + 1 : i = N + 1 \/ i \in 1 .. N
  OBVIOUS
<1>3. ASSUME m \in right PROVE Final(q, news, right)
  <2>1. N + 1 \in 1 .. N + 1 /\ (N + 1) + 1 .. N + 1 = {}
    OBVIOUS
  <2> QED
    BY <1>1, <1>3, <2>1 DEF Final
<1>4. ASSUME m \notin news, Final(msgs, news, right) PROVE Final(q, news, right)
  <2>1. PICK i \in 1 .. N : msgs[i] \in right /\ \A j \in i + 1 .. N : msgs[j] \notin news
    BY <1>1, <1>4 DEF Final
  <2>2. \A j \in i + 1 .. N + 1 : j = N + 1 \/ j \in i + 1 .. N
    OBVIOUS
  <2>3. i \in 1 .. N + 1 /\ q[i] \in right
    BY <1>1, <2>1
  <2>4. \A j \in i + 1 .. N + 1 : q[j] \notin news
    BY <1>1, <1>4, <2>1, <2>2
  <2> QED
    BY <1>1, <2>3, <2>4 DEF Final
<1>5. ASSUME m \notin news, Silent(msgs, news) PROVE Silent(q, news)
  BY <1>1, <1>2, <1>5 DEF Silent
<1> QED
  BY <1>1, <1>3, <1>4, <1>5

(* The first d messages are taken: none of them news, or just one.         *)
LEMMA FinalRest ==
  ASSUME NEW S, NEW s \in Seq(S), NEW K \in Nat, K = Len(s), NEW d \in 1 .. K, NEW news, NEW right
  PROVE  /\ Silent(s, news) => Silent(SubSeq(s, d + 1, K), news)
         /\ (\A i \in 1 .. d : s[i] \notin right) /\ Final(s, news, right)
              => Final(SubSeq(s, d + 1, K), news, right)
         /\ d = 1 /\ Final(s, news, right)
              => \/ Final(SubSeq(s, d + 1, K), news, right)
                 \/ s[1] \in right /\ Silent(SubSeq(s, d + 1, K), news)
<1>1. d \in 0 .. K
  OBVIOUS
<1>2. PICK q \in Seq(S), M \in Nat :
        q = SubSeq(s, d + 1, K) /\ M = K - d /\ Len(q) = M /\ \A i \in 1 .. M : q[i] = s[d + i]
  <2>1. /\ SubSeq(s, d + 1, K) \in Seq(S) /\ Len(SubSeq(s, d + 1, K)) = K - d
        /\ \A i \in 1 .. K - d : SubSeq(s, d + 1, K)[i] = s[d + i]
    BY <1>1, CutTyped
  <2>2. PICK M \in Nat : M = K - d
    <3>1. K - d \in Nat
      OBVIOUS
    <3> QED
      BY <3>1
  <2> QED
    BY <2>1, <2>2
<1>3. \A i \in 1 .. M : d + i \in 1 .. K
  BY <1>2
<1>4. Silent(s, news) => Silent(q, news)
  BY <1>2, <1>3 DEF Silent
<1>5. ASSUME NEW i \in 1 .. K, s[i] \in right, \A j \in i + 1 .. K : s[j] \notin news
      PROVE  IF d < i THEN Final(q, news, right) ELSE Silent(q, news)
  <2>1. CASE d < i
    <3>1. i - d \in 1 .. M /\ d + (i - d) = i
      BY <1>2, <2>1
    <3>2. q[i - d] \in right
      BY <1>2, <1>5, <3>1
    <3>3. \A j \in (i - d) + 1 .. M : q[j] \notin news
      <4> TAKE j \in (i - d) + 1 .. M
      <4>1. j \in 1 .. M /\ d + j \in i + 1 .. K
        BY <1>2, <2>1
      <4> QED
        BY <1>2, <1>5, <4>1
    <3> QED
      BY <1>2, <2>1, <3>1, <3>2, <3>3 DEF Final
  <2>2. CASE ~(d < i)
    <3>1. \A j \in 1 .. M : d + j \in i + 1 .. K
      BY <1>2, <2>2
    <3> QED
      BY <1>2, <1>5, <2>2, <3>1 DEF Silent
  <2> QED
    BY <2>1, <2>2
<1>6. ASSUME \A i \in 1 .. d : s[i] \notin right, Final(s, news, right) PROVE Final(q, news, right)
  <2>1. PICK i \in 1 .. K : s[i] \in right /\ \A j \in i + 1 .. K : s[j] \notin news
    BY <1>6 DEF Final
  <2>2. d < i
    BY <1>6, <2>1
  <2> QED
    BY <1>5, <2>1, <2>2
<1>7. ASSUME d = 1, Final(s, news, right)
      PROVE  Final(q, news, right) \/ (s[1] \in right /\ Silent(q, news))
  <2>1. PICK i \in 1 .. K : s[i] \in right /\ \A j \in i + 1 .. K : s[j] \notin news
    BY <1>7 DEF Final
  <2>2. CASE d < i
    BY <1>5, <2>1, <2>2
  <2>3. CASE ~(d < i)
    <3>1. i = 1
      BY <1>7, <2>3
    <3> QED
      BY <1>5, <2>1, <2>3, <3>1
  <2> QED
    BY <2>2, <2>3
<1> QED
  BY <1>2, <1>4, <1>6, <1>7

-----------------------------------------------------------------------------
(* What the fan-out task emits.                                            *)

OutboxInv == \A i \in 1 .. Len(outbox) : outbox[i].kind \in {"bytes", "size"}

(* One turn of the fan-out loop makes no controls but sizes.               *)
LEMMA MergedKinds ==
  ASSUME NEW out \in Seq(Sent), NEW n \in Nat, \A i \in 1 .. Len(out) : out[i].kind \in {"bytes", "size"}
  PROVE  \A i \in 1 .. Len(Merged(out, n)) : Merged(out, n)[i].kind \in {"bytes", "size"}
<1>1. ASSUME NEW q \in Seq(Sent), NEW m \in Sent, m.kind \in {"bytes", "size"},
             \A i \in 1 .. Len(q) : q[i].kind \in {"bytes", "size"}
      PROVE  \A i \in 1 .. Len(Append(q, m)) : Append(q, m)[i].kind \in {"bytes", "size"}
  <2>1. PICK N \in Nat : N = Len(q) /\ Len(Append(q, m)) = N + 1
    OBVIOUS
  <2>2. \A i \in 1 .. N : Append(q, m)[i] = q[i]
    BY <2>1
  <2>3. Append(q, m)[N + 1] = m
    BY <2>1
  <2>4. \A i \in 1 .. N + 1 : i \in 1 .. N \/ i = N + 1
    OBVIOUS
  <2> QED
    BY <1>1, <2>1, <2>2, <2>3, <2>4
<1>2. CASE log[n] = "size"
  <2>1. SizeControl(n) \in Sent /\ SizeControl(n).kind = "size"
    BY SentMade DEF SizeControl
  <2> QED
    BY <1>1, <1>2, <2>1 DEF Merged
<1>3. CASE log[n] # "size" /\ out # <<>> /\ Last(out).kind = "bytes" /\ Len(Last(out).ns) < MaxBatch
  <2>1. PICK N \in Nat : N = Len(out) /\ N # 0
    BY <1>3, EmptySeq
  <2>2. Front(out) \in Seq(Sent) /\ \A i \in 1 .. Len(Front(out)) : Front(out)[i].kind \in {"bytes", "size"}
    <3>1. N - 1 \in 0 .. N /\ N = Len(out) /\ Front(out) = SubSeq(out, 1, N - 1)
      BY <2>1 DEF Front
    <3>2. /\ SubSeq(out, 1, N - 1) \in Seq(Sent) /\ Len(SubSeq(out, 1, N - 1)) = N - 1
          /\ \A i \in 1 .. N - 1 : SubSeq(out, 1, N - 1)[i] = out[i]
      BY <3>1, CutTyped
    <3> QED
      BY <2>1, <3>1, <3>2
  <2>3. Bytes(Append(Last(out).ns, n)) \in Sent /\ Bytes(Append(Last(out).ns, n)).kind = "bytes"
    <3>1. Last(out) \in Sent
      BY <2>1, ElementOfSeq DEF Last
    <3>2. Last(out).ns \in Seq(Nat)
      BY <3>1, SentShape
    <3>3. PICK ns \in Seq(Nat) : ns = Append(Last(out).ns, n) /\ ns # <<>>
      BY <3>2, AppendProperties
    <3> QED
      BY <3>3 DEF Bytes, Sent, Msg
  <2> QED
    BY <1>1, <1>3, <2>2, <2>3 DEF Merged
<1>4. CASE log[n] # "size" /\ ~(out # <<>> /\ Last(out).kind = "bytes" /\ Len(Last(out).ns) < MaxBatch)
  <2>1. Bytes(<<n>>) \in Sent /\ Bytes(<<n>>).kind = "bytes"
    BY SentMade DEF Bytes
  <2> QED
    BY <1>1, <1>4, <2>1 DEF Merged
<1> QED
  BY <1>2, <1>3, <1>4

(* A batch holds payloads and sizes only.                                  *)
LEMMA CoalescedKinds ==
  ASSUME NEW items \in Seq(Nat)
  PROVE  \A i \in 1 .. Len(Coalesced(items)) : Coalesced(items)[i].kind \in {"bytes", "size"}
<1>1. PICK N \in Nat : N = Len(items)
  OBVIOUS
<1>2. PICK f \in [0 .. N -> Seq(Sent)] :
        /\ f[0] = <<>> /\ \A n \in 1 .. N : f[n] = Merged(f[n - 1], items[n])
        /\ Coalesced(items) = f[N]
  BY <1>1, CoalescedSteps
<1> DEFINE Good == {n \in 0 .. N : \A i \in 1 .. Len(f[n]) : f[n][i].kind \in {"bytes", "size"}}
<1>3. 0 \in Good
  BY <1>2
<1>4. ASSUME NEW n \in 0 .. N - 1, n \in Good PROVE n + 1 \in Good
  <2>1. n + 1 \in 1 .. N /\ (n + 1) - 1 = n /\ n + 1 \in 0 .. N /\ n \in 0 .. N
    OBVIOUS
  <2>2. f[n + 1] = Merged(f[n], items[n + 1]) /\ items[n + 1] \in Nat /\ f[n] \in Seq(Sent)
    <3>1. f[n + 1] = Merged(f[(n + 1) - 1], items[n + 1])
      BY <1>2, <2>1
    <3> QED
      BY <1>1, <2>1, <3>1, ElementOfSeq
  <2>3. \A i \in 1 .. Len(Merged(f[n], items[n + 1])) : Merged(f[n], items[n + 1])[i].kind \in {"bytes", "size"}
    BY <1>4, <2>2, MergedKinds
  <2> QED
    BY <2>1, <2>2, <2>3
<1> HIDE DEF Good
<1>5. 0 .. N \subseteq Good
  BY <1>3, <1>4, SetInduction
<1> QED
  BY <1>2, <1>5 DEF Good

(* So does what the task has yet to emit of it.                            *)
LEMMA NextOutbox ==
  ASSUME Typed, OutboxInv, [Next]_vars
  PROVE  OutboxInv'
<1>1. CASE FanoutTake
  BY <1>1, CoalescedKinds DEF FanoutTake, OutboxInv, Typed, TasksTyped
<1>2. CASE FanoutEmit
  <2>1. PICK q \in Seq(Sent), N \in Nat : q = outbox /\ N = Len(q) /\ q # <<>> /\ outbox' = Tail(q)
    BY <1>2 DEF FanoutEmit, Typed, TasksTyped
  <2>2. Len(Tail(q)) = N - 1 /\ \A i \in 1 .. N - 1 : Tail(q)[i] = q[i + 1]
    BY <2>1
  <2>3. \A i \in 1 .. N - 1 : i + 1 \in 1 .. N
    BY <2>1
  <2> QED
    BY <2>1, <2>2, <2>3 DEF OutboxInv
<1>3. CASE outbox' = outbox
  BY <1>3 DEF OutboxInv
<1>4. ~FanoutTake /\ ~FanoutEmit => outbox' = outbox
  BY DEF Next, vars, taskVars, WriterStep, WriterInput, Attach, Announce, Store, Publish, Reset,
         PublishReset, Detach, AnnounceOff, UserCountRead, UserCountSend, ViewerStep, Join, CatchUp,
         RelayTake, RelayWrite, WriteFails, ChannelCloses, Leave, Sweep, Left, PeerEnds, PeerStalls
<1> QED
  BY <1>1, <1>2, <1>3, <1>4

(* Who stays registered has the message last on its way. *)
LEMMA SendOwn ==
  ASSUME Typed, NEW msg \in Sent, Send(msg), UNCHANGED carry, NEW v \in registered'
  PROVE  v \in registered /\ v \in Viewers /\ OwnMsgs(v) \in Seq(Sent)
         /\ OwnMsgs(v)' = Append(OwnMsgs(v), msg)
<1>1. v \in registered /\ v \in Viewers /\ queue'[v] = Append(queue[v], msg)
  BY DEF Send, Typed, RegistryTyped
<1>2. PICK c \in Seq(Sent), q \in Seq(Sent) : c = carry[v] /\ q = queue[v]
  BY <1>1, OwnTyped
<1>3. c \o Append(q, msg) = Append(c \o q, msg)
  BY AppendOwn
<1>4. OwnMsgs(v) \in Seq(Sent)
  BY <1>1, OwnTyped
<1> QED
  BY <1>1, <1>2, <1>3, <1>4 DEF OwnMsgs

(* relay's next frame, as seen from the news among the messages. *)
LEMMA RelayNews ==
  ASSUME Typed, NEW v \in Viewers, RelayWrite(v), NEW news, NEW right \in SUBSET news,
         \A m \in news : m.kind # "bytes"
  PROVE  \E m \in Sent :
           /\ page'[v] = Rendered(page[v], m)
           /\ Silent(OwnMsgs(v), news) => m \notin news /\ Silent(OwnMsgs(v), news)'
           /\ Final(OwnMsgs(v), news, right) =>
                \/ Final(OwnMsgs(v)', news, right)
                \/ m \in right /\ Silent(OwnMsgs(v)', news)
<1>1. PICK s \in Seq(Sent), K \in Nat, d \in Nat, m \in Sent : Framed(v, s, K, d, m)
  BY RelayFrame
<1>2. /\ s = OwnMsgs(v) /\ K = Len(s) /\ d \in 1 .. K
      /\ OwnMsgs(v)' = SubSeq(s, d + 1, K)
      /\ page'[v] = Rendered(page[v], m)
  BY <1>1 DEF Framed
<1>3. /\ Silent(s, news) => Silent(SubSeq(s, d + 1, K), news)
      /\ (\A i \in 1 .. d : s[i] \notin right) /\ Final(s, news, right)
           => Final(SubSeq(s, d + 1, K), news, right)
      /\ d = 1 /\ Final(s, news, right)
           => \/ Final(SubSeq(s, d + 1, K), news, right)
              \/ s[1] \in right /\ Silent(SubSeq(s, d + 1, K), news)
  BY <1>2, FinalRest
<1>4. CASE d = 1 /\ m = s[1]
  <2>1. Silent(s, news) => m \notin news
    BY <1>2, <1>4 DEF Silent
  <2> QED
    BY <1>2, <1>3, <1>4, <2>1
<1>5. CASE m = Bytes(ItemsOf(SubSeq(s, 1, d))) /\ \A i \in 1 .. d : s[i].kind = "bytes"
  <2>1. m.kind = "bytes" /\ m \notin news
    BY <1>5 DEF Bytes
  <2>2. \A i \in 1 .. d : s[i] \notin right
    BY <1>5
  <2> QED
    BY <1>2, <1>3, <2>1, <2>2
<1> QED
  BY <1>1, <1>4, <1>5 DEF Framed

-----------------------------------------------------------------------------
(* The count of viewers.                                                   *)

(* A connection that will still ask for a count: joining or leaving, or    *)
(* dropped from the registry.                                              *)
Transit == \E v \in Viewers : pc[v] \notin {"new", "done"} /\ ~(pc[v] = "loop" /\ v \in registered)

Counts == {m \in Sent : m.kind = "count"}
RightCounts == {m \in Counts : m.ns[1] = Cardinality(registered)}

(* v's page will show the number of viewers when all on its way is there.  *)
CountTold(v) ==
    \/ Final(OwnMsgs(v), Counts, RightCounts)
    \/ Silent(OwnMsgs(v), Counts) /\ page[v].count = Cardinality(registered)

(* Either a count is asked for, or somebody is about to ask, or the task   *)
(* holds the right count, or everybody is told.                            *)
CountInv ==
    \/ recount
    \/ Transit
    \/ count # NoCount /\ count = Cardinality(registered)
    \/ count = NoCount /\ \A v \in registered : CountTold(v)

(* Nobody is registered at the start.                                      *)
LEMMA InitCount == Init => CountInv
BY DEF Init, CountInv

(* What leaves the counts alone.                                           *)
LEMMA StillCount ==
  ASSUME CountInv, UNCHANGED <<registered, queue, carry, pc, page, recount, count>>
  PROVE  CountInv'
<1>1. Transit => Transit'
  BY DEF Transit
<1>2. \A v \in registered : CountTold(v) => CountTold(v)'
  BY DEF CountTold, RightCounts, Counts, OwnMsgs
<1> QED
  BY <1>1, <1>2 DEF CountInv

(* Whom a send drops has its leaving ahead.                                *)
LEMMA DropsTransit ==
  ASSUME EntryInv, NEW msg, Send(msg), UNCHANGED pc
  PROVE  registered' = registered \/ Transit'
<1>1. registered' \subseteq registered /\ registered \subseteq Viewers
  BY DEF Send, EntryInv
<1>2. ASSUME NEW v \in registered \ registered' PROVE Transit'
  <2>1. v \in Viewers /\ pc'[v] \notin {"new", "done"} /\ v \notin registered'
    BY <1>1 DEF EntryInv, Busy, Resting
  <2> QED
    BY <2>1 DEF Transit
<1> QED
  BY <1>1, <1>2

(* A message that is no count, or an overflow: then somebody has to leave. *)
LEMMA SendCount ==
  ASSUME Typed, EntryInv, CountInv, NEW msg \in Sent, msg \notin Counts, Send(msg),
         UNCHANGED <<carry, pc, page, recount, count>>
  PROVE  CountInv'
<1>1. CASE registered' # registered
  BY <1>1, DropsTransit DEF CountInv
<1>2. CASE registered' = registered
  <2>1. Transit => Transit'
    BY <1>2 DEF Transit
  <2>2. ASSUME NEW v \in registered', CountTold(v) PROVE CountTold(v)'
    <3>1. OwnMsgs(v)' = Append(OwnMsgs(v), msg) /\ OwnMsgs(v) \in Seq(Sent)
      BY SendOwn
    <3>2. /\ Final(OwnMsgs(v), Counts, RightCounts) => Final(Append(OwnMsgs(v), msg), Counts, RightCounts)
          /\ Silent(OwnMsgs(v), Counts) => Silent(Append(OwnMsgs(v), msg), Counts)
      BY <3>1, FinalAppend
    <3>3. RightCounts' = RightCounts /\ Counts' = Counts
      BY <1>2 DEF RightCounts, Counts
    <3>4. Final(OwnMsgs(v)', Counts', RightCounts') \/ (Silent(OwnMsgs(v)', Counts') /\ page'[v].count = Cardinality(registered'))
      BY <1>2, <2>2, <3>1, <3>2, <3>3 DEF CountTold
    <3> QED
      BY <3>4 DEF CountTold
  <2> QED
    BY <1>2, <2>1, <2>2 DEF CountInv
<1> QED
  BY <1>1, <1>2

(* The task reads the count, and sends it to all.                          *)
LEMMA TaskCount ==
  ASSUME Typed, EntryInv, CountInv, UserCountRead \/ UserCountSend
  PROVE  CountInv'
<1>1. CASE UserCountRead
  <2>1. count' = Cardinality(registered) /\ registered' = registered
    BY <1>1 DEF UserCountRead, registryVars
  <2>2. CASE count' # NoCount
    BY <2>1, <2>2 DEF CountInv
  <2>3. CASE count' = NoCount
    <3>1. registered = {}
      <4>1. IsFiniteSet(registered)
        BY SetsTyped, FS_Subset DEF Typed, RegistryTyped
      <4> QED
        BY <2>1, <2>3, <4>1, FS_EmptySet DEF NoCount
    <3> QED
      BY <2>1, <2>3, <3>1 DEF CountInv
  <2> QED
    BY <2>2, <2>3
<1>2. CASE UserCountSend
  <2>1. /\ count # NoCount /\ Send(CountControl(count)) /\ count' = NoCount
        /\ UNCHANGED <<recount, carry, pc, page>>
    BY <1>2 DEF UserCountSend, connVars
  <2>2. CASE registered' # registered
    BY <2>1, <2>2, DropsTransit DEF CountInv
  <2>3. CASE registered' = registered /\ (recount \/ Transit)
    BY <2>1, <2>3 DEF CountInv, Transit
  <2>4. CASE registered' = registered /\ count = Cardinality(registered)
    <3>1. CountControl(count) \in Sent /\ CountControl(count) \in RightCounts'
      <4>1. CountControl(count) \in Sent
        BY SentMade DEF Typed, TasksTyped
      <4> QED
        BY <2>4, <4>1 DEF RightCounts, Counts, CountControl
    <3>2. ASSUME NEW v \in registered' PROVE CountTold(v)'
      <4>1. OwnMsgs(v)' = Append(OwnMsgs(v), CountControl(count)) /\ OwnMsgs(v) \in Seq(Sent)
        BY <2>1, <3>1, SendOwn
      <4>2. Final(Append(OwnMsgs(v), CountControl(count)), Counts', RightCounts')
        BY <3>1, <4>1, FinalAppend
      <4>3. Final(OwnMsgs(v)', Counts', RightCounts')
        BY <4>1, <4>2
      <4> QED
        BY <4>3 DEF CountTold
    <3> QED
      BY <2>1, <3>2 DEF CountInv
  <2> QED
    BY <2>1, <2>2, <2>3, <2>4 DEF CountInv
<1> QED
  BY <1>1, <1>2

(* relay brings the page nearer to the last count on its way.              *)
LEMMA RelayCount ==
  ASSUME Typed, CountInv, NEW v \in Viewers, RelayTake(v) \/ RelayWrite(v)
  PROVE  CountInv'
<1>1. UNCHANGED <<registered, pc, recount, count>>
  BY DEF RelayTake, RelayWrite, taskVars, registryVars
<1>2. Transit => Transit'
  BY <1>1 DEF Transit
<1>3. RightCounts' = RightCounts /\ Counts' = Counts
  BY <1>1 DEF RightCounts, Counts
<1>4. ASSUME NEW x \in registered, CountTold(x), OwnMsgs(x)' = OwnMsgs(x), page'[x] = page[x]
      PROVE  CountTold(x)'
  BY <1>1, <1>3, <1>4 DEF CountTold
<1>5. CASE RelayTake(v)
  <2>1. \A x \in registered : OwnMsgs(x)' = OwnMsgs(x) /\ page'[x] = page[x]
    BY <1>5, RelayTakes DEF RelayTake, Typed, RegistryTyped
  <2> QED
    BY <1>1, <1>2, <1>4, <2>1 DEF CountInv
<1>6. CASE RelayWrite(v)
  <2>1. ASSUME NEW x \in registered, x # v PROVE OwnMsgs(x)' = OwnMsgs(x) /\ page'[x] = page[x]
    BY <1>6, <2>1 DEF RelayWrite, registryVars, OwnMsgs, Typed, RegistryTyped, ConnsTyped
  <2>2. ASSUME CountTold(v) PROVE CountTold(v)'
    <3>1. /\ RightCounts \in SUBSET Counts
          /\ \A m \in Counts : m.kind # "bytes"
      BY DEF RightCounts, Counts
    <3>2. PICK m \in Sent :
           /\ page'[v] = Rendered(page[v], m)
           /\ Silent(OwnMsgs(v), Counts) => m \notin Counts /\ Silent(OwnMsgs(v), Counts)'
           /\ Final(OwnMsgs(v), Counts, RightCounts) =>
                \/ Final(OwnMsgs(v)', Counts, RightCounts)
                \/ m \in RightCounts /\ Silent(OwnMsgs(v)', Counts)
      BY <1>6, <3>1, RelayNews
    <3>3. page[v] \in Page
      BY DEF Typed, ConnsTyped
    <3>4. m \notin Counts => page'[v].count = page[v].count
      <4>1. m \notin Counts => m.kind \in {"bytes", "size", "reset", "online", "offline"}
        BY SentShape DEF Counts
      <4> QED
        BY <3>2, <3>3, <4>1 DEF Rendered, Page
    <3>5. m \in RightCounts => page'[v].count = Cardinality(registered)
      <4>1. m \in RightCounts => m.kind = "count" /\ m.ns[1] = Cardinality(registered)
        BY DEF RightCounts, Counts
      <4> QED
        BY <3>2, <3>3, <4>1 DEF Rendered, Page
    <3>6. \/ Final(OwnMsgs(v)', Counts', RightCounts')
          \/ Silent(OwnMsgs(v)', Counts') /\ page'[v].count = Cardinality(registered')
      BY <1>1, <1>3, <2>2, <3>2, <3>4, <3>5 DEF CountTold
    <3> QED
      BY <3>6 DEF CountTold
  <2> QED
    BY <1>1, <1>2, <1>4, <2>1, <2>2 DEF CountInv
<1> QED
  BY <1>5, <1>6

(* A connection that joins or leaves asks for a count with its last step.  *)
LEMMA ViewerCount ==
  ASSUME Typed, EntryInv, CountInv, NEW v \in Viewers,
         \/ Join(v) \/ CatchUp(v) \/ WriteFails(v) \/ ChannelCloses(v) \/ Leave(v) \/ Sweep(v)
         \/ Left(v) \/ PeerEnds(v) \/ PeerStalls(v)
  PROVE  CountInv'
<1>1. CASE PeerStalls(v)
  <2>1. UNCHANGED <<registered, queue, carry, pc, page, recount, count>>
    BY <1>1 DEF PeerStalls, registryVars, taskVars
  <2> QED
    BY <2>1, StillCount
<1>2. CASE ~PeerStalls(v)
  <2>1. \/ recount' = TRUE
        \/ pc'[v] \in {"joined", "size", "history", "online", "count", "leave", "sweep", "recount"}
    BY <1>2 DEF Join, JoinThenSnapshot, CatchUp, CatchingUp, WriteFails, ChannelCloses, Leave, Sweep,
                Left, PeerEnds, Goto, Typed, ConnsTyped
  <2>2. recount' = TRUE \/ Transit'
    BY <2>1 DEF Transit
  <2> QED
    BY <2>2 DEF CountInv
<1> QED
  BY <1>1, <1>2

(* Every step keeps the counts on their way to the right one.              *)
LEMMA NextCount ==
  ASSUME Typed, EntryInv, OutboxInv, CountInv, [Next]_vars
  PROVE  CountInv'
<1>1. ASSUME NEW w \in Writers, Announce(w) \/ PublishReset(w) \/ AnnounceOff(w) PROVE CountInv'
  <2>1. PICK kind \in {"reset", "online", "offline"} : Send(Control(kind))
    BY <1>1 DEF Announce, PublishReset, AnnounceOff
  <2>2. Control(kind) \in Sent /\ Control(kind) \notin Counts
    BY SentMade DEF Counts, Control
  <2>3. UNCHANGED <<carry, pc, page, recount, count>>
    BY <1>1 DEF Announce, PublishReset, AnnounceOff, connVars, taskVars
  <2> QED
    BY <2>1, <2>2, <2>3, SendCount
<1>2. ASSUME NEW w \in Writers, Attach(w) \/ Publish(w) \/ Reset(w) \/ Detach(w)
             \/ Store(w, "chunk") \/ Store(w, "size")
      PROVE  CountInv'
  <2>1. UNCHANGED <<registered, queue, carry, pc, page, recount, count>>
    BY <1>2 DEF Attach, Publish, Reset, Detach, Store, registryVars, connVars, taskVars
  <2> QED
    BY <2>1, StillCount
<1>3. CASE FanoutTake \/ UNCHANGED vars
  <2>1. UNCHANGED <<registered, queue, carry, pc, page, recount, count>>
    BY <1>3 DEF FanoutTake, vars, registryVars, connVars, taskVars
  <2> QED
    BY <2>1, StillCount
<1>4. CASE FanoutEmit
  <2>1. PICK q \in Seq(Sent) : q = outbox /\ q # <<>>
    BY <1>4 DEF FanoutEmit, Typed, TasksTyped
  <2>2. Head(q) = q[1] /\ q[1] \in Sent /\ 1 \in 1 .. Len(q)
    BY <2>1
  <2>3. Head(outbox) \in Sent /\ Head(outbox) \notin Counts
    BY <2>1, <2>2 DEF OutboxInv, Counts
  <2>4. Send(Head(outbox)) /\ UNCHANGED <<carry, pc, page, recount, count>>
    BY <1>4 DEF FanoutEmit, connVars
  <2> QED
    BY <2>3, <2>4, SendCount
<1>5. CASE UserCountRead \/ UserCountSend
  BY <1>5, TaskCount
<1>6. ASSUME NEW v \in Viewers, ViewerStep(v) \/ PeerEnds(v) \/ PeerStalls(v) PROVE CountInv'
  BY <1>6, ViewerCount, RelayCount DEF ViewerStep
<1> QED
  BY <1>1, <1>2, <1>3, <1>4, <1>5, <1>6 DEF Next, WriterStep, WriterInput

CrowdInv == Typed /\ EntryInv /\ OutboxInv /\ CountInv

(* So this holds always.                                                   *)
LEMMA CrowdHolds == Spec => []CrowdInv
<1>1. Init => CrowdInv
  <2>1. Init => OutboxInv
    BY DEF Init, OutboxInv
  <2> QED
    BY <2>1, InitTyped, InitEntry, InitCount DEF CrowdInv
<1>2. CrowdInv /\ [Next]_vars => CrowdInv'
  BY NextTyped, NextEntry, NextOutbox, NextCount DEF CrowdInv
<1> QED
  BY <1>1, <1>2, PTL DEF Spec

(* Once nobody joins or leaves and the user-count task has nothing to do,  *)
(* every page shows the number of viewers: no order of joins, leaves,      *)
(* overflows, counts read and counts sent leaves a page with another one,  *)
(* also with ingest connections that overlap.                              *)
THEOREM CountsConverge == Spec => []CountSettles
<1>1. CrowdInv => CountSettles
  <2> SUFFICES ASSUME CrowdInv, ~recount, count = NoCount,
                      \A v \in Viewers : pc[v] \in {"new", "done"}
                           \/ (pc[v] = "loop" /\ v \in registered /\ OwnMsgs(v) = <<>>),
                      NEW v \in registered
               PROVE  page[v].count = Cardinality(registered)
    BY DEF CountSettles
  <2>1. ~Transit
    BY DEF Transit
  <2>2. CountTold(v)
    BY <2>1 DEF CrowdInv, CountInv
  <2>3. OwnMsgs(v) = <<>>
    BY DEF CrowdInv, EntryInv, Busy, Resting
  <2>4. ~Final(OwnMsgs(v), Counts, RightCounts)
    BY <2>3 DEF Final
  <2> QED
    BY <2>2, <2>4 DEF CountTold
<1> QED
  BY <1>1, CrowdHolds, PTL

-----------------------------------------------------------------------------
(* The broadcaster dot.                                                    *)

Announcing == \E w \in Writers : writer[w] \in {"announce", "off"}

Statuses == {m \in Sent : m.kind \in {"online", "offline"}}
RightStatuses == {m \in Statuses : (m.kind = "online") = (attached # {})}

(* What the page shows once the catch-up is through.                       *)
Dot(v) == IF pc[v] \in {"size", "history", "online"} THEN snap[v].online ELSE page[v].online

StatusTold(v) ==
    \/ Final(OwnMsgs(v), Statuses, RightStatuses)
    \/ Silent(OwnMsgs(v), Statuses) /\ (pc[v] \in Watching => Dot(v) = (attached # {}))

StatusInv == Announcing \/ \A v \in registered : StatusTold(v)

(* Nobody is registered at the start.                                      *)
LEMMA InitStatus == Init => StatusInv
BY DEF Init, StatusInv

(* A status of its own is sent to all.                                     *)
LEMMA AnnounceStatus ==
  ASSUME Typed, RoomInv, NEW w \in Writers, Announce(w) \/ AnnounceOff(w)
  PROVE  StatusInv'
<1>1. PICK kind \in {"online", "offline"} :
        /\ Send(Control(kind)) /\ attached' = attached
        /\ (kind = "online") = (attached # {})
  <2>1. CASE Announce(w)
    <3>1. writer[w] = "announce"
      BY <2>1 DEF Announce, At
    <3>2. w \in attached
      BY <3>1 DEF RoomInv, Using
    <3> QED
      BY <2>1, <3>2 DEF Announce
  <2>2. CASE AnnounceOff(w)
    <3>1. writer[w] = "off"
      BY <2>2 DEF AnnounceOff, At
    <3>2. attached = {}
      BY <3>1, Alone DEF Active, Using
    <3> QED
      BY <2>2, <3>2 DEF AnnounceOff
  <2> QED
    BY <2>1, <2>2
<1>2. carry' = carry
  BY DEF Announce, AnnounceOff, connVars
<1>3. Control(kind) \in Sent /\ Control(kind) \in RightStatuses'
  BY <1>1, SentMade DEF RightStatuses, Statuses, Control
<1>4. ASSUME NEW v \in registered' PROVE StatusTold(v)'
  <2>1. OwnMsgs(v)' = Append(OwnMsgs(v), Control(kind)) /\ OwnMsgs(v) \in Seq(Sent)
    BY <1>1, <1>2, <1>3, SendOwn
  <2>2. Final(Append(OwnMsgs(v), Control(kind)), Statuses', RightStatuses')
    BY <1>3, <2>1, FinalAppend
  <2>3. Final(OwnMsgs(v)', Statuses', RightStatuses')
    BY <2>1, <2>2
  <2> QED
    BY <2>3 DEF StatusTold
<1> QED
  BY <1>4 DEF StatusInv

(* Any other message, or none.                                             *)
LEMMA SendStatus ==
  ASSUME Typed, StatusInv, NEW msg \in Sent, msg \notin Statuses, Send(msg),
         UNCHANGED <<carry, pc, page, snap, attached>>, Announcing => Announcing'
  PROVE  StatusInv'
<1>1. ASSUME NEW v \in registered', StatusTold(v) PROVE StatusTold(v)'
  <2>1. OwnMsgs(v)' = Append(OwnMsgs(v), msg) /\ OwnMsgs(v) \in Seq(Sent)
    BY SendOwn
  <2>2. /\ Final(OwnMsgs(v), Statuses, RightStatuses) => Final(Append(OwnMsgs(v), msg), Statuses, RightStatuses)
        /\ Silent(OwnMsgs(v), Statuses) => Silent(Append(OwnMsgs(v), msg), Statuses)
    BY <2>1, FinalAppend
  <2>3. RightStatuses' = RightStatuses /\ Statuses' = Statuses /\ Dot(v)' = Dot(v)
    BY DEF RightStatuses, Statuses, Dot
  <2>4. \/ Final(OwnMsgs(v)', Statuses', RightStatuses')
        \/ Silent(OwnMsgs(v)', Statuses') /\ (pc'[v] \in Watching => Dot(v)' = (attached' # {}))
    BY <1>1, <2>1, <2>2, <2>3 DEF StatusTold
  <2> QED
    BY <2>4 DEF StatusTold
<1>2. registered' \subseteq registered
  BY DEF Send
<1> QED
  BY <1>1, <1>2 DEF StatusInv

(* What leaves the statuses alone.                                         *)
LEMMA StillStatus ==
  ASSUME StatusInv, UNCHANGED <<carry, queue, registered, pc, page, snap, attached>>,
         Announcing => Announcing'
  PROVE  StatusInv'
<1>1. \A v \in registered : StatusTold(v) => StatusTold(v)'
  BY DEF StatusTold, RightStatuses, Statuses, Dot, OwnMsgs
<1> QED
  BY <1>1 DEF StatusInv

(* A writer that comes or goes announces it next.                          *)
LEMMA WriterStatus ==
  ASSUME ~Overlapping, Typed, RoomInv, StatusInv, NEW w \in Writers, WriterStep(w) \/ WriterInput(w)
  PROVE  StatusInv'
<1>1. CASE Announce(w) \/ AnnounceOff(w)
  BY <1>1, AnnounceStatus
<1>2. CASE Attach(w) \/ Detach(w)
  <2>1. writer'[w] \in {"announce", "off"}
    <3>1. CASE Attach(w)
      BY <3>1 DEF Attach, At, Typed, RoomTyped
    <3>2. CASE Detach(w)
      <4>1. writer[w] \in {"start", "loop"}
        BY <3>2 DEF Detach, At
      <4>2. attached = {w}
        BY <4>1, Alone DEF Active, Using
      <4> QED
        BY <3>2, <4>2 DEF Detach, At, Typed, RoomTyped
    <3> QED
      BY <1>2, <3>1, <3>2
  <2> QED
    BY <2>1 DEF StatusInv, Announcing
<1>3. ASSUME writer[w] \notin {"announce", "off"}, \A x \in Writers \ {w} : writer'[x] = writer[x]
      PROVE  Announcing => Announcing'
  BY <1>3 DEF Announcing
<1>4. CASE PublishReset(w)
  <2>1. writer[w] \notin {"announce", "off"} /\ \A x \in Writers \ {w} : writer'[x] = writer[x]
    BY <1>4 DEF PublishReset, At, Typed, RoomTyped
  <2>2. Send(Control("reset")) /\ UNCHANGED <<carry, pc, page, snap, attached>>
    BY <1>4 DEF PublishReset, connVars
  <2>3. Control("reset") \in Sent /\ Control("reset") \notin Statuses
    BY SentMade DEF Statuses, Control
  <2> QED
    BY <1>3, <2>1, <2>2, <2>3, SendStatus
<1>5. CASE Store(w, "chunk") \/ Store(w, "size") \/ Publish(w) \/ Reset(w)
  <2>1. writer[w] \notin {"announce", "off"} /\ \A x \in Writers \ {w} : writer'[x] = writer[x]
    BY <1>5 DEF Store, Publish, Reset, At, Typed, RoomTyped
  <2>2. UNCHANGED <<carry, queue, registered, pc, page, snap, attached>>
    BY <1>5 DEF Store, Publish, Reset, connVars, registryVars
  <2> QED
    BY <1>3, <2>1, <2>2, StillStatus
<1> QED
  BY <1>1, <1>2, <1>4, <1>5 DEF WriterStep, WriterInput

(* A step of one connection. *)
LEMMA OneStatus ==
  ASSUME Typed, StatusInv, NEW v \in Viewers, UNCHANGED <<attached, writer>>,
         \A x \in Viewers \ {v} : /\ x \in registered' => x \in registered
                                  /\ pc'[x] = pc[x] /\ snap'[x] = snap[x] /\ page'[x] = page[x]
                                  /\ OwnMsgs(x)' = OwnMsgs(x),
         registered' \subseteq Viewers,
         v \in registered' => ((v \in registered => StatusTold(v)) => StatusTold(v)')
  PROVE  StatusInv'
<1>1. Announcing => Announcing'
  BY DEF Announcing
<1>2. RightStatuses' = RightStatuses /\ Statuses' = Statuses
  BY DEF RightStatuses, Statuses
<1>3. ASSUME NEW x \in Viewers \ {v}, StatusTold(x), x \in registered' PROVE StatusTold(x)'
  <2>1. Dot(x)' = Dot(x)
    BY <1>3 DEF Dot
  <2> QED
    BY <1>2, <1>3, <2>1 DEF StatusTold
<1> QED
  BY <1>1, <1>3 DEF StatusInv

(* The page gets the snapshot's status when it has shown the rest.         *)
LEMMA CatchUpStatus ==
  ASSUME Typed, StatusInv, FreshInv, NEW v \in Viewers, Join(v) \/ CatchUp(v)
  PROVE  StatusInv'
<1>1. /\ UNCHANGED <<attached, writer, carry, queue>>
      /\ \A x \in Viewers : OwnMsgs(x)' = OwnMsgs(x)
      /\ registered' \in {registered, registered \cup {v}}
  BY DEF Join, JoinThenSnapshot, CatchUp, roomVars, registryVars, OwnMsgs
<1>2. \A x \in Viewers \ {v} : pc'[x] = pc[x] /\ snap'[x] = snap[x] /\ page'[x] = page[x]
  BY DEF Join, JoinThenSnapshot, CatchUp, CatchingUp, Goto, Typed, ConnsTyped
<1>3. /\ pc \in [Viewers -> PCs] /\ page \in [Viewers -> Page] /\ snap \in [Viewers -> Snapshot]
      /\ page[v] \in Page /\ snap[v] \in Snapshot
  BY DEF Typed, ConnsTyped
<1>4. ASSUME v \in registered => StatusTold(v), v \in registered' PROVE StatusTold(v)'
  <2>1. RightStatuses' = RightStatuses /\ Statuses' = Statuses
    BY <1>1 DEF RightStatuses, Statuses
  <2>2. CASE Join(v) /\ pc[v] = "new"
    <3>1. OwnMsgs(v)' = <<>> /\ pc'[v] = "joined"
      BY <1>1, <1>3, <2>2 DEF FreshInv, Join, JoinThenSnapshot, Goto, OwnMsgs
    <3>2. Silent(OwnMsgs(v)', Statuses') /\ pc'[v] \notin Watching
      BY <3>1 DEF Silent, Watching, CatchingUp
    <3> QED
      BY <3>2 DEF StatusTold
  <2>3. CASE ~(Join(v) /\ pc[v] = "new")
    <3>1. registered' = registered
      BY <2>3 DEF Join, JoinThenSnapshot, CatchUp, registryVars
    <3>2. pc'[v] \in Watching => Dot(v)' = IF pc[v] = "joined" THEN (attached # {}) ELSE Dot(v)
      <4>1. CASE Join(v)
        BY <1>3, <2>3, <4>1 DEF Join, JoinThenSnapshot, Goto, Dot
      <4>2. CASE CatchUp(v)
        <5>1. CASE pc[v] = "size"
          BY <1>3, <4>2, <5>1 DEF CatchUp, Goto, Dot, Page
        <5>2. CASE pc[v] = "history"
          BY <1>3, <4>2, <5>2 DEF CatchUp, Goto, Dot, Page
        <5>3. CASE pc[v] = "online"
          BY <1>3, <4>2, <5>3 DEF CatchUp, Goto, Dot, Page
        <5>4. CASE pc[v] = "count"
          BY <1>3, <4>2, <5>4 DEF CatchUp, Goto, Dot, Page
        <5> QED
          BY <4>2, <5>1, <5>2, <5>3, <5>4 DEF CatchUp, CatchingUp
      <4> QED
        BY <4>1, <4>2
    <3>3. pc[v] \in Watching \cup {"joined"}
      BY <2>3 DEF Join, JoinThenSnapshot, CatchUp, Watching
    <3> QED
      BY <1>1, <1>4, <2>1, <3>1, <3>2, <3>3 DEF StatusTold
  <2> QED
    BY <2>2, <2>3
<1>5. registered' \subseteq Viewers /\ \A x \in Viewers \ {v} : x \in registered' => x \in registered
  BY <1>1 DEF Typed, RegistryTyped
<1> QED
  BY <1>1, <1>2, <1>4, <1>5, OneStatus

(* relay brings the page nearer to the last status on its way.             *)
LEMMA RelayStatus ==
  ASSUME Typed, StatusInv, NEW v \in Viewers, RelayTake(v) \/ RelayWrite(v)
  PROVE  StatusInv'
<1>1. UNCHANGED <<attached, writer, registered, pc, snap>>
  BY DEF RelayTake, RelayWrite, roomVars, registryVars
<1>2. RightStatuses' = RightStatuses /\ Statuses' = Statuses
  BY <1>1 DEF RightStatuses, Statuses
<1>3. registered' \subseteq Viewers
  BY <1>1 DEF Typed, RegistryTyped
<1>4. CASE RelayTake(v)
  <2>1. page' = page /\ \A x \in Viewers : OwnMsgs(x)' = OwnMsgs(x)
    BY <1>4, RelayTakes DEF RelayTake
  <2>2. StatusTold(v) => StatusTold(v)'
    <3>1. Dot(v)' = Dot(v)
      BY <1>1, <2>1 DEF Dot
    <3> QED
      BY <1>1, <1>2, <2>1, <3>1 DEF StatusTold
  <2> QED
    BY <1>1, <1>3, <2>1, <2>2, OneStatus
<1>5. CASE RelayWrite(v)
  <2>1. \A x \in Viewers \ {v} : page'[x] = page[x] /\ OwnMsgs(x)' = OwnMsgs(x)
    BY <1>5 DEF RelayWrite, registryVars, OwnMsgs, Typed, ConnsTyped
  <2>2. ASSUME StatusTold(v) PROVE StatusTold(v)'
    <3>1. RightStatuses \in SUBSET Statuses /\ \A m \in Statuses : m.kind # "bytes"
      BY DEF RightStatuses, Statuses
    <3>2. PICK m \in Sent :
           /\ page'[v] = Rendered(page[v], m)
           /\ Silent(OwnMsgs(v), Statuses) => m \notin Statuses /\ Silent(OwnMsgs(v), Statuses)'
           /\ Final(OwnMsgs(v), Statuses, RightStatuses) =>
                \/ Final(OwnMsgs(v)', Statuses, RightStatuses)
                \/ m \in RightStatuses /\ Silent(OwnMsgs(v)', Statuses)
      BY <1>5, <3>1, RelayNews
    <3>3. page[v] \in Page
      BY DEF Typed, ConnsTyped
    <3>4. pc[v] = "loop" /\ Dot(v) = page[v].online /\ Dot(v)' = page'[v].online
      BY <1>1, <1>5 DEF RelayWrite, Dot
    <3>5. m \notin Statuses => page'[v].online = page[v].online
      <4>1. m \notin Statuses => m.kind \in {"bytes", "size", "reset", "count"}
        BY SentShape DEF Statuses
      <4> QED
        BY <3>2, <3>3, <4>1 DEF Rendered, Page
    <3>6. m \in RightStatuses => page'[v].online = (attached # {})
      <4>1. m \in RightStatuses => m.kind \in {"online", "offline"} /\ (m.kind = "online") = (attached # {})
        BY DEF RightStatuses, Statuses
      <4>2. CASE m.kind = "online"
        BY <3>2, <3>3, <4>1, <4>2 DEF Rendered, Page
      <4>3. CASE m.kind = "offline"
        BY <3>2, <3>3, <4>1, <4>3 DEF Rendered, Page
      <4> QED
        BY <4>1, <4>2, <4>3
    <3>7. \/ Final(OwnMsgs(v)', Statuses, RightStatuses)
          \/ Silent(OwnMsgs(v)', Statuses) /\ Dot(v)' = (attached # {})
      <4>1. pc[v] \in Watching
        BY <3>4 DEF Watching
      <4> QED
        BY <2>2, <3>2, <3>4, <3>5, <3>6, <4>1 DEF StatusTold
    <3> QED
      BY <1>1, <1>2, <3>7 DEF StatusTold
  <2> QED
    BY <1>1, <1>3, <2>1, <2>2, OneStatus
<1> QED
  BY <1>4, <1>5

(* Who ends watches no longer.                                             *)
LEMMA EndStatus ==
  ASSUME Typed, StatusInv, NEW v \in Viewers,
         \/ WriteFails(v) \/ ChannelCloses(v) \/ Leave(v) \/ Sweep(v) \/ Left(v)
         \/ PeerEnds(v) \/ PeerStalls(v)
  PROVE  StatusInv'
<1>1. UNCHANGED <<attached, writer>>
  BY DEF WriteFails, ChannelCloses, Leave, Sweep, Left, PeerEnds, PeerStalls, roomVars
<1>2. CASE Leave(v)
  <2>1. /\ \A x \in Viewers \ {v} : /\ pc'[x] = pc[x] /\ snap'[x] = snap[x] /\ page'[x] = page[x]
                                    /\ carry'[x] = carry[x] /\ queue'[x] = queue[x]
        /\ registered' = registered \ {v}
    BY <1>2 DEF Leave, Gone, Goto, Typed, ConnsTyped, RegistryTyped
  <2>2. \A x \in Viewers \ {v} : OwnMsgs(x)' = OwnMsgs(x)
    BY <2>1 DEF OwnMsgs
  <2>3. registered' \subseteq Viewers /\ v \notin registered' /\ \A x \in Viewers \ {v} : x \in registered' => x \in registered
    BY <2>1 DEF Typed, RegistryTyped
  <2> QED
    BY <1>1, <2>1, <2>2, <2>3, OneStatus
<1>3. CASE ~Leave(v)
  <2>1. /\ UNCHANGED <<registered, queue, snap, carry, page>>
        /\ \A x \in Viewers \ {v} : pc'[x] = pc[x]
        /\ pc'[v] = pc[v] \/ pc'[v] \notin Watching
    BY <1>3 DEF WriteFails, ChannelCloses, Sweep, Left, PeerEnds, PeerStalls, registryVars, Goto,
                Watching, CatchingUp, Typed, ConnsTyped
  <2>2. \A x \in Viewers : OwnMsgs(x)' = OwnMsgs(x)
    BY <2>1 DEF OwnMsgs
  <2>3. StatusTold(v) => StatusTold(v)'
    <3>1. RightStatuses' = RightStatuses /\ Statuses' = Statuses
      BY <1>1 DEF RightStatuses, Statuses
    <3>2. pc'[v] \in Watching => pc[v] \in Watching /\ Dot(v)' = Dot(v)
      BY <2>1 DEF Dot
    <3> QED
      BY <1>1, <2>2, <3>1, <3>2 DEF StatusTold
  <2>4. registered' \subseteq Viewers
    BY <2>1 DEF Typed, RegistryTyped
  <2> QED
    BY <1>1, <2>1, <2>2, <2>3, <2>4, OneStatus
<1> QED
  BY <1>2, <1>3

(* Every step keeps the statuses on their way to the right one.            *)
LEMMA NextStatus ==
  ASSUME ~Overlapping, Typed, OutboxInv, RoomInv, FreshInv, StatusInv, [Next]_vars
  PROVE  StatusInv'
<1>1. ASSUME NEW w \in Writers, WriterStep(w) \/ WriterInput(w) PROVE StatusInv'
  BY <1>1, WriterStatus
<1>2. CASE FanoutTake \/ UserCountRead \/ UNCHANGED vars
  <2>1. UNCHANGED <<carry, queue, registered, pc, page, snap, attached, writer>>
    BY <1>2 DEF FanoutTake, UserCountRead, vars, roomVars, registryVars, connVars
  <2> QED
    BY <2>1, StillStatus DEF Announcing
<1>3. CASE FanoutEmit
  <2>1. PICK q \in Seq(Sent) : q = outbox /\ q # <<>>
    BY <1>3 DEF FanoutEmit, Typed, TasksTyped
  <2>2. Head(q) = q[1] /\ q[1] \in Sent /\ 1 \in 1 .. Len(q)
    BY <2>1
  <2>3. Head(outbox) \in Sent /\ Head(outbox) \notin Statuses
    BY <2>1, <2>2 DEF OutboxInv, Statuses
  <2>4. Send(Head(outbox)) /\ UNCHANGED <<carry, pc, page, snap, attached, writer>>
    BY <1>3 DEF FanoutEmit, connVars, roomVars
  <2> QED
    BY <2>3, <2>4, SendStatus DEF Announcing
<1>4. CASE UserCountSend
  <2>1. Send(CountControl(count)) /\ UNCHANGED <<carry, pc, page, snap, attached, writer>>
    BY <1>4 DEF UserCountSend, connVars, roomVars
  <2>2. CountControl(count) \in Sent /\ CountControl(count) \notin Statuses
    <3>1. CountControl(count) \in Sent
      BY SentMade DEF Typed, TasksTyped
    <3> QED
      BY <3>1 DEF Statuses, CountControl
  <2> QED
    BY <2>1, <2>2, SendStatus DEF Announcing
<1>5. ASSUME NEW v \in Viewers, ViewerStep(v) \/ PeerEnds(v) \/ PeerStalls(v) PROVE StatusInv'
  BY <1>5, CatchUpStatus, RelayStatus, EndStatus DEF ViewerStep
<1> QED
  BY <1>1, <1>2, <1>3, <1>4, <1>5 DEF Next

SettledInv == DeliveryInv /\ OutboxInv /\ StatusInv

(* So this holds always.                                                   *)
LEMMA SettledHolds ==
  ASSUME ~Overlapping
  PROVE  Spec => []SettledInv
<1>1. Init => SettledInv
  <2>1. Init => OutboxInv
    BY DEF Init, OutboxInv
  <2> QED
    BY <2>1, InitDelivery, InitStatus DEF SettledInv
<1>2. SettledInv /\ [Next]_vars => SettledInv'
  <2> SUFFICES ASSUME SettledInv, [Next]_vars PROVE SettledInv'
    OBVIOUS
  <2>1. DeliveryInv'
    BY NextDelivery DEF SettledInv
  <2>2. OutboxInv' /\ StatusInv'
    BY NextOutbox, NextStatus DEF SettledInv, DeliveryInv
  <2> QED
    BY <2>1, <2>2 DEF SettledInv
<1> QED
  BY <1>1, <1>2, PTL DEF Spec

(* No messages span nothing. *)
LEMMA CarriesNone ==
  ASSUME NEW L, NEW H, NEW a, NEW b, Carries(L, H, <<>>, a, b)
  PROVE  a = b
<1> DEFINE none == <<>>
<1>1. Len(none) = 0 /\ Carries(L, H, none, a, b)
  OBVIOUS
<1> HIDE DEF none
<1>2. PICK N \in Nat : N = Len(none) /\ \E f : Marks(L, H, none, N, f) /\ f[0] = a /\ f[N] = b
  BY <1>1 DEF Carries
<1> QED
  BY <1>1, <1>2

(* With nothing under way the marks coincide, and the last news is shown.  *)
LEMMA SettlesFollows == SettledInv => PageSettles
<1> SUFFICES ASSUME SettledInv, NEW v \in Viewers, Settled(v)
             PROVE  page[v].size = roomSize /\ page[v].online = (attached # {})
  BY DEF PageSettles
<1>1. /\ Typed /\ RoomInv /\ RoomTyped /\ StatusInv /\ Flow
      /\ v \in registered /\ pc[v] = "loop" /\ OwnMsgs(v) = <<>> /\ outbox = <<>> /\ fanout = <<>>
      /\ \A w \in Writers : writer[w] \in {"away", "start", "loop", "gone"}
  BY DEF SettledInv, DeliveryInv, Typed, Settled
<1>2. page[v].size = roomSize
  <2>1. PICK t \in Nat, e \in Nat : Passes(t, e)
    BY <1>1 DEF Flow
  <2>2. PICK a \in Nat : Behind(v, a, e)
    BY <1>1, <2>1 DEF Passes
  <2>3. ToPublish = {}
    BY <1>1, Pending
  <2>4. Published = Len(log) /\ Len(log) \in Nat /\ roomSize \in 0 .. Len(log)
    BY <1>1, <2>3, LogTyped DEF Published
  <2>5. t = Len(log)
    <3>1. PICK n \in Nat : n = Len(fanout) /\ n = 0
      BY <1>1
    <3>2. Published = t + n
      BY <2>1, <3>1 DEF Passes, Run
    <3> QED
      BY <2>4, <3>1, <3>2
  <2>6. e = t
    <3>1. Carries(log, hist, outbox, e, t)
      BY <2>1 DEF Passes
    <3> QED
      BY <1>1, <3>1, CarriesNone
  <2>7. a = e
    <3>1. Carries(log, hist, OwnMsgs(v), a, e)
      BY <2>2 DEF Behind
    <3> QED
      BY <1>1, <3>1, CarriesNone
  <2>8. Seen(v, a)
    BY <1>1, <2>2 DEF Behind, Watching
  <2> QED
    BY <1>1, <2>4, <2>5, <2>6, <2>7, <2>8 DEF Seen
<1>3. page[v].online = (attached # {})
  <2>1. ~Announcing
    BY <1>1 DEF Announcing
  <2>2. StatusTold(v)
    BY <1>1, <2>1 DEF StatusInv
  <2>3. ~Final(OwnMsgs(v), Statuses, RightStatuses)
    BY <1>1 DEF Final
  <2> QED
    BY <1>1, <2>2, <2>3 DEF StatusTold, Dot, Watching
<1> QED
  BY <1>2, <1>3

(* When nothing is under way the page has the room's size and its dot says *)
(* whether somebody broadcasts: neither a snapshot that is older than what *)
(* the queue brought, nor a queue that holds what the snapshot had, leaves *)
(* the page behind.                                                        *)
THEOREM PagesSettle ==
  ASSUME ~Overlapping
  PROVE  Spec => []PageSettles
<1>1. SettledInv => PageSettles
  BY SettlesFollows
<1>2. Spec => []SettledInv
  BY SettledHolds
<1> QED
  BY <1>1, <1>2, PTL
=============================================================================
