--------------------------- MODULE TransportProof ---------------------------
(* Theorems about Transport, for any chunks, lengths, cap, sizes and       *)
(* number of failures.  The invariant keeps the books of the current       *)
(* connection: where each unacknowledged chunk is, and that both sides'    *)
(* byte counts meet at chunk boundaries.                                   *)
EXTENDS Transport, SumsProof

Chunk == 1 .. Chunks

-----------------------------------------------------------------------------
(* Bytes and runs of chunks.                                               *)

(* What the constants promise of the chunks' lengths.                      *)
LEMMA LengthFacts == Chunks \in Nat /\ Length \in [Chunk -> Nat] /\ \A i \in Chunk : Length[i] # 0
  BY LengthTyped DEF Chunk

(* The bytes of a queue are a number.                                      *)
LEMMA BytesTyped ==
  ASSUME NEW q \in Seq(Chunk)
  PROVE  Bytes(q) \in Nat
  BY LengthFacts, TotalTyped DEF Bytes

(* An empty queue has no bytes.                                            *)
LEMMA BytesEmpty == Bytes(<<>>) = 0
<1>1. CASE Chunks = 0
  <2>1. Total([i \in {0} |-> 0], <<>>) = 0
    <3>1. [i \in {0} |-> 0] \in [{0} -> Nat] /\ 0 \in {0}
      OBVIOUS
    <3> QED
      BY <3>1, TotalSingle
  <2>2. [i \in DOMAIN <<>> |-> Length[<<>>[i]]] = <<>>
        /\ [i \in DOMAIN <<>> |-> [j \in {0} |-> 0][<<>>[i]]] = <<>>
    OBVIOUS
  <2> QED
    BY <2>1, <2>2 DEF Bytes, Total
<1>2. CASE Chunks # 0
  <2>1. 1 \in Chunk
    BY <1>2, LengthFacts DEF Chunk
  <2> QED
    BY <2>1, LengthFacts, TotalSingle DEF Bytes
<1> QED
  BY <1>1, <1>2

(* The bytes of two queues joined.                                         *)
LEMMA BytesConcat ==
  ASSUME NEW u \in Seq(Chunk), NEW v \in Seq(Chunk)
  PROVE  Bytes(u \o v) = Bytes(u) + Bytes(v)
  BY LengthFacts, TotalConcat DEF Bytes

(* A chunk adds its length.                                                *)
LEMMA BytesAppend ==
  ASSUME NEW q \in Seq(Chunk), NEW i \in Chunk
  PROVE  Bytes(Append(q, i)) = Bytes(q) + Length[i]
  BY LengthFacts, TotalAppend DEF Bytes

(* A queue cut in two, and the prefixes of what is left.                   *)
LEMMA BytesCut ==
  ASSUME NEW q \in Seq(Chunk), NEW d \in 0 .. Len(q)
  PROVE  /\ Bytes(q) = Bytes(Prefix(q, d)) + Bytes(Rest(q, d))
         /\ \A r \in 0 .. Len(q) - d :
              Bytes(Prefix(q, d + r)) = Bytes(Prefix(q, d)) + Bytes(Prefix(Rest(q, d), r))
  BY LengthFacts, TotalCut DEF Bytes, Prefix, Rest

(* A longer prefix has no fewer bytes, and more if it is longer: no chunk  *)
(* is empty.                                                               *)
LEMMA BytesGrow ==
  ASSUME NEW q \in Seq(Chunk), NEW a \in 0 .. Len(q), NEW b \in a .. Len(q)
  PROVE  /\ Bytes(Prefix(q, a)) <= Bytes(Prefix(q, b))
         /\ a < b => Bytes(Prefix(q, a)) < Bytes(Prefix(q, b))
<1>1. a < b => q[b] \in Chunk
  <2>1. PICK N \in Nat : N = Len(q)
    OBVIOUS
  <2>2. a < b => b \in 1 .. N
    BY <2>1
  <2> QED
    BY <2>1, <2>2
<1>2. a < b => Length[q[b]] # 0
  BY <1>1, LengthFacts
<1> QED
  BY <1>2, LengthFacts, TotalGrows DEF Bytes, Prefix

(* What the parts of a queue are. *)
LEMMA Parts ==
  ASSUME NEW S, NEW q \in Seq(S), NEW d \in 0 .. Len(q)
  PROVE  /\ Prefix(q, d) \in Seq(S) /\ Len(Prefix(q, d)) = d
         /\ \A i \in 1 .. d : Prefix(q, d)[i] = q[i]
         /\ Rest(q, d) \in Seq(S) /\ Len(Rest(q, d)) = Len(q) - d
         /\ \A i \in 1 .. Len(q) - d : Rest(q, d)[i] = q[d + i]
<1>1. PICK N \in Nat : N = Len(q)
  OBVIOUS
<1>2. d \in 0 .. N
  BY <1>1
<1> QED
  BY <1>1, <1>2 DEF Prefix, Rest

(* q holds the chunks that follow the chunk low, in order. *)
Run(q, low) == \A i \in 1 .. Len(q) : q[i] = low + i

(* Both parts of a cut run are runs.                                       *)
LEMMA RunParts ==
  ASSUME NEW S, NEW q \in Seq(S), NEW low \in Nat, NEW d \in 0 .. Len(q), Run(q, low)
  PROVE  Run(Prefix(q, d), low) /\ Run(Rest(q, d), low + d)
<1>1. PICK N \in Nat : N = Len(q)
  OBVIOUS
<1>2. Run(Prefix(q, d), low)
  <2> SUFFICES ASSUME NEW i \in 1 .. d PROVE Prefix(q, d)[i] = low + i
    BY Parts DEF Run
  <2>1. Prefix(q, d)[i] = q[i]
    BY Parts
  <2>2. i \in 1 .. N
    BY <1>1
  <2> QED
    BY <1>1, <2>1, <2>2 DEF Run
<1>3. Run(Rest(q, d), low + d)
  <2> SUFFICES ASSUME NEW i \in 1 .. N - d PROVE Rest(q, d)[i] = (low + d) + i
    BY <1>1, Parts DEF Run
  <2>1. Rest(q, d)[i] = q[d + i] /\ d + i \in 1 .. N
    BY <1>1, Parts
  <2>2. q[d + i] = low + (d + i)
    BY <1>1, <2>1 DEF Run
  <2> QED
    BY <1>1, <2>1, <2>2
<1> QED
  BY <1>2, <1>3

(* Two runs that follow each other are one run.                            *)
LEMMA RunConcat ==
  ASSUME NEW S, NEW u \in Seq(S), NEW v \in Seq(S), NEW low \in Nat,
         Run(u, low), Run(v, low + Len(u))
  PROVE  Run(u \o v, low)
<1>1. PICK M \in Nat, N \in Nat : M = Len(u) /\ N = Len(v)
  OBVIOUS
<1> DEFINE c == u \o v
<1>2. /\ c \in Seq(S) /\ Len(c) = M + N
      /\ \A i \in 1 .. M : c[i] = u[i]
      /\ \A i \in 1 .. N : c[M + i] = v[i]
  BY <1>1, ConcatAt
<1> HIDE DEF c
<1>3. ASSUME NEW i \in 1 .. M + N PROVE c[i] = low + i
  <2>1. CASE i <= M
    <3>1. i \in 1 .. M
      BY <2>1
    <3> QED
      BY <1>1, <1>2, <3>1 DEF Run
  <2>2. CASE ~(i <= M)
    <3>1. i - M \in 1 .. N /\ i = M + (i - M)
      BY <2>2
    <3>2. PICK j \in 1 .. N : i = M + j
      BY <3>1
    <3>3. c[M + j] = v[j] /\ v[j] = (low + M) + j
      BY <1>1, <1>2 DEF Run
    <3> QED
      BY <3>2, <3>3
  <2> QED
    BY <2>1, <2>2
<1> QED
  BY <1>2, <1>3 DEF Run, c

(* The chunks of a run are an interval.                                    *)
LEMMA RunSet ==
  ASSUME NEW S, NEW q \in Seq(S), NEW low \in Nat, Run(q, low)
  PROVE  ToSet(q) = (low + 1) .. (low + Len(q))
<1>1. PICK N \in Nat : N = Len(q) /\ DOMAIN q = 1 .. N
  OBVIOUS
<1>2. ToSet(q) = {q[i] : i \in 1 .. N}
  BY <1>1 DEF ToSet
<1>3. \A i \in 1 .. N : q[i] = low + i
  BY <1>1 DEF Run
<1>4. ASSUME NEW x \in (low + 1) .. (low + N) PROVE x \in ToSet(q)
  <2>1. x - low \in 1 .. N /\ low + (x - low) = x
    OBVIOUS
  <2>2. q[x - low] = x
    BY <1>3, <2>1
  <2> QED
    BY <1>2, <2>1, <2>2
<1>5. ToSet(q) \subseteq (low + 1) .. (low + N)
  BY <1>2, <1>3
<1> QED
  BY <1>1, <1>4, <1>5

(* A prefix of a concatenation lies in its first part or covers that part. *)
LEMMA PrefixConcat ==
  ASSUME NEW S, NEW u \in Seq(S), NEW v \in Seq(S), NEW d \in 0 .. Len(u) + Len(v)
  PROVE  /\ d <= Len(u) => Prefix(u \o v, d) = Prefix(u, d)
         /\ d > Len(u) => Prefix(u \o v, d) = u \o Prefix(v, d - Len(u))
<1>1. PICK M \in Nat, N \in Nat : M = Len(u) /\ N = Len(v)
  OBVIOUS
<1> DEFINE c == u \o v
<1>2. /\ c \in Seq(S) /\ Len(c) = M + N
      /\ \A i \in 1 .. M : c[i] = u[i]
      /\ \A i \in 1 .. N : c[M + i] = v[i]
  BY <1>1, ConcatAt
<1> HIDE DEF c
<1>3. Prefix(c, d) \in Seq(S) /\ Len(Prefix(c, d)) = d /\ \A i \in 1 .. d : Prefix(c, d)[i] = c[i]
  <2>1. c \in Seq(S) /\ d \in 0 .. Len(c)
    BY <1>1, <1>2
  <2> QED
    BY <2>1, Parts
<1>4. ASSUME d <= M PROVE Prefix(c, d) = Prefix(u, d)
  <2>1. Prefix(u, d) \in Seq(S) /\ Len(Prefix(u, d)) = d /\ \A i \in 1 .. d : Prefix(u, d)[i] = u[i]
    BY <1>1, <1>4, Parts
  <2>2. \A i \in 1 .. d : Prefix(c, d)[i] = Prefix(u, d)[i]
    BY <1>2, <1>3, <1>4, <2>1
  <2> QED
    BY <1>3, <2>1, <2>2, SeqEqual
<1>5. ASSUME d > M PROVE Prefix(c, d) = u \o Prefix(v, d - M)
  <2>0. PICK e \in 0 .. N : e = d - M /\ d = M + e
    <3>1. d \in 0 .. M + N
      BY <1>1
    <3>2. d - M \in 0 .. N /\ d = M + (d - M)
      BY <1>5, <3>1
    <3> QED
      BY <3>2
  <2>1. Prefix(v, e) \in Seq(S) /\ Len(Prefix(v, e)) = e /\ \A i \in 1 .. e : Prefix(v, e)[i] = v[i]
    BY <1>1, Parts
  <2>2. ASSUME NEW i \in 1 .. M PROVE Prefix(c, d)[i] = u[i]
    <3>1. i \in 1 .. d
      BY <2>0
    <3> QED
      BY <1>2, <1>3, <3>1
  <2>3. ASSUME NEW i \in 1 .. e PROVE Prefix(c, d)[M + i] = Prefix(v, e)[i]
    <3>1. M + i \in 1 .. d /\ i \in 1 .. N
      BY <2>0
    <3> QED
      BY <1>2, <1>3, <2>1, <3>1
  <2>4. Joined(S, u, Prefix(v, e), Prefix(c, d))
    <3>1. M \in Nat /\ e \in Nat /\ M = Len(u) /\ e = Len(Prefix(v, e)) /\ Len(Prefix(c, d)) = M + e
      BY <1>1, <1>3, <2>0, <2>1
    <3>2. u \in Seq(S) /\ Prefix(v, e) \in Seq(S) /\ Prefix(c, d) \in Seq(S)
      BY <1>3, <2>1
    <3> QED
      BY <3>1, <3>2, <2>2, <2>3 DEF Joined
  <2> QED
    BY <2>0, <2>4, ConcatKnown
<1> QED
  BY <1>1, <1>4, <1>5 DEF c

-----------------------------------------------------------------------------
(* The replay buffer.                                                      *)

BufferTyped ==
  /\ made \in 0 .. Chunks
  /\ pending \in Seq(Chunk) /\ unacked \in Seq(Chunk)
  /\ bufferedBytes \in Nat /\ connAcked \in Nat /\ droppedUnacked \in Nat
  /\ dropped \subseteq Chunk

(* The chunks that left the buffer are 1 .. Low.                           *)
Low == made - (Len(unacked) + Len(pending))

Queued ==
  /\ Low \in Nat /\ Run(unacked, Low) /\ Run(pending, Low + Len(unacked))
  /\ bufferedBytes = Bytes(unacked) + Bytes(pending)
  /\ bufferedBytes <= Cap

(* What the client holds is the interval from the oldest chunk in the      *)
(* buffer to the newest made.                                              *)
LEMMA HeldIs ==
  ASSUME BufferTyped, Queued
  PROVE  Held = (Low + 1) .. made /\ Run(unacked \o pending, Low)
         /\ unacked \o pending \in Seq(Chunk) /\ Low + Len(unacked \o pending) = made
<1>1. PICK M \in Nat, N \in Nat : M = Len(unacked) /\ N = Len(pending)
  BY DEF BufferTyped
<1>2. unacked \o pending \in Seq(Chunk) /\ Len(unacked \o pending) = M + N
  BY <1>1, ConcatAt DEF BufferTyped
<1>3. Low \in Nat /\ Run(unacked \o pending, Low)
  BY RunConcat DEF BufferTyped, Queued
<1>4. Low + (M + N) = made
  BY <1>1, <1>3 DEF Low, BufferTyped
<1>5. ToSet(unacked \o pending) = (Low + 1) .. (Low + (M + N))
  BY <1>2, <1>3, RunSet
<1> QED
  BY <1>2, <1>3, <1>4, <1>5 DEF Held

(* What buffer_plaintext does: the Low' - Low oldest chunks leave, e of    *)
(* them from unacked.                                                      *)
LEMMA BufferStep ==
  ASSUME BufferTyped, Queued, NEW n \in {1, 2}, made + n <= Chunks, Buffer(n)
  PROVE  /\ BufferTyped' /\ Queued'
         /\ made' = made + n /\ connAcked' = connAcked
         /\ Low <= Low' /\ dropped' = dropped \cup ((Low + 1) .. Low')
         /\ \E e \in 0 .. Len(unacked) :
              /\ unacked' = Rest(unacked, e)
              /\ droppedUnacked' = droppedUnacked + Bytes(Prefix(unacked, e))
<1> DEFINE added == [i \in 1 .. n |-> made + i]
           later == pending \o added
           queue == unacked \o pending \o added
           total == bufferedBytes + Bytes(added)
           fits(d) == total - Bytes(Prefix(queue, d)) <= Cap
           drops == CHOOSE d \in 0 .. Len(queue) :
                      /\ total - Bytes(Prefix(queue, d)) <= Cap
                      /\ \A e \in 0 .. (d - 1) : total - Bytes(Prefix(queue, e)) > Cap
<1>0. /\ made' = made + n /\ connAcked' = connAcked
      /\ unacked' = IF drops < Len(unacked) THEN Rest(unacked, drops) ELSE <<>>
      /\ pending' = IF drops <= Len(unacked) THEN later ELSE Rest(later, drops - Len(unacked))
      /\ droppedUnacked' = droppedUnacked + Bytes(unacked) - Bytes(unacked')
      /\ bufferedBytes' = total - Bytes(Prefix(queue, drops))
      /\ dropped' = dropped \cup {queue[i] : i \in 1 .. drops}
  BY DEF Buffer
<1>1. PICK M \in Nat, N \in Nat : M = Len(unacked) /\ N = Len(pending)
  BY DEF BufferTyped
<1>2. unacked \in Seq(Chunk) /\ pending \in Seq(Chunk) /\ made \in Nat /\ Low \in Nat
      /\ Low + (M + N) = made
  BY <1>1 DEF BufferTyped, Queued, Low
<1>3. added \in Seq(Chunk) /\ Len(added) = n /\ Run(added, made)
  <2>1. added \in [1 .. n -> Chunk]
    BY <1>2, LengthFacts DEF Chunk
  <2>2. n \in Nat
    OBVIOUS
  <2>3. added \in Seq(Chunk)
    BY <2>1, <2>2, SeqDef
  <2>4. Len(added) = n
    BY <2>1, <2>2, <2>3
  <2> QED
    BY <2>3, <2>4 DEF Run
<1> HIDE DEF added
<1>4. later \in Seq(Chunk) /\ Len(later) = N + n /\ Run(later, Low + M)
  <2>1. Run(pending, Low + M) /\ (Low + M) + Len(pending) = made /\ Low + M \in Nat
    BY <1>1, <1>2 DEF Queued
  <2>2. Run(later, Low + M)
    BY <1>2, <1>3, <2>1, RunConcat
  <2>3. n \in Nat /\ n = Len(added) /\ N = Len(pending)
    BY <1>1, <1>3
  <2>4. later \in Seq(Chunk) /\ Len(later) = Len(pending) + Len(added)
    BY <1>2, <1>3, ConcatProperties
  <2> HIDE DEF later
  <2> QED
    BY <2>2, <2>3, <2>4
<1>5. queue = unacked \o later
  <2>1. unacked \in Seq(Chunk) /\ pending \in Seq(Chunk) /\ added \in Seq(Chunk)
    BY <1>2, <1>3
  <2> QED
    BY <2>1, ConcatAssociative
<1> HIDE DEF later, queue
<1>6. queue \in Seq(Chunk) /\ Len(queue) = M + (N + n) /\ Run(queue, Low)
  <2>1. Run(queue, Low)
    BY <1>1, <1>2, <1>4, <1>5, RunConcat DEF Queued
  <2>2. N + n \in Nat /\ N + n = Len(later) /\ M = Len(unacked)
    BY <1>1, <1>4
  <2>3. unacked \o later \in Seq(Chunk) /\ Len(unacked \o later) = Len(unacked) + Len(later)
    BY <1>2, <1>4, ConcatProperties
  <2> QED
    BY <1>5, <2>1, <2>2, <2>3
<1>7. /\ Bytes(added) \in Nat /\ Bytes(unacked) \in Nat /\ Bytes(later) \in Nat
      /\ Bytes(pending) \in Nat /\ Bytes(later) = Bytes(pending) + Bytes(added)
      /\ Bytes(queue) = Bytes(unacked) + Bytes(later)
  BY <1>2, <1>3, <1>4, <1>5, BytesTyped, BytesConcat DEF later
<1>8. total = Bytes(queue) /\ total \in Nat
  BY <1>7 DEF Queued
<1> HIDE DEF total
<1>9. drops \in 0 .. Len(queue) /\ fits(drops)
  <2> DEFINE T == {d \in 0 .. Len(queue) : fits(d)}
  <2>1. \A d \in 0 .. Len(queue) : Bytes(Prefix(queue, d)) \in Nat
    BY <1>6, Parts, BytesTyped
  <2>2. Len(queue) \in T
    <3>1. Prefix(queue, Len(queue)) = queue
      BY <1>6, SubSeqFull DEF Prefix
    <3>2. Len(queue) \in 0 .. Len(queue)
      BY <1>6
    <3>3. total - Bytes(queue) <= Cap
      BY <1>8, BoundsTyped
    <3> QED
      BY <3>1, <3>2, <3>3
  <2>3. T \in SUBSET Nat
    BY <1>6
  <2>4. PICK x \in T : \A y \in T : x <= y
    <3> HIDE DEF T
    <3> QED
      BY <2>2, <2>3, NatLeast
  <2>5. x \in 0 .. Len(queue) /\ fits(x)
    OBVIOUS
  <2>6. ASSUME NEW e \in 0 .. (x - 1) PROVE total - Bytes(Prefix(queue, e)) > Cap
    <3>1. e \in 0 .. Len(queue) /\ ~(x <= e)
      BY <1>6, <2>5
    <3>2. ~fits(e)
      BY <2>4, <3>1
    <3> QED
      BY <1>8, <2>1, <3>1, <3>2, BoundsTyped
  <2> QED
    BY <2>5, <2>6
<1>10. PICK d \in 0 .. M + (N + n) : d = drops
  BY <1>6, <1>9
<1> HIDE DEF drops, fits
<1>11. total - Bytes(Prefix(queue, d)) <= Cap
  BY <1>9, <1>10 DEF fits
<1> DEFINE e == IF d <= M THEN d ELSE M
<1>12. e \in 0 .. M /\ e \in 0 .. Len(unacked) /\ e <= d /\ d - e \in 0 .. N + n /\ d - e \in 0 .. Len(later)
  BY <1>1, <1>4
<1>13. unacked' = Rest(unacked, e)
  <2>1. CASE d < M
    BY <1>0, <1>1, <1>10, <2>1
  <2>2. CASE ~(d < M)
    <3>1. Rest(unacked, M) = <<>> /\ e = M
      BY <1>1, <1>2, <2>2 DEF Rest
    <3> QED
      BY <1>0, <1>1, <1>10, <2>2, <3>1
  <2> QED
    BY <2>1, <2>2
<1>14. pending' = Rest(later, d - e)
  <2>1. CASE d <= M
    <3>1. Rest(later, 0) = later
      BY <1>4, SubSeqFull DEF Rest
    <3> QED
      BY <1>0, <1>1, <1>10, <2>1, <3>1
  <2>2. CASE ~(d <= M)
    BY <1>0, <1>1, <1>10, <2>2
  <2> QED
    BY <2>1, <2>2
<1>15. Bytes(Prefix(queue, d)) = Bytes(Prefix(unacked, e)) + Bytes(Prefix(later, d - e))
  <2>1. CASE d <= M
    <3>0. d \in 0 .. Len(unacked) + Len(later) /\ d <= Len(unacked)
      BY <1>1, <1>4, <2>1
    <3>1. Prefix(queue, d) = Prefix(unacked, d)
      BY <1>2, <1>4, <1>5, <3>0, PrefixConcat
    <3>2. Prefix(later, 0) = <<>>
      BY DEF Prefix
    <3>3. Bytes(Prefix(unacked, d)) \in Nat
      BY <1>1, <1>2, <2>1, <1>12, Parts, BytesTyped
    <3> QED
      BY <2>1, <3>1, <3>2, <3>3, BytesEmpty
  <2>2. CASE ~(d <= M)
    <3>0. d \in 0 .. Len(unacked) + Len(later) /\ d > Len(unacked) /\ M = Len(unacked)
      BY <1>1, <1>4, <2>2
    <3>1. Prefix(queue, d) = unacked \o Prefix(later, d - M)
      BY <1>2, <1>4, <1>5, <3>0, PrefixConcat, ZenonT(60)
    <3>2. Prefix(unacked, M) = unacked
      BY <1>1, <1>2, SubSeqFull DEF Prefix
    <3>3. Prefix(later, d - M) \in Seq(Chunk)
      BY <1>4, <1>12, <2>2, Parts
    <3> QED
      BY <1>2, <2>2, <3>1, <3>2, <3>3, BytesConcat
  <2> QED
    BY <2>1, <2>2
<1> HIDE DEF e
<1>16. /\ unacked' \in Seq(Chunk) /\ Len(unacked') = M - e /\ Run(unacked', Low + e)
       /\ Prefix(unacked, e) \in Seq(Chunk)
       /\ Bytes(unacked) = Bytes(Prefix(unacked, e)) + Bytes(unacked')
  <2>1. Run(Rest(unacked, e), Low + e)
    BY <1>2, <1>12, RunParts DEF Queued
  <2> QED
    BY <1>1, <1>2, <1>12, <1>13, <2>1, Parts, BytesCut
<1>17. /\ pending' \in Seq(Chunk) /\ Len(pending') = (N + n) - (d - e)
       /\ Run(pending', (Low + M) + (d - e))
       /\ Prefix(later, d - e) \in Seq(Chunk)
       /\ Bytes(later) = Bytes(Prefix(later, d - e)) + Bytes(pending')
  <2>1. Low + M \in Nat
    BY <1>2
  <2>2. Run(Rest(later, d - e), (Low + M) + (d - e))
    BY <1>4, <1>12, <2>1, RunParts
  <2>3. later \in Seq(Chunk) /\ d - e \in 0 .. Len(later)
    BY <1>4, <1>12
  <2>4. /\ Rest(later, d - e) \in Seq(Chunk) /\ Prefix(later, d - e) \in Seq(Chunk)
        /\ Len(Rest(later, d - e)) = Len(later) - (d - e)
    BY <2>3, Parts
  <2>5. Bytes(later) = Bytes(Prefix(later, d - e)) + Bytes(Rest(later, d - e))
    BY <2>3, BytesCut
  <2> QED
    BY <1>4, <1>14, <2>2, <2>4, <2>5
<1>18. Low' = Low + d /\ Low' \in Nat /\ made' \in 0 .. Chunks
  <2>1. Len(unacked') + Len(pending') = (M + (N + n)) - d
    BY <1>12, <1>16, <1>17
  <2>2. Low' = (made + n) - ((M + (N + n)) - d)
    BY <1>0, <2>1 DEF Low
  <2> QED
    BY <1>0, <1>2, <2>2, LengthFacts
<1>19. Run(unacked', Low') /\ Run(pending', Low' + Len(unacked'))
  <2>1. CASE d <= M
    <3>1. e = d /\ d - e = 0 /\ (Low + M) + (d - e) = Low' + Len(unacked')
      BY <1>2, <1>16, <1>18, <2>1 DEF e
    <3> QED
      BY <1>16, <1>17, <1>18, <3>1
  <2>2. CASE ~(d <= M)
    <3>1. e = M /\ Len(unacked') = 0 /\ (Low + M) + (d - e) = Low' + Len(unacked')
      BY <1>2, <1>16, <1>18, <2>2 DEF e
    <3> QED
      BY <1>17, <3>1 DEF Run
  <2> QED
    BY <2>1, <2>2
<1>20. /\ Bytes(Prefix(unacked, e)) \in Nat /\ Bytes(Prefix(later, d - e)) \in Nat
       /\ Bytes(unacked') \in Nat /\ Bytes(pending') \in Nat
  BY <1>16, <1>17, BytesTyped
<1>21. bufferedBytes' = Bytes(unacked') + Bytes(pending') /\ bufferedBytes' <= Cap
  <2>1. bufferedBytes' = total - Bytes(Prefix(queue, d))
    BY <1>0, <1>10
  <2>2. bufferedBytes' <= Cap
    BY <1>11, <2>1
  <2>3. PICK a \in Nat, b \in Nat, u \in Nat, p \in Nat :
          /\ a = Bytes(Prefix(unacked, e)) /\ b = Bytes(Prefix(later, d - e))
          /\ u = Bytes(unacked') /\ p = Bytes(pending')
    BY <1>20
  <2>4. total = (a + u) + (b + p) /\ Bytes(Prefix(queue, d)) = a + b
    BY <1>7, <1>8, <1>15, <1>16, <1>17, <2>3
  <2>5. bufferedBytes' = u + p
    BY <2>1, <2>4
  <2> QED
    BY <2>2, <2>3, <2>5
<1>22. droppedUnacked' = droppedUnacked + Bytes(Prefix(unacked, e))
  <2>1. PICK a \in Nat, u \in Nat, x \in Nat :
          a = Bytes(Prefix(unacked, e)) /\ u = Bytes(unacked') /\ x = droppedUnacked
    BY <1>20 DEF BufferTyped
  <2>2. Bytes(unacked) = a + u
    BY <1>16, <2>1
  <2>3. droppedUnacked' = (x + (a + u)) - u
    BY <1>0, <2>1, <2>2
  <2> QED
    BY <2>1, <2>3
<1>23. dropped' = dropped \cup ((Low + 1) .. Low')
  <2>0. queue \in Seq(Chunk) /\ d \in 0 .. Len(queue)
    BY <1>6, <1>10
  <2>1. Prefix(queue, d) \in Seq(Chunk) /\ Len(Prefix(queue, d)) = d
        /\ \A i \in 1 .. d : Prefix(queue, d)[i] = queue[i]
    BY <2>0, Parts
  <2>2. Run(Prefix(queue, d), Low)
    BY <1>2, <1>6, <2>0, RunParts
  <2>3. ToSet(Prefix(queue, d)) = (Low + 1) .. (Low + d)
    BY <1>2, <2>1, <2>2, RunSet
  <2>4. ToSet(Prefix(queue, d)) = {queue[i] : i \in 1 .. d}
    BY <2>1 DEF ToSet
  <2> QED
    BY <1>0, <1>10, <1>18, <2>3, <2>4
<1>24. Low' <= made'
  BY <1>0, <1>2, <1>18
<1>25. (Low + 1) .. Low' \subseteq Chunk
  BY <1>0, <1>2, <1>18, <1>24, LengthFacts DEF Chunk
<1>26. BufferTyped'
  <2>1. bufferedBytes' \in Nat /\ droppedUnacked' \in Nat /\ connAcked' \in Nat
    BY <1>0, <1>20, <1>21, <1>22, SMTT(30) DEF BufferTyped
  <2> QED
    BY <1>16, <1>17, <1>18, <1>23, <1>25, <2>1 DEF BufferTyped
<1>27. Queued'
  BY <1>18, <1>19, <1>21 DEF Queued
<1>28. Low <= Low'
  BY <1>2, <1>18
<1> QED
  BY <1>0, <1>12, <1>13, <1>22, <1>23, <1>26, <1>27, <1>28

(* What apply_ack does: the credit of the new bytes goes to what the cap   *)
(* took first, and then to the r oldest chunks that fit into the rest.     *)
Newly(v) == IF v > connAcked THEN v - connAcked ELSE 0
Discarded(v) == IF Newly(v) < droppedUnacked THEN Newly(v) ELSE droppedUnacked

(* The invariant of the buffer through apply_ack, and which chunks it      *)
(* releases: the longest prefix that the rest of the credit covers.        *)
LEMMA AckStep ==
  ASSUME BufferTyped, Queued, NEW v \in Nat, ApplyAck(v)
  PROVE  /\ BufferTyped' /\ Queued'
         /\ made' = made /\ dropped' = dropped
         /\ connAcked' = connAcked + Newly(v) /\ droppedUnacked' = droppedUnacked - Discarded(v)
         /\ \E r \in 0 .. Len(unacked) :
              /\ unacked' = Rest(unacked, r) /\ Low' = Low + r
              /\ Bytes(Prefix(unacked, r)) <= Newly(v) - Discarded(v)
              /\ \A s \in (r + 1) .. Len(unacked) :
                   Bytes(Prefix(unacked, s)) > Newly(v) - Discarded(v)
<1> DEFINE due == Newly(v) - Discarded(v)
           released == CHOOSE r \in 0 .. Len(unacked) :
                         /\ Bytes(Prefix(unacked, r)) <= due
                         /\ \A s \in (r + 1) .. Len(unacked) : Bytes(Prefix(unacked, s)) > due
<1>0. /\ connAcked' = connAcked + Newly(v)
      /\ droppedUnacked' = droppedUnacked - Discarded(v)
      /\ unacked' = Rest(unacked, released)
      /\ bufferedBytes' = bufferedBytes - Bytes(Prefix(unacked, released))
      /\ made' = made /\ pending' = pending /\ dropped' = dropped
  BY DEF ApplyAck, Newly, Discarded
<1>1. PICK M \in Nat, N \in Nat : M = Len(unacked) /\ N = Len(pending)
  BY DEF BufferTyped
<1>2. unacked \in Seq(Chunk) /\ pending \in Seq(Chunk) /\ made \in Nat /\ Low \in Nat
      /\ Low + (M + N) = made
  BY <1>1 DEF BufferTyped, Queued, Low
<1>3. Newly(v) \in Nat /\ Discarded(v) \in Nat /\ due \in Nat /\ droppedUnacked - Discarded(v) \in Nat
  BY DEF Newly, Discarded, BufferTyped
<1>4. \A s \in 0 .. M : Prefix(unacked, s) \in Seq(Chunk) /\ Bytes(Prefix(unacked, s)) \in Nat
  BY <1>1, <1>2, Parts, BytesTyped
<1> HIDE DEF due
<1>5. PICK r \in 0 .. M : r = released /\ Bytes(Prefix(unacked, r)) <= due
                          /\ \A s \in (r + 1) .. M : Bytes(Prefix(unacked, s)) > due
  <2> DEFINE T == {r \in 0 .. M : Bytes(Prefix(unacked, r)) <= due}
  <2>1. 0 \in T
    <3>1. Prefix(unacked, 0) = <<>>
      BY DEF Prefix
    <3> QED
      BY <3>1, <1>3, BytesEmpty
  <2>2. T \in SUBSET (0 .. M)
    OBVIOUS
  <2>3. PICK x \in T : \A y \in T : y <= x
    <3> HIDE DEF T
    <3> QED
      BY <2>1, <2>2, NatGreatest
  <2>4. x \in 0 .. M /\ Bytes(Prefix(unacked, x)) <= due
    OBVIOUS
  <2>5. ASSUME NEW s \in (x + 1) .. M PROVE Bytes(Prefix(unacked, s)) > due
    <3>1. s \in 0 .. M /\ ~(s <= x)
      BY <2>4
    <3>2. ~(Bytes(Prefix(unacked, s)) <= due)
      BY <2>3, <3>1
    <3> QED
      BY <1>3, <1>4, <3>1, <3>2
  <2>6. /\ released \in 0 .. Len(unacked) /\ Bytes(Prefix(unacked, released)) <= due
        /\ \A s \in (released + 1) .. Len(unacked) : Bytes(Prefix(unacked, s)) > due
    BY <1>1, <2>4, <2>5
  <2> QED
    BY <1>1, <2>6
<1> HIDE DEF released
<1>6. /\ unacked' = Rest(unacked, r) /\ r \in 0 .. Len(unacked)
      /\ unacked' \in Seq(Chunk) /\ Len(unacked') = M - r /\ Run(unacked', Low + r)
      /\ Bytes(unacked) = Bytes(Prefix(unacked, r)) + Bytes(unacked')
  <2>1. r \in 0 .. Len(unacked)
    BY <1>1
  <2>2. Run(Rest(unacked, r), Low + r)
    BY <1>2, <2>1, RunParts DEF Queued
  <2> QED
    BY <1>0, <1>1, <1>2, <1>5, <2>1, <2>2, Parts, BytesCut
<1>7. Low' = Low + r /\ Low' \in Nat /\ Low' + Len(unacked') = Low + M
  <2>1. Len(unacked') + Len(pending') = (M + N) - r
    BY <1>0, <1>1, <1>6
  <2>2. Low' = made - ((M + N) - r)
    BY <1>0, <2>1 DEF Low
  <2> QED
    BY <1>2, <1>6, <2>2
<1>8. Bytes(unacked') \in Nat /\ Bytes(pending) \in Nat /\ Bytes(Prefix(unacked, r)) \in Nat
  BY <1>2, <1>4, <1>6, BytesTyped
<1>9. bufferedBytes' = Bytes(unacked') + Bytes(pending') /\ bufferedBytes' <= Cap
  <2>1. bufferedBytes = (Bytes(Prefix(unacked, r)) + Bytes(unacked')) + Bytes(pending)
        /\ bufferedBytes <= Cap
    BY <1>6 DEF Queued
  <2>2. bufferedBytes' = bufferedBytes - Bytes(Prefix(unacked, r))
    BY <1>0, <1>5
  <2> QED
    BY <1>0, <1>8, <2>1, <2>2, BoundsTyped
<1>10. BufferTyped'
  <2>1. bufferedBytes' \in Nat
    BY <1>0, <1>8, <1>9
  <2>2. connAcked' \in Nat /\ droppedUnacked' \in Nat
    BY <1>0, <1>3 DEF BufferTyped
  <2> QED
    BY <1>0, <1>6, <2>1, <2>2 DEF BufferTyped
<1>11. Queued'
  <2>1. Run(pending, Low + M)
    BY <1>1 DEF Queued
  <2> QED
    BY <1>0, <1>6, <1>7, <1>9, <2>1 DEF Queued
<1> QED
  BY <1>0, <1>1, <1>5, <1>6, <1>7, <1>10, <1>11 DEF due

(* disconnect puts the unacknowledged chunks back in front, which changes  *)
(* nothing of what is held.                                                *)
LEMMA DisconnectStep ==
  ASSUME BufferTyped, Queued, Disconnect
  PROVE  BufferTyped' /\ Queued' /\ Held' = Held /\ made' = made /\ dropped' = dropped
         /\ unacked' = <<>> /\ cur' = 0 /\ Low' = Low
<1>0. /\ pending' = unacked \o pending /\ unacked' = <<>> /\ made' = made
      /\ bufferedBytes' = bufferedBytes /\ connAcked' = connAcked
      /\ droppedUnacked' = droppedUnacked /\ dropped' = dropped /\ cur' = 0
  BY DEF Disconnect
<1>1. PICK M \in Nat, N \in Nat : M = Len(unacked) /\ N = Len(pending)
  BY DEF BufferTyped
<1>2. unacked \in Seq(Chunk) /\ pending \in Seq(Chunk) /\ made \in Nat /\ Low \in Nat
  BY DEF BufferTyped, Queued
<1>3. /\ pending' \in Seq(Chunk) /\ Len(pending') = M + N /\ Run(pending', Low)
      /\ Bytes(pending') = Bytes(unacked) + Bytes(pending)
  <2>1. Run(unacked \o pending, Low)
    BY <1>2, RunConcat DEF Queued
  <2>2. Len(unacked \o pending) = M + N /\ unacked \o pending \in Seq(Chunk)
    BY <1>1, <1>2, ConcatProperties
  <2> QED
    BY <1>0, <1>2, <2>1, <2>2, BytesConcat
<1>4. unacked' \in Seq(Chunk) /\ Len(unacked') = 0 /\ Bytes(unacked') = 0 /\ Run(unacked', Low)
  BY <1>0, BytesEmpty DEF Run
<1>5. Low' = Low
  BY <1>0, <1>1, <1>3, <1>4 DEF Low
<1>6. Bytes(pending') \in Nat
  BY <1>3, BytesTyped
<1>7. BufferTyped'
  BY <1>0, <1>3, <1>4 DEF BufferTyped
<1>8. Queued'
  <2>1. bufferedBytes' = Bytes(unacked') + Bytes(pending') /\ bufferedBytes' <= Cap
    BY <1>0, <1>3, <1>4, <1>6 DEF Queued
  <2>2. Run(pending', Low' + Len(unacked'))
    BY <1>2, <1>3, <1>4, <1>5
  <2> QED
    BY <1>2, <1>4, <1>5, <2>1, <2>2 DEF Queued
<1>9. Held' = Held
  <2>1. Held' = (Low' + 1) .. made'
    <3>1. (BufferTyped /\ Queued => Held = (Low + 1) .. made)'
      BY HeldIs, PTL
    <3> QED
      BY <1>7, <1>8, <3>1
  <2> QED
    BY <1>0, <1>5, <2>1, HeldIs
<1> QED
  BY <1>0, <1>5, <1>7, <1>8, <1>9

(* What is written moves from pending to unacked.                          *)
LEMMA WriteStep ==
  ASSUME BufferTyped, Queued, pending # <<>>,
         pending' = Tail(pending), unacked' = Append(unacked, Head(pending)),
         UNCHANGED <<made, bufferedBytes, connAcked, droppedUnacked, dropped>>
  PROVE  /\ BufferTyped' /\ Queued' /\ Held' = Held
         /\ Head(pending) = Low + Len(unacked) + 1 /\ Head(pending) \in 1 .. made
         /\ Head(pending) \in Chunk /\ Low' = Low
         /\ Bytes(unacked') = Bytes(unacked) + Length[Head(pending)]
<1> DEFINE i == Head(pending)
<1>1. PICK M \in Nat, N \in Nat : M = Len(unacked) /\ N = Len(pending)
  BY DEF BufferTyped
<1>2. unacked \in Seq(Chunk) /\ pending \in Seq(Chunk) /\ made \in Nat /\ Low \in Nat
      /\ Low + (M + N) = made
  BY <1>1 DEF BufferTyped, Queued, Low
<1>3. N # 0 /\ i = pending[1] /\ i \in Chunk
  BY <1>1, <1>2
<1>4. i = Low + M + 1
  BY <1>1, <1>3 DEF Queued, Run
<1>5. /\ pending' \in Seq(Chunk) /\ Len(pending') = N - 1
      /\ \A j \in 1 .. N - 1 : pending'[j] = pending[j + 1]
  BY <1>1, <1>2, HeadTailProperties
<1>6. /\ unacked' \in Seq(Chunk) /\ Len(unacked') = M + 1
      /\ \A j \in 1 .. M : unacked'[j] = unacked[j]
      /\ unacked'[M + 1] = i
  BY <1>1, <1>2, <1>3, AppendProperties
<1>7. Low' = Low
  <2>1. Len(unacked') = M + 1 /\ Len(pending') = N - 1 /\ (M + 1) + (N - 1) = M + N
    BY <1>5, <1>6
  <2>2. Len(unacked') + Len(pending') = M + N
    BY <2>1
  <2> QED
    BY <1>1, <2>2 DEF Low
<1>8. Run(unacked', Low)
  <2> SUFFICES ASSUME NEW j \in 1 .. M + 1 PROVE unacked'[j] = Low + j
    BY <1>6 DEF Run
  <2>1. CASE j = M + 1
    BY <1>2, <1>4, <1>6, <2>1
  <2>2. CASE j # M + 1
    <3>1. j \in 1 .. M
      BY <2>2
    <3> QED
      BY <1>1, <1>6, <3>1 DEF Queued, Run
  <2> QED
    BY <2>1, <2>2
<1>9. Run(pending', Low + (M + 1))
  <2> SUFFICES ASSUME NEW j \in 1 .. N - 1 PROVE pending'[j] = (Low + (M + 1)) + j
    BY <1>5 DEF Run
  <2>1. j + 1 \in 1 .. N /\ pending'[j] = pending[j + 1]
    BY <1>5
  <2>2. pending[j + 1] = (Low + M) + (j + 1)
    BY <1>1, <2>1 DEF Queued, Run
  <2>3. (Low + M) + (j + 1) = (Low + (M + 1)) + j
    BY <1>2
  <2> QED
    BY <2>1, <2>2, <2>3
<1>10. Bytes(unacked') = Bytes(unacked) + Length[i]
  BY <1>2, <1>3, BytesAppend
<1>11. Bytes(pending) = Length[i] + Bytes(pending')
  <2>1. pending = <<i>> \o pending' /\ <<i>> \in Seq(Chunk)
    BY <1>1, <1>2, <1>3
  <2>2. Bytes(pending) = Bytes(<<i>>) + Bytes(pending')
    BY <1>5, <2>1, BytesConcat
  <2>3. Bytes(<<i>>) = Length[i]
    BY <1>3, LengthFacts, TotalSingle DEF Bytes
  <2> QED
    BY <2>2, <2>3
<1>12. Bytes(unacked) \in Nat /\ Bytes(pending') \in Nat /\ Length[i] \in Nat
  BY <1>2, <1>3, <1>5, BytesTyped, LengthFacts
<1> HIDE DEF i
<1>13. BufferTyped'
  BY <1>5, <1>6 DEF BufferTyped
<1>14. Queued'
  <2>1. bufferedBytes' = Bytes(unacked') + Bytes(pending') /\ bufferedBytes' <= Cap
    BY <1>10, <1>11, <1>12 DEF Queued
  <2>2. Run(pending', Low' + Len(unacked'))
    BY <1>6, <1>7, <1>9
  <2> QED
    BY <1>2, <1>7, <1>8, <2>1, <2>2 DEF Queued
<1>15. Held' = Held
  <2>1. Held' = (Low' + 1) .. made'
    <3>1. (BufferTyped /\ Queued => Held = (Low + 1) .. made)'
      BY HeldIs, PTL
    <3> QED
      BY <1>13, <1>14, <3>1
  <2> QED
    BY <1>7, <2>1, HeldIs
<1>16. i \in 1 .. made /\ i = Low + Len(unacked) + 1
  BY <1>1, <1>2, <1>3, <1>4
<1> QED
  BY <1>3, <1>7, <1>10, <1>13, <1>14, <1>15, <1>16 DEF i

-----------------------------------------------------------------------------
(* Frames.                                                                 *)

Frames == {ResetFrame, CloseFrame}
            \cup {SizeFrame(s) : s \in 1 .. Sizes} \cup {ChunkFrame(i) : i \in Chunk}
Weight == [f \in Frames |-> IF f.kind = "chunk" THEN Length[f.n] ELSE 0]

(* Frames are what their constructors make, and only chunk frames name     *)
(* chunks.                                                                 *)
LEMMA FrameFacts ==
  /\ \A f \in Frames :
       /\ f \in Frame
       /\ f.kind = "chunk" => f.n \in Chunk /\ f = ChunkFrame(f.n)
       /\ f.kind = "size" => f.n \in 1 .. Sizes
  /\ \A i \in Chunk : ChunkFrame(i) \in Frames /\ ChunkFrame(i).kind = "chunk" /\ ChunkFrame(i).n = i
  /\ \A s \in 1 .. Sizes : SizeFrame(s) \in Frames /\ SizeFrame(s).kind = "size"
  /\ ResetFrame \in Frames /\ ResetFrame.kind = "reset"
  /\ CloseFrame \in Frames /\ CloseFrame.kind = "close"
<1> USE LengthFacts, BoundsTyped
<1>1. ASSUME NEW i \in Chunk
      PROVE  /\ ChunkFrame(i) \in Frames /\ ChunkFrame(i) \in Frame
             /\ ChunkFrame(i).kind = "chunk" /\ ChunkFrame(i).n = i
  BY DEF Frames, Frame, ChunkFrame, Chunk
<1>2. ASSUME NEW s \in 1 .. Sizes
      PROVE  /\ SizeFrame(s) \in Frames /\ SizeFrame(s) \in Frame
             /\ SizeFrame(s).kind = "size" /\ SizeFrame(s).n = s
  BY DEF Frames, Frame, SizeFrame
<1>3. /\ ResetFrame \in Frames /\ ResetFrame.kind = "reset" /\ ResetFrame \in Frame
      /\ CloseFrame \in Frames /\ CloseFrame.kind = "close" /\ CloseFrame \in Frame
  BY DEF Frames, Frame, ResetFrame, CloseFrame
<1>4. ASSUME NEW f \in Frames
      PROVE  /\ f \in Frame
             /\ f.kind = "chunk" => f.n \in Chunk /\ f = ChunkFrame(f.n)
             /\ f.kind = "size" => f.n \in 1 .. Sizes
  <2>1. CASE f \in {ResetFrame, CloseFrame}
    BY <1>3, <2>1
  <2>2. CASE \E s \in 1 .. Sizes : f = SizeFrame(s)
    BY <1>2, <2>2
  <2>3. CASE \E i \in Chunk : f = ChunkFrame(i)
    BY <1>1, <2>3
  <2> QED
    BY <2>1, <2>2, <2>3 DEF Frames
<1> QED
  BY <1>1, <1>2, <1>3, <1>4

(* The weight of a frame is the length of the chunk it carries, which is   *)
(* never 0, and 0 for all other frames.                                    *)
LEMMA WeightFacts ==
  /\ Weight \in [Frames -> Nat]
  /\ \A i \in Chunk : Weight[ChunkFrame(i)] = Length[i]
  /\ \A f \in Frames : IF f.kind = "chunk" THEN Weight[f] = Length[f.n] /\ Weight[f] # 0
                       ELSE Weight[f] = 0
  BY LengthFacts, FrameFacts DEF Weight

(* The payload of a wire is the total of its frames' weights.              *)
LEMMA PayloadIs ==
  ASSUME NEW w \in Seq(Frames)
  PROVE  Payload(w) = Total(Weight, w)
<1>1. \A j \in DOMAIN w : w[j] \in Frames
  OBVIOUS
<1>2. [j \in DOMAIN w |-> IF w[j].kind = "chunk" THEN Length[w[j].n] ELSE 0]
        = [j \in DOMAIN w |-> Weight[w[j]]]
  BY <1>1 DEF Weight
<1> QED
  BY <1>2 DEF Payload, Total

(* The payload is a number.                                                *)
LEMMA PayloadTyped ==
  ASSUME NEW w \in Seq(Frames)
  PROVE  Payload(w) \in Nat
  BY PayloadIs, WeightFacts, TotalTyped

(* An empty wire carries nothing.                                          *)
LEMMA PayloadEmpty == Payload(<<>>) = 0
<1>1. Payload(<<>>) = Total(Weight, <<>>)
  <2>1. <<>> \in Seq(Frames)
    OBVIOUS
  <2> QED
    BY <2>1, PayloadIs
<1>2. Weight \in [Frames -> Nat]
  BY WeightFacts
<1>3. ResetFrame \in Frames
  BY FrameFacts
<1>4. Total(Weight, <<>>) = 0
  BY <1>2, <1>3, TotalSingle
<1> QED
  BY <1>1, <1>4

(* A frame adds its weight.                                                *)
LEMMA PayloadAppend ==
  ASSUME NEW w \in Seq(Frames), NEW f \in Frames
  PROVE  Payload(Append(w, f)) = Payload(w) + Weight[f]
<1>1. Append(w, f) \in Seq(Frames)
  OBVIOUS
<1>2. Total(Weight, Append(w, f)) = Total(Weight, w) + Weight[f]
  BY WeightFacts, TotalAppend
<1> QED
  BY <1>1, <1>2, PayloadIs

(* The frame read first carries the difference.                            *)
LEMMA PayloadTail ==
  ASSUME NEW w \in Seq(Frames), w # <<>>
  PROVE  /\ Head(w) \in Frames /\ Tail(w) \in Seq(Frames) /\ Len(Tail(w)) = Len(w) - 1
         /\ \A p \in 1 .. Len(w) - 1 : Tail(w)[p] = w[p + 1]
         /\ Payload(w) = Weight[Head(w)] + Payload(Tail(w))
         /\ \A p \in 0 .. Len(w) - 1 :
              Payload(Prefix(w, p + 1)) = Weight[Head(w)] + Payload(Prefix(Tail(w), p))
<1>1. PICK N \in Nat : N = Len(w) /\ N # 0
  OBVIOUS
<1>2. /\ Head(w) \in Frames /\ Tail(w) \in Seq(Frames) /\ Len(Tail(w)) = N - 1
      /\ \A p \in 1 .. N - 1 : Tail(w)[p] = w[p + 1]
  BY <1>1, HeadTailProperties
<1>3. Rest(w, 1) = Tail(w)
  BY <1>1, TailIsSubSeq DEF Rest
<1>4. Prefix(w, 1) = <<Head(w)>>
  <2>1. 1 \in 0 .. Len(w) /\ Head(w) = w[1]
    BY <1>1
  <2>2. Prefix(w, 1) \in Seq(Frames) /\ Len(Prefix(w, 1)) = 1 /\ Prefix(w, 1)[1] = w[1]
    <3>1. PICK d \in 0 .. Len(w) : d = 1
      BY <2>1
    <3>2. /\ Prefix(w, d) \in Seq(Frames) /\ Len(Prefix(w, d)) = d
          /\ \A i \in 1 .. d : Prefix(w, d)[i] = w[i]
      BY Parts
    <3> QED
      BY <3>1, <3>2
  <2>3. <<Head(w)>> \in Seq(Frames) /\ Len(<<Head(w)>>) = 1 /\ <<Head(w)>>[1] = w[1]
    BY <1>2, <2>1
  <2> QED
    BY <2>2, <2>3, SeqEqual
<1>5. 1 \in 0 .. Len(w)
  BY <1>1
<1>6. /\ Total(Weight, w) = Total(Weight, Prefix(w, 1)) + Total(Weight, Rest(w, 1))
      /\ \A r \in 0 .. Len(w) - 1 :
           Total(Weight, Prefix(w, 1 + r))
             = Total(Weight, Prefix(w, 1)) + Total(Weight, Prefix(Rest(w, 1), r))
  BY <1>5, WeightFacts, TotalCut DEF Prefix, Rest
<1>7. Total(Weight, <<Head(w)>>) = Weight[Head(w)]
  BY <1>2, WeightFacts, TotalSingle
<1>8. Payload(w) = Weight[Head(w)] + Payload(Tail(w))
  BY <1>2, <1>3, <1>4, <1>6, <1>7, PayloadIs
<1>9. ASSUME NEW p \in 0 .. N - 1
      PROVE  Payload(Prefix(w, p + 1)) = Weight[Head(w)] + Payload(Prefix(Tail(w), p))
  <2>1. p + 1 \in 0 .. Len(w) /\ p \in 0 .. Len(Tail(w)) /\ 1 + p = p + 1
    BY <1>1, <1>2
  <2>2. Prefix(w, p + 1) \in Seq(Frames) /\ Prefix(Tail(w), p) \in Seq(Frames)
    BY <1>2, <2>1, Parts
  <2>3. Total(Weight, Prefix(w, p + 1)) = Weight[Head(w)] + Total(Weight, Prefix(Tail(w), p))
    BY <1>1, <1>3, <1>4, <1>6, <1>7, <2>1
  <2> QED
    BY <2>2, <2>3, PayloadIs
<1> QED
  BY <1>1, <1>2, <1>8, <1>9

(* More frames carry no less, and more if the last of them is a chunk.     *)
LEMMA PayloadGrow ==
  ASSUME NEW w \in Seq(Frames), NEW a \in 0 .. Len(w), NEW b \in a .. Len(w)
  PROVE  /\ Payload(Prefix(w, a)) <= Payload(Prefix(w, b))
         /\ a < b /\ w[b].kind = "chunk" => Payload(Prefix(w, a)) < Payload(Prefix(w, b))
<1>1. PICK N \in Nat : N = Len(w)
  OBVIOUS
<1>2. a \in 0 .. N /\ b \in 0 .. N
  BY <1>1
<1>3. Prefix(w, a) \in Seq(Frames) /\ Prefix(w, b) \in Seq(Frames)
  BY <1>1, <1>2, Parts
<1>4. Total(Weight, Prefix(w, a)) <= Total(Weight, Prefix(w, b))
      /\ (a < b /\ Weight[w[b]] # 0 => Total(Weight, Prefix(w, a)) < Total(Weight, Prefix(w, b)))
  BY WeightFacts, TotalGrows DEF Prefix
<1>5. ASSUME a < b, w[b].kind = "chunk" PROVE Weight[w[b]] # 0
  <2>1. b \in 1 .. N
    BY <1>2, <1>5
  <2>2. w[b] \in Frames
    BY <1>1, <2>1
  <2> QED
    BY <1>5, <2>2, WeightFacts
<1> QED
  BY <1>3, <1>4, <1>5, PayloadIs

(* Prefixes of what was appended to, and of prefixes. *)
LEMMA PrefixAppend ==
  ASSUME NEW S, NEW q \in Seq(S), NEW x \in S
  PROVE  /\ Append(q, x) \in Seq(S) /\ Len(Append(q, x)) = Len(q) + 1
         /\ \A i \in 1 .. Len(q) : Append(q, x)[i] = q[i]
         /\ Append(q, x)[Len(q) + 1] = x
         /\ \A d \in 0 .. Len(q) : Prefix(Append(q, x), d) = Prefix(q, d)
         /\ Prefix(Append(q, x), Len(q) + 1) = Append(q, x)
<1>1. PICK N \in Nat : N = Len(q)
  OBVIOUS
<1>2. /\ Append(q, x) \in Seq(S) /\ Len(Append(q, x)) = N + 1
      /\ \A i \in 1 .. N : Append(q, x)[i] = q[i]
      /\ Append(q, x)[N + 1] = x
  BY <1>1, AppendProperties
<1>3. ASSUME NEW d \in 0 .. N PROVE Prefix(Append(q, x), d) = Prefix(q, d)
  <2>1. d \in 0 .. Len(q) /\ d \in 0 .. Len(Append(q, x))
    BY <1>1, <1>2
  <2>2. /\ Prefix(Append(q, x), d) \in Seq(S) /\ Len(Prefix(Append(q, x), d)) = d
        /\ \A i \in 1 .. d : Prefix(Append(q, x), d)[i] = Append(q, x)[i]
    BY <1>2, <2>1, Parts
  <2>3. /\ Prefix(q, d) \in Seq(S) /\ Len(Prefix(q, d)) = d
        /\ \A i \in 1 .. d : Prefix(q, d)[i] = q[i]
    BY <2>1, Parts
  <2>4. \A i \in 1 .. d : Prefix(Append(q, x), d)[i] = Prefix(q, d)[i]
    BY <1>2, <2>2, <2>3
  <2> QED
    BY <2>2, <2>3, <2>4, SeqEqual
<1>4. Prefix(Append(q, x), N + 1) = Append(q, x)
  BY <1>2, SubSeqFull DEF Prefix
<1> QED
  BY <1>1, <1>2, <1>3, <1>4

(* A prefix of a prefix is a prefix.                                       *)
LEMMA PrefixPrefix ==
  ASSUME NEW S, NEW q \in Seq(S), NEW d \in 0 .. Len(q), NEW e \in 0 .. d
  PROVE  Prefix(Prefix(q, d), e) = Prefix(q, e)
<1>1. PICK N \in Nat : N = Len(q)
  OBVIOUS
<1>2. e \in 0 .. Len(q)
  BY <1>1
<1>3. /\ Prefix(q, d) \in Seq(S) /\ Len(Prefix(q, d)) = d
      /\ \A i \in 1 .. d : Prefix(q, d)[i] = q[i]
  BY Parts
<1>4. /\ Prefix(q, e) \in Seq(S) /\ Len(Prefix(q, e)) = e
      /\ \A i \in 1 .. e : Prefix(q, e)[i] = q[i]
  BY <1>2, Parts
<1>5. /\ Prefix(Prefix(q, d), e) \in Seq(S) /\ Len(Prefix(Prefix(q, d), e)) = e
      /\ \A i \in 1 .. e : Prefix(Prefix(q, d), e)[i] = Prefix(q, d)[i]
  BY <1>3, Parts
<1>6. \A i \in 1 .. e : Prefix(Prefix(q, d), e)[i] = Prefix(q, e)[i]
  BY <1>3, <1>4, <1>5
<1> QED
  BY <1>4, <1>5, <1>6, SeqEqual

-----------------------------------------------------------------------------
(* The books of a connection.  U is what was written on it and not         *)
(* acknowledged, base the bytes acknowledged or dropped of it, W what is   *)
(* on the wire, R what the server counted, A the acks under way, St what   *)
(* is stored.                                                              *)

(* The client's count with the first r chunks of U.                        *)
Credit(U, base, r) == base + Bytes(Prefix(U, r))
(* The server's count after the next p frames.                             *)
Arrival(W, R, p) == R + Payload(Prefix(W, p))
(* Whether a count falls between two chunks of U.                          *)
Boundary(U, base, v) == v <= base \/ \E r \in 1 .. Len(U) : v = Credit(U, base, r)
(* A chunk of U is stored, on the wire where both counts agree, or lost.   *)
OnWire(U, base, W, R, r) ==
  \E p \in 1 .. Len(W) : W[p] = ChunkFrame(U[r]) /\ Credit(U, base, r) = Arrival(W, R, p)
Placed(U, base, W, R, St, r) ==
  \/ U[r] \in St
  \/ OnWire(U, base, W, R, r)
  \/ Credit(U, base, r) > R + Payload(W)

Books(U, base, W, R) == U \in Seq(Chunk) /\ base \in Nat /\ W \in Seq(Frames) /\ R \in Nat

Ledger(U, base, W, R, St, live) ==
  /\ Books(U, base, W, R)
  /\ \A r \in 1 .. Len(U) : Placed(U, base, W, R, St, r)
  /\ \A p \in 0 .. Len(W) : Boundary(U, base, Arrival(W, R, p))
  /\ R + Payload(W) <= base + Bytes(U)
  /\ live => R + Payload(W) = base + Bytes(U)

Receipts(U, base, C, R, A) ==
  /\ A \in Seq(Nat) /\ C \in Nat /\ C <= R
  /\ \A j \in 1 .. Len(A) : C <= A[j] /\ A[j] <= R /\ Boundary(U, base, A[j])
  /\ \A i, j \in 1 .. Len(A) : i < j => A[i] <= A[j]

(* The client's count grows from base to all it wrote.                     *)
LEMMA CreditTyped ==
  ASSUME NEW U \in Seq(Chunk), NEW base \in Nat, NEW r \in 0 .. Len(U)
  PROVE  Credit(U, base, r) \in Nat /\ Credit(U, base, 0) = base
         /\ Credit(U, base, Len(U)) = base + Bytes(U)
         /\ base <= Credit(U, base, r) /\ Credit(U, base, r) <= base + Bytes(U)
<1>1. PICK M \in Nat : M = Len(U)
  OBVIOUS
<1>2. Prefix(U, r) \in Seq(Chunk)
  BY Parts
<1>3. Bytes(Prefix(U, r)) \in Nat /\ Bytes(U) \in Nat
  BY <1>2, BytesTyped
<1>4. Prefix(U, 0) = <<>> /\ Prefix(U, M) = U
  BY <1>1, SubSeqFull DEF Prefix
<1>5. Bytes(Prefix(U, r)) <= Bytes(U)
  <2>1. M \in r .. Len(U)
    BY <1>1
  <2> QED
    BY <1>4, <2>1, BytesGrow
<1> QED
  BY <1>1, <1>3, <1>4, <1>5, BytesEmpty DEF Credit

(* The server's count grows from what it read to all that is under way.    *)
LEMMA ArrivalTyped ==
  ASSUME NEW W \in Seq(Frames), NEW R \in Nat, NEW p \in 0 .. Len(W)
  PROVE  Arrival(W, R, p) \in Nat /\ Arrival(W, R, 0) = R
         /\ Arrival(W, R, Len(W)) = R + Payload(W)
         /\ R <= Arrival(W, R, p) /\ Arrival(W, R, p) <= R + Payload(W)
<1>1. PICK M \in Nat : M = Len(W)
  OBVIOUS
<1>2. Prefix(W, p) \in Seq(Frames)
  BY Parts
<1>3. Payload(Prefix(W, p)) \in Nat /\ Payload(W) \in Nat
  BY <1>2, PayloadTyped
<1>4. Prefix(W, 0) = <<>> /\ Prefix(W, M) = W
  BY <1>1, SubSeqFull DEF Prefix
<1>5. Payload(Prefix(W, p)) <= Payload(W)
  <2>1. M \in p .. Len(W)
    BY <1>1
  <2> QED
    BY <1>4, <2>1, PayloadGrow
<1> QED
  BY <1>1, <1>3, <1>4, <1>5, PayloadEmpty DEF Arrival

(* A chunk on the wire has not been counted yet. *)
LEMMA ArrivalBeyond ==
  ASSUME NEW W \in Seq(Frames), NEW R \in Nat, NEW n \in 0 .. Len(W), NEW p \in n + 1 .. Len(W),
         W[p].kind = "chunk"
  PROVE  Arrival(W, R, p) > Arrival(W, R, n)
<1>1. PICK M \in Nat : M = Len(W)
  OBVIOUS
<1>2. p \in n .. Len(W) /\ n < p /\ p \in 0 .. Len(W)
  BY <1>1
<1>3. Payload(Prefix(W, n)) < Payload(Prefix(W, p))
  BY <1>2, PayloadGrow
<1>4. Prefix(W, n) \in Seq(Frames) /\ Prefix(W, p) \in Seq(Frames)
  BY <1>2, Parts
<1>5. Payload(Prefix(W, n)) \in Nat /\ Payload(Prefix(W, p)) \in Nat
  BY <1>4, PayloadTyped
<1> QED
  BY <1>3, <1>5 DEF Arrival

(* The first e chunks leave U, and base grows by their bytes: every count  *)
(* stays where it was.                                                     *)
LEMMA CreditDrop ==
  ASSUME NEW U \in Seq(Chunk), NEW base \in Nat, NEW e \in 0 .. Len(U)
  PROVE  /\ Rest(U, e) \in Seq(Chunk) /\ Len(Rest(U, e)) = Len(U) - e
         /\ Credit(U, base, e) \in Nat
         /\ Credit(U, base, e) + Bytes(Rest(U, e)) = base + Bytes(U)
         /\ \A r \in 0 .. Len(U) - e :
              Credit(Rest(U, e), Credit(U, base, e), r) = Credit(U, base, e + r)
<1>1. PICK M \in Nat : M = Len(U)
  OBVIOUS
<1>2. Rest(U, e) \in Seq(Chunk) /\ Len(Rest(U, e)) = M - e /\ Prefix(U, e) \in Seq(Chunk)
  BY <1>1, Parts
<1>3. Bytes(Prefix(U, e)) \in Nat /\ Bytes(Rest(U, e)) \in Nat
  BY <1>2, BytesTyped
<1>4. Bytes(U) = Bytes(Prefix(U, e)) + Bytes(Rest(U, e))
      /\ \A r \in 0 .. M - e : Bytes(Prefix(U, e + r)) = Bytes(Prefix(U, e)) + Bytes(Prefix(Rest(U, e), r))
  BY <1>1, BytesCut
<1>5. ASSUME NEW r \in 0 .. M - e
      PROVE  Credit(Rest(U, e), Credit(U, base, e), r) = Credit(U, base, e + r)
  <2>1. r \in 0 .. Len(Rest(U, e))
    BY <1>2
  <2>2. Prefix(Rest(U, e), r) \in Seq(Chunk)
    BY <1>2, <2>1, Parts
  <2>3. Bytes(Prefix(Rest(U, e), r)) \in Nat
    BY <2>2, BytesTyped
  <2> QED
    BY <1>3, <1>4, <2>3 DEF Credit
<1> QED
  BY <1>1, <1>2, <1>3, <1>4, <1>5 DEF Credit

(* A count between two chunks stays one when the first chunks leave.       *)
LEMMA BoundaryDrop ==
  ASSUME NEW U \in Seq(Chunk), NEW base \in Nat, NEW e \in 0 .. Len(U),
         NEW v \in Nat, Boundary(U, base, v)
  PROVE  Boundary(Rest(U, e), Credit(U, base, e), v)
<1>1. PICK M \in Nat : M = Len(U)
  OBVIOUS
<1>2. base <= Credit(U, base, e) /\ Credit(U, base, e) \in Nat
  BY CreditTyped
<1>3. CASE v <= base
  BY <1>2, <1>3 DEF Boundary
<1>4. CASE \E r \in 1 .. M : v = Credit(U, base, r)
  <2>1. PICK r \in 1 .. M : v = Credit(U, base, r)
    BY <1>4
  <2>2. CASE r <= e
    <3>1. r \in 0 .. Len(U) /\ e \in r .. Len(U)
      BY <1>1, <2>2
    <3>2. Bytes(Prefix(U, r)) <= Bytes(Prefix(U, e))
      BY <3>1, BytesGrow
    <3>3. Prefix(U, r) \in Seq(Chunk) /\ Prefix(U, e) \in Seq(Chunk)
      BY <3>1, Parts
    <3>4. Bytes(Prefix(U, r)) \in Nat /\ Bytes(Prefix(U, e)) \in Nat
      BY <3>3, BytesTyped
    <3>5. v <= Credit(U, base, e)
      BY <2>1, <3>2, <3>4 DEF Credit
    <3> QED
      BY <3>5 DEF Boundary
  <2>3. CASE ~(r <= e)
    <3>1. r - e \in 1 .. M - e /\ r - e \in 0 .. Len(U) - e /\ e + (r - e) = r
      BY <1>1, <2>3
    <3>2. Credit(Rest(U, e), Credit(U, base, e), r - e) = v
      BY <2>1, <3>1, CreditDrop
    <3>3. r - e \in 1 .. Len(Rest(U, e))
      BY <1>1, <3>1, CreditDrop
    <3> QED
      BY <3>2, <3>3 DEF Boundary
  <2> QED
    BY <2>2, <2>3
<1> QED
  BY <1>1, <1>3, <1>4 DEF Boundary

(* The first e chunks leave U, by the cap or by an ack, and the books      *)
(* still balance.                                                          *)
LEMMA LedgerDrop ==
  ASSUME NEW U, NEW base, NEW W, NEW R, NEW St, NEW live,
         Ledger(U, base, W, R, St, live), NEW e \in 0 .. Len(U)
  PROVE  Ledger(Rest(U, e), Credit(U, base, e), W, R, St, live)
<1>0. U \in Seq(Chunk) /\ base \in Nat /\ W \in Seq(Frames) /\ R \in Nat
  BY DEF Ledger, Books
<1>1. PICK M \in Nat : M = Len(U)
  BY <1>0
<1> DEFINE V == Rest(U, e)
           top == Credit(U, base, e)
<1>2. /\ V \in Seq(Chunk) /\ Len(V) = M - e /\ top \in Nat
      /\ top + Bytes(V) = base + Bytes(U)
      /\ \A r \in 0 .. M - e : Credit(V, top, r) = Credit(U, base, e + r)
      /\ \A r \in 1 .. M - e : V[r] = U[e + r]
  BY <1>0, <1>1, CreditDrop, Parts
<1> HIDE DEF V, top
<1>3. ASSUME NEW r \in 1 .. M - e PROVE Placed(V, top, W, R, St, r)
  <2>1. e + r \in 1 .. M /\ r \in 0 .. M - e
    BY <1>1
  <2>2. Placed(U, base, W, R, St, e + r)
    BY <1>1, <2>1 DEF Ledger
  <2> QED
    BY <1>2, <2>1, <2>2 DEF Placed, OnWire
<1>4. ASSUME NEW p \in 0 .. Len(W) PROVE Boundary(V, top, Arrival(W, R, p))
  <2>1. Arrival(W, R, p) \in Nat
    BY <1>0, ArrivalTyped
  <2> QED
    BY <1>0, <2>1, BoundaryDrop DEF Ledger, V, top
<1>5. Books(V, top, W, R)
  BY <1>0, <1>2 DEF Books
<1>6. R + Payload(W) <= top + Bytes(V) /\ (live => R + Payload(W) = top + Bytes(V))
  BY <1>2 DEF Ledger
<1>7. Ledger(V, top, W, R, St, live)
  BY <1>2, <1>3, <1>4, <1>5, <1>6 DEF Ledger
<1> QED
  BY <1>7 DEF V, top

(* The acks under way are as good for what is left of U.                   *)
LEMMA ReceiptsDrop ==
  ASSUME NEW U \in Seq(Chunk), NEW base \in Nat, NEW C, NEW R \in Nat, NEW A,
         Receipts(U, base, C, R, A), NEW e \in 0 .. Len(U)
  PROVE  Receipts(Rest(U, e), Credit(U, base, e), C, R, A)
<1>1. ASSUME NEW j \in 1 .. Len(A)
      PROVE  Boundary(Rest(U, e), Credit(U, base, e), A[j])
  <2>1. A[j] \in Nat /\ Boundary(U, base, A[j])
    BY DEF Receipts
  <2> QED
    BY <2>1, BoundaryDrop
<1> QED
  BY <1>1 DEF Receipts

(* What the server counted of U is stored. *)
LEMMA CountedIsStored ==
  ASSUME NEW U, NEW base, NEW W, NEW R, NEW St, NEW live,
         Ledger(U, base, W, R, St, live),
         NEW i \in 1 .. Len(U), Credit(U, base, i) <= R
  PROVE  U[i] \in St
<1>0. U \in Seq(Chunk) /\ base \in Nat /\ W \in Seq(Frames) /\ R \in Nat
      /\ Placed(U, base, W, R, St, i)
  BY DEF Ledger, Books
<1>1. PICK M \in Nat : M = Len(U) /\ i \in 0 .. M /\ U[i] \in Chunk
  BY <1>0
<1>2. Credit(U, base, i) \in Nat /\ Payload(W) \in Nat
  BY <1>0, <1>1, CreditTyped, PayloadTyped
<1>3. ~(Credit(U, base, i) > R + Payload(W))
  BY <1>0, <1>2
<1>4. ~OnWire(U, base, W, R, i)
  <2> SUFFICES ASSUME NEW p \in 1 .. Len(W), W[p] = ChunkFrame(U[i]),
                      Credit(U, base, i) = Arrival(W, R, p)
               PROVE  FALSE
    BY DEF OnWire
  <2>1. W[p].kind = "chunk"
    BY <1>1, FrameFacts
  <2>2. PICK n \in 0 .. Len(W) : n = 0 /\ p \in n + 1 .. Len(W) /\ p \in 0 .. Len(W)
    BY <1>0
  <2>3. Arrival(W, R, p) > Arrival(W, R, n)
    BY <1>0, <2>1, <2>2, ArrivalBeyond
  <2>4. Arrival(W, R, n) = R /\ Arrival(W, R, p) \in Nat
    BY <1>0, <2>2, ArrivalTyped
  <2> QED
    BY <1>0, <2>3, <2>4
<1> QED
  BY <1>0, <1>3, <1>4 DEF Placed

(* The oldest receipt is read: newly counted, disc of it against what was  *)
(* dropped, and the r oldest chunks are all that fits into the rest.       *)
Acked(U, C, D, W, R, A, St, live, newly, disc, r) ==
  /\ C \in Nat /\ D \in Nat
  /\ Ledger(U, C + D, W, R, St, live) /\ Receipts(U, C + D, C, R, A)
  /\ A # <<>> /\ r \in 0 .. Len(U)
  /\ newly = IF Head(A) > C THEN Head(A) - C ELSE 0
  /\ disc = IF newly < D THEN newly ELSE D
  /\ Bytes(Prefix(U, r)) <= newly - disc
  /\ \A s \in (r + 1) .. Len(U) : Bytes(Prefix(U, s)) > newly - disc

(* The oldest receipt releases whole chunks, all of them stored, and moves *)
(* the base by exactly their bytes.                                        *)
LEMMA AckRelease ==
  ASSUME NEW U, NEW C, NEW D, NEW W, NEW R, NEW A, NEW St, NEW live, NEW newly, NEW disc, NEW r,
         Acked(U, C, D, W, R, A, St, live, newly, disc, r)
  PROVE  /\ (C + newly) + (D - disc) = Credit(U, C + D, r)
         /\ \A i \in 1 .. r : U[i] \in St
         /\ Receipts(Rest(U, r), Credit(U, C + D, r), C + newly, R, Tail(A))
<1>a. /\ C \in Nat /\ D \in Nat
      /\ Ledger(U, C + D, W, R, St, live) /\ Receipts(U, C + D, C, R, A)
      /\ A # <<>> /\ r \in 0 .. Len(U)
      /\ newly = IF Head(A) > C THEN Head(A) - C ELSE 0
      /\ disc = IF newly < D THEN newly ELSE D
      /\ Bytes(Prefix(U, r)) <= newly - disc
      /\ \A s \in (r + 1) .. Len(U) : Bytes(Prefix(U, s)) > newly - disc
  BY DEF Acked
<1> USE <1>a
<1>0. U \in Seq(Chunk) /\ W \in Seq(Frames) /\ R \in Nat /\ C + D \in Nat
  BY DEF Ledger, Books
<1>1. PICK M \in Nat : M = Len(U)
  BY <1>0
<1>2. PICK N \in Nat : N = Len(A) /\ N # 0
  BY DEF Receipts
<1>3. PICK v \in Nat : v = Head(A) /\ v = A[1] /\ C <= v /\ v <= R /\ Boundary(U, C + D, v)
  <2>1. A \in Seq(Nat) /\ 1 \in 1 .. Len(A) /\ Head(A) = A[1]
    BY <1>2 DEF Receipts
  <2>2. C <= A[1] /\ A[1] <= R /\ Boundary(U, C + D, A[1])
    BY <2>1 DEF Receipts
  <2>3. A[1] \in Nat
    BY <2>1, SMTT(20)
  <2> QED
    BY <2>1, <2>2, <2>3
<1>4. /\ Tail(A) \in Seq(Nat) /\ Len(Tail(A)) = N - 1
      /\ \A j \in 1 .. N - 1 : Tail(A)[j] = A[j + 1]
  BY <1>2, HeadTailProperties DEF Receipts
<1>5. newly \in Nat /\ C + newly = v /\ disc \in Nat /\ newly - disc \in Nat
  <2>1. newly = v - C /\ v - C \in Nat
    <3>1. CASE v > C
      BY <1>3, <3>1
    <3>2. CASE ~(v > C)
      <4>1. v = C
        BY <1>3, <3>2
      <4> QED
        BY <1>3, <3>2, <4>1
    <3> QED
      BY <3>1, <3>2
  <2>2. C + (v - C) = v
    BY <1>3
  <2>3. newly \in Nat
    BY <2>1
  <2>4. disc \in Nat /\ disc <= newly
    BY <2>3
  <2>5. newly - disc \in Nat
    BY <2>3, <2>4
  <2>6. C + newly = v
    BY <2>1, <2>2
  <2> QED
    BY <2>3, <2>4, <2>5, <2>6
<1>6. \A s \in 0 .. M : Prefix(U, s) \in Seq(Chunk) /\ Bytes(Prefix(U, s)) \in Nat
  BY <1>0, <1>1, Parts, BytesTyped
<1>7. (C + newly) + (D - disc) = Credit(U, C + D, r) /\ (r # 0 => Credit(U, C + D, r) <= v)
  <2>1. CASE newly <= D
    <3>1. disc = newly
      BY <1>5, <2>1
    <3>2. Bytes(Prefix(U, r)) = 0
      <4>1. Bytes(Prefix(U, r)) \in Nat
        BY <1>1, <1>6
      <4>2. newly - disc = 0
        BY <1>5, <3>1
      <4> QED
        BY <4>1, <4>2
    <3>3. r = 0
      <4>1. Prefix(U, 0) = <<>> /\ 0 \in 0 .. Len(U) /\ r \in 0 .. Len(U)
        BY <1>1 DEF Prefix
      <4>2. 0 < r => Bytes(Prefix(U, 0)) < Bytes(Prefix(U, r))
        BY <1>0, <4>1, BytesGrow
      <4> QED
        BY <3>2, <4>1, <4>2, BytesEmpty
    <3> QED
      BY <1>5, <3>1, <3>2, <3>3 DEF Credit
  <2>2. CASE ~(newly <= D)
    <3>1. disc = D /\ v > C + D
      BY <1>5, <2>2
    <3>2. PICK s \in 1 .. M : v = (C + D) + Bytes(Prefix(U, s))
      BY <1>1, <1>3, <3>1 DEF Boundary, Credit
    <3>3. Bytes(Prefix(U, s)) = newly - disc
      <4>1. s \in 0 .. M
        OBVIOUS
      <4>2. PICK b \in Nat : b = Bytes(Prefix(U, s))
        BY <1>6, <4>1
      <4>3. C + newly = (C + D) + b /\ newly \in Nat
        BY <1>5, <3>2, <4>2
      <4>4. newly - D = b
        BY <4>3
      <4> QED
        BY <3>1, <4>2, <4>4
    <3>4. s <= r
      BY <1>1, <1>5, <1>6, <3>3
    <3>5. r = s
      <4>1. s \in 0 .. Len(U) /\ r \in s .. Len(U)
        BY <1>1, <3>4
      <4>2. s < r => Bytes(Prefix(U, s)) < Bytes(Prefix(U, r))
        BY <1>0, <4>1, BytesGrow
      <4>3. Bytes(Prefix(U, r)) \in Nat
        BY <1>1, <1>6
      <4> QED
        BY <1>5, <3>3, <4>1, <4>2, <4>3
    <3> QED
      BY <1>5, <3>1, <3>2, <3>5 DEF Credit
  <2> QED
    BY <2>1, <2>2
<1>8. ASSUME NEW i \in 1 .. r PROVE U[i] \in St
  <2>1. i \in 1 .. M /\ i \in 0 .. Len(U) /\ r \in i .. Len(U) /\ r # 0
    BY <1>1
  <2>2. Bytes(Prefix(U, i)) <= Bytes(Prefix(U, r))
    BY <1>0, <2>1, BytesGrow
  <2>3. Credit(U, C + D, i) <= R
    <3>1. r \in 0 .. M /\ i \in 0 .. M
      BY <1>1
    <3>2. PICK a \in Nat, b \in Nat : a = Bytes(Prefix(U, i)) /\ b = Bytes(Prefix(U, r))
      BY <1>6, <3>1
    <3>3. a <= b /\ (C + D) + b <= v
      BY <1>7, <2>1, <2>2, <3>2 DEF Credit
    <3>4. (C + D) + a <= R
      BY <1>0, <1>3, <3>3
    <3> QED
      BY <3>2, <3>4 DEF Credit
  <2> QED
    BY <1>1, <2>1, <2>3, CountedIsStored
<1>9. Receipts(Rest(U, r), Credit(U, C + D, r), C + newly, R, Tail(A))
  <2>1. ASSUME NEW j \in 1 .. N - 1
        PROVE  /\ v <= Tail(A)[j] /\ Tail(A)[j] <= R
               /\ Boundary(Rest(U, r), Credit(U, C + D, r), Tail(A)[j])
    <3>1. j + 1 \in 1 .. N /\ 1 \in 1 .. N /\ 1 < j + 1
      BY <1>2
    <3>2. A[j + 1] \in Nat /\ A[j + 1] <= R /\ Boundary(U, C + D, A[j + 1]) /\ A[1] <= A[j + 1]
      BY <1>2, <3>1, SMTT(20) DEF Receipts
    <3> QED
      BY <1>0, <1>3, <1>4, <3>2, BoundaryDrop
  <2>2. ASSUME NEW i \in 1 .. N - 1, NEW j \in 1 .. N - 1, i < j
        PROVE  Tail(A)[i] <= Tail(A)[j]
    <3>1. i + 1 \in 1 .. N /\ j + 1 \in 1 .. N /\ i + 1 < j + 1
      BY <1>2, <2>2
    <3>2. A[i + 1] <= A[j + 1]
      BY <1>2, <3>1 DEF Receipts
    <3> QED
      BY <1>4, <3>2
  <2> QED
    BY <1>3, <1>4, <1>5, <2>1, <2>2 DEF Receipts
<1> QED
  BY <1>7, <1>8, <1>9

(* What a longer U changes: nothing of the chunks before. *)
LEMMA CreditAppend ==
  ASSUME NEW U \in Seq(Chunk), NEW base \in Nat, NEW i \in Chunk
  PROVE  /\ \A r \in 0 .. Len(U) : Credit(Append(U, i), base, r) = Credit(U, base, r)
         /\ Credit(Append(U, i), base, Len(U) + 1) = (base + Bytes(U)) + Length[i]
         /\ Bytes(Append(U, i)) = Bytes(U) + Length[i]
         /\ \A v \in Nat : Boundary(U, base, v) => Boundary(Append(U, i), base, v)
<1>1. PICK M \in Nat : M = Len(U)
  OBVIOUS
<1> DEFINE V == Append(U, i)
<1>2. /\ Len(V) = M + 1
      /\ \A d \in 0 .. M : Prefix(V, d) = Prefix(U, d)
      /\ Prefix(V, M + 1) = V
      /\ Bytes(V) = Bytes(U) + Length[i]
  BY <1>1, PrefixAppend, BytesAppend
<1>3. Bytes(U) \in Nat /\ Length[i] \in Nat
  BY BytesTyped, LengthFacts
<1> HIDE DEF V
<1>4. \A r \in 0 .. M : Credit(V, base, r) = Credit(U, base, r)
  BY <1>2 DEF Credit
<1>5. ASSUME NEW v \in Nat, Boundary(U, base, v) PROVE Boundary(V, base, v)
  <2>1. CASE v <= base
    BY <2>1 DEF Boundary
  <2>2. CASE \E r \in 1 .. M : v = Credit(U, base, r)
    <3>1. PICK r \in 1 .. M : v = Credit(U, base, r)
      BY <2>2
    <3>2. r \in 0 .. M /\ r \in 1 .. Len(V)
      BY <1>2
    <3> QED
      BY <1>4, <3>1, <3>2 DEF Boundary
  <2> QED
    BY <1>1, <1>5, <2>1, <2>2 DEF Boundary
<1>6. Credit(V, base, M + 1) = (base + Bytes(U)) + Length[i]
  BY <1>2, <1>3 DEF Credit
<1> QED
  BY <1>1, <1>2, <1>4, <1>5, <1>6 DEF V

(* The acks under way are as good for a longer U.                          *)
LEMMA ReceiptsAppend ==
  ASSUME NEW U \in Seq(Chunk), NEW base \in Nat, NEW C, NEW R, NEW A,
         Receipts(U, base, C, R, A), NEW i \in Chunk
  PROVE  Receipts(Append(U, i), base, C, R, A)
<1>1. \A j \in 1 .. Len(A) : A[j] \in Nat /\ Boundary(U, base, A[j])
  BY DEF Receipts
<1>2. \A j \in 1 .. Len(A) : Boundary(Append(U, i), base, A[j])
  BY <1>1, CreditAppend
<1> QED
  BY <1>2 DEF Receipts

(* What a longer wire changes: nothing of the frames before. *)
LEMMA ArrivalAppend ==
  ASSUME NEW W \in Seq(Frames), NEW R \in Nat, NEW f \in Frames
  PROVE  /\ Append(W, f) \in Seq(Frames) /\ Len(Append(W, f)) = Len(W) + 1
         /\ \A p \in 1 .. Len(W) : Append(W, f)[p] = W[p]
         /\ Append(W, f)[Len(W) + 1] = f
         /\ \A p \in 0 .. Len(W) : Arrival(Append(W, f), R, p) = Arrival(W, R, p)
         /\ Arrival(Append(W, f), R, Len(W) + 1) = (R + Payload(W)) + Weight[f]
         /\ R + Payload(Append(W, f)) = (R + Payload(W)) + Weight[f]
<1>1. PICK N \in Nat : N = Len(W)
  OBVIOUS
<1> DEFINE V == Append(W, f)
<1>2. /\ V \in Seq(Frames) /\ Len(V) = N + 1
      /\ \A p \in 1 .. N : V[p] = W[p]
      /\ V[N + 1] = f
      /\ \A d \in 0 .. N : Prefix(V, d) = Prefix(W, d)
      /\ Prefix(V, N + 1) = V
  BY <1>1, PrefixAppend
<1>3. Payload(V) = Payload(W) + Weight[f] /\ Payload(W) \in Nat /\ Weight[f] \in Nat
  BY PayloadAppend, PayloadTyped, WeightFacts
<1> HIDE DEF V
<1>4. R + Payload(V) = (R + Payload(W)) + Weight[f]
  BY <1>3
<1>5. \A p \in 0 .. N : Arrival(V, R, p) = Arrival(W, R, p)
  BY <1>2 DEF Arrival
<1>6. Arrival(V, R, N + 1) = (R + Payload(W)) + Weight[f]
  BY <1>2, <1>4 DEF Arrival
<1> QED
  BY <1>1, <1>2, <1>4, <1>5, <1>6 DEF V

(* The chunk is written onto a connection that stands. *)
LEMMA LedgerWrite ==
  ASSUME NEW U, NEW base, NEW W, NEW R, NEW St, Ledger(U, base, W, R, St, TRUE), NEW i \in Chunk
  PROVE  Ledger(Append(U, i), base, Append(W, ChunkFrame(i)), R, St, TRUE)
<1>0. U \in Seq(Chunk) /\ base \in Nat /\ W \in Seq(Frames) /\ R \in Nat
      /\ ChunkFrame(i) \in Frames /\ Weight[ChunkFrame(i)] = Length[i] /\ Length[i] \in Nat
  BY LengthFacts, FrameFacts, WeightFacts DEF Ledger, Books
<1>1. PICK M \in Nat, N \in Nat : M = Len(U) /\ N = Len(W)
  BY <1>0
<1> DEFINE V == Append(U, i)
           X == Append(W, ChunkFrame(i))
<1>2. /\ V \in Seq(Chunk) /\ Len(V) = M + 1 /\ V[M + 1] = i
      /\ \A r \in 1 .. M : V[r] = U[r]
  BY <1>0, <1>1, PrefixAppend
<1>3. /\ \A r \in 0 .. M : Credit(V, base, r) = Credit(U, base, r)
      /\ Credit(V, base, M + 1) = (base + Bytes(U)) + Length[i]
      /\ Bytes(V) = Bytes(U) + Length[i]
      /\ \A v \in Nat : Boundary(U, base, v) => Boundary(V, base, v)
  BY <1>0, <1>1, CreditAppend
<1>4. /\ X \in Seq(Frames) /\ Len(X) = N + 1 /\ X[N + 1] = ChunkFrame(i)
      /\ \A p \in 1 .. N : X[p] = W[p]
      /\ \A p \in 0 .. N : Arrival(X, R, p) = Arrival(W, R, p)
      /\ Arrival(X, R, N + 1) = (R + Payload(W)) + Length[i]
      /\ R + Payload(X) = (R + Payload(W)) + Length[i]
  BY <1>0, <1>1, ArrivalAppend
<1> HIDE DEF V, X
<1>5. R + Payload(W) = base + Bytes(U)
  BY DEF Ledger
<1>6. Bytes(U) \in Nat /\ Payload(W) \in Nat
  BY <1>0, BytesTyped, PayloadTyped
<1>7. ASSUME NEW r \in 1 .. M + 1 PROVE Placed(V, base, X, R, St, r)
  <2>1. CASE r = M + 1
    <3>1. X[N + 1] = ChunkFrame(V[r]) /\ Credit(V, base, r) = Arrival(X, R, N + 1)
          /\ N + 1 \in 1 .. Len(X)
      BY <1>2, <1>3, <1>4, <1>5, <2>1
    <3> QED
      BY <3>1 DEF Placed, OnWire
  <2>2. CASE r # M + 1
    <3>1. r \in 1 .. M /\ r \in 0 .. M
      BY <2>2
    <3>2. Placed(U, base, W, R, St, r)
      BY <1>1, <3>1 DEF Ledger
    <3>3. ~(Credit(U, base, r) > R + Payload(W))
      <4>1. Credit(U, base, r) \in Nat /\ Credit(U, base, r) <= base + Bytes(U)
        BY <1>0, <1>1, <3>1, CreditTyped
      <4> QED
        BY <1>0, <1>5, <1>6, <4>1
    <3>4. CASE U[r] \in St
      BY <1>2, <3>1, <3>4 DEF Placed
    <3>5. CASE OnWire(U, base, W, R, r)
      <4>1. PICK p \in 1 .. N : W[p] = ChunkFrame(U[r]) /\ Credit(U, base, r) = Arrival(W, R, p)
        BY <1>1, <3>5 DEF OnWire
      <4>2. p \in 1 .. Len(X) /\ p \in 0 .. N
        BY <1>4
      <4>3. X[p] = ChunkFrame(V[r]) /\ Credit(V, base, r) = Arrival(X, R, p)
        BY <1>2, <1>3, <1>4, <3>1, <4>1, <4>2
      <4> QED
        BY <4>2, <4>3 DEF Placed, OnWire
    <3> QED
      BY <3>2, <3>3, <3>4, <3>5 DEF Placed
  <2> QED
    BY <2>1, <2>2
<1>8. ASSUME NEW p \in 0 .. N + 1 PROVE Boundary(V, base, Arrival(X, R, p))
  <2>1. CASE p = N + 1
    <3>1. Arrival(X, R, p) = Credit(V, base, M + 1) /\ M + 1 \in 1 .. Len(V)
      BY <1>2, <1>3, <1>4, <1>5, <2>1
    <3> QED
      BY <3>1 DEF Boundary
  <2>2. CASE p # N + 1
    <3>1. p \in 0 .. N /\ p \in 0 .. Len(W)
      BY <1>1, <2>2
    <3>2. Boundary(U, base, Arrival(W, R, p)) /\ Arrival(W, R, p) \in Nat
      BY <1>0, <3>1, ArrivalTyped DEF Ledger
    <3> QED
      BY <1>3, <1>4, <3>1, <3>2
  <2> QED
    BY <2>1, <2>2
<1>9. R + Payload(X) = base + Bytes(V)
  BY <1>0, <1>3, <1>4, <1>5, <1>6
<1>10. R + Payload(X) \in Nat
  BY <1>0, <1>4, <1>6
<1>11. Ledger(V, base, X, R, St, TRUE)
  BY <1>0, <1>2, <1>4, <1>7, <1>8, <1>9, <1>10 DEF Ledger, Books
<1> QED
  BY <1>11 DEF V, X

(* The chunk is written, and the connection is broken. *)
LEMMA LedgerLost ==
  ASSUME NEW U, NEW base, NEW W, NEW R, NEW St, Ledger(U, base, W, R, St, FALSE), NEW i \in Chunk
  PROVE  Ledger(Append(U, i), base, W, R, St, FALSE)
<1>0. U \in Seq(Chunk) /\ base \in Nat /\ W \in Seq(Frames) /\ R \in Nat
      /\ Length[i] \in Nat /\ Length[i] # 0
  BY LengthFacts DEF Ledger, Books
<1>1. PICK M \in Nat : M = Len(U)
  BY <1>0
<1> DEFINE V == Append(U, i)
<1>2. /\ V \in Seq(Chunk) /\ Len(V) = M + 1
      /\ \A r \in 1 .. M : V[r] = U[r]
  BY <1>0, <1>1, PrefixAppend
<1>3. /\ \A r \in 0 .. M : Credit(V, base, r) = Credit(U, base, r)
      /\ Credit(V, base, M + 1) = (base + Bytes(U)) + Length[i]
      /\ Bytes(V) = Bytes(U) + Length[i]
      /\ \A v \in Nat : Boundary(U, base, v) => Boundary(V, base, v)
  BY <1>0, <1>1, CreditAppend
<1> HIDE DEF V
<1>4. R + Payload(W) <= base + Bytes(U) /\ Bytes(U) \in Nat /\ Payload(W) \in Nat
  BY <1>0, BytesTyped, PayloadTyped DEF Ledger
<1>5. ASSUME NEW r \in 1 .. M + 1 PROVE Placed(V, base, W, R, St, r)
  <2>1. CASE r = M + 1
    <3>1. Credit(V, base, r) > R + Payload(W)
      BY <1>0, <1>3, <1>4, <2>1
    <3> QED
      BY <3>1 DEF Placed
  <2>2. CASE r # M + 1
    <3>1. r \in 1 .. M /\ r \in 0 .. M
      BY <2>2
    <3>2. Placed(U, base, W, R, St, r)
      BY <1>1, <3>1 DEF Ledger
    <3> QED
      BY <1>2, <1>3, <3>1, <3>2 DEF Placed, OnWire
  <2> QED
    BY <2>1, <2>2
<1>6. ASSUME NEW p \in 0 .. Len(W) PROVE Boundary(V, base, Arrival(W, R, p))
  <2>1. Boundary(U, base, Arrival(W, R, p)) /\ Arrival(W, R, p) \in Nat
    BY <1>0, ArrivalTyped DEF Ledger
  <2> QED
    BY <1>3, <2>1
<1>7. R + Payload(W) <= base + Bytes(V)
  BY <1>0, <1>3, <1>4
<1>8. Ledger(V, base, W, R, St, FALSE)
  BY <1>0, <1>2, <1>5, <1>6, <1>7 DEF Ledger, Books
<1> QED
  BY <1>8 DEF V

(* A frame that carries no output is written. *)
LEMMA LedgerFrame ==
  ASSUME NEW U, NEW base, NEW W, NEW R, NEW St, NEW live, Ledger(U, base, W, R, St, live),
         NEW f \in Frames, Weight[f] = 0
  PROVE  Ledger(U, base, Append(W, f), R, St, live)
<1>0. U \in Seq(Chunk) /\ base \in Nat /\ W \in Seq(Frames) /\ R \in Nat /\ Payload(W) \in Nat
  BY PayloadTyped DEF Ledger, Books
<1>1. PICK N \in Nat : N = Len(W)
  BY <1>0
<1> DEFINE X == Append(W, f)
<1>2. /\ X \in Seq(Frames) /\ Len(X) = N + 1
      /\ \A p \in 1 .. N : X[p] = W[p]
      /\ \A p \in 0 .. N : Arrival(X, R, p) = Arrival(W, R, p)
      /\ Arrival(X, R, N + 1) = R + Payload(W)
      /\ R + Payload(X) = R + Payload(W)
  <2>1. (R + Payload(W)) + Weight[f] = R + Payload(W)
    BY <1>0
  <2>2. /\ X \in Seq(Frames) /\ Len(X) = Len(W) + 1
        /\ \A p \in 1 .. Len(W) : X[p] = W[p]
        /\ \A p \in 0 .. Len(W) : Arrival(X, R, p) = Arrival(W, R, p)
        /\ Arrival(X, R, Len(W) + 1) = R + Payload(W)
        /\ R + Payload(X) = (R + Payload(W)) + Weight[f]
    BY <1>0, ArrivalAppend
  <2> QED
    BY <1>1, <2>1, <2>2
<1> HIDE DEF X
<1>3. ASSUME NEW r \in 1 .. Len(U) PROVE Placed(U, base, X, R, St, r)
  <2>1. Placed(U, base, W, R, St, r)
    BY DEF Ledger
  <2>2. CASE U[r] \in St \/ Credit(U, base, r) > R + Payload(W)
    BY <1>2, <2>2 DEF Placed
  <2>3. CASE OnWire(U, base, W, R, r)
    <3>1. PICK p \in 1 .. N : W[p] = ChunkFrame(U[r]) /\ Credit(U, base, r) = Arrival(W, R, p)
      BY <1>1, <2>3 DEF OnWire
    <3>2. p \in 1 .. Len(X) /\ p \in 0 .. N
      BY <1>2
    <3>3. X[p] = ChunkFrame(U[r]) /\ Credit(U, base, r) = Arrival(X, R, p)
      BY <1>2, <3>1, <3>2
    <3> QED
      BY <3>2, <3>3 DEF Placed, OnWire
  <2> QED
    BY <2>1, <2>2, <2>3 DEF Placed
<1>4. ASSUME NEW p \in 0 .. N + 1 PROVE Boundary(U, base, Arrival(X, R, p))
  <2>1. \A q \in 0 .. N : Boundary(U, base, Arrival(W, R, q))
    BY <1>1 DEF Ledger
  <2>2. CASE p = N + 1
    <3>1. Arrival(X, R, p) = Arrival(W, R, N) /\ N \in 0 .. N
      BY <1>0, <1>1, <1>2, <2>2, ArrivalTyped
    <3> QED
      BY <2>1, <3>1
  <2>3. CASE p # N + 1
    <3>1. p \in 0 .. N
      BY <2>3
    <3> QED
      BY <1>2, <2>1, <3>1
  <2> QED
    BY <2>2, <2>3
<1>5. Ledger(U, base, X, R, St, live)
  BY <1>0, <1>2, <1>3, <1>4 DEF Ledger, Books
<1> QED
  BY <1>5 DEF X

(* The connection is no longer counted on. *)
LEMMA LedgerDown ==
  ASSUME NEW U, NEW base, NEW W, NEW R, NEW St, NEW live, Ledger(U, base, W, R, St, live)
  PROVE  Ledger(U, base, W, R, St, FALSE)
  BY DEF Ledger

(* What a break leaves of the wire: the frames up to some point. *)
LEMMA LedgerCut ==
  ASSUME NEW U, NEW base, NEW W, NEW R, NEW St, NEW live, Ledger(U, base, W, R, St, live),
         NEW n \in 0 .. Len(W)
  PROVE  Ledger(U, base, Prefix(W, n), R, St, FALSE)
<1>0. U \in Seq(Chunk) /\ base \in Nat /\ W \in Seq(Frames) /\ R \in Nat
  BY DEF Ledger, Books
<1>1. PICK N \in Nat : N = Len(W)
  BY <1>0
<1> DEFINE X == Prefix(W, n)
<1>2. X \in Seq(Frames) /\ Len(X) = n /\ \A p \in 1 .. n : X[p] = W[p]
  BY <1>0, Parts
<1>3. ASSUME NEW p \in 0 .. n PROVE Arrival(X, R, p) = Arrival(W, R, p) /\ p \in 0 .. N
  BY <1>0, <1>1, PrefixPrefix DEF Arrival
<1>4. R + Payload(X) = Arrival(W, R, n)
  BY DEF Arrival
<1> HIDE DEF X
<1>5. /\ Arrival(W, R, n) \in Nat /\ Arrival(W, R, n) <= R + Payload(W)
      /\ Payload(W) \in Nat /\ Payload(X) \in Nat /\ Bytes(U) \in Nat
  BY <1>0, <1>2, ArrivalTyped, PayloadTyped, BytesTyped
<1>6. ASSUME NEW r \in 1 .. Len(U) PROVE Placed(U, base, X, R, St, r)
  <2>0. Credit(U, base, r) \in Nat
    <3>1. r \in 0 .. Len(U)
      BY <1>0
    <3> QED
      BY <1>0, <3>1, CreditTyped
  <2>1. Placed(U, base, W, R, St, r)
    BY DEF Ledger
  <2>2. CASE U[r] \in St
    BY <2>2 DEF Placed
  <2>3. CASE Credit(U, base, r) > R + Payload(W)
    <3>1. Credit(U, base, r) > R + Payload(X)
      BY <1>0, <1>4, <1>5, <2>0, <2>3
    <3> QED
      BY <3>1 DEF Placed
  <2>4. CASE OnWire(U, base, W, R, r)
    <3>1. PICK p \in 1 .. N : W[p] = ChunkFrame(U[r]) /\ Credit(U, base, r) = Arrival(W, R, p)
      BY <1>1, <2>4 DEF OnWire
    <3>2. CASE p <= n
      <4>1. p \in 1 .. Len(X) /\ p \in 0 .. n /\ p \in 1 .. n
        BY <1>2, <3>2
      <4>2. X[p] = ChunkFrame(U[r]) /\ Credit(U, base, r) = Arrival(X, R, p)
        BY <1>2, <1>3, <3>1, <4>1
      <4> QED
        BY <4>1, <4>2 DEF Placed, OnWire
    <3>3. CASE ~(p <= n)
      <4>1. p \in n + 1 .. Len(W) /\ W[p].kind = "chunk"
        <5>1. U[r] \in Chunk
          BY <1>0
        <5> QED
          BY <1>1, <3>1, <3>3, <5>1, FrameFacts
      <4>2. Arrival(W, R, p) > Arrival(W, R, n)
        BY <1>0, <4>1, ArrivalBeyond
      <4>3. Credit(U, base, r) > R + Payload(X)
        BY <1>4, <3>1, <4>2
      <4> QED
        BY <4>3 DEF Placed
    <3> QED
      BY <3>2, <3>3
  <2> QED
    BY <2>1, <2>2, <2>3, <2>4 DEF Placed
<1>7. ASSUME NEW p \in 0 .. n PROVE Boundary(U, base, Arrival(X, R, p))
  BY <1>1, <1>3 DEF Ledger
<1>8. R + Payload(X) <= base + Bytes(U)
  <2>1. R + Payload(W) <= base + Bytes(U)
    BY DEF Ledger
  <2> QED
    BY <1>0, <1>4, <1>5, <2>1
<1>9. Ledger(U, base, X, R, St, FALSE)
  BY <1>0, <1>2, <1>6, <1>7, <1>8 DEF Ledger, Books
<1> QED
  BY <1>9 DEF X

(* The oldest frame is read, counted and stored. *)
LEMMA LedgerRead ==
  ASSUME NEW U, NEW base, NEW W, NEW R, NEW St, NEW live, Ledger(U, base, W, R, St, live),
         W # <<>>, NEW St2, St \subseteq St2,
         Head(W).kind = "chunk" => Head(W).n \in St2
  PROVE  /\ Ledger(U, base, Tail(W), R + Weight[Head(W)], St2, live)
         /\ Boundary(U, base, R + Weight[Head(W)])
         /\ R + Weight[Head(W)] \in Nat /\ R <= R + Weight[Head(W)]
<1>0. U \in Seq(Chunk) /\ base \in Nat /\ W \in Seq(Frames) /\ R \in Nat
  BY DEF Ledger, Books
<1>1. PICK N \in Nat : N = Len(W) /\ N # 0
  BY <1>0
<1> DEFINE X == Tail(W)
           f == Head(W)
           T == R + Weight[f]
<1>2. /\ f \in Frames /\ f = W[1]
      /\ X \in Seq(Frames) /\ Len(X) = N - 1
      /\ \A p \in 1 .. N - 1 : X[p] = W[p + 1]
      /\ Payload(W) = Weight[f] + Payload(X)
      /\ \A p \in 0 .. N - 1 : Payload(Prefix(W, p + 1)) = Weight[f] + Payload(Prefix(X, p))
  BY <1>0, <1>1, PayloadTail
<1> HIDE DEF X, f
<1>3. T \in Nat /\ R <= T /\ Weight[f] \in Nat
  BY <1>0, <1>2, WeightFacts
<1>4. T + Payload(X) = R + Payload(W)
  <2>1. Payload(X) \in Nat
    BY <1>2, PayloadTyped
  <2> QED
    BY <1>0, <1>2, <1>3, <2>1
<1>5. ASSUME NEW p \in 0 .. N - 1
      PROVE  Arrival(X, T, p) = Arrival(W, R, p + 1) /\ p + 1 \in 0 .. Len(W) /\ Arrival(X, T, p) \in Nat
  <2>1. p \in 0 .. Len(X) /\ p + 1 \in 0 .. Len(W)
    BY <1>1, <1>2
  <2>2. Prefix(X, p) \in Seq(Frames)
    BY <1>2, <2>1, Parts
  <2>3. PICK a \in Nat : a = Payload(Prefix(X, p))
    BY <2>2, PayloadTyped
  <2>4. T + a = R + (Weight[f] + a) /\ T + a \in Nat
    BY <1>0, <1>3
  <2> QED
    BY <1>2, <2>1, <2>3, <2>4 DEF Arrival
<1> HIDE DEF T
<1>6. ASSUME NEW r \in 1 .. Len(U) PROVE Placed(U, base, X, T, St2, r)
  <2>0. U[r] \in Chunk
    BY <1>0
  <2>1. Placed(U, base, W, R, St, r)
    BY DEF Ledger
  <2>2. CASE U[r] \in St
    BY <2>2 DEF Placed
  <2>3. CASE Credit(U, base, r) > R + Payload(W)
    BY <1>4, <2>3 DEF Placed
  <2>4. CASE OnWire(U, base, W, R, r)
    <3>1. PICK p \in 1 .. N : W[p] = ChunkFrame(U[r]) /\ Credit(U, base, r) = Arrival(W, R, p)
      BY <1>1, <2>4 DEF OnWire
    <3>2. CASE p = 1
      <4>1. f.kind = "chunk" /\ f.n = U[r]
        BY <1>2, <2>0, <3>1, <3>2, FrameFacts
      <4> QED
        BY <4>1 DEF Placed, f
    <3>3. CASE p # 1
      <4>1. PICK q \in 1 .. N - 1 : p = q + 1 /\ q \in 0 .. N - 1 /\ q \in 1 .. Len(X)
        <5>1. p - 1 \in 1 .. N - 1 /\ p = (p - 1) + 1 /\ p - 1 \in 0 .. N - 1
          BY <3>3
        <5> QED
          BY <1>2, <5>1
      <4>2. X[q] = ChunkFrame(U[r]) /\ Credit(U, base, r) = Arrival(X, T, q)
        BY <1>2, <1>5, <3>1, <4>1
      <4> QED
        BY <4>1, <4>2 DEF Placed, OnWire
    <3> QED
      BY <3>2, <3>3
  <2> QED
    BY <2>1, <2>2, <2>3, <2>4 DEF Placed
<1>7. ASSUME NEW p \in 0 .. N - 1 PROVE Boundary(U, base, Arrival(X, T, p))
  BY <1>5 DEF Ledger
<1>8. Ledger(U, base, X, T, St2, live)
  BY <1>0, <1>2, <1>3, <1>4, <1>6, <1>7 DEF Ledger, Books
<1>9. Boundary(U, base, T)
  <2>1. 0 \in 0 .. N - 1 /\ 0 \in 0 .. Len(X)
    BY <1>1, <1>2
  <2>2. Arrival(X, T, 0) = T
    BY <1>2, <1>3, <2>1, ArrivalTyped
  <2> QED
    BY <1>7, <2>1, <2>2
<1> QED
  BY <1>3, <1>8, <1>9 DEF X, T, f

(* More is stored. *)
LEMMA LedgerStored ==
  ASSUME NEW U, NEW base, NEW W, NEW R, NEW St, NEW live, Ledger(U, base, W, R, St, live),
         NEW St2, St \subseteq St2
  PROVE  Ledger(U, base, W, R, St2, live)
<1>1. \A r \in 1 .. Len(U) : Placed(U, base, W, R, St2, r)
  BY DEF Ledger, Placed
<1> QED
  BY <1>1 DEF Ledger

(* The books of a new connection are empty. *)
LEMMA BooksOpen ==
  ASSUME NEW St
  PROVE  Ledger(<<>>, 0, <<>>, 0, St, TRUE) /\ Receipts(<<>>, 0, 0, 0, <<>>)
<1>1. Books(<<>>, 0, <<>>, 0)
  BY DEF Books
<1>2. <<>> \in Seq(Frames) /\ Len(<<>>) = 0 /\ <<>> \in Seq(Nat)
  OBVIOUS
<1>3. Arrival(<<>>, 0, 0) = 0
  <2>1. 0 \in 0 .. Len(<<>>) /\ 0 \in Nat
    BY <1>2
  <2> QED
    BY <1>2, <2>1, ArrivalTyped
<1>4. \A p \in 0 .. 0 : Boundary(<<>>, 0, Arrival(<<>>, 0, p))
  BY <1>3 DEF Boundary
<1>5. 0 + Payload(<<>>) = 0 + Bytes(<<>>)
  BY PayloadEmpty, BytesEmpty
<1>6. 0 + Payload(<<>>) <= 0 + Bytes(<<>>)
  BY PayloadEmpty, BytesEmpty
<1> QED
  BY <1>1, <1>2, <1>4, <1>5, <1>6 DEF Ledger, Receipts

(* The loop acknowledges what it counted. *)
LEMMA ReceiptsRead ==
  ASSUME NEW U, NEW base, NEW C, NEW R \in Nat, NEW A, Receipts(U, base, C, R, A),
         NEW T \in Nat, R <= T, Boundary(U, base, T)
  PROVE  Receipts(U, base, C, T, A) /\ Receipts(U, base, C, T, Append(A, T))
<1>1. PICK N \in Nat : N = Len(A)
  BY DEF Receipts
<1>2. /\ A \in Seq(Nat) /\ C \in Nat /\ C <= R
      /\ \A j \in 1 .. N : A[j] \in Nat /\ C <= A[j] /\ A[j] <= R /\ Boundary(U, base, A[j])
      /\ \A i, j \in 1 .. N : i < j => A[i] <= A[j]
  BY <1>1 DEF Receipts
<1>3. C <= T /\ \A j \in 1 .. N : A[j] <= T
  BY <1>2
<1>4. /\ Append(A, T) \in Seq(Nat) /\ Len(Append(A, T)) = N + 1
      /\ \A j \in 1 .. N : Append(A, T)[j] = A[j]
      /\ Append(A, T)[N + 1] = T
  BY <1>1, <1>2, AppendProperties
<1> DEFINE B == Append(A, T)
<1> HIDE DEF B
<1>5. ASSUME NEW j \in 1 .. N + 1 PROVE C <= B[j] /\ B[j] <= T /\ Boundary(U, base, B[j])
  <2>1. CASE j = N + 1
    BY <1>3, <1>4, <2>1 DEF B
  <2>2. CASE j # N + 1
    <3>1. j \in 1 .. N
      BY <2>2
    <3> QED
      BY <1>2, <1>3, <1>4, <3>1 DEF B
  <2> QED
    BY <2>1, <2>2
<1>6. ASSUME NEW i \in 1 .. N + 1, NEW j \in 1 .. N + 1, i < j PROVE B[i] <= B[j]
  <2>1. i \in 1 .. N
    BY <1>6
  <2>2. CASE j = N + 1
    BY <1>3, <1>4, <2>1, <2>2 DEF B
  <2>3. CASE j # N + 1
    <3>1. j \in 1 .. N
      BY <2>3
    <3> QED
      BY <1>2, <1>4, <1>6, <2>1, <3>1 DEF B
  <2> QED
    BY <2>2, <2>3
<1>7. Receipts(U, base, C, T, B)
  BY <1>2, <1>3, <1>4, <1>5, <1>6 DEF Receipts, B
<1>8. Receipts(U, base, C, T, A)
  BY <1>1, <1>2, <1>3 DEF Receipts
<1> QED
  BY <1>7, <1>8 DEF B

(* What a break leaves of the acks: those up to some point. *)
LEMMA ReceiptsCut ==
  ASSUME NEW U, NEW base, NEW C, NEW R, NEW A, Receipts(U, base, C, R, A), NEW m \in 0 .. Len(A)
  PROVE  Receipts(U, base, C, R, Prefix(A, m))
<1>1. PICK N \in Nat : N = Len(A)
  BY DEF Receipts
<1>2. Prefix(A, m) \in Seq(Nat) /\ Len(Prefix(A, m)) = m /\ \A j \in 1 .. m : Prefix(A, m)[j] = A[j]
  <2>1. A \in Seq(Nat)
    BY DEF Receipts
  <2> QED
    BY <2>1, Parts
<1>3. \A j \in 1 .. m : j \in 1 .. N
  BY <1>1
<1> QED
  BY <1>1, <1>2, <1>3 DEF Receipts

(* What the client reads is what CreditMatchesWire promises. *)
LEMMA BooksAgree ==
  ASSUME NEW U, NEW base, NEW C, NEW W, NEW R, NEW A, NEW St,
         Ledger(U, base, W, R, St, TRUE), Receipts(U, base, C, R, A)
  PROVE  /\ base + Bytes(U) = R + Payload(W)
         /\ \A j \in DOMAIN A : C <= A[j] /\ A[j] <= R
  BY DEF Ledger, Receipts

-----------------------------------------------------------------------------
(* The inductive invariant.                                                *)

ControlTyped ==
  /\ size \in 1 .. Sizes /\ sentSize \in 0 .. Sizes
  /\ cur \in Conns \cup {0} /\ backoff \in BOOLEAN
  /\ pc \in {"handshake", "reset", "idle", "drain", "size", "chunks", "ping", "closing", "exit"}
  /\ call \in {"connect", "send", "tick", "shutdown"}
  /\ failures \in 0 .. Failures

NetTyped ==
  /\ wire \in [Conns -> Seq(Frames)] /\ acks \in [Conns -> Seq(Nat)]
  /\ up \subseteq Conns
  /\ loop \in [Conns -> {"none", "upgrading", "open", "closed"}]
  /\ received \in [Conns -> Nat]
  /\ history \subseteq Chunk /\ roomSize \in 0 .. Sizes
  /\ stored \subseteq Chunk

(* Without a socket nothing awaits an ack; the client writes on one only.  *)
Socket ==
  /\ cur = 0 /\ pc # "exit" => unacked = <<>>
  /\ pc \in {"reset", "size", "chunks"} => cur # 0
  /\ pc = "handshake" => cur = 0

(* Every connection the client left, and every broken one, cost a failure. *)
Attempts ==
  /\ cur <= failures + 1
  /\ cur # 0 /\ cur \notin up => cur <= failures

(* Nothing has happened on the connections still to be opened.             *)
Pristine(k) ==
  loop[k] = "none" /\ wire[k] = <<>> /\ acks[k] = <<>> /\ received[k] = 0 /\ k \notin up
Unused == pc # "exit" => \A k \in Conns : k > failures /\ k # cur => Pristine(k)

(* The books of the current connection.                                    *)
Base == connAcked + droppedUnacked
Marks ==
  cur # 0 =>
    /\ Ledger(unacked, Base, wire[cur], received[cur], stored, cur \in up)
    /\ Receipts(unacked, Base, connAcked, received[cur], acks[cur])

(* A chunk on a wire comes after every older one, unless that was stored   *)
(* or dropped.                                                             *)
InOrder(w, n, gone) ==
  \A p \in 1 .. Len(w) : w[p].kind = "chunk" =>
    /\ w[p].n \in 1 .. n
    /\ \A j \in 1 .. (w[p].n - 1) : j \in gone \/ \E q \in 1 .. (p - 1) : w[q] = ChunkFrame(j)
Ordered == \A k \in Conns : InOrder(wire[k], made, stored \cup dropped)

Covered ==
  /\ stored \subseteq 1 .. made /\ dropped \subseteq 1 .. made
  /\ 1 .. Low \subseteq stored \cup dropped

IInv ==
  /\ BufferTyped /\ Queued /\ ControlTyped /\ NetTyped
  /\ Socket /\ Attempts /\ Unused /\ Marks /\ Ordered /\ Covered

(* Connections are numbered from 1, one more than there may be failures.   *)
LEMMA ConnsTyped ==
  /\ \A k \in Conns : k \in Nat /\ k # 0 /\ k <= Failures + 1
  /\ \A n \in 0 .. Failures : n + 1 \in Conns
  BY BoundsTyped DEF Conns

(* Inside a case for one action: what every part of the invariant sees     *)
(* when the buffer is left alone.                                          *)
LEMMA BufferSame ==
  ASSUME BufferTyped, Queued, UNCHANGED bufferVars
  PROVE  BufferTyped' /\ Queued' /\ Held' = Held /\ Low' = Low
  BY DEF BufferTyped, Queued, Run, Low, Held, bufferVars

(* Where a flush returns to.                                               *)
LEMMA AfterFlushTyped == AfterFlush \in {"ping", "closing", "idle"}
  BY DEF AfterFlush

(* The variables of the client's control keep their types.                 *)
LEMMA ControlStep == ControlTyped /\ Socket /\ Next => ControlTyped'
<1> SUFFICES ASSUME ControlTyped, Socket, Next PROVE ControlTyped'
  OBVIOUS
<1> USE DEF ControlTyped, Socket
<1>1. CASE Send \/ Tick \/ Shutdown
  BY <1>1 DEF Send, Tick, Resizes, Shutdown
<1>2. CASE DrainAck \/ DrainBlocks \/ DrainDies \/ NoSocket
  BY <1>2, AfterFlushTyped DEF DrainAck, DrainBlocks, DrainDies, NoSocket, Disconnect
<1>3. CASE HandshakeSucceeds
  <2>1. cur' \in Conns /\ sentSize' \in 0 .. Sizes /\ pc' \in {"reset", "size"}
    BY <1>3, ConnsTyped, BoundsTyped DEF HandshakeSucceeds, Fresh, NoSize
  <2>2. UNCHANGED <<size, backoff, call, failures>>
    BY <1>3 DEF HandshakeSucceeds
  <2> QED
    BY <2>1, <2>2
<1>10. CASE HandshakeRefused
  BY <1>10 DEF HandshakeRefused
<1>8. ASSUME Fail PROVE failures' \in 0 .. Failures
  BY <1>8, BoundsTyped DEF Fail
<1>9. CASE HandshakeFails
  BY <1>8, <1>9, AfterFlushTyped DEF HandshakeFails
<1>4. CASE WriteReset \/ WriteSize \/ WriteChunk \/ FlushDone
  BY <1>4, AfterFlushTyped DEF WriteReset, WriteSize, WriteChunk, FlushDone
<1>5. CASE Ping \/ WriteFails \/ Close
  BY <1>5, <1>8, AfterFlushTyped DEF Ping, WriteFails, Close, Disconnect
<1>6. CASE BackoffEnds
  BY <1>6 DEF BackoffEnds
<1>7. ASSUME NEW k \in Conns, LoopStep(k) \/ Break(k) \/ LoopQuits(k) PROVE ControlTyped'
  BY <1>7, <1>8 DEF LoopStep, Attach, ReadChunk, ReadSize, ReadReset, ReadClose, LoopEnds,
       Reads, Break, LoopQuits, clientVars
<1> QED
  BY <1>1, <1>2, <1>3, <1>4, <1>5, <1>6, <1>7, <1>9, <1>10 DEF Next, ClientStep

(* The buffer's invariant is preserved: only send, the acks, a disconnect  *)
(* and a write change the two queues.                                      *)
LEMMA BufferNext == BufferTyped /\ Queued /\ ControlTyped /\ NetTyped /\ Next => BufferTyped' /\ Queued'
<1> SUFFICES ASSUME BufferTyped, Queued, ControlTyped, NetTyped, Next PROVE BufferTyped' /\ Queued'
  OBVIOUS
<1>1. CASE Send
  BY <1>1, BufferStep DEF Send
<1>2. CASE DrainAck
  <2>1. cur \in Conns
    BY <1>2 DEF DrainAck, ControlTyped
  <2>2. Head(acks[cur]) \in Nat
    BY <1>2, <2>1 DEF DrainAck, NetTyped
  <2> QED
    BY <1>2, <2>2, AckStep DEF DrainAck
<1>3. CASE DrainDies \/ WriteFails
  BY <1>3, DisconnectStep DEF DrainDies, WriteFails
<1>4. CASE WriteChunk
  BY <1>4, WriteStep DEF WriteChunk
<1>5. CASE HandshakeSucceeds
  <2>1. connAcked' \in Nat /\ droppedUnacked' \in Nat
    BY <1>5 DEF HandshakeSucceeds
  <2>2. UNCHANGED <<made, pending, unacked, bufferedBytes, dropped>>
    BY <1>5 DEF HandshakeSucceeds
  <2> QED
    BY <2>1, <2>2 DEF BufferTyped, Queued, Run, Low
<1>6. CASE UNCHANGED bufferVars
  BY <1>6, BufferSame
<1> QED
  <2>1. ASSUME NEW k \in Conns, LoopStep(k) \/ Break(k) \/ LoopQuits(k) PROVE UNCHANGED bufferVars
    BY <2>1 DEF LoopStep, Attach, ReadChunk, ReadSize, ReadReset, ReadClose, LoopEnds,
       Reads, Break, LoopQuits, clientVars
  <2>2. CASE Tick \/ Shutdown \/ DrainBlocks \/ NoSocket \/ HandshakeFails \/ HandshakeRefused
             \/ WriteReset \/ WriteSize \/ FlushDone \/ Ping \/ Close \/ BackoffEnds
    BY <1>6, <2>2 DEF Tick, Shutdown, DrainBlocks, NoSocket, HandshakeFails, HandshakeRefused,
       WriteReset, WriteSize, FlushDone, Ping, Close, BackoffEnds
  <2> QED
    BY <1>1, <1>2, <1>3, <1>4, <1>5, <1>6, <2>1, <2>2 DEF Next, ClientStep

(* What a step on a frame of connection k finds and leaves. *)
LEMMA ReadsFacts ==
  ASSUME NetTyped, NEW k \in Conns, NEW kind, Reads(k, kind)
  PROVE  /\ wire[k] \in Seq(Frames) /\ wire[k] # <<>> /\ Head(wire[k]) \in Frames
         /\ Head(wire[k]).kind = kind /\ loop[k] = "open"
         /\ wire'[k] = Tail(wire[k]) /\ \A j \in Conns : j # k => wire'[j] = wire[j]
         /\ wire' \in [Conns -> Seq(Frames)]
<1>1. wire[k] \in Seq(Frames) /\ wire[k] # <<>> /\ wire' = [wire EXCEPT ![k] = Tail(wire[k])]
      /\ Head(wire[k]).kind = kind /\ loop[k] = "open"
  BY DEF NetTyped, Reads
<1>2. Head(wire[k]) \in Frames /\ Tail(wire[k]) \in Seq(Frames)
  BY <1>1, PayloadTail
<1> QED
  BY <1>1, <1>2 DEF NetTyped

(* What an ack sent on connection k changes.                               *)
LEMMA AcksFacts ==
  ASSUME NetTyped, NEW k \in Conns, NEW total \in Nat, Acks(k, total)
  PROVE  /\ acks' \in [Conns -> Seq(Nat)]
         /\ acks'[k] = IF k \in up THEN Append(acks[k], total) ELSE acks[k]
         /\ \A j \in Conns : j # k => acks'[j] = acks[j]
<1>1. acks \in [Conns -> Seq(Nat)] /\ Append(acks[k], total) \in Seq(Nat)
  BY DEF NetTyped
<1> QED
  BY <1>1 DEF Acks

(* What a frame written on the current connection changes.                 *)
LEMMA WrittenFacts ==
  ASSUME NetTyped, NEW f \in Frames, Written(f), cur \in Conns
  PROVE  /\ wire' \in [Conns -> Seq(Frames)]
         /\ wire'[cur] = IF cur \in up THEN Append(wire[cur], f) ELSE wire[cur]
         /\ \A j \in Conns : j # cur => wire'[j] = wire[j]
<1>1. wire \in [Conns -> Seq(Frames)] /\ Append(wire[cur], f) \in Seq(Frames)
  BY DEF NetTyped
<1> QED
  BY <1>1 DEF Written

(* The variables of the network, the loops and the room keep their types.  *)
LEMMA NetStep == BufferTyped /\ Queued /\ ControlTyped /\ Socket /\ NetTyped /\ Next => NetTyped'
<1> SUFFICES ASSUME BufferTyped, Queued, ControlTyped, Socket, NetTyped, Next PROVE NetTyped'
  OBVIOUS
<1>1. CASE UNCHANGED <<netVars, serverVars>>
  BY <1>1 DEF NetTyped, netVars, serverVars
<1>2. CASE DrainAck
  <2>1. acks' = [acks EXCEPT ![cur] = Tail(acks[cur])] /\ cur \in Conns /\ acks[cur] # <<>>
        /\ UNCHANGED <<wire, up, serverVars>>
    BY <1>2 DEF DrainAck, ControlTyped
  <2>2. Tail(acks[cur]) \in Seq(Nat)
    BY <2>1 DEF NetTyped
  <2> QED
    BY <2>1, <2>2 DEF NetTyped, serverVars
<1>3. CASE HandshakeSucceeds
  BY <1>3, ConnsTyped DEF HandshakeSucceeds, ControlTyped, Fresh, NetTyped
<1>4. CASE HandshakeFails
  BY <1>4 DEF HandshakeFails, NetTyped, netVars
<1>5. ASSUME cur \in Conns, UNCHANGED <<acks, up, serverVars>>, NEW f \in Frames, Written(f)
      PROVE  NetTyped'
  BY <1>5, WrittenFacts DEF NetTyped, serverVars
<1>6. CASE WriteReset \/ WriteSize
  BY <1>5, <1>6, FrameFacts DEF WriteReset, WriteSize, ControlTyped, Socket
<1>7. CASE WriteChunk
  <2>1. Head(pending) \in Chunk
    BY <1>7, WriteStep DEF WriteChunk
  <2> QED
    BY <1>5, <1>7, <2>1, FrameFacts DEF WriteChunk, ControlTyped, Socket
<1>8. CASE Close
  <2>1. CASE cur = 0
    BY <1>1, <1>8, <2>1 DEF Close, netVars
  <2>2. CASE cur # 0
    BY <1>5, <1>8, <2>2, FrameFacts DEF Close, ControlTyped
  <2> QED
    BY <2>1, <2>2
<1>9. ASSUME NEW k \in Conns, Break(k) PROVE NetTyped'
  <2>1. PICK n \in 0 .. Len(wire[k]), m \in 0 .. Len(acks[k]) :
          /\ wire' = [wire EXCEPT ![k] = Prefix(wire[k], n)]
          /\ acks' = [acks EXCEPT ![k] = Prefix(acks[k], m)]
    BY <1>9 DEF Break
  <2>2. wire[k] \in Seq(Frames) /\ acks[k] \in Seq(Nat)
    BY DEF NetTyped
  <2>3. Prefix(wire[k], n) \in Seq(Frames) /\ Prefix(acks[k], m) \in Seq(Nat)
    BY <2>2, Parts
  <2> QED
    BY <1>9, <2>1, <2>3 DEF Break, NetTyped, serverVars
<1>10. ASSUME NEW k \in Conns, LoopQuits(k) \/ LoopEnds(k) \/ Attach(k) PROVE NetTyped'
  <2>1. <<>> \in Seq(Frames)
    OBVIOUS
  <2> QED
    BY <1>10, <2>1 DEF LoopQuits, LoopEnds, Attach, NetTyped, netVars
<1>11. ASSUME NEW k \in Conns, ReadChunk(k) PROVE NetTyped'
  <2>1. Reads(k, "chunk") /\ UNCHANGED <<up, loop, roomSize>>
    BY <1>11 DEF ReadChunk, Reads
  <2>2. Head(wire[k]) \in Frames /\ Head(wire[k]).kind = "chunk" /\ wire' \in [Conns -> Seq(Frames)]
    BY <2>1, ReadsFacts
  <2>3. PICK i \in Chunk : i = Head(wire[k]).n /\ Length[i] \in Nat
    BY <2>2, FrameFacts, LengthFacts
  <2>4. /\ history' = history \cup {i} /\ stored' = stored \cup {i}
        /\ received' = [received EXCEPT ![k] = received[k] + Length[i]]
        /\ Acks(k, received[k] + Length[i])
    BY <1>11, <2>3 DEF ReadChunk
  <2>5. received[k] + Length[i] \in Nat
    BY <2>3 DEF NetTyped
  <2>6. acks' \in [Conns -> Seq(Nat)]
    BY <2>4, <2>5, AcksFacts
  <2> QED
    BY <2>1, <2>2, <2>4, <2>5, <2>6 DEF NetTyped
<1>12. ASSUME NEW k \in Conns, ReadSize(k) PROVE NetTyped'
  <2>1. Reads(k, "size") /\ UNCHANGED <<up, loop, received, history, stored>>
        /\ roomSize' = Head(wire[k]).n /\ Acks(k, received[k]) /\ received[k] \in Nat
    BY <1>12 DEF ReadSize, Reads, NetTyped
  <2>2. Head(wire[k]) \in Frames /\ Head(wire[k]).kind = "size" /\ wire' \in [Conns -> Seq(Frames)]
    BY <2>1, ReadsFacts
  <2>3. roomSize' \in 0 .. Sizes
    BY <2>1, <2>2, FrameFacts
  <2>4. acks' \in [Conns -> Seq(Nat)]
    BY <2>1, AcksFacts
  <2> QED
    BY <2>1, <2>2, <2>3, <2>4 DEF NetTyped
<1>13. ASSUME NEW k \in Conns, ReadReset(k) \/ ReadClose(k) PROVE NetTyped'
  <2>1. PICK kind \in {"reset", "close"} : Reads(k, kind)
    BY <1>13 DEF ReadReset, ReadClose
  <2>2. wire' \in [Conns -> Seq(Frames)]
    BY <2>1, ReadsFacts
  <2>3. UNCHANGED <<up, acks, received, roomSize, stored>>
        /\ loop' \in [Conns -> {"none", "upgrading", "open", "closed"}]
        /\ history' \subseteq Chunk
    BY <1>13, <2>1 DEF ReadReset, ReadClose, Reads, NetTyped
  <2> QED
    BY <2>2, <2>3 DEF NetTyped
<1>14. CASE Send \/ Tick \/ Shutdown \/ DrainBlocks \/ DrainDies \/ NoSocket
            \/ HandshakeRefused \/ FlushDone \/ Ping \/ WriteFails \/ BackoffEnds
  BY <1>1, <1>14 DEF Send, Tick, Resizes, Shutdown, DrainBlocks, DrainDies, NoSocket, HandshakeRefused,
     FlushDone, Ping, WriteFails, BackoffEnds
<1> QED
  BY <1>2, <1>3, <1>4, <1>6, <1>7, <1>8, <1>9, <1>10, <1>11, <1>12, <1>13, <1>14
     DEF Next, ClientStep, LoopStep

(* The steps that are not the client's leave its variables alone. *)
LEMMA ServerSteps ==
  ASSUME NEW k \in Conns, LoopStep(k) \/ Break(k) \/ LoopQuits(k)
  PROVE  UNCHANGED clientVars
  BY DEF LoopStep, Attach, ReadChunk, ReadSize, ReadReset, ReadClose, LoopEnds, Reads, Break, LoopQuits

(* Without a socket nothing awaits an ack, whatever the client does.       *)
LEMMA SocketStep ==
  BufferTyped /\ Queued /\ ControlTyped /\ NetTyped /\ Socket /\ Next => Socket'
<1> SUFFICES ASSUME BufferTyped, Queued, ControlTyped, NetTyped, Socket, Next PROVE Socket'
  OBVIOUS
<1>1. CASE Send
  <2>1. PICK n \in {1, 2} : made + n <= Chunks /\ Buffer(n)
    BY <1>1 DEF Send
  <2>2. PICK e \in 0 .. Len(unacked) : unacked' = Rest(unacked, e)
    BY <2>1, BufferStep
  <2>3. CASE unacked = <<>>
    <3>1. unacked' = <<>>
      BY <2>2, <2>3 DEF Rest
    <3> QED
      BY <1>1, <3>1 DEF Send, Socket
  <2>4. CASE unacked # <<>>
    BY <1>1, <2>4 DEF Send, Socket
  <2> QED
    BY <2>3, <2>4
<1>2. CASE Tick \/ Shutdown \/ DrainBlocks \/ NoSocket \/ BackoffEnds
  BY <1>2, AfterFlushTyped DEF Tick, Shutdown, DrainBlocks, NoSocket, BackoffEnds, bufferVars, Socket
<1>3. CASE DrainAck
  BY <1>3 DEF DrainAck, Socket
<1>4. CASE DrainDies \/ WriteFails
  BY <1>4, AfterFlushTyped DEF DrainDies, WriteFails, Disconnect, Socket
<1>5. CASE HandshakeSucceeds
  <2>1. cur' # 0 /\ pc' \in {"reset", "size"}
    BY <1>5 DEF HandshakeSucceeds, Fresh, ControlTyped
  <2> QED
    BY <2>1 DEF Socket
<1>6. CASE HandshakeFails \/ HandshakeRefused
  BY <1>6, AfterFlushTyped DEF HandshakeFails, HandshakeRefused, bufferVars, Socket
<1>7. CASE WriteReset \/ WriteSize \/ FlushDone \/ Ping \/ Close
  BY <1>7, AfterFlushTyped DEF WriteReset, WriteSize, FlushDone, Ping, Close, bufferVars, Socket
<1>8. CASE WriteChunk
  BY <1>8 DEF WriteChunk, Socket
<1>9. ASSUME NEW k \in Conns, LoopStep(k) \/ Break(k) \/ LoopQuits(k) PROVE Socket'
  <2>1. UNCHANGED clientVars
    BY <1>9, ServerSteps
  <2> QED
    BY <2>1 DEF clientVars, bufferVars, Socket
<1> QED
  BY <1>1, <1>2, <1>3, <1>4, <1>5, <1>6, <1>7, <1>8, <1>9 DEF Next, ClientStep

(* A connection the client left, or that broke, was paid for by a failure, *)
(* so the next attempt opens one that exists.                              *)
LEMMA AttemptsStep == ControlTyped /\ NetTyped /\ Socket /\ Attempts /\ Next => Attempts'
<1> SUFFICES ASSUME ControlTyped, NetTyped, Socket, Attempts, Next PROVE Attempts'
  OBVIOUS
<1>0. failures \in Nat /\ cur \in Nat
  BY ConnsTyped DEF ControlTyped
<1>1. CASE UNCHANGED <<cur, up, failures>>
  BY <1>1 DEF Attempts
<1>2. CASE cur' = 0 /\ failures' \in Nat
  <2>1. PICK f \in Nat : f = failures'
    BY <1>2
  <2>2. 0 <= f + 1
    OBVIOUS
  <2> QED
    BY <1>2, <2>1, <2>2 DEF Attempts
<1>3. CASE DrainDies \/ WriteFails \/ Close
  BY <1>0, <1>2, <1>3 DEF DrainDies, WriteFails, Close, Disconnect, Fail
<1>4. CASE HandshakeSucceeds
  <2>1. cur' = failures + 1 /\ cur' \in up' /\ failures' = failures
    BY <1>4 DEF HandshakeSucceeds, Fresh
  <2> QED
    BY <1>0, <2>1 DEF Attempts
<1>5. CASE HandshakeFails
  BY <1>0, <1>2, <1>5 DEF HandshakeFails, Fail, Socket
<1>6. ASSUME NEW k \in Conns, Break(k) \/ LoopQuits(k) PROVE Attempts'
  <2>1. cur' = cur /\ failures' = failures + 1
    BY <1>6 DEF Break, LoopQuits, Fail, clientVars
  <2> QED
    BY <1>0, <2>1 DEF Attempts
<1>7. ASSUME NEW k \in Conns, LoopEnds(k) PROVE Attempts'
  <2>1. cur' = cur /\ failures' = failures /\ up' = up \ {k} /\ (k \notin up \/ cur # k)
    BY <1>7 DEF LoopEnds, clientVars
  <2> QED
    BY <2>1 DEF Attempts
<1>8. ASSUME NEW k \in Conns, LoopStep(k), ~LoopEnds(k) PROVE UNCHANGED <<cur, up, failures>>
  BY <1>8 DEF LoopStep, Attach, ReadChunk, ReadSize, ReadReset, ReadClose, Reads, netVars, clientVars
<1>9. CASE Send \/ Tick \/ Shutdown \/ DrainAck \/ DrainBlocks \/ NoSocket \/ BackoffEnds
           \/ HandshakeRefused \/ WriteReset \/ WriteSize \/ WriteChunk \/ FlushDone \/ Ping
  BY <1>1, <1>9 DEF Send, Tick, Resizes, Shutdown, DrainAck, DrainBlocks, NoSocket, BackoffEnds,
     HandshakeRefused, WriteReset, WriteSize, WriteChunk, FlushDone, Ping, netVars
<1> QED
  BY <1>1, <1>3, <1>4, <1>5, <1>6, <1>7, <1>8, <1>9 DEF Next, ClientStep

(* Nothing happens on a connection before its handshake, so a handshake    *)
(* finds empty books.                                                      *)
LEMMA UnusedStep ==
  BufferTyped /\ Queued /\ ControlTyped /\ NetTyped /\ Socket /\ Attempts /\ Unused /\ Next => Unused'
<1> SUFFICES ASSUME BufferTyped, Queued, ControlTyped, NetTyped, Socket, Attempts, Unused, Next,
                    pc' # "exit",
                    NEW j \in Conns, j > failures', j # cur'
             PROVE  Pristine(j)'
  BY DEF Unused
<1>0. failures \in Nat /\ cur \in Nat /\ j \in Nat /\ j # 0
  BY ConnsTyped DEF ControlTyped
<1>1. ASSUME pc # "exit", j > failures, j # cur PROVE Pristine(j)
  BY <1>1 DEF Unused
<1> DEFINE kept == /\ loop'[j] = loop[j] /\ wire'[j] = wire[j] /\ acks'[j] = acks[j]
                   /\ received'[j] = received[j] /\ (j \in up' => j \in up)
<1>2. ASSUME pc # "exit", j > failures, j # cur, kept PROVE Pristine(j)'
  BY <1>1, <1>2 DEF Pristine
<1>3. ASSUME UNCHANGED <<loop, wire, acks, received, up>> PROVE kept
  BY <1>3
<1> HIDE DEF kept
<1>4. CASE Send \/ Tick \/ Shutdown \/ DrainBlocks \/ NoSocket \/ HandshakeRefused \/ FlushDone \/ Ping
  <2>1. UNCHANGED <<loop, wire, acks, received, up, failures, cur>> /\ pc # "exit"
    BY <1>4 DEF Send, Tick, Resizes, Shutdown, DrainBlocks, NoSocket, HandshakeRefused, FlushDone, Ping,
       netVars, serverVars
  <2> QED
    BY <1>2, <1>3, <2>1
<1>5. CASE BackoffEnds
  <2>1. UNCHANGED <<loop, wire, acks, received, up, failures, cur, pc>>
    BY <1>5 DEF BackoffEnds, netVars, serverVars
  <2> QED
    BY <1>2, <1>3, <2>1
<1>6. CASE DrainAck
  <2>1. UNCHANGED <<loop, wire, received, up, failures, cur, pc>> /\ pc # "exit"
        /\ acks' = [acks EXCEPT ![cur] = Tail(acks[cur])]
    BY <1>6 DEF DrainAck, serverVars
  <2>2. j # cur /\ j > failures
    BY <2>1
  <2>3. kept
    BY <2>1, <2>2 DEF kept, NetTyped
  <2> QED
    BY <1>2, <2>1, <2>2, <2>3
<1>7. CASE DrainDies
  <2>1. UNCHANGED <<loop, wire, acks, received, up, failures>> /\ pc # "exit" /\ cur # 0 /\ cur \notin up
    BY <1>7 DEF DrainDies, netVars, serverVars
  <2>2. j > failures /\ cur <= failures
    BY <2>1 DEF Attempts
  <2>3. j # cur
    BY <1>0, <2>2
  <2> QED
    BY <1>2, <1>3, <2>1, <2>2, <2>3
<1>8. CASE WriteFails
  <2>1. UNCHANGED <<loop, wire, acks, received, up>> /\ pc # "exit" /\ cur # 0
        /\ failures' = IF cur \in up THEN failures + 1 ELSE failures
    BY <1>8 DEF WriteFails, Fail, netVars, serverVars
  <2>2. cur <= failures' /\ j > failures
    BY <1>0, <2>1 DEF Attempts
  <2>3. j # cur
    BY <1>0, <2>1, <2>2
  <2> QED
    BY <1>2, <1>3, <2>1, <2>2, <2>3
<1>9. CASE HandshakeSucceeds
  <2>1. UNCHANGED <<wire, acks, received, failures>> /\ pc = "handshake" /\ cur' = failures + 1
        /\ up' = up \cup {failures + 1} /\ loop' = [loop EXCEPT ![failures + 1] = "upgrading"]
    BY <1>9 DEF HandshakeSucceeds, Fresh
  <2>2. j > failures /\ j # failures + 1 /\ j # cur
    BY <1>0, <2>1 DEF Socket
  <2>3. kept
    BY <2>1, <2>2 DEF kept, NetTyped
  <2> QED
    BY <1>2, <2>1, <2>2, <2>3
<1>10. CASE HandshakeFails
  <2>1. PICK v : /\ UNCHANGED <<wire, acks, received, up, cur>> /\ pc = "handshake"
                 /\ failures' = failures + 1 /\ loop' = [loop EXCEPT ![failures + 1] = v]
    BY <1>10 DEF HandshakeFails, Fresh, Fail, netVars
  <2>2. j > failures /\ j # failures + 1 /\ j # cur
    BY <1>0, <2>1 DEF Socket
  <2>3. kept
    BY <2>1, <2>2 DEF kept, NetTyped
  <2> QED
    BY <1>2, <2>1, <2>2, <2>3
<1>11. ASSUME UNCHANGED <<loop, acks, received, up, failures, cur>>, pc # "exit", cur \in Conns,
              NEW f \in Frames, Written(f)
       PROVE  Pristine(j)'
  <2>1. kept
    BY <1>11, WrittenFacts DEF kept
  <2> QED
    BY <1>2, <1>11, <2>1
<1>12. CASE WriteReset \/ WriteSize
  BY <1>11, <1>12, FrameFacts DEF WriteReset, WriteSize, ControlTyped, Socket, serverVars
<1>13. CASE WriteChunk
  <2>1. Head(pending) \in Chunk
    BY <1>13, WriteStep DEF WriteChunk
  <2> QED
    BY <1>11, <1>13, <2>1, FrameFacts DEF WriteChunk, ControlTyped, Socket, serverVars
<1>14. ASSUME NEW k \in Conns, LoopStep(k) \/ Break(k) \/ LoopQuits(k) PROVE Pristine(j)'
  <2>1. pc # "exit" /\ j # cur
    <3>1. UNCHANGED clientVars
      BY <1>14, ServerSteps
    <3> QED
      BY <3>1 DEF clientVars
  <2>2. failures' = failures \/ failures' = failures + 1
    BY <1>14 DEF LoopStep, Attach, ReadChunk, ReadSize, ReadReset, ReadClose, LoopEnds, Reads,
       Break, LoopQuits, Fail
  <2>3. j > failures
    BY <1>0, <2>2
  <2>4. Pristine(j)
    BY <1>1, <2>1, <2>3
  <2>5. CASE k = j
    BY <1>14, <2>4, <2>5 DEF Pristine, LoopStep, Attach, ReadChunk, ReadSize, ReadReset, ReadClose,
       LoopEnds, Reads, Break, LoopQuits
  <2>6. CASE k # j
    <3>1. loop'[j] = loop[j] /\ received'[j] = received[j] /\ (j \in up' => j \in up)
      BY <1>14, <2>6 DEF LoopStep, Attach, ReadChunk, ReadSize, ReadReset, ReadClose, LoopEnds, Reads,
         Break, LoopQuits, NetTyped, netVars, serverVars
    <3>2. wire'[j] = wire[j]
      BY <1>14, <2>6 DEF LoopStep, Attach, ReadChunk, ReadSize, ReadReset, ReadClose, LoopEnds, Reads,
         Break, LoopQuits, NetTyped, netVars, serverVars
    <3>3. acks'[j] = acks[j]
      BY <1>14, <2>6 DEF LoopStep, Attach, ReadChunk, ReadSize, ReadReset, ReadClose, LoopEnds, Acks,
         Break, LoopQuits, NetTyped, netVars, serverVars
    <3> QED
      BY <1>2, <2>1, <2>3, <3>1, <3>2, <3>3 DEF kept
  <2> QED
    BY <2>5, <2>6
<1>15. CASE Close
  BY <1>15 DEF Close
<1> QED
  BY <1>4, <1>5, <1>6, <1>7, <1>8, <1>9, <1>10, <1>12, <1>13, <1>14, <1>15 DEF Next, ClientStep

(* The books do not depend on what else changes. *)
LEMMA MarksSame ==
  ASSUME Marks,
         UNCHANGED <<unacked, connAcked, droppedUnacked, cur, stored>>,
         cur # 0 => /\ wire'[cur] = wire[cur] /\ received'[cur] = received[cur]
                    /\ acks'[cur] = acks[cur]
                    /\ (cur \in up' <=> cur \in up)
  PROVE  Marks'
<1> SUFFICES ASSUME cur # 0
             PROVE  /\ Ledger(unacked, Base, wire[cur], received[cur], stored, cur \in up')
                    /\ Receipts(unacked, Base, connAcked, received[cur], acks[cur])
  BY DEF Marks, Base
<1>1. /\ Ledger(unacked, Base, wire[cur], received[cur], stored, cur \in up)
      /\ Receipts(unacked, Base, connAcked, received[cur], acks[cur])
  BY DEF Marks
<1> QED
  BY <1>1 DEF Ledger

(* What an ack does to the books: the r chunks it releases are stored. *)
LEMMA AckedStep ==
  ASSUME IInv, DrainAck
  PROVE  /\ made' = made /\ dropped' = dropped
         /\ \E r \in 0 .. Len(unacked) :
              /\ unacked' = Rest(unacked, r) /\ Low' = Low + r
              /\ Base' = Credit(unacked, Base, r)
              /\ Receipts(Rest(unacked, r), Credit(unacked, Base, r), connAcked',
                          received[cur], Tail(acks[cur]))
              /\ \A i \in 1 .. r : unacked[i] \in stored
<1> USE DEF IInv
<1>1. cur \in Conns /\ cur # 0 /\ acks[cur] # <<>> /\ ApplyAck(Head(acks[cur]))
  BY DEF DrainAck, ControlTyped
<1>2. PICK v \in Nat : v = Head(acks[cur])
  BY <1>1 DEF NetTyped
<1>3. PICK r \in 0 .. Len(unacked) :
        /\ made' = made /\ dropped' = dropped
        /\ connAcked' = connAcked + Newly(v) /\ droppedUnacked' = droppedUnacked - Discarded(v)
        /\ unacked' = Rest(unacked, r) /\ Low' = Low + r
        /\ Bytes(Prefix(unacked, r)) <= Newly(v) - Discarded(v)
        /\ \A s \in (r + 1) .. Len(unacked) : Bytes(Prefix(unacked, s)) > Newly(v) - Discarded(v)
  BY <1>1, <1>2, AckStep
<1>4. /\ Ledger(unacked, Base, wire[cur], received[cur], stored, cur \in up)
      /\ Receipts(unacked, Base, connAcked, received[cur], acks[cur])
  BY <1>1 DEF Marks
<1>5. PICK C \in Nat, D \in Nat : C = connAcked /\ D = droppedUnacked
  BY DEF BufferTyped
<1>6. PICK newly, disc : newly = Newly(v) /\ disc = Discarded(v)
  OBVIOUS
<1>7. PICK U, W, R, A : U = unacked /\ W = wire[cur] /\ R = received[cur] /\ A = acks[cur]
  OBVIOUS
<1>8. Acked(U, C, D, W, R, A, stored, cur \in up, newly, disc, r)
  <2>1. /\ newly = IF Head(A) > C THEN Head(A) - C ELSE 0
        /\ disc = IF newly < D THEN newly ELSE D
    BY <1>2, <1>5, <1>6, <1>7 DEF Newly, Discarded
  <2>2. Ledger(U, C + D, W, R, stored, cur \in up) /\ Receipts(U, C + D, C, R, A)
    BY <1>4, <1>5, <1>7 DEF Base
  <2>3. /\ A # <<>> /\ r \in 0 .. Len(U) /\ Bytes(Prefix(U, r)) <= newly - disc
        /\ \A s \in (r + 1) .. Len(U) : Bytes(Prefix(U, s)) > newly - disc
    BY <1>1, <1>3, <1>6, <1>7
  <2> QED
    BY <2>1, <2>2, <2>3 DEF Acked
<1>9. /\ (C + newly) + (D - disc) = Credit(U, C + D, r)
      /\ \A i \in 1 .. r : U[i] \in stored
      /\ Receipts(Rest(U, r), Credit(U, C + D, r), C + newly, R, Tail(A))
  BY <1>8, AckRelease
<1>10. Base' = Credit(unacked, Base, r)
  BY <1>3, <1>5, <1>6, <1>7, <1>9 DEF Base
<1>11. Receipts(Rest(unacked, r), Credit(unacked, Base, r), connAcked', received[cur], Tail(acks[cur]))
  BY <1>3, <1>5, <1>6, <1>7, <1>9 DEF Base
<1> QED
  BY <1>3, <1>7, <1>9, <1>10, <1>11

(* The books of the current connection balance after every step.           *)
LEMMA MarksStep == IInv /\ Next => Marks'
<1> SUFFICES ASSUME IInv, Next PROVE Marks'
  OBVIOUS
<1> USE DEF IInv
<1>1. CASE cur' = 0
  BY <1>1 DEF Marks
<1>2. CASE Tick \/ Shutdown \/ DrainBlocks \/ NoSocket \/ BackoffEnds \/ HandshakeFails
           \/ HandshakeRefused \/ FlushDone \/ Ping
  <2>1. UNCHANGED <<unacked, connAcked, droppedUnacked, cur, stored, wire, received, acks, up>>
    BY <1>2 DEF Tick, Shutdown, DrainBlocks, NoSocket, BackoffEnds, HandshakeFails,
       HandshakeRefused, FlushDone, Ping, bufferVars, netVars, serverVars
  <2> QED
    BY <2>1, MarksSame
<1>3. CASE DrainDies \/ WriteFails \/ Close
  BY <1>1, <1>3 DEF DrainDies, WriteFails, Close, Disconnect
<1>4. CASE Send
  <2>1. PICK n \in {1, 2} : made + n <= Chunks /\ Buffer(n)
    BY <1>4 DEF Send
  <2>2. PICK e \in 0 .. Len(unacked) :
          /\ unacked' = Rest(unacked, e)
          /\ droppedUnacked' = droppedUnacked + Bytes(Prefix(unacked, e))
          /\ connAcked' = connAcked
    BY <2>1, BufferStep
  <2>3. UNCHANGED <<cur, wire, received, acks, up, stored>>
    BY <1>4 DEF Send, netVars, serverVars
  <2>4. Base' = Credit(unacked, Base, e)
    <3>1. Prefix(unacked, e) \in Seq(Chunk)
      BY Parts DEF BufferTyped
    <3>2. PICK b \in Nat : b = Bytes(Prefix(unacked, e))
      BY <3>1, BytesTyped
    <3>3. connAcked + (droppedUnacked + b) = (connAcked + droppedUnacked) + b
      BY DEF BufferTyped
    <3> QED
      BY <2>2, <3>2, <3>3 DEF Base, Credit
  <2>5. unacked \in Seq(Chunk) /\ Base \in Nat
    BY DEF BufferTyped, Base
  <2>6. ASSUME cur # 0
        PROVE  /\ Ledger(unacked', Base', wire[cur], received[cur], stored, cur \in up)
               /\ Receipts(unacked', Base', connAcked, received[cur], acks[cur])
    <3>1. cur \in Conns /\ received[cur] \in Nat
      BY <2>6 DEF ControlTyped, NetTyped
    <3>2. /\ Ledger(unacked, Base, wire[cur], received[cur], stored, cur \in up)
          /\ Receipts(unacked, Base, connAcked, received[cur], acks[cur])
      BY <2>6 DEF Marks
    <3> QED
      BY <2>2, <2>4, <2>5, <3>1, <3>2, LedgerDrop, ReceiptsDrop
  <2> QED
    BY <2>2, <2>3, <2>6 DEF Marks
<1>5. CASE DrainAck
  <2>1. cur \in Conns /\ cur # 0 /\ UNCHANGED <<cur, wire, received, up, stored>>
        /\ acks'[cur] = Tail(acks[cur])
    BY <1>5 DEF DrainAck, ControlTyped, NetTyped, serverVars
  <2>2. PICK r \in 0 .. Len(unacked) :
          /\ unacked' = Rest(unacked, r) /\ Base' = Credit(unacked, Base, r)
          /\ Receipts(Rest(unacked, r), Credit(unacked, Base, r), connAcked',
                      received[cur], Tail(acks[cur]))
    BY <1>5, AckedStep
  <2>3. Ledger(unacked', Base', wire[cur], received[cur], stored, cur \in up)
    <3>1. unacked \in Seq(Chunk) /\ Base \in Nat
      BY DEF BufferTyped, Base
    <3>2. Ledger(unacked, Base, wire[cur], received[cur], stored, cur \in up)
      BY <2>1 DEF Marks
    <3> QED
      BY <2>2, <3>1, <3>2, LedgerDrop
  <2> QED
    BY <2>1, <2>2, <2>3 DEF Marks
<1>6. CASE HandshakeSucceeds
  <2>1. cur' = failures + 1 /\ cur' \in Conns /\ cur' > failures /\ cur = 0 /\ cur' # cur
    BY <1>6, ConnsTyped DEF HandshakeSucceeds, Fresh, Socket, ControlTyped
  <2>2. Pristine(cur') /\ unacked = <<>>
    BY <1>6, <2>1 DEF HandshakeSucceeds, Unused, Socket
  <2>3. UNCHANGED <<unacked, wire, acks, received, stored>> /\ cur' \in up'
        /\ connAcked' = 0 /\ droppedUnacked' = 0
    BY <1>6 DEF HandshakeSucceeds, Fresh
  <2>4. Base' = 0
    BY <2>3 DEF Base
  <2>5. /\ Ledger(<<>>, 0, <<>>, 0, stored, TRUE) /\ Receipts(<<>>, 0, 0, 0, <<>>)
    BY BooksOpen
  <2>6. Ledger(<<>>, 0, <<>>, 0, stored, cur' \in up')
    BY <2>5 DEF Ledger
  <2> QED
    BY <2>2, <2>3, <2>4, <2>5, <2>6 DEF Marks, Pristine
<1>7. ASSUME cur \in Conns, cur # 0, UNCHANGED <<unacked, connAcked, droppedUnacked, cur, acks, up, received, stored>>,
             NEW f \in Frames, Weight[f] = 0, Written(f)
      PROVE  Marks'
  <2>1. /\ Ledger(unacked, Base, wire[cur], received[cur], stored, cur \in up)
        /\ Receipts(unacked, Base, connAcked, received[cur], acks[cur])
    BY <1>7 DEF Marks
  <2>2. wire'[cur] = IF cur \in up THEN Append(wire[cur], f) ELSE wire[cur]
    BY <1>7, WrittenFacts
  <2>3. Ledger(unacked, Base, Append(wire[cur], f), received[cur], stored, cur \in up)
    BY <1>7, <2>1, LedgerFrame
  <2>4. Ledger(unacked, Base, wire'[cur], received[cur], stored, cur \in up)
    BY <2>1, <2>2, <2>3
  <2> QED
    BY <1>7, <2>1, <2>4 DEF Marks, Base
<1>8. CASE WriteReset \/ WriteSize
  <2>1. cur \in Conns /\ cur # 0
        /\ UNCHANGED <<unacked, connAcked, droppedUnacked, cur, acks, up, received, stored>>
    BY <1>8 DEF WriteReset, WriteSize, ControlTyped, Socket, bufferVars, serverVars
  <2>2. PICK f \in {ResetFrame, SizeFrame(size)} : Written(f)
    BY <1>8 DEF WriteReset, WriteSize
  <2>3. f \in Frames /\ Weight[f] = 0
    BY FrameFacts, WeightFacts DEF ControlTyped
  <2> QED
    BY <1>7, <2>1, <2>2, <2>3
<1>9. CASE WriteChunk
  <2>1. cur \in Conns /\ cur # 0 /\ UNCHANGED <<connAcked, droppedUnacked, cur, acks, up, received, stored>>
    BY <1>9 DEF WriteChunk, ControlTyped, Socket, serverVars
  <2>2. PICK i \in Chunk : i = Head(pending) /\ unacked' = Append(unacked, i) /\ Written(ChunkFrame(i))
    BY <1>9, WriteStep DEF WriteChunk
  <2>3. /\ Ledger(unacked, Base, wire[cur], received[cur], stored, cur \in up)
        /\ Receipts(unacked, Base, connAcked, received[cur], acks[cur])
    BY <2>1 DEF Marks
  <2>4. wire'[cur] = IF cur \in up THEN Append(wire[cur], ChunkFrame(i)) ELSE wire[cur]
    BY <2>1, <2>2, WrittenFacts, FrameFacts
  <2>5. Receipts(unacked', Base, connAcked, received[cur], acks[cur])
    <3>1. unacked \in Seq(Chunk) /\ Base \in Nat
      BY DEF BufferTyped, Base
    <3> QED
      BY <2>2, <2>3, <3>1, ReceiptsAppend
  <2>6. Ledger(unacked', Base, wire'[cur], received[cur], stored, cur \in up)
    <3>1. CASE cur \in up
      <4>1. Ledger(unacked, Base, wire[cur], received[cur], stored, TRUE)
        BY <2>3, <3>1 DEF Ledger
      <4>2. Ledger(unacked', Base, wire'[cur], received[cur], stored, TRUE)
        BY <2>2, <2>4, <3>1, <4>1, LedgerWrite
      <4> QED
        BY <4>2 DEF Ledger
    <3>2. CASE cur \notin up
      <4>1. Ledger(unacked, Base, wire[cur], received[cur], stored, FALSE)
        BY <2>3, LedgerDown
      <4>2. Ledger(unacked', Base, wire'[cur], received[cur], stored, FALSE)
        BY <2>2, <2>4, <3>2, <4>1, LedgerLost
      <4> QED
        BY <3>2, <4>2 DEF Ledger
    <3> QED
      BY <3>1, <3>2
  <2> QED
    BY <2>1, <2>5, <2>6 DEF Marks, Base
<1>10. ASSUME NEW k \in Conns, Attach(k) PROVE Marks'
  BY <1>10, MarksSame DEF Attach, netVars, clientVars, bufferVars
<1>11. ASSUME NEW k \in Conns, LoopStep(k) \/ Break(k) \/ LoopQuits(k), k # cur, stored' = stored
       PROVE  Marks'
  <2>1. UNCHANGED <<unacked, connAcked, droppedUnacked, cur>>
    BY <1>11, ServerSteps DEF clientVars, bufferVars
  <2>2. ASSUME cur # 0
        PROVE  /\ wire'[cur] = wire[cur] /\ received'[cur] = received[cur]
               /\ acks'[cur] = acks[cur] /\ (cur \in up' <=> cur \in up)
    <3>0. cur \in Conns
      BY <2>2 DEF ControlTyped
    <3>1. received'[cur] = received[cur] /\ (cur \in up' <=> cur \in up)
      BY <1>11, <3>0 DEF LoopStep, Attach, ReadChunk, ReadSize, ReadReset, ReadClose, LoopEnds,
         Reads, Break, LoopQuits, NetTyped, netVars, serverVars
    <3>2. wire'[cur] = wire[cur]
      BY <1>11, <3>0 DEF LoopStep, Attach, ReadChunk, ReadSize, ReadReset, ReadClose, LoopEnds,
         Reads, Break, LoopQuits, NetTyped, netVars, serverVars
    <3>3. acks'[cur] = acks[cur]
      BY <1>11, <3>0 DEF LoopStep, Attach, ReadChunk, ReadSize, ReadReset, ReadClose, LoopEnds,
         Acks, Break, LoopQuits, NetTyped, netVars, serverVars
    <3> QED
      BY <3>1, <3>2, <3>3
  <2> QED
    BY <1>11, <2>1, <2>2, MarksSame
<1>12. ASSUME NEW k \in Conns, ReadChunk(k) PROVE Marks'
  <2>1. Reads(k, "chunk") /\ UNCHANGED <<unacked, connAcked, droppedUnacked, cur, up>>
    BY <1>12 DEF ReadChunk, Reads, clientVars, bufferVars
  <2>2. PICK f \in Frames : /\ f = Head(wire[k]) /\ f.kind = "chunk" /\ wire[k] # <<>> /\ wire[k] \in Seq(Frames)
                            /\ wire'[k] = Tail(wire[k]) /\ \A j \in Conns : j # k => wire'[j] = wire[j]
    BY <2>1, ReadsFacts
  <2>3. PICK i \in Chunk : i = f.n /\ Weight[f] = Length[i] /\ Length[i] \in Nat
    BY <2>2, FrameFacts, WeightFacts, LengthFacts
  <2>4. received[k] \in Nat /\ received[k] + Weight[f] \in Nat
    BY <2>3 DEF NetTyped
  <2>5. /\ received' = [received EXCEPT ![k] = received[k] + Weight[f]]
        /\ stored' = stored \cup {i} /\ Acks(k, received[k] + Weight[f])
    BY <1>12, <2>2, <2>3 DEF ReadChunk
  <2>6. /\ received'[k] = received[k] + Weight[f]
        /\ \A j \in Conns : j # k => received'[j] = received[j]
    BY <2>5 DEF NetTyped
  <2>7. /\ acks'[k] = IF k \in up THEN Append(acks[k], received[k] + Weight[f]) ELSE acks[k]
        /\ \A j \in Conns : j # k => acks'[j] = acks[j]
    BY <2>4, <2>5, AcksFacts
  <2>8. ASSUME cur # 0
        PROVE  /\ Ledger(unacked, Base, wire'[cur], received'[cur], stored', cur \in up)
               /\ Receipts(unacked, Base, connAcked, received'[cur], acks'[cur])
    <3>0. cur \in Conns
      BY <2>8 DEF ControlTyped
    <3>1. /\ Ledger(unacked, Base, wire[cur], received[cur], stored, cur \in up)
          /\ Receipts(unacked, Base, connAcked, received[cur], acks[cur])
      BY <2>8 DEF Marks
    <3>2. CASE cur # k
      BY <2>2, <2>5, <2>6, <2>7, <3>0, <3>1, <3>2, LedgerStored
    <3>3. CASE cur = k
      <4>1. stored \subseteq stored' /\ (Head(wire[k]).kind = "chunk" => Head(wire[k]).n \in stored')
        BY <2>2, <2>3, <2>5
      <4>2. /\ Ledger(unacked, Base, wire'[k], received'[k], stored', cur \in up)
            /\ Boundary(unacked, Base, received'[k])
            /\ received'[k] \in Nat /\ received[k] <= received'[k]
        BY <2>2, <2>6, <3>1, <3>3, <4>1, LedgerRead
      <4>3. /\ Receipts(unacked, Base, connAcked, received'[k], acks[k])
            /\ Receipts(unacked, Base, connAcked, received'[k], Append(acks[k], received'[k]))
        BY <2>4, <3>1, <3>3, <4>2, ReceiptsRead
      <4> QED
        BY <2>6, <2>7, <3>3, <4>2, <4>3
    <3> QED
      BY <3>2, <3>3
  <2> QED
    BY <2>1, <2>8 DEF Marks, Base
<1>13. ASSUME ReadSize(cur) \/ ReadReset(cur) \/ ReadClose(cur), cur \in Conns, cur # 0 PROVE Marks'
  <2>1. PICK kind \in {"size", "reset", "close"} : Reads(cur, kind)
    BY <1>13 DEF ReadSize, ReadReset, ReadClose
  <2>2. PICK f \in Frames : /\ f = Head(wire[cur]) /\ f.kind = kind /\ wire[cur] # <<>>
                            /\ wire'[cur] = Tail(wire[cur])
    BY <1>13, <2>1, ReadsFacts
  <2>3. Weight[f] = 0 /\ received[cur] \in Nat /\ received[cur] + Weight[f] = received[cur]
    BY <1>13, <2>2, WeightFacts DEF NetTyped
  <2>4. UNCHANGED <<unacked, connAcked, droppedUnacked, cur, up, stored, received>>
    BY <1>13, <2>1 DEF ReadSize, ReadReset, ReadClose, Reads, clientVars, bufferVars
  <2>5. /\ Ledger(unacked, Base, wire[cur], received[cur], stored, cur \in up)
        /\ Receipts(unacked, Base, connAcked, received[cur], acks[cur])
    BY <1>13 DEF Marks
  <2>6. /\ Ledger(unacked, Base, wire'[cur], received[cur], stored, cur \in up)
        /\ Boundary(unacked, Base, received[cur])
    BY <2>2, <2>3, <2>5, LedgerRead
  <2>7. acks'[cur] = acks[cur] \/ acks'[cur] = Append(acks[cur], received[cur])
    BY <1>13, <2>3, AcksFacts DEF ReadSize, ReadReset, ReadClose
  <2>8. Receipts(unacked, Base, connAcked, received[cur], acks'[cur])
    <3>1. received[cur] <= received[cur]
      BY <2>3
    <3> QED
      BY <2>3, <2>5, <2>6, <2>7, <3>1, ReceiptsRead
  <2> QED
    BY <2>4, <2>6, <2>8 DEF Marks, Base
<1>14. ASSUME Break(cur) \/ LoopQuits(cur) \/ LoopEnds(cur), cur \in Conns, cur # 0 PROVE Marks'
  <2>1. /\ Ledger(unacked, Base, wire[cur], received[cur], stored, cur \in up)
        /\ Receipts(unacked, Base, connAcked, received[cur], acks[cur])
    BY <1>14 DEF Marks
  <2>2. wire[cur] \in Seq(Frames) /\ acks[cur] \in Seq(Nat)
    BY <1>14 DEF NetTyped
  <2>3. Prefix(wire[cur], 0) = <<>> /\ 0 \in 0 .. Len(wire[cur])
        /\ Prefix(acks[cur], Len(acks[cur])) = acks[cur] /\ Len(acks[cur]) \in 0 .. Len(acks[cur])
    BY <2>2, SubSeqFull DEF Prefix
  <2>4. UNCHANGED <<unacked, connAcked, droppedUnacked, cur, received, stored>> /\ up' = up \ {cur}
    BY <1>14 DEF Break, LoopQuits, LoopEnds, clientVars, bufferVars, serverVars
  <2>5. PICK n \in 0 .. Len(wire[cur]), m \in 0 .. Len(acks[cur]) :
          wire'[cur] = Prefix(wire[cur], n) /\ acks'[cur] = Prefix(acks[cur], m)
    <3>1. CASE Break(cur)
      BY <1>14, <3>1 DEF Break, NetTyped
    <3>2. CASE LoopQuits(cur) \/ LoopEnds(cur)
      BY <1>14, <2>3, <3>2 DEF LoopQuits, LoopEnds, NetTyped
    <3> QED
      BY <1>14, <3>1, <3>2
  <2>6. /\ Ledger(unacked, Base, wire'[cur], received[cur], stored, FALSE)
        /\ Receipts(unacked, Base, connAcked, received[cur], acks'[cur])
    BY <2>1, <2>5, LedgerCut, ReceiptsCut
  <2>7. Ledger(unacked, Base, wire'[cur], received[cur], stored, cur \in up')
    BY <2>4, <2>6 DEF Ledger
  <2> QED
    BY <2>4, <2>6, <2>7 DEF Marks, Base
<1>16. ASSUME NEW k \in Conns, LoopStep(k) \/ Break(k) \/ LoopQuits(k) PROVE Marks'
  <2>1. CASE ReadChunk(k)
    BY <1>12, <2>1
  <2>2. CASE ~ReadChunk(k)
    <3>1. stored' = stored
      BY <1>16, <2>2 DEF LoopStep, Attach, ReadSize, ReadReset, ReadClose, LoopEnds, Break, LoopQuits,
         serverVars
    <3>2. CASE k # cur
      BY <1>11, <1>16, <3>1, <3>2
    <3>3. CASE k = cur
      <4>1. cur \in Conns /\ cur # 0
        BY <3>3, ConnsTyped
      <4> QED
        BY <1>10, <1>13, <1>14, <1>16, <2>2, <3>3, <4>1 DEF LoopStep
    <3> QED
      BY <3>2, <3>3
  <2> QED
    BY <2>1, <2>2
<1> QED
  BY <1>2, <1>3, <1>4, <1>5, <1>6, <1>8, <1>9, <1>16 DEF Next, ClientStep

(* More is made, stored or dropped. *)
LEMMA InOrderMore ==
  ASSUME NEW w \in Seq(Frames), NEW n \in Nat, NEW gone, InOrder(w, n, gone),
         NEW m \in Nat, n <= m, NEW more, gone \subseteq more
  PROVE  InOrder(w, m, more)
<1>1. 1 .. n \subseteq 1 .. m
  OBVIOUS
<1> QED
  BY <1>1 DEF InOrder

(* Part of the wire is lost, from some point on. *)
LEMMA InOrderCut ==
  ASSUME NEW w \in Seq(Frames), NEW n \in Nat, NEW gone, InOrder(w, n, gone), NEW d \in 0 .. Len(w)
  PROVE  InOrder(Prefix(w, d), n, gone)
<1>1. PICK N \in Nat : N = Len(w)
  OBVIOUS
<1> DEFINE x == Prefix(w, d)
<1>2. Len(x) = d /\ \A p \in 1 .. d : x[p] = w[p]
  BY Parts
<1> HIDE DEF x
<1>3. ASSUME NEW p \in 1 .. d, x[p].kind = "chunk"
      PROVE  /\ x[p].n \in 1 .. n
             /\ \A j \in 1 .. (x[p].n - 1) : j \in gone \/ \E q \in 1 .. (p - 1) : x[q] = ChunkFrame(j)
  <2>1. p \in 1 .. Len(w) /\ x[p] = w[p]
    BY <1>1, <1>2
  <2>2. /\ w[p].n \in 1 .. n
        /\ \A j \in 1 .. (w[p].n - 1) : j \in gone \/ \E q \in 1 .. (p - 1) : w[q] = ChunkFrame(j)
    BY <1>3, <2>1 DEF InOrder
  <2>3. \A q \in 1 .. (p - 1) : x[q] = w[q]
    BY <1>2
  <2> QED
    BY <2>1, <2>2, <2>3
<1>4. InOrder(x, n, gone)
  BY <1>2, <1>3 DEF InOrder
<1> QED
  BY <1>4 DEF x

(* A frame is written: if it is a chunk, after the older ones. *)
LEMMA InOrderAppend ==
  ASSUME NEW w \in Seq(Frames), NEW n \in Nat, NEW gone, InOrder(w, n, gone), NEW f \in Frames,
         f.kind = "chunk" =>
           /\ f.n \in 1 .. n
           /\ \A j \in 1 .. (f.n - 1) : j \in gone \/ \E q \in 1 .. Len(w) : w[q] = ChunkFrame(j)
  PROVE  InOrder(Append(w, f), n, gone)
<1>1. PICK N \in Nat : N = Len(w)
  OBVIOUS
<1> DEFINE x == Append(w, f)
<1>2. Len(x) = N + 1 /\ x[N + 1] = f /\ \A p \in 1 .. N : x[p] = w[p]
  BY <1>1, PrefixAppend
<1> HIDE DEF x
<1>3. ASSUME NEW p \in 1 .. N + 1, x[p].kind = "chunk"
      PROVE  /\ x[p].n \in 1 .. n
             /\ \A j \in 1 .. (x[p].n - 1) : j \in gone \/ \E q \in 1 .. (p - 1) : x[q] = ChunkFrame(j)
  <2>1. CASE p = N + 1
    <3>1. x[p] = f /\ (p - 1) = N
      BY <1>2, <2>1
    <3> QED
      BY <1>1, <1>2, <1>3, <3>1
  <2>2. CASE p # N + 1
    <3>1. p \in 1 .. N /\ x[p] = w[p]
      BY <1>2, <2>2
    <3>2. /\ w[p].n \in 1 .. n
          /\ \A j \in 1 .. (w[p].n - 1) : j \in gone \/ \E q \in 1 .. (p - 1) : w[q] = ChunkFrame(j)
      BY <1>1, <1>3, <3>1 DEF InOrder
    <3>3. \A q \in 1 .. (p - 1) : x[q] = w[q]
      BY <1>2, <3>1
    <3> QED
      BY <3>1, <3>2, <3>3
  <2> QED
    BY <2>1, <2>2
<1>4. InOrder(x, n, gone)
  BY <1>2, <1>3 DEF InOrder
<1> QED
  BY <1>4 DEF x

(* The oldest frame is read: if it is a chunk, its older ones are gone. *)
LEMMA InOrderTail ==
  ASSUME NEW w \in Seq(Frames), NEW n \in Nat, NEW gone, InOrder(w, n, gone), w # <<>>,
         NEW more, gone \subseteq more, Head(w).kind = "chunk" => Head(w).n \in more
  PROVE  /\ InOrder(Tail(w), n, more)
         /\ Head(w).kind = "chunk" => Head(w).n \in 1 .. n /\ 1 .. (Head(w).n - 1) \subseteq gone
<1>1. PICK N \in Nat : N = Len(w) /\ N # 0
  OBVIOUS
<1> DEFINE x == Tail(w)
<1>2. /\ Head(w) = w[1] /\ Head(w) \in Frames /\ Len(x) = N - 1
      /\ \A p \in 1 .. N - 1 : x[p] = w[p + 1]
  BY <1>1, PayloadTail
<1> HIDE DEF x
<1>3. ASSUME NEW p \in 1 .. N - 1, x[p].kind = "chunk"
      PROVE  /\ x[p].n \in 1 .. n
             /\ \A j \in 1 .. (x[p].n - 1) : j \in more \/ \E q \in 1 .. (p - 1) : x[q] = ChunkFrame(j)
  <2>1. p + 1 \in 1 .. Len(w) /\ x[p] = w[p + 1] /\ (p + 1) - 1 = p
    BY <1>1, <1>2
  <2>2. /\ w[p + 1].n \in 1 .. n
        /\ \A j \in 1 .. (w[p + 1].n - 1) : j \in gone \/ \E q \in 1 .. p : w[q] = ChunkFrame(j)
    BY <1>3, <2>1 DEF InOrder
  <2>3. w[p + 1] \in Frames
    BY <2>1
  <2>4. ASSUME NEW j \in 1 .. (x[p].n - 1), j \notin more
        PROVE  \E q \in 1 .. (p - 1) : x[q] = ChunkFrame(j)
    <3>1. PICK q \in 1 .. p : w[q] = ChunkFrame(j)
      BY <2>1, <2>2, <2>4
    <3>2. q # 1
      <4>1. ASSUME q = 1 PROVE FALSE
        <5>1. Head(w).kind = "chunk" /\ Head(w).n = j
          BY <1>2, <3>1, <4>1 DEF ChunkFrame
        <5> QED
          BY <2>4, <5>1
      <4> QED
        BY <4>1
    <3>3. q - 1 \in 1 .. (p - 1) /\ q - 1 \in 1 .. N - 1 /\ (q - 1) + 1 = q
      BY <3>2
    <3> QED
      BY <1>2, <3>1, <3>3
  <2> QED
    BY <2>1, <2>2, <2>4
<1>4. InOrder(x, n, more)
  BY <1>2, <1>3 DEF InOrder
<1>5. ASSUME Head(w).kind = "chunk"
      PROVE  Head(w).n \in 1 .. n /\ 1 .. (Head(w).n - 1) \subseteq gone
  <2>1. 1 \in 1 .. Len(w) /\ 1 .. (1 - 1) = {}
    BY <1>1
  <2> QED
    BY <1>2, <1>5, <2>1 DEF InOrder
<1> QED
  BY <1>4, <1>5 DEF x

(* A wire nothing happens on stays in order.                               *)
LEMMA OrderedSame ==
  ASSUME BufferTyped, NetTyped, Ordered, NEW k \in Conns, wire'[k] = wire[k],
         made' \in Nat, made <= made', stored \cup dropped \subseteq stored' \cup dropped'
  PROVE  InOrder(wire'[k], made', stored' \cup dropped')
<1>1. wire[k] \in Seq(Frames) /\ made \in Nat /\ InOrder(wire[k], made, stored \cup dropped)
  <2>1. wire[k] \in Seq(Frames)
    BY DEF NetTyped
  <2>2. made \in Nat
    BY DEF BufferTyped
  <2>3. InOrder(wire[k], made, stored \cup dropped)
    BY DEF Ordered
  <2> QED
    BY <2>1, <2>2, <2>3
<1> QED
  BY <1>1, InOrderMore

(* The chunk that is written next comes after the older ones. *)
LEMMA NextChunk ==
  ASSUME IInv, pending # <<>>, cur \in Conns, cur \in up,
         NEW i \in Chunk, i = Head(pending)
  PROVE  /\ i \in 1 .. made
         /\ \A j \in 1 .. (i - 1) : j \in stored \cup dropped
                                    \/ \E q \in 1 .. Len(wire[cur]) : wire[cur][q] = ChunkFrame(j)
<1>1. PICK M \in Nat, N \in Nat : M = Len(unacked) /\ N = Len(pending)
  BY DEF IInv, BufferTyped
<1>2. Low \in Nat /\ made \in Nat /\ made = Low + (M + N) /\ N # 0
  BY <1>1 DEF IInv, BufferTyped, Queued, Low
<1>3. i = Low + M + 1
  <2>1. i = pending[1] /\ 1 \in 1 .. Len(pending)
    BY <1>1, <1>2 DEF IInv, BufferTyped
  <2> QED
    BY <1>1, <1>2, <2>1 DEF IInv, Queued, Run
<1>4. /\ Ledger(unacked, Base, wire[cur], received[cur], stored, cur \in up)
      /\ unacked \in Seq(Chunk) /\ Base \in Nat /\ wire[cur] \in Seq(Frames) /\ received[cur] \in Nat
  BY ConnsTyped DEF IInv, Marks, Ledger, Books
<1>5. received[cur] + Payload(wire[cur]) = Base + Bytes(unacked)
  BY <1>4 DEF Ledger
<1>6. ASSUME NEW j \in 1 .. (i - 1), j \notin stored \cup dropped
      PROVE  \E q \in 1 .. Len(wire[cur]) : wire[cur][q] = ChunkFrame(j)
  <2>1. j > Low
    BY <1>2, <1>6 DEF IInv, Covered
  <2>2. PICK r \in 1 .. M : j = Low + r /\ r \in 0 .. M
    <3>1. j - Low \in 1 .. M /\ j = Low + (j - Low)
      BY <1>2, <1>3, <2>1
    <3> QED
      BY <3>1
  <2>3. unacked[r] = j
    BY <1>1, <2>2 DEF IInv, Queued, Run
  <2>4. Placed(unacked, Base, wire[cur], received[cur], stored, r)
    BY <1>1, <1>4 DEF Ledger
  <2>5. ~(Credit(unacked, Base, r) > received[cur] + Payload(wire[cur]))
    <3>1. Credit(unacked, Base, r) \in Nat /\ Credit(unacked, Base, r) <= Base + Bytes(unacked)
          /\ Bytes(unacked) \in Nat
      BY <1>1, <1>4, <2>2, CreditTyped, BytesTyped
    <3> QED
      BY <1>4, <1>5, <3>1
  <2> QED
    BY <1>6, <2>3, <2>4, <2>5 DEF Placed, OnWire
<1> QED
  BY <1>2, <1>3, <1>6

(* On every wire, of the current connection or of one left behind, a chunk *)
(* comes after every older one that is not stored or dropped.              *)
LEMMA OrderedStep == IInv /\ Next => Ordered'
<1> SUFFICES ASSUME IInv, Next, NEW j \in Conns
             PROVE  InOrder(wire'[j], made', stored' \cup dropped')
  BY DEF Ordered
<1> USE DEF IInv
<1>0. /\ wire[j] \in Seq(Frames) /\ made \in Nat /\ made <= made
      /\ InOrder(wire[j], made, stored \cup dropped)
  <2>1. wire[j] \in Seq(Frames)
    BY DEF NetTyped
  <2>2. made \in Nat /\ made <= made
    BY DEF BufferTyped
  <2>3. InOrder(wire[j], made, stored \cup dropped)
    BY DEF Ordered
  <2> QED
    BY <2>1, <2>2, <2>3
<1>1. ASSUME UNCHANGED <<made, stored, dropped>>, wire'[j] = wire[j]
      PROVE  InOrder(wire'[j], made', stored' \cup dropped')
  BY <1>0, <1>1
<1>2. CASE Tick \/ Shutdown \/ DrainBlocks \/ NoSocket \/ BackoffEnds \/ HandshakeSucceeds
           \/ HandshakeFails \/ HandshakeRefused \/ FlushDone \/ Ping
  <2>1. UNCHANGED <<made, stored, dropped, wire>>
    BY <1>2 DEF Tick, Shutdown, DrainBlocks, NoSocket, BackoffEnds, HandshakeSucceeds,
       HandshakeFails, HandshakeRefused, FlushDone, Ping, bufferVars, netVars, serverVars
  <2> QED
    BY <1>1, <2>1
<1>3. CASE DrainDies \/ WriteFails
  <2>1. UNCHANGED <<made, stored, dropped, wire>>
    BY <1>3 DEF DrainDies, WriteFails, Disconnect, netVars, serverVars
  <2> QED
    BY <1>1, <2>1
<1>4. CASE Send
  <2>1. PICK n \in {1, 2} : made + n <= Chunks /\ Buffer(n)
    BY <1>4 DEF Send
  <2>2. made' = made + n /\ dropped \subseteq dropped' /\ stored' = stored /\ wire' = wire
    BY <1>4, <2>1, BufferStep DEF Send, netVars, serverVars
  <2>3. made' \in Nat /\ made <= made'
    BY <1>0, <2>2
  <2> QED
    BY <2>2, <2>3, OrderedSame
<1>5. CASE DrainAck
  <2>1. UNCHANGED <<made, stored, dropped, wire>>
    BY <1>5 DEF DrainAck, ApplyAck, serverVars
  <2> QED
    BY <1>1, <2>1
<1>6. ASSUME cur \in Conns, UNCHANGED <<made, stored, dropped>>, NEW f \in Frames, Written(f),
             cur \in up /\ f.kind = "chunk" =>
               /\ f.n \in 1 .. made
               /\ \A i \in 1 .. (f.n - 1) : i \in stored \cup dropped
                                           \/ \E q \in 1 .. Len(wire[cur]) : wire[cur][q] = ChunkFrame(i)
      PROVE  InOrder(wire'[j], made', stored' \cup dropped')
  <2>1. CASE j # cur \/ cur \notin up
    <3>1. wire'[j] = wire[j]
      BY <1>6, <2>1, WrittenFacts
    <3> QED
      BY <1>1, <1>6, <3>1
  <2>2. CASE j = cur /\ cur \in up
    <3>1. wire'[j] = Append(wire[j], f)
      BY <1>6, <2>2, WrittenFacts
    <3>2. InOrder(Append(wire[j], f), made, stored \cup dropped)
      BY <1>0, <1>6, <2>2, InOrderAppend
    <3> QED
      BY <1>6, <3>1, <3>2
  <2> QED
    BY <2>1, <2>2
<1>7. CASE WriteReset \/ WriteSize
  <2>1. cur \in Conns /\ UNCHANGED <<made, stored, dropped>>
    BY <1>7 DEF WriteReset, WriteSize, ControlTyped, Socket, bufferVars, serverVars
  <2>2. PICK f \in {ResetFrame, SizeFrame(size)} : Written(f)
    BY <1>7 DEF WriteReset, WriteSize
  <2>3. f \in Frames /\ f.kind # "chunk"
    BY FrameFacts DEF ControlTyped
  <2> QED
    BY <1>6, <2>1, <2>2, <2>3
<1>8. CASE Close
  <2>1. UNCHANGED <<made, stored, dropped>>
    BY <1>8 DEF Close, bufferVars, serverVars
  <2>2. CASE cur = 0
    BY <1>1, <1>8, <2>1, <2>2 DEF Close
  <2>3. CASE cur # 0
    BY <1>6, <1>8, <2>1, <2>3, FrameFacts DEF Close, ControlTyped
  <2> QED
    BY <2>2, <2>3
<1>9. CASE WriteChunk
  <2>1. cur \in Conns /\ pending # <<>> /\ UNCHANGED <<made, stored, dropped>>
    BY <1>9 DEF WriteChunk, ControlTyped, Socket, serverVars
  <2>2. PICK i \in Chunk : i = Head(pending) /\ Written(ChunkFrame(i))
    BY <1>9, WriteStep DEF WriteChunk
  <2>3. ChunkFrame(i) \in Frames /\ ChunkFrame(i).n = i
    BY FrameFacts
  <2>4. ASSUME cur \in up
        PROVE  /\ i \in 1 .. made
               /\ \A h \in 1 .. (i - 1) : h \in stored \cup dropped
                                         \/ \E q \in 1 .. Len(wire[cur]) : wire[cur][q] = ChunkFrame(h)
    BY <2>1, <2>2, <2>4, NextChunk
  <2> QED
    BY <1>6, <2>1, <2>2, <2>3, <2>4
<1>10. ASSUME NEW k \in Conns, Break(k) \/ LoopQuits(k) \/ LoopEnds(k)
       PROVE  InOrder(wire'[j], made', stored' \cup dropped')
  <2>1. UNCHANGED <<made, stored, dropped>>
    BY <1>10 DEF Break, LoopQuits, LoopEnds, clientVars, bufferVars, serverVars
  <2>2. CASE j # k
    <3>1. wire'[j] = wire[j]
      BY <1>10, <2>2 DEF Break, LoopQuits, LoopEnds, NetTyped
    <3> QED
      BY <1>1, <2>1, <3>1
  <2>3. CASE j = k
    <3>1. Prefix(wire[j], 0) = <<>> /\ 0 \in 0 .. Len(wire[j])
      BY <1>0 DEF Prefix
    <3>2. PICK n \in 0 .. Len(wire[j]) : wire'[j] = Prefix(wire[j], n)
      <4>1. CASE Break(k)
        BY <2>3, <4>1 DEF Break, NetTyped
      <4>2. CASE LoopQuits(k) \/ LoopEnds(k)
        BY <2>3, <3>1, <4>2 DEF LoopQuits, LoopEnds, NetTyped
      <4> QED
        BY <1>10, <4>1, <4>2
    <3> QED
      BY <1>0, <2>1, <3>2, InOrderCut
  <2> QED
    BY <2>2, <2>3
<1>11. ASSUME NEW k \in Conns, Attach(k)
       PROVE  InOrder(wire'[j], made', stored' \cup dropped')
  <2>1. UNCHANGED <<made, stored, dropped, wire>>
    BY <1>11 DEF Attach, clientVars, bufferVars, netVars
  <2> QED
    BY <1>1, <2>1
<1>12. ASSUME NEW k \in Conns, ReadChunk(k) \/ ReadSize(k) \/ ReadReset(k) \/ ReadClose(k)
       PROVE  InOrder(wire'[j], made', stored' \cup dropped')
  <2>1. PICK kind : Reads(k, kind)
    BY <1>12 DEF ReadChunk, ReadSize, ReadReset, ReadClose
  <2>2. /\ wire[k] # <<>> /\ wire'[k] = Tail(wire[k]) /\ (j # k => wire'[j] = wire[j])
        /\ Head(wire[k]).kind = kind
    BY <2>1, ReadsFacts
  <2>3. made' = made /\ dropped' = dropped
    BY <2>1 DEF Reads, clientVars, bufferVars
  <2>4. stored \subseteq stored' /\ (kind = "chunk" => Head(wire[k]).n \in stored')
    BY <1>12, <2>2 DEF ReadChunk, ReadSize, ReadReset, ReadClose, Reads
  <2>5. stored \cup dropped \subseteq stored' \cup dropped'
    BY <2>3, <2>4
  <2>6. CASE j # k
    BY <1>0, <2>2, <2>3, <2>5, <2>6, OrderedSame
  <2>7. CASE j = k
    <3>1. Head(wire[j]).kind = "chunk" => Head(wire[j]).n \in stored' \cup dropped'
      BY <2>2, <2>4, <2>7
    <3> QED
      BY <1>0, <2>2, <2>3, <2>5, <2>7, <3>1, InOrderTail
  <2> QED
    BY <2>6, <2>7
<1> QED
  BY <1>2, <1>3, <1>4, <1>5, <1>7, <1>8, <1>9, <1>10, <1>11, <1>12 DEF Next, ClientStep, LoopStep

(* What a step does to the output: some is produced and some of it drops   *)
(* out, a chunk is stored, some stored ones are released, or nothing.      *)
Produces ==
  /\ made' \in (made + 1) .. Chunks /\ Low' \in Low .. made'
  /\ dropped' = dropped \cup ((Low + 1) .. Low') /\ stored' = stored
Stores ==
  \E i \in 1 .. made :
    /\ 1 .. (i - 1) \subseteq stored \cup dropped
    /\ stored' = stored \cup {i}
    /\ UNCHANGED <<made, dropped, Held, Low>>
Releases ==
  /\ Low' \in Low .. made /\ (Low + 1) .. Low' \subseteq stored
  /\ UNCHANGED <<made, stored, dropped>>
Keeps == UNCHANGED <<made, stored, dropped, Held, Low>>

(* Every step of the transport does one of these four things to the        *)
(* output.                                                                 *)
LEMMA OutputStep == IInv /\ Next => Produces \/ Stores \/ Releases \/ Keeps
<1> SUFFICES ASSUME IInv, Next PROVE Produces \/ Stores \/ Releases \/ Keeps
  OBVIOUS
<1> USE DEF IInv
<1>1. CASE Send
  <2>1. PICK n \in {1, 2} : made + n <= Chunks /\ Buffer(n)
    BY <1>1 DEF Send
  <2>2. /\ made' = made + n /\ dropped' = dropped \cup ((Low + 1) .. Low') /\ stored' = stored
        /\ Low <= Low' /\ BufferTyped' /\ Queued'
    BY <1>1, <2>1, BufferStep DEF Send, serverVars
  <2>3. Low' \in Nat /\ Low' <= made'
    <3>1. PICK M \in Nat, N \in Nat : M = Len(unacked') /\ N = Len(pending')
      BY <2>2 DEF BufferTyped
    <3>2. made' \in Nat /\ Low' \in Nat /\ Low' = made' - (M + N)
      BY <2>2, <3>1 DEF BufferTyped, Queued, Low
    <3>3. PICK m \in Nat, l \in Nat : m = made' /\ l = Low'
      BY <3>2
    <3>4. l = m - (M + N)
      BY <3>2, <3>3
    <3>5. l <= m
      BY <3>4
    <3> QED
      BY <3>3, <3>5
  <2>4. made \in Nat /\ Low \in Nat
    BY DEF BufferTyped, Queued
  <2> QED
    BY <2>1, <2>2, <2>3, <2>4, LengthFacts DEF Produces
<1>2. CASE DrainAck
  <2>1. PICK r \in 0 .. Len(unacked) : Low' = Low + r /\ \A i \in 1 .. r : unacked[i] \in stored
    BY <1>2, AckedStep
  <2>2. made' = made /\ dropped' = dropped /\ stored' = stored
    BY <1>2, AckedStep DEF DrainAck, serverVars
  <2>3. PICK M \in Nat, N \in Nat : M = Len(unacked) /\ N = Len(pending)
    BY DEF BufferTyped
  <2>4. Low \in Nat /\ made \in Nat /\ made = Low + (M + N) /\ r \in 0 .. M
    BY <2>3 DEF BufferTyped, Queued, Low
  <2>5. ASSUME NEW i \in (Low + 1) .. (Low + r) PROVE i \in stored
    <3>1. i - Low \in 1 .. r /\ i - Low \in 1 .. M /\ Low + (i - Low) = i
      BY <2>4
    <3>2. unacked[i - Low] = i
      BY <2>3, <3>1 DEF Queued, Run
    <3> QED
      BY <2>1, <3>1, <3>2
  <2>6. Low' \in Low .. made
    BY <2>1, <2>4
  <2> QED
    BY <2>1, <2>2, <2>5, <2>6 DEF Releases
<1>3. ASSUME NEW k \in Conns, ReadChunk(k) PROVE Stores
  <2>1. Reads(k, "chunk")
    BY <1>3 DEF ReadChunk
  <2>2. wire[k] \in Seq(Frames) /\ wire[k] # <<>> /\ Head(wire[k]).kind = "chunk" /\ made \in Nat
    BY <2>1, ReadsFacts DEF BufferTyped
  <2>3. InOrder(wire[k], made, stored \cup dropped)
    BY DEF Ordered
  <2>4. PICK i : i = Head(wire[k]).n
    OBVIOUS
  <2>5. i \in 1 .. made /\ 1 .. (i - 1) \subseteq stored \cup dropped
    <3>1. Head(wire[k]).n \in (stored \cup dropped) \cup {i}
      BY <2>4
    <3>2. stored \cup dropped \subseteq (stored \cup dropped) \cup {i}
      OBVIOUS
    <3> QED
      BY <2>2, <2>3, <2>4, <3>1, <3>2, InOrderTail
  <2>6. stored' = stored \cup {i} /\ UNCHANGED clientVars
    BY <1>3, <2>1, <2>4 DEF ReadChunk, Reads
  <2>7. UNCHANGED <<made, dropped, Held, Low>>
    BY <2>6 DEF clientVars, bufferVars, Held, Low
  <2> QED
    BY <2>5, <2>6, <2>7 DEF Stores
<1>4. CASE DrainDies \/ WriteFails
  BY <1>4, DisconnectStep DEF DrainDies, WriteFails, serverVars, Keeps
<1>5. CASE WriteChunk
  <2>1. Held' = Held /\ Low' = Low
    BY <1>5, WriteStep DEF WriteChunk
  <2> QED
    BY <1>5, <2>1 DEF WriteChunk, serverVars, Keeps
<1>6. CASE UNCHANGED <<made, unacked, pending, stored, dropped>>
  BY <1>6 DEF Keeps, Held, Low
<1>7. CASE Tick \/ Shutdown \/ DrainBlocks \/ NoSocket \/ BackoffEnds \/ HandshakeSucceeds
           \/ HandshakeFails \/ HandshakeRefused \/ WriteReset \/ WriteSize \/ FlushDone \/ Ping \/ Close
  BY <1>6, <1>7 DEF Tick, Shutdown, DrainBlocks, NoSocket, BackoffEnds, HandshakeSucceeds,
     HandshakeFails, HandshakeRefused, WriteReset, WriteSize, FlushDone, Ping, Close, bufferVars, serverVars
<1>8. ASSUME NEW k \in Conns, LoopStep(k) \/ Break(k) \/ LoopQuits(k), ~ReadChunk(k)
      PROVE  UNCHANGED <<made, unacked, pending, stored, dropped>>
  BY <1>8 DEF LoopStep, Attach, ReadSize, ReadReset, ReadClose, LoopEnds, Reads, Break, LoopQuits,
     clientVars, bufferVars, serverVars
<1> QED
  BY <1>1, <1>2, <1>3, <1>4, <1>5, <1>6, <1>7, <1>8 DEF Next, ClientStep, LoopStep

(* What left the buffer is stored or dropped, after every step.            *)
LEMMA CoveredStep == IInv /\ Next => Covered'
<1> SUFFICES ASSUME IInv, Next PROVE Covered'
  OBVIOUS
<1>0. /\ made \in Nat /\ Low \in Nat
      /\ stored \subseteq 1 .. made /\ dropped \subseteq 1 .. made
      /\ 1 .. Low \subseteq stored \cup dropped
  BY DEF IInv, BufferTyped, Queued, Covered
<1>1. CASE Produces
  <2>1. /\ made' \in Nat /\ made <= made' /\ Low' \in Nat /\ Low <= Low' /\ Low' <= made'
        /\ dropped' = dropped \cup ((Low + 1) .. Low') /\ stored' = stored
    BY <1>0, <1>1, LengthFacts DEF Produces
  <2>2. 1 .. made \subseteq 1 .. made' /\ (Low + 1) .. Low' \subseteq 1 .. made'
        /\ 1 .. Low' = (1 .. Low) \cup ((Low + 1) .. Low')
    BY <1>0, <2>1
  <2>3. stored' \subseteq 1 .. made' /\ dropped' \subseteq 1 .. made'
    BY <1>0, <2>1, <2>2
  <2>4. 1 .. Low' \subseteq stored' \cup dropped'
    BY <1>0, <2>1, <2>2
  <2> QED
    BY <2>3, <2>4 DEF Covered
<1>2. CASE Stores
  BY <1>0, <1>2 DEF Stores, Covered
<1>3. CASE Releases
  <2>1. /\ Low' \in Nat /\ Low <= Low' /\ (Low + 1) .. Low' \subseteq stored
        /\ made' = made /\ dropped' = dropped /\ stored' = stored
    BY <1>0, <1>3 DEF Releases
  <2>2. 1 .. Low' = (1 .. Low) \cup ((Low + 1) .. Low')
    BY <1>0, <2>1
  <2>3. 1 .. Low' \subseteq stored' \cup dropped'
    BY <1>0, <2>1, <2>2
  <2> QED
    BY <1>0, <2>1, <2>3 DEF Covered
<1>4. CASE Keeps
  BY <1>0, <1>4 DEF Keeps, Covered
<1> QED
  BY <1>1, <1>2, <1>3, <1>4, OutputStep

(* The invariant holds at the start.                                       *)
LEMMA InitInv == Init => IInv
<1> SUFFICES ASSUME Init PROVE IInv
  OBVIOUS
<1> USE DEF Init
<1>0. /\ made = 0 /\ pending = <<>> /\ unacked = <<>> /\ bufferedBytes = 0 /\ dropped = {} /\ stored = {}
      /\ cur = 0 /\ failures = 0 /\ pc = "handshake" /\ wire = [k \in Conns |-> <<>>]
  OBVIOUS
<1>1. BufferTyped
  BY LengthFacts DEF BufferTyped
<1>2. Low = 0
  <2>1. Len(unacked) = 0 /\ Len(pending) = 0
    BY <1>0
  <2>2. 0 - (0 + 0) = 0
    OBVIOUS
  <2> QED
    BY <1>0, <2>1, <2>2 DEF Low
<1>3. Queued
  <2>1. bufferedBytes = Bytes(unacked) + Bytes(pending) /\ bufferedBytes <= Cap
    BY <1>0, BytesEmpty, BoundsTyped
  <2> QED
    BY <1>0, <1>2, <2>1 DEF Queued, Run
<1>4. ControlTyped
  <2>1. 1 \in 1 .. Sizes /\ 0 \in 0 .. Sizes /\ 0 \in 0 .. Failures
    BY BoundsTyped
  <2> QED
    BY <2>1 DEF ControlTyped, NoSize
<1>5. NetTyped
  <2>1. <<>> \in Seq(Frames) /\ <<>> \in Seq(Nat)
    OBVIOUS
  <2> QED
    BY <2>1, BoundsTyped DEF NetTyped, NoSize
<1>6. Socket /\ Marks /\ Attempts
  BY DEF Socket, Marks, Attempts
<1>7. Unused
  BY DEF Unused, Pristine
<1>8. Ordered
  BY <1>0 DEF Ordered, InOrder
<1>9. Covered
  BY <1>0, <1>2 DEF Covered
<1> QED
  BY <1>1, <1>3, <1>4, <1>5, <1>6, <1>7, <1>8, <1>9 DEF IInv

(* Every step preserves the invariant.                                     *)
LEMMA NextInv == IInv /\ [Next]_vars => IInv'
<1>1. IInv /\ Next => IInv'
  <2> SUFFICES ASSUME IInv, Next PROVE IInv'
    OBVIOUS
  <2>1. BufferTyped' /\ Queued' /\ ControlTyped' /\ NetTyped'
    BY BufferNext, ControlStep, NetStep DEF IInv
  <2>2. Socket' /\ Attempts' /\ Unused'
    BY SocketStep, AttemptsStep, UnusedStep DEF IInv
  <2>3. Marks' /\ Ordered' /\ Covered'
    BY MarksStep, OrderedStep, CoveredStep
  <2> QED
    BY <2>1, <2>2, <2>3 DEF IInv
<1>2. IInv /\ UNCHANGED vars => IInv'
  <2> SUFFICES ASSUME IInv, UNCHANGED vars PROVE IInv'
    OBVIOUS
  <2>1. /\ UNCHANGED <<made, pending, unacked, bufferedBytes, connAcked, droppedUnacked, dropped>>
        /\ UNCHANGED <<size, sentSize, cur, backoff, pc, call, failures>>
        /\ UNCHANGED <<wire, acks, up, loop, received, history, roomSize, stored>>
    BY DEF vars, clientVars, bufferVars, netVars, serverVars
  <2>2. BufferTyped' /\ Queued'
    BY <2>1, BufferSame DEF IInv, bufferVars
  <2>3. ControlTyped' /\ NetTyped' /\ Socket' /\ Attempts' /\ Unused'
    BY <2>1 DEF IInv, ControlTyped, NetTyped, Socket, Attempts, Unused, Pristine
  <2>4. Marks'
    BY <2>1, MarksSame DEF IInv
  <2>5. Ordered' /\ Covered'
    BY <2>1 DEF IInv, Ordered, Covered, Low
  <2> QED
    BY <2>2, <2>3, <2>4, <2>5 DEF IInv
<1> QED
  BY <1>1, <1>2

(* The invariant holds in every behaviour, for any chunks, lengths, cap,   *)
(* sizes and number of failures.                                           *)
THEOREM Inductive == Spec => []IInv
  BY InitInv, NextInv, PTL DEF Spec

(* The invariant implies TypeOK.                                           *)
LEMMA TypesFollow == IInv => TypeOK
<1> SUFFICES ASSUME IInv PROVE TypeOK
  OBVIOUS
<1> USE DEF IInv
<1>1. Chunk = 1 .. Chunks
  BY DEF Chunk
<1>2. wire \in [Conns -> Seq(Frame)]
  <2>1. \A w \in Seq(Frames) : w \in Seq(Frame)
    BY FrameFacts
  <2> QED
    BY <2>1 DEF NetTyped
<1>3. \A i \in DOMAIN (unacked \o pending) :
        (unacked \o pending)[i] = made - Len(unacked \o pending) + i
  <2> DEFINE queue == unacked \o pending
  <2>1. queue \in Seq(Chunk) /\ Run(queue, Low) /\ Low + Len(queue) = made /\ Low \in Nat
    BY HeldIs DEF Queued
  <2> HIDE DEF queue
  <2>2. PICK N \in Nat : N = Len(queue) /\ DOMAIN queue = 1 .. N
    BY <2>1
  <2>3. \A i \in 1 .. N : queue[i] = made - N + i
    BY <2>1, <2>2 DEF Run
  <2> QED
    BY <2>2, <2>3 DEF queue
<1>4. bufferedBytes = Bytes(unacked) + Bytes(pending) /\ bufferedBytes <= Cap
  BY DEF Queued
<1>5. /\ made \in 0 .. Chunks /\ pending \in Seq(1 .. Chunks) /\ unacked \in Seq(1 .. Chunks)
      /\ bufferedBytes \in Nat /\ connAcked \in Nat /\ droppedUnacked \in Nat
      /\ dropped \subseteq 1 .. Chunks
  BY <1>1 DEF BufferTyped
<1>6. /\ acks \in [Conns -> Seq(Nat)] /\ up \subseteq Conns
      /\ loop \in [Conns -> {"none", "upgrading", "open", "closed"}]
      /\ received \in [Conns -> Nat] /\ history \subseteq 1 .. Chunks /\ roomSize \in 0 .. Sizes
      /\ stored \subseteq 1 .. Chunks
  BY <1>1 DEF NetTyped
<1>7. /\ size \in 1 .. Sizes /\ sentSize \in 0 .. Sizes /\ cur \in Conns \cup {0} /\ backoff \in BOOLEAN
      /\ pc \in {"handshake", "reset", "idle", "drain", "size", "chunks", "ping", "closing", "exit"}
      /\ call \in {"connect", "send", "tick", "shutdown"} /\ failures \in 0 .. Failures
  BY DEF ControlTyped
<1> HIDE DEF IInv
<1> QED
  BY <1>2, <1>3, <1>4, <1>5, <1>6, <1>7 DEF TypeOK

(* The queues hold consecutive chunks of the output up to the newest, and  *)
(* buffered_bytes is exactly what they hold and within the cap, through    *)
(* every drop, ack and reconnect (buffer_plaintext, apply_ack,             *)
(* disconnect), for any chunk lengths and cap.                             *)
THEOREM TypeCorrect == Spec => []TypeOK
  BY Inductive, TypesFollow, PTL

(* The invariant implies CreditMatchesWire.                                *)
LEMMA CreditFollows == IInv => CreditMatchesWire
<1> SUFFICES ASSUME IInv, cur \in up
             PROVE  /\ connAcked + droppedUnacked + Bytes(unacked) = received[cur] + Payload(wire[cur])
                    /\ \A j \in DOMAIN acks[cur] :
                         connAcked <= acks[cur][j] /\ acks[cur][j] <= received[cur]
  BY DEF CreditMatchesWire
<1>1. cur # 0
  BY ConnsTyped DEF IInv, NetTyped
<1>2. /\ Ledger(unacked, Base, wire[cur], received[cur], stored, cur \in up)
      /\ Receipts(unacked, Base, connAcked, received[cur], acks[cur])
  BY <1>1 DEF IInv, Marks
<1>3. Ledger(unacked, Base, wire[cur], received[cur], stored, TRUE)
  BY <1>2 DEF Ledger
<1> QED
  BY <1>2, <1>3, BooksAgree DEF Base

(* On a connection that stands, the client's count of what it wrote is     *)
(* exactly what the server counted or has yet to read, and no ack under    *)
(* way exceeds what was stored (apply_ack and the loop's received_bytes),  *)
(* for any number of drops, acks and reconnects.                           *)
THEOREM CreditExact == Spec => []CreditMatchesWire
  BY Inductive, CreditFollows, PTL

(* The transport starts as its abstraction does.                           *)
LEMMA DeliveryInit == Init => Delivery!Init
  BY DEF Init, Delivery!Init, Held, ToSet

(* Every step of the transport is a step of the abstraction, or changes    *)
(* nothing of what it shows.                                               *)
LEMMA DeliveryNext == IInv /\ IInv' /\ [Next]_vars => [Delivery!Next]_(Delivery!vars)
<1> SUFFICES ASSUME IInv, IInv', [Next]_vars PROVE [Delivery!Next]_(Delivery!vars)
  OBVIOUS
<1>0. /\ made \in Nat /\ Low \in Nat /\ made' \in Nat /\ Low' \in Nat
      /\ Held = (Low + 1) .. made
  BY HeldIs DEF IInv, BufferTyped, Queued
<1>1. Held' = (Low' + 1) .. made'
  <2>1. (BufferTyped /\ Queued => Held = (Low + 1) .. made)'
    BY HeldIs, PTL
  <2> QED
    BY <2>1 DEF IInv
<1>2. CASE Produces
  <2> DEFINE all == Held \cup ((made + 1) .. made')
             out == (Low + 1) .. Low'
  <2>1. /\ made' \in (made + 1) .. Chunks /\ Low' \in Low .. made'
        /\ dropped' = dropped \cup out /\ stored' = stored
    BY <1>2 DEF Produces
  <2>2. Low <= made
    <3>1. PICK M \in Nat, N \in Nat : M = Len(unacked) /\ N = Len(pending)
      BY DEF IInv, BufferTyped
    <3> QED
      BY <1>0, <3>1 DEF Low
  <2>3. all = (Low + 1) .. made'
    BY <1>0, <2>1, <2>2
  <2>4. out \in SUBSET all /\ Held' = all \ out /\ \A i \in out, j \in all \ out : i < j
    BY <1>0, <1>1, <2>1, <2>3
  <2>5. Delivery!Produce
    BY <2>1, <2>4 DEF Delivery!Produce
  <2> QED
    BY <2>5 DEF Delivery!Next
<1>3. CASE Stores
  <2>1. Delivery!Store
    BY <1>3 DEF Stores, Delivery!Store
  <2> QED
    BY <2>1 DEF Delivery!Next
<1>4. CASE Releases
  <2> DEFINE out == (Low + 1) .. Low'
  <2>1. /\ Low' \in Low .. made /\ out \subseteq stored
        /\ made' = made /\ stored' = stored /\ dropped' = dropped
    BY <1>4 DEF Releases
  <2>2. out \in SUBSET (Held \cap stored) /\ Held' = Held \ out /\ \A i \in out, j \in Held \ out : i < j
    BY <1>0, <1>1, <2>1
  <2>3. Delivery!Release
    BY <2>1, <2>2 DEF Delivery!Release
  <2> QED
    BY <2>3 DEF Delivery!Next
<1>5. CASE Keeps
  BY <1>5 DEF Keeps, Delivery!vars
<1>6. CASE UNCHANGED vars
  BY <1>6 DEF vars, clientVars, bufferVars, serverVars, Held, Delivery!vars
<1> QED
  BY <1>2, <1>3, <1>4, <1>5, <1>6, OutputStep

(* The transport implements AtLeastOnce: every chunk is held until it is   *)
(* stored or dropped by the cap, none is released before it is stored, and *)
(* none is stored for the first time while an older one is missing,        *)
(* whatever breaks.                                                        *)
THEOREM DeliversAtLeastOnce == Spec => AtLeastOnceDelivery
  BY Inductive, DeliveryInit, DeliveryNext, PTL DEF Spec, AtLeastOnceDelivery, Delivery!Spec

-----------------------------------------------------------------------------
(* What AtLeastOnce promises, of any output that keeps to it.              *)

(* The types the steps need: the client holds and the server stores chunks *)
(* that were made.                                                         *)
Types == made \in Nat /\ Held \subseteq 1 .. made /\ stored \subseteq 1 .. made

(* Both promises, together inductive.                                      *)
Promise == Types /\ Delivery!NothingLost /\ Delivery!NoHoles

(* The promise holds at the start.                                         *)
LEMMA InitPromise == Delivery!Init => Promise
  BY DEF Delivery!Init, Promise, Types, Delivery!NothingLost, Delivery!NoHoles

(* A chunk that is made is held, and what it pushes out is dropped.        *)
LEMMA ProducePromise == Promise /\ Delivery!Produce => Promise'
<1> SUFFICES ASSUME Promise, Delivery!Produce PROVE Promise'
  OBVIOUS
<1>1. PICK n \in (made + 1) .. Chunks :
        \E out \in SUBSET (Held \cup ((made + 1) .. n)) :
          /\ made' = n
          /\ Held' = (Held \cup ((made + 1) .. n)) \ out
          /\ dropped' = dropped \cup out
          /\ stored' = stored
  BY DEF Delivery!Produce
<1>2. PICK out \in SUBSET (Held \cup ((made + 1) .. n)) :
          /\ made' = n
          /\ Held' = (Held \cup ((made + 1) .. n)) \ out
          /\ dropped' = dropped \cup out
          /\ stored' = stored
  BY <1>1
<1>3. made \in Nat /\ n \in Nat /\ made < n
  BY <1>1 DEF Promise, Types
<1>4. 1 .. n = (1 .. made) \cup ((made + 1) .. n)
  BY <1>3
<1>5. Types'
  BY <1>2, <1>3, <1>4 DEF Promise, Types
<1>6. Delivery!NothingLost'
  BY <1>2, <1>4 DEF Promise, Delivery!NothingLost
<1>7. Delivery!NoHoles'
  BY <1>2, <1>4 DEF Promise, Delivery!NoHoles
<1> QED
  BY <1>5, <1>6, <1>7 DEF Promise

(* What is stored has everything before it stored or dropped.              *)
LEMMA StorePromise == Promise /\ Delivery!Store => Promise'
<1> SUFFICES ASSUME Promise, Delivery!Store PROVE Promise'
  OBVIOUS
<1>1. PICK i \in 1 .. made :
        /\ \A j \in 1 .. (i - 1) : j \in stored \cup dropped
        /\ stored' = stored \cup {i}
        /\ made' = made /\ Held' = Held /\ dropped' = dropped
  BY DEF Delivery!Store
<1>2. Types' /\ Delivery!NothingLost'
  BY <1>1 DEF Promise, Types, Delivery!NothingLost
<1>3. Delivery!NoHoles'
  <2> SUFFICES ASSUME NEW k \in stored'
               PROVE  k \in 1 .. made /\ 1 .. (k - 1) \subseteq stored \cup dropped
    BY <1>1 DEF Delivery!NoHoles
  <2>1. CASE k \in stored
    BY <2>1 DEF Promise, Delivery!NoHoles
  <2>2. CASE k = i
    BY <1>1, <2>2
  <2> QED
    BY <1>1, <2>1, <2>2
<1> QED
  BY <1>2, <1>3 DEF Promise

(* Only what is stored is released.                                        *)
LEMMA ReleasePromise == Promise /\ Delivery!Release => Promise'
<1> SUFFICES ASSUME Promise, Delivery!Release PROVE Promise'
  OBVIOUS
<1>1. PICK out \in SUBSET (Held \cap stored) :
        /\ Held' = Held \ out
        /\ made' = made /\ stored' = stored /\ dropped' = dropped
  BY DEF Delivery!Release
<1>2. Held' \cup stored' = Held \cup stored
  BY <1>1
<1> QED
  BY <1>1, <1>2 DEF Promise, Types, Delivery!NothingLost, Delivery!NoHoles

(* The promise is inductive.                                               *)
LEMMA NextPromise == Promise /\ [Delivery!Next]_(Delivery!vars) => Promise'
<1>1. Promise /\ UNCHANGED Delivery!vars => Promise'
  BY DEF Promise, Types, Delivery!NothingLost, Delivery!NoHoles, Delivery!vars
<1> QED
  BY <1>1, ProducePromise, StorePromise, ReleasePromise DEF Delivery!Next

(* However chunks are produced, stored again and released, none of them is *)
(* lost but by the cap (buffer_plaintext), and what is stored has no holes *)
(* but those the cap made.                                                 *)
THEOREM AtLeastOnceHasNoHoles == Delivery!Spec => [](Delivery!NothingLost /\ Delivery!NoHoles)
<1>1. Promise => Delivery!NothingLost /\ Delivery!NoHoles
  BY DEF Promise
<1> QED
  BY <1>1, InitPromise, NextPromise, PTL DEF Delivery!Spec

(* So it is with the transport's output.                                   *)
THEOREM OutputHasNoHoles == Spec => [](Delivery!NothingLost /\ Delivery!NoHoles)
  BY DeliversAtLeastOnce, AtLeastOnceHasNoHoles, PTL DEF AtLeastOnceDelivery

-----------------------------------------------------------------------------
(* The dial.                                                               *)

DialState == [remaining : Nat, left : Int, at : Nat, to : Nat]

(* What the constants of a dial are.                                       *)
LEMMA DialFacts ==
  DialTimeout \in Nat /\ MinDialAttempt \in Nat /\ MinDialAttempt # 0 /\ DialTimeout # 0
  BY DialTyped

(* The smaller and the larger of two numbers.                              *)
LEMMA MinMaxOfTwo ==
  ASSUME NEW x \in Nat, NEW y \in Nat
  PROVE  /\ Min({x, y}) = IF x <= y THEN x ELSE y
         /\ Max({x, y}) = IF x >= y THEN x ELSE y
<1> DEFINE l == IF x <= y THEN x ELSE y
           m == IF x >= y THEN x ELSE y
           T == {x, y}
<1>1. l \in T /\ m \in T /\ \A z \in T : z \in Nat /\ l <= z /\ m >= z
  OBVIOUS
<1> HIDE DEF l, m, T
<1>2. \A w \in T : ((\A z \in T : w <= z) <=> w = l) /\ ((\A z \in T : w >= z) <=> w = m)
  BY <1>1
<1>3. Min(T) = l
  BY <1>1, <1>2 DEF Min
<1>4. Max(T) = m
  BY <1>1, <1>2 DEF Max
<1> QED
  BY <1>3, <1>4 DEF l, m, T

(* A quotient.                                                             *)
LEMMA Quotient ==
  ASSUME NEW r \in Nat, NEW n \in Nat, n # 0
  PROVE  r \div n \in Nat /\ n * (r \div n) <= r
  OBVIOUS

(* An attempt's slice is within the budget, not too thin unless that is    *)
(* all there is, and otherwise no more than its share.                     *)
LEMMA SliceIs ==
  ASSUME NEW r \in Nat, NEW n \in Nat, n # 0
  PROVE  \E s \in 0 .. r :
            /\ Slice(r, n) = s
            /\ s >= MinDialAttempt \/ s = r
            /\ s <= MinDialAttempt \/ n * s <= r
<1>1. PICK q \in Nat : q = r \div n /\ n * q <= r
  BY Quotient
<1>2. PICK m \in Nat : m = MinDialAttempt
  BY DialFacts
<1> DEFINE x == IF q >= m THEN q ELSE m
           s == IF r <= x THEN r ELSE x
<1>3. x \in Nat /\ Slice(r, n) = s
  <2>1. x \in Nat /\ Max({q, m}) = x
    BY MinMaxOfTwo
  <2> HIDE DEF x
  <2>2. Min({r, x}) = s
    BY <2>1, MinMaxOfTwo
  <2> QED
    BY <1>1, <1>2, <2>1, <2>2 DEF Slice
<1>4. s \in 0 .. r /\ (s >= m \/ s = r)
  OBVIOUS
<1>5. s <= m \/ n * s <= r
  <2>1. CASE q >= m /\ q <= r
    <3>1. s = q
      BY <2>1
    <3> QED
      BY <1>1, <3>1
  <2>2. CASE ~(q >= m)
    BY <2>2
  <2>3. CASE ~(q <= r)
    <3>1. n * q >= q
      <4>1. PICK k \in Nat : n = k + 1
        <5>1. n - 1 \in Nat /\ n = (n - 1) + 1
          OBVIOUS
        <5> QED
          BY <5>1
      <4>2. (k + 1) * q = k * q + q /\ k * q \in Nat
        OBVIOUS
      <4> QED
        BY <4>1, <4>2
    <3>2. n * q \in Nat
      OBVIOUS
    <3> QED
      BY <1>1, <2>3, <3>1, <3>2
  <2> QED
    BY <2>1, <2>2, <2>3
<1> HIDE DEF s
<1> QED
  BY <1>2, <1>3, <1>4, <1>5

(* One address more.                                                       *)
LEMMA AttemptIs ==
  ASSUME NEW d \in DialState, NEW kind \in Kinds, d.left > 0, d.remaining <= DialTimeout
  PROVE  /\ Attempt(d, kind) \in DialState
         /\ Attempt(d, kind).left = d.left - 1 /\ Attempt(d, kind).at = d.at + 1
         /\ Attempt(d, kind).remaining <= d.remaining
         /\ d.to # 0 => Attempt(d, kind).to = d.to
         /\ d.to = 0 =>
              /\ kind = "refused" => Attempt(d, kind).remaining = d.remaining /\ Attempt(d, kind).to = 0
              /\ kind = "silent" =>
                   /\ Attempt(d, kind).remaining = d.remaining - Slice(d.remaining, d.left)
                   /\ Attempt(d, kind).to = 0
              /\ kind = "prompt" /\ Slice(d.remaining, d.left) > 0 => Attempt(d, kind).to = d.at
              /\ kind = "slow" /\ Slice(d.remaining, d.left) >= MinDialAttempt =>
                   Attempt(d, kind).to = d.at
<1>1. PICK r \in Nat, n \in Nat : r = d.remaining /\ n = d.left /\ n # 0
  BY DEF DialState
<1>2. PICK s \in 0 .. r : Slice(d.remaining, d.left) = s
  BY <1>1, SliceIs
<1>3. PICK m \in Nat, B \in Nat : m = MinDialAttempt /\ B = DialTimeout /\ m # 0
  BY DialFacts
<1>4. PICK t \in Nat : t = Takes(kind)
  BY <1>3 DEF Takes, Kinds
<1> DEFINE p == IF t <= s THEN t ELSE s
<1>5. Min({Takes(kind), s}) = p /\ p \in 0 .. r
  BY <1>4, MinMaxOfTwo
<1>6. d.at \in Nat /\ d.to \in Nat
  BY DEF DialState
<1>7. Attempt(d, kind) =
        IF d.to # 0 \/ s = 0 THEN [d EXCEPT !.left = n - 1, !.at = d.at + 1]
        ELSE [remaining |-> r - p, left |-> n - 1, at |-> d.at + 1,
              to |-> IF kind # "refused" /\ t <= s THEN d.at ELSE 0]
  BY <1>1, <1>2, <1>4, <1>5 DEF Attempt
<1>8. /\ kind = "refused" => t = 0
      /\ kind = "prompt" => t = 0
      /\ kind = "slow" => t = m
      /\ kind = "silent" => t = B + 1
  BY <1>3, <1>4 DEF Takes
<1>9. r <= B
  BY <1>1, <1>3
<1>10. CASE d.to # 0 \/ s = 0
  <2>1. PICK i \in Int, j \in Nat : i = n - 1 /\ j = d.at + 1
    BY <1>6
  <2>6. Attempt(d, kind) = [d EXCEPT !.left = i, !.at = j]
    BY <1>7, <1>10, <2>1
  <2>7. PICK e : e = Attempt(d, kind)
    OBVIOUS
  <2>10. e = [d EXCEPT !.left = i, !.at = j]
    BY <2>6, <2>7
  <2>11. e \in DialState /\ e.left = i /\ e.at = j /\ e.remaining = d.remaining /\ e.to = d.to
    BY <2>10 DEF DialState
  <2>8. /\ Attempt(d, kind).left = n - 1
        /\ Attempt(d, kind).at = d.at + 1 /\ Attempt(d, kind).remaining = r
        /\ Attempt(d, kind).to = d.to
    BY <1>1, <2>1, <2>7, <2>11
  <2>9. Attempt(d, kind) \in DialState
    BY <2>7, <2>11
  <2>3. d.to = 0 => s = 0
    BY <1>10
  <2>4. r - 0 = r /\ ~(0 >= m) /\ ~(0 > 0) /\ r <= r
    BY <1>3
  <2> QED
    BY <1>1, <1>2, <1>3, <2>8, <2>9, <2>3, <2>4
<1>11. CASE ~(d.to # 0 \/ s = 0)
  <2>1. Attempt(d, kind) = [remaining |-> r - p, left |-> n - 1, at |-> d.at + 1,
                            to |-> IF kind # "refused" /\ t <= s THEN d.at ELSE 0]
    BY <1>7, <1>11
  <2>2. r - p \in Nat /\ r - p <= r /\ n - 1 \in Int /\ d.at + 1 \in Nat
    BY <1>5, <1>6
  <2>3. /\ Attempt(d, kind).left = n - 1
        /\ Attempt(d, kind).at = d.at + 1 /\ Attempt(d, kind).remaining = r - p
        /\ Attempt(d, kind).to = IF kind # "refused" /\ t <= s THEN d.at ELSE 0
    BY <2>1
  <2>4. Attempt(d, kind) \in DialState
    BY <1>6, <2>1, <2>2 DEF DialState
  <2>5. kind = "refused" => r - p = r
    BY <1>8
  <2>6. kind = "silent" => p = s /\ ~(t <= s)
    BY <1>8, <1>9
  <2>7. kind = "prompt" => t <= s
    BY <1>8
  <2>8. kind = "slow" /\ s >= m => t <= s
    BY <1>8
  <2> HIDE DEF p
  <2> QED
    BY <1>1, <1>2, <1>3, <1>11, <2>2, <2>3, <2>4, <2>5, <2>6, <2>7, <2>8
<1> QED
  BY <1>10, <1>11

(* What a dial begins with.                                                *)
NewDial(L) == [remaining |-> DialTimeout, left |-> L, at |-> 1, to |-> 0]

(* The states of a dial, one per address.                                  *)
Dialing(kinds, f) ==
  /\ f \in [0 .. Len(kinds) -> DialState] /\ f[0] = NewDial(Len(kinds))
  /\ \A n \in 1 .. Len(kinds) : f[n] = Attempt(f[n - 1], kinds[n])

(* What Dialed's recursive definition means.                               *)
LEMMA DialDefined ==
  ASSUME NEW kinds \in Seq(Kinds)
  PROVE  \E f : /\ Dialing(kinds, f) /\ Dialed(kinds) = f[Len(kinds)]
                /\ \A n \in 0 .. Len(kinds) :
                     f[n].left = Len(kinds) - n /\ f[n].at = n + 1 /\ f[n].remaining <= DialTimeout
<1>1. PICK L \in Nat : L = Len(kinds)
  OBVIOUS
<1>2. \A n \in 1 .. L : kinds[n] \in Kinds
  BY <1>1
<1> DEFINE Follow(n, d) == IF Attempt(d, kinds[n]) \in DialState THEN Attempt(d, kinds[n]) ELSE d
           g == [n \in 1 .. L |-> [d \in DialState |-> Follow(n, d)]]
<1>3. NewDial(L) \in DialState
  BY DialFacts DEF NewDial, DialState
<1>4. g \in [1 .. L -> [DialState -> DialState]]
  OBVIOUS
<1>5. \A n \in 1 .. L : \A d \in DialState : g[n][d] = Follow(n, d)
  OBVIOUS
<1> HIDE DEF g
<1>6. PICK f \in [0 .. L -> DialState] : f[0] = NewDial(L) /\ \A n \in 1 .. L : f[n] = g[n][f[n - 1]]
  <2>1. Recursive(L, DialState, NewDial(L), g) # {}
    BY <1>3, <1>4, Recursion
  <2> QED
    BY <2>1 DEF Recursive
<1> DEFINE Known(n) == f[n].left = L - n /\ f[n].at = n + 1 /\ f[n].remaining <= DialTimeout
           Good == {n \in 0 .. L : Known(n)}
<1>7. ASSUME NEW n \in 1 .. L, Known(n - 1) PROVE f[n] = Attempt(f[n - 1], kinds[n]) /\ Known(n)
  <2>1. PICK d \in DialState : d = f[n - 1]
    <3>1. n - 1 \in 0 .. L
      OBVIOUS
    <3> QED
      BY <1>6, <3>1
  <2>2. d.left = L - (n - 1) /\ d.left > 0 /\ d.at = (n - 1) + 1 /\ d.remaining <= DialTimeout
    BY <1>7, <2>1
  <2>3. /\ Attempt(d, kinds[n]) \in DialState
        /\ Attempt(d, kinds[n]).left = d.left - 1 /\ Attempt(d, kinds[n]).at = d.at + 1
        /\ Attempt(d, kinds[n]).remaining <= d.remaining
    BY <1>2, <2>2, AttemptIs
  <2>4. f[n] = Attempt(d, kinds[n])
    BY <1>5, <1>6, <2>1, <2>3
  <2>5. f[n].left = L - n /\ f[n].at = n + 1
    BY <2>2, <2>3, <2>4
  <2>6. f[n].remaining <= DialTimeout
    <3>1. PICK x \in Nat, y \in Nat, z \in Nat : x = f[n].remaining /\ y = d.remaining /\ z = DialTimeout
      BY <2>3, <2>4, DialFacts DEF DialState
    <3> QED
      BY <2>2, <2>3, <2>4, <3>1
  <2> QED
    BY <2>1, <2>4, <2>5, <2>6
<1>8. \A n \in 0 .. L : Known(n)
  <2>1. 0 \in Good
    <3>1. DialTimeout <= DialTimeout /\ L - 0 = L /\ 0 + 1 = 1
      BY DialFacts
    <3> QED
      BY <1>6, <3>1 DEF NewDial
  <2>2. ASSUME NEW n \in 0 .. L - 1, n \in Good PROVE n + 1 \in Good
    <3>1. PICK k \in 1 .. L : k = n + 1 /\ k - 1 = n /\ k \in 0 .. L
      OBVIOUS
    <3>2. Known(k)
      BY <1>7, <2>2, <3>1
    <3> HIDE DEF Known
    <3> QED
      BY <3>1, <3>2
  <2>3. 0 .. L \subseteq Good
    <3> HIDE DEF Good
    <3> QED
      BY <2>1, <2>2, SetInduction
  <2> HIDE DEF Known
  <2> QED
    BY <2>3
<1>9. \A n \in 1 .. L : f[n] = Attempt(f[n - 1], kinds[n])
  <2> TAKE n \in 1 .. L
  <2>1. n - 1 \in 0 .. L
    OBVIOUS
  <2> HIDE DEF Known
  <2> QED
    BY <1>7, <1>8, <2>1
<1> DEFINE Rec(h) == [n \in 0 .. L |-> IF n = 0 THEN NewDial(L) ELSE Attempt(h[n - 1], kinds[n])]
<1>10. f = Rec(f)
  <2>1. f = [n \in 0 .. L |-> f[n]]
    BY <1>6
  <2>2. \A n \in 0 .. L : f[n] = IF n = 0 THEN NewDial(L) ELSE Attempt(f[n - 1], kinds[n])
    <3> TAKE n \in 0 .. L
    <3>1. n = 0 \/ n \in 1 .. L
      OBVIOUS
    <3> QED
      BY <1>6, <1>9, <3>1
  <2> QED
    BY <2>1, <2>2
<1> DEFINE h == CHOOSE h : h = Rec(h)
<1>11. h = Rec(h)
  BY <1>10
<1>12. Dialed(kinds) = h[L]
  BY <1>1 DEF Dialed, NewDial
<1> HIDE DEF h
<1>13. \A n \in 0 .. L : h[n] = IF n = 0 THEN NewDial(L) ELSE Attempt(h[n - 1], kinds[n])
  <2> TAKE n \in 0 .. L
  <2> QED
    BY <1>11
<1>14. h[L] = f[L]
  <2> DEFINE Same == {n \in 0 .. L : h[n] = f[n]}
  <2>1. 0 \in Same
    BY <1>6, <1>13
  <2>2. ASSUME NEW n \in 0 .. L - 1, n \in Same PROVE n + 1 \in Same
    <3>1. PICK k \in 1 .. L : k = n + 1 /\ k - 1 = n /\ k \in 0 .. L /\ k # 0
      OBVIOUS
    <3>2. h[k] = Attempt(h[k - 1], kinds[k])
      BY <1>13, <3>1
    <3>3. h[k - 1] = f[k - 1]
      BY <2>2, <3>1
    <3>4. h[k] = f[k]
      BY <1>9, <3>2, <3>3
    <3> QED
      BY <3>1, <3>4
  <2>3. 0 .. L \subseteq Same
    <3> HIDE DEF Same
    <3> QED
      BY <2>1, <2>2, SetInduction
  <2>4. L \in 0 .. L
    OBVIOUS
  <2> QED
    BY <2>3, <2>4
<1> HIDE DEF Known
<1>15. Dialing(kinds, f)
  BY <1>1, <1>6, <1>9 DEF Dialing
<1> QED
  BY <1>1, <1>8, <1>12, <1>14, <1>15 DEF Known

(* An attempt leaves the slices of those after it.                         *)
LEMMA OneSliceLess ==
  ASSUME NEW r \in Nat, NEW k \in Nat, NEW m \in Nat, NEW c \in Nat, c <= m,
         NEW e \in Nat, NEW s \in 0 .. r,
         r >= (k + 1) * m + c,
         s <= m \/ (k + 2 + e) * s <= r
  PROVE  r - s \in Nat /\ r - s >= k * m + c
<1>1. (k + 1) * m = k * m + m /\ k * m \in Nat
  OBVIOUS
<1>2. PICK p \in Nat : p = k * m
  BY <1>1
<1>3. r >= p + m + c
  BY <1>1, <1>2
<1>4. CASE s <= m
  BY <1>2, <1>3, <1>4
<1>5. CASE ~(s <= m)
  <2>1. (k + 2 + e) * s <= r
    BY <1>5
  <2>2. PICK d \in Nat : s = m + d
    <3>1. s - m \in Nat /\ s = m + (s - m)
      BY <1>5
    <3> QED
      BY <3>1
  <2>3. (k + 2 + e) * s = k * s + s + s + e * s /\ k * s \in Nat /\ e * s \in Nat
    OBVIOUS
  <2>4. k * (m + d) = k * m + k * d /\ k * d \in Nat
    OBVIOUS
  <2>5. PICK ks \in Nat, es \in Nat, kd \in Nat :
           ks = k * s /\ es = e * s /\ kd = k * d /\ ks + s + s + es <= r /\ ks = p + kd
    BY <1>2, <2>1, <2>2, <2>3, <2>4
  <2>6. r - s >= p + c
    BY <1>5, <2>5
  <2> QED
    BY <1>2, <2>6
<1> QED
  BY <1>4, <1>5

(* Of L addresses n are done: there are two more than silent ones among    *)
(* those before the last.                                                  *)
LEMMA EnoughToGo ==
  ASSUME NEW n \in Nat, NEW y \in Nat, NEW b \in Nat, NEW L \in Nat, NEW l \in Nat,
         n + 1 + y <= b, b + 1 <= L, l = L - n
  PROVE  \E e \in Nat : l = y + 2 + e
<1>1. l >= y + 2
  OBVIOUS
<1>2. l - (y + 2) \in Nat /\ l = y + 2 + (l - (y + 2))
  BY <1>1
<1> QED
  BY <1>2

(* The silent addresses after the n-th and before the b + 1st.             *)
Silents(kinds, n, b) == {j \in n + 1 .. b : kinds[j] = "silent"}

(* One address less to go.                                                 *)
LEMMA SilentsAt ==
  ASSUME NEW kinds, NEW n \in Nat, NEW b \in Nat, n + 1 <= b
  PROVE  \E x \in Nat, y \in Nat :
            /\ x = Cardinality(Silents(kinds, n, b)) /\ y = Cardinality(Silents(kinds, n + 1, b))
            /\ x = IF kinds[n + 1] = "silent" THEN y + 1 ELSE y
            /\ n + 1 + y <= b
<1>1. PICK k \in Nat : k = n + 1 /\ k <= b
  OBVIOUS
<1> DEFINE S == Silents(kinds, n, b)
           T == Silents(kinds, n + 1, b)
<1>2. T \in SUBSET (k + 1 .. b) /\ k \notin T
  BY <1>1 DEF Silents
<1>3. IsFiniteSet(T) /\ Cardinality(T) <= b - k
  <2>1. IsFiniteSet(k + 1 .. b) /\ Cardinality(k + 1 .. b) = b - k
    <3>1. k + 1 \in Int /\ b \in Int /\ (k + 1 > b => b - k = 0) /\ b - (k + 1) + 1 = b - k
      BY <1>1
    <3> QED
      BY <3>1, FS_Interval
  <2> QED
    BY <1>2, <2>1, FS_Subset
<1>4. PICK y \in Nat : y = Cardinality(T)
  BY <1>3, FS_CardinalityType
<1>5. S = IF kinds[k] = "silent" THEN T \cup {k} ELSE T
  BY <1>1 DEF Silents
<1>6. Cardinality(T \cup {k}) = y + 1
  BY <1>2, <1>3, <1>4, FS_AddElement
<1> HIDE DEF S, T
<1>7. Cardinality(S) = IF kinds[k] = "silent" THEN y + 1 ELSE y
  BY <1>4, <1>5, <1>6
<1>8. k + y <= b
  <2>1. PICK z \in Nat : z = b - k /\ y <= z
    BY <1>1, <1>3, <1>4
  <2> QED
    BY <1>1, <2>1
<1> DEFINE x == IF kinds[k] = "silent" THEN y + 1 ELSE y
<1>9. x \in Nat
  OBVIOUS
<1>10. /\ x = Cardinality(S) /\ y = Cardinality(T)
       /\ x = IF kinds[n + 1] = "silent" THEN y + 1 ELSE y
       /\ n + 1 + y <= b
  BY <1>1, <1>4, <1>7, <1>8
<1> HIDE DEF x
<1> QED
  BY <1>9, <1>10 DEF S, T

(* None are left before the b + 1st when all b have been tried.            *)
LEMMA SilentsNone ==
  ASSUME NEW kinds, NEW b \in Nat
  PROVE  Cardinality(Silents(kinds, b, b)) = 0
<1>1. Silents(kinds, b, b) = {}
  BY DEF Silents
<1> QED
  BY <1>1, FS_EmptySet

(* How many there are is a number.                                         *)
LEMMA SilentsTyped ==
  ASSUME NEW kinds, NEW n \in Nat, NEW b \in Nat
  PROVE  Cardinality(Silents(kinds, n, b)) \in Nat
<1>1. IsFiniteSet(n + 1 .. b)
  BY FS_Interval
<1>2. IsFiniteSet(Silents(kinds, n, b))
  BY <1>1, FS_Subset DEF Silents
<1> QED
  BY <1>2, FS_CardinalityType

(* What is left after the first n addresses, none of which is connected    *)
(* to: a slice for each silent one to come, and c.                         *)
Left(kinds, f, n, b, c) ==
  f[n].to = 0 /\ f[n].remaining >= Cardinality(Silents(kinds, n, b)) * MinDialAttempt + c

(* Where the dial is after n addresses, and that the next is not the last  *)
(* and does not answer.                                                    *)
Going(kinds, f, n) ==
  f[n].left = Len(kinds) - n /\ f[n].at = n + 1 /\ f[n].remaining <= DialTimeout
Ahead(kinds, n, b) ==
  n + 1 <= b /\ b + 1 <= Len(kinds) /\ kinds[n + 1] \in {"refused", "silent"}

(* An address that does not answer keeps that.                             *)
LEMMA StillLeft ==
  ASSUME NEW kinds \in Seq(Kinds), NEW f, Dialing(kinds, f),
         NEW n \in Nat, NEW b \in Nat, Ahead(kinds, n, b), Going(kinds, f, n),
         NEW c \in Nat, c <= MinDialAttempt,
         Left(kinds, f, n, b, c)
  PROVE  Left(kinds, f, n + 1, b, c)
<1>1. PICK x \in Nat, y \in Nat :
         /\ x = Cardinality(Silents(kinds, n, b)) /\ y = Cardinality(Silents(kinds, n + 1, b))
         /\ x = IF kinds[n + 1] = "silent" THEN y + 1 ELSE y
         /\ n + 1 + y <= b
  <2>1. n + 1 <= b
    BY DEF Ahead
  <2> QED
    BY <2>1, SilentsAt
<1>2. PICK m \in Nat : m = MinDialAttempt /\ c <= m
  BY DialFacts
<1>3. PICK L \in Nat : L = Len(kinds) /\ b + 1 <= L /\ n + 1 <= b
  BY DEF Ahead
<1>4. PICK k \in 1 .. L : k = n + 1 /\ k - 1 = n /\ n \in 0 .. L
  BY <1>3
<1>16. kinds[k] \in {"refused", "silent"}
  BY <1>4 DEF Ahead
<1>5. PICK d \in DialState : d = f[n]
  BY <1>3, <1>4 DEF Dialing
<1>6. f[k] = Attempt(d, kinds[k])
  BY <1>3, <1>4, <1>5 DEF Dialing
<1>7. PICK l \in Nat : l = L - n /\ l = d.left /\ l # 0
  BY <1>3, <1>4, <1>5 DEF Going
<1>8. PICK r \in Nat : r = d.remaining /\ d.remaining <= DialTimeout
  BY <1>5 DEF DialState, Going
<1>9. d.to = 0 /\ r >= x * m + c
  BY <1>1, <1>2, <1>5, <1>8 DEF Left
<1>10. kinds[k] \in Kinds
  BY <1>3, <1>4
<1>11. PICK s \in 0 .. r : s = Slice(d.remaining, d.left) /\ (s <= m \/ l * s <= r)
  <2>1. PICK s \in 0 .. r : Slice(r, l) = s /\ (s <= MinDialAttempt \/ l * s <= r)
    BY <1>7, SliceIs
  <2> QED
    BY <1>2, <1>7, <1>8, <2>1
<1>12. d.left > 0
  BY <1>7
<1>13. /\ kinds[k] = "refused" => f[k].remaining = r /\ f[k].to = 0
       /\ kinds[k] = "silent" => f[k].remaining = r - s /\ f[k].to = 0
  <2>1. PICK q \in Kinds : q = kinds[k]
    BY <1>10
  <2>2. d.remaining <= DialTimeout /\ d.to = 0
    BY <1>8, <1>9
  <2>3. /\ q = "refused" => Attempt(d, q).remaining = d.remaining /\ Attempt(d, q).to = 0
        /\ q = "silent" => /\ Attempt(d, q).remaining = d.remaining - Slice(d.remaining, d.left)
                           /\ Attempt(d, q).to = 0
    BY <1>12, <2>2, AttemptIs
  <2>4. f[k] = Attempt(d, q)
    BY <1>6, <2>1
  <2> QED
    BY <1>8, <1>11, <2>1, <2>3, <2>4
<1>14. CASE kinds[k] = "refused"
  <2>1. x = y
    BY <1>1, <1>4, <1>14
  <2> QED
    BY <1>1, <1>2, <1>4, <1>9, <1>13, <1>14, <2>1 DEF Left
<1>15. CASE kinds[k] = "silent"
  <2>1. x = y + 1
    BY <1>1, <1>4, <1>15
  <2>2. PICK e \in Nat : l = y + 2 + e
    <3>1. n + 1 + y <= b /\ b + 1 <= L /\ l = L - n
      BY <1>1, <1>3, <1>7
    <3> QED
      BY <3>1, EnoughToGo
  <2>3. r >= (y + 1) * m + c /\ (s <= m \/ (y + 2 + e) * s <= r)
    BY <1>9, <1>11, <2>1, <2>2
  <2>4. r - s >= y * m + c
    BY <1>2, <2>3, OneSliceLess
  <2> QED
    BY <1>1, <1>2, <1>4, <1>13, <1>15, <2>4 DEF Left
<1> QED
  BY <1>4, <1>14, <1>15, <1>16

(* The address that answers is connected to.                               *)
LEMMA Answers ==
  ASSUME NEW kinds \in Seq(Kinds), NEW f, Dialing(kinds, f),
         NEW b \in Nat, b + 1 <= Len(kinds),
         f[b].left = Len(kinds) - b, f[b].at = b + 1, f[b].remaining <= DialTimeout,
         kinds[b + 1] \in {"prompt", "slow"},
         Left(kinds, f, b, b, IF kinds[b + 1] = "slow" THEN MinDialAttempt ELSE 1)
  PROVE  f[b + 1].to = b + 1
<1>1. PICK m \in Nat : m = MinDialAttempt /\ m # 0
  BY DialFacts
<1>2. PICK L \in Nat : L = Len(kinds) /\ b + 1 <= L
  OBVIOUS
<1>3. PICK k \in 1 .. L : k = b + 1 /\ k - 1 = b /\ b \in 0 .. L
  BY <1>2
<1>4. PICK d \in DialState : d = f[b]
  BY <1>2, <1>3 DEF Dialing
<1>5. f[k] = Attempt(d, kinds[k]) /\ d.at = k
  BY <1>2, <1>3, <1>4 DEF Dialing
<1>6. PICK l \in Nat : l = L - b /\ l = d.left /\ l # 0 /\ d.left > 0
  BY <1>2, <1>3, <1>4
<1>7. PICK r \in Nat : r = d.remaining /\ d.remaining <= DialTimeout
  BY <1>4 DEF DialState
<1>8. d.to = 0 /\ r >= (IF kinds[k] = "slow" THEN m ELSE 1)
  <2>1. PICK c \in Nat : c = IF kinds[k] = "slow" THEN m ELSE 1
    BY <1>1
  <2>2. d.to = 0 /\ r >= 0 * m + c
    BY <1>1, <1>3, <1>4, <1>7, <2>1, SilentsNone DEF Left
  <2> QED
    BY <1>1, <2>1, <2>2
<1>9. kinds[k] \in Kinds /\ kinds[k] \in {"prompt", "slow"}
  BY <1>2, <1>3
<1>10. PICK s \in 0 .. r : s = Slice(d.remaining, d.left) /\ (s >= m \/ s = r)
  <2>1. PICK s \in 0 .. r : Slice(r, l) = s /\ (s >= MinDialAttempt \/ s = r)
    BY <1>6, SliceIs
  <2> QED
    BY <1>1, <1>6, <1>7, <2>1
<1>11. s > 0 /\ (kinds[k] = "slow" => s >= m)
  BY <1>1, <1>8, <1>9, <1>10
<1>12. f[k].to = k
  BY <1>1, <1>5, <1>6, <1>7, <1>8, <1>9, <1>10, <1>11, AttemptIs
<1> QED
  BY <1>3, <1>12

(* Nothing is tried after it.                                              *)
LEMMA StaysConnected ==
  ASSUME NEW kinds \in Seq(Kinds), NEW f, Dialing(kinds, f),
         NEW n \in Nat, n + 1 <= Len(kinds),
         f[n].left = Len(kinds) - n, f[n].remaining <= DialTimeout, f[n].to # 0
  PROVE  f[n + 1].to = f[n].to
<1>1. PICK L \in Nat : L = Len(kinds) /\ n + 1 <= L
  OBVIOUS
<1>2. PICK k \in 1 .. L : k = n + 1 /\ k - 1 = n /\ n \in 0 .. L
  BY <1>1
<1>3. PICK d \in DialState : d = f[n]
  BY <1>1, <1>2 DEF Dialing
<1>4. f[k] = Attempt(d, kinds[k])
  BY <1>1, <1>2, <1>3 DEF Dialing
<1>5. d.left > 0 /\ d.remaining <= DialTimeout /\ d.to # 0
  BY <1>1, <1>2, <1>3
<1>6. kinds[k] \in Kinds
  BY <1>1, <1>2
<1>7. f[k].to = d.to
  BY <1>4, <1>5, <1>6, AttemptIs
<1> QED
  BY <1>2, <1>3, <1>7

(* The first address that answers: those before it are refused or silent.  *)
LEMMA FirstToAnswer ==
  ASSUME NEW kinds \in Seq(Kinds),
         NEW a, a = SelectInSeq(kinds, LAMBDA k : k \in {"prompt", "slow"}), a # 0
  PROVE  /\ a \in 1 .. Len(kinds) /\ kinds[a] \in {"prompt", "slow"}
         /\ \A j \in 1 .. a - 1 : kinds[j] \in {"refused", "silent"}
<1> DEFINE I == {i \in 1 .. Len(kinds) : kinds[i] \in {"prompt", "slow"}}
<1>1. a = IF I # {} THEN Min(I) ELSE 0
  BY DEF SelectInSeq
<1>2. I # {} /\ a = Min(I) /\ I \in SUBSET Nat
  BY <1>1
<1>3. PICK x \in I : \A y \in I : x <= y
  BY <1>2, NatLeast
<1>4. a \in I /\ \A y \in I : a <= y
  BY <1>2, <1>3 DEF Min
<1>5. ASSUME NEW j \in 1 .. a - 1 PROVE kinds[j] \in {"refused", "silent"}
  <2>1. j \in 1 .. Len(kinds) /\ ~(a <= j)
    BY <1>4
  <2>2. kinds[j] \in Kinds /\ j \notin I
    BY <1>4, <2>1
  <2> QED
    BY <2>1, <2>2 DEF Kinds
<1> QED
  BY <1>4, <1>5

(* With an attempt for each silent address before it and one for the first *)
(* that answers, that is what a dial connects to.                          *)
LEMMA DialConnects ==
  ASSUME NEW kinds \in Seq(Kinds),
         NEW b \in Nat, b + 1 <= Len(kinds), kinds[b + 1] \in {"prompt", "slow"},
         \A j \in 1 .. b : kinds[j] \in {"refused", "silent"},
         NEW c \in Nat, c = IF kinds[b + 1] = "slow" THEN MinDialAttempt ELSE 1,
         Cardinality(Silents(kinds, 0, b)) * MinDialAttempt + c <= DialTimeout
  PROVE  Dialed(kinds).to = b + 1
<1>1. PICK f : /\ Dialing(kinds, f) /\ Dialed(kinds) = f[Len(kinds)]
               /\ \A n \in 0 .. Len(kinds) :
                    f[n].left = Len(kinds) - n /\ f[n].at = n + 1 /\ f[n].remaining <= DialTimeout
  BY DialDefined
<1>2. PICK L \in Nat : L = Len(kinds) /\ b + 1 <= L
  OBVIOUS
<1>3. c <= MinDialAttempt
  BY DialFacts
<1> DEFINE Before == {n \in 0 .. b : Left(kinds, f, n, b, c)}
<1>4. 0 \in Before
  <2>1. f[0] = NewDial(L)
    BY <1>1, <1>2 DEF Dialing
  <2>2. f[0].to = 0 /\ f[0].remaining = DialTimeout
    BY <2>1 DEF NewDial
  <2>3. PICK x \in Nat, m \in Nat, t \in Nat :
           x = Cardinality(Silents(kinds, 0, b)) /\ m = MinDialAttempt /\ t = DialTimeout
    BY SilentsTyped, DialFacts
  <2>4. x * m + c <= t /\ x * m \in Nat
    BY <2>3
  <2>5. t >= x * m + c
    BY <2>4
  <2>6. Left(kinds, f, 0, b, c)
    BY <2>2, <2>3, <2>5 DEF Left
  <2> QED
    BY <2>6
<1>5. ASSUME NEW n \in 0 .. b - 1, n \in Before PROVE n + 1 \in Before
  <2>1. n \in Nat /\ n + 1 <= b /\ n \in 0 .. Len(kinds) /\ n + 1 \in 1 .. b /\ n + 1 \in 0 .. b
    BY <1>2
  <2>2. f[n].left = Len(kinds) - n /\ f[n].remaining <= DialTimeout
    BY <1>1, <2>1
  <2>3. kinds[n + 1] \in {"refused", "silent"}
    BY <2>1
  <2>4. Left(kinds, f, n, b, c)
    BY <1>5
  <2>5. Ahead(kinds, n, b)
    BY <1>2, <2>1, <2>3 DEF Ahead
  <2>6. Going(kinds, f, n)
    BY <1>1, <2>1 DEF Going
  <2>7. Left(kinds, f, n + 1, b, c)
    BY <1>1, <1>3, <2>1, <2>4, <2>5, <2>6, StillLeft
  <2> QED
    BY <2>1, <2>7
<1>6. Left(kinds, f, b, b, c)
  <2>1. 0 .. b \subseteq Before
    <3> HIDE DEF Before
    <3> QED
      BY <1>4, <1>5, SetInduction
  <2> QED
    BY <2>1
<1>7. f[b + 1].to = b + 1
  <2>1. b \in 0 .. Len(kinds)
    BY <1>2
  <2>2. f[b].left = Len(kinds) - b /\ f[b].at = b + 1 /\ f[b].remaining <= DialTimeout
    BY <1>1, <2>1
  <2>3. Left(kinds, f, b, b, IF kinds[b + 1] = "slow" THEN MinDialAttempt ELSE 1)
    BY <1>6
  <2> QED
    BY <1>1, <2>2, <2>3, Answers
<1> DEFINE After == {n \in 0 .. L : b + 1 <= n => f[n].to = b + 1}
<1>8. 0 \in After
  OBVIOUS
<1>9. ASSUME NEW n \in 0 .. L - 1, n \in After PROVE n + 1 \in After
  <2>1. n \in Nat /\ n + 1 <= Len(kinds) /\ n \in 0 .. Len(kinds) /\ n + 1 \in 0 .. L
    BY <1>2
  <2>2. CASE n + 1 <= b
    BY <2>1, <2>2
  <2>3. CASE n = b
    BY <1>7, <2>1, <2>3
  <2>4. CASE b + 1 <= n
    <3>1. f[n].to = b + 1 /\ f[n].to # 0
      BY <1>9, <2>4
    <3>2. f[n].left = Len(kinds) - n /\ f[n].remaining <= DialTimeout
      BY <1>1, <2>1
    <3>3. f[n + 1].to = f[n].to
      BY <1>1, <2>1, <3>1, <3>2, StaysConnected
    <3> QED
      BY <2>1, <3>1, <3>3
  <2> QED
    BY <2>1, <2>2, <2>3, <2>4
<1>10. f[L].to = b + 1
  <2>1. 0 .. L \subseteq After
    <3> HIDE DEF After
    <3> QED
      BY <1>8, <1>9, SetInduction
  <2>2. L \in After
    BY <2>1
  <2> QED
    BY <1>2, <2>2
<1> QED
  BY <1>1, <1>2, <1>10

(* The dial of any name connects to the first address that answers, if the *)
(* budget has an attempt for each silent one before it and one for it.     *)
THEOREM DialsReach == Spec => []DialReaches
PROOF
  <1>1. DialReaches
    <2> SUFFICES ASSUME NEW kinds \in SeqOf(Kinds, Addresses)
                 PROVE  LET answering == SelectInSeq(kinds, LAMBDA k : k \in {"prompt", "slow"})
                            silent    == Cardinality({j \in 1 .. answering - 1 : kinds[j] = "silent"})
                            needed    == IF kinds[answering] = "slow" THEN (silent + 1) * MinDialAttempt
                                         ELSE silent * MinDialAttempt + 1
                        IN  answering # 0 /\ needed <= DialTimeout => Dialed(kinds).to = answering
      BY DEF DialReaches
    <2> DEFINE a == SelectInSeq(kinds, LAMBDA k : k \in {"prompt", "slow"})
               silent == Cardinality({j \in 1 .. a - 1 : kinds[j] = "silent"})
               needed == IF kinds[a] = "slow" THEN (silent + 1) * MinDialAttempt
                         ELSE silent * MinDialAttempt + 1
    <2>1. kinds \in Seq(Kinds)
      <3>1. PICK n \in 0 .. Addresses : kinds \in [1 .. n -> Kinds]
        BY DEF SeqOf
      <3>2. n \in Nat
        BY DialTyped
      <3> QED
        BY <3>1, <3>2
    <2>2. SUFFICES ASSUME a # 0, needed <= DialTimeout PROVE Dialed(kinds).to = a
      OBVIOUS
    <2>3. /\ a \in 1 .. Len(kinds) /\ kinds[a] \in {"prompt", "slow"}
          /\ \A j \in 1 .. a - 1 : kinds[j] \in {"refused", "silent"}
      <3> HIDE DEF a
      <3>1. a = SelectInSeq(kinds, LAMBDA k : k \in {"prompt", "slow"})
        BY DEF a
      <3> QED
        BY <2>1, <2>2, <3>1, FirstToAnswer
    <2> HIDE DEF a
    <2>4. PICK b \in Nat : a = b + 1 /\ b = a - 1
      <3>1. a - 1 \in Nat /\ a = (a - 1) + 1
        BY <2>3
      <3> QED
        BY <3>1
    <2>5. PICK x \in Nat, m \in Nat : x = Cardinality(Silents(kinds, 0, b)) /\ m = MinDialAttempt
      BY SilentsTyped, DialFacts
    <2>6. silent = x
      <3>1. {j \in 1 .. a - 1 : kinds[j] = "silent"} = Silents(kinds, 0, b)
        BY <2>4 DEF Silents
      <3> QED
        BY <2>5, <3>1
    <2>7. PICK c \in Nat : c = IF kinds[a] = "slow" THEN m ELSE 1
      OBVIOUS
    <2>8. needed = x * m + c
      <3>1. (x + 1) * m = x * m + m
        OBVIOUS
      <3> HIDE DEF silent
      <3> QED
        BY <2>5, <2>6, <2>7, <3>1
    <2> HIDE DEF needed, silent
    <2>9. /\ Cardinality(Silents(kinds, 0, b)) * MinDialAttempt + c <= DialTimeout
          /\ b + 1 <= Len(kinds) /\ kinds[b + 1] \in {"prompt", "slow"}
          /\ \A j \in 1 .. b : kinds[j] \in {"refused", "silent"}
          /\ c = IF kinds[b + 1] = "slow" THEN MinDialAttempt ELSE 1
      BY <2>2, <2>3, <2>4, <2>5, <2>7, <2>8
    <2> QED
      BY <2>1, <2>4, <2>9, DialConnects
  <1> QED
    BY <1>1, PTL
=============================================================================
