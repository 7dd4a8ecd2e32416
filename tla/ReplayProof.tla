---------------------------- MODULE ReplayProof ----------------------------
(* Theorems about Replay and the history it fills, for any bounds, lengths, *)
(* cadence and failures.                                                   *)
EXTENDS Replay, SumsProof

(* A message; its length is that of a sealed record.                       *)
Message ==
  [n : Nat, kind : {"frame", "redraw"}, full : BOOLEAN, alt : BOOLEAN, size : Nat, len : Nat]

-----------------------------------------------------------------------------
(* Suffixes and their bytes.                                               *)

(* What the last messages of q are.                                        *)
LEMMA SuffixTyped ==
  ASSUME NEW q \in Seq(Message), NEW N \in Nat, N = Len(q), NEW d \in 0 .. N
  PROVE  /\ Suffix(q, d) \in Seq(Message) /\ Len(Suffix(q, d)) = N - d
         /\ \A i \in 1 .. N - d : Suffix(q, d)[i] = q[d + i]
  BY DEF Suffix

(* All of it, and none of it.                                              *)
LEMMA SuffixEnds ==
  ASSUME NEW q \in Seq(Message)
  PROVE  Suffix(q, 0) = q /\ Suffix(q, Len(q)) = <<>>
<1>1. PICK N \in Nat : N = Len(q)
  OBVIOUS
<1>2. SubSeq(q, 1, N) = q
  BY <1>1, SubSeqFull
<1>3. SubSeq(q, N + 1, N) = <<>>
  BY <1>1, SubSeqEmpty
<1> QED
  BY <1>1, <1>2, <1>3 DEF Suffix

(* What follows the first message of q.                                    *)
LEMMA TailTyped ==
  ASSUME NEW q \in Seq(Message), NEW N \in Nat \ {0}, N = Len(q)
  PROVE  /\ Tail(q) \in Seq(Message) /\ Len(Tail(q)) = N - 1
         /\ \A i \in 1 .. N - 1 : Tail(q)[i] = q[i + 1]
  OBVIOUS

(* A suffix without its first message is the next shorter one.             *)
LEMMA SuffixTail ==
  ASSUME NEW q \in Seq(Message), NEW N \in Nat, N = Len(q), NEW d \in 0 .. N - 1
  PROVE  Suffix(q, d) # <<>> /\ Tail(Suffix(q, d)) = Suffix(q, d + 1)
<1> DEFINE s == Suffix(q, d)
           t == Suffix(q, d + 1)
<1>0. d \in 0 .. N
  OBVIOUS
<1>1. s \in Seq(Message) /\ Len(s) = N - d /\ \A i \in 1 .. N - d : s[i] = q[d + i]
  BY <1>0, SuffixTyped
<1>2. d + 1 \in 0 .. N
  OBVIOUS
<1>3. t \in Seq(Message) /\ Len(t) = N - (d + 1) /\ \A i \in 1 .. N - (d + 1) : t[i] = q[(d + 1) + i]
  BY <1>2, SuffixTyped
<1> HIDE DEF s, t
<1>4. s # <<>>
  BY <1>1
<1>5. /\ Tail(s) \in Seq(Message) /\ Len(Tail(s)) = N - (d + 1)
      /\ \A i \in 1 .. N - (d + 1) : Tail(s)[i] = s[i + 1]
  <2>1. N - d \in Nat \ {0} /\ (N - d) - 1 = N - (d + 1)
    OBVIOUS
  <2>2. Tail(s) \in Seq(Message) /\ Len(Tail(s)) = (N - d) - 1
        /\ \A i \in 1 .. (N - d) - 1 : Tail(s)[i] = s[i + 1]
    BY <1>1, <2>1, TailTyped
  <2> QED
    BY <2>1, <2>2
<1>6. ASSUME NEW i \in 1 .. N - (d + 1) PROVE Tail(s)[i] = t[i]
  <2>1. i + 1 \in 1 .. N - d /\ d + (i + 1) = (d + 1) + i
    OBVIOUS
  <2> QED
    BY <1>1, <1>3, <1>5, <2>1
<1>7. Tail(s) = t
  BY <1>3, <1>5, <1>6, SeqEqual
<1> QED
  BY <1>4, <1>7 DEF s, t

(* The bytes of messages are their lengths, added up.                      *)
LEMMA BytesAreTotal ==
  ASSUME NEW q \in Seq(Message)
  PROVE  BytesOf(q) = Total([m \in Message |-> m.len], q)
<1> DEFINE weight == [m \in Message |-> m.len]
<1>1. \A i \in DOMAIN q : q[i] \in Message
  OBVIOUS
<1>2. \A i \in DOMAIN q : weight[q[i]] = q[i].len
  BY <1>1
<1>3. [i \in DOMAIN q |-> weight[q[i]]] = [i \in DOMAIN q |-> q[i].len]
  BY <1>2
<1> QED
  BY <1>3 DEF BytesOf, Total

(* They are a number, and none without messages.                           *)
LEMMA BytesTyped ==
  /\ \A q \in Seq(Message) : BytesOf(q) \in Nat
  /\ BytesOf(<<>>) = 0
<1> DEFINE weight == [m \in Message |-> m.len]
           one == [n |-> 0, kind |-> "frame", full |-> TRUE, alt |-> TRUE, size |-> 0, len |-> 0]
<1>1. weight \in [Message -> Nat]
  BY DEF Message
<1>2. one \in Message
  BY DEF Message
<1> HIDE DEF weight, one
<1>3. Total(weight, <<>>) = 0
  BY <1>1, <1>2, TotalSingle
<1>4. \A q \in Seq(Message) : Total(weight, q) \in Nat
  BY <1>1, TotalTyped
<1>5. <<>> \in Seq(Message)
  OBVIOUS
<1> QED
  BY <1>3, <1>4, <1>5, BytesAreTotal DEF weight

(* One message more adds its length.                                       *)
LEMMA BytesAppend ==
  ASSUME NEW q \in Seq(Message), NEW m \in Message
  PROVE  BytesOf(Append(q, m)) = BytesOf(q) + m.len
<1> DEFINE weight == [x \in Message |-> x.len]
<1>1. weight \in [Message -> Nat]
  BY DEF Message
<1>2. weight[m] = m.len
  OBVIOUS
<1>3. Append(q, m) \in Seq(Message)
  OBVIOUS
<1>4. Total(weight, Append(q, m)) = Total(weight, q) + weight[m]
  <2> HIDE DEF weight
  <2> QED
    BY <1>1, TotalAppend
<1> QED
  BY <1>2, <1>3, <1>4, BytesAreTotal

(* The first message has its length of them, and the others the rest.      *)
LEMMA BytesTail ==
  ASSUME NEW q \in Seq(Message), q # <<>>
  PROVE  BytesOf(Tail(q)) = BytesOf(q) - Head(q).len
<1> DEFINE weight == [x \in Message |-> x.len]
<1>1. weight \in [Message -> Nat]
  BY DEF Message
<1>2. Head(q) \in Message /\ Tail(q) \in Seq(Message)
  OBVIOUS
<1>3. weight[Head(q)] = Head(q).len /\ weight[Head(q)] \in Nat
  BY <1>1, <1>2
<1>4. <<Head(q)>> \in Seq(Message) /\ q = <<Head(q)>> \o Tail(q)
  <2>1. PICK N \in Nat \ {0} : N = Len(q)
    OBVIOUS
  <2> DEFINE h == <<Head(q)>>
             t == Tail(q)
  <2>2. h \in Seq(Message) /\ Len(h) = 1 /\ h[1] = q[1]
    BY <1>2
  <2>3. t \in Seq(Message) /\ Len(t) = N - 1 /\ \A i \in 1 .. N - 1 : t[i] = q[i + 1]
    BY <2>1, TailTyped
  <2> HIDE DEF h, t
  <2>4. ASSUME NEW i \in 1 .. N - 1 PROVE q[1 + i] = t[i]
    BY <2>3
  <2>5. ASSUME NEW i \in 1 .. 1 PROVE q[i] = h[i]
    BY <2>2
  <2>6. Joined(Message, h, t, q)
    <3>1. /\ h \in Seq(Message) /\ t \in Seq(Message) /\ q \in Seq(Message)
          /\ 1 \in Nat /\ N - 1 \in Nat
          /\ 1 = Len(h) /\ N - 1 = Len(t) /\ Len(q) = 1 + (N - 1)
      BY <2>1, <2>2, <2>3
    <3> QED
      BY <2>4, <2>5, <3>1 DEF Joined
  <2> QED
    BY <2>2, <2>6, ConcatKnown DEF h, t
<1>5. Total(weight, <<Head(q)>> \o Tail(q)) = Total(weight, <<Head(q)>>) + Total(weight, Tail(q))
  <2> HIDE DEF weight
  <2> QED
    BY <1>1, <1>2, <1>4, TotalConcat
<1>6. Total(weight, <<Head(q)>>) = weight[Head(q)]
  <2> HIDE DEF weight
  <2> QED
    BY <1>1, <1>2, TotalSingle
<1>7. Total(weight, Tail(q)) \in Nat
  <2> HIDE DEF weight
  <2> QED
    BY <1>1, <1>2, TotalTyped
<1>8. BytesOf(q) = Head(q).len + BytesOf(Tail(q))
  BY <1>2, <1>3, <1>4, <1>5, <1>6, BytesAreTotal
<1>9. BytesOf(q) \in Nat /\ BytesOf(Tail(q)) \in Nat /\ Head(q).len \in Nat
  BY <1>2, <1>3, BytesTyped
<1> QED
  BY <1>8, <1>9

-----------------------------------------------------------------------------
(* Trimming.                                                               *)

(* A history of these messages, with the byte count that belongs to it.    *)
HistoryOf(q) == [chunks |-> q, bytes |-> BytesOf(q)]

(* How many messages LongestFitting drops.                                 *)
Cut(q) == Min({d \in 0 .. Len(q) : Fits(Suffix(q, d))})

(* The least element of a set is in it.                                    *)
LEMMA MinIs ==
  ASSUME NEW S \in SUBSET Nat, S # {}
  PROVE  Min(S) \in S /\ \A y \in S : Min(S) <= y
<1>1. PICK n \in S : TRUE
  OBVIOUS
<1>2. \E x \in S : \A y \in S : x <= y
  BY <1>1, NatLeast
<1> QED
  BY <1>2 DEF Min

(* The cut leaves what fits, any shorter one does not, and something       *)
(* always stays.                                                           *)
LEMMA CutIs ==
  ASSUME NEW q \in Seq(Message), NEW N \in Nat, N = Len(q)
  PROVE  /\ Cut(q) \in 0 .. N /\ Fits(Suffix(q, Cut(q)))
         /\ \A d \in 0 .. N : d < Cut(q) => ~Fits(Suffix(q, d))
         /\ N # 0 => Cut(q) < N
<1> DEFINE S == {d \in 0 .. N : Fits(Suffix(q, d))}
<1>1. N \in S
  <2>1. Suffix(q, N) = <<>>
    BY SuffixEnds
  <2>2. Fits(<<>>)
    BY BytesTyped, BoundsTyped DEF Fits
  <2> QED
    BY <2>1, <2>2
<1>2. ASSUME N # 0 PROVE N - 1 \in S
  <2>1. N - 1 \in 0 .. N /\ N - (N - 1) = 1
    BY <1>2
  <2>2. Len(Suffix(q, N - 1)) = 1
    BY <2>1, SuffixTyped
  <2>3. Fits(Suffix(q, N - 1))
    <3>1. 1 <= MaxMessages
      BY BoundsTyped
    <3> QED
      BY <2>2, <3>1 DEF Fits
  <2> QED
    BY <2>1, <2>3
<1>3. S \in SUBSET Nat /\ S # {}
  BY <1>1
<1>4. Cut(q) = Min(S)
  BY DEF Cut
<1>5. Cut(q) \in S /\ \A d \in S : Cut(q) <= d
  <2> HIDE DEF S
  <2> QED
    BY <1>3, <1>4, MinIs
<1>6. Cut(q) \in Nat
  BY <1>3, <1>5
<1>7. ASSUME NEW d \in 0 .. N, d < Cut(q), Fits(Suffix(q, d)) PROVE FALSE
  <2>1. d \in S
    BY <1>7
  <2> QED
    BY <1>5, <1>6, <1>7, <2>1
<1>8. ASSUME N # 0 PROVE Cut(q) < N
  <2>1. Cut(q) <= N - 1
    BY <1>2, <1>5, <1>8
  <2> QED
    BY <1>6, <2>1
<1> QED
  BY <1>5, <1>7, <1>8

(* push's loop goes on exactly while the messages do not fit.              *)
LEMMA TooMuchMeans ==
  ASSUME NEW q \in Seq(Message), q # <<>>
  PROVE  TooMuch(HistoryOf(q)) <=> ~Fits(q)
<1>1. Len(q) \in Nat /\ Len(q) # 0 /\ BytesOf(q) \in Nat
  BY BytesTyped
<1>2. HistoryOf(q).chunks = q /\ HistoryOf(q).bytes = BytesOf(q)
  BY DEF HistoryOf
<1>3. TooMuch(HistoryOf(q)) <=>
        Len(q) > MaxMessages \/ (BytesOf(q) > MaxBytes /\ Len(q) > 1)
  BY <1>2 DEF TooMuch
<1>4. Fits(q) <=> Len(q) <= MaxMessages /\ (BytesOf(q) <= MaxBytes \/ Len(q) = 1)
  BY DEF Fits
<1>5. MaxMessages \in Nat /\ MaxBytes \in Nat
  BY BoundsTyped
<1>6. Len(q) > MaxMessages \/ (BytesOf(q) > MaxBytes /\ Len(q) > 1)
        <=> ~(Len(q) <= MaxMessages /\ (BytesOf(q) <= MaxBytes \/ Len(q) = 1))
  <2>1. ASSUME NEW L \in Nat \ {0}, NEW B \in Nat, NEW M \in Nat, NEW X \in Nat
        PROVE  (L > M \/ (B > X /\ L > 1)) <=> ~(L <= M /\ (B <= X \/ L = 1))
    OBVIOUS
  <2>2. Len(q) \in Nat \ {0}
    BY <1>1
  <2> QED
    BY <1>1, <1>5, <2>1, <2>2
<1> QED
  BY <1>3, <1>4, <1>6, Zenon

(* Popping takes the first message and its bytes.                          *)
LEMMA PoppedIs ==
  ASSUME NEW q \in Seq(Message), q # <<>>
  PROVE  Popped(HistoryOf(q)) = HistoryOf(Tail(q))
  BY BytesTail DEF Popped, HistoryOf

(* One turn of push's loop, or none.                                       *)
Turn(h) == IF TooMuch(h) THEN Popped(h) ELSE h

(* What n turns leave of a history.                                        *)
Turned(q, n) == HistoryOf(Suffix(q, IF n <= Cut(q) THEN n ELSE Cut(q)))

(* Each turn leaves a message less, until they fit.                        *)
LEMMA TurnLeaves ==
  ASSUME NEW q \in Seq(Message), NEW N \in Nat, N = Len(q), NEW n \in 1 .. N
  PROVE  Turned(q, n) = Turn(Turned(q, n - 1))
<1> DEFINE D == Cut(q)
<1>0. /\ D \in 0 .. N /\ Fits(Suffix(q, D)) /\ D < N
      /\ \A d \in 0 .. N : d < D => ~Fits(Suffix(q, d))
  BY CutIs
<1> HIDE DEF D
<1>1. CASE n <= D
  <2> DEFINE s == Suffix(q, n - 1)
  <2>1. n - 1 \in 0 .. N - 1 /\ n - 1 \in 0 .. N /\ n - 1 < D /\ n - 1 <= D /\ (n - 1) + 1 = n
    BY <1>0, <1>1
  <2>2. s \in Seq(Message) /\ s # <<>> /\ Tail(s) = Suffix(q, n)
    BY <2>1, SuffixTyped, SuffixTail
  <2>3. ~Fits(s)
    BY <1>0, <2>1
  <2>4. Turned(q, n - 1) = HistoryOf(s) /\ Turned(q, n) = HistoryOf(Suffix(q, n))
    BY <1>1, <2>1 DEF Turned, D
  <2> HIDE DEF s
  <2>5. TooMuch(HistoryOf(s)) /\ Popped(HistoryOf(s)) = HistoryOf(Tail(s))
    BY <2>2, <2>3, TooMuchMeans, PoppedIs
  <2> QED
    BY <2>2, <2>4, <2>5 DEF Turn
<1>2. CASE n > D
  <2> DEFINE s == Suffix(q, D)
  <2>1. Turned(q, n) = HistoryOf(s) /\ Turned(q, n - 1) = HistoryOf(s)
    <3>1. Turned(q, n) = HistoryOf(s)
      BY <1>2, <1>0 DEF Turned, D
    <3>2. CASE n - 1 = D
      BY <3>1, <3>2 DEF Turned, D
    <3>3. CASE ~(n - 1 <= D)
      BY <3>1, <3>3 DEF Turned, D
    <3>4. n - 1 = D \/ ~(n - 1 <= D)
      BY <1>0, <1>2
    <3> QED
      BY <3>1, <3>2, <3>3, <3>4
  <2>2. s \in Seq(Message) /\ s # <<>>
    <3>1. D \in 0 .. N - 1
      BY <1>0
    <3> QED
      BY <1>0, <3>1, SuffixTyped, SuffixTail
  <2>3. ~TooMuch(HistoryOf(s))
    BY <1>0, <2>2, TooMuchMeans
  <2> QED
    BY <2>1, <2>3 DEF Turn
<1>3. D \in Nat
  BY <1>0
<1> QED
  BY <1>1, <1>2, <1>3

(* push's loop leaves the longest suffix that fits, and its bytes.         *)
LEMMA TrimmedIs ==
  ASSUME NEW q \in Seq(Message)
  PROVE  Trimmed(HistoryOf(q)) = HistoryOf(LongestFitting(q))
<1>1. PICK N \in Nat : N = Len(q)
  OBVIOUS
<1> DEFINE h == HistoryOf(q)
           f == [n \in 0 .. N |-> Turned(q, n)]
<1>2. Cut(q) \in 0 .. N
  BY <1>1, CutIs
<1>3. h.chunks = q
  BY DEF HistoryOf
<1>4. f[0] = h
  <2>1. 0 <= Cut(q) /\ 0 \in 0 .. N
    BY <1>2
  <2>2. Suffix(q, 0) = q
    BY SuffixEnds
  <2> QED
    BY <2>1, <2>2 DEF Turned
<1>5. ASSUME NEW n \in 1 .. N PROVE f[n] = Turn(f[n - 1])
  <2>1. n \in 0 .. N /\ n - 1 \in 0 .. N
    OBVIOUS
  <2> QED
    BY <1>1, <2>1, TurnLeaves
<1>6. f[N] = HistoryOf(LongestFitting(q))
  <2>1. N \in 0 .. N /\ Suffix(q, IF N <= Cut(q) THEN N ELSE Cut(q)) = Suffix(q, Cut(q))
    <3>1. CASE N <= Cut(q)
      BY <1>2, <3>1
    <3>2. CASE ~(N <= Cut(q))
      BY <3>2
    <3> QED
      BY <3>1, <3>2
  <2> QED
    BY <2>1 DEF Turned, LongestFitting, Cut
<1> HIDE DEF h
<1>7. \E g : g = [n \in 0 .. N |-> IF n = 0 THEN h ELSE Turn(g[n - 1])]
  <2>1. ASSUME NEW n \in 0 .. N PROVE f[n] = IF n = 0 THEN h ELSE Turn(f[n - 1])
    <3>1. CASE n = 0
      BY <1>4, <3>1
    <3>2. CASE n # 0
      <4>1. n \in 1 .. N
        BY <3>2
      <4> QED
        BY <1>5, <3>2, <4>1
    <3> QED
      BY <3>1, <3>2
  <2>2. f = [n \in 0 .. N |-> f[n]]
    OBVIOUS
  <2> HIDE DEF f
  <2>3. f = [n \in 0 .. N |-> IF n = 0 THEN h ELSE Turn(f[n - 1])]
    BY <2>1, <2>2
  <2> QED
    BY <2>3
<1> HIDE DEF f
<1> DEFINE after == CHOOSE g : g = [n \in 0 .. N |-> IF n = 0 THEN h ELSE Turn(g[n - 1])]
<1>8. after = [n \in 0 .. N |-> IF n = 0 THEN h ELSE Turn(after[n - 1])]
  BY <1>7
<1>9. Trimmed(h) = after[N]
  BY <1>1, <1>3 DEF Trimmed, Turn
<1> HIDE DEF after
<1>10. \A n \in 0 .. N : after[n] = f[n]
  <2> DEFINE Good == {n \in 0 .. N : after[n] = f[n]}
  <2>1. 0 \in Good
    <3>1. 0 \in 0 .. N
      OBVIOUS
    <3> QED
      BY <1>4, <1>8, <3>1
  <2>2. ASSUME NEW n \in 0 .. N - 1, n \in Good PROVE n + 1 \in Good
    <3>1. n + 1 \in 1 .. N /\ n + 1 \in 0 .. N /\ n + 1 # 0 /\ (n + 1) - 1 = n
      OBVIOUS
    <3>2. after[n + 1] = Turn(after[n])
      BY <1>8, <3>1
    <3>3. f[n + 1] = Turn(f[n])
      BY <1>5, <3>1
    <3> QED
      BY <2>2, <3>1, <3>2, <3>3
  <2> HIDE DEF Good
  <2>3. 0 .. N \subseteq Good
    <3>1. \A n \in 0 .. N - 1 : n \in Good => n + 1 \in Good
      BY <2>2
    <3> QED
      BY <2>1, <3>1, SetInduction
  <2> QED
    BY <2>3 DEF Good
<1>11. N \in 0 .. N
  OBVIOUS
<1> QED
  BY <1>6, <1>9, <1>10, <1>11 DEF h

(* What fits is left alone.                                                *)
LEMMA FittingStays ==
  ASSUME NEW q \in Seq(Message), Fits(q)
  PROVE  LongestFitting(q) = q
<1>1. PICK N \in Nat : N = Len(q)
  OBVIOUS
<1>2. Suffix(q, 0) = q /\ 0 \in 0 .. N
  BY <1>1, SuffixEnds
<1>3. Cut(q) \in 0 .. N /\ \A d \in 0 .. N : d < Cut(q) => ~Fits(Suffix(q, d))
  BY <1>1, CutIs
<1>4. Cut(q) = 0
  BY <1>2, <1>3
<1> QED
  BY <1>2, <1>4 DEF LongestFitting, Cut

(* A push leaves the longest suffix that fits, and its bytes.              *)
LEMMA PushedIs ==
  ASSUME NEW q \in Seq(Message), NEW m \in Message, Fits(q),
         NEW c, c = IF m.len = 0 THEN q ELSE Append(q, m)
  PROVE  /\ PushedOnto(HistoryOf(q), m) = HistoryOf(LongestFitting(c))
         /\ c \in Seq(Message)
         /\ LongestFitting(c) \in Seq(Message) /\ Fits(LongestFitting(c))
<1>1. c \in Seq(Message)
  OBVIOUS
<1>2. LongestFitting(c) \in Seq(Message) /\ Fits(LongestFitting(c))
  <2>1. PICK N \in Nat : N = Len(c)
    BY <1>1
  <2>2. Cut(c) \in 0 .. N /\ Fits(Suffix(c, Cut(c)))
    BY <1>1, <2>1, CutIs
  <2>3. Suffix(c, Cut(c)) \in Seq(Message)
    BY <1>1, <2>1, <2>2, SuffixTyped
  <2> QED
    BY <2>2, <2>3 DEF LongestFitting, Cut
<1>3. CASE m.len = 0
  BY <1>3, FittingStays DEF PushedOnto
<1>4. CASE m.len # 0
  <2>1. BytesOf(Append(q, m)) = BytesOf(q) + m.len
    BY BytesAppend
  <2>2. [chunks |-> Append(HistoryOf(q).chunks, m), bytes |-> HistoryOf(q).bytes + m.len]
          = HistoryOf(Append(q, m))
    BY <2>1 DEF HistoryOf
  <2>3. PushedOnto(HistoryOf(q), m) = Trimmed(HistoryOf(Append(q, m)))
    BY <1>4, <2>2 DEF PushedOnto
  <2>4. Append(q, m) = c
    BY <1>4
  <2> QED
    BY <1>1, <1>2, <2>3, <2>4, TrimmedIs
<1> QED
  BY <1>1, <1>2, <1>3, <1>4

-----------------------------------------------------------------------------
(* The types, and the history's bounds.                                    *)
Types ==
  /\ alt \in BOOLEAN /\ size \in Nat /\ framesSince \in Nat
  /\ pending \in Seq(Message) /\ unacked \in Seq(Message)
  /\ fed \in Nat /\ breaks \in 0 .. Breaks /\ lost \in Int

Bounded == chunks \in Seq(Message) /\ bytes = BytesOf(chunks) /\ Fits(chunks)

(* What Output makes of the state, frame and redraw by name.               *)
Sends(frame, due, full, leaves, newSize) ==
  /\ frame = [n |-> fed', kind |-> "frame", full |-> full, alt |-> alt', size |-> newSize,
              len |-> frame.len]
  /\ frame.len \in FrameLengths
  /\ due = IsDue(Fed(newSize))
  /\ full \in BOOLEAN /\ leaves \in BOOLEAN /\ newSize \in {size, size + 1}
  /\ (full => ~alt) /\ (leaves => alt)
  /\ fed' = fed + 1 /\ alt' = ((alt \/ full) /\ ~leaves) /\ size' = newSize
  /\ framesSince' = IF due THEN 0 ELSE Fed(newSize)
  /\ UNCHANGED <<historyVars, breaks>>

Redraw(frame) == [frame EXCEPT !.kind = "redraw", !.full = TRUE, !.len = KeyLength]

(* The messages of one call of send.                                       *)
Sent(frame, due) == <<frame>> \o (IF due /\ alt' THEN <<Redraw(frame)>> ELSE <<>>)

(* Output buffers them.                                                    *)
LEMMA OutputIs ==
  ASSUME Output
  PROVE  \E frame, due, full, leaves, newSize :
            Sends(frame, due, full, leaves, newSize) /\ Buffer(Sent(frame, due))
<1>1. PICK full \in BOOLEAN, leaves \in BOOLEAN, len \in FrameLengths, newSize \in {size, size + 1} :
         LET count == Fed(newSize)
             frame == [n |-> fed', kind |-> "frame", full |-> full, alt |-> alt',
                       size |-> newSize, len |-> len]
             redraw == [frame EXCEPT !.kind = "redraw", !.full = TRUE, !.len = KeyLength]
         IN  /\ (full => ~alt) /\ (leaves => alt) /\ newSize <= Resizes
             /\ alt' = ((alt \/ full) /\ ~leaves)
             /\ size' = newSize
             /\ framesSince' = IF IsDue(count) THEN 0 ELSE count
             /\ Buffer(<<frame>> \o (IF IsDue(count) /\ alt' THEN <<redraw>> ELSE <<>>))
  BY DEF Output
<1> DEFINE frame == [n |-> fed', kind |-> "frame", full |-> full, alt |-> alt', size |-> newSize,
                     len |-> len]
           due == IsDue(Fed(newSize))
<1>2. Buffer(Sent(frame, due))
  BY <1>1 DEF Sent, Redraw
<1>3. fed' = fed + 1 /\ UNCHANGED <<historyVars, breaks>>
  BY DEF Output
<1>4. frame.len = len
  OBVIOUS
<1>5. /\ full => ~alt
      /\ leaves => alt
      /\ alt' = ((alt \/ full) /\ ~leaves)
      /\ size' = newSize
      /\ framesSince' = IF due THEN 0 ELSE Fed(newSize)
  BY <1>1
<1>6. Sends(frame, due, full, leaves, newSize)
  <2> HIDE DEF due
  <2> QED
    BY <1>1, <1>3, <1>4, <1>5 DEF Sends, due
<1> QED
  BY <1>2, <1>6

(* What is sent are messages.                                              *)
LEMMA SentTyped ==
  ASSUME Types, NEW frame, NEW due, NEW full, NEW leaves, NEW newSize,
         Sends(frame, due, full, leaves, newSize)
  PROVE  /\ frame \in Message /\ Redraw(frame) \in Message /\ Sent(frame, due) \in Seq(Message)
         /\ alt' \in BOOLEAN /\ size' \in Nat /\ framesSince' \in Nat /\ fed' \in Nat
<1>1. /\ fed' \in Nat /\ alt' \in BOOLEAN /\ newSize \in Nat /\ size' = newSize
      /\ full \in BOOLEAN /\ due \in BOOLEAN
  BY DEF Types, Sends, IsDue
<1>2. frame.len \in Nat /\ KeyLength \in Nat
  BY CadenceTyped DEF Sends
<1>3. frame = [n |-> fed', kind |-> "frame", full |-> full, alt |-> alt', size |-> newSize,
               len |-> frame.len]
  BY DEF Sends
<1>4. frame \in Message
  BY <1>1, <1>2, <1>3 DEF Message
<1>5. Redraw(frame) \in Message
  BY <1>2, <1>4 DEF Redraw, Message
<1>6. Sent(frame, due) \in Seq(Message)
  BY <1>4, <1>5 DEF Sent
<1>7. framesSince' \in Nat
  <2>1. Fed(newSize) \in Nat
    BY CadenceTyped DEF Fed, Types
  <2> QED
    BY <1>1, <2>1 DEF Sends
<1> QED
  BY <1>1, <1>4, <1>5, <1>6, <1>7

(* The cap drops some of the oldest.                                       *)
LEMMA BufferIs ==
  ASSUME Types, NEW ms \in Seq(Message), Buffer(ms)
  PROVE  LET all == unacked \o pending \o ms
         IN  /\ all \in Seq(Message)
             /\ \E d \in 0 .. Len(all) :
                  /\ BytesOf(Suffix(all, d)) <= MaxBuffered
                  /\ IF d <= Len(unacked)
                       THEN unacked' = Suffix(unacked, d) /\ pending' = pending \o ms /\ lost' = lost
                       ELSE unacked' = <<>> /\ pending' = Suffix(all, d) /\ lost' = all[d].n
<1> DEFINE all == unacked \o pending \o ms
           S == {d \in 0 .. Len(all) : BytesOf(Suffix(all, d)) <= MaxBuffered}
           d == Min(S)
<1>1. all \in Seq(Message)
  BY DEF Types
<1>2. /\ d <= Len(unacked) => unacked' = Suffix(unacked, d) /\ pending' = pending \o ms /\ lost' = lost
      /\ ~(d <= Len(unacked)) => unacked' = <<>> /\ pending' = Suffix(all, d) /\ lost' = all[d].n
  BY DEF Buffer
<1> HIDE DEF all
<1>3. PICK N \in Nat : N = Len(all)
  BY <1>1
<1>4. N \in S
  <2>1. Suffix(all, N) = <<>>
    BY <1>1, <1>3, SuffixEnds
  <2>2. N \in 0 .. Len(all) /\ 0 <= MaxBuffered
    BY <1>3, CadenceTyped
  <2> QED
    BY <2>1, <2>2, BytesTyped
<1>5. d \in S
  <2>1. S \in SUBSET Nat /\ S # {}
    BY <1>3, <1>4
  <2> HIDE DEF S
  <2> QED
    BY <2>1, MinIs
<1>6. d \in 0 .. Len(all) /\ BytesOf(Suffix(all, d)) <= MaxBuffered
  BY <1>5
<1> HIDE DEF d
<1> QED
  BY <1>1, <1>2, <1>6 DEF all

(* The buffer keeps its type.                                              *)
LEMMA BufferTyped ==
  ASSUME Types, NEW ms \in Seq(Message), Buffer(ms)
  PROVE  pending' \in Seq(Message) /\ unacked' \in Seq(Message) /\ lost' \in Int
<1> DEFINE all == unacked \o pending \o ms
<1>1. all \in Seq(Message)
  BY DEF Types
<1>2. PICK d \in 0 .. Len(all) :
        IF d <= Len(unacked)
          THEN unacked' = Suffix(unacked, d) /\ pending' = pending \o ms /\ lost' = lost
          ELSE unacked' = <<>> /\ pending' = Suffix(all, d) /\ lost' = all[d].n
  BY BufferIs
<1>3. Len(all) \in Nat /\ Len(unacked) \in Nat /\ unacked \in Seq(Message) /\ pending \in Seq(Message)
  BY <1>1 DEF Types
<1> HIDE DEF all
<1>4. CASE d <= Len(unacked)
  <2>1. d \in 0 .. Len(unacked)
    BY <1>3, <1>4
  <2>2. Suffix(unacked, d) \in Seq(Message)
    BY <1>3, <2>1, SuffixTyped
  <2>3. pending \o ms \in Seq(Message)
    BY <1>3
  <2> QED
    BY <1>2, <1>4, <2>2, <2>3 DEF Types
<1>5. CASE ~(d <= Len(unacked))
  <2>1. Suffix(all, d) \in Seq(Message)
    BY <1>1, <1>3, SuffixTyped
  <2>2. d \in 1 .. Len(all)
    BY <1>3, <1>5
  <2>3. all[d] \in Message
    BY <1>1, <2>2
  <2>4. all[d].n \in Int
    BY <2>3 DEF Message
  <2>5. <<>> \in Seq(Message)
    OBVIOUS
  <2> QED
    BY <1>2, <1>5, <2>1, <2>4, <2>5
<1> QED
  BY <1>4, <1>5

(* The history keeps within its bounds.                                    *)
LEMMA DeliverBounded ==
  ASSUME Types, Bounded, Deliver
  PROVE  /\ Head(pending) \in Message /\ Tail(pending) \in Seq(Message)
         /\ LET m == Head(pending)
                c == IF m.len = 0 THEN chunks ELSE Append(chunks, m)
            IN  chunks' = LongestFitting(c)
         /\ Bounded'
<1> DEFINE m == Head(pending)
           c == IF m.len = 0 THEN chunks ELSE Append(chunks, m)
<1>1. pending # <<>> /\ pending \in Seq(Message)
  BY DEF Deliver, Types
<1>2. m \in Message /\ Tail(pending) \in Seq(Message)
  BY <1>1
<1>3. History = HistoryOf(chunks)
  BY DEF Bounded, History, HistoryOf
<1>4. chunks' = PushedOnto(History, m).chunks /\ bytes' = PushedOnto(History, m).bytes
  BY DEF Deliver
<1> HIDE DEF m
<1>5. PushedOnto(HistoryOf(chunks), m) = HistoryOf(LongestFitting(c))
      /\ LongestFitting(c) \in Seq(Message) /\ Fits(LongestFitting(c))
  BY <1>2, PushedIs DEF Bounded
<1>6. chunks' = LongestFitting(c) /\ bytes' = BytesOf(LongestFitting(c))
  <2> HIDE DEF c
  <2> QED
    BY <1>3, <1>4, <1>5 DEF HistoryOf
<1> QED
  BY <1>2, <1>5, <1>6 DEF Bounded, m

(* The types and the bounds hold always.                                   *)
LEMMA NextTyped == Types /\ Bounded /\ [Next]_vars => Types' /\ Bounded'
<1> SUFFICES ASSUME Types, Bounded, [Next]_vars PROVE Types' /\ Bounded'
  OBVIOUS
<1>1. CASE Output
  <2>1. PICK frame, due, full, leaves, newSize :
            Sends(frame, due, full, leaves, newSize) /\ Buffer(Sent(frame, due))
    BY <1>1, OutputIs
  <2>2. /\ Sent(frame, due) \in Seq(Message)
        /\ alt' \in BOOLEAN /\ size' \in Nat /\ framesSince' \in Nat /\ fed' \in Nat
    BY <2>1, SentTyped
  <2>3. pending' \in Seq(Message) /\ unacked' \in Seq(Message) /\ lost' \in Int
    BY <2>1, <2>2, BufferTyped
  <2>4. chunks' = chunks /\ bytes' = bytes /\ breaks' = breaks
    BY <2>1 DEF Sends, historyVars
  <2> QED
    BY <2>2, <2>3, <2>4 DEF Types, Bounded
<1>2. CASE Deliver
  <2>1. Head(pending) \in Message /\ Tail(pending) \in Seq(Message) /\ Bounded'
    BY <1>2, DeliverBounded
  <2>2. Append(unacked, Head(pending)) \in Seq(Message)
    BY <2>1 DEF Types
  <2> QED
    BY <1>2, <2>1, <2>2 DEF Deliver, Types, keyframerVars
<1>3. CASE Acked
  <2>1. Tail(unacked) \in Seq(Message)
    BY <1>3 DEF Acked, Types
  <2> QED
    BY <1>3, <2>1 DEF Acked, Types, Bounded, keyframerVars, historyVars
<1>4. CASE Break \/ Restart
  <2>1. pending' \in Seq(Message) /\ unacked' = <<>> /\ unacked' \in Seq(Message)
    <3>1. pending' = unacked \o pending /\ unacked' = <<>>
      BY <1>4 DEF Break, Restart
    <3>2. pending \in Seq(Message) /\ unacked \in Seq(Message)
      BY DEF Types
    <3>3. unacked \o pending \in Seq(Message) /\ <<>> \in Seq(Message)
      BY <3>2, ConcatProperties
    <3> QED
      BY <3>1, <3>3
  <2>2. breaks' \in 0 .. Breaks
    BY <1>4, CadenceTyped DEF Break, Restart, Types
  <2>3. UNCHANGED <<alt, size, framesSince, fed>>
    BY <1>4 DEF Break, Restart, keyframerVars
  <2>4. lost' \in Int
    <3>1. CASE Break
      BY <3>1 DEF Break, Types
    <3>2. CASE Restart /\ pending' = <<>>
      BY <3>2 DEF Restart, Types
    <3>3. CASE Restart /\ pending' # <<>>
      <4>1. Head(pending') \in Message
        BY <2>1, <3>3
      <4>2. Head(pending').n \in Nat
        BY <4>1 DEF Message
      <4>3. lost' = Larger(lost, Head(pending').n - 1)
        BY <3>3 DEF Restart
      <4> QED
        BY <4>2, <4>3 DEF Larger, Types
    <3> QED
      BY <1>4, <3>1, <3>2, <3>3
  <2>5. Bounded'
    <3>1. CASE Break
      BY <3>1 DEF Break, Bounded, historyVars
    <3>2. CASE Restart
      <4>1. chunks' = <<>> /\ bytes' = 0
        BY <3>2 DEF Restart
      <4>2. Fits(<<>>)
        BY BytesTyped, BoundsTyped DEF Fits
      <4> QED
        BY <4>1, <4>2, BytesTyped DEF Bounded
    <3> QED
      BY <1>4, <3>1, <3>2
  <2> QED
    BY <2>1, <2>2, <2>3, <2>4, <2>5 DEF Types
<1>5. CASE UNCHANGED vars
  BY <1>5 DEF vars, keyframerVars, bufferVars, historyVars, Types, Bounded
<1> QED
  BY <1>1, <1>2, <1>3, <1>4, <1>5 DEF Next

(* They hold at the start.                                                 *)
LEMMA InitTyped == Init => Types /\ Bounded
<1> SUFFICES ASSUME Init PROVE Types /\ Bounded
  OBVIOUS
<1>1. Fits(<<>>)
  BY BytesTyped, BoundsTyped DEF Fits
<1>2. Types
  <2>1. lost = 0 - FramesPerKeyframe /\ FramesPerKeyframe \in Int
    BY CadenceTyped DEF Init
  <2>2. lost \in Int
    BY <2>1
  <2>3. <<>> \in Seq(Message) /\ 0 \in 0 .. Breaks
    BY CadenceTyped
  <2> QED
    BY <2>2, <2>3 DEF Init, Types
<1>3. Bounded
  BY <1>1, BytesTyped DEF Init, Bounded
<1> QED
  BY <1>2, <1>3

(* Whatever is pushed next, the history becomes the longest suffix of its  *)
(* non-empty messages that fits (protocol.rs, MessageHistory::push).       *)
THEOREM KeepsTheLongestSuffix == Spec => []LongestSuffixThatFits
<1>1. Types /\ Bounded => LongestSuffixThatFits
  <2> SUFFICES ASSUME Types, Bounded, NEW len \in OtherLengths
               PROVE  LET message == [n |-> Frames, kind |-> "frame", full |-> FALSE, alt |-> alt,
                                      size |-> size, len |-> len]
                          kept    == LongestFitting(IF len = 0 THEN chunks ELSE Append(chunks, message))
                      IN  PushedOnto(History, message) = [chunks |-> kept, bytes |-> BytesOf(kept)]
    BY DEF LongestSuffixThatFits
  <2> DEFINE message == [n |-> Frames, kind |-> "frame", full |-> FALSE, alt |-> alt,
                         size |-> size, len |-> len]
             c == IF message.len = 0 THEN chunks ELSE Append(chunks, message)
  <2>1. message \in Message /\ message.len = len
    BY CadenceTyped DEF Types, Message
  <2>2. History = HistoryOf(chunks)
    BY DEF Bounded, History, HistoryOf
  <2> HIDE DEF message
  <2>3. PushedOnto(HistoryOf(chunks), message) = HistoryOf(LongestFitting(c))
    BY <2>1, PushedIs DEF Bounded
  <2>4. c = IF len = 0 THEN chunks ELSE Append(chunks, message)
    BY <2>1
  <2> HIDE DEF c
  <2> QED
    BY <2>2, <2>3, <2>4 DEF HistoryOf, message
<1> QED
  BY <1>1, InitTyped, NextTyped, PTL DEF Spec

-----------------------------------------------------------------------------
(* Bytes along a sequence.                                                 *)

(* Those of its first x messages.                                          *)
Upto(s, x) == BytesOf(SubSeq(s, 1, x))

(* What the first messages of a sequence are.                              *)
LEMMA PrefixTyped ==
  ASSUME NEW s \in Seq(Message), NEW x \in 0 .. Len(s)
  PROVE  /\ SubSeq(s, 1, x) \in Seq(Message) /\ Len(SubSeq(s, 1, x)) = x
         /\ \A i \in 1 .. x : SubSeq(s, 1, x)[i] = s[i]
<1>1. PICK N \in Nat : N = Len(s)
  OBVIOUS
<1> QED
  BY <1>1

(* A part of it has the bytes between its ends.                            *)
LEMMA UptoPart ==
  ASSUME NEW s \in Seq(Message), NEW q \in Seq(Message), NEW a \in Nat, NEW n \in Nat, n = Len(q),
         a + n <= Len(s), \A i \in 1 .. n : q[i] = s[a + i]
  PROVE  Upto(s, a + n) = Upto(s, a) + BytesOf(q)
<1> DEFINE u == SubSeq(s, 1, a)
           w == SubSeq(s, 1, a + n)
           weight == [m \in Message |-> m.len]
<1>0. Len(s) \in Nat /\ a \in 0 .. Len(s) /\ a + n \in 0 .. Len(s)
  OBVIOUS
<1>1. u \in Seq(Message) /\ Len(u) = a /\ \A i \in 1 .. a : u[i] = s[i]
  BY <1>0, PrefixTyped
<1>2. w \in Seq(Message) /\ Len(w) = a + n /\ \A i \in 1 .. a + n : w[i] = s[i]
  BY <1>0, PrefixTyped
<1> HIDE DEF u, w
<1>3. \A i \in 1 .. a : w[i] = u[i]
  <2> TAKE i \in 1 .. a
  <2>1. i \in 1 .. a + n
    OBVIOUS
  <2> QED
    BY <1>1, <1>2, <2>1
<1>4. \A i \in 1 .. n : w[a + i] = q[i]
  <2> TAKE i \in 1 .. n
  <2>1. a + i \in 1 .. a + n
    OBVIOUS
  <2> QED
    BY <1>2, <2>1
<1>5. w = u \o q
  <2>1. Joined(Message, u, q, w)
    <3>1. a = Len(u) /\ n = Len(q) /\ Len(w) = a + n
      BY <1>1, <1>2
    <3> QED
      BY <1>1, <1>2, <1>3, <1>4, <3>1 DEF Joined
  <2> QED
    BY <2>1, ConcatKnown
<1>6. weight \in [Message -> Nat]
  BY DEF Message
<1> HIDE DEF weight
<1>7. Total(weight, u \o q) = Total(weight, u) + Total(weight, q)
  BY <1>1, <1>6, TotalConcat
<1>8. BytesOf(w) = BytesOf(u) + BytesOf(q)
  BY <1>1, <1>2, <1>5, <1>7, BytesAreTotal DEF weight
<1> QED
  BY <1>8 DEF Upto, u, w

(* They grow, by each message's length.                                    *)
LEMMA UptoGrows ==
  ASSUME NEW s \in Seq(Message)
  PROVE  /\ Upto(s, 0) = 0
         /\ \A a \in 0 .. Len(s) : Upto(s, a) \in Nat
         /\ \A a \in 1 .. Len(s) : Upto(s, a) = Upto(s, a - 1) + s[a].len
         /\ \A a, b \in 0 .. Len(s) : a <= b => Upto(s, a) <= Upto(s, b)
<1>1. PICK N \in Nat : N = Len(s)
  OBVIOUS
<1>2. Upto(s, 0) = 0
  <2>1. SubSeq(s, 1, 0) = <<>>
    BY <1>1, SubSeqEmpty
  <2> QED
    BY <2>1, BytesTyped DEF Upto
<1>3. ASSUME NEW a \in 0 .. N PROVE Upto(s, a) \in Nat
  <2>1. SubSeq(s, 1, a) \in Seq(Message)
    BY <1>1, PrefixTyped
  <2> QED
    BY <2>1, BytesTyped DEF Upto
<1>4. ASSUME NEW a \in 1 .. N PROVE Upto(s, a) = Upto(s, a - 1) + s[a].len
  <2> DEFINE m == s[a]
             c == a - 1
  <2>1. m \in Message /\ c \in Nat /\ c + 1 <= Len(s) /\ c + 1 = a
    BY <1>1
  <2> HIDE DEF m, c
  <2>2. /\ <<m>> \in Seq(Message) /\ Len(<<m>>) = 1
        /\ \A i \in 1 .. 1 : <<m>>[i] = s[c + i]
    BY <2>1 DEF m
  <2>3. Upto(s, c + 1) = Upto(s, c) + BytesOf(<<m>>)
    BY <2>1, <2>2, UptoPart
  <2>4. BytesOf(<<m>>) = m.len
    <3>1. <<>> \in Seq(Message) /\ Append(<<>>, m) = <<m>> /\ m.len \in Nat
      BY <2>1 DEF Message
    <3>2. BytesOf(Append(<<>>, m)) = BytesOf(<<>>) + m.len
      BY <2>1, <3>1, BytesAppend
    <3> QED
      BY <3>1, <3>2, BytesTyped
  <2> QED
    BY <2>1, <2>3, <2>4 DEF m, c
<1>5. ASSUME NEW a \in 0 .. N, NEW b \in 0 .. N, a <= b PROVE Upto(s, a) <= Upto(s, b)
  <2> DEFINE q == SubSeq(s, a + 1, b)
             n == b - a
  <2>1. q \in Seq(Message) /\ Len(q) = n /\ \A i \in 1 .. n : q[i] = s[a + i]
    BY <1>1, <1>5
  <2>2. n \in Nat /\ a \in Nat /\ a + n = b /\ a + n <= Len(s)
    BY <1>1, <1>5
  <2> HIDE DEF q, n
  <2>3. Upto(s, a + n) = Upto(s, a) + BytesOf(q)
    BY <2>1, <2>2, UptoPart
  <2>4. BytesOf(q) \in Nat /\ Upto(s, a) \in Nat
    BY <2>1, <1>3, BytesTyped
  <2> QED
    BY <2>2, <2>3, <2>4
<1> QED
  BY <1>1, <1>2, <1>3, <1>4, <1>5

(* They depend on these messages only.                                     *)
LEMMA UptoSame ==
  ASSUME NEW s \in Seq(Message), NEW t \in Seq(Message), NEW x \in 0 .. Len(s), x <= Len(t),
         \A i \in 1 .. x : t[i] = s[i]
  PROVE  Upto(t, x) = Upto(s, x)
<1>1. x \in 0 .. Len(t)
  OBVIOUS
<1> DEFINE u == SubSeq(s, 1, x)
           v == SubSeq(t, 1, x)
<1>2. u \in Seq(Message) /\ Len(u) = x /\ \A i \in 1 .. x : u[i] = s[i]
  BY PrefixTyped
<1>3. v \in Seq(Message) /\ Len(v) = x /\ \A i \in 1 .. x : v[i] = t[i]
  BY <1>1, PrefixTyped
<1> HIDE DEF u, v
<1>4. u = v
  BY <1>2, <1>3, SeqEqual
<1> QED
  BY <1>4 DEF Upto, u, v

(* Short messages do not add up to much.                                   *)
LEMMA UptoAtMost ==
  ASSUME NEW s \in Seq(Message), NEW a \in 0 .. Len(s), NEW b \in a .. Len(s), NEW longest \in Nat,
         \A x \in a + 1 .. b : s[x].len <= longest
  PROVE  Upto(s, b) <= Upto(s, a) + (b - a) * longest
<1>1. PICK N \in Nat : N = Len(s)
  OBVIOUS
<1> DEFINE n == b - a
           Good == {k \in 0 .. n : Upto(s, a + k) <= Upto(s, a) + k * longest}
<1>2. n \in Nat /\ a + n = b
  BY <1>1
<1>3. 0 \in Good
  <2>1. Upto(s, a) \in Nat
    BY UptoGrows
  <2>2. 0 \in 0 .. n /\ a + 0 = a /\ 0 * longest = 0
    BY <1>1
  <2> QED
    BY <2>1, <2>2
<1>4. ASSUME NEW k \in 0 .. n - 1, k \in Good PROVE k + 1 \in Good
  <2> DEFINE x == a + (k + 1)
  <2>1. x \in 1 .. Len(s) /\ x - 1 = a + k /\ x \in a + 1 .. b /\ k + 1 \in 0 .. n /\ a + k \in 0 .. Len(s)
    BY <1>1
  <2>2. s[x].len <= longest /\ s[x].len \in Nat
    <3>1. s[x] \in Message
      BY <2>1, SMTT(30)
    <3> QED
      BY <2>1, <3>1 DEF Message
  <2>3. Upto(s, x) = Upto(s, a + k) + s[x].len
    BY <2>1, UptoGrows
  <2>4. Upto(s, a + k) <= Upto(s, a) + k * longest
    BY <1>4
  <2>5. Upto(s, a + k) \in Nat /\ Upto(s, a) \in Nat /\ k \in Nat
    BY <1>1, <2>1, UptoGrows
  <2>6. (k + 1) * longest = k * longest + longest /\ k * longest \in Nat
    BY <2>5
  <2> HIDE DEF x
  <2>7. Upto(s, x) <= Upto(s, a) + (k + 1) * longest
    BY <2>2, <2>3, <2>4, <2>5, <2>6, SMTT(30)
  <2> QED
    BY <2>1, <2>7 DEF x
<1>5. n \in Good
  <2> HIDE DEF Good, n
  <2>1. \A k \in 0 .. n - 1 : k \in Good => k + 1 \in Good
    BY <1>4
  <2>2. 0 .. n \subseteq Good
    BY <1>2, <1>3, <2>1, SetInduction
  <2> QED
    BY <1>2, <2>2
<1> QED
  BY <1>2, <1>5

-----------------------------------------------------------------------------
(* What the broadcaster sends, from its first message on.                  *)

(* Nothing draws the whole screen after message x until y.                 *)
Plain(S, x, y) == \A z \in x + 1 .. y : ~S[z].full

(* S is such a stream, with frames 1 to f: each frame has the next number, *)
(* and a redraw the number and the screen of the frame before it.          *)
Stream(S, f) ==
  /\ S \in Seq(Message) /\ f \in Nat
  /\ \A y \in 1 .. Len(S) :
        /\ S[y].n <= f /\ S[y].n # 0
        /\ S[y].kind = "frame" => S[y].len \in FrameLengths
        /\ S[y].kind = "redraw" => S[y].full /\ S[y].len = KeyLength
  /\ Len(S) # 0 => S[1].kind = "frame" /\ S[Len(S)].n = f
  /\ Len(S) = 0 => f = 0
  /\ \A x, y \in 1 .. Len(S) : x < y =>
        /\ S[x].n <= S[y].n
        /\ S[y].kind = "frame" => S[x].n < S[y].n
        /\ S[x].n = S[y].n => S[x].alt = S[y].alt /\ S[x].size = S[y].size
        /\ Plain(S, x, y) => S[y].n = S[x].n + (y - x)

(* T is S and one message more.                                            *)
Continues(S, T, N, m) ==
  /\ S \in Seq(Message) /\ T \in Seq(Message) /\ m \in Message
  /\ N \in Nat /\ N = Len(S) /\ Len(T) = N + 1
  /\ (\A x \in 1 .. N : T[x] = S[x]) /\ T[N + 1] = m

(* What is sent next continues a stream.                                   *)
LEMMA AppendContinues ==
  ASSUME NEW S \in Seq(Message), NEW m \in Message, NEW N \in Nat, N = Len(S)
  PROVE  Continues(S, Append(S, m), N, m)
  BY DEF Continues

(* Parts of a stream are what they were when it grows.                     *)
LEMMA PlainStays ==
  ASSUME NEW S, NEW T, NEW N \in Nat, \A x \in 1 .. N : T[x] = S[x],
         NEW x \in Nat, NEW y \in Nat, y <= N
  PROVE  Plain(T, x, y) <=> Plain(S, x, y)
<1>1. \A z \in x + 1 .. y : z \in 1 .. N
  OBVIOUS
<1> QED
  BY <1>1 DEF Plain

(* A frame with the next number continues it.                              *)
LEMMA StreamFrame ==
  ASSUME NEW S, NEW f, NEW m, NEW T, NEW N, Stream(S, f), Continues(S, T, N, m),
         m.kind = "frame", m.n = f + 1, m.len \in FrameLengths
  PROVE  Stream(T, f + 1)
<1>1. /\ S \in Seq(Message) /\ T \in Seq(Message) /\ m \in Message /\ N \in Nat
      /\ N = Len(S) /\ Len(T) = N + 1 /\ T[N + 1] = m /\ f \in Nat
  BY DEF Continues, Stream
<1>2. \A x \in 1 .. N : T[x] = S[x] /\ S[x] \in Message /\ S[x].n \in Nat
  <2>1. \A x \in 1 .. N : T[x] = S[x] /\ S[x] \in Message
    BY <1>1 DEF Continues
  <2>2. \A e \in Message : e.n \in Nat
    BY DEF Message
  <2> QED
    BY <2>1, <2>2
<1>3. ASSUME NEW y \in 1 .. N + 1
      PROVE  /\ T[y].n <= f + 1 /\ T[y].n # 0
             /\ T[y].kind = "frame" => T[y].len \in FrameLengths
             /\ T[y].kind = "redraw" => T[y].full /\ T[y].len = KeyLength
  <2>1. CASE y = N + 1
    BY <1>1, <2>1
  <2>2. CASE y \in 1 .. N
    <3>1. /\ S[y].n <= f /\ S[y].n # 0
          /\ S[y].kind = "frame" => S[y].len \in FrameLengths
          /\ S[y].kind = "redraw" => S[y].full /\ S[y].len = KeyLength
      BY <1>1, <2>2 DEF Stream
    <3> QED
      BY <1>1, <1>2, <2>2, <3>1
  <2> QED
    BY <1>1, <2>1, <2>2
<1>4. T[1].kind = "frame" /\ T[N + 1].n = f + 1
  <2>1. CASE N = 0
    BY <1>1, <2>1
  <2>2. CASE N # 0
    <3>1. 1 \in 1 .. N
      BY <1>1, <2>2
    <3>2. S[1].kind = "frame"
      BY <1>1, <2>2 DEF Stream
    <3> QED
      BY <1>1, <1>2, <3>1, <3>2
  <2> QED
    BY <2>1, <2>2
<1>5. ASSUME NEW x \in 1 .. N + 1, NEW y \in 1 .. N + 1, x < y
      PROVE  /\ T[x].n <= T[y].n
             /\ T[y].kind = "frame" => T[x].n < T[y].n
             /\ T[x].n = T[y].n => T[x].alt = T[y].alt /\ T[x].size = T[y].size
             /\ Plain(T, x, y) => T[y].n = T[x].n + (y - x)
  <2>1. x \in 1 .. N /\ x \in Nat /\ y \in Nat
    BY <1>1, <1>5
  <2>2. CASE y = N + 1
    <3>1. T[x].n <= f /\ T[x].n \in Nat /\ T[y].n = f + 1
      <4>1. S[x].n <= f
        BY <1>1, <2>1 DEF Stream
      <4> QED
        BY <1>1, <1>2, <2>1, <2>2, <4>1
    <3>2. ASSUME Plain(T, x, y) PROVE T[y].n = T[x].n + (y - x)
      <4>1. S[N].n = f
        BY <1>1, <2>1 DEF Stream
      <4>2. CASE x = N
        BY <1>1, <1>2, <2>1, <2>2, <3>1, <4>1, <4>2
      <4>3. CASE x < N
        <5>1. Plain(T, x, N)
          BY <1>1, <2>1, <2>2, <3>2 DEF Plain
        <5>2. Plain(S, x, N)
          <6>1. N <= N /\ \A w \in 1 .. N : T[w] = S[w]
            BY <1>1, <1>2
          <6> QED
            BY <1>1, <2>1, <5>1, <6>1, PlainStays
        <5>3. N \in 1 .. N
          BY <1>1, <2>1
        <5>4. S[N].n = S[x].n + (N - x)
          BY <1>1, <2>1, <4>3, <5>2, <5>3 DEF Stream
        <5> QED
          BY <1>1, <1>2, <2>1, <2>2, <3>1, <4>1, <5>4, SMTT(30)
      <4> QED
        BY <1>1, <2>1, <4>2, <4>3
    <3> QED
      BY <1>1, <3>1, <3>2
  <2>3. CASE y \in 1 .. N
    <3>1. /\ S[x].n <= S[y].n
          /\ S[y].kind = "frame" => S[x].n < S[y].n
          /\ S[x].n = S[y].n => S[x].alt = S[y].alt /\ S[x].size = S[y].size
          /\ Plain(S, x, y) => S[y].n = S[x].n + (y - x)
      BY <1>1, <1>5, <2>1, <2>3 DEF Stream
    <3>2. Plain(T, x, y) <=> Plain(S, x, y)
      <4>1. y <= N /\ \A w \in 1 .. N : T[w] = S[w]
        BY <1>2, <2>3
      <4> QED
        BY <1>1, <2>1, <4>1, PlainStays
    <3>3. T[x] = S[x] /\ T[y] = S[y]
      BY <1>2, <2>1, <2>3
    <3> QED
      BY <3>1, <3>2, <3>3
  <2> QED
    BY <1>1, <2>2, <2>3
<1>6. f + 1 \in Nat /\ N + 1 # 0
  BY <1>1
<1> QED
  BY <1>1, <1>3, <1>4, <1>5, <1>6 DEF Stream

(* So does a redraw after its frame.                                       *)
LEMMA StreamRedraw ==
  ASSUME NEW S, NEW f, NEW m, NEW T, NEW N, Stream(S, f), Continues(S, T, N, m),
         N # 0, m.kind = "redraw", m.n = f, m.full, m.len = KeyLength,
         m.alt = S[N].alt, m.size = S[N].size
  PROVE  Stream(T, f)
<1>1. /\ S \in Seq(Message) /\ T \in Seq(Message) /\ m \in Message /\ N \in Nat
      /\ N = Len(S) /\ Len(T) = N + 1 /\ T[N + 1] = m /\ f \in Nat
  BY DEF Continues, Stream
<1>2. \A x \in 1 .. N : T[x] = S[x] /\ S[x] \in Message /\ S[x].n \in Nat
  <2>1. \A x \in 1 .. N : T[x] = S[x] /\ S[x] \in Message
    BY <1>1 DEF Continues
  <2>2. \A e \in Message : e.n \in Nat
    BY DEF Message
  <2> QED
    BY <2>1, <2>2
<1>0. N \in 1 .. N /\ S[N].n = f /\ S[N].n # 0 /\ S[1].kind = "frame" /\ 1 \in 1 .. N
  BY <1>1 DEF Stream
<1>3. ASSUME NEW y \in 1 .. N + 1
      PROVE  /\ T[y].n <= f /\ T[y].n # 0
             /\ T[y].kind = "frame" => T[y].len \in FrameLengths
             /\ T[y].kind = "redraw" => T[y].full /\ T[y].len = KeyLength
  <2>1. CASE y = N + 1
    BY <1>0, <1>1, <2>1
  <2>2. CASE y \in 1 .. N
    <3>1. /\ S[y].n <= f /\ S[y].n # 0
          /\ S[y].kind = "frame" => S[y].len \in FrameLengths
          /\ S[y].kind = "redraw" => S[y].full /\ S[y].len = KeyLength
      BY <1>1, <2>2 DEF Stream
    <3> QED
      BY <1>1, <1>2, <2>2, <3>1
  <2> QED
    BY <1>1, <2>1, <2>2
<1>4. T[1].kind = "frame" /\ T[N + 1].n = f
  BY <1>0, <1>1, <1>2
<1>5. ASSUME NEW x \in 1 .. N + 1, NEW y \in 1 .. N + 1, x < y
      PROVE  /\ T[x].n <= T[y].n
             /\ T[y].kind = "frame" => T[x].n < T[y].n
             /\ T[x].n = T[y].n => T[x].alt = T[y].alt /\ T[x].size = T[y].size
             /\ Plain(T, x, y) => T[y].n = T[x].n + (y - x)
  <2>1. x \in 1 .. N /\ x \in Nat /\ y \in Nat
    BY <1>1, <1>5
  <2>2. CASE y = N + 1
    <3>1. T[x].n <= f /\ T[y].n = f
      <4>1. S[x].n <= f
        BY <1>1, <2>1 DEF Stream
      <4> QED
        BY <1>1, <1>2, <2>1, <2>2, <4>1
    <3>2. ~Plain(T, x, y)
      <4>1. y \in x + 1 .. y /\ T[y].full
        BY <1>1, <2>1, <2>2
      <4> QED
        BY <4>1 DEF Plain
    <3>3. ASSUME T[x].n = T[y].n PROVE T[x].alt = T[y].alt /\ T[x].size = T[y].size
      <4>1. T[x] = S[x] /\ S[x].n = S[N].n
        BY <1>0, <1>2, <2>1, <3>1, <3>3
      <4>2. CASE x = N
        BY <1>1, <2>2, <4>1, <4>2
      <4>3. CASE x < N
        <5>1. S[x].alt = S[N].alt /\ S[x].size = S[N].size
          BY <1>0, <1>1, <2>1, <4>1, <4>3 DEF Stream
        <5> QED
          BY <1>1, <2>2, <4>1, <5>1
      <4> QED
        BY <1>1, <2>1, <4>2, <4>3
    <3>4. T[y].kind # "frame"
      BY <1>1, <2>2
    <3> QED
      BY <3>1, <3>2, <3>3, <3>4
  <2>3. CASE y \in 1 .. N
    <3>1. /\ S[x].n <= S[y].n
          /\ S[y].kind = "frame" => S[x].n < S[y].n
          /\ S[x].n = S[y].n => S[x].alt = S[y].alt /\ S[x].size = S[y].size
          /\ Plain(S, x, y) => S[y].n = S[x].n + (y - x)
      BY <1>1, <1>5, <2>1, <2>3 DEF Stream
    <3>2. Plain(T, x, y) <=> Plain(S, x, y)
      <4>1. y <= N /\ \A w \in 1 .. N : T[w] = S[w]
        BY <1>2, <2>3
      <4> QED
        BY <1>1, <2>1, <4>1, PlainStays
    <3>3. T[x] = S[x] /\ T[y] = S[y]
      BY <1>2, <2>1, <2>3
    <3> QED
      BY <3>1, <3>2, <3>3
  <2> QED
    BY <1>1, <2>2, <2>3
<1>6. N + 1 # 0
  BY <1>1
<1> QED
  BY <1>1, <1>3, <1>4, <1>5, <1>6 DEF Stream

-----------------------------------------------------------------------------
(* When the whole screen is drawn.                                         *)

(* Message x is the last up to y that draws it.                            *)
LastFull(S, x, y) == x \in 1 .. y /\ S[x].full /\ Plain(S, x, y)

(* A frame that draws it was counted itself.                               *)
Counted(m) == IF m.kind = "frame" THEN 1 ELSE 0

(* Message y is a frame whose redraw comes right after it.                 *)
RedrawFollows(S, y) == y < Len(S) /\ S[y + 1].kind = "redraw" /\ S[y + 1].n = S[y].n

(* Not more than a cadence before each message of the alternate screen     *)
(* the whole screen was drawn, at its size unless a resize is answered     *)
(* right after it.                                                         *)
OnCadence(S) ==
  \A y \in 1 .. Len(S) : S[y].alt =>
    \E x \in 1 .. y :
       /\ LastFull(S, x, y) /\ (y - x) + Counted(S[x]) <= FramesPerKeyframe
       /\ S[x].size = S[y].size \/ RedrawFollows(S, y)

(* The keyframer's count is that since the last time, or more.             *)
CadenceKept(S) ==
  /\ framesSince < FramesPerKeyframe
  /\ alt => \E x \in 1 .. Len(S) :
               /\ LastFull(S, x, Len(S)) /\ (Len(S) - x) + Counted(S[x]) <= framesSince
               /\ S[x].size = size

(* T is S with what one call of send adds.                                 *)
Grown(S, T, frame, due) ==
  /\ S \in Seq(Message) /\ T \in Seq(Message)
  /\ \A x \in 1 .. Len(S) : T[x] = S[x]
  /\ T[Len(S) + 1] = frame
  /\ IF due /\ alt' THEN Len(T) = Len(S) + 2 /\ T[Len(S) + 2] = Redraw(frame)
                    ELSE Len(T) = Len(S) + 1

(* Sending keeps the cadence.                                              *)
LEMMA OutputOnCadence ==
  ASSUME Types, NEW S, NEW T, NEW frame, NEW due, NEW full, NEW leaves, NEW newSize,
         Sends(frame, due, full, leaves, newSize), Grown(S, T, frame, due),
         OnCadence(S), CadenceKept(S)
  PROVE  OnCadence(T) /\ CadenceKept(T)'
<1>1. PICK N \in Nat : N = Len(S)
  BY DEF Grown
<1>2. /\ \A x \in 1 .. N : T[x] = S[x]
      /\ T[N + 1] = frame
      /\ due /\ alt' => Len(T) = N + 2 /\ T[N + 2] = Redraw(frame)
      /\ ~(due /\ alt') => Len(T) = N + 1
  BY <1>1 DEF Grown
<1>3. /\ frame.kind = "frame" /\ frame.full = full /\ frame.alt = alt' /\ frame.size = newSize
      /\ frame.n = fed'
  BY DEF Sends
<1>4. /\ Redraw(frame).kind = "redraw" /\ Redraw(frame).full /\ Redraw(frame).size = newSize
      /\ Redraw(frame).n = frame.n
  <2>1. frame \in Message
    BY SentTyped
  <2> QED
    BY <1>3, <2>1 DEF Redraw, Message
<1>5. /\ due <=> Fed(newSize) >= FramesPerKeyframe
      /\ framesSince' = IF due THEN 0 ELSE Fed(newSize)
      /\ size' = newSize /\ newSize \in Nat
      /\ (alt' /\ ~full => alt)
      /\ due \in BOOLEAN /\ full \in BOOLEAN
  <2>1. /\ due = IsDue(Fed(newSize))
        /\ framesSince' = IF due THEN 0 ELSE Fed(newSize)
        /\ size' = newSize /\ newSize \in {size, size + 1}
        /\ alt' = ((alt \/ full) /\ ~leaves)
        /\ full \in BOOLEAN
    BY DEF Sends
  <2>2. due <=> Fed(newSize) >= FramesPerKeyframe
    BY <2>1 DEF IsDue
  <2>3. newSize \in Nat
    BY <2>1 DEF Types
  <2>4. alt' /\ ~full => alt
    BY <2>1, Zenon
  <2>5. due \in BOOLEAN
    BY <2>1 DEF IsDue
  <2> QED
    BY <2>1, <2>2, <2>3, <2>4, <2>5
<1>6. FramesPerKeyframe \in Nat /\ FramesPerKeyframe >= 1 /\ framesSince \in Nat
  BY CadenceTyped DEF Types
<1>7. framesSince < FramesPerKeyframe
  BY DEF CadenceKept
<1>8. newSize # size => due
  BY <1>5, <1>6 DEF Fed
<1>9. newSize = size => Fed(newSize) = framesSince + 1
  BY DEF Fed
(* If the frame draws all of the screen, it is the last that does.         *)
<1>10. ASSUME full
       PROVE  LastFull(T, N + 1, N + 1) /\ T[N + 1].size = newSize /\ Counted(T[N + 1]) = 1
  <2>1. N + 1 \in 1 .. N + 1 /\ \A z \in (N + 1) + 1 .. N + 1 : FALSE
    OBVIOUS
  <2> QED
    BY <1>2, <1>3, <1>10, <2>1 DEF LastFull, Plain, Counted
(* If not, it is the one before it.                                        *)
<1>11. ASSUME ~full, alt'
       PROVE  \E x \in 1 .. N + 1 :
                 /\ LastFull(T, x, N + 1) /\ ((N + 1) - x) + Counted(T[x]) <= framesSince + 1
                 /\ T[x].size = size
  <2>1. alt
    BY <1>5, <1>11
  <2>2. PICK x \in 1 .. N : LastFull(S, x, N) /\ (N - x) + Counted(S[x]) <= framesSince
                              /\ S[x].size = size
    BY <1>1, <2>1 DEF CadenceKept
  <2>3. T[x] = S[x] /\ x \in 1 .. N + 1
    BY <1>2
  <2>4. Plain(T, x, N)
    <3>1. N <= N /\ x \in Nat
      OBVIOUS
    <3> QED
      BY <1>2, <2>2, <3>1, PlainStays DEF LastFull
  <2>5. Plain(T, x, N + 1)
    <3> SUFFICES ASSUME NEW z \in x + 1 .. N + 1 PROVE ~T[z].full
      BY DEF Plain
    <3>1. CASE z = N + 1
      BY <1>2, <1>3, <1>11, <3>1
    <3>2. CASE z # N + 1
      <4>1. z \in x + 1 .. N
        BY <3>2
      <4> QED
        BY <2>4, <4>1 DEF Plain
    <3> QED
      BY <3>1, <3>2
  <2>6. ((N + 1) - x) + Counted(T[x]) <= framesSince + 1
    BY <1>6, <2>2, <2>3 DEF Counted
  <2> QED
    BY <2>2, <2>3, <2>5, <2>6 DEF LastFull
<1>12. ASSUME due, alt'
       PROVE  /\ Len(T) = N + 2 /\ LastFull(T, N + 2, N + 2) /\ T[N + 2].size = newSize
              /\ Counted(T[N + 2]) = 0
  <2>1. N + 2 \in 1 .. N + 2 /\ \A z \in (N + 2) + 1 .. N + 2 : FALSE
    OBVIOUS
  <2> QED
    BY <1>2, <1>4, <1>12, <2>1 DEF LastFull, Plain, Counted
<1>13. OnCadence(T)
  <2> SUFFICES ASSUME NEW y \in 1 .. Len(T), T[y].alt
               PROVE  \E x \in 1 .. y :
                        /\ LastFull(T, x, y) /\ (y - x) + Counted(T[x]) <= FramesPerKeyframe
                        /\ T[x].size = T[y].size \/ RedrawFollows(T, y)
    BY DEF OnCadence
  <2>1. CASE y \in 1 .. N
    <3>1. T[y] = S[y] /\ S[y].alt
      BY <1>2, <2>1
    <3>2. PICK x \in 1 .. y :
             /\ LastFull(S, x, y) /\ (y - x) + Counted(S[x]) <= FramesPerKeyframe
             /\ S[x].size = S[y].size \/ RedrawFollows(S, y)
      BY <1>1, <2>1, <3>1 DEF OnCadence
    <3>3. x \in 1 .. N /\ T[x] = S[x] /\ x \in Nat /\ y \in Nat /\ y <= N
      BY <1>2, <2>1
    <3>4. LastFull(T, x, y)
      BY <1>2, <3>2, <3>3, PlainStays DEF LastFull
    <3>5. ASSUME RedrawFollows(S, y) PROVE RedrawFollows(T, y)
      <4>1. y + 1 \in 1 .. N
        BY <1>1, <3>3, <3>5 DEF RedrawFollows
      <4>2. T[y + 1] = S[y + 1] /\ y < Len(T)
        BY <1>2, <4>1
      <4> QED
        BY <3>1, <3>5, <4>2 DEF RedrawFollows
    <3> QED
      BY <3>1, <3>2, <3>3, <3>4, <3>5
  <2>2. CASE y = N + 1
    <3>1. alt' /\ T[y].size = newSize
      BY <1>2, <1>3, <2>2
    <3>2. CASE full
      <4>1. y \in 1 .. y /\ (y - y) + 1 <= FramesPerKeyframe
        BY <1>6, <2>2
      <4> QED
        BY <1>10, <2>2, <3>1, <3>2, <4>1
    <3>3. CASE ~full
      <4>1. PICK x \in 1 .. N + 1 :
                 /\ LastFull(T, x, N + 1) /\ ((N + 1) - x) + Counted(T[x]) <= framesSince + 1
                 /\ T[x].size = size
        BY <1>11, <3>1, <3>3
      <4>2. (y - x) + Counted(T[x]) <= FramesPerKeyframe
        BY <1>6, <1>7, <2>2, <4>1 DEF Counted
      <4>3. CASE newSize = size
        BY <2>2, <3>1, <4>1, <4>2, <4>3
      <4>4. CASE newSize # size
        <5>1. due
          BY <1>8, <4>4
        <5>2. RedrawFollows(T, y)
          <6>1. y < Len(T) /\ y + 1 = N + 2
            BY <1>2, <2>2, <3>1, <5>1
          <6> QED
            BY <1>2, <1>4, <2>2, <3>1, <5>1, <6>1 DEF RedrawFollows
        <5> QED
          BY <2>2, <4>1, <4>2, <5>2
      <4> QED
        BY <4>3, <4>4
    <3> QED
      BY <1>5, <3>2, <3>3
  <2>3. CASE y = N + 2
    <3>1. due /\ alt'
      BY <1>2, <2>3
    <3>2. y \in 1 .. y /\ (y - y) + 0 <= FramesPerKeyframe
      BY <1>6, <2>3
    <3> QED
      BY <1>12, <2>3, <3>1, <3>2
  <2> QED
    BY <1>2, <2>1, <2>2, <2>3
<1>14. CadenceKept(T)'
  <2>1. framesSince' < FramesPerKeyframe
    <3>1. Fed(newSize) \in Nat
      BY <1>6 DEF Fed
    <3> QED
      BY <1>5, <1>6, <3>1
  <2>2. ASSUME alt'
        PROVE  \E x \in 1 .. Len(T) :
                  /\ LastFull(T, x, Len(T)) /\ (Len(T) - x) + Counted(T[x]) <= framesSince'
                  /\ T[x].size = size'
    <3>1. CASE due
      <4>1. N + 2 \in 1 .. N + 2 /\ ((N + 2) - (N + 2)) + 0 <= 0
        OBVIOUS
      <4> QED
        BY <1>5, <1>12, <2>2, <3>1, <4>1
    <3>2. CASE ~due
      <4>1. Len(T) = N + 1 /\ newSize = size /\ framesSince' = framesSince + 1
        BY <1>2, <1>5, <1>8, <1>9, <3>2
      <4>2. CASE full
        <5>1. N + 1 \in 1 .. N + 1 /\ ((N + 1) - (N + 1)) + 1 <= framesSince + 1
          BY <1>6
        <5> QED
          BY <1>5, <1>10, <4>1, <4>2, <5>1
      <4>3. CASE ~full
        BY <1>5, <1>11, <2>2, <4>1, <4>3
      <4> QED
        BY <1>5, <4>2, <4>3
    <3> QED
      BY <1>5, <3>1, <3>2
  <2> QED
    BY <2>1, <2>2 DEF CadenceKept, LastFull, Plain, Counted
<1> QED
  BY <1>13, <1>14

(* Sending continues the stream.                                           *)
LEMMA OutputStream ==
  ASSUME Types, NEW S, NEW frame, NEW due, NEW full, NEW leaves, NEW newSize,
         Sends(frame, due, full, leaves, newSize), Stream(S, fed)
  PROVE  \E T : /\ Grown(S, T, frame, due) /\ Stream(T, fed')
                /\ Len(Sent(frame, due)) \in Nat /\ Len(T) = Len(S) + Len(Sent(frame, due))
                /\ \A i \in 1 .. Len(Sent(frame, due)) : T[Len(S) + i] = Sent(frame, due)[i]
<1>1. PICK N \in Nat : N = Len(S) /\ S \in Seq(Message)
  BY DEF Stream
<1>2. frame \in Message /\ Redraw(frame) \in Message
  BY SentTyped
<1>3. /\ frame.kind = "frame" /\ frame.n = fed + 1 /\ fed' = fed + 1
      /\ frame.len \in FrameLengths
  BY DEF Sends
<1>4. /\ Redraw(frame).kind = "redraw" /\ Redraw(frame).n = frame.n /\ Redraw(frame).full
      /\ Redraw(frame).len = KeyLength
      /\ Redraw(frame).alt = frame.alt /\ Redraw(frame).size = frame.size
  BY <1>2 DEF Redraw, Message
<1> DEFINE A == Append(S, frame)
           B == Append(A, Redraw(frame))
<1>5. Continues(S, A, N, frame)
  BY <1>1, <1>2, AppendContinues
<1>6. A \in Seq(Message) /\ Len(A) = N + 1 /\ A[N + 1] = frame /\ N + 1 \in Nat /\ N + 1 # 0
      /\ \A x \in 1 .. N : A[x] = S[x]
  BY <1>5 DEF Continues
<1> HIDE DEF A
<1>7. Stream(A, fed')
  BY <1>3, <1>5, StreamFrame
<1>8. CASE due /\ alt'
  <2>1. Continues(A, B, N + 1, Redraw(frame))
    BY <1>2, <1>6, AppendContinues
  <2>2. B \in Seq(Message) /\ Len(B) = N + 2 /\ B[N + 2] = Redraw(frame)
        /\ \A x \in 1 .. N + 1 : B[x] = A[x]
    <3>1. (N + 1) + 1 = N + 2
      OBVIOUS
    <3> QED
      BY <2>1, <3>1 DEF Continues
  <2> HIDE DEF B
  <2>3. Stream(B, fed')
    BY <1>3, <1>4, <1>6, <1>7, <2>1, StreamRedraw
  <2>4. \A x \in 1 .. N : B[x] = S[x]
    BY <1>6, <2>2
  <2>5. B[N + 1] = frame
    BY <1>6, <2>2
  <2>6. Grown(S, B, frame, due)
    BY <1>1, <1>8, <2>2, <2>4, <2>5 DEF Grown
  <2>7. Sent(frame, due) = <<frame>> \o <<Redraw(frame)>>
    BY <1>8 DEF Sent
  <2>8. Len(Sent(frame, due)) = 2 /\ Sent(frame, due)[1] = frame
        /\ Sent(frame, due)[2] = Redraw(frame)
    <3> DEFINE q == <<frame>>
               r == Redraw(frame)
    <3>1. q \in Seq(Message) /\ Len(q) = 1 /\ q[1] = frame /\ r \in Message
      BY <1>2
    <3>2. Sent(frame, due) = q \o <<r>>
      BY <2>7
    <3> HIDE DEF q, r
    <3>3. Append(q, r) = q \o <<r>>
      BY <3>1
    <3>4. Len(Append(q, r)) = 2 /\ Append(q, r)[1] = q[1] /\ Append(q, r)[2] = r
      BY <3>1
    <3> QED
      BY <3>1, <3>2, <3>3, <3>4 DEF r
  <2>9. \A i \in 1 .. Len(Sent(frame, due)) : i = 1 \/ i = 2
    BY <2>8
  <2> QED
    BY <1>1, <2>2, <2>3, <2>5, <2>6, <2>8, <2>9
<1>9. CASE ~(due /\ alt')
  <2>1. Grown(S, A, frame, due)
    BY <1>1, <1>6, <1>9 DEF Grown
  <2>2. Sent(frame, due) = <<frame>>
    <3>1. Sent(frame, due) = <<frame>> \o <<>>
      BY <1>9 DEF Sent
    <3> QED
      BY <1>2, <3>1
  <2>3. Len(Sent(frame, due)) = 1 /\ Sent(frame, due)[1] = frame
    BY <2>2
  <2>4. \A i \in 1 .. Len(Sent(frame, due)) : i = 1
    BY <2>3
  <2> QED
    BY <1>1, <1>6, <1>7, <2>1, <2>3, <2>4
<1> QED
  BY <1>8, <1>9

-----------------------------------------------------------------------------
(* Where the stream is: its first g messages have left the buffer, its     *)
(* first d have reached the server, the first e of them in vain.           *)

Least(a, b) == IF a < b THEN a ELSE b

(* The buffer is the rest of the stream, and no more than its cap.         *)
Buffered(S, g) ==
  /\ g \in Nat /\ Len(S) = g + Len(unacked) + Len(pending)
  /\ \A i \in 1 .. Len(unacked) : unacked[i] = S[g + i]
  /\ \A i \in 1 .. Len(pending) : pending[i] = S[g + Len(unacked) + i]
  /\ Upto(S, Len(S)) - Upto(S, g) <= MaxBuffered

(* What lost says of messages that never arrived, or in vain; the history  *)
(* has messages that did.                                                  *)
Received(S, g, d, e) ==
  /\ e \in 0 .. g /\ d \in e .. Len(S)
  /\ unacked # <<>> => g + Len(unacked) <= d
  /\ \A x \in d + 1 .. g : S[x].n <= lost
  /\ (\A x \in 1 .. e : S[x].n <= lost) \/ (e < Len(S) /\ S[e + 1].full)
  /\ \A x \in g + 1 .. Len(S) : lost <= S[x].n
  /\ lost <= fed
  /\ chunks # <<>> => e < d
  /\ \A i \in 1 .. Len(chunks) : \E x \in 1 .. d : chunks[i] = S[x]

(* The messages of history h from i on begin with message p of the stream, *)
(* have all that follows it, and are bounded in number and bytes.          *)
Anchor(h, S, d, p, i, most, weight) ==
  /\ i \in 1 .. Len(h) /\ h[i] = S[p]
  /\ \A x \in p + 1 .. d : \E j \in i + 1 .. Len(h) : h[j] = S[x]
  /\ Len(h) - i <= most /\ BytesOf(Suffix(h, i - 1)) <= weight

(* How far the broadcaster has sent the stream, again or for the first time. *)
Cursor(g, d) == Least(g + Len(unacked), d)

(* Messages p to d and what reconnects repeat are within the bounds.       *)
Window(S, d, p) ==
  /\ 1 + (d - p) + breaks * Repeats <= MaxMessages
  /\ (Upto(S, d) - Upto(S, p - 1)) + breaks * MaxBuffered <= MaxBytes

(* What is within the bounds is in the history.                            *)
Kept(S, g, d, e) ==
  \A p \in e + 1 .. d : S[p].n > lost /\ Window(S, d, p) =>
     \E i \in 1 .. Len(chunks) :
        Anchor(chunks, S, d, p, i, (Cursor(g, d) - p) + breaks * Repeats,
               (Upto(S, Cursor(g, d)) - Upto(S, p - 1)) + breaks * MaxBuffered)

(* All there is to know of a stream and of what became of it.              *)
Follows(S, g, d, e) ==
  /\ Stream(S, fed) /\ OnCadence(S) /\ CadenceKept(S)
  /\ Buffered(S, g) /\ Received(S, g, d, e) /\ Kept(S, g, d, e)

-----------------------------------------------------------------------------
(* Trimming keeps what fits.                                               *)

(* A suffix of a suffix.                                                   *)
LEMMA SuffixOfSuffix ==
  ASSUME NEW q \in Seq(Message), NEW n \in Nat, n = Len(q), NEW a \in Nat, NEW b \in Nat, a + b <= n
  PROVE  Suffix(Suffix(q, a), b) = Suffix(q, a + b)
<1> DEFINE s == Suffix(q, a)
           t == Suffix(s, b)
           u == Suffix(q, a + b)
<1>1. s \in Seq(Message) /\ Len(s) = n - a /\ \A i \in 1 .. n - a : s[i] = q[a + i]
  <2>1. a \in 0 .. n
    OBVIOUS
  <2> QED
    BY <2>1, SuffixTyped
<1>2. u \in Seq(Message) /\ Len(u) = n - (a + b) /\ \A i \in 1 .. n - (a + b) : u[i] = q[(a + b) + i]
  <2>1. a + b \in 0 .. n
    OBVIOUS
  <2> QED
    BY <2>1, SuffixTyped
<1> HIDE DEF s, u
<1>3. t \in Seq(Message) /\ Len(t) = (n - a) - b /\ \A i \in 1 .. (n - a) - b : t[i] = s[b + i]
  <2>1. n - a \in Nat /\ n - a = Len(s) /\ b \in 0 .. n - a
    BY <1>1
  <2> QED
    BY <1>1, <2>1, SuffixTyped
<1> HIDE DEF t
<1>4. Len(t) = Len(u) /\ Len(t) \in Nat
  BY <1>2, <1>3
<1>5. \A i \in 1 .. Len(t) : t[i] = u[i]
  <2> TAKE i \in 1 .. Len(t)
  <2>1. i \in 1 .. (n - a) - b /\ i \in 1 .. n - (a + b) /\ b + i \in 1 .. n - a
        /\ a + (b + i) = (a + b) + i
    BY <1>3
  <2> QED
    BY <1>1, <1>2, <1>3, <2>1
<1>6. t = u
  BY <1>2, <1>3, <1>4, <1>5, SeqEqual
<1> QED
  BY <1>6 DEF s, t, u

(* A suffix of a longer sequence.                                          *)
LEMMA SuffixOfLonger ==
  ASSUME NEW q \in Seq(Message), NEW m \in Message, NEW n \in Nat, n = Len(q), NEW k \in 0 .. n
  PROVE  BytesOf(Suffix(Append(q, m), k)) = BytesOf(Suffix(q, k)) + m.len
<1> DEFINE c == Append(q, m)
           s == Suffix(q, k)
           t == Suffix(c, k)
           u == Append(s, m)
<1>1. c \in Seq(Message) /\ Len(c) = n + 1 /\ c[n + 1] = m /\ \A i \in 1 .. n : c[i] = q[i]
  OBVIOUS
<1>2. s \in Seq(Message) /\ Len(s) = n - k /\ \A i \in 1 .. n - k : s[i] = q[k + i]
  BY SuffixTyped
<1> HIDE DEF c, s
<1>3. t \in Seq(Message) /\ Len(t) = (n + 1) - k /\ \A i \in 1 .. (n + 1) - k : t[i] = c[k + i]
  <2>1. n + 1 \in Nat /\ n + 1 = Len(c) /\ k \in 0 .. n + 1
    BY <1>1
  <2> QED
    BY <1>1, <2>1, SuffixTyped
<1>4. u \in Seq(Message) /\ Len(u) = (n - k) + 1 /\ u[(n - k) + 1] = m
      /\ \A i \in 1 .. n - k : u[i] = s[i]
  BY <1>2
<1>5. BytesOf(u) = BytesOf(s) + m.len
  BY <1>2, BytesAppend
<1> HIDE DEF t, u
<1>6. Len(t) = Len(u) /\ Len(t) \in Nat
  BY <1>3, <1>4
<1>7. \A i \in 1 .. Len(t) : t[i] = u[i]
  <2> TAKE i \in 1 .. Len(t)
  <2>1. CASE i = (n - k) + 1
    <3>1. i \in 1 .. (n + 1) - k /\ k + i = n + 1
      BY <1>3, <2>1
    <3> QED
      BY <1>1, <1>3, <1>4, <2>1, <3>1
  <2>2. CASE i # (n - k) + 1
    <3>1. i \in 1 .. n - k /\ i \in 1 .. (n + 1) - k /\ k + i \in 1 .. n
      BY <1>3, <2>2
    <3> QED
      BY <1>1, <1>2, <1>3, <1>4, <3>1
  <2> QED
    BY <2>1, <2>2
<1>8. t = u
  BY <1>3, <1>4, <1>6, <1>7, SeqEqual
<1> QED
  BY <1>5, <1>8 DEF c, s, t, u

(* Trimming keeps an anchor that fits with all that follows.               *)
LEMMA TrimmingKeeps ==
  ASSUME NEW c \in Seq(Message), NEW n \in Nat, n = Len(c), NEW S, NEW d \in Nat, NEW p \in Nat,
         NEW i, NEW most, NEW weight,
         Anchor(c, S, d, p, i, most, weight), Fits(Suffix(c, i - 1))
  PROVE  \E k \in 1 .. Len(LongestFitting(c)) :
            Anchor(LongestFitting(c), S, d, p, k, most, weight)
<1> DEFINE K == Cut(c)
           t == LongestFitting(c)
           k == i - K
<1>1. K \in 0 .. n /\ \A x \in 0 .. n : x < K => ~Fits(Suffix(c, x))
  BY CutIs
<1>2. i \in 1 .. n
  BY DEF Anchor
<1>3. K <= i - 1
  <2>1. i - 1 \in 0 .. n /\ K \in Nat
    BY <1>1, <1>2
  <2> QED
    BY <1>1, <1>2, <2>1
<1>4. t = Suffix(c, K)
  BY DEF LongestFitting, Cut
<1> HIDE DEF K, t, k
<1>5. t \in Seq(Message) /\ Len(t) = n - K /\ \A j \in 1 .. n - K : t[j] = c[K + j]
  BY <1>1, <1>4, SuffixTyped
<1>6. k \in 1 .. n - K /\ K + k = i /\ K \in Nat /\ k \in Nat
  BY <1>1, <1>2, <1>3 DEF k
<1>7. Suffix(t, k - 1) = Suffix(c, i - 1)
  <2>1. K \in Nat /\ k - 1 \in Nat /\ K + (k - 1) <= n /\ K + (k - 1) = i - 1
    BY <1>1, <1>2, <1>6
  <2> QED
    BY <1>4, <2>1, SuffixOfSuffix
<1>8. Anchor(t, S, d, p, k, most, weight)
  <2>1. k \in 1 .. Len(t) /\ t[k] = S[p]
    BY <1>5, <1>6 DEF Anchor
  <2>2. ASSUME NEW x \in p + 1 .. d PROVE \E j \in k + 1 .. Len(t) : t[j] = S[x]
    <3>1. PICK j \in i + 1 .. n : c[j] = S[x]
      BY DEF Anchor
    <3>2. j - K \in k + 1 .. n - K /\ j - K \in 1 .. n - K /\ K + (j - K) = j
      BY <1>1, <1>2, <1>6
    <3> QED
      BY <1>5, <3>1, <3>2
  <2>3. Len(t) - k = n - i
    <3>1. Len(t) = n - K /\ K + k = i
      BY <1>5, <1>6
    <3>2. i \in Nat
      BY <1>2
    <3> QED
      BY <1>6, <3>1, <3>2
  <2>4. Len(t) - k <= most /\ BytesOf(Suffix(t, k - 1)) <= weight
    BY <1>7, <2>3 DEF Anchor
  <2> QED
    BY <2>1, <2>2, <2>4 DEF Anchor
<1> QED
  BY <1>5, <1>6, <1>8 DEF t

(* What reconnects may repeat.                                             *)
LEMMA RepeatsTyped ==
  ASSUME Types
  PROVE  /\ breaks \in Nat /\ Repeats \in Nat /\ MaxBuffered \in Nat
         /\ breaks * Repeats \in Nat /\ breaks * MaxBuffered \in Nat
  BY CadenceTyped DEF Types

-----------------------------------------------------------------------------
(* Each step keeps track of the stream.                                    *)

(* Nothing but the buffer and what reached the server changes: the stream  *)
(* is as it was.                                                           *)
LEMMA SameStream ==
  ASSUME NEW S, Stream(S, fed), CadenceKept(S), UNCHANGED <<keyframerVars, fed>>
  PROVE  Stream(S, fed') /\ CadenceKept(S)'
<1>1. fed' = fed /\ alt' = alt /\ size' = size /\ framesSince' = framesSince
  BY DEF keyframerVars
<1> QED
  BY <1>1 DEF CadenceKept

(* An ack releases the oldest message, which the server has.               *)
LEMMA AckedFollows ==
  ASSUME Types, NEW S, NEW g, NEW d, NEW e, Follows(S, g, d, e), Acked
  PROVE  Follows(S, g + 1, d, e)'
<1>1. /\ Stream(S, fed) /\ OnCadence(S) /\ CadenceKept(S)
      /\ Buffered(S, g) /\ Received(S, g, d, e) /\ Kept(S, g, d, e)
  BY DEF Follows
<1>2. /\ unacked # <<>> /\ unacked' = Tail(unacked) /\ unacked \in Seq(Message)
      /\ UNCHANGED <<keyframerVars, fed>>
      /\ pending' = pending /\ chunks' = chunks /\ breaks' = breaks /\ lost' = lost /\ fed' = fed
  BY DEF Acked, Types, historyVars
<1>3. PICK U \in Nat \ {0} : U = Len(unacked)
  BY <1>2
<1>4. PICK P \in Nat : P = Len(pending)
  BY DEF Types
<1>5. PICK N \in Nat : N = Len(S)
  BY <1>1 DEF Stream
<1>6. Len(unacked') = U - 1 /\ \A i \in 1 .. U - 1 : unacked'[i] = unacked[i + 1]
  BY <1>2, <1>3, TailTyped
<1>7. g \in Nat /\ N = g + U + P /\ Len(pending') = P
  BY <1>1, <1>2, <1>3, <1>4, <1>5 DEF Buffered
<1>8. S \in Seq(Message)
  BY <1>1 DEF Stream
<1>9. Buffered(S, g + 1)'
  <2>1. \A i \in 1 .. U - 1 : unacked'[i] = S[(g + 1) + i]
    <3> TAKE i \in 1 .. U - 1
    <3>1. i + 1 \in 1 .. U /\ g + (i + 1) = (g + 1) + i
      BY <1>7
    <3>2. unacked[i + 1] = S[g + (i + 1)]
      BY <1>1, <1>3, <3>1 DEF Buffered
    <3> QED
      BY <1>6, <3>1, <3>2
  <2>2. \A i \in 1 .. P : pending'[i] = S[(g + 1) + (U - 1) + i]
    <3> TAKE i \in 1 .. P
    <3>1. g + U + i = (g + 1) + (U - 1) + i
      BY <1>7
    <3>2. pending[i] = S[g + U + i]
      BY <1>1, <1>3, <1>4 DEF Buffered
    <3> QED
      BY <1>2, <3>1, <3>2
  <2>3. Upto(S, N) - Upto(S, g + 1) <= MaxBuffered
    <3>1. Upto(S, N) - Upto(S, g) <= MaxBuffered
      BY <1>1, <1>5 DEF Buffered
    <3>2. g \in 0 .. N /\ g + 1 \in 0 .. N /\ N \in 0 .. N /\ g <= g + 1
      BY <1>7
    <3>3. /\ Upto(S, g) \in Nat /\ Upto(S, g + 1) \in Nat /\ Upto(S, N) \in Nat
          /\ Upto(S, g) <= Upto(S, g + 1)
      BY <1>5, <1>8, <3>2, UptoGrows
    <3> QED
      BY <3>1, <3>3, CadenceTyped
  <2>4. g + 1 \in Nat /\ N = (g + 1) + (U - 1) + P
    BY <1>7
  <2> QED
    BY <1>5, <1>6, <1>7, <2>1, <2>2, <2>3, <2>4 DEF Buffered
<1>10. Received(S, g + 1, d, e)'
  <2>1. /\ e \in 0 .. g /\ d \in e .. N /\ g + U <= d
        /\ (\A x \in 1 .. e : S[x].n <= lost) \/ (e < N /\ S[e + 1].full)
        /\ \A x \in g + 1 .. N : lost <= S[x].n
        /\ lost <= fed
        /\ chunks # <<>> => e < d
        /\ \A i \in 1 .. Len(chunks) : \E x \in 1 .. d : chunks[i] = S[x]
    BY <1>1, <1>2, <1>3, <1>5 DEF Received
  <2>2. /\ e \in 0 .. g + 1 /\ (g + 1) + (U - 1) <= d
        /\ \A x \in d + 1 .. g + 1 : FALSE
        /\ \A x \in (g + 1) + 1 .. N : x \in g + 1 .. N
    BY <1>7, <2>1
  <2> QED
    BY <1>2, <1>5, <1>6, <2>1, <2>2 DEF Received
<1>11. Kept(S, g + 1, d, e)'
  <2>1. Cursor(g + 1, d)' = Cursor(g, d)
    <3>1. (g + 1) + (U - 1) = g + U
      BY <1>7
    <3> QED
      BY <1>3, <1>6, <3>1 DEF Cursor
  <2>2. Kept(S, g, d, e)
    BY <1>1
  <2> QED
    BY <1>2, <2>1, <2>2 DEF Kept, Window, Anchor
<1> QED
  BY <1>1, <1>2, <1>9, <1>10, <1>11, SameStream DEF Follows

(* What has yet to be acknowledged or written will be sent again.          *)
LEMMA BufferedAgain ==
  ASSUME Types, NEW S, NEW g, Buffered(S, g), pending' = unacked \o pending, unacked' = <<>>
  PROVE  Buffered(S, g)'
<1>1. PICK U \in Nat, P \in Nat : U = Len(unacked) /\ P = Len(pending)
  BY DEF Types
<1>2. /\ Len(pending') = U + P
      /\ \A i \in 1 .. U : pending'[i] = unacked[i]
      /\ \A i \in 1 .. P : pending'[U + i] = pending[i]
  BY <1>1, ConcatAt DEF Types
<1>3. /\ g \in Nat /\ Len(S) = g + U + P
      /\ \A i \in 1 .. U : unacked[i] = S[g + i]
      /\ \A i \in 1 .. P : pending[i] = S[g + U + i]
      /\ Upto(S, Len(S)) - Upto(S, g) <= MaxBuffered
  BY <1>1 DEF Buffered
<1>4. Len(unacked') = 0
  OBVIOUS
<1>5. Len(S) = g + 0 + (U + P)
  BY <1>3
<1>6. \A i \in 1 .. U + P : pending'[i] = S[g + 0 + i]
  <2> TAKE i \in 1 .. U + P
  <2>1. CASE i <= U
    <3>1. i \in 1 .. U /\ g + 0 + i = g + i
      BY <1>3, <2>1
    <3> QED
      BY <1>2, <1>3, <3>1
  <2>2. CASE ~(i <= U)
    <3>1. PICK k \in 1 .. P : U + k = i /\ g + U + k = g + 0 + i
      <4>1. i - U \in 1 .. P /\ U + (i - U) = i /\ g + U + (i - U) = g + 0 + i
        BY <1>3, <2>2
      <4> QED
        BY <4>1
    <3>2. pending'[U + k] = pending[k]
      BY <1>2
    <3>3. pending[k] = S[g + U + k]
      BY <1>3
    <3> QED
      BY <3>1, <3>2, <3>3
  <2> QED
    BY <2>1, <2>2
<1>7. \A i \in 1 .. 0 : unacked'[i] = S[g + i]
  OBVIOUS
<1> QED
  BY <1>2, <1>3, <1>4, <1>5, <1>6, <1>7 DEF Buffered

(* A reconnect begins with the oldest message of the buffer, and may       *)
(* repeat that much.                                                       *)
LEMMA BreakFollows ==
  ASSUME Types, Bounded, NEW S, NEW g, NEW d, NEW e, Follows(S, g, d, e), Break
  PROVE  Follows(S, g, d, e)'
<1>1. /\ Stream(S, fed) /\ OnCadence(S) /\ CadenceKept(S)
      /\ Buffered(S, g) /\ Received(S, g, d, e) /\ Kept(S, g, d, e)
  BY DEF Follows
<1>2. /\ pending' = unacked \o pending /\ unacked' = <<>>
      /\ UNCHANGED <<keyframerVars, fed>>
      /\ chunks' = chunks /\ breaks' = breaks + 1 /\ lost' = lost /\ fed' = fed
      /\ Len(unacked) <= Repeats
  BY DEF Break, historyVars
<1>3. PICK U \in Nat, N \in Nat : U = Len(unacked) /\ N = Len(S)
  BY <1>1 DEF Types, Stream
<1>4. S \in Seq(Message) /\ g \in Nat /\ g + U <= N /\ d \in 0 .. N /\ e \in Nat
  <2>1. Len(pending) \in Nat
    BY DEF Types
  <2> QED
    BY <1>1, <1>3, <2>1 DEF Stream, Buffered, Received
<1>5. Buffered(S, g)'
  BY <1>1, <1>2, BufferedAgain
<1>6. Received(S, g, d, e)'
  BY <1>1, <1>2 DEF Received
<1>7. /\ breaks \in Nat /\ Repeats \in Nat /\ MaxBuffered \in Nat
      /\ breaks * Repeats \in Nat /\ breaks * MaxBuffered \in Nat
      /\ (breaks + 1) * Repeats = breaks * Repeats + Repeats
      /\ (breaks + 1) * MaxBuffered = breaks * MaxBuffered + MaxBuffered
  <2>1. /\ breaks \in Nat /\ Repeats \in Nat /\ MaxBuffered \in Nat
        /\ breaks * Repeats \in Nat /\ breaks * MaxBuffered \in Nat
    BY RepeatsTyped
  <2>2. \A a, b \in Nat : (a + 1) * b = a * b + b
    OBVIOUS
  <2> QED
    BY <2>1, <2>2
<1>8. PICK r \in Nat, w \in Nat, s \in Nat, v \in Nat :
        /\ r = breaks * Repeats /\ w = breaks * MaxBuffered
        /\ s = breaks' * Repeats /\ v = breaks' * MaxBuffered
        /\ s = r + Repeats /\ v = w + MaxBuffered
  BY <1>2, <1>7
<1>9. PICK c \in 0 .. N, b \in 0 .. N :
        /\ c = Cursor(g, d) /\ b = Cursor(g, d)'
        /\ b <= c /\ c <= b + U /\ Upto(S, c) <= Upto(S, b) + MaxBuffered
  <2> DEFINE c == Cursor(g, d)
             b == Cursor(g, d)'
  <2>1. c = Least(g + U, d) /\ b = Least(g, d)
    <3>1. Len(unacked') = 0 /\ g + 0 = g
      BY <1>2, <1>4
    <3> QED
      BY <1>3, <3>1 DEF Cursor
  <2>2. U # 0 => g + U <= d
    BY <1>1, <1>3 DEF Received
  <2> HIDE DEF c, b
  <2>3. c \in 0 .. N /\ b \in 0 .. N /\ b <= c /\ c <= b + U /\ (U # 0 => c = g + U /\ b = g)
        /\ (U = 0 => b = c)
    BY <1>4, <2>1, <2>2 DEF Least
  <2>4. Upto(S, c) <= Upto(S, b) + MaxBuffered
    <3>1. Upto(S, c) \in Nat /\ Upto(S, b) \in Nat /\ Upto(S, N) \in Nat /\ Upto(S, c) <= Upto(S, N)
      <4>1. N \in 0 .. N /\ c <= N
        BY <2>3
      <4> QED
        BY <1>3, <1>4, <2>3, <4>1, UptoGrows
    <3>2. CASE U = 0
      BY <1>7, <2>3, <3>1, <3>2
    <3>3. CASE U # 0
      <4>1. Upto(S, N) - Upto(S, b) <= MaxBuffered
        BY <1>1, <1>3, <2>3, <3>3 DEF Buffered
      <4> QED
        BY <1>7, <3>1, <4>1
    <3> QED
      BY <3>2, <3>3
  <2> QED
    BY <2>3, <2>4 DEF c, b
<1>10. Kept(S, g, d, e)'
  <2> SUFFICES ASSUME NEW p \in e + 1 .. d, S[p].n > lost', Window(S, d, p)'
               PROVE  \E i \in 1 .. Len(chunks') :
                        Anchor(chunks', S, d, p, i, (Cursor(g, d)' - p) + breaks' * Repeats,
                               (Upto(S, Cursor(g, d)') - Upto(S, p - 1)) + breaks' * MaxBuffered)
    BY DEF Kept, Upto, Anchor
  <2>1. p \in 1 .. N /\ p - 1 \in 0 .. N /\ d \in 0 .. N
    BY <1>4
  <2>2. Upto(S, d) \in Nat /\ Upto(S, p - 1) \in Nat /\ Upto(S, c) \in Nat /\ Upto(S, b) \in Nat
    BY <1>3, <1>4, <1>9, <2>1, UptoGrows
  <2>3. Window(S, d, p)
    <3>1. 1 + (d - p) + s <= MaxMessages /\ (Upto(S, d) - Upto(S, p - 1)) + v <= MaxBytes
      BY <1>8 DEF Window
    <3>2. 1 + (d - p) + r <= MaxMessages /\ (Upto(S, d) - Upto(S, p - 1)) + w <= MaxBytes
      BY <1>7, <1>8, <2>1, <2>2, <3>1, BoundsTyped
    <3> QED
      BY <1>8, <3>2 DEF Window
  <2>4. PICK i \in 1 .. Len(chunks) :
          Anchor(chunks, S, d, p, i, (c - p) + r, (Upto(S, c) - Upto(S, p - 1)) + w)
    BY <1>1, <1>2, <1>8, <1>9, <2>3 DEF Kept
  <2>5. i \in 1 .. Len(chunks) /\ Len(chunks) - i <= (c - p) + r
        /\ BytesOf(Suffix(chunks, i - 1)) <= (Upto(S, c) - Upto(S, p - 1)) + w
    BY <2>4 DEF Anchor
  <2>10. /\ s = r + Repeats /\ v = w + MaxBuffered /\ Repeats \in Nat /\ MaxBuffered \in Nat
         /\ c <= b + U /\ U <= Repeats /\ Upto(S, c) <= Upto(S, b) + MaxBuffered
    BY <1>2, <1>3, <1>7, <1>8, <1>9
  <2>6. Len(chunks) - i <= (b - p) + s
    <3>1. Len(chunks) \in Nat /\ i \in Nat
      BY <2>5
    <3>2. (c - p) + r <= (b - p) + s
      BY <2>1, <2>10
    <3> QED
      BY <2>1, <2>5, <3>1, <3>2, SMTT(30)
  <2>7. BytesOf(Suffix(chunks, i - 1)) <= (Upto(S, b) - Upto(S, p - 1)) + v
    <3>1. PICK x \in Nat, y \in Nat, z \in Nat :
            x = Upto(S, c) /\ y = Upto(S, b) /\ z = Upto(S, p - 1)
      BY <2>2
    <3>2. BytesOf(Suffix(chunks, i - 1)) \in Nat
      <4>1. i - 1 \in 0 .. Len(chunks) /\ Len(chunks) \in Nat
        BY <2>5
      <4>2. Suffix(chunks, i - 1) \in Seq(Message)
        BY <4>1, SuffixTyped DEF Bounded
      <4> QED
        BY <4>2, BytesTyped
    <3>3. BytesOf(Suffix(chunks, i - 1)) <= (x - z) + w /\ x <= y + MaxBuffered
      BY <2>5, <2>10, <3>1
    <3>4. BytesOf(Suffix(chunks, i - 1)) <= (y - z) + v
      <4>1. PICK k \in Nat, m \in Nat : k = BytesOf(Suffix(chunks, i - 1)) /\ m = MaxBuffered
        BY <2>10, <3>2
      <4>2. k <= (x - z) + w /\ x <= y + m /\ v = w + m
        BY <2>10, <3>3, <4>1
      <4>3. k <= (y - z) + v
        BY <4>2
      <4> QED
        BY <4>1, <4>3
    <3> QED
      BY <3>1, <3>4
  <2>8. Anchor(chunks, S, d, p, i, (b - p) + s, (Upto(S, b) - Upto(S, p - 1)) + v)
    BY <2>4, <2>6, <2>7 DEF Anchor
  <2> QED
    BY <1>2, <1>8, <1>9, <2>8
<1> QED
  BY <1>1, <1>2, <1>5, <1>6, <1>10, SameStream DEF Follows

(* A restarted server has nothing: the history begins again with the       *)
(* oldest message of the buffer.                                           *)
LEMMA RestartFollows ==
  ASSUME Types, NEW S, NEW g, NEW d, NEW e, Follows(S, g, d, e), Restart
  PROVE  Follows(S, g, g, g)'
<1>1. /\ Stream(S, fed) /\ OnCadence(S) /\ CadenceKept(S)
      /\ Buffered(S, g) /\ Received(S, g, d, e)
  BY DEF Follows
<1>2. /\ pending' = unacked \o pending /\ unacked' = <<>>
      /\ UNCHANGED <<keyframerVars, fed>> /\ fed' = fed
      /\ chunks' = <<>>
      /\ lost' = IF pending' = <<>> THEN fed ELSE Larger(lost, Head(pending').n - 1)
  BY DEF Restart
<1>3. PICK U \in Nat, P \in Nat, N \in Nat : U = Len(unacked) /\ P = Len(pending) /\ N = Len(S)
  BY <1>1 DEF Types, Stream
<1>4. S \in Seq(Message) /\ g \in Nat /\ N = g + U + P /\ lost \in Int /\ fed \in Nat
  BY <1>1, <1>3 DEF Stream, Buffered, Types
<1>5. Buffered(S, g)'
  BY <1>1, <1>2, BufferedAgain
<1>6. \A x \in 1 .. N : S[x].n \in Nat /\ S[x].n <= fed
  <2> TAKE x \in 1 .. N
  <2>1. S[x] \in Message
    <3>1. x \in 1 .. Len(S) /\ S \in Seq(Message)
      BY <1>3, <1>4
    <3> QED
      BY <3>1
  <2>2. S[x].n \in Nat
    BY <2>1 DEF Message
  <2> QED
    BY <1>1, <1>3, <2>2 DEF Stream
<1>7. /\ \A x \in g + 1 .. N : lost <= S[x].n
      /\ lost <= fed
  BY <1>1, <1>3 DEF Received
<1>8. Len(pending') = U + P /\ Len(unacked') = 0 /\ pending' \in Seq(Message)
      /\ \A i \in 1 .. U + P : pending'[i] = S[g + i]
  <2>1. pending' \in Seq(Message) /\ Len(pending') = U + P /\ Len(unacked') = 0
    BY <1>2, <1>3, ConcatAt DEF Types
  <2>2. \A i \in 1 .. U + P : pending'[i] = S[g + Len(unacked') + i]
    BY <1>5, <2>1 DEF Buffered
  <2>3. \A i \in 1 .. U + P : g + Len(unacked') + i = g + i
    BY <1>4, <2>1
  <2> QED
    BY <2>1, <2>2, <2>3
<1>9. CASE U + P = 0
  <2>1. pending' = <<>>
    BY <1>8, <1>9, NoLength
  <2>2. lost' = fed
    BY <1>2, <2>1
  <2>3. N = g /\ \A x \in 1 .. g : S[x].n <= fed
    BY <1>4, <1>6, <1>9
  <2>4. Received(S, g, g, g)'
    <3>1. g \in 0 .. g /\ g \in g .. N /\ (\A x \in g + 1 .. g : FALSE) /\ \A x \in g + 1 .. N : FALSE
      BY <1>4, <2>3
    <3>2. lost' <= fed'
      BY <1>2, <1>4, <2>2
    <3> QED
      BY <1>2, <1>3, <2>2, <2>3, <3>1, <3>2 DEF Received
  <2>5. Kept(S, g, g, g)'
    <3>1. \A p \in g + 1 .. g : FALSE
      BY <1>4
    <3> QED
      BY <3>1 DEF Kept
  <2> QED
    BY <1>1, <1>2, <1>5, <2>4, <2>5, SameStream DEF Follows
<1>10. CASE U + P # 0
  <2>1. pending' # <<>> /\ Head(pending') = S[g + 1] /\ g + 1 \in 1 .. N
    <3>1. pending' # <<>> /\ Head(pending') = pending'[1]
      BY <1>8, <1>10
    <3>2. 1 \in 1 .. U + P
      BY <1>10
    <3> QED
      BY <1>4, <1>8, <3>1, <3>2
  <2>2. lost' = Larger(lost, S[g + 1].n - 1)
    BY <1>2, <2>1
  <2>3. PICK k \in Nat : k = S[g + 1].n /\ k <= fed /\ lost <= k
    <3>1. g + 1 \in g + 1 .. N
      BY <1>4, <2>1
    <3> QED
      BY <1>6, <1>7, <2>1, <3>1
  <2>4. lost' \in Int /\ k - 1 <= lost' /\ lost' <= k /\ lost' <= fed
    BY <1>4, <2>2, <2>3, SMTT(30) DEF Larger
  <2>5. \A x \in g + 1 .. N : lost' <= S[x].n
    <3> TAKE x \in g + 1 .. N
    <3>1. x \in 1 .. N /\ S[x].n \in Nat
      BY <1>4, <1>6
    <3>2. CASE x = g + 1
      BY <2>3, <2>4, <3>2
    <3>3. CASE x # g + 1
      <4>1. g + 1 < x
        BY <1>4, <3>3
      <4>2. S[g + 1].n <= S[x].n
        BY <1>1, <1>3, <2>1, <3>1, <4>1 DEF Stream
      <4> QED
        BY <2>3, <2>4, <3>1, <4>2
    <3> QED
      BY <3>2, <3>3
  <2>6. (\A x \in 1 .. g : S[x].n <= lost') \/ (g < N /\ S[g + 1].full)
    <3>1. g < N
      BY <1>4, <2>1
    <3>2. CASE S[g + 1].kind = "redraw"
      BY <1>1, <1>3, <2>1, <3>1, <3>2 DEF Stream
    <3>3. CASE S[g + 1].kind = "frame"
      <4>1. ASSUME NEW x \in 1 .. g PROVE S[x].n <= lost'
        <5>1. x \in 1 .. N /\ x < g + 1
          BY <1>4
        <5>2. S[x].n < S[g + 1].n /\ S[x].n \in Nat
          BY <1>1, <1>3, <1>6, <2>1, <3>3, <5>1 DEF Stream
        <5> QED
          BY <2>3, <2>4, <5>2
      <4> QED
        BY <4>1
    <3>4. S[g + 1].kind \in {"frame", "redraw"}
      <4>1. S[g + 1] \in Message
        <5>1. g + 1 \in 1 .. Len(S) /\ S \in Seq(Message)
          BY <1>3, <1>4, <2>1
        <5> QED
          BY <5>1
      <4> QED
        BY <4>1 DEF Message
    <3> QED
      BY <3>2, <3>3, <3>4
  <2>7. Received(S, g, g, g)'
    <3>1. g \in 0 .. g /\ g \in g .. N /\ \A x \in g + 1 .. g : FALSE
      BY <1>4
    <3>2. lost' <= fed'
      BY <1>2, <2>4
    <3> QED
      BY <1>2, <1>3, <2>5, <2>6, <3>1, <3>2 DEF Received
  <2>8. Kept(S, g, g, g)'
    <3>1. \A p \in g + 1 .. g : FALSE
      BY <1>4
    <3> QED
      BY <3>1 DEF Kept
  <2> QED
    BY <1>1, <1>2, <1>5, <2>7, <2>8, SameStream DEF Follows
<1> QED
  BY <1>3, <1>9, <1>10

(* At the start nothing was sent.                                          *)
LEMMA InitFollows ==
  ASSUME Init PROVE Follows(<<>>, 0, 0, 0)
<1>1. /\ alt = FALSE /\ size = 0 /\ framesSince = 0 /\ pending = <<>> /\ unacked = <<>>
      /\ chunks = <<>> /\ fed = 0 /\ lost = -FramesPerKeyframe
  BY DEF Init
<1>2. <<>> \in Seq(Message) /\ Len(<<>>) = 0 /\ (\A x \in 1 .. 0 : FALSE) /\ \A x \in 0 + 1 .. 0 : FALSE
  OBVIOUS
<1>3. Stream(<<>>, fed)
  BY <1>1, <1>2 DEF Stream
<1>4. OnCadence(<<>>) /\ CadenceKept(<<>>)
  <2>1. 0 < FramesPerKeyframe
    BY CadenceTyped
  <2> QED
    BY <1>1, <1>2, <2>1 DEF OnCadence, CadenceKept
<1>5. Buffered(<<>>, 0)
  <2>1. Upto(<<>>, 0) = 0 /\ 0 - 0 <= MaxBuffered
    <3>1. \A s \in Seq(Message) : Upto(s, 0) = 0
      BY UptoGrows
    <3>2. Upto(<<>>, 0) = 0
      BY <1>2, <3>1
    <3> QED
      BY <3>2, CadenceTyped
  <2>2. 0 = 0 + 0 + 0 /\ 0 \in Nat
    OBVIOUS
  <2> QED
    BY <1>1, <1>2, <2>1, <2>2 DEF Buffered
<1>6. Received(<<>>, 0, 0, 0)
  <2>1. lost <= fed
    BY <1>1, CadenceTyped
  <2>2. 0 \in 0 .. 0
    OBVIOUS
  <2> QED
    BY <1>1, <1>2, <2>1, <2>2 DEF Received
<1>7. Kept(<<>>, 0, 0, 0)
  BY <1>2 DEF Kept
<1> QED
  BY <1>3, <1>4, <1>5, <1>6, <1>7 DEF Follows

(* The next message arrives, be it for the first time, again, or with      *)
(* earlier ones missing.                                                   *)
LEMMA DeliverFollows ==
  ASSUME Types, Bounded, NEW S, NEW g, NEW d, NEW e, Follows(S, g, d, e), Deliver
  PROVE  \E D : Follows(S, g, D, e)'
<1>1. /\ Stream(S, fed) /\ OnCadence(S) /\ CadenceKept(S)
      /\ Buffered(S, g) /\ Received(S, g, d, e) /\ Kept(S, g, d, e)
  BY DEF Follows
<1> DEFINE m == Head(pending)
           c == Append(chunks, m)
<1>2. /\ pending # <<>> /\ pending' = Tail(pending) /\ unacked' = Append(unacked, m)
      /\ UNCHANGED <<keyframerVars, fed>> /\ fed' = fed
      /\ breaks' = breaks /\ lost' = lost
  BY DEF Deliver
<1>3. PICK U \in Nat, P \in Nat \ {0}, N \in Nat, L \in Nat :
         U = Len(unacked) /\ P = Len(pending) /\ N = Len(S) /\ L = Len(chunks)
  BY <1>1, <1>2 DEF Types, Stream, Bounded
<1>4. S \in Seq(Message) /\ g \in Nat /\ N = g + U + P /\ lost \in Int /\ fed \in Nat
      /\ unacked \in Seq(Message) /\ pending \in Seq(Message) /\ chunks \in Seq(Message)
      /\ breaks \in Nat
  BY <1>1, <1>3 DEF Stream, Buffered, Types, Bounded
<1>5. PICK q \in 1 .. N : q = g + U + 1
  BY <1>3, <1>4
<1>6. m = pending[1] /\ m = S[q] /\ m \in Message
  <2>1. 1 \in 1 .. P /\ g + U + 1 = q
    BY <1>5
  <2>2. pending[1] = S[q]
    BY <1>1, <1>3, <1>5, <2>1 DEF Buffered
  <2>3. m = pending[1] /\ pending[1] \in Message
    BY <1>2, <1>3, <1>4, <2>1
  <2> QED
    BY <2>2, <2>3
<1>7. m.len \in Nat /\ m.len # 0
  <2>1. m.kind \in {"frame", "redraw"} /\ m.len \in Nat
    BY <1>6 DEF Message
  <2>2. /\ S[q].kind = "frame" => S[q].len \in FrameLengths
        /\ S[q].kind = "redraw" => S[q].len = KeyLength
    BY <1>1, <1>3 DEF Stream
  <2> QED
    BY <1>6, <2>1, <2>2, CadenceTyped
<1>8. chunks' = LongestFitting(c) /\ chunks' \in Seq(Message)
  BY <1>7, DeliverBounded DEF Bounded
<1>9. /\ Len(unacked') = U + 1 /\ (\A i \in 1 .. U : unacked'[i] = unacked[i]) /\ unacked'[U + 1] = m
      /\ Len(pending') = P - 1 /\ (\A i \in 1 .. P - 1 : pending'[i] = pending[i + 1])
      /\ unacked' # <<>>
  <2>1. Len(pending') = P - 1 /\ (\A i \in 1 .. P - 1 : pending'[i] = pending[i + 1])
    BY <1>2, <1>3, <1>4, TailTyped
  <2> HIDE DEF m
  <2>2. /\ Len(unacked') = U + 1 /\ (\A i \in 1 .. U : unacked'[i] = unacked[i])
        /\ unacked'[U + 1] = m
    BY <1>2, <1>3, <1>4, <1>6
  <2>3. unacked' # <<>>
    BY <2>2
  <2> QED
    BY <2>1, <2>2, <2>3
<1>10. c \in Seq(Message) /\ Len(c) = L + 1 /\ c[L + 1] = m /\ \A i \in 1 .. L : c[i] = chunks[i]
  <2> HIDE DEF m
  <2> QED
    BY <1>3, <1>4, <1>6
<1>11. /\ e \in 0 .. g /\ d \in e .. N /\ e \in Nat /\ d \in Nat
       /\ U # 0 => g + U <= d
       /\ \A x \in d + 1 .. g : S[x].n <= lost
       /\ (\A x \in 1 .. e : S[x].n <= lost) \/ (e < N /\ S[e + 1].full)
       /\ \A x \in g + 1 .. N : lost <= S[x].n
       /\ lost <= fed
       /\ \A i \in 1 .. L : \E x \in 1 .. d : chunks[i] = S[x]
  <2>1. /\ e \in 0 .. g /\ d \in e .. N
        /\ unacked # <<>> => g + Len(unacked) <= d
        /\ \A x \in d + 1 .. g : S[x].n <= lost
        /\ (\A x \in 1 .. e : S[x].n <= lost) \/ (e < N /\ S[e + 1].full)
        /\ \A x \in g + 1 .. N : lost <= S[x].n
        /\ lost <= fed
        /\ \A i \in 1 .. L : \E x \in 1 .. d : chunks[i] = S[x]
    BY <1>1, <1>3 DEF Received
  <2>2. U # 0 => unacked # <<>>
    BY <1>3
  <2> QED
    BY <1>3, <1>4, <2>1, <2>2
(* What arrives for the first time may be this one, with earlier ones missing. *)
<1>12. PICK D \in Nat :
          q <= D /\ D <= N /\ (D = q \/ D = d) /\ D >= d /\ (q <= d => D = d) /\ (q > d => D = q)
  <2> DEFINE f == IF q > d THEN q ELSE d
  <2>1. f \in Nat /\ q <= f /\ f <= N /\ (f = q \/ f = d) /\ f >= d /\ (q <= d => f = d)
        /\ (q > d => f = q)
    BY <1>5, <1>11
  <2> QED
    BY <2>1
<1> HIDE DEF m, c
<1>13. Buffered(S, g)'
  <2>1. \A i \in 1 .. U + 1 : unacked'[i] = S[g + i]
    <3> TAKE i \in 1 .. U + 1
    <3>1. CASE i = U + 1
      <4>1. g + i = q
        BY <1>4, <1>5, <3>1
      <4> QED
        BY <1>6, <1>9, <3>1, <4>1
    <3>2. CASE i # U + 1
      <4>1. i \in 1 .. U
        BY <3>2
      <4> QED
        BY <1>1, <1>3, <1>9, <4>1 DEF Buffered
    <3> QED
      BY <3>1, <3>2
  <2>2. \A i \in 1 .. P - 1 : pending'[i] = S[g + (U + 1) + i]
    <3> TAKE i \in 1 .. P - 1
    <3>1. i + 1 \in 1 .. P /\ g + U + (i + 1) = g + (U + 1) + i
      BY <1>4
    <3>2. pending[i + 1] = S[g + U + (i + 1)]
      BY <1>1, <1>3, <3>1 DEF Buffered
    <3> QED
      BY <1>9, <3>1, <3>2
  <2>3. Upto(S, N) - Upto(S, g) <= MaxBuffered
    BY <1>1, <1>3 DEF Buffered
  <2>4. N = g + (U + 1) + (P - 1)
    BY <1>4
  <2> QED
    BY <1>3, <1>4, <1>9, <2>1, <2>2, <2>3, <2>4 DEF Buffered
<1>14. Received(S, g, D, e)'
  <2>1. \A i \in 1 .. Len(chunks') : \E x \in 1 .. D : chunks'[i] = S[x]
    <3>1. PICK K \in 0 .. L + 1 : chunks' = Suffix(c, K)
      <4>1. L + 1 \in Nat
        OBVIOUS
      <4>2. Cut(c) \in 0 .. L + 1
        BY <1>10, <4>1, CutIs
      <4> QED
        BY <1>8, <4>2 DEF LongestFitting, Cut
    <3>2. Len(chunks') = (L + 1) - K /\ \A i \in 1 .. (L + 1) - K : chunks'[i] = c[K + i]
      <4>1. PICK Z \in Nat : Z = L + 1 /\ Z = Len(c)
        BY <1>10
      <4>2. K \in 0 .. Z /\ c \in Seq(Message)
        BY <1>10, <4>1
      <4>3. Len(Suffix(c, K)) = Z - K /\ \A i \in 1 .. Z - K : Suffix(c, K)[i] = c[K + i]
        BY <4>1, <4>2, SuffixTyped
      <4> QED
        BY <3>1, <4>1, <4>3
    <3> TAKE i \in 1 .. Len(chunks')
    <3>3. PICK j \in 1 .. L + 1 : chunks'[i] = c[j]
      <4>1. K + i \in 1 .. L + 1 /\ i \in 1 .. (L + 1) - K
        BY <3>2
      <4> QED
        BY <3>2, <4>1
    <3>4. CASE j = L + 1
      <4>1. q \in 1 .. D
        BY <1>12
      <4> QED
        BY <1>6, <1>10, <3>3, <3>4, <4>1
    <3>5. CASE j # L + 1
      <4>1. j \in 1 .. L
        BY <3>5
      <4>2. PICK x \in 1 .. d : chunks[j] = S[x]
        BY <1>11, <4>1
      <4>3. x \in 1 .. D
        BY <1>11, <1>12
      <4> QED
        BY <1>10, <3>3, <4>1, <4>2, <4>3
    <3> QED
      BY <3>4, <3>5
  <2>2. /\ D \in e .. N /\ g + (U + 1) <= D /\ e < D
        /\ \A x \in D + 1 .. g : FALSE
    BY <1>4, <1>5, <1>11, <1>12
  <2> QED
    BY <1>2, <1>3, <1>9, <1>11, <2>1, <2>2 DEF Received
<1>15. PICK r \in Nat, w \in Nat : r = breaks * Repeats /\ w = breaks * MaxBuffered
  BY RepeatsTyped
<1>16. Cursor(g, D)' = q
  <2>1. g + (U + 1) = q
    BY <1>4, <1>5
  <2> QED
    BY <1>4, <1>9, <1>12, <2>1 DEF Cursor, Least
<1>17. q <= d + 1 => Cursor(g, d) = q - 1
  <2>1. Cursor(g, d) = IF g + U < d THEN g + U ELSE d
    BY <1>3 DEF Cursor, Least
  <2>2. g + U = q - 1 /\ q - 1 \in Nat /\ d \in Nat
    BY <1>4, <1>5, <1>11
  <2> QED
    BY <2>1, <2>2
<1>18. Kept(S, g, D, e)'
  <2> SUFFICES ASSUME NEW p \in e + 1 .. D, S[p].n > lost, Window(S, D, p)
               PROVE  \E i \in 1 .. Len(chunks') :
                        Anchor(chunks', S, D, p, i, (q - p) + r, (Upto(S, q) - Upto(S, p - 1)) + w)
    <3>1. \A p : Window(S, D, p)' <=> Window(S, D, p)
      BY <1>2 DEF Window
    <3> QED
      BY <1>2, <1>15, <1>16 DEF Kept, Window, Anchor
  <2>1. p \in 1 .. N /\ p \in Nat /\ p - 1 \in 0 .. N /\ D \in 0 .. N /\ q \in 0 .. N /\ q - 1 \in 0 .. N
    BY <1>11, <1>12
  <2>2. PICK a \in Nat, b \in Nat, f \in Nat, h \in Nat, l \in Nat :
           /\ a = Upto(S, p - 1) /\ b = Upto(S, q) /\ f = Upto(S, q - 1) /\ h = Upto(S, D)
           /\ l = m.len /\ b = f + l /\ b <= h
    <3>1. /\ Upto(S, p - 1) \in Nat /\ Upto(S, q) \in Nat /\ Upto(S, q - 1) \in Nat
          /\ Upto(S, D) \in Nat /\ Upto(S, q) <= Upto(S, D)
          /\ Upto(S, q) = Upto(S, q - 1) + S[q].len
      BY <1>3, <1>4, <1>12, <2>1, UptoGrows
    <3> QED
      BY <1>6, <1>7, <3>1
  <2>3. 1 + (D - p) + r <= MaxMessages /\ (h - a) + w <= MaxBytes
    BY <1>15, <2>2 DEF Window
  (* Enough of an anchor before trimming.                                  *)
  <2>4. \A i \in 1 .. L + 1 :
           Anchor(c, S, D, p, i, (q - p) + r, (b - a) + w) /\ Fits(Suffix(c, i - 1)) =>
             \E k \in 1 .. Len(chunks') : Anchor(chunks', S, D, p, k, (q - p) + r, (b - a) + w)
    <3> TAKE i \in 1 .. L + 1
    <3>1. L + 1 \in Nat
      OBVIOUS
    <3> QED
      BY <1>8, <1>10, <1>12, <2>1, <3>1, TrimmingKeeps
  (* It was in the history already.                                        *)
  <2>5. CASE p <= d /\ q <= d + 1
    <3>1. p \in e + 1 .. d
      BY <1>11, <2>5
    <3>2. Window(S, d, p)
      <4>1. PICK u \in Nat : u = Upto(S, d) /\ u <= h
        <5>1. d \in 0 .. N /\ d <= D
          BY <1>11, <1>12
        <5>2. Upto(S, d) \in Nat /\ Upto(S, d) <= Upto(S, D)
          BY <1>3, <1>4, <2>1, <5>1, UptoGrows
        <5> QED
          BY <2>2, <5>2
      <4>2. 1 + (d - p) + r <= MaxMessages /\ (u - a) + w <= MaxBytes
        BY <1>11, <1>12, <2>1, <2>3, <4>1, BoundsTyped
      <4> QED
        BY <1>15, <2>2, <4>1, <4>2 DEF Window
    <3>3. Cursor(g, d) = q - 1
      BY <1>17, <2>5
    <3>4. PICK i \in 1 .. L : Anchor(chunks, S, d, p, i, ((q - 1) - p) + r, (f - a) + w)
      BY <1>1, <1>3, <1>15, <2>2, <3>1, <3>2, <3>3 DEF Kept
    <3>5. /\ chunks[i] = S[p] /\ (\A x \in p + 1 .. d : \E j \in i + 1 .. L : chunks[j] = S[x])
          /\ L - i <= ((q - 1) - p) + r /\ BytesOf(Suffix(chunks, i - 1)) <= (f - a) + w
      BY <1>3, <3>4 DEF Anchor
    <3>6. PICK k \in Nat : k = BytesOf(Suffix(c, i - 1)) /\ k <= (b - a) + w
      <4>1. i - 1 \in 0 .. L
        OBVIOUS
      <4>2. BytesOf(Suffix(c, i - 1)) = BytesOf(Suffix(chunks, i - 1)) + l
        <5>1. PICK o \in 0 .. L : o = i - 1
          BY <4>1
        <5>2. BytesOf(Suffix(c, o)) = BytesOf(Suffix(chunks, o)) + m.len
          BY <1>3, <1>4, <1>6, SuffixOfLonger, SMTT(30) DEF c
        <5> QED
          BY <2>2, <5>1, <5>2
      <4>3. PICK y \in Nat : y = BytesOf(Suffix(chunks, i - 1))
        <5>1. Suffix(chunks, i - 1) \in Seq(Message)
          BY <1>3, <1>4, <4>1, SuffixTyped
        <5> QED
          BY <5>1, BytesTyped
      <4>4. y <= (f - a) + w /\ b = f + l /\ y + l = BytesOf(Suffix(c, i - 1))
        BY <2>2, <3>5, <4>2, <4>3
      <4>5. y + l <= (b - a) + w /\ y + l \in Nat
        BY <4>4
      <4> QED
        BY <4>4, <4>5
    <3>7. (L + 1) - i <= (q - p) + r
      BY <1>5, <2>1, <3>5
    <3>8. ASSUME NEW x \in p + 1 .. D PROVE \E j \in i + 1 .. L + 1 : c[j] = S[x]
      <4>1. CASE x <= d
        <5>1. x \in p + 1 .. d
          BY <2>1, <4>1
        <5>2. PICK j \in i + 1 .. L : chunks[j] = S[x]
          BY <3>5, <5>1
        <5>3. j \in 1 .. L /\ j \in i + 1 .. L + 1
          BY <3>4
        <5> QED
          BY <1>10, <5>2, <5>3
      <4>2. CASE ~(x <= d)
        <5>1. x = q
          BY <1>11, <1>12, <2>1, <2>5, <4>2
        <5>2. L + 1 \in i + 1 .. L + 1
          BY <3>4
        <5> QED
          BY <1>6, <1>10, <5>1, <5>2
      <4> QED
        BY <4>1, <4>2
    <3>9. Anchor(c, S, D, p, i, (q - p) + r, (b - a) + w)
      <4>1. i \in 1 .. L + 1 /\ c[i] = S[p]
        BY <1>10, <3>4, <3>5, SMTT(30)
      <4> QED
        BY <1>10, <3>6, <3>7, <3>8, <4>1 DEF Anchor
    <3>10. Fits(Suffix(c, i - 1))
      <4>1. Len(Suffix(c, i - 1)) = (L + 1) - (i - 1)
        <5>1. L + 1 \in Nat /\ i - 1 \in 0 .. L + 1
          OBVIOUS
        <5> QED
          BY <1>10, <5>1, SuffixTyped
      <4>2. (L + 1) - (i - 1) <= MaxMessages
        BY <1>12, <2>1, <2>3, <3>7, BoundsTyped
      <4>3. k <= MaxBytes
        BY <2>2, <2>3, <3>6, BoundsTyped
      <4> QED
        BY <3>6, <4>1, <4>2, <4>3 DEF Fits
    <3>11. i \in 1 .. L + 1
      BY <3>4
    <3> QED
      BY <2>2, <2>4, <3>9, <3>10, <3>11
  (* It arrives now.                                                       *)
  <2>6. CASE p = q /\ D = q
    <3> DEFINE i == L + 1
    <3>1. Suffix(c, i - 1) \in Seq(Message) /\ Len(Suffix(c, i - 1)) = 1
      <4>1. L + 1 \in Nat /\ i - 1 \in 0 .. L + 1 /\ (L + 1) - (i - 1) = 1
        OBVIOUS
      <4> QED
        BY <1>10, <4>1, SuffixTyped
    <3>2. Fits(Suffix(c, i - 1))
      <4>1. 1 <= MaxMessages
        BY BoundsTyped
      <4> QED
        BY <3>1, <4>1 DEF Fits
    <3>3. BytesOf(Suffix(c, i - 1)) = l
      <4>1. L \in 0 .. L /\ i - 1 = L
        OBVIOUS
      <4>2. BytesOf(Suffix(c, L)) = BytesOf(Suffix(chunks, L)) + l
        <5>1. BytesOf(Suffix(c, L)) = BytesOf(Suffix(chunks, L)) + m.len
          BY <1>3, <1>4, <1>6, <4>1, SuffixOfLonger DEF c
        <5>2. m.len = l
          BY <2>2
        <5> QED
          BY <5>1, <5>2
      <4>3. Suffix(chunks, L) = <<>>
        BY <1>3, <1>4, SuffixEnds
      <4> QED
        BY <4>1, <4>2, <4>3, BytesTyped
    <3>4. l <= (b - a) + w
      <4>1. a = f
        BY <2>2, <2>6
      <4> QED
        BY <2>2, <4>1
    <3>5. /\ i \in 1 .. L + 1 /\ c[i] = S[p] /\ (L + 1) - i <= (q - p) + r
          /\ \A x \in p + 1 .. D : FALSE
      BY <1>6, <1>10, <2>1, <2>6
    <3> HIDE DEF i
    <3>6. Anchor(c, S, D, p, i, (q - p) + r, (b - a) + w)
      BY <1>10, <3>3, <3>4, <3>5 DEF Anchor
    <3> QED
      BY <2>2, <2>4, <3>2, <3>5, <3>6
  (* Something before the new one is missing: it and all before it is lost. *)
  <2>7. CASE p # q /\ q > d + 1
    <3>1. U = 0 /\ q = g + 1 /\ d < g /\ g \in d + 1 .. g
      BY <1>4, <1>5, <1>11, <2>7
    <3>2. S[g].n <= lost
      BY <1>11, <3>1
    <3>3. p <= g /\ p \in 1 .. N /\ g \in 1 .. N
      <4>1. D = q /\ p <= D /\ p \in 1 .. N /\ q \in Nat
        BY <1>11, <1>12, <2>1, <2>7
      <4>2. p <= g
        BY <1>4, <2>7, <3>1, <4>1
      <4> QED
        BY <1>4, <4>1, <4>2
    <3>4. S[p].n <= S[g].n
      <4>1. CASE p = g
        <5>1. S[g] \in Message
          <6>1. g \in 1 .. Len(S) /\ S \in Seq(Message)
            BY <1>3, <1>4, <3>3
          <6> QED
            BY <6>1
        <5>2. S[g].n \in Nat
          BY <5>1 DEF Message
        <5> QED
          BY <4>1, <5>2
      <4>2. CASE p < g
        BY <1>1, <1>3, <3>3, <4>2 DEF Stream
      <4> QED
        BY <1>4, <3>3, <4>1, <4>2
    <3>5. S[p].n \in Nat /\ S[g].n \in Nat
      <4>1. S[p] \in Message /\ S[g] \in Message
        <5>1. p \in 1 .. Len(S) /\ g \in 1 .. Len(S) /\ S \in Seq(Message)
          BY <1>3, <1>4, <3>3
        <5> QED
          BY <5>1
      <4> QED
        BY <4>1 DEF Message
    <3>6. PICK x \in Nat, y \in Nat : x = S[p].n /\ y = S[g].n
      BY <3>5
    <3>7. x > lost /\ y <= lost /\ x <= y
      BY <3>2, <3>4, <3>6
    <3> QED
      BY <1>4, <3>7
  <2>8. (p <= d /\ q <= d + 1) \/ (p = q /\ D = q) \/ (p # q /\ q > d + 1)
    BY <1>11, <1>12, <2>1
  <2> QED
    BY <2>2, <2>5, <2>6, <2>7, <2>8
<1> QED
  <2>1. Follows(S, g, D, e)'
    BY <1>1, <1>2, <1>13, <1>14, <1>18, SameStream DEF Follows
  <2> QED
    BY <2>1

(* A call of send leaves h messages of the longer stream out of the buffer, *)
(* and remembers the last that is lost with them.                          *)
Drops(T, g, h) ==
  /\ h \in g .. Len(T)
  /\ \/ h + Len(unacked') = g + Len(unacked) /\ lost' = lost /\ (h # g => unacked # <<>>)
     \/ unacked' = <<>> /\ h > g + Len(unacked) /\ lost' = T[h].n

(* The messages of q are those of T after the first a, up to b.            *)
Covers(T, a, b, q) ==
  /\ q \in Seq(Message) /\ a \in Nat /\ b \in Nat /\ b = a + Len(q)
  /\ \A i \in 1 .. Len(q) : q[i] = T[a + i]

(* Parts that follow one another are one part.                             *)
LEMMA CoversConcat ==
  ASSUME NEW T, NEW u, NEW v, NEW a, NEW b, NEW c, Covers(T, a, b, u), Covers(T, b, c, v)
  PROVE  Covers(T, a, c, u \o v)
<1>1. /\ u \in Seq(Message) /\ v \in Seq(Message) /\ a \in Nat /\ b \in Nat /\ c \in Nat
  BY DEF Covers
<1>2. PICK n \in Nat, m \in Nat : n = Len(u) /\ m = Len(v)
  BY <1>1
<1>3. /\ b = a + n /\ c = b + m
      /\ \A i \in 1 .. n : u[i] = T[a + i]
      /\ \A i \in 1 .. m : v[i] = T[b + i]
  BY <1>2 DEF Covers
<1> DEFINE w == u \o v
<1>4. /\ w \in Seq(Message) /\ Len(w) = n + m
      /\ \A i \in 1 .. n : w[i] = u[i]
      /\ \A i \in 1 .. m : w[n + i] = v[i]
  BY <1>1, <1>2, ConcatAt
<1> HIDE DEF w
<1>5. ASSUME NEW i \in 1 .. n + m PROVE w[i] = T[a + i]
  <2>1. CASE i <= n
    <3>1. i \in 1 .. n
      BY <2>1
    <3> QED
      BY <1>3, <1>4, <3>1
  <2>2. CASE ~(i <= n)
    <3>1. PICK k \in 1 .. m : n + k = i
      <4>1. i - n \in 1 .. m /\ n + (i - n) = i
        BY <2>2
      <4> QED
        BY <4>1
    <3>2. b + k = a + i
      BY <1>1, <1>3, <3>1
    <3>3. w[n + k] = v[k] /\ v[k] = T[b + k]
      BY <1>3, <1>4
    <3> QED
      BY <3>1, <3>2, <3>3
  <2> QED
    BY <2>1, <2>2
<1>6. c = a + (n + m)
  BY <1>1, <1>3
<1>7. Covers(T, a, c, w)
  BY <1>1, <1>4, <1>5, <1>6 DEF Covers
<1> QED
  BY <1>7 DEF w

(* What is left of a part.                                                 *)
LEMMA CoversSuffix ==
  ASSUME NEW T, NEW q, NEW a, NEW b, NEW h, NEW d \in Nat,
         Covers(T, a, b, q), h = a + d, d <= Len(q)
  PROVE  Covers(T, h, b, Suffix(q, d))
<1>1. q \in Seq(Message) /\ a \in Nat /\ b \in Nat
  BY DEF Covers
<1>2. PICK n \in Nat : n = Len(q)
  BY <1>1
<1>3. b = a + n /\ \A i \in 1 .. n : q[i] = T[a + i]
  BY <1>2 DEF Covers
<1>4. d \in 0 .. n
  BY <1>2
<1> DEFINE s == Suffix(q, d)
<1>5. s \in Seq(Message) /\ Len(s) = n - d /\ \A i \in 1 .. n - d : s[i] = q[d + i]
  BY <1>1, <1>2, <1>4, SuffixTyped
<1> HIDE DEF s
<1>6. ASSUME NEW i \in 1 .. n - d PROVE s[i] = T[h + i]
  <2>1. PICK k \in 1 .. n : k = d + i
    BY <1>4
  <2>2. a + k = h + i
    BY <1>1, <2>1
  <2>3. s[i] = q[k] /\ q[k] = T[a + k]
    BY <1>3, <1>5, <2>1
  <2> QED
    BY <2>2, <2>3
<1>7. h \in Nat /\ b = h + (n - d)
  BY <1>1, <1>3, <1>4
<1>8. Covers(T, h, b, s)
  BY <1>1, <1>5, <1>6, <1>7 DEF Covers
<1> QED
  BY <1>8 DEF s

(* Its bytes are those between its ends.                                   *)
LEMMA CoversWeighs ==
  ASSUME NEW T \in Seq(Message), NEW h, NEW q, Covers(T, h, Len(T), q),
         NEW most \in Nat, BytesOf(q) <= most
  PROVE  Upto(T, Len(T)) - Upto(T, h) <= most
<1>1. PICK n \in Nat : n = Len(q)
  BY DEF Covers
<1>2. /\ q \in Seq(Message) /\ h \in Nat /\ Len(T) = h + n
      /\ \A i \in 1 .. n : q[i] = T[h + i]
  BY <1>1 DEF Covers
<1>3. Upto(T, h + n) = Upto(T, h) + BytesOf(q)
  <2>1. h + n <= Len(T)
    BY <1>2
  <2> QED
    BY <1>1, <1>2, <2>1, UptoPart
<1>4. PICK x \in Nat, y \in Nat : x = Upto(T, h) /\ y = BytesOf(q)
  <2>1. h \in 0 .. Len(T)
    BY <1>2
  <2> QED
    BY <1>2, <2>1, UptoGrows, BytesTyped
<1>5. Upto(T, Len(T)) = x + y /\ y <= most
  BY <1>2, <1>3, <1>4
<1>6. (x + y) - x = y
  OBVIOUS
<1> QED
  BY <1>4, <1>5, <1>6

(* The stream S is a beginning of T, and ms is the rest.                   *)
Extends(S, T, ms) ==
  /\ S \in Seq(Message) /\ T \in Seq(Message) /\ ms \in Seq(Message)
  /\ Len(T) = Len(S) + Len(ms)
  /\ \A x \in 1 .. Len(S) : T[x] = S[x]
  /\ \A i \in 1 .. Len(ms) : T[Len(S) + i] = ms[i]

(* The buffer and the messages to come are parts of the longer stream.     *)
LEMMA BufferCovers ==
  ASSUME Types, NEW S, NEW T, NEW ms, NEW g, Extends(S, T, ms), Buffered(S, g)
  PROVE  /\ Covers(T, g, g + Len(unacked), unacked)
         /\ Covers(T, g + Len(unacked), Len(S), pending)
         /\ Covers(T, Len(S), Len(T), ms)
<1>1. PICK N \in Nat, W \in Nat, M \in Nat : N = Len(S) /\ W = Len(T) /\ M = Len(ms)
  BY DEF Extends
<1>2. PICK U \in Nat, P \in Nat : U = Len(unacked) /\ P = Len(pending)
  BY DEF Types
<1>3. /\ g \in Nat /\ N = (g + U) + P
      /\ \A i \in 1 .. U : unacked[i] = S[g + i]
      /\ \A i \in 1 .. P : pending[i] = S[(g + U) + i]
  BY <1>1, <1>2 DEF Buffered
<1>4. W = N + M /\ (\A x \in 1 .. N : T[x] = S[x]) /\ \A i \in 1 .. M : T[N + i] = ms[i]
  BY <1>1 DEF Extends
<1>5. ASSUME NEW i \in 1 .. U PROVE unacked[i] = T[g + i]
  <2>1. g + i \in 1 .. N
    BY <1>3
  <2> QED
    BY <1>3, <1>4, <2>1
<1>6. ASSUME NEW i \in 1 .. P PROVE pending[i] = T[(g + U) + i]
  <2>1. (g + U) + i \in 1 .. N
    BY <1>3
  <2> QED
    BY <1>3, <1>4, <2>1
<1>7. unacked \in Seq(Message) /\ pending \in Seq(Message) /\ ms \in Seq(Message)
  BY DEF Types, Extends
<1>8. g + U \in Nat
  BY <1>3
<1>9. Covers(T, g, g + U, unacked)
  BY <1>2, <1>3, <1>5, <1>7, <1>8 DEF Covers
<1>10. Covers(T, g + U, N, pending)
  BY <1>2, <1>3, <1>6, <1>7, <1>8 DEF Covers
<1>11. Covers(T, N, W, ms)
  BY <1>1, <1>4, <1>7 DEF Covers
<1> QED
  BY <1>1, <1>2, <1>9, <1>10, <1>11

(* The buffer is the rest of the longer stream.                            *)
LEMMA OutputBuffered ==
  ASSUME Types, NEW S, NEW T, NEW g, NEW ms, Extends(S, T, ms), Buffered(S, g), Buffer(ms)
  PROVE  \E h : Buffered(T, h)' /\ Drops(T, g, h)
<1> DEFINE up == unacked \o pending
           all == up \o ms
           pm == pending \o ms
<1>1. unacked \in Seq(Message) /\ pending \in Seq(Message) /\ ms \in Seq(Message)
      /\ T \in Seq(Message)
  BY DEF Types, Extends
<1>2. PICK d \in 0 .. Len(all) :
        /\ BytesOf(Suffix(all, d)) <= MaxBuffered
        /\ IF d <= Len(unacked)
             THEN unacked' = Suffix(unacked, d) /\ pending' = pm /\ lost' = lost
             ELSE unacked' = <<>> /\ pending' = Suffix(all, d) /\ lost' = all[d].n
  BY <1>1, BufferIs
<1>3. PICK k, N, W :
        /\ k = g + Len(unacked) /\ W = Len(T)
        /\ Covers(T, g, k, unacked) /\ Covers(T, k, N, pending) /\ Covers(T, N, W, ms)
  BY BufferCovers
<1>4. Covers(T, g, N, up)
  BY <1>3, CoversConcat
<1>5. Covers(T, k, W, pm)
  BY <1>3, CoversConcat
<1> HIDE DEF up, pm
<1>6. Covers(T, g, W, all)
  BY <1>3, <1>4, CoversConcat
<1> HIDE DEF all
<1>7. PICK U \in Nat, A \in Nat : U = Len(unacked) /\ A = Len(all)
  BY <1>1, <1>6 DEF Covers
<1>8. g \in Nat /\ W \in Nat /\ W = g + A /\ k = g + U /\ d \in 0 .. A
  BY <1>2, <1>3, <1>6, <1>7 DEF Covers
<1>9. PICK h \in Nat : h = g + d /\ h \in g .. W /\ d \in Nat
  BY <1>8
<1>10. Covers(T, h, W, Suffix(all, d))
  <2>1. d <= Len(all)
    BY <1>7, <1>8
  <2> QED
    BY <1>6, <1>9, <2>1, CoversSuffix
<1>11. Upto(T, W) - Upto(T, h) <= MaxBuffered
  <2>1. MaxBuffered \in Nat
    BY CadenceTyped
  <2> QED
    BY <1>1, <1>2, <1>3, <1>10, <2>1, CoversWeighs
<1>12. CASE d <= U
  <2>1. unacked' = Suffix(unacked, d) /\ pending' = pm /\ lost' = lost
    BY <1>2, <1>7, <1>12
  <2>2. Covers(T, h, k, unacked') /\ Covers(T, k, W, pending')
    <3>1. d <= Len(unacked)
      BY <1>7, <1>12
    <3> QED
      BY <1>3, <1>5, <1>9, <2>1, <3>1, CoversSuffix
  <2>3. k = h + Len(unacked') /\ W = k + Len(pending')
    BY <2>2 DEF Covers
  <2>4. \A i \in 1 .. Len(unacked') : unacked'[i] = T[h + i]
    BY <2>2 DEF Covers
  <2>5. \A i \in 1 .. Len(pending') : pending'[i] = T[k + i]
    BY <2>2 DEF Covers
  <2>6. Buffered(T, h)'
    BY <1>3, <1>9, <1>11, <2>3, <2>4, <2>5 DEF Buffered
  <2>7. h # g => unacked # <<>>
    <3>1. h # g => U # 0
      BY <1>8, <1>9, <1>12
    <3> QED
      BY <1>7, <3>1
  <2> QED
    BY <1>3, <1>9, <2>1, <2>3, <2>6, <2>7 DEF Drops
<1>13. CASE ~(d <= U)
  <2>1. unacked' = <<>> /\ pending' = Suffix(all, d) /\ lost' = all[d].n
    BY <1>2, <1>7, <1>13
  <2>2. Len(unacked') = 0 /\ \A i \in 1 .. 0 : unacked'[i] = T[h + i]
    BY <2>1
  <2>3. Covers(T, h, W, pending')
    BY <1>10, <2>1
  <2>4. W = h + Len(pending') /\ \A i \in 1 .. Len(pending') : pending'[i] = T[h + i]
    BY <2>3 DEF Covers
  <2>5. h + Len(unacked') = h
    BY <1>9, <2>2
  <2>6. Buffered(T, h)'
    BY <1>3, <1>9, <1>11, <2>2, <2>4, <2>5 DEF Buffered
  <2>7. h > k /\ d \in 1 .. A
    BY <1>8, <1>9, <1>13
  <2>8. lost' = T[h].n
    <3>1. all[d] = T[g + d]
      BY <1>6, <1>7, <2>7 DEF Covers
    <3> QED
      BY <1>9, <2>1, <3>1
  <2> QED
    BY <1>3, <1>9, <2>1, <2>6, <2>7, <2>8 DEF Drops
<1> QED
  BY <1>12, <1>13

(* Output lengthens the stream, and what the cap takes is lost if it was   *)
(* never written.                                                          *)
LEMMA OutputFollows ==
  ASSUME Types, Bounded, NEW S, NEW g, NEW d, NEW e, Follows(S, g, d, e), Output
  PROVE  \E T, h : Follows(T, h, d, e)'
<1>1. /\ Stream(S, fed) /\ OnCadence(S) /\ CadenceKept(S)
      /\ Buffered(S, g) /\ Received(S, g, d, e) /\ Kept(S, g, d, e)
  BY DEF Follows
<1>2. PICK frame, due, full, leaves, newSize :
            Sends(frame, due, full, leaves, newSize) /\ Buffer(Sent(frame, due))
  BY OutputIs
<1> DEFINE ms == Sent(frame, due)
<1>3. ms \in Seq(Message) /\ frame \in Message
  BY <1>2, SentTyped
<1>4. PICK T : /\ Grown(S, T, frame, due) /\ Stream(T, fed')
               /\ Len(ms) \in Nat /\ Len(T) = Len(S) + Len(ms)
               /\ \A i \in 1 .. Len(ms) : T[Len(S) + i] = ms[i]
  BY <1>1, <1>2, OutputStream
<1> HIDE DEF ms
<1>5. OnCadence(T) /\ CadenceKept(T)'
  BY <1>1, <1>2, <1>4, OutputOnCadence
<1>6. /\ S \in Seq(Message) /\ T \in Seq(Message) /\ \A x \in 1 .. Len(S) : T[x] = S[x]
  BY <1>4 DEF Grown
<1>7. PICK h : Buffered(T, h)' /\ Drops(T, g, h)
  <2>1. Extends(S, T, ms)
    BY <1>3, <1>4, <1>6 DEF Extends
  <2>2. Buffer(ms)
    BY <1>2 DEF ms
  <2> QED
    BY <1>1, <2>1, <2>2, OutputBuffered
<1>8. PICK U \in Nat, N \in Nat, W \in Nat : U = Len(unacked) /\ N = Len(S) /\ W = Len(T)
  BY <1>6 DEF Types
<1>9. /\ N <= W /\ g \in Nat /\ g + U <= N /\ h \in g .. W /\ h \in Nat
      /\ lost \in Int /\ fed \in Nat /\ fed' = fed + 1
  <2>1. Len(pending) \in Nat /\ lost \in Int /\ fed \in Nat
    BY DEF Types
  <2>2. g \in Nat /\ N = g + U + Len(pending)
    BY <1>1, <1>8 DEF Buffered
  <2>3. fed' = fed + 1
    BY <1>2 DEF Sends
  <2>4. h \in g .. W
    BY <1>7, <1>8 DEF Drops
  <2> QED
    BY <1>4, <1>8, <2>1, <2>2, <2>3, <2>4
<1>10. /\ e \in 0 .. g /\ d \in e .. N /\ e \in Nat /\ d \in Nat
       /\ U # 0 => g + U <= d
       /\ \A x \in d + 1 .. g : S[x].n <= lost
       /\ (\A x \in 1 .. e : S[x].n <= lost) \/ (e < N /\ S[e + 1].full)
       /\ \A x \in g + 1 .. N : lost <= S[x].n
       /\ lost <= fed
       /\ chunks # <<>> => e < d
       /\ \A i \in 1 .. Len(chunks) : \E x \in 1 .. d : chunks[i] = S[x]
  <2>1. /\ e \in 0 .. g /\ d \in e .. N
        /\ unacked # <<>> => g + U <= d
        /\ \A x \in d + 1 .. g : S[x].n <= lost
        /\ (\A x \in 1 .. e : S[x].n <= lost) \/ (e < N /\ S[e + 1].full)
        /\ \A x \in g + 1 .. N : lost <= S[x].n
        /\ lost <= fed
        /\ chunks # <<>> => e < d
        /\ \A i \in 1 .. Len(chunks) : \E x \in 1 .. d : chunks[i] = S[x]
    BY <1>1, <1>8 DEF Received
  <2>2. U # 0 => unacked # <<>>
    BY <1>8
  <2> QED
    BY <1>9, <2>1, <2>2
<1>11. \A x \in 1 .. W : T[x].n \in Nat /\ T[x].n <= fed'
  <2> TAKE x \in 1 .. W
  <2>1. T[x] \in Message
    <3>1. x \in 1 .. Len(T)
      BY <1>8
    <3> QED
      BY <1>6, <3>1
  <2>2. T[x].n \in Nat
    BY <2>1 DEF Message
  <2> QED
    BY <1>4, <1>8, <2>2 DEF Stream
<1>12. \A x \in N + 1 .. W : T[x].n = fed'
  <2> TAKE x \in N + 1 .. W
  <2>1. frame.n = fed' /\ Redraw(frame).n = fed'
    <3>1. frame.n = fed'
      BY <1>2 DEF Sends
    <3> QED
      BY <1>3, <3>1 DEF Redraw, Message
  <2>2. /\ T[N + 1] = frame
        /\ (W = N + 2 /\ T[N + 2] = Redraw(frame)) \/ W = N + 1
    BY <1>4, <1>8 DEF Grown
  <2>3. x = N + 1 \/ (x = N + 2 /\ W = N + 2)
    BY <2>2
  <2> QED
    BY <2>1, <2>2, <2>3
<1>13. \A x \in g + 1 .. W : lost <= T[x].n
  <2> TAKE x \in g + 1 .. W
  <2>1. CASE x <= N
    <3>1. x \in g + 1 .. N /\ x \in 1 .. N
      BY <1>9, <2>1
    <3> QED
      BY <1>6, <1>8, <1>10, <3>1
  <2>2. CASE ~(x <= N)
    <3>1. x \in N + 1 .. W
      BY <1>9, <2>2
    <3>2. T[x].n = fed + 1
      BY <1>9, <1>12, <3>1
    <3> QED
      BY <1>9, <1>10, <3>2
  <2> QED
    BY <2>1, <2>2
<1>14. \A x, y \in 1 .. W : x <= y => T[x].n <= T[y].n
  <2> TAKE x, y \in 1 .. W
  <2> SUFFICES ASSUME x <= y PROVE T[x].n <= T[y].n
    OBVIOUS
  <2>1. CASE x = y
    <3>1. T[y].n \in Nat
      BY <1>11
    <3> QED
      BY <2>1, <3>1
  <2>2. CASE x # y
    <3>1. x < y
      BY <2>2
    <3> QED
      BY <1>4, <1>8, <3>1 DEF Stream
  <2> QED
    BY <2>1, <2>2
<1>15. /\ chunks' = chunks /\ breaks' = breaks
  BY <1>2 DEF Sends, historyVars
(* What is lost, either way.                                               *)
<1>16. /\ lost' \in Int /\ lost <= lost' /\ lost' <= fed'
       /\ \A x \in d + 1 .. h : T[x].n <= lost'
       /\ \A x \in h + 1 .. W : lost' <= T[x].n
       /\ unacked' # <<>> => h + Len(unacked') <= d
       /\ Cursor(g, d) <= Cursor(h, d)' /\ Cursor(h, d)' <= d
       /\ Cursor(g, d) \in Nat /\ Cursor(h, d)' \in Nat
  <2>1. CASE h + Len(unacked') = g + U /\ lost' = lost /\ (h # g => unacked # <<>>)
    <3>1. h # g => g + U <= d /\ h <= d
      <4>1. ASSUME h # g PROVE g + U <= d
        <5>1. U # 0
          BY <1>8, <2>1, <4>1, NoLength DEF Types
        <5> QED
          BY <1>10, <5>1
      <4>2. Len(unacked') \in Nat
        BY <1>7 DEF Buffered, Drops
      <4> QED
        BY <1>9, <1>10, <2>1, <4>1, <4>2
    <3>2. ASSUME NEW x \in d + 1 .. h PROVE T[x].n <= lost'
      <4>1. h = g /\ x \in d + 1 .. g /\ x \in 1 .. N
        BY <1>9, <1>10, <3>1
      <4> QED
        BY <1>6, <1>8, <1>10, <2>1, <4>1
    <3>3. \A x \in h + 1 .. W : x \in g + 1 .. W
      BY <1>9
    <3>4. unacked' # <<>> => h + Len(unacked') <= d
      <4>1. ASSUME unacked' # <<>> PROVE g + U <= d
        <5>1. CASE h # g
          BY <3>1, <5>1
        <5>2. CASE h = g
          <6>1. Len(unacked') # 0 /\ Len(unacked') = U
            <7>1. pending' \in Seq(Message) /\ unacked' \in Seq(Message)
              BY <1>2, <1>3, BufferTyped DEF ms
            <7>2. Len(unacked') # 0 /\ Len(unacked') \in Nat
              BY <4>1, <7>1, NoLength
            <7> QED
              BY <1>9, <2>1, <5>2, <7>2
          <6> QED
            BY <1>10, <6>1
        <5> QED
          BY <5>1, <5>2
      <4> QED
        BY <2>1, <4>1
    <3>5. Cursor(h, d)' = Cursor(g, d)
      BY <1>8, <2>1 DEF Cursor
    <3>6. Cursor(g, d) \in Nat /\ Cursor(g, d) <= d
      BY <1>8, <1>9, <1>10 DEF Cursor, Least
    <3>7. lost <= lost' /\ lost' <= fed'
      BY <1>9, <1>10, <2>1
    <3> QED
      BY <1>9, <1>13, <2>1, <3>2, <3>3, <3>4, <3>5, <3>6, <3>7
  <2>2. CASE unacked' = <<>> /\ h > g + U /\ lost' = T[h].n
    <3>1. h \in g + 1 .. W /\ h \in 1 .. W
      BY <1>9, <2>2
    <3>2. lost' \in Int /\ lost <= lost' /\ lost' <= fed'
      BY <1>11, <1>13, <2>2, <3>1
    <3>3. ASSUME NEW x \in d + 1 .. h PROVE T[x].n <= lost'
      <4>1. x \in 1 .. W /\ x <= h
        BY <1>9, <1>10
      <4> QED
        BY <1>14, <2>2, <3>1, <4>1
    <3>4. ASSUME NEW x \in h + 1 .. W PROVE lost' <= T[x].n
      <4>1. x \in 1 .. W /\ h <= x
        BY <1>9
      <4> QED
        BY <1>14, <2>2, <3>1, <4>1
    <3>5. Len(unacked') = 0
      BY <2>2
    <3>6. /\ Cursor(g, d) = IF g + U < d THEN g + U ELSE d
          /\ Cursor(h, d)' = IF h + 0 < d THEN h + 0 ELSE d
      BY <1>8, <3>5 DEF Cursor, Least
    <3>7. PICK k \in Nat : k = g + U
      BY <1>9
    <3>8. /\ Cursor(g, d) <= Cursor(h, d)' /\ Cursor(h, d)' <= d
          /\ Cursor(g, d) \in Nat /\ Cursor(h, d)' \in Nat
      BY <1>9, <1>10, <2>2, <3>6, <3>7
    <3> QED
      BY <2>2, <3>2, <3>3, <3>4, <3>8
  <2> QED
    BY <1>7, <1>8, <2>1, <2>2 DEF Drops
<1>17. Received(T, h, d, e)'
  <2>1. e \in 0 .. h /\ d \in e .. W
    BY <1>9, <1>10
  <2>2. (\A x \in 1 .. e : T[x].n <= lost') \/ (e < W /\ T[e + 1].full)
    <3>1. CASE \A x \in 1 .. e : S[x].n <= lost
      <4>1. ASSUME NEW x \in 1 .. e PROVE T[x].n <= lost'
        <5>1. x \in 1 .. N /\ x \in 1 .. W
          BY <1>9, <1>10
        <5>2. T[x].n <= lost /\ T[x].n \in Nat
          BY <1>6, <1>8, <1>11, <3>1, <5>1
        <5> QED
          BY <1>9, <1>16, <5>2
      <4> QED
        BY <4>1
    <3>2. CASE e < N /\ S[e + 1].full
      <4>1. e + 1 \in 1 .. N /\ e < W
        BY <1>9, <1>10, <3>2
      <4> QED
        BY <1>6, <1>8, <3>2, <4>1
    <3> QED
      BY <1>10, <3>1, <3>2
  <2>3. \A i \in 1 .. Len(chunks) : \E x \in 1 .. d : chunks[i] = T[x]
    <3> TAKE i \in 1 .. Len(chunks)
    <3>1. PICK x \in 1 .. d : chunks[i] = S[x]
      BY <1>10
    <3>2. x \in 1 .. N
      BY <1>10
    <3> QED
      BY <1>6, <1>8, <3>1, <3>2
  <2> QED
    BY <1>8, <1>10, <1>15, <1>16, <2>1, <2>2, <2>3 DEF Received
<1>18. \A x \in 0 .. N : Upto(T, x) = Upto(S, x) /\ Upto(S, x) \in Nat
  <2> TAKE x \in 0 .. N
  <2>1. x \in 0 .. Len(S) /\ x <= Len(T) /\ \A i \in 1 .. x : T[i] = S[i]
    BY <1>6, <1>8, <1>9
  <2> QED
    BY <1>6, <2>1, UptoSame, UptoGrows
<1>19. Kept(T, h, d, e)'
  <2>0. PICK c \in 0 .. N, b \in 0 .. N, r \in Nat, w \in Nat :
           /\ c = Cursor(g, d) /\ b = Cursor(h, d)' /\ c <= b
           /\ r = breaks * Repeats /\ w = breaks * MaxBuffered /\ r \in Nat /\ w \in Nat
    <3>1. Cursor(g, d) \in 0 .. N /\ Cursor(h, d)' \in 0 .. N
      BY <1>10, <1>16
    <3> QED
      BY <1>16, <3>1, RepeatsTyped
  <2> SUFFICES ASSUME NEW p \in e + 1 .. d, T[p].n > lost', Window(T, d, p)
               PROVE  \E i \in 1 .. Len(chunks) :
                        Anchor(chunks, T, d, p, i, (b - p) + r, (Upto(T, b) - Upto(T, p - 1)) + w)
    <3>1. \A p : Window(T, d, p)' <=> Window(T, d, p)
      BY <1>15 DEF Window
    <3> QED
      BY <1>15, <2>0, <3>1 DEF Kept
  <2>1. p \in 1 .. N /\ p \in 1 .. W /\ p - 1 \in 0 .. N /\ d \in 0 .. N
    BY <1>9, <1>10
  <2>2. T[p] = S[p] /\ S[p].n > lost
    <3>1. T[p] = S[p] /\ T[p].n \in Nat
      BY <1>6, <1>8, <1>11, <2>1
    <3> QED
      BY <1>9, <1>16, <3>1
  <2>3. Window(S, d, p)
    <3>1. Upto(T, d) = Upto(S, d) /\ Upto(T, p - 1) = Upto(S, p - 1)
      BY <1>18, <2>1
    <3> QED
      BY <3>1 DEF Window
  <2>4. PICK i \in 1 .. Len(chunks) :
           Anchor(chunks, S, d, p, i, (c - p) + r, (Upto(S, c) - Upto(S, p - 1)) + w)
    BY <1>1, <2>0, <2>2, <2>3 DEF Kept
  <2>5. /\ i \in 1 .. Len(chunks) /\ chunks[i] = S[p]
        /\ \A x \in p + 1 .. d : \E j \in i + 1 .. Len(chunks) : chunks[j] = S[x]
        /\ Len(chunks) - i <= (c - p) + r
        /\ BytesOf(Suffix(chunks, i - 1)) <= (Upto(S, c) - Upto(S, p - 1)) + w
    BY <2>4 DEF Anchor
  <2>6. ASSUME NEW x \in p + 1 .. d PROVE \E j \in i + 1 .. Len(chunks) : chunks[j] = T[x]
    <3>1. x \in 1 .. N
      BY <1>10, <2>1
    <3>2. T[x] = S[x]
      BY <1>6, <1>8, <3>1
    <3> QED
      BY <2>5, <3>2
  <2>7. Len(chunks) - i <= (b - p) + r
    <3>1. PICK L \in Nat : L = Len(chunks)
      BY DEF Bounded
    <3>2. i \in Nat /\ L - i <= (c - p) + r /\ c <= b /\ r \in Nat /\ p \in Nat
      BY <2>0, <2>1, <2>5, <3>1
    <3> QED
      BY <3>1, <3>2
  <2>8. BytesOf(Suffix(chunks, i - 1)) <= (Upto(T, b) - Upto(T, p - 1)) + w
    <3>1. PICK x \in Nat, y \in Nat, z \in Nat, k \in Nat, v \in Nat :
             /\ x = Upto(S, c) /\ y = Upto(S, b) /\ z = Upto(S, p - 1) /\ x <= y
             /\ k = BytesOf(Suffix(chunks, i - 1)) /\ v = w
      <4>1. Upto(S, c) \in Nat /\ Upto(S, b) \in Nat /\ Upto(S, p - 1) \in Nat
            /\ Upto(S, c) <= Upto(S, b)
        BY <1>6, <1>8, <2>0, <2>1, UptoGrows
      <4>2. BytesOf(Suffix(chunks, i - 1)) \in Nat
        <5>1. i - 1 \in 0 .. Len(chunks) /\ Len(chunks) \in Nat
          BY <2>5
        <5>2. Suffix(chunks, i - 1) \in Seq(Message)
          BY <5>1, SuffixTyped DEF Bounded
        <5> QED
          BY <5>2, BytesTyped
      <4> QED
        BY <2>0, <4>1, <4>2
    <3>2. k <= (x - z) + v
      BY <2>5, <3>1
    <3>3. k <= (y - z) + v
      BY <3>1, <3>2, SMTT(30)
    <3>4. Upto(T, b) = y /\ Upto(T, p - 1) = z
      BY <1>18, <2>0, <2>1, <3>1
    <3> QED
      BY <3>1, <3>3, <3>4
  <2> QED
    BY <2>2, <2>5, <2>6, <2>7, <2>8 DEF Anchor
<1> QED
  BY <1>4, <1>5, <1>7, <1>17, <1>19 DEF Follows

(* Whatever is sent was sent by a stream, and the history is where it is.  *)
LateInv == \E S, g, d, e : Follows(S, g, d, e)

(* Every step keeps track of the stream.                                   *)
LEMMA NextLate == Types /\ Bounded /\ LateInv /\ [Next]_vars => LateInv'
<1> SUFFICES ASSUME Types, Bounded, NEW S, NEW g, NEW d, NEW e, Follows(S, g, d, e), [Next]_vars
             PROVE  \E T, h, k, l : Follows(T, h, k, l)'
  BY DEF LateInv
<1>1. CASE Output
  BY <1>1, OutputFollows
<1>2. CASE Deliver
  BY <1>2, DeliverFollows
<1>3. CASE Acked
  BY <1>3, AckedFollows
<1>4. CASE Break
  BY <1>4, BreakFollows
<1>5. CASE Restart
  BY <1>5, RestartFollows
<1>6. CASE UNCHANGED vars
  <2>1. /\ alt' = alt /\ size' = size /\ framesSince' = framesSince
        /\ pending' = pending /\ unacked' = unacked /\ chunks' = chunks
        /\ fed' = fed /\ breaks' = breaks /\ lost' = lost
    BY <1>6 DEF vars, keyframerVars, bufferVars, historyVars
  <2>2. Follows(S, g, d, e)'
    BY <2>1 DEF Follows, CadenceKept, Buffered, Received, Kept, Window, Cursor, Anchor
  <2> QED
    BY <2>2
<1> QED
  BY <1>1, <1>2, <1>3, <1>4, <1>5, <1>6 DEF Next

-----------------------------------------------------------------------------
(* What the invariant is for.                                              *)

(* More times as much is no less.                                          *)
LEMMA MoreTimes ==
  ASSUME NEW a \in Nat, NEW b \in Nat, NEW c \in Nat, a <= b
  PROVE  a * c \in Nat /\ b * c \in Nat /\ a * c <= b * c
<1>1. PICK k \in Nat : b = a + k
  <2>1. b - a \in Nat /\ b = a + (b - a)
    OBVIOUS
  <2> QED
    BY <2>1
<1>2. (a + k) * c = a * c + k * c
  OBVIOUS
<1>3. a * c \in Nat /\ k * c \in Nat
  OBVIOUS
<1> QED
  BY <1>1, <1>2, <1>3

(* What each message of a stream is.                                       *)
LEMMA StreamTyped ==
  ASSUME NEW S, NEW f, Stream(S, f), NEW y \in 1 .. Len(S)
  PROVE  /\ S[y] \in Message /\ S[y].n \in Nat /\ S[y].len \in Nat
         /\ S[y].kind = "frame" => S[y].len \in FrameLengths
         /\ S[y].kind # "frame" => S[y].full /\ S[y].len = KeyLength
<1>1. S[y] \in Message
  <2>1. S \in Seq(Message)
    BY DEF Stream
  <2> QED
    BY <2>1
<1>2. S[y].kind \in {"frame", "redraw"} /\ S[y].n \in Nat /\ S[y].len \in Nat
  BY <1>1 DEF Message
<1> QED
  BY <1>1, <1>2 DEF Stream

(* One of its frames is the longest.                                       *)
LEMMA SomeLongest ==
  ASSUME NEW S, NEW f, Stream(S, f), NEW d \in 1 .. Len(S)
  PROVE  \E longest \in FrameLengths :
            \A z \in 1 .. d : S[z].kind = "frame" => S[z].len <= longest
<1> DEFINE Longest(k, l) == \A z \in 1 .. k : S[z].kind = "frame" => S[z].len <= l
           Good == {k \in 0 .. d : \E l \in FrameLengths : Longest(k, l)}
<1>1. PICK N \in Nat : N = Len(S) /\ d \in 1 .. N /\ d \in Nat
  BY DEF Stream
<1>2. 0 \in Good
  <2>1. 1 \in 1 .. Len(S) /\ S[1].kind = "frame"
    BY <1>1 DEF Stream
  <2>2. S[1].len \in FrameLengths
    BY <2>1, StreamTyped
  <2>3. 0 \in 0 .. d /\ \A z \in 1 .. 0 : FALSE
    BY <1>1
  <2> QED
    BY <2>2, <2>3
<1>3. ASSUME NEW k \in 0 .. d - 1, k \in Good PROVE k + 1 \in Good
  <2>1. PICK l \in FrameLengths : Longest(k, l)
    BY <1>3
  <2>2. l \in Nat /\ k + 1 \in 1 .. d /\ k + 1 \in 1 .. Len(S) /\ k + 1 \in 0 .. d
        /\ \A z \in 1 .. k + 1 : z \in 1 .. k \/ z = k + 1
    BY <1>1, CadenceTyped
  <2>3. S[k + 1].len \in Nat /\ (S[k + 1].kind = "frame" => S[k + 1].len \in FrameLengths)
    BY <2>2, StreamTyped
  <2>4. PICK w : w = k + 1
    OBVIOUS
  <2>5. CASE S[w].kind = "frame" /\ l < S[w].len
    <3>1. ASSUME NEW z \in 1 .. w, S[z].kind = "frame" PROVE S[z].len <= S[w].len
      <4>1. CASE z = w
        BY <2>3, <2>4, <4>1
      <4>2. CASE z # w
        <5>1. z \in 1 .. k /\ z \in 1 .. Len(S)
          BY <1>1, <2>2, <2>4, <4>2
        <5>2. S[z].len <= l /\ S[z].len \in Nat
          BY <2>1, <3>1, <5>1, StreamTyped
        <5> QED
          BY <2>2, <2>3, <2>4, <2>5, <5>2
      <4> QED
        BY <4>1, <4>2
    <3> QED
      BY <2>2, <2>3, <2>4, <2>5, <3>1
  <2>6. CASE ~(S[w].kind = "frame" /\ l < S[w].len)
    <3>1. ASSUME NEW z \in 1 .. w, S[z].kind = "frame" PROVE S[z].len <= l
      <4>1. CASE z = w
        BY <2>2, <2>3, <2>4, <2>6, <3>1, <4>1
      <4>2. CASE z # w
        BY <2>1, <2>2, <2>4, <3>1, <4>2
      <4> QED
        BY <4>1, <4>2
    <3> QED
      BY <2>2, <2>4, <3>1
  <2> QED
    BY <2>5, <2>6
<1>4. 0 .. d \subseteq Good
  <2> HIDE DEF Good
  <2> QED
    BY <1>1, <1>2, <1>3, SetInduction
<1>5. d \in Good
  <2>1. d \in 0 .. d
    BY <1>1
  <2> QED
    BY <1>4, <2>1
<1> QED
  BY <1>5

(* A cadence, and what reconnects repeat, are within the bounds.           *)
LEMMA CadenceFits ==
  ASSUME Types, NEW S, Stream(S, fed), NEW d \in 1 .. Len(S), NEW p \in 1 .. d,
         Plain(S, p, d), (d - p) + Counted(S[p]) <= FramesPerKeyframe
  PROVE  Window(S, d, p)
<1>1. PICK N \in Nat : N = Len(S) /\ d \in 1 .. N /\ p \in 1 .. N /\ S \in Seq(Message)
  BY DEF Stream
<1>2. PICK l \in FrameLengths : \A z \in 1 .. d : S[z].kind = "frame" => S[z].len <= l
  BY SomeLongest
<1>3. PICK F \in Nat, K \in Nat, B \in Nat, R \in Nat, M \in Nat :
         F = FramesPerKeyframe /\ K = KeyLength /\ B = Breaks /\ R = Repeats /\ M = MaxBuffered
  BY CadenceTyped
<1>4. /\ l \in Nat /\ breaks \in Nat /\ breaks <= B
      /\ MaxMessages > F + B * R /\ MaxBytes >= K + F * l + B * M
      /\ MaxMessages \in Nat /\ MaxBytes \in Nat
  BY <1>3, CadenceTyped, WindowHoldsKeyframe, BoundsTyped DEF Types
<1>5. PICK r \in Nat, w \in Nat, br \in Nat, bw \in Nat :
         /\ r = breaks * R /\ w = breaks * M /\ br = B * R /\ bw = B * M /\ r <= br /\ w <= bw
  BY <1>3, <1>4, MoreTimes
<1>6. PICK n \in Nat : n = d - p
  BY <1>1
<1>7. ASSUME NEW z \in p + 1 .. d PROVE S[z].len <= l
  <2>1. z \in 1 .. Len(S) /\ z \in 1 .. d
    BY <1>1
  <2>2. S[z].kind = "frame"
    BY <2>1, StreamTyped DEF Plain
  <2> QED
    BY <1>2, <2>1, <2>2
<1>8. PICK a \in Nat, b \in Nat, c \in Nat, v \in Nat, nl \in Nat, Fl \in Nat :
         /\ a = Upto(S, p - 1) /\ b = Upto(S, p) /\ c = Upto(S, d) /\ v = S[p].len
         /\ nl = n * l /\ Fl = F * l /\ b = a + v /\ c <= b + nl
  <2>1. p - 1 \in 0 .. Len(S) /\ p \in 0 .. Len(S) /\ d \in 0 .. Len(S) /\ p \in 1 .. Len(S)
        /\ d \in p .. Len(S)
    BY <1>1
  <2>2. Upto(S, p - 1) \in Nat /\ Upto(S, p) \in Nat /\ Upto(S, d) \in Nat
        /\ Upto(S, p) = Upto(S, p - 1) + S[p].len
    BY <1>1, <2>1, UptoGrows
  <2>3. Upto(S, d) <= Upto(S, p) + n * l
    <3>1. Upto(S, d) <= Upto(S, p) + (d - p) * l
      BY <1>1, <1>4, <1>7, <2>1, UptoAtMost
    <3> QED
      BY <1>6, <3>1
  <2>4. S[p].len \in Nat
    BY <2>1, StreamTyped
  <2>5. n * l \in Nat /\ F * l \in Nat
    BY <1>3, <1>4, <1>6
  <2> QED
    BY <2>2, <2>3, <2>4, <2>5
<1>9. n <= F /\ v + nl <= K + Fl
  <2>1. p \in 1 .. Len(S) /\ p \in 1 .. d
    BY <1>1
  <2>2. CASE S[p].kind = "frame"
    <3>1. n + 1 <= F /\ v <= l
      BY <1>2, <1>3, <1>6, <1>8, <2>1, <2>2 DEF Counted
    <3>2. (n + 1) * l <= F * l
      <4>1. n + 1 \in Nat
        OBVIOUS
      <4> QED
        BY <1>4, <3>1, <4>1, MoreTimes
    <3>3. (n + 1) * l = n * l + l
      BY <1>4
    <3>4. nl + l <= Fl
      BY <1>8, <3>2, <3>3
    <3> QED
      BY <1>4, <3>1, <3>4
  <2>3. CASE S[p].kind # "frame"
    <3>1. n <= F
      BY <1>3, <1>6, <2>3 DEF Counted
    <3>2. n * l <= F * l
      BY <1>4, <3>1, MoreTimes
    <3>3. v = K
      BY <1>3, <1>8, <2>1, <2>3, StreamTyped
    <3> QED
      BY <1>8, <3>1, <3>2, <3>3
  <2> QED
    BY <2>2, <2>3
<1>10. 1 + n + r <= MaxMessages
  <2>1. MaxMessages > F + br
    BY <1>4, <1>5
  <2> QED
    BY <1>4, <1>5, <1>9, <2>1
<1>11. (c - a) + w <= MaxBytes
  <2>1. MaxBytes >= K + Fl + bw
    BY <1>4, <1>5, <1>8
  <2>2. c - a <= v + nl
    <3>1. b = a + v /\ c <= b + nl
      BY <1>8
    <3>2. a \in Nat /\ b \in Nat /\ c \in Nat /\ v \in Nat /\ nl \in Nat
      OBVIOUS
    <3> QED
      BY <3>1, <3>2
  <2> QED
    BY <1>4, <1>5, <1>9, <2>1, <2>2
<1> QED
  BY <1>3, <1>5, <1>6, <1>8, <1>10, <1>11 DEF Window

(* The history has message p of the stream, and later all that follows it. *)
HasFrom(S, d, p) ==
  \E i \in 1 .. Len(chunks) :
     /\ chunks[i] = S[p]
     /\ \A x \in p + 1 .. d : \E j \in i + 1 .. Len(chunks) : chunks[j] = S[x]

(* What fits is in the history, with all that follows it.                  *)
LEMMA KeptMeans ==
  ASSUME Types, NEW S, NEW g, NEW d, NEW e, Follows(S, g, d, e), NEW p \in e + 1 .. d,
         S[p].n > lost, Window(S, d, p)
  PROVE  HasFrom(S, d, p)
<1>1. Kept(S, g, d, e)
  BY DEF Follows
<1>2. PICK i \in 1 .. Len(chunks) :
        Anchor(chunks, S, d, p, i, (Cursor(g, d) - p) + breaks * Repeats,
               (Upto(S, Cursor(g, d)) - Upto(S, p - 1)) + breaks * MaxBuffered)
  BY <1>1 DEF Kept
<1> QED
  BY <1>2 DEF Anchor, HasFrom

(* The newest frame of the history is the last the server received.        *)
LEMMA NewestIs ==
  ASSUME Types, Bounded, NEW S, NEW g, NEW d, NEW e, Follows(S, g, d, e),
         chunks # <<>>, Newest - lost > FramesPerKeyframe
  PROVE  /\ d \in 1 .. Len(S) /\ e \in Nat /\ e < d
         /\ Newest = S[d].n /\ \E c \in ToSet(chunks) : c = S[d]
         /\ \A c \in ToSet(chunks) : \E x \in 1 .. d : c = S[x]
<1>1. Stream(S, fed) /\ Received(S, g, d, e) /\ Buffered(S, g)
  BY DEF Follows
<1>2. PICK N \in Nat, L \in Nat : N = Len(S) /\ L = Len(chunks)
  BY <1>1 DEF Stream, Bounded
<1>3. /\ e \in Nat /\ d \in 1 .. N /\ e < d
      /\ \A i \in 1 .. L : \E x \in 1 .. d : chunks[i] = S[x]
  <2>1. /\ g \in Nat /\ e \in 0 .. g /\ d \in e .. N /\ e < d
        /\ \A i \in 1 .. L : \E x \in 1 .. d : chunks[i] = S[x]
    BY <1>1, <1>2 DEF Received, Buffered
  <2> QED
    BY <2>1
<1>4. L # 0 /\ ToSet(chunks) = {chunks[i] : i \in 1 .. L}
  <2>1. L # 0
    BY <1>2, NoLength DEF Bounded
  <2>2. DOMAIN chunks = 1 .. L
    BY <1>2 DEF Bounded
  <2> QED
    BY <2>1, <2>2 DEF ToSet
<1>5. \A c \in ToSet(chunks) : \E x \in 1 .. d : c = S[x]
  BY <1>3, <1>4
<1>6. \A x \in 1 .. d : S[x].n \in Nat /\ S[x].n <= S[d].n
  <2> TAKE x \in 1 .. d
  <2>1. x \in 1 .. Len(S) /\ d \in 1 .. Len(S)
    BY <1>2, <1>3
  <2>2. S[x].n \in Nat /\ S[d].n \in Nat
    BY <1>1, <2>1, StreamTyped
  <2>3. CASE x = d
    BY <2>2, <2>3
  <2>4. CASE x # d
    <3>1. x < d
      BY <1>3, <2>4
    <3> QED
      BY <1>1, <2>1, <2>2, <3>1 DEF Stream
  <2> QED
    BY <2>3, <2>4
<1> DEFINE ns == {c.n : c \in ToSet(chunks)}
<1>7. PICK D \in Nat : D = S[d].n
  <2>1. d \in 1 .. d
    BY <1>3
  <2> QED
    BY <1>6, <2>1
<1>8. ns \subseteq 0 .. D /\ ns # {}
  <2>1. ASSUME NEW c \in ToSet(chunks) PROVE c.n \in 0 .. D
    BY <1>5, <1>6, <1>7
  <2>2. chunks[1] \in ToSet(chunks)
    BY <1>4
  <2> QED
    BY <2>1, <2>2
<1>9. Newest \in ns /\ \A y \in ns : Newest >= y
  <2>1. Newest = CHOOSE x \in ns : \A y \in ns : x >= y
    BY DEF Newest, Max
  <2> HIDE DEF ns
  <2>2. PICK y : y \in ns
    BY <1>8
  <2>3. ns \in SUBSET (0 .. D)
    BY <1>8
  <2>4. \E x \in ns : \A z \in ns : z <= x
    BY <2>2, <2>3, NatGreatest
  <2>5. \E x \in ns : \A z \in ns : x >= z
    BY <1>8, <2>4
  <2> QED
    BY <2>1, <2>5
<1> HIDE DEF ns
<1>10. PICK m \in 0 .. D : m = Newest
  BY <1>8, <1>9
<1>11. D > lost
  <2>1. m - lost > FramesPerKeyframe /\ FramesPerKeyframe \in Nat /\ lost \in Int
    BY <1>10, CadenceTyped DEF Types
  <2> QED
    BY <2>1
<1>12. Window(S, d, d)
  <2>1. d \in 1 .. Len(S) /\ d \in 1 .. d /\ d - d = 0 /\ \A z \in d + 1 .. d : FALSE
    BY <1>2, <1>3
  <2>2. (d - d) + Counted(S[d]) <= FramesPerKeyframe
    BY <2>1, CadenceTyped DEF Counted
  <2>3. Plain(S, d, d)
    BY <2>1 DEF Plain
  <2> QED
    BY <1>1, <2>1, <2>2, <2>3, CadenceFits
<1>13. PICK i \in 1 .. L : chunks[i] = S[d]
  <2>1. d \in e + 1 .. d
    BY <1>3
  <2>2. S[d].n > lost
    BY <1>7, <1>11
  <2>3. HasFrom(S, d, d)
    BY <1>12, <2>1, <2>2, KeptMeans
  <2> QED
    BY <1>2, <2>3 DEF HasFrom
<1>14. chunks[i] \in ToSet(chunks)
  BY <1>4
<1>15. D \in ns
  BY <1>7, <1>13, <1>14 DEF ns
<1>16. m = D
  <2>1. m >= D
    BY <1>9, <1>10, <1>15
  <2> QED
    BY <2>1
<1> QED
  BY <1>2, <1>3, <1>5, <1>7, <1>10, <1>13, <1>14, <1>16

(* From there on the history rebuilds the screen.                          *)
LEMMA FullRebuilds ==
  ASSUME Types, Bounded, NEW S, NEW g, NEW d, NEW e, Follows(S, g, d, e),
         d \in 1 .. Len(S), e \in Nat, e < d,
         Newest = S[d].n, Newest - lost > FramesPerKeyframe,
         NEW x, LastFull(S, x, d), (d - x) + Counted(S[x]) <= FramesPerKeyframe
  PROVE  \E i \in DOMAIN chunks : chunks[i] = S[x] /\ Rebuilds(i)
<1>1. Stream(S, fed) /\ Received(S, g, d, e)
  BY DEF Follows
<1>2. x \in 1 .. d /\ S[x].full /\ Plain(S, x, d)
  BY DEF LastFull
<1>3. PICK N \in Nat, L \in Nat : N = Len(S) /\ L = Len(chunks) /\ d \in 1 .. N /\ DOMAIN chunks = 1 .. L
  BY <1>1 DEF Stream, Bounded
<1>4. x \in 1 .. N /\ x \in Nat /\ d \in Nat
  BY <1>2, <1>3
<1>5. PICK A \in Nat, D \in Nat : A = S[x].n /\ D = S[d].n
  BY <1>1, <1>3, <1>4, StreamTyped
<1>6. \A z \in x .. d : S[z].n = A + (z - x)
  <2> TAKE z \in x .. d
  <2>1. CASE z = x
    BY <1>4, <1>5, <2>1
  <2>2. CASE z # x
    <3>1. x < z /\ z \in 1 .. N /\ \A y \in x + 1 .. z : y \in x + 1 .. d
      BY <1>3, <1>4, <2>2
    <3>2. Plain(S, x, z)
      BY <1>2, <3>1 DEF Plain
    <3> QED
      BY <1>1, <1>3, <1>4, <1>5, <3>1, <3>2 DEF Stream
  <2> QED
    BY <2>1, <2>2
<1>7. D = A + (d - x)
  <2>1. d \in x .. d
    BY <1>2, <1>4
  <2> QED
    BY <1>5, <1>6, <2>1
<1>8. A > lost
  <2>1. Counted(S[x]) \in {0, 1}
    BY DEF Counted
  <2>2. d - x <= FramesPerKeyframe
    BY <1>4, <2>1, CadenceTyped
  <2>3. D - lost > FramesPerKeyframe /\ lost \in Int /\ FramesPerKeyframe \in Nat
    BY <1>5, CadenceTyped DEF Types
  <2> QED
    BY <1>4, <1>7, <2>2, <2>3
<1>9. x > e
  <2> SUFFICES ASSUME x <= e PROVE FALSE
    BY <1>4
  <2>1. (\A z \in 1 .. e : S[z].n <= lost) \/ S[e + 1].full
    BY <1>1 DEF Received
  <2>2. x \in 1 .. e /\ e + 1 \in x + 1 .. d
    BY <1>2, <1>4
  <2>3. ~(A <= lost)
    BY <1>8 DEF Types
  <2> QED
    BY <1>2, <1>5, <2>1, <2>2, <2>3 DEF Plain
<1>10. Window(S, d, x)
  <2>1. d \in 1 .. Len(S)
    BY <1>3
  <2> QED
    BY <1>1, <1>2, <2>1, CadenceFits
<1>11. PICK i \in 1 .. L :
         /\ chunks[i] = S[x]
         /\ \A z \in x + 1 .. d : \E j \in i + 1 .. L : chunks[j] = S[z]
  <2>1. x \in e + 1 .. d
    BY <1>2, <1>4, <1>9
  <2>2. S[x].n > lost
    BY <1>5, <1>8
  <2>3. HasFrom(S, d, x)
    BY <1>10, <2>1, <2>2, KeptMeans
  <2> QED
    BY <1>3, <2>3 DEF HasFrom
<1>12. ASSUME NEW n \in A + 1 .. D
       PROVE  \E j \in i + 1 .. L : chunks[j].n = n /\ chunks[j].kind = "frame"
  <2>1. PICK z \in x + 1 .. d : n = A + (z - x)
    <3>1. x + (n - A) \in x + 1 .. d /\ n = A + ((x + (n - A)) - x)
      BY <1>4, <1>7
    <3> QED
      BY <3>1
  <2>2. z \in x .. d /\ z \in 1 .. N
    BY <1>3, <1>4
  <2>3. S[z].n = n /\ S[z].kind = "frame"
    BY <1>1, <1>2, <1>3, <1>6, <2>1, <2>2, StreamTyped DEF Plain
  <2> QED
    BY <1>11, <2>1, <2>3
<1>13. Rebuilds(i)
  <2>1. chunks[i].full /\ chunks[i].n = A /\ Newest = D
    BY <1>2, <1>5, <1>11
  <2> QED
    BY <1>3, <1>12, <2>1 DEF Rebuilds
<1> QED
  BY <1>3, <1>11, <1>13

(* The redraw that follows the newest output is yet to be written.         *)
LEMMA RedrawIsPending ==
  ASSUME Types, NEW S, NEW g, NEW d, NEW e, Follows(S, g, d, e), d \in 1 .. Len(S),
         S[d].n > lost, RedrawFollows(S, d)
  PROVE  \E m \in ToSet(pending) : m.kind = "redraw" /\ m.n = S[d].n
<1>1. Stream(S, fed) /\ Received(S, g, d, e) /\ Buffered(S, g)
  BY DEF Follows
<1>2. PICK N \in Nat, U \in Nat, P \in Nat :
         N = Len(S) /\ U = Len(unacked) /\ P = Len(pending) /\ DOMAIN pending = 1 .. P
  BY <1>1 DEF Stream, Types
<1>3. d \in 1 .. N /\ d < N /\ S[d + 1].kind = "redraw" /\ S[d + 1].n = S[d].n
  BY <1>2 DEF RedrawFollows
<1>4. /\ g \in Nat /\ N = (g + U) + P
      /\ \A i \in 1 .. P : pending[i] = S[(g + U) + i]
  BY <1>1, <1>2 DEF Buffered
<1>5. PICK k \in Nat : k = S[d].n /\ ~(k <= lost)
  <2>1. S[d].n \in Nat
    BY <1>1, StreamTyped
  <2>2. ~(S[d].n <= lost)
    BY <2>1 DEF Types
  <2> QED
    BY <2>1, <2>2
<1>6. g <= d
  <2> SUFFICES ASSUME ~(g <= d) PROVE FALSE
    OBVIOUS
  <2>1. d + 1 \in d + 1 .. g
    BY <1>3, <1>4
  <2>2. S[d + 1].n <= lost
    BY <1>1, <2>1 DEF Received
  <2> QED
    BY <1>3, <1>5, <2>2
<1>7. g + U <= d
  <2>1. CASE U = 0
    BY <1>4, <1>6, <2>1
  <2>2. CASE U # 0
    <3>1. unacked # <<>>
      BY <1>2, <2>2
    <3> QED
      BY <1>1, <1>2, <3>1 DEF Received
  <2> QED
    BY <2>1, <2>2
<1>8. PICK i \in 1 .. P : (g + U) + i = d + 1
  <2>1. (d + 1) - (g + U) \in 1 .. P /\ (g + U) + ((d + 1) - (g + U)) = d + 1
    BY <1>3, <1>4, <1>7
  <2> QED
    BY <2>1
<1>9. pending[i] = S[d + 1] /\ pending[i] \in ToSet(pending)
  BY <1>2, <1>4, <1>8 DEF ToSet
<1> QED
  BY <1>3, <1>9

(* The invariant is enough.                                                *)
LEMMA LateEnough ==
  ASSUME Types, Bounded, LateInv PROVE LateJoinerSeesTheScreen
<1> DEFINE latest == CHOOSE c \in ToSet(chunks) : c.n = Newest
<1> SUFFICES ASSUME chunks # <<>>, latest.alt, Newest - lost > FramesPerKeyframe
             PROVE  \E i \in DOMAIN chunks :
                       /\ Rebuilds(i)
                       /\ \/ chunks[i].size = latest.size
                          \/ \E m \in ToSet(pending) : m.kind = "redraw" /\ m.n = Newest
  BY DEF LateJoinerSeesTheScreen
<1>1. PICK S, g, d, e : Follows(S, g, d, e)
  BY DEF LateInv
<1>2. /\ d \in 1 .. Len(S) /\ e \in Nat /\ e < d
      /\ Newest = S[d].n /\ \E c \in ToSet(chunks) : c = S[d]
      /\ \A c \in ToSet(chunks) : \E x \in 1 .. d : c = S[x]
  BY <1>1, NewestIs
<1>3. Stream(S, fed) /\ OnCadence(S)
  BY <1>1 DEF Follows
<1>4. latest \in ToSet(chunks) /\ latest.n = Newest
  BY <1>2
<1> HIDE DEF latest
<1>5. latest.alt = S[d].alt /\ latest.size = S[d].size
  <2>1. PICK x \in 1 .. d : latest = S[x]
    BY <1>2, <1>4
  <2>2. CASE x = d
    BY <2>1, <2>2
  <2>3. CASE x # d
    <3>1. x \in 1 .. Len(S) /\ x < d
      BY <1>2, <1>3, <2>3 DEF Stream
    <3>2. S[x].n = S[d].n => S[x].alt = S[d].alt /\ S[x].size = S[d].size
      BY <1>2, <1>3, <3>1 DEF Stream
    <3>3. S[x].n = S[d].n
      BY <1>2, <1>4, <2>1
    <3> QED
      BY <2>1, <3>2, <3>3
  <2> QED
    BY <2>2, <2>3
<1>6. PICK x \in 1 .. d :
         /\ LastFull(S, x, d) /\ (d - x) + Counted(S[x]) <= FramesPerKeyframe
         /\ S[x].size = S[d].size \/ RedrawFollows(S, d)
  BY <1>2, <1>3, <1>5 DEF OnCadence
<1>7. PICK i \in DOMAIN chunks : chunks[i] = S[x] /\ Rebuilds(i)
  BY <1>1, <1>2, <1>6, FullRebuilds
<1>8. CASE S[x].size = S[d].size
  BY <1>5, <1>7, <1>8
<1>9. CASE RedrawFollows(S, d)
  <2>1. S[d].n > lost
    <3>1. S[d].n \in Nat
      BY <1>2, <1>3, StreamTyped
    <3>2. S[d].n - lost > FramesPerKeyframe /\ FramesPerKeyframe \in Nat /\ lost \in Int
      BY <1>2, CadenceTyped DEF Types
    <3> QED
      BY <3>1, <3>2
  <2>2. \E m \in ToSet(pending) : m.kind = "redraw" /\ m.n = Newest
    BY <1>1, <1>2, <1>9, <2>1, RedrawIsPending
  <2> QED
    BY <1>7, <2>2
<1> QED
  BY <1>6, <1>8, <1>9

(* Whenever a viewer joins a program on the alternate screen, the history  *)
(* it is replayed rebuilds the whole screen, at the size of its newest     *)
(* output or with the redraw a resize forces on its way, unless one of the *)
(* last frames of a cadence was lost (screen.rs, Keyframer; protocol.rs).  *)
THEOREM LateJoinersSeeTheScreen == Spec => []LateJoinerSeesTheScreen
<1>1. Init => LateInv
  BY InitFollows DEF LateInv
<1>2. Types /\ Bounded /\ LateInv => LateJoinerSeesTheScreen
  BY LateEnough
<1> QED
  BY <1>1, <1>2, InitTyped, NextTyped, NextLate, PTL DEF Spec
=============================================================================
