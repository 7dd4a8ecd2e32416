----------------------------- MODULE SumsProof -----------------------------
(* Theorems about sums over sequences.  The provers cannot apply an        *)
(* induction theorem that takes an operator, so the inductions are over    *)
(* sets of numbers, from the well-foundedness of finite subsets.           *)
EXTENDS Sums, Integers, SequencesExt, FiniteSetTheorems, SequenceTheorems, WellFoundedInduction, TLAPS

(* Every set of numbers with a member has a least one.                     *)
LEMMA NatLeast ==
  ASSUME NEW T \in SUBSET Nat, NEW n \in T
  PROVE  \E x \in T : \A y \in T : x <= y
<1> DEFINE U == {0 .. k : k \in {j \in T : j <= n}}
<1>1. U \subseteq FiniteSubsetsOf(0 .. n)
  <2>1. \A k \in T : k <= n => 0 .. k \in SUBSET (0 .. n)
    OBVIOUS
  <2>2. FiniteSubsetsOf(0 .. n) = SUBSET (0 .. n)
    <3>1. IsFiniteSet(0 .. n)
      BY FS_Interval
    <3> QED
      BY <3>1, FS_FiniteSubsetsOfFinite
  <2> QED
    BY <2>1, <2>2
<1>2. U # {}
  OBVIOUS
<1>3. PICK s \in U : \A t \in U : <<t, s>> \notin StrictSubsetOrdering(0 .. n)
  BY <1>1, <1>2, FS_StrictSubsetOrderingWellFounded, WFMin
<1>4. PICK x \in T : x <= n /\ s = 0 .. x
  OBVIOUS
<1>5. ASSUME NEW y \in T, ~(x <= y) PROVE FALSE
  <2>1. 0 .. y \in U /\ 0 .. y \subseteq 0 .. x /\ 0 .. y # 0 .. x
    BY <1>5, <1>4
  <2>2. 0 .. x \subseteq 0 .. n
    BY <1>4
  <2> QED
    BY <1>3, <1>4, <2>1, <2>2 DEF StrictSubsetOrdering
<1> QED
  BY <1>5

(* Every bounded set of numbers with a member has a greatest one.          *)
LEMMA NatGreatest ==
  ASSUME NEW N \in Nat, NEW T \in SUBSET (0 .. N), NEW n \in T
  PROVE  \E x \in T : \A y \in T : y <= x
<1> DEFINE U == {N - x : x \in T}
<1>1. U \in SUBSET Nat /\ N - n \in U
  OBVIOUS
<1>2. PICK u \in U : \A y \in U : u <= y
  BY <1>1, NatLeast
<1>3. PICK x \in T : u = N - x
  OBVIOUS
<1>4. \A y \in T : N - x <= N - y
  BY <1>2, <1>3
<1> QED
  BY <1>4

(* Induction over 0 .. N, stated with a set because an operator cannot be  *)
(* a parameter here: what holds 0 and every successor holds all of them.   *)
LEMMA SetInduction ==
  ASSUME NEW N \in Nat, NEW S, 0 \in S, \A n \in 0 .. N - 1 : n \in S => n + 1 \in S
  PROVE  0 .. N \subseteq S
<1> DEFINE Out == (0 .. N) \ S
<1> SUFFICES ASSUME NEW m \in Out PROVE FALSE
  OBVIOUS
<1>1. Out \in SUBSET Nat
  OBVIOUS
<1>2. PICK x \in Out : \A y \in Out : x <= y
  BY <1>1, NatLeast
<1>3. x # 0 /\ x - 1 \in 0 .. N - 1
  BY <1>2
<1>4. x - 1 \in S
  BY <1>2, <1>3
<1> QED
  BY <1>2, <1>3, <1>4

(* The functions that are b at 0 and g[n] of the value before it at n.      *)
Recursive(N, S, b, g) ==
  {f \in [0 .. N -> S] : f[0] = b /\ \A n \in 1 .. N : f[n] = g[n][f[n - 1]]}

(* There is such a function: it is grown one value at a time.              *)
LEMMA Recursion ==
  ASSUME NEW N \in Nat, NEW S, NEW b \in S, NEW g \in [1 .. N -> [S -> S]]
  PROVE  Recursive(N, S, b, g) # {}
<1> DEFINE Upto(n) == {f \in [0 .. n -> S] : f[0] = b /\ \A i \in 1 .. n : f[i] = g[i][f[i - 1]]}
           Good == {n \in 0 .. N : Upto(n) # {}}
<1>1. 0 \in Good
  <2> DEFINE h == [i \in 0 .. 0 |-> b]
  <2>1. h \in [0 .. 0 -> S] /\ h[0] = b /\ 1 .. 0 = {}
    OBVIOUS
  <2>2. h \in Upto(0)
    BY <2>1
  <2> QED
    BY <2>2
<1>2. ASSUME NEW n \in 0 .. N - 1, n \in Good PROVE n + 1 \in Good
  <2>1. PICK f \in [0 .. n -> S] : f[0] = b /\ \A i \in 1 .. n : f[i] = g[i][f[i - 1]]
    BY <1>2
  <2> DEFINE h == [i \in 0 .. n + 1 |-> IF i = n + 1 THEN g[n + 1][f[n]] ELSE f[i]]
  <2>2. g[n + 1][f[n]] \in S
    <3>1. n + 1 \in 1 .. N /\ f[n] \in S
      BY <2>1
    <3> QED
      BY <3>1
  <2>3. h \in [0 .. n + 1 -> S]
    BY <2>1, <2>2
  <2>4. h[0] = b
    BY <2>1
  <2>5. ASSUME NEW i \in 1 .. n + 1 PROVE h[i] = g[i][h[i - 1]]
    <3>1. CASE i = n + 1
      BY <3>1
    <3>2. CASE i # n + 1
      <4>1. i \in 1 .. n /\ i - 1 \in 0 .. n /\ i - 1 # n + 1 /\ i \in 0 .. n + 1 /\ i - 1 \in 0 .. n + 1
        BY <3>2
      <4>2. h[i] = f[i] /\ h[i - 1] = f[i - 1]
        BY <4>1, <3>2
      <4> QED
        BY <4>1, <4>2, <2>1
    <3> QED
      BY <3>1, <3>2
  <2>6. h \in Upto(n + 1)
    BY <2>3, <2>4, <2>5
  <2>7. n + 1 \in 0 .. N
    OBVIOUS
  <2> HIDE DEF Upto
  <2> QED
    BY <2>6, <2>7
<1>3. N \in Good
  <2> HIDE DEF Good
  <2>1. \A n \in 0 .. N - 1 : n \in Good => n + 1 \in Good
    BY <1>2
  <2>2. 0 .. N \subseteq Good
    BY <1>1, <2>1, SetInduction
  <2> QED
    BY <2>2
<1> QED
  BY <1>3 DEF Recursive

(* What SumOf's recursive definition means: the partial sums start at 0,   *)
(* each adds one number, and the last is the sum.                          *)
LEMMA SumDefined ==
  ASSUME NEW s \in Seq(Nat), NEW N \in Nat, N = Len(s)
  PROVE  \E f : f = [n \in 0 .. N |-> IF n = 0 THEN 0 ELSE f[n - 1] + s[n]]
<1> DEFINE g == [n \in 1 .. N |-> [x \in Nat |-> x + s[n]]]
<1>0. \A n \in 1 .. N : s[n] \in Nat
  OBVIOUS
<1>1. g \in [1 .. N -> [Nat -> Nat]]
  BY <1>0
<1>2. \A n \in 1 .. N : \A x \in Nat : g[n][x] = x + s[n]
  OBVIOUS
<1> HIDE DEF g
<1>3. PICK f \in [0 .. N -> Nat] : f[0] = 0 /\ \A n \in 1 .. N : f[n] = g[n][f[n - 1]]
  <2>1. 0 \in Nat
    OBVIOUS
  <2>2. Recursive(N, Nat, 0, g) # {}
    BY <1>1, <2>1, Recursion
  <2> QED
    BY <2>2 DEF Recursive
<1>4. \A n \in 1 .. N : f[n] = f[n - 1] + s[n]
  <2> TAKE n \in 1 .. N
  <2>1. f[n - 1] \in Nat
    <3>1. n - 1 \in 0 .. N
      OBVIOUS
    <3> QED
      BY <1>3, <3>1
  <2> QED
    BY <1>2, <1>3, <2>1
<1>5. f = [n \in 0 .. N |-> IF n = 0 THEN 0 ELSE f[n - 1] + s[n]]
  BY <1>3, <1>4
<1> QED
  BY <1>5

(* A sum is reached step by step. *)
LEMMA SumSteps ==
  ASSUME NEW s \in Seq(Nat), NEW N \in Nat, N = Len(s)
  PROVE  \E f \in [0 .. N -> Nat] :
            /\ f[0] = 0
            /\ \A n \in 1 .. N : f[n] = f[n - 1] + s[n]
            /\ SumOf(s) = f[N]
<1> DEFINE sum == CHOOSE f : f = [n \in 0 .. N |-> IF n = 0 THEN 0 ELSE f[n - 1] + s[n]]
<1>1. sum = [n \in 0 .. N |-> IF n = 0 THEN 0 ELSE sum[n - 1] + s[n]]
  BY SumDefined
<1>2. SumOf(s) = sum[N]
  BY DEF SumOf
<1>. HIDE DEF sum
<1>3. sum[0] = 0
  BY <1>1
<1>4. ASSUME NEW n \in 1 .. N PROVE sum[n] = sum[n - 1] + s[n]
  <2>1. n \in 0 .. N /\ n # 0
    OBVIOUS
  <2> QED
    BY <1>1, <2>1
<1>5. \A n \in 0 .. N : sum[n] \in Nat
  <2> DEFINE Good == {n \in 0 .. N : sum[n] \in Nat}
  <2>1. 0 \in Good
    BY <1>3
  <2>2. ASSUME NEW n \in 0 .. N - 1, n \in Good PROVE n + 1 \in Good
    <3>1. sum[n + 1] = sum[n] + s[n + 1]
      BY <1>4
    <3> QED
      BY <2>2, <3>1
  <2> HIDE DEF Good
  <2>3. 0 .. N \subseteq Good
    <3>1. Len(s) \in Nat /\ \A n \in 0 .. N - 1 : n \in Good => n + 1 \in Good
      BY <2>2
    <3> QED
      BY <2>1, <3>1, SetInduction
  <2> QED
    BY <2>3 DEF Good
<1>6. sum \in [0 .. N -> Nat]
  BY <1>1, <1>5
<1> QED
  BY <1>2, <1>3, <1>4, <1>6

(* Steps that start alike and agree reach the same sums *)
LEMMA SumConcat ==
  ASSUME NEW s \in Seq(Nat), NEW t \in Seq(Nat)
  PROVE  SumOf(s \o t) = SumOf(s) + SumOf(t)
<1>0. PICK M \in Nat, N \in Nat : M = Len(s) /\ N = Len(t)
  OBVIOUS
<1>1. PICK f \in [0 .. M -> Nat] :
         f[0] = 0 /\ (\A n \in 1 .. M : f[n] = f[n - 1] + s[n]) /\ SumOf(s) = f[M]
  BY <1>0, SumSteps
<1>2. PICK g \in [0 .. N -> Nat] :
         g[0] = 0 /\ (\A n \in 1 .. N : g[n] = g[n - 1] + t[n]) /\ SumOf(t) = g[N]
  BY <1>0, SumSteps
<1> DEFINE u == s \o t
<1>3. u \in Seq(Nat) /\ Len(u) = M + N
      /\ (\A i \in 1 .. M : u[i] = s[i]) /\ \A i \in 1 .. N : u[M + i] = t[i]
  BY <1>0
<1>. HIDE DEF u
<1>4. PICK h \in [0 .. M + N -> Nat] :
         h[0] = 0 /\ (\A n \in 1 .. M + N : h[n] = h[n - 1] + u[n]) /\ SumOf(u) = h[(M + N)]
  <2>1. M + N \in Nat /\ M + N = Len(u) /\ u \in Seq(Nat)
    BY <1>3
  <2> QED
    BY <2>1, SumSteps
<1>5. \A n \in 0 .. M : h[n] = f[n]
  <2> DEFINE Good == {n \in 0 .. M : h[n] = f[n]}
  <2>1. 0 \in Good
    BY <1>1, <1>4
  <2>2. ASSUME NEW n \in 0 .. M - 1, n \in Good PROVE n + 1 \in Good
    <3>1. n + 1 \in 1 .. M /\ n + 1 \in 1 .. M + N /\ (n + 1) - 1 = n
      OBVIOUS
    <3>2. h[n + 1] = h[n] + u[n + 1]
      BY <1>4, <3>1
    <3>3. f[n + 1] = f[n] + s[n + 1]
      BY <1>1, <3>1
    <3>4. u[n + 1] = s[n + 1]
      BY <1>3, <3>1
    <3> QED
      BY <2>2, <3>1, <3>2, <3>3, <3>4
  <2> HIDE DEF Good
  <2>3. 0 .. M \subseteq Good
    <3>1. M \in Nat /\ \A n \in 0 .. M - 1 : n \in Good => n + 1 \in Good
      BY <2>2
    <3> QED
      BY <2>1, <3>1, SetInduction
  <2> QED
    BY <2>3 DEF Good
<1>6. \A n \in 0 .. N : h[M + n] = f[M] + g[n]
  <2> DEFINE Good == {n \in 0 .. N : h[M + n] = f[M] + g[n]}
  <2>1. 0 \in Good
    <3>1. M \in Nat /\ N \in Nat /\ f[M] \in Nat
      OBVIOUS
    <3>2. g[0] = 0 /\ 0 \in 0 .. N /\ M \in 0 .. M /\ M + 0 = M
      BY <3>1, <1>2
    <3>3. h[M] = f[M]
      BY <3>2, <1>5
    <3>4. h[M + 0] = f[M] + g[0]
      BY <3>1, <3>2, <3>3
    <3> QED
      BY <3>2, <3>4
  <2>2. ASSUME NEW n \in 0 .. N - 1, n \in Good PROVE n + 1 \in Good
    <3>1. /\ M \in Nat /\ N \in Nat /\ n \in 0 .. N
          /\ M + (n + 1) \in 1 .. M + N /\ n + 1 \in 1 .. N
          /\ (M + (n + 1)) - 1 = M + n /\ (n + 1) - 1 = n
      BY <1>3
    <3>2. h[M + (n + 1)] = h[(M + (n + 1)) - 1] + u[M + (n + 1)]
      BY <1>4, <3>1
    <3>3. h[M + (n + 1)] = h[M + n] + t[n + 1]
      BY <1>3, <3>1, <3>2
    <3>4. g[n + 1] = g[n] + t[n + 1]
      BY <1>2, <3>1
    <3>5. PICK x \in Nat, y \in Nat, z \in Nat : x = f[M] /\ y = g[n] /\ z = t[n + 1]
      <4>1. t[n + 1] \in Nat
        BY <1>0, <3>1
      <4>2. g[n] \in Nat /\ f[M] \in Nat
        BY <3>1
      <4> QED
        BY <4>1, <4>2
    <3>6. h[M + n] = x + y
      BY <2>2, <3>5
    <3>7. h[M + (n + 1)] = x + (y + z)
      <4>1. h[M + (n + 1)] = (x + y) + z
        BY <3>3, <3>5, <3>6
      <4> QED
        BY <4>1
    <3>8. f[M] + g[n + 1] = x + (y + z)
      BY <3>4, <3>5
    <3> QED
      BY <3>1, <3>7, <3>8
  <2> HIDE DEF Good
  <2>3. 0 .. N \subseteq Good
    <3>1. N \in Nat /\ \A n \in 0 .. N - 1 : n \in Good => n + 1 \in Good
      BY <2>2
    <3> QED
      BY <2>1, <3>1, SetInduction
  <2> QED
    BY <2>3 DEF Good
<1> QED
  BY <1>1, <1>2, <1>3, <1>4, <1>6 DEF u

(* Numbers above 0 add up to at least their number. *)
LEMMA SumBound ==
  ASSUME NEW s \in Seq(Nat)
  PROVE  SumOf(s) \in Nat /\ ((\A i \in 1 .. Len(s) : s[i] # 0) => Len(s) <= SumOf(s))
<1>0. PICK N \in Nat : N = Len(s)
  OBVIOUS
<1>1. PICK f \in [0 .. N -> Nat] :
         f[0] = 0 /\ (\A n \in 1 .. N : f[n] = f[n - 1] + s[n]) /\ SumOf(s) = f[N]
  BY <1>0, SumSteps
<1>2. ASSUME \A i \in 1 .. N : s[i] # 0 PROVE N <= SumOf(s)
  <2> DEFINE Good == {n \in 0 .. N : n <= f[n]}
  <2>1. 0 \in Good
    BY <1>1
  <2>2. ASSUME NEW n \in 0 .. N - 1, n \in Good PROVE n + 1 \in Good
    <3>1. n + 1 \in 1 .. N /\ (n + 1) - 1 = n /\ n \in 0 .. N
      OBVIOUS
    <3>2. f[n + 1] = f[n] + s[n + 1]
      BY <1>1, <3>1
    <3>3. s[n + 1] \in Nat /\ s[n + 1] # 0 /\ f[n] \in Nat
      BY <1>0, <1>2, <3>1
    <3>4. PICK x \in Nat, y \in Nat : x = s[n + 1] /\ y = f[n]
      BY <3>3
    <3>5. n <= y /\ x # 0 /\ f[n + 1] = y + x
      BY <2>2, <3>2, <3>3, <3>4
    <3>6. n + 1 <= f[n + 1] /\ n + 1 \in 0 .. N
      BY <3>5
    <3> QED
      BY <3>6
  <2> HIDE DEF Good
  <2>3. 0 .. N \subseteq Good
    <3>1. N \in Nat /\ \A n \in 0 .. N - 1 : n \in Good => n + 1 \in Good
      BY <2>2
    <3> QED
      BY <2>1, <3>1, SetInduction
  <2> QED
    BY <1>1, <2>3 DEF Good
<1> QED
  BY <1>0, <1>1, <1>2

(* The sum of one number is that number.                                   *)
LEMMA SumSingle ==
  ASSUME NEW x \in Nat
  PROVE  SumOf(<<>>) = 0 /\ SumOf(<<x>>) = x
<1>1. PICK f \in [0 .. 1 -> Nat] :
         f[0] = 0 /\ (\A n \in 1 .. 1 : f[n] = f[n - 1] + <<x>>[n])
         /\ SumOf(<<x>>) = f[1]
  <2>1. <<x>> \in Seq(Nat) /\ 1 = Len(<<x>>)
    OBVIOUS
  <2> QED
    BY <2>1, SumSteps
<1>2. PICK g \in [0 .. 0 -> Nat] : g[0] = 0 /\ SumOf(<<>>) = g[0]
  <2>1. <<>> \in Seq(Nat) /\ 0 = Len(<<>>)
    OBVIOUS
  <2> QED
    BY <2>1, SumSteps
<1> QED
  BY <1>1, <1>2

-----------------------------------------------------------------------------
(* Totals.                                                                 *)

(* A concatenation is known by its parts. *)
LEMMA ConcatAt ==
  ASSUME NEW S, NEW u \in Seq(S), NEW v \in Seq(S),
         NEW M \in Nat, NEW N \in Nat, M = Len(u), N = Len(v)
  PROVE  /\ u \o v \in Seq(S) /\ Len(u \o v) = M + N
         /\ \A i \in 1 .. M : (u \o v)[i] = u[i]
         /\ \A i \in 1 .. N : (u \o v)[M + i] = v[i]
  OBVIOUS

Joined(S, u, v, w) ==
  /\ u \in Seq(S) /\ v \in Seq(S) /\ w \in Seq(S)
  /\ \E M, N \in Nat :
       /\ M = Len(u) /\ N = Len(v) /\ Len(w) = M + N
       /\ \A i \in 1 .. M : w[i] = u[i]
       /\ \A i \in 1 .. N : w[M + i] = v[i]

(* A sequence that has the elements of u and then those of v is their      *)
(* concatenation.                                                          *)
LEMMA ConcatKnown ==
  ASSUME NEW S, NEW u, NEW v, NEW w, Joined(S, u, v, w)
  PROVE  w = u \o v
<1>0. u \in Seq(S) /\ v \in Seq(S) /\ w \in Seq(S)
  BY DEF Joined
<1>9. PICK M \in Nat, N \in Nat :
        /\ M = Len(u) /\ N = Len(v) /\ Len(w) = M + N
        /\ \A i \in 1 .. M : w[i] = u[i]
        /\ \A i \in 1 .. N : w[M + i] = v[i]
  BY DEF Joined
<1> DEFINE c == u \o v
<1>1. /\ c \in Seq(S) /\ Len(c) = M + N
      /\ \A i \in 1 .. M : c[i] = u[i]
      /\ \A i \in 1 .. N : c[M + i] = v[i]
  BY <1>0, <1>9, ConcatAt
<1> HIDE DEF c
<1>2. ASSUME NEW i \in 1 .. M + N PROVE w[i] = c[i]
  <2>1. CASE i <= M
    <3>1. i \in 1 .. M
      BY <2>1
    <3> QED
      BY <1>1, <1>9, <3>1
  <2>2. CASE ~(i <= M)
    <3>1. PICK j \in 1 .. N : i = M + j
      <4>1. i - M \in 1 .. N /\ i = M + (i - M)
        BY <2>2
      <4> QED
        BY <4>1
    <3> QED
      BY <1>1, <1>9, <3>1
  <2> QED
    BY <2>1, <2>2
<1>3. w = c
  BY <1>0, <1>9, <1>1, <1>2, SeqEqual
<1> QED
  BY <1>3 DEF c

(* The weights of a sequence are themselves a sequence of numbers.         *)
LEMMA TotalWeights ==
  ASSUME NEW S, NEW weight \in [S -> Nat], NEW q \in Seq(S)
  PROVE  /\ [i \in DOMAIN q |-> weight[q[i]]] \in Seq(Nat)
         /\ Len([i \in DOMAIN q |-> weight[q[i]]]) = Len(q)
<1> DEFINE w == [i \in DOMAIN q |-> weight[q[i]]]
<1>1. PICK N \in Nat : N = Len(q) /\ DOMAIN q = 1 .. N
  OBVIOUS
<1>2. \A i \in 1 .. N : weight[q[i]] \in Nat
  BY <1>1
<1>3. w \in [1 .. N -> Nat]
  BY <1>1, <1>2
<1>4. w \in Seq(Nat)
  BY <1>3, SeqDef
<1>5. Len(w) = N
  BY <1>3, <1>4
<1> QED
  BY <1>1, <1>4, <1>5

(* The total of weights is a number.                                       *)
LEMMA TotalTyped ==
  ASSUME NEW S, NEW weight \in [S -> Nat], NEW q \in Seq(S)
  PROVE  Total(weight, q) \in Nat
  BY TotalWeights, SumBound DEF Total

(* The total of a concatenation is the sum of the totals.                  *)
LEMMA TotalConcat ==
  ASSUME NEW S, NEW weight \in [S -> Nat], NEW u \in Seq(S), NEW v \in Seq(S)
  PROVE  Total(weight, u \o v) = Total(weight, u) + Total(weight, v)
<1> DEFINE c == u \o v
           U == [i \in DOMAIN u |-> weight[u[i]]]
           V == [i \in DOMAIN v |-> weight[v[i]]]
           W == [i \in DOMAIN c |-> weight[c[i]]]
<1>1. PICK M \in Nat, N \in Nat : M = Len(u) /\ N = Len(v)
  OBVIOUS
<1>2. /\ c \in Seq(S) /\ Len(c) = M + N
      /\ \A i \in 1 .. M : c[i] = u[i]
      /\ \A i \in 1 .. N : c[M + i] = v[i]
  BY <1>1, ConcatAt
<1> HIDE DEF c
<1>3. U \in Seq(Nat) /\ Len(U) = M /\ \A i \in 1 .. M : U[i] = weight[u[i]]
  BY <1>1, TotalWeights
<1>4. V \in Seq(Nat) /\ Len(V) = N /\ \A i \in 1 .. N : V[i] = weight[v[i]]
  BY <1>1, TotalWeights
<1>5. W \in Seq(Nat) /\ Len(W) = M + N /\ \A i \in 1 .. M + N : W[i] = weight[c[i]]
  BY <1>1, <1>2, TotalWeights
<1> HIDE DEF U, V, W
<1>6. W = U \o V
  <2>1. ASSUME NEW i \in 1 .. M PROVE W[i] = U[i]
    <3>1. i \in 1 .. M + N
      OBVIOUS
    <3>2. W[i] = weight[c[i]] /\ c[i] = u[i] /\ U[i] = weight[u[i]]
      BY <1>2, <1>3, <1>5, <3>1
    <3> QED
      BY <3>2
  <2>2. ASSUME NEW i \in 1 .. N PROVE W[M + i] = V[i]
    <3>1. M + i \in 1 .. M + N
      OBVIOUS
    <3>2. W[M + i] = weight[c[M + i]] /\ c[M + i] = v[i] /\ V[i] = weight[v[i]]
      BY <1>2, <1>4, <1>5, <3>1
    <3> QED
      BY <3>2
  <2>3. W \in Seq(Nat) /\ U \in Seq(Nat) /\ V \in Seq(Nat)
        /\ M = Len(U) /\ N = Len(V) /\ Len(W) = M + N
    BY <1>3, <1>4, <1>5
  <2>4. Joined(Nat, U, V, W)
    BY <2>1, <2>2, <2>3 DEF Joined
  <2> QED
    BY <2>4, ConcatKnown
<1>7. SumOf(W) = SumOf(U) + SumOf(V)
  BY <1>3, <1>4, <1>6, SumConcat
<1> QED
  BY <1>7 DEF Total, U, V, W, c

(* The total of nothing is 0, and of one element its weight.               *)
LEMMA TotalSingle ==
  ASSUME NEW S, NEW weight \in [S -> Nat], NEW x \in S
  PROVE  Total(weight, <<>>) = 0 /\ Total(weight, <<x>>) = weight[x]
<1>1. [i \in DOMAIN <<>> |-> weight[<<>>[i]]] = <<>>
  OBVIOUS
<1>2. [i \in DOMAIN <<x>> |-> weight[<<x>>[i]]] = <<weight[x]>>
  <2> DEFINE w == [i \in DOMAIN <<x>> |-> weight[<<x>>[i]]]
  <2>1. <<x>> \in Seq(S) /\ Len(<<x>>) = 1 /\ <<x>>[1] = x /\ DOMAIN <<x>> = 1 .. 1
    OBVIOUS
  <2>2. w \in Seq(Nat) /\ Len(w) = 1 /\ w[1] = weight[x]
    BY <2>1, TotalWeights
  <2> HIDE DEF w
  <2>3. <<weight[x]>> \in Seq(Nat) /\ Len(<<weight[x]>>) = 1 /\ <<weight[x]>>[1] = weight[x]
    OBVIOUS
  <2>4. w = <<weight[x]>>
    BY <2>2, <2>3, SeqEqual
  <2> QED
    BY <2>4 DEF w
<1> QED
  BY <1>1, <1>2, SumSingle DEF Total

(* An appended element adds its weight.                                    *)
LEMMA TotalAppend ==
  ASSUME NEW S, NEW weight \in [S -> Nat], NEW q \in Seq(S), NEW x \in S
  PROVE  Total(weight, Append(q, x)) = Total(weight, q) + weight[x]
<1>1. Append(q, x) = q \o <<x>> /\ <<x>> \in Seq(S)
  OBVIOUS
<1>2. Total(weight, q \o <<x>>) = Total(weight, q) + Total(weight, <<x>>)
  BY <1>1, TotalConcat
<1> QED
  BY <1>1, <1>2, TotalSingle

(* A sequence cut at d, and its second part at r. *)
LEMMA TotalCut ==
  ASSUME NEW S, NEW weight \in [S -> Nat], NEW q \in Seq(S), NEW d \in 0 .. Len(q)
  PROVE  /\ Total(weight, q)
              = Total(weight, SubSeq(q, 1, d)) + Total(weight, SubSeq(q, d + 1, Len(q)))
         /\ \A r \in 0 .. Len(q) - d :
              Total(weight, SubSeq(q, 1, d + r))
                = Total(weight, SubSeq(q, 1, d))
                    + Total(weight, SubSeq(SubSeq(q, d + 1, Len(q)), 1, r))
<1>1. PICK N \in Nat : N = Len(q)
  OBVIOUS
<1>2. ASSUME NEW r \in 0 .. N - d
      PROVE  SubSeq(q, 1, d + r) = SubSeq(q, 1, d) \o SubSeq(SubSeq(q, d + 1, N), 1, r)
  <2> DEFINE v == SubSeq(q, d + 1, N)
  <2>0. d \in 0 .. N /\ N = Len(q)
    BY <1>1
  <2>1. v \in Seq(S) /\ Len(v) = N - d /\ \A i \in 1 .. N - d : v[i] = q[d + i]
    BY <2>0
  <2> HIDE DEF v
  <2> DEFINE a == SubSeq(q, 1, d)
             b == SubSeq(v, 1, r)
             c == SubSeq(q, 1, d + r)
  <2>2. a \in Seq(S) /\ Len(a) = d /\ \A i \in 1 .. d : a[i] = q[i]
    BY <1>1
  <2>3. b \in Seq(S) /\ Len(b) = r /\ \A i \in 1 .. r : b[i] = v[i]
    BY <2>1
  <2>4. c \in Seq(S) /\ Len(c) = d + r /\ \A i \in 1 .. d + r : c[i] = q[i]
    BY <1>1
  <2> HIDE DEF a, b, c
  <2>5. ASSUME NEW i \in 1 .. d PROVE c[i] = a[i]
    <3>1. i \in 1 .. d + r
      OBVIOUS
    <3> QED
      BY <2>2, <2>4, <3>1
  <2>6. ASSUME NEW i \in 1 .. r PROVE c[d + i] = b[i]
    <3>1. d + i \in 1 .. d + r /\ i \in 1 .. N - d
      BY <1>1
    <3> QED
      BY <2>1, <2>3, <2>4, <3>1
  <2>7. d \in Nat /\ r \in Nat
    BY <1>1
  <2>8. d = Len(a) /\ r = Len(b) /\ a \in Seq(S) /\ b \in Seq(S) /\ c \in Seq(S)
        /\ Len(c) = d + r
    BY <2>2, <2>3, <2>4
  <2>9. c = a \o b
    <3>1. Joined(S, a, b, c)
      BY <2>5, <2>6, <2>7, <2>8 DEF Joined
    <3> QED
      BY <3>1, ConcatKnown
  <2> QED
    BY <2>9 DEF a, b, c, v
<1>3. /\ SubSeq(q, 1, d) \in Seq(S) /\ SubSeq(q, d + 1, N) \in Seq(S)
      /\ Len(SubSeq(q, d + 1, N)) = N - d
      /\ \A r \in 0 .. N - d : SubSeq(SubSeq(q, d + 1, N), 1, r) \in Seq(S)
  BY <1>1
<1>4. ASSUME NEW r \in 0 .. N - d
      PROVE  Total(weight, SubSeq(q, 1, d + r))
               = Total(weight, SubSeq(q, 1, d)) + Total(weight, SubSeq(SubSeq(q, d + 1, N), 1, r))
  <2> DEFINE a == SubSeq(q, 1, d)
             b == SubSeq(SubSeq(q, d + 1, N), 1, r)
  <2>1. SubSeq(q, 1, d + r) = a \o b
    BY <1>2
  <2>2. a \in Seq(S) /\ b \in Seq(S)
    BY <1>3
  <2> HIDE DEF a, b
  <2>3. Total(weight, a \o b) = Total(weight, a) + Total(weight, b)
    BY <2>2, TotalConcat
  <2> QED
    BY <2>1, <2>3 DEF a, b
<1>5. SubSeq(q, 1, N) = q /\ SubSeq(SubSeq(q, d + 1, N), 1, N - d) = SubSeq(q, d + 1, N)
  BY <1>1, <1>3, SubSeqFull
<1>6. N - d \in 0 .. N - d /\ d + (N - d) = N
  BY <1>1
<1> QED
  BY <1>1, <1>4, <1>5, <1>6

(* Longer prefixes weigh more. *)
LEMMA TotalGrows ==
  ASSUME NEW S, NEW weight \in [S -> Nat], NEW q \in Seq(S),
         NEW a \in 0 .. Len(q), NEW b \in a .. Len(q)
  PROVE  /\ Total(weight, SubSeq(q, 1, a)) <= Total(weight, SubSeq(q, 1, b))
         /\ (a < b /\ weight[q[b]] # 0)
              => Total(weight, SubSeq(q, 1, a)) < Total(weight, SubSeq(q, 1, b))
<1>1. PICK N \in Nat : N = Len(q)
  OBVIOUS
<1>2. ASSUME NEW c \in 0 .. N, NEW e \in c .. N
      PROVE  Total(weight, SubSeq(q, 1, c)) <= Total(weight, SubSeq(q, 1, e))
  <2>1. e - c \in 0 .. N - c /\ c + (e - c) = e
    BY <1>1
  <2>2. SubSeq(SubSeq(q, c + 1, N), 1, e - c) \in Seq(S) /\ SubSeq(q, 1, c) \in Seq(S)
    BY <1>1, <2>1
  <2>3. Total(weight, SubSeq(q, 1, c)) \in Nat
        /\ Total(weight, SubSeq(SubSeq(q, c + 1, N), 1, e - c)) \in Nat
    BY <2>2, TotalTyped
  <2>4. Total(weight, SubSeq(q, 1, e))
          = Total(weight, SubSeq(q, 1, c)) + Total(weight, SubSeq(SubSeq(q, c + 1, N), 1, e - c))
    BY <1>1, <2>1, TotalCut
  <2> QED
    BY <2>3, <2>4
<1>3. ASSUME a < b, weight[q[b]] # 0
      PROVE  Total(weight, SubSeq(q, 1, a)) < Total(weight, SubSeq(q, 1, b))
  <2>1. b - 1 \in a .. N /\ b \in 1 .. N /\ b - 1 \in 0 .. N
    BY <1>1, <1>3
  <2>2. Total(weight, SubSeq(q, 1, a)) <= Total(weight, SubSeq(q, 1, b - 1))
    BY <1>1, <1>2, <2>1
  <2>3. SubSeq(q, 1, b) = Append(SubSeq(q, 1, b - 1), q[b])
    BY <1>1, <2>1
  <2>4. SubSeq(q, 1, b - 1) \in Seq(S) /\ SubSeq(q, 1, a) \in Seq(S) /\ q[b] \in S
    BY <1>1, <2>1
  <2>5. Total(weight, SubSeq(q, 1, b)) = Total(weight, SubSeq(q, 1, b - 1)) + weight[q[b]]
    BY <2>3, <2>4, TotalAppend
  <2>6. Total(weight, SubSeq(q, 1, b - 1)) \in Nat /\ Total(weight, SubSeq(q, 1, a)) \in Nat
        /\ weight[q[b]] \in Nat
    BY <2>4, TotalTyped
  <2> QED
    BY <1>3, <2>2, <2>5, <2>6
<1> QED
  BY <1>1, <1>2, <1>3

-----------------------------------------------------------------------------
(* Sequences of sequences.                                                 *)

(* A sequence without a length is empty.                                   *)
LEMMA NoLength ==
  ASSUME NEW S, NEW s \in Seq(S), Len(s) = 0
  PROVE  s = <<>>
  BY EmptySeq

(* What FlattenSeq's recursive definition means.                           *)
LEMMA FlatDefined ==
  ASSUME NEW T, NEW s \in Seq(Seq(T)), NEW N \in Nat \ {0}, N = Len(s)
  PROVE  \E f : f = [i \in 1 .. N |-> IF i = 1 THEN s[i] ELSE f[i - 1] \o s[i]]
<1> DEFINE g == [n \in 1 .. N |-> [x \in Seq(T) |-> IF n = 1 THEN s[n] ELSE x \o s[n]]]
<1>0. \A n \in 1 .. N : s[n] \in Seq(T)
  OBVIOUS
<1>1. g \in [1 .. N -> [Seq(T) -> Seq(T)]]
  <2>1. ASSUME NEW n \in 1 .. N, NEW x \in Seq(T)
        PROVE  (IF n = 1 THEN s[n] ELSE x \o s[n]) \in Seq(T)
    <3>1. s[n] \in Seq(T)
      BY <1>0
    <3> QED
      BY <3>1
  <2> QED
    BY <2>1
<1>2. \A n \in 1 .. N : \A x \in Seq(T) : g[n][x] = IF n = 1 THEN s[n] ELSE x \o s[n]
  OBVIOUS
<1> HIDE DEF g
<1>3. PICK h \in [0 .. N -> Seq(T)] : h[0] = <<>> /\ \A n \in 1 .. N : h[n] = g[n][h[n - 1]]
  <2>1. <<>> \in Seq(T) /\ N \in Nat
    OBVIOUS
  <2>2. Recursive(N, Seq(T), <<>>, g) # {}
    BY <1>1, <2>1, Recursion
  <2> QED
    BY <2>2 DEF Recursive
<1> DEFINE f == [i \in 1 .. N |-> h[i]]
<1>4. \A n \in 1 .. N : h[n] = IF n = 1 THEN s[n] ELSE h[n - 1] \o s[n]
  <2> TAKE n \in 1 .. N
  <2>1. n - 1 \in 0 .. N
    OBVIOUS
  <2>2. h[n - 1] \in Seq(T)
    BY <1>3, <2>1
  <2>3. h[n] = g[n][h[n - 1]]
    BY <1>3
  <2> QED
    BY <1>2, <2>2, <2>3
<1>5. f = [i \in 1 .. N |-> IF i = 1 THEN s[i] ELSE f[i - 1] \o s[i]]
  <2>1. ASSUME NEW i \in 1 .. N, i # 1 PROVE f[i - 1] = h[i - 1]
    <3>1. i - 1 \in 1 .. N
      BY <2>1
    <3> QED
      BY <3>1
  <2>2. ASSUME NEW i \in 1 .. N PROVE h[i] = IF i = 1 THEN s[i] ELSE f[i - 1] \o s[i]
    <3>1. CASE i = 1
      BY <1>4, <3>1
    <3>2. CASE i # 1
      <4>1. h[i] = h[i - 1] \o s[i]
        BY <1>4, <3>2
      <4>2. f[i - 1] = h[i - 1]
        BY <2>1, <3>2
      <4> HIDE DEF f
      <4> QED
        BY <4>1, <4>2, <3>2
    <3> QED
      BY <3>1, <3>2
  <2> QED
    BY <2>2
<1> QED
  BY <1>5

(* The functions that flatten s step by step.                              *)
Flattening(T, s, N) ==
  {f \in [0 .. N -> Seq(T)] :
     /\ f[0] = <<>>
     /\ \A n \in 1 .. N : f[n] = f[n - 1] \o s[n]
     /\ FlattenSeq(s) = f[N]}

(* A flattening is reached step by step.                                   *)
LEMMA FlatSteps ==
  ASSUME NEW T, NEW s \in Seq(Seq(T)), NEW N \in Nat, N = Len(s)
  PROVE  Flattening(T, s, N) # {}
<1>0. \A n \in 1 .. N : s[n] \in Seq(T)
  OBVIOUS
<1>1. CASE N = 0
  <2> DEFINE f == [i \in 0 .. 0 |-> <<>>]
  <2>1. s = <<>> /\ 1 .. N = {}
    <3>1. s = <<>>
      BY <1>1, NoLength, Zenon
    <3> QED
      BY <1>1, <3>1
  <2>2. FlattenSeq(s) = <<>>
    BY <2>1, <1>1 DEF FlattenSeq
  <2>3. f \in [0 .. N -> Seq(T)] /\ f[0] = <<>> /\ f[N] = <<>>
    BY <1>1
  <2> QED
    BY <2>1, <2>2, <2>3 DEF Flattening
<1>2. CASE N # 0
  <2> DEFINE flat == CHOOSE f : f = [i \in 1 .. N |-> IF i = 1 THEN s[i] ELSE f[i - 1] \o s[i]]
  <2>1. flat = [i \in 1 .. N |-> IF i = 1 THEN s[i] ELSE flat[i - 1] \o s[i]]
    <3>1. N \in Nat \ {0}
      BY <1>2
    <3>2. \E f : f = [i \in 1 .. N |-> IF i = 1 THEN s[i] ELSE f[i - 1] \o s[i]]
      BY <3>1, FlatDefined
    <3> QED
      BY <3>2
  <2>2. FlattenSeq(s) = flat[N]
    BY <1>2 DEF FlattenSeq
  <2> HIDE DEF flat
  <2>3. flat[1] = s[1]
    <3>1. 1 \in 1 .. N
      BY <1>2
    <3> QED
      BY <2>1, <3>1
  <2>4. ASSUME NEW n \in 1 .. N, n # 1 PROVE flat[n] = flat[n - 1] \o s[n]
    BY <2>1, <2>4
  <2> DEFINE Good == {n \in 0 .. N : n # 0 => flat[n] \in Seq(T)}
  <2>5. 0 \in Good
    OBVIOUS
  <2>6. ASSUME NEW n \in 0 .. N - 1, n \in Good PROVE n + 1 \in Good
    <3>1. n + 1 \in 1 .. N /\ n + 1 \in 0 .. N /\ (n + 1) - 1 = n /\ s[n + 1] \in Seq(T)
      BY <1>0
    <3>2. CASE n = 0
      <4>1. flat[n + 1] \in Seq(T)
        BY <2>3, <3>1, <3>2
      <4> QED
        BY <3>1, <4>1
    <3>3. CASE n # 0
      <4>1. flat[n] \in Seq(T)
        BY <2>6, <3>3
      <4>2. flat[n + 1] = flat[n] \o s[n + 1]
        <5>1. n + 1 # 1
          BY <3>3
        <5>2. flat[n + 1] = flat[(n + 1) - 1] \o s[n + 1]
          BY <2>4, <3>1, <5>1
        <5> QED
          BY <3>1, <5>2
      <4>3. flat[n] \o s[n + 1] \in Seq(T)
        BY <3>1, <4>1, ConcatProperties
      <4> QED
        BY <3>1, <4>2, <4>3
    <3> QED
      BY <3>2, <3>3
  <2>7. \A n \in 1 .. N : flat[n] \in Seq(T)
    <3> HIDE DEF Good
    <3>1. \A n \in 0 .. N - 1 : n \in Good => n + 1 \in Good
      BY <2>6
    <3>2. 0 .. N \subseteq Good
      BY <2>5, <3>1, SetInduction
    <3> USE DEF Good
    <3> QED
      BY <3>2
  <2> DEFINE f == [i \in 0 .. N |-> IF i = 0 THEN <<>> ELSE flat[i]]
  <2>8. \A i \in 0 .. N : (IF i = 0 THEN <<>> ELSE flat[i]) \in Seq(T)
    <3> HIDE DEF Good
    <3> TAKE i \in 0 .. N
    <3>1. i # 0 => i \in 1 .. N
      OBVIOUS
    <3> QED
      BY <2>7, <3>1
  <2>9. f \in [0 .. N -> Seq(T)] /\ f[0] = <<>> /\ f[N] = flat[N]
        /\ \A i \in 1 .. N : f[i] = flat[i]
    BY <1>2, <2>8
  <2> HIDE DEF f, Good
  <2>10. ASSUME NEW n \in 1 .. N PROVE f[n] = f[n - 1] \o s[n]
    <3>1. CASE n = 1
      <4>1. <<>> \o s[1] = s[1]
        BY <1>0, <3>1, ConcatEmptySeq
      <4>2. f[n - 1] = <<>> /\ f[n] = s[1]
        BY <2>3, <2>9, <3>1
      <4> QED
        BY <3>1, <4>1, <4>2
    <3>2. CASE n # 1
      <4>1. n - 1 \in 1 .. N
        BY <3>2
      <4>2. f[n] = flat[n] /\ f[n - 1] = flat[n - 1]
        BY <2>9, <4>1
      <4>3. flat[n] = flat[n - 1] \o s[n]
        BY <2>4, <3>2
      <4> QED
        BY <4>2, <4>3
    <3> QED
      BY <3>1, <3>2
  <2> QED
    BY <2>2, <2>9, <2>10 DEF Flattening
<1> QED
  BY <1>1, <1>2

(* Nothing flattens to nothing.                                            *)
LEMMA FlatNothing == FlattenSeq(<<>>) = <<>>
  BY DEF FlattenSeq

(* The flattening of a longer sequence goes on where the shorter one ends. *)
LEMMA FlatAppend ==
  ASSUME NEW T, NEW s \in Seq(Seq(T)), NEW x \in Seq(T)
  PROVE  /\ FlattenSeq(s) \in Seq(T)
         /\ FlattenSeq(Append(s, x)) = FlattenSeq(s) \o x
<1>1. PICK N \in Nat : N = Len(s)
  OBVIOUS
<1> DEFINE u == Append(s, x)
<1>2. u \in Seq(Seq(T)) /\ Len(u) = N + 1 /\ u[N + 1] = x /\ \A i \in 1 .. N : u[i] = s[i]
  BY <1>1
<1> HIDE DEF u
<1>3. PICK f \in [0 .. N -> Seq(T)] :
        f[0] = <<>> /\ (\A n \in 1 .. N : f[n] = f[n - 1] \o s[n]) /\ FlattenSeq(s) = f[N]
  <2>1. Flattening(T, s, N) # {}
    BY <1>1, FlatSteps
  <2> QED
    BY <2>1 DEF Flattening
<1>4. PICK g \in [0 .. N + 1 -> Seq(T)] :
        g[0] = <<>> /\ (\A n \in 1 .. N + 1 : g[n] = g[n - 1] \o u[n]) /\ FlattenSeq(u) = g[N + 1]
  <2>1. N + 1 \in Nat
    OBVIOUS
  <2> QED
    <3>1. Flattening(T, u, N + 1) # {}
      BY <1>2, <2>1, FlatSteps
    <3> QED
      BY <3>1 DEF Flattening
<1> DEFINE Good == {n \in 0 .. N : g[n] = f[n]}
<1>5. 0 \in Good
  BY <1>3, <1>4
<1>6. ASSUME NEW n \in 0 .. N - 1, n \in Good PROVE n + 1 \in Good
  <2>1. n + 1 \in 1 .. N /\ n + 1 \in 1 .. N + 1 /\ (n + 1) - 1 = n /\ n + 1 \in 0 .. N
    OBVIOUS
  <2>2. g[n + 1] = g[(n + 1) - 1] \o u[n + 1]
    BY <1>4, <2>1
  <2>3. f[n + 1] = f[(n + 1) - 1] \o s[n + 1]
    BY <1>3, <2>1
  <2>4. u[n + 1] = s[n + 1] /\ g[n] = f[n]
    BY <1>2, <1>6, <2>1
  <2>5. g[n + 1] = f[n + 1]
    BY <2>1, <2>2, <2>3, <2>4
  <2> QED
    BY <2>1, <2>5
<1>7. g[N] = f[N]
  <2> HIDE DEF Good
  <2>1. \A n \in 0 .. N - 1 : n \in Good => n + 1 \in Good
    BY <1>6
  <2>2. 0 .. N \subseteq Good
    BY <1>5, <2>1, SetInduction
  <2>3. N \in 0 .. N
    OBVIOUS
  <2> USE DEF Good
  <2> QED
    BY <2>2, <2>3
<1>8. g[N + 1] = g[N] \o x
  <2>1. N + 1 \in 1 .. N + 1 /\ (N + 1) - 1 = N
    OBVIOUS
  <2>2. g[N + 1] = g[(N + 1) - 1] \o u[N + 1]
    BY <1>4, <2>1
  <2> QED
    BY <1>2, <2>1, <2>2
<1>9. f[N] \in Seq(T)
  OBVIOUS
<1> HIDE DEF Good
<1> QED
  BY <1>3, <1>4, <1>7, <1>8, <1>9 DEF u

(* One element more of v, after u.                                         *)
NextPart(S, u, v, n) ==
  /\ v[n + 1] \in S
  /\ SubSeq(v, 1, n) \in Seq(S) /\ u \o SubSeq(v, 1, n) \in Seq(S)
  /\ SubSeq(v, 1, n + 1) = Append(SubSeq(v, 1, n), v[n + 1])
  /\ u \o Append(SubSeq(v, 1, n), v[n + 1]) = Append(u \o SubSeq(v, 1, n), v[n + 1])

(* The facts that NextPart names.                                          *)
LEMMA OneMore ==
  ASSUME NEW S, NEW u \in Seq(S), NEW v \in Seq(S), NEW n \in 0 .. Len(v) - 1
  PROVE  NextPart(S, u, v, n)
<1>1. PICK N \in Nat : N = Len(v)
  OBVIOUS
<1>2. n \in 0 .. N - 1 /\ n + 1 \in 1 .. N /\ v[n + 1] \in S /\ \A i \in 1 .. n + 1 : v[i] \in S
  BY <1>1
<1> DEFINE a == SubSeq(v, 1, n)
           b == SubSeq(v, 1, n + 1)
<1>3. a \in Seq(S) /\ Len(a) = n /\ \A i \in 1 .. n : a[i] = v[i]
  BY <1>1, <1>2
<1>4. b \in Seq(S) /\ Len(b) = n + 1 /\ \A i \in 1 .. n + 1 : b[i] = v[i]
  BY <1>1, <1>2
<1> HIDE DEF a, b
<1>5. b = Append(a, v[n + 1])
  <2> DEFINE c == Append(a, v[n + 1])
  <2>1. c \in Seq(S) /\ Len(c) = n + 1 /\ c[n + 1] = v[n + 1] /\ \A i \in 1 .. n : c[i] = a[i]
    BY <1>2, <1>3
  <2> HIDE DEF c
  <2>2. ASSUME NEW i \in 1 .. n + 1 PROVE b[i] = c[i]
    <3>1. i = n + 1 \/ i \in 1 .. n
      BY <1>2
    <3> QED
      BY <1>3, <1>4, <2>1, <3>1
  <2>3. b = c
    BY <1>4, <2>1, <2>2, SeqEqual
  <2> QED
    BY <2>3 DEF c
<1>6. u \o a \in Seq(S)
  BY <1>3, ConcatProperties
<1>7. u \o Append(a, v[n + 1]) = Append(u \o a, v[n + 1])
  <2> DEFINE x == v[n + 1]
  <2>1. x \in S /\ <<x>> \in Seq(S)
    BY <1>2
  <2> HIDE DEF x
  <2>2. Append(a, x) = a \o <<x>> /\ Append(u \o a, x) = (u \o a) \o <<x>>
    BY <1>3, <1>6, <2>1, AppendIsConcat
  <2>3. (u \o a) \o <<x>> = u \o (a \o <<x>>)
    BY <1>3, <2>1, ConcatAssociative, SMTT(30)
  <2> QED
    BY <2>2, <2>3 DEF x
<1> QED
  BY <1>2, <1>3, <1>5, <1>6, <1>7 DEF a, b, NextPart

(* The flattening of a concatenation is that of its parts.                 *)
LEMMA FlatConcat ==
  ASSUME NEW T, NEW u \in Seq(Seq(T)), NEW v \in Seq(Seq(T))
  PROVE  FlattenSeq(u \o v) = FlattenSeq(u) \o FlattenSeq(v)
<1> DEFINE S == Seq(T)
<1> HIDE DEF S
<1>0. u \in Seq(S) /\ v \in Seq(S)
  BY DEF S
<1>1. PICK N \in Nat : N = Len(v)
  BY <1>0
<1> DEFINE part(n) == SubSeq(v, 1, n)
           Good == {n \in 0 .. N : FlattenSeq(u \o part(n)) = FlattenSeq(u) \o FlattenSeq(part(n))}
<1>2. FlattenSeq(u) \in S
  BY FlatAppend DEF S
<1>3. part(0) = <<>> /\ part(N) = v
  BY <1>0, <1>1, SubSeqFull
<1>4. 0 \in Good
  <2>1. u \o <<>> = u
    BY <1>0, ConcatEmptySeq
  <2>2. FlattenSeq(u) \o <<>> = FlattenSeq(u)
    BY <1>2, ConcatEmptySeq DEF S
  <2> HIDE DEF part
  <2>3. FlattenSeq(u \o part(0)) = FlattenSeq(u) \o FlattenSeq(part(0))
    BY <1>3, <2>1, <2>2, FlatNothing
  <2> QED
    BY <2>3
<1>5. ASSUME NEW n \in 0 .. N - 1, n \in Good PROVE n + 1 \in Good
  <2> DEFINE x == v[n + 1]
  <2>1. /\ x \in S /\ part(n) \in Seq(S) /\ u \o part(n) \in Seq(S)
        /\ part(n + 1) = Append(part(n), x)
        /\ u \o Append(part(n), x) = Append(u \o part(n), x)
    <3>1. n \in 0 .. Len(v) - 1
      BY <1>1
    <3> HIDE DEF Good
    <3>2. NextPart(S, u, v, n)
      BY <1>0, <3>1, OneMore
    <3> QED
      BY <3>2 DEF NextPart
  <2>2. FlattenSeq(u \o part(n)) = FlattenSeq(u) \o FlattenSeq(part(n))
    BY <1>5
  <2> HIDE DEF part, x
  <2>3. /\ FlattenSeq(part(n)) \in S
        /\ FlattenSeq(Append(part(n), x)) = FlattenSeq(part(n)) \o x
        /\ FlattenSeq(Append(u \o part(n), x)) = FlattenSeq(u \o part(n)) \o x
    BY <2>1, FlatAppend DEF S
  <2>4. (FlattenSeq(u) \o FlattenSeq(part(n))) \o x = FlattenSeq(u) \o (FlattenSeq(part(n)) \o x)
    <3>1. \A a, b, c \in S : (a \o b) \o c = a \o (b \o c)
      BY ConcatAssociative, SMTT(30) DEF S
    <3> QED
      BY <1>2, <2>1, <2>3, <3>1, Zenon
  <2>5. FlattenSeq(u \o part(n + 1)) = FlattenSeq(u) \o FlattenSeq(part(n + 1))
    BY <2>1, <2>2, <2>3, <2>4
  <2> QED
    BY <2>5
<1>6. 0 .. N \subseteq Good
  <2> HIDE DEF Good
  <2>1. \A n \in 0 .. N - 1 : n \in Good => n + 1 \in Good
    BY <1>5
  <2> QED
    BY <1>4, <2>1, SetInduction
<1>7. N \in Good
  BY <1>6
<1> HIDE DEF part
<1> QED
  BY <1>3, <1>7

(* A sequence of one flattens to that one.                                 *)
LEMMA FlatSingle ==
  ASSUME NEW T, NEW x \in Seq(T)
  PROVE  FlattenSeq(<<x>>) = x
<1>1. <<>> \in Seq(Seq(T)) /\ Append(<<>>, x) = <<x>>
  OBVIOUS
<1>2. FlattenSeq(Append(<<>>, x)) = FlattenSeq(<<>>) \o x
  BY <1>1, FlatAppend
<1>3. <<>> \o x = x
  BY ConcatEmptySeq
<1> QED
  BY <1>1, <1>2, <1>3, FlatNothing

(* A sequence of empty ones flattens to nothing.                           *)
LEMMA FlatEmpties ==
  ASSUME NEW T, NEW s \in Seq(Seq(T)), \A i \in 1 .. Len(s) : s[i] = <<>>
  PROVE  FlattenSeq(s) = <<>>
<1>1. PICK N \in Nat : N = Len(s)
  OBVIOUS
<1>2. PICK f \in [0 .. N -> Seq(T)] :
        f[0] = <<>> /\ (\A n \in 1 .. N : f[n] = f[n - 1] \o s[n]) /\ FlattenSeq(s) = f[N]
  <2>1. Flattening(T, s, N) # {}
    BY <1>1, FlatSteps
  <2> QED
    BY <2>1 DEF Flattening
<1> DEFINE Good == {n \in 0 .. N : f[n] = <<>>}
<1>3. 0 \in Good
  BY <1>2
<1>4. ASSUME NEW n \in 0 .. N - 1, n \in Good PROVE n + 1 \in Good
  <2>1. n + 1 \in 1 .. N /\ (n + 1) - 1 = n /\ n + 1 \in 0 .. N
    OBVIOUS
  <2>2. f[n + 1] = f[(n + 1) - 1] \o s[n + 1]
    BY <1>2, <2>1
  <2>3. s[n + 1] = <<>>
    BY <1>1, <2>1
  <2>4. f[n] = <<>>
    BY <1>4
  <2>5. f[n + 1] = <<>> \o <<>>
    BY <2>1, <2>2, <2>3, <2>4
  <2>6. <<>> \o <<>> = <<>>
    OBVIOUS
  <2> QED
    BY <2>1, <2>5, <2>6
<1>5. 0 .. N \subseteq Good
  <2> HIDE DEF Good
  <2>1. \A n \in 0 .. N - 1 : n \in Good => n + 1 \in Good
    BY <1>4
  <2> QED
    BY <1>3, <2>1, SetInduction
<1>6. N \in Good
  BY <1>5
<1> QED
  BY <1>2, <1>6
=============================================================================
