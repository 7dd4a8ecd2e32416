-------------------------- MODULE PageAssetsProof --------------------------
(***************************************************************************)
(* Proofs about PageAssets, for any replicas, builds and deploys, and      *)
(* about Negotiation, for any header.                                      *)
(***************************************************************************)
EXTENDS PageAssets, SumsProof, TLAPS

(* What the browser reuses for ever under a hash has that hash.            *)
KeptIsWhatItsHashSays ==
    \A h \in Scripts :
      scripts[h].policy = "immutable" => scripts[h].bytes = h

(* A calm browser loads from replicas that all serve the target, and what  *)
(* it keeps without asking again is what its hash says.                    *)
IInv ==
    /\ TypeOK
    /\ KeptIsWhatItsHashSays
    /\ calm => Settled
    /\ calm /\ load = "script" => page = target.page
    /\ ReloadMends

(* The page names its script: whichever build has the page has it.         *)
LEMMA ScriptOfPage ==
    ASSUME NEW b \in Builds
    PROVE  ScriptOf(b.page) = b.script /\ b.page \in Pages /\ b.script \in Scripts
PROOF
  <1>1. b.page \in Pages /\ b.script \in Scripts
    BY DEF Pages, Scripts
  <1>2. (CHOOSE c \in Builds : c.page = b.page) \in Builds
        /\ (CHOOSE c \in Builds : c.page = b.page).page = b.page
    OBVIOUS
  <1> QED
    BY <1>1, <1>2, BuildsTyped DEF ScriptOf

(* Every page has a script.                                                *)
LEMMA ScriptOfAnyPage ==
    ASSUME NEW p \in Pages
    PROVE  ScriptOf(p) \in Scripts
PROOF
  <1>1. PICK b \in Builds : b.page = p
    BY DEF Pages
  <1> QED
    BY <1>1, ScriptOfPage

(* The invariant holds at the start.                                       *)
LEMMA InitIInv == Init => IInv
PROOF
  <1> SUFFICES ASSUME Init PROVE IInv
    OBVIOUS
  <1>1. TypeOK
    <2>1. [h \in Scripts |-> NoAnswer]
          \in [Scripts -> [bytes : Scripts \cup {None}, policy : {"immutable", "revalidate"}]]
      BY DEF NoAnswer
    <2>2. deploys \in 0 .. Deploys
      BY DeploysTyped DEF Init
    <2>3. serving \in [Replicas -> Builds]
      BY DEF Init
    <2> QED
      BY <2>1, <2>2, <2>3 DEF Init, TypeOK
  <1>2. KeptIsWhatItsHashSays
    BY DEF Init, KeptIsWhatItsHashSays, NoAnswer
  <1> QED
    BY <1>1, <1>2 DEF Init, IInv, ReloadMends, Nothing

(* The invariant is inductive.                                             *)
LEMMA NextIInv == IInv /\ [Next]_vars => IInv'
PROOF
  <1> SUFFICES ASSUME IInv, [Next]_vars PROVE IInv'
    OBVIOUS
  <1> USE BuildsTyped, DeploysTyped
  <1>1. CASE UNCHANGED vars
    BY <1>1 DEF vars, IInv, TypeOK, KeptIsWhatItsHashSays, ReloadMends, Settled
  <1>2. CASE DeployBegins
    <2>1. deploys' \in 0 .. Deploys
      BY <1>2 DEF DeployBegins, IInv, TypeOK
    <2>2. TypeOK'
      BY <1>2, <2>1 DEF DeployBegins, IInv, TypeOK
    <2> QED
      BY <1>2, <2>2 DEF DeployBegins, IInv, KeptIsWhatItsHashSays, ReloadMends
  <1>3. ASSUME NEW r \in Replicas, ReplicaRestarts(r) PROVE IInv'
    <2>1. TypeOK'
      BY <1>3 DEF ReplicaRestarts, IInv, TypeOK
    <2>2. ~calm
      BY <1>3 DEF ReplicaRestarts, IInv, Settled
    <2> QED
      BY <1>3, <2>1, <2>2 DEF ReplicaRestarts, IInv, KeptIsWhatItsHashSays, ReloadMends
  <1>4. ASSUME NEW r \in Replicas, GetPage(r) PROVE IInv'
    <2>1. serving[r] \in Builds /\ page' = serving[r].page /\ page' \in Pages
      BY <1>4, ScriptOfPage DEF GetPage, NotModified, IInv, TypeOK
    <2>2. TypeOK'
      BY <1>4, <2>1 DEF GetPage, IInv, TypeOK, Settled
    <2>3. calm' => Settled' /\ page' = target'.page
      BY <1>4, <2>1 DEF GetPage, Settled
    <2> QED
      BY <1>4, <2>2, <2>3 DEF GetPage, IInv, KeptIsWhatItsHashSays, ReloadMends
  <1>5. CASE ReuseScript
    <2> DEFINE asked == ScriptOf(page)
    <2>1. page \in Pages /\ asked \in Scripts /\ scripts[asked].policy = "immutable"
      BY <1>5, ScriptOfAnyPage DEF ReuseScript, IInv, TypeOK
    <2>2. shown' = [page |-> page, script |-> asked]
      BY <1>5, <2>1 DEF ReuseScript, Shows, IInv, KeptIsWhatItsHashSays
    <2>3. TypeOK'
      BY <1>5, <2>1, <2>2 DEF ReuseScript, Shows, IInv, TypeOK
    <2>4. calm => asked = target.script
      BY <1>5, ScriptOfPage DEF ReuseScript, IInv, TypeOK
    <2> QED
      BY <1>5, <2>2, <2>3, <2>4
      DEF ReuseScript, Shows, IInv, KeptIsWhatItsHashSays, ReloadMends, Settled
  <1>6. ASSUME NEW r \in Replicas, GetScript(r) PROVE IInv'
    <2> DEFINE asked == ScriptOf(page)
               sent  == serving[r].script
    <2>1. page \in Pages /\ asked \in Scripts /\ serving[r] \in Builds /\ sent \in Scripts
      BY <1>6, ScriptOfAnyPage, ScriptOfPage DEF GetScript, IInv, TypeOK
    <2>2. /\ scripts' = [scripts EXCEPT ![asked] =
                          [bytes |-> sent, policy |-> CacheControl(asked, sent)]]
          /\ shown' = [page |-> page, script |-> sent]
      BY <1>6 DEF GetScript, Shows, NotModified
    <2>3. TypeOK'
      BY <1>6, <2>1, <2>2 DEF GetScript, Shows, IInv, TypeOK, CacheControl
    <2>4. KeptIsWhatItsHashSays'
      BY <2>1, <2>2 DEF IInv, TypeOK, KeptIsWhatItsHashSays, CacheControl
    <2>5. calm => sent = target.script /\ page = target.page
      BY <1>6 DEF GetScript, IInv, Settled
    <2> QED
      BY <1>6, <2>2, <2>3, <2>4, <2>5 DEF GetScript, Shows, IInv, ReloadMends, Settled
  <1> QED
    BY <1>1, <1>2, <1>3, <1>4, <1>5, <1>6 DEF Next

(* So it holds always.                                                     *)
LEMMA SpecIInv == Spec => []IInv
PROOF BY InitIInv, NextIInv, PTL DEF Spec

(* Every variable keeps its type.                                          *)
THEOREM PageAssetsTyped == Spec => []TypeOK
PROOF
  <1>1. IInv => TypeOK
    BY DEF IInv
  <1> QED
    BY SpecIInv, <1>1, PTL

(* A load with no deploy under way runs the current page and its script.   *)
THEOREM DeploysHeal == Spec => []ReloadMends
PROOF
  <1>1. IInv => ReloadMends
    BY DEF IInv
  <1> QED
    BY SpecIInv, <1>1, PTL

-----------------------------------------------------------------------------
(* Negotiation, for headers of any length.                                 *)

(* The entries that match a representation.                                *)
Matching(h, r) == {i \in DOMAIN h : r \in Matched(h[i].range)}

(* An entry better than any other that matches.                            *)
Best(h, r, k) == k \in Matching(h, r) /\ \A j \in Matching(h, r) \ {k} : BetterMatch(h, k, j)

(* What a header is.                                                       *)
LEMMA HeaderTyped ==
    ASSUME NEW h \in Headers \ {<<>>}
    PROVE  \E N \in Nat \ {0} :
              /\ DOMAIN h = 1 .. N
              /\ \A i \in 1 .. N : h[i].range \in Ranges /\ h[i].quality \in Nat
PROOF
  <1>1. PICK N \in 0 .. Entries : h \in [1 .. N -> [range : Ranges, quality : Qualities]]
    BY DEF Headers, SeqOf
  <1>2. N \in Nat
    BY NegotiationTyped
  <1>3. N # 0
    <2> SUFFICES ASSUME N = 0 PROVE FALSE
      OBVIOUS
    <2>1. h = <<>>
      <3>1. 1 .. N = {}
        OBVIOUS
      <3> QED
        BY <1>1, <3>1
    <2> QED
      BY <2>1
  <1>4. ASSUME NEW i \in 1 .. N PROVE h[i].range \in Ranges /\ h[i].quality \in Nat
    <2>1. h[i] \in [range : Ranges, quality : Qualities]
      BY <1>1
    <2>2. h[i].range \in Ranges /\ h[i].quality \in Qualities
      BY <2>1
    <2>3. \A q \in Qualities : q \in Nat
      <3>1. \A q \in Qualities : q \in 0 .. 10
        BY NegotiationTyped
      <3>2. \A q \in 0 .. 10 : q \in Nat
        OBVIOUS
      <3> QED
        BY <3>1, <3>2
    <2> QED
      BY <2>2, <2>3
  <1> QED
    BY <1>1, <1>2, <1>3, <1>4

(* A specificity is one of three.                                          *)
LEMMA SpecificityTyped ==
    \A range \in Ranges : Specificity(range) \in 0 .. 2
PROOF
  BY DEF Specificity

(* If any matches, there is a best: of the most specific the first.        *)
LEMMA SomeBest ==
    ASSUME NEW h \in Headers \ {<<>>}, NEW r, NEW m \in Matching(h, r)
    PROVE  \E k : Best(h, r, k)
PROOF
  <1>1. PICK N \in Nat \ {0} : /\ DOMAIN h = 1 .. N
                               /\ \A i \in 1 .. N : h[i].range \in Ranges
    BY HeaderTyped
  <1> DEFINE M == Matching(h, r)
             R(i) == Specificity(h[i].range)
  <1>2. M \subseteq 1 .. N /\ \A i \in M : R(i) \in 0 .. 2
    BY <1>1, SpecificityTyped DEF Matching
  <1> DEFINE T == {R(i) : i \in M}
  <1>3. T \in SUBSET (0 .. 2) /\ R(m) \in T
    BY <1>2
  <1> HIDE DEF M, R
  <1>4. PICK s \in T : \A y \in T : y <= s
    <2> HIDE DEF T
    <2>1. 2 \in Nat
      OBVIOUS
    <2> QED
      BY <1>3, <2>1, NatGreatest
  <1>5. \A i \in M : R(i) <= s
    BY <1>4
  <1> DEFINE C == {i \in M : R(i) = s}
  <1>6. PICK n : n \in C
    BY <1>4
  <1>7. C \in SUBSET Nat
    BY <1>2
  <1>8. PICK k \in C : \A y \in C : k <= y
    <2> HIDE DEF C
    <2> QED
      BY <1>6, <1>7, NatLeast
  <1>9. ASSUME NEW j \in M \ {k} PROVE BetterMatch(h, k, j)
    <2>1. R(k) = s /\ R(j) <= s /\ R(j) \in Nat /\ s \in Nat /\ k \in Nat /\ j \in Nat /\ k # j
      BY <1>2, <1>5, <1>8
    <2>2. R(j) = s => k <= j
      BY <1>8
    <2>3. R(k) > R(j) \/ (R(k) = R(j) /\ k < j)
      BY <2>1, <2>2
    <2> QED
      BY <2>3 DEF BetterMatch, R
  <1> QED
    BY <1>8, <1>9 DEF Best, M

(* It is the one that decides, and what the header asks.                   *)
LEMMA BestDecides ==
    ASSUME NEW h \in Headers \ {<<>>}, NEW r, NEW k, Best(h, r, k)
    PROVE  Deciding(h, r) = k /\ Asked(h, r) = h[k].quality
PROOF
  <1>1. PICK N \in Nat \ {0} : /\ DOMAIN h = 1 .. N
                               /\ \A i \in 1 .. N : h[i].range \in Ranges
    BY HeaderTyped
  <1> DEFINE M == Matching(h, r)
             R(i) == Specificity(h[i].range)
  <1>2. M \subseteq 1 .. N /\ \A i \in M : R(i) \in 0 .. 2
    BY <1>1, SpecificityTyped DEF Matching
  <1>3. k \in M /\ \A j \in M \ {k} : R(k) > R(j) \/ (R(k) = R(j) /\ k < j)
    BY DEF Best, BetterMatch
  <1>4. Deciding(h, r) = k
    <2> DEFINE best == {i \in M : \A j \in M \ {i} : BetterMatch(h, i, j)}
    <2>1. Deciding(h, r) = IF best = {} THEN 0 ELSE Min(best)
      BY DEF Deciding, Matching
    <2>2. k \in best
      BY DEF Best
    <2>3. ASSUME NEW i \in best PROVE i = k
      <3> SUFFICES ASSUME i # k PROVE FALSE
        OBVIOUS
      <3>1. BetterMatch(h, i, k) /\ BetterMatch(h, k, i)
        BY <2>2
      <3>2. /\ R(i) > R(k) \/ (R(i) = R(k) /\ i < k)
            /\ R(k) > R(i) \/ (R(k) = R(i) /\ k < i)
        BY <3>1 DEF BetterMatch
      <3>3. R(i) \in Nat /\ R(k) \in Nat /\ i \in Nat /\ k \in Nat
        BY <1>2, <1>3
      <3> HIDE DEF R
      <3> QED
        BY <3>2, <3>3
    <2>4. best = {k}
      <3> HIDE DEF best
      <3> QED
        BY <2>2, <2>3
    <2>5. Min({k}) = k
      <3>1. k <= k
        BY <1>2, <1>3
      <3> QED
        BY <3>1 DEF Min
    <2> HIDE DEF best
    <2> QED
      BY <2>1, <2>4, <2>5
  <1>5. Asked(h, r) = h[k].quality
    <2> DEFINE InClass(s) == {i \in M : R(i) = s}
               classes == {s \in 0 .. 2 : InClass(s) # {}}
    <2>1. Asked(h, r) = IF classes = {} THEN 0 ELSE h[Min(InClass(Max(classes)))].quality
      <3>1. \A s : InClass(s) = {i \in DOMAIN h : /\ r \in Matched(h[i].range)
                                                   /\ Specificity(h[i].range) = s}
        BY DEF Matching
      <3> QED
        BY <3>1 DEF Asked
    <2> HIDE DEF M, R
    <2>2. R(k) \in classes /\ \A s \in classes : s <= R(k)
      <3>1. R(k) \in 0 .. 2 /\ k \in InClass(R(k))
        BY <1>2, <1>3
      <3>2. ASSUME NEW s \in classes PROVE s <= R(k)
        <4>1. PICK i \in M : R(i) = s
          OBVIOUS
        <4>2. CASE i = k
          BY <1>2, <4>1, <4>2
        <4>3. CASE i # k
          <5>1. R(k) \in Nat /\ R(i) \in Nat
            BY <1>2, <1>3
          <5> QED
            BY <1>3, <4>1, <4>3, <5>1
        <4> QED
          BY <4>2, <4>3
      <3> QED
        BY <3>1, <3>2
    <2>3. Max(classes) = R(k)
      <3>1. \A s \in classes : s \in Nat
        OBVIOUS
      <3> HIDE DEF classes
      <3>2. \A x \in classes : (\A y \in classes : x >= y) <=> x = R(k)
        BY <2>2, <3>1
      <3>3. \A y \in classes : R(k) >= y
        BY <2>2, <3>2
      <3> QED
        BY <2>2, <3>2, <3>3 DEF Max
    <2>4. Min(InClass(R(k))) = k
      <3> DEFINE C == InClass(R(k))
      <3>1. k \in C /\ \A i \in C : i \in Nat /\ k <= i
        <4>1. k \in C /\ k \in Nat
          BY <1>2, <1>3
        <4>2. ASSUME NEW i \in C PROVE i \in Nat /\ k <= i
          <5>1. i \in M /\ i \in Nat /\ R(i) = R(k) /\ R(k) \in Nat
            BY <1>2, <1>3
          <5> QED
            BY <1>3, <4>1, <5>1
        <4> QED
          BY <4>1, <4>2
      <3> HIDE DEF C
      <3>2. \A x \in C : (\A y \in C : x <= y) <=> x = k
        BY <3>1
      <3>3. \A y \in C : k <= y
        BY <3>1
      <3>4. Min(C) = k
        BY <3>1, <3>2, <3>3 DEF Min
      <3> QED
        BY <3>4 DEF C
    <2> HIDE DEF classes, InClass
    <2> QED
      BY <2>1, <2>2, <2>3, <2>4
  <1> QED
    BY <1>4, <1>5

(* Of a representation the header says nothing of.                         *)
LEMMA NothingDecides ==
    ASSUME NEW h, NEW r, Matching(h, r) = {}
    PROVE  Deciding(h, r) = 0 /\ Asked(h, r) = 0
PROOF
  <1>1. Deciding(h, r) = 0
    BY DEF Deciding, Matching
  <1>2. Asked(h, r) = 0
    BY DEF Asked, Matching
  <1> QED
    BY <1>1, <1>2

(* Either way the decision has the quality asked for.                      *)
LEMMA Decided ==
    ASSUME NEW h \in Headers \ {<<>>}, NEW r
    PROVE  /\ Asked(h, r) \in Nat
           /\ IF Deciding(h, r) = 0
                THEN Asked(h, r) = 0
                ELSE Deciding(h, r) \in Nat /\ Asked(h, r) = h[Deciding(h, r)].quality
PROOF
  <1>1. CASE Matching(h, r) = {}
    BY <1>1, NothingDecides
  <1>2. CASE Matching(h, r) # {}
    <2>1. PICK k : Best(h, r, k)
      BY <1>2, SomeBest
    <2>2. PICK N \in Nat \ {0} : /\ DOMAIN h = 1 .. N
                                 /\ \A i \in 1 .. N : h[i].quality \in Nat
      BY HeaderTyped
    <2>3. k \in 1 .. N
      BY <2>1, <2>2 DEF Best, Matching
    <2>4. k \in Nat /\ k # 0 /\ h[k].quality \in Nat
      BY <2>2, <2>3
    <2> QED
      BY <2>1, <2>4, BestDecides
  <1> QED
    BY <1>1, <1>2

(* The larger of two numbers.                                              *)
LEMMA MaxOfTwo ==
    ASSUME NEW x \in Nat, NEW y \in Nat
    PROVE  Max({x, y}) = IF x >= y THEN x ELSE y
PROOF
  <1> DEFINE m == IF x >= y THEN x ELSE y
             T == {x, y}
  <1>1. m \in T /\ \A z \in T : z \in Nat /\ m >= z
    OBVIOUS
  <1> HIDE DEF m, T
  <1>2. \A w \in T : (\A z \in T : w >= z) <=> w = m
    BY <1>1
  <1>3. Max(T) = m
    BY <1>1, <1>2 DEF Max
  <1> QED
    BY <1>3 DEF m, T

(* The two representations are told apart by the ranges that name one.     *)
LEMMA VagueForBoth ==
    ASSUME NEW h \in Headers \ {<<>>}, \A i \in DOMAIN h : Cardinality(Matched(h[i].range)) # 1
    PROVE  Deciding(h, "html") = Deciding(h, "markdown") /\ Asked(h, "html") = Asked(h, "markdown")
PROOF
  <1>1. PICK N \in Nat \ {0} : /\ DOMAIN h = 1 .. N
                               /\ \A i \in 1 .. N : h[i].range \in Ranges
    BY HeaderTyped
  <1>2. ASSUME NEW i \in 1 .. N
        PROVE  "html" \in Matched(h[i].range) <=> "markdown" \in Matched(h[i].range)
    <2>1. Matched(h[i].range) \in {{"html"}, {"markdown"}, {}, Representations}
      BY <1>1 DEF Matched
    <2>2. Matched(h[i].range) \notin {{"html"}, {"markdown"}}
      <3>1. Cardinality({"html"}) = 1 /\ Cardinality({"markdown"}) = 1
        BY FS_Singleton
      <3>2. Cardinality(Matched(h[i].range)) # 1
        BY <1>1
      <3> QED
        BY <3>1, <3>2
    <2> QED
      BY <2>1, <2>2 DEF Representations
  <1>3. Matching(h, "html") = Matching(h, "markdown")
    BY <1>1, <1>2 DEF Matching
  <1>4. CASE Matching(h, "html") = {}
    BY <1>3, <1>4, NothingDecides
  <1>5. CASE Matching(h, "html") # {}
    <2>1. PICK k : Best(h, "html", k)
      BY <1>5, SomeBest
    <2>2. Best(h, "markdown", k)
      BY <1>3, <2>1 DEF Best
    <2> QED
      BY <2>1, <2>2, BestDecides
  <1> QED
    BY <1>4, <1>5

(* Whatever the Accept header, a representation of the highest quality     *)
(* asked for is served, none only when both are refused, and HTML where    *)
(* only wildcards speak for either (pages.rs, preferred_representation).   *)
THEOREM NegotiationIsRight == Spec => []ServesWhatWasAsked
PROOF
  <1>1. ServesWhatWasAsked
    <2> SUFFICES ASSUME NEW header \in Headers \ {<<>>}
                 PROVE  LET served  == Preferred(header)
                            Asks(r) == Asked(header, r)
                            vague   == \A i \in DOMAIN header : Cardinality(Matched(header[i].range)) # 1
                        IN  /\ served = "none" <=> \A r \in Representations : Asks(r) = 0
                            /\ served # "none" => Asks(served) = Max({Asks(r) : r \in Representations})
                            /\ vague /\ Asks("html") > 0 => served = "html"
      BY DEF ServesWhatWasAsked
    <2> DEFINE served == Preferred(header)
               vague == \A i \in DOMAIN header : Cardinality(Matched(header[i].range)) # 1
    <2>1. PICK a \in Nat, b \in Nat, x \in Nat, y \in Nat :
             /\ a = Asked(header, "html") /\ b = Asked(header, "markdown")
             /\ x = Deciding(header, "html") /\ y = Deciding(header, "markdown")
             /\ x = 0 => a = 0
             /\ y = 0 => b = 0
             /\ x # 0 => a = header[x].quality
             /\ y # 0 => b = header[y].quality
      <3>1. /\ Deciding(header, "html") \in Nat /\ Deciding(header, "markdown") \in Nat
            /\ Asked(header, "html") \in Nat /\ Asked(header, "markdown") \in Nat
        BY Decided
      <3> QED
        BY <3>1, Decided
    <2>2. served = CASE a > 0 /\ b > 0 -> IF b > a \/ (b = a /\ y < x) THEN "markdown" ELSE "html"
                     [] a > 0 /\ ~(b > 0) -> "html"
                     [] b > 0 /\ ~(a > 0) -> "markdown"
                     [] OTHER -> "none"
      <3>1. (x # 0 /\ header[x].quality > 0) <=> a > 0
        BY <2>1
      <3>2. (y # 0 /\ header[y].quality > 0) <=> b > 0
        BY <2>1
      <3>3. a > 0 /\ b > 0 => header[x].quality = a /\ header[y].quality = b
        BY <2>1
      <3>4. header # <<>>
        OBVIOUS
      <3> QED
        BY <2>1, <3>1, <3>2, <3>3, <3>4 DEF Preferred
    <2> HIDE DEF served
    <2>3. {Asked(header, r) : r \in Representations} = {a, b}
      BY <2>1 DEF Representations
    <2>4. Max({a, b}) = IF a >= b THEN a ELSE b
      BY MaxOfTwo
    <2>5. served = "none" <=> \A r \in Representations : Asked(header, r) = 0
      <3>1. (\A r \in Representations : Asked(header, r) = 0) <=> (a = 0 /\ b = 0)
        BY <2>1 DEF Representations
      <3>2. served = "none" <=> (a = 0 /\ b = 0)
        BY <2>2
      <3> QED
        BY <3>1, <3>2
    <2>6. served # "none" => Asked(header, served) = Max({Asked(header, r) : r \in Representations})
      <3>1. CASE served = "html"
        <4>1. a >= b
          BY <2>2, <3>1
        <4> QED
          BY <2>1, <2>3, <2>4, <3>1, <4>1
      <3>2. CASE served = "markdown"
        <4>1. b >= a
          BY <2>2, <3>2
        <4>2. Max({a, b}) = b
          BY <2>4, <4>1
        <4> QED
          BY <2>1, <2>3, <3>2, <4>2
      <3> QED
        BY <2>2, <3>1, <3>2
    <2>7. vague /\ Asked(header, "html") > 0 => served = "html"
      <3> SUFFICES ASSUME vague, Asked(header, "html") > 0 PROVE served = "html"
        OBVIOUS
      <3>1. x = y /\ a = b /\ a > 0
        BY <2>1, VagueForBoth
      <3> QED
        BY <2>2, <3>1
    <2> QED
      BY <2>5, <2>6, <2>7 DEF served
  <1> QED
    BY <1>1, PTL
=============================================================================
