------------------------------ MODULE ScoreProofs ------------------------------
(***************************************************************************)
(* Proofs about a scored run, for any dump, any sample sets and kits, any  *)
(* gate and cap, and whatever order argsort gives to equal scores.  The    *)
(* first lemmas, on lists in an order, are those of the tile merge.        *)
(*                                                                         *)
(* A figure is the textbook's because its true positives are the first to  *)
(* claim an annotation, and the area under the envelope is what each       *)
(* object is worth.  It falls with the threshold because each true         *)
(* positive at the higher one has one at the lower that stands no later.   *)
(***************************************************************************)
EXTENDS ScoreProperties, SequenceTheorems, FiniteSetTheorems, WellFoundedInduction, TLAPS

-----------------------------------------------------------------------------
(* Orders and lists                                                          *)

\* A set of numbers that is not empty has a least one.
LEMMA LeastNat ==
  ASSUME NEW T \in SUBSET Nat, T # {}
  PROVE  \E x \in T : \A y \in T : x <= y
<1>1. PICK x \in T : \A y \in T : ~ (<<y, x>> \in OpToRel(<, Nat))
  BY WFMin, NatLessThanWellFounded
<1>2. ASSUME NEW y \in T PROVE x <= y
  <2>1. y \in Nat /\ x \in Nat /\ ~ (y < x)
    BY <1>1 DEF OpToRel
  <2> QED
    BY <2>1
<1> QED
  BY <1>2

\* A strict order of the members of S.
Order(S, before) ==
    /\ \A i \in S : <<i, i>> \notin before
    /\ \A i, j, k \in S : <<i, j>> \in before /\ <<j, k>> \in before => <<i, k>> \in before
    /\ \A i, j \in S : i # j => <<i, j>> \in before \/ <<j, i>> \in before

\* Arranged lists each member of a finite set once, in the given order.
LEMMA ArrangedFact ==
  ASSUME NEW S, IsFiniteSet(S), NEW before, Order(S, before)
  PROVE  /\ Cardinality(S) \in Nat
         /\ Arranged(S, before) \in [1 .. Cardinality(S) -> S]
         /\ \A a, b \in 1 .. Cardinality(S) :
               <<Arranged(S, before)[a], Arranged(S, before)[b]>> \in before <=> a < b
         /\ \A i \in S : \E k \in 1 .. Cardinality(S) : Arranged(S, before)[k] = i
<1> DEFINE n == Cardinality(S)
           Above(i) == {j \in S : <<j, i>> \in before}
           rank == [i \in S |-> Cardinality(Above(i)) + 1]
           s == Arranged(S, before)
<1>1. n \in Nat
  BY FS_CardinalityType
<1>2. ASSUME NEW i \in S
      PROVE  IsFiniteSet(Above(i)) /\ Cardinality(Above(i)) \in 0 .. n - 1
  <2>1. Above(i) \in SUBSET S /\ i \notin Above(i)
    BY DEF Order
  <2>2. Above(i) # S
    BY <2>1
  <2> HIDE DEF Above
  <2>3. IsFiniteSet(Above(i)) /\ Cardinality(Above(i)) <= n /\ (n = Cardinality(Above(i)) => S = Above(i))
    BY <2>1, FS_Subset
  <2>4. Cardinality(Above(i)) \in Nat
    BY <2>3, FS_CardinalityType
  <2> QED
    BY <1>1, <2>2, <2>3, <2>4
<1>3. rank \in [S -> 1 .. n] /\ \A i \in S : rank[i] = Cardinality(Above(i)) + 1
  <2> HIDE DEF Above
  <2> QED
    BY <1>1, <1>2
<1>4. ASSUME NEW i \in S, NEW j \in S, <<j, i>> \in before
      PROVE  rank[j] < rank[i]
  <2>1. Above(j) \subseteq Above(i) /\ j \in Above(i) /\ j \notin Above(j)
    BY <1>4 DEF Order
  <2>2. Above(j) # Above(i)
    BY <2>1
  <2> HIDE DEF Above
  <2>3. Cardinality(Above(j)) <= Cardinality(Above(i)) /\ Cardinality(Above(j)) # Cardinality(Above(i))
    BY <1>2, <2>1, <2>2, FS_Subset
  <2> QED
    BY <1>2, <1>3, <2>3
<1> HIDE DEF rank
<1>5. rank \in Injection(S, 1 .. n)
  <2>1. ASSUME NEW i \in S, NEW j \in S, rank[i] = rank[j] PROVE i = j
    <3>1. rank[i] \in 1 .. n /\ rank[j] \in 1 .. n /\ ~(rank[i] < rank[j]) /\ ~(rank[j] < rank[i])
      BY <1>3, <2>1
    <3>2. <<i, j>> \notin before /\ <<j, i>> \notin before
      BY <1>4, <3>1
    <3> QED
      BY <3>2 DEF Order
  <2> QED
    BY <1>3, <2>1 DEF Injection, IsInjective
<1>6. \A k \in 1 .. n : \E i \in S : rank[i] = k
  <2>1. IsFiniteSet(1 .. n) /\ Cardinality(1 .. n) = n
    BY <1>1, FS_Interval
  <2>2. rank \in Surjection(S, 1 .. n)
    BY <1>5, <2>1, FS_Injection
  <2> QED
    BY <2>2 DEF Surjection
<1>7. ASSUME NEW k \in 1 .. n PROVE s[k] \in S /\ rank[s[k]] = k
  <2>1. s[k] = CHOOSE i \in S : Cardinality(Above(i)) = k - 1
    BY <1>7 DEF Arranged
  <2> HIDE DEF Above, s
  <2>2. PICK i \in S : rank[i] = k
    BY <1>6
  <2>3. Cardinality(Above(i)) = k - 1
    BY <1>2, <1>3, <2>2
  <2>4. s[k] \in S /\ Cardinality(Above(s[k])) = k - 1
    BY <2>1, <2>3
  <2>5. rank[s[k]] = k - 1 + 1
    BY <1>3, <2>4
  <2>6. rank[s[k]] = k
    BY <1>1, <2>5
  <2> QED
    BY <2>4, <2>6
<1>8. s \in [1 .. n -> S]
  <2> DEFINE Nth(k) == CHOOSE i \in S : Cardinality(Above(i)) = k - 1
  <2>1. s = [k \in 1 .. n |-> Nth(k)]
    BY DEF Arranged
  <2> HIDE DEF s, n, Nth
  <2>2. \A k \in 1 .. n : Nth(k) \in S
    BY <1>7, <2>1
  <2> QED
    BY <2>1, <2>2
<1>9. ASSUME NEW a \in 1 .. n, NEW b \in 1 .. n PROVE <<s[a], s[b]>> \in before <=> a < b
  <2>1. s[a] \in S /\ s[b] \in S /\ rank[s[a]] = a /\ rank[s[b]] = b
    BY <1>7
  <2> HIDE DEF s
  <2>2. <<s[a], s[b]>> \in before => a < b
    BY <1>4, <2>1
  <2>3. <<s[b], s[a]>> \in before => b < a
    BY <1>4, <2>1
  <2>4. s[a] # s[b] => <<s[a], s[b]>> \in before \/ <<s[b], s[a]>> \in before
    BY <2>1 DEF Order
  <2> QED
    BY <2>1, <2>2, <2>3, <2>4
<1>10. ASSUME NEW i \in S PROVE \E k \in 1 .. n : s[k] = i
  <2>1. rank[i] \in 1 .. n
    BY <1>3
  <2>2. s[rank[i]] \in S /\ rank[s[rank[i]]] = rank[i]
    BY <1>7, <2>1
  <2>3. s[rank[i]] = i
    BY <1>5, <2>2 DEF Injection, IsInjective
  <2> QED
    BY <2>1, <2>3
<1> HIDE DEF s, n
<1>11. /\ n \in Nat /\ s \in [1 .. n -> S] /\ \A a, b \in 1 .. n : <<s[a], s[b]>> \in before <=> a < b
       /\ \A i \in S : \E k \in 1 .. n : s[k] = i
  BY <1>1, <1>8, <1>9, <1>10
<1> QED
  BY <1>11 DEF s, n

\* Ascending lists each member of a finite set of numbers once, the least first.
LEMMA AscendingFact ==
  ASSUME NEW S \in SUBSET Int, IsFiniteSet(S)
  PROVE  /\ Cardinality(S) \in Nat
         /\ Ascending(S) \in [1 .. Cardinality(S) -> S]
         /\ \A a, b \in 1 .. Cardinality(S) : Ascending(S)[a] < Ascending(S)[b] <=> a < b
         /\ \A i \in S : \E k \in 1 .. Cardinality(S) : Ascending(S)[k] = i
<1> DEFINE n == Cardinality(S)
           before == {p \in S \X S : p[1] < p[2]}
           s == Ascending(S)
<1>1. \A i, j \in S : <<i, j>> \in before <=> i < j
  OBVIOUS
<1> HIDE DEF before
<1>2. Order(S, before)
  <2>1. \A i \in S : i \in Int
    OBVIOUS
  <2> QED
    BY <1>1, <2>1 DEF Order
<1>3. s = Arranged(S, before)
  BY DEF Ascending, before
<1> HIDE DEF s, n
<1>4. /\ n \in Nat /\ s \in [1 .. n -> S] /\ \A a, b \in 1 .. n : <<s[a], s[b]>> \in before <=> a < b
      /\ \A i \in S : \E k \in 1 .. n : s[k] = i
  BY <1>2, <1>3, ArrangedFact DEF n
<1>5. \A a, b \in 1 .. n : s[a] < s[b] <=> a < b
  BY <1>1, <1>4
<1> QED
  BY <1>4, <1>5 DEF s, n

\* A finite set of numbers that is not empty has a greatest and a least one.
LEMMA MaxFact ==
  ASSUME NEW S \in SUBSET Int, IsFiniteSet(S), S # {}
  PROVE  Max(S) \in S /\ \A y \in S : y <= Max(S)
<1> DEFINE n == Cardinality(S)
           s == Ascending(S)
<1>1. /\ n \in Nat /\ s \in [1 .. n -> S] /\ \A a, b \in 1 .. n : s[a] < s[b] <=> a < b
      /\ \A i \in S : \E k \in 1 .. n : s[k] = i
  BY AscendingFact
<1> HIDE DEF n, s
<1>2. n \in 1 .. n
  <2>1. PICK y \in S : TRUE
    OBVIOUS
  <2>2. PICK k \in 1 .. n : s[k] = y
    BY <1>1, <2>1
  <2> QED
    BY <1>1, <2>2
<1>3. ASSUME NEW y \in S PROVE y <= s[n]
  <2>1. PICK k \in 1 .. n : s[k] = y
    BY <1>1
  <2>2. ~ (s[n] < s[k])
    BY <1>1, <1>2
  <2>3. s[n] \in Int /\ y \in Int
    BY <1>1, <1>2
  <2> QED
    BY <2>1, <2>2, <2>3
<1>4. s[n] \in S /\ \A y \in S : s[n] >= y
  BY <1>1, <1>2, <1>3
<1>5. Max(S) \in S /\ \A y \in S : Max(S) >= y
  BY <1>4 DEF Max
<1> QED
  BY <1>5

LEMMA SeqDomain ==
  ASSUME NEW E, NEW ds \in Seq(E)
  PROVE  /\ DOMAIN ds = 1 .. Len(ds) /\ Len(ds) \in Nat
         /\ DOMAIN ds \in SUBSET Int /\ IsFiniteSet(DOMAIN ds)
         /\ \A i \in DOMAIN ds : ds[i] \in E
<1>1. DOMAIN ds = 1 .. Len(ds) /\ Len(ds) \in Nat
  BY LenProperties
<1>2. IsFiniteSet(1 .. Len(ds))
  BY <1>1, FS_Interval
<1>3. \A i \in 1 .. Len(ds) : ds[i] \in E
  BY ElementOfSeq
<1> QED
  BY <1>1, <1>2, <1>3

\* Index lists the detections chosen, and no other, each from a place of its own.
LEMMA IndexFact ==
  ASSUME NEW E, NEW ds \in Seq(E), NEW keep \in SUBSET DOMAIN ds
  PROVE  /\ Index(ds, keep) \in Seq(E)
         /\ \A k \in DOMAIN Index(ds, keep) : \E i \in keep : Index(ds, keep)[k] = ds[i]
         /\ \A i \in keep : \E k \in DOMAIN Index(ds, keep) : Index(ds, keep)[k] = ds[i]
         /\ Untied(ds) => Untied(Index(ds, keep))
<1> DEFINE n == Cardinality(keep)
           s == Ascending(keep)
           listed == Index(ds, keep)
<1>1. DOMAIN ds = 1 .. Len(ds) /\ Len(ds) \in Nat /\ \A i \in DOMAIN ds : ds[i] \in E
  BY LenProperties, ElementOfSeq
<1>2. keep \in SUBSET Int /\ IsFiniteSet(keep)
  <2>1. IsFiniteSet(1 .. Len(ds))
    BY <1>1, FS_Interval
  <2> QED
    BY <1>1, <2>1, FS_Subset
<1>3. /\ n \in Nat /\ s \in [1 .. n -> keep] /\ \A i \in keep : \E k \in 1 .. n : s[k] = i
      /\ \A a, b \in 1 .. n : s[a] < s[b] <=> a < b
  BY <1>2, AscendingFact
<1>4. listed = [k \in DOMAIN s |-> ds[s[k]]]
  BY DEF Index
<1> HIDE DEF s, n, listed
<1>5. listed = [k \in 1 .. n |-> ds[s[k]]]
  BY <1>3, <1>4
<1>6. \A k \in 1 .. n : s[k] \in keep /\ ds[s[k]] \in E
  BY <1>1, <1>3
<1>7. listed \in Seq(E)
  BY <1>3, <1>5, <1>6, SeqDef
<1>8. \A k \in DOMAIN listed : \E i \in keep : listed[k] = ds[i]
  BY <1>5, <1>6
<1>9. \A i \in keep : \E k \in DOMAIN listed : listed[k] = ds[i]
  BY <1>3, <1>5
<1>10. ASSUME Untied(ds), NEW a \in 1 .. n, NEW b \in 1 .. n, listed[a].score = listed[b].score
       PROVE  a = b
  <2>1. s[a] \in DOMAIN ds /\ s[b] \in DOMAIN ds /\ ds[s[a]].score = ds[s[b]].score
    BY <1>3, <1>5, <1>10
  <2>2. s[a] = s[b] /\ s[a] \in Int
    BY <1>2, <1>3, <1>10, <2>1 DEF Untied
  <2>3. ~ (a < b) /\ ~ (b < a)
    BY <1>3, <2>2
  <2> QED
    BY <1>3, <2>3
<1>11. Untied(ds) => Untied(listed)
  BY <1>5, <1>10 DEF Untied
<1> QED
  BY <1>7, <1>8, <1>9, <1>11 DEF listed

-----------------------------------------------------------------------------
(* A ranking without ties is one list only                                   *)

\* r lists n detections, better ones first.
Descending(r, n) ==
    /\ r \in [1 .. n -> Detection]
    /\ \A i, j \in 1 .. n : i < j => r[i].score > r[j].score

Listed(r, n) == {r[i] : i \in 1 .. n}

LEMMA DescendingPrefix ==
  ASSUME NEW n \in Nat, NEW m \in Nat, NEW r, NEW s, Descending(r, n), Descending(s, m),
         Listed(r, n) = Listed(s, m)
  PROVE  \A k \in 1 .. n : k <= m /\ r[k] = s[k]
<1> DEFINE T == {k \in 1 .. n : ~ (k <= m /\ r[k] = s[k])}
<1>1. /\ \A i \in 1 .. n : \E j \in 1 .. m : r[i] = s[j]
      /\ \A j \in 1 .. m : \E i \in 1 .. n : r[i] = s[j]
  BY DEF Listed
<1>2. /\ \A i \in 1 .. n : r[i].score \in Int
      /\ \A j \in 1 .. m : s[j].score \in Int
  BY DEF Descending, Detection
<1>3. CASE T # {}
  <2>1. T \in SUBSET Nat
    OBVIOUS
  <2>2. PICK k \in T : \A y \in T : k <= y
    BY <1>3, <2>1, LeastNat
  <2>3. k \in 1 .. n /\ ~ (k <= m /\ r[k] = s[k])
    OBVIOUS
  <2>4. \A i \in 1 .. n : i < k => i <= m /\ r[i] = s[i]
    <3> SUFFICES ASSUME NEW i \in 1 .. n, i < k PROVE i <= m /\ r[i] = s[i]
      OBVIOUS
    <3>1. i \notin T
      BY <2>2, <2>3
    <3> QED
      BY <3>1
  <2> HIDE DEF T
  <2>5. PICK j \in 1 .. m : r[k] = s[j]
    BY <1>1, <2>3
  <2>6. ~ (j < k)
    <3> SUFFICES ASSUME j < k PROVE FALSE
      OBVIOUS
    <3>1. j \in 1 .. n /\ r[j] = s[j]
      BY <2>3, <2>4
    <3>2. r[j].score > r[k].score
      BY <2>3, <3>1 DEF Descending
    <3> QED
      BY <1>2, <2>3, <2>5, <3>1, <3>2
  <2>7. k \in 1 .. m /\ k < j
    BY <2>3, <2>5, <2>6
  <2>8. s[k].score > r[k].score
    BY <2>5, <2>7 DEF Descending
  <2>9. PICK i \in 1 .. n : r[i] = s[k]
    BY <1>1, <2>7
  <2>10. CASE i < k
    <3>1. i \in 1 .. m /\ r[i] = s[i]
      BY <2>4, <2>10
    <3>2. s[i].score > s[k].score
      BY <2>7, <2>10, <3>1 DEF Descending
    <3> QED
      BY <1>2, <2>7, <2>9, <3>1, <3>2
  <2>11. CASE i = k
    BY <1>2, <2>3, <2>8, <2>9, <2>11
  <2>12. CASE k < i
    <3>1. r[k].score > r[i].score
      BY <2>3, <2>12 DEF Descending
    <3> QED
      BY <1>2, <2>3, <2>7, <2>8, <2>9, <3>1
  <2> QED
    BY <2>3, <2>10, <2>11, <2>12
<1> QED
  BY <1>3

LEMMA DescendingSame ==
  ASSUME NEW n \in Nat, NEW m \in Nat, NEW r, NEW s, Descending(r, n), Descending(s, m),
         Listed(r, n) = Listed(s, m)
  PROVE  n = m /\ r = s
<1>1. \A k \in 1 .. n : k <= m /\ r[k] = s[k]
  BY DescendingPrefix
<1>2. \A k \in 1 .. m : k <= n /\ s[k] = r[k]
  BY DescendingPrefix
<1>3. n = m
  <2>1. n <= m
    BY <1>1
  <2>2. m <= n
    BY <1>2
  <2> QED
    BY <2>1, <2>2
<1> QED
  BY <1>1, <1>3 DEF Descending

\* argsort lists what it is given, better ones first, if no scores tie.
LEMMA RankedFact ==
  ASSUME NEW a \in Seq(Detection), Untied(a), NEW p \in Rankings(ScoresOfSeq(a))
  PROVE  /\ Len(a) \in Nat /\ Descending(Ranked(a, p), Len(a))
         /\ Listed(Ranked(a, p), Len(a)) = ToSet(a)
<1> DEFINE n == Len(a)
           scores == ScoresOfSeq(a)
           r == Ranked(a, p)
<1> HIDE DEF r, scores
<1>1. n \in Nat /\ DOMAIN a = 1 .. n /\ \A k \in 1 .. n : a[k] \in Detection /\ a[k].score \in Int
  <2>1. n \in Nat /\ DOMAIN a = 1 .. n /\ \A k \in DOMAIN a : a[k] \in Detection
    BY SeqDomain
  <2>2. \A d \in Detection : d.score \in Int
    BY DEF Detection
  <2> QED
    BY <2>1, <2>2
<1>2. DOMAIN scores = 1 .. n /\ \A k \in 1 .. n : scores[k] = a[k].score
  BY <1>1 DEF ScoresOfSeq, scores
<1> HIDE DEF n
<1>3. IsFiniteSet(1 .. n) /\ Cardinality(1 .. n) = n
  BY <1>1, FS_Interval
<1>4. /\ p \in [1 .. n -> 1 .. n]
      /\ \A i, j \in 1 .. n : i # j => p[i] # p[j]
      /\ \A i, j \in DOMAIN p : i < j => scores[p[i]] >= scores[p[j]]
  BY <1>2, <1>3 DEF Rankings, SetToSeqs, scores
<1>5. \A k \in 1 .. n : \E i \in 1 .. n : p[i] = k
  <2>1. p \in Injection(1 .. n, 1 .. n)
    BY <1>4 DEF Injection, IsInjective
  <2>2. p \in Surjection(1 .. n, 1 .. n)
    BY <1>3, <2>1, FS_Injection
  <2> QED
    BY <2>2 DEF Surjection
<1>6. r = [k \in 1 .. n |-> a[p[k]]]
  BY <1>4 DEF Ranked, r
<1>7. r \in [1 .. n -> Detection]
  BY <1>1, <1>4, <1>6
<1>8. ASSUME NEW i \in 1 .. n, NEW j \in 1 .. n, i < j PROVE r[i].score > r[j].score
  <2>1. p[i] \in 1 .. n /\ p[j] \in 1 .. n /\ p[i] # p[j]
    BY <1>4, <1>8
  <2>2. scores[p[i]] >= scores[p[j]]
    BY <1>4, <1>8
  <2>3. a[p[i]].score # a[p[j]].score
    BY <1>1, <2>1 DEF Untied
  <2>4. /\ scores[p[i]] = a[p[i]].score /\ scores[p[j]] = a[p[j]].score
        /\ r[i] = a[p[i]] /\ r[j] = a[p[j]]
    BY <1>2, <1>6, <2>1
  <2>5. a[p[i]].score \in Int /\ a[p[j]].score \in Int
    BY <1>1, <2>1
  <2> QED
    BY <2>2, <2>3, <2>4, <2>5
<1>9. Listed(r, n) = ToSet(a)
  <2>1. ASSUME NEW d \in Listed(r, n) PROVE d \in ToSet(a)
    <3>1. PICK i \in 1 .. n : d = r[i]
      BY <2>1 DEF Listed
    <3>2. p[i] \in 1 .. n /\ d = a[p[i]]
      BY <1>4, <1>6, <3>1
    <3> QED
      BY <1>1, <3>2 DEF ToSet
  <2>2. ASSUME NEW d \in ToSet(a) PROVE d \in Listed(r, n)
    <3>1. PICK k \in 1 .. n : d = a[k]
      BY <1>1, <2>2 DEF ToSet
    <3>2. PICK i \in 1 .. n : p[i] = k
      BY <1>5
    <3>3. r[i] = d
      BY <1>6, <3>1, <3>2
    <3> QED
      BY <3>3 DEF Listed
  <2> QED
    BY <2>1, <2>2
<1>10. Descending(r, n)
  BY <1>7, <1>8 DEF Descending
<1> QED
  BY <1>1, <1>9, <1>10 DEF r, n

\* The best of the same detections are the same, in whatever order they come.
LEMMA SameTop ==
  ASSUME NEW a \in Seq(Detection), NEW b \in Seq(Detection), Untied(a), Untied(b),
         ToSet(a) = ToSet(b), NEW shape,
         NEW p \in Rankings(ScoresOfSeq(a)), NEW q \in Rankings(ScoresOfSeq(b))
  PROVE  TopOf(a, shape, p) = TopOf(b, shape, q)
<1>1. Ranked(a, p) = Ranked(b, q) /\ Len(a) = Len(b)
  BY RankedFact, DescendingSame
<1> QED
  BY <1>1 DEF TopOf

\* The gate keeps what reaches it.
LEMMA GatedFact ==
  ASSUME NEW stored \in Seq(Detection), NEW gate \in Int
  PROVE  /\ Gated(stored, gate) \in Seq(Detection)
         /\ ToSet(Gated(stored, gate)) = {d \in ToSet(stored) : ~ (d.score < gate)}
         /\ Untied(stored) => Untied(Gated(stored, gate))
<1> DEFINE keep == {k \in DOMAIN stored : stored[k].score >= gate}
           kept == Gated(stored, gate)
<1>1. keep \in SUBSET DOMAIN stored /\ kept = Index(stored, keep)
  BY DEF Gated
<1>2. \A k \in DOMAIN stored : stored[k].score \in Int
  <2>1. \A k \in DOMAIN stored : stored[k] \in Detection
    BY SeqDomain
  <2>2. \A d \in Detection : d.score \in Int
    BY DEF Detection
  <2> QED
    BY <2>1, <2>2
<1>3. \A k \in DOMAIN stored : k \in keep <=> ~ (stored[k].score < gate)
  BY <1>2
<1> HIDE DEF keep, kept
<1>4. /\ kept \in Seq(Detection)
      /\ \A k \in DOMAIN kept : \E i \in keep : kept[k] = stored[i]
      /\ \A i \in keep : \E k \in DOMAIN kept : kept[k] = stored[i]
      /\ Untied(stored) => Untied(kept)
  BY <1>1, IndexFact
<1>5. ASSUME NEW d \in ToSet(kept) PROVE d \in ToSet(stored) /\ ~ (d.score < gate)
  <2>1. PICK k \in DOMAIN kept : d = kept[k]
    BY <1>5 DEF ToSet
  <2>2. PICK i \in keep : d = stored[i]
    BY <1>4, <2>1
  <2>3. i \in DOMAIN stored
    BY <1>1
  <2> QED
    BY <1>3, <2>2, <2>3 DEF ToSet
<1>6. ASSUME NEW d \in ToSet(stored), ~ (d.score < gate) PROVE d \in ToSet(kept)
  <2>1. PICK i \in DOMAIN stored : d = stored[i]
    BY <1>6 DEF ToSet
  <2>2. i \in keep
    BY <1>3, <1>6, <2>1
  <2>3. PICK k \in DOMAIN kept : kept[k] = d
    BY <1>4, <2>1, <2>2
  <2> QED
    BY <2>3 DEF ToSet
<1>7. ToSet(kept) = {d \in ToSet(stored) : ~ (d.score < gate)}
  BY <1>5, <1>6
<1> QED
  BY <1>4, <1>7 DEF kept

\* Induction over the numbers up to n, for a set of them.
LEMMA UpTo ==
  ASSUME NEW n \in Nat, NEW A, 0 \in A, \A k \in 0 .. n - 1 : k \in A => k + 1 \in A
  PROVE  0 .. n \subseteq A
<1> SUFFICES ASSUME 0 .. n \ A # {} PROVE FALSE
  OBVIOUS
<1>1. 0 .. n \ A \in SUBSET Nat
  OBVIOUS
<1>2. PICK x \in 0 .. n \ A : \A y \in 0 .. n \ A : x <= y
  BY <1>1, LeastNat
<1>3. x # 0 /\ x - 1 \in 0 .. n - 1
  BY <1>2
<1>4. x - 1 \in A
  BY <1>2, <1>3
<1> QED
  BY <1>2, <1>3, <1>4

\* f goes on from base with a step per number.
Steps(f, n, S, base, step) ==
    f \in [0 .. n -> S] /\ f[0] = base /\ \A k \in 1 .. n : f[k] = step[<<k, f[k - 1]>>]
StepFunctions(n, S) == [(1 .. n) \X S -> S]

\* A function that is defined step by step exists.
LEMMA Recursion ==
  ASSUME NEW n \in Nat, NEW S, NEW base \in S, NEW step \in StepFunctions(n, S)
  PROVE  \E f : Steps(f, n, S, base, step)
<1> DEFINE Good(m, f) == f[0] = base /\ \A k \in 1 .. m : f[k] = step[<<k, f[k - 1]>>]
           A == {m \in 0 .. n : \E f \in [0 .. m -> S] : Good(m, f)}
<1>1. 0 \in A
  <2> DEFINE f == [k \in 0 .. 0 |-> base]
  <2>1. f \in [0 .. 0 -> S] /\ f[0] = base
    OBVIOUS
  <2> HIDE DEF f
  <2>2. Good(0, f)
    BY <2>1
  <2> HIDE DEF Good
  <2> QED
    BY <2>1, <2>2
<1>2. ASSUME NEW m \in 0 .. n - 1, m \in A PROVE m + 1 \in A
  <2>1. PICK f \in [0 .. m -> S] : Good(m, f)
    BY <1>2
  <2> DEFINE g == [k \in 0 .. m + 1 |-> IF k = m + 1 THEN step[<<m + 1, f[m]>>] ELSE f[k]]
  <2>2. f[m] \in S /\ m + 1 \in 1 .. n
    OBVIOUS
  <2>3. step[<<m + 1, f[m]>>] \in S
    BY <2>2 DEF StepFunctions
  <2>4. g \in [0 .. m + 1 -> S]
    BY <2>3
  <2>5. g[0] = base /\ g[m + 1] = step[<<m + 1, f[m]>>] /\ \A k \in 0 .. m : g[k] = f[k]
    BY <2>1
  <2>6. Good(m + 1, g)
    <3> HIDE DEF g
    <3>1. ASSUME NEW k \in 1 .. m + 1 PROVE g[k] = step[<<k, g[k - 1]>>]
      <4>1. k = m + 1 \/ (k \in 1 .. m /\ k - 1 \in 0 .. m)
        OBVIOUS
      <4>2. CASE k = m + 1
        <5>1. k - 1 = m /\ m \in 0 .. m
          BY <4>2
        <5> QED
          BY <2>5, <4>2, <5>1
      <4>3. CASE k \in 1 .. m
        <5>1. k \in 0 .. m /\ k - 1 \in 0 .. m
          BY <4>3
        <5> QED
          BY <2>1, <2>5, <4>3, <5>1
      <4> QED
        BY <4>1, <4>2, <4>3
    <3> QED
      BY <2>5, <3>1
  <2> HIDE DEF Good, g
  <2>7. \E h \in [0 .. m + 1 -> S] : Good(m + 1, h)
    BY <2>4, <2>6
  <2> QED
    BY <2>2, <2>7
<1>3. n \in A
  <2> HIDE DEF A
  <2>1. 0 .. n \subseteq A
    BY <1>1, <1>2, UpTo
  <2> QED
    BY <2>1
<1> QED
  BY <1>3 DEF Steps

-----------------------------------------------------------------------------
(* Sums, best values and counts                                              *)

Sums(f, n, w) == f \in [0 .. n -> Int] /\ f[0] = 0 /\ \A k \in 1 .. n : f[k] = f[k - 1] + w[k]

\* Total adds one by one.
LEMMA TotalFact ==
  ASSUME NEW n \in Nat, NEW w \in [1 .. n -> Int]
  PROVE  \E f : Sums(f, n, w) /\ Total(w) = f[n]
<1> DEFINE Equation(v) == v = [k \in 0 .. n |-> IF k = 0 THEN 0 ELSE v[k - 1] + w[k]]
           sum == CHOOSE v : Equation(v)
           step == [p \in (1 .. n) \X Int |-> p[2] + w[p[1]]]
<1>1. w \in Seq(Int) /\ Len(w) = n
  <2>1. w \in Seq(Int)
    BY SeqDef
  <2> QED
    BY <2>1, LenProperties
<1>2. step \in StepFunctions(n, Int)
  <2>1. \A p \in (1 .. n) \X Int : p[2] + w[p[1]] \in Int
    OBVIOUS
  <2> QED
    BY <2>1 DEF StepFunctions
<1>3. PICK f \in [0 .. n -> Int] : f[0] = 0 /\ \A k \in 1 .. n : f[k] = step[<<k, f[k - 1]>>]
  <2> HIDE DEF step
  <2>1. 0 \in Int
    OBVIOUS
  <2>2. \E f : Steps(f, n, Int, 0, step)
    BY <1>2, <2>1, Recursion
  <2> QED
    BY <2>2 DEF Steps
<1>4. \A k \in 1 .. n : f[k] = f[k - 1] + w[k]
  <2>1. \A k \in 1 .. n : k - 1 \in 0 .. n /\ f[k - 1] \in Int
    BY <1>3
  <2> QED
    BY <1>3, <2>1
<1>5. Equation(f)
  <2>1. \A k \in 0 .. n : f[k] = IF k = 0 THEN 0 ELSE f[k - 1] + w[k]
    BY <1>3, <1>4
  <2> QED
    BY <1>3, <2>1
<1>6. Equation(sum)
  <2> HIDE DEF Equation
  <2> QED
    BY <1>5
<1>7. Total(w) = sum[n]
  BY <1>1 DEF Total
<1> HIDE DEF sum
<1>8. sum[0] = 0 /\ \A k \in 1 .. n : sum[k] = sum[k - 1] + w[k]
  <2>1. \A k \in 0 .. n : sum[k] = IF k = 0 THEN 0 ELSE sum[k - 1] + w[k]
    BY <1>6
  <2>2. 0 \in 0 .. n /\ \A k \in 1 .. n : k \in 0 .. n /\ k # 0
    OBVIOUS
  <2> QED
    BY <2>1, <2>2
<1>9. n \in {k \in 0 .. n : sum[k] = f[k]}
  <2> DEFINE A == {k \in 0 .. n : sum[k] = f[k]}
  <2>1. 0 \in A
    BY <1>3, <1>8
  <2>2. ASSUME NEW k \in 0 .. n - 1, k \in A PROVE k + 1 \in A
    <3>1. k + 1 \in 1 .. n /\ k + 1 - 1 = k
      OBVIOUS
    <3>2. sum[k + 1] = sum[k] + w[k + 1] /\ f[k + 1] = f[k] + w[k + 1]
      BY <1>4, <1>8, <3>1
    <3> QED
      BY <2>2, <3>1, <3>2
  <2> HIDE DEF A
  <2>3. 0 .. n \subseteq A
    BY <2>1, <2>2, UpTo
  <2>4. n \in A
    BY <2>3
  <2> QED
    BY <2>4 DEF A
<1>10. Sums(f, n, w)
  BY <1>3, <1>4 DEF Sums
<1> QED
  BY <1>7, <1>9, <1>10

\* More of each is more in total.
LEMMA TotalMonotone ==
  ASSUME NEW n \in Nat, NEW v \in [1 .. n -> Int], NEW w \in [1 .. n -> Int],
         \A k \in 1 .. n : v[k] <= w[k]
  PROVE  Total(v) <= Total(w)
<1>1. PICK f : Sums(f, n, v) /\ Total(v) = f[n]
  BY TotalFact
<1>2. PICK g : Sums(g, n, w) /\ Total(w) = g[n]
  BY TotalFact
<1> DEFINE A == {k \in 0 .. n : f[k] <= g[k]}
<1>3. 0 \in A
  BY <1>1, <1>2 DEF Sums
<1>4. ASSUME NEW k \in 0 .. n - 1, k \in A PROVE k + 1 \in A
  <2>1. k + 1 \in 1 .. n /\ k + 1 - 1 = k
    OBVIOUS
  <2>2. f[k + 1] = f[k] + v[k + 1] /\ g[k + 1] = g[k] + w[k + 1]
    BY <1>1, <1>2, <2>1 DEF Sums
  <2>3. f[k] \in Int /\ g[k] \in Int /\ v[k + 1] \in Int /\ w[k + 1] \in Int /\ v[k + 1] <= w[k + 1]
    BY <1>1, <1>2, <2>1 DEF Sums
  <2>4. f[k] <= g[k]
    BY <1>4
  <2>5. f[k + 1] <= g[k + 1]
    BY <2>2, <2>3, <2>4
  <2> QED
    BY <2>1, <2>5
<1>5. n \in A
  <2> HIDE DEF A
  <2>1. 0 .. n \subseteq A
    BY <1>3, <1>4, UpTo
  <2> QED
    BY <2>1
<1> QED
  BY <1>1, <1>2, <1>5

\* The best of the values at K, and zero.
Best(e, K) == Max({0} \cup {e[k] : k \in K})

LEMMA BestFact ==
  ASSUME NEW n \in Nat, NEW e \in [1 .. n -> Nat], NEW K \in SUBSET (1 .. n)
  PROVE  /\ Best(e, K) \in Nat
         /\ \A k \in K : e[k] <= Best(e, K)
         /\ Best(e, K) = 0 \/ \E k \in K : Best(e, K) = e[k]
<1> DEFINE T == {e[k] : k \in K}
           S == {0} \cup T
<1>1. IsFiniteSet(K)
  <2>1. IsFiniteSet(1 .. n)
    BY FS_Interval
  <2> QED
    BY <2>1, FS_Subset
<1>2. IsFiniteSet(T)
  <2> DEFINE g == [k \in K |-> e[k]]
  <2>1. g \in Surjection(K, T)
    BY DEF Surjection
  <2> HIDE DEF g, T
  <2> QED
    BY <1>1, <2>1, FS_Surjection
<1>3. IsFiniteSet(S)
  <2>1. S = T \cup {0}
    OBVIOUS
  <2> HIDE DEF T, S
  <2> QED
    BY <1>2, <2>1, FS_AddElement
<1>4. S \in SUBSET Int /\ S # {} /\ S \in SUBSET Nat
  OBVIOUS
<1>5. Best(e, K) = Max(S)
  BY DEF Best
<1>6. Max(S) \in S /\ \A y \in S : y <= Max(S)
  <2> HIDE DEF S
  <2> QED
    BY <1>3, <1>4, MaxFact
<1> QED
  BY <1>4, <1>5, <1>6

\* The best of more, at values that are no less, is no less.
LEMMA BestMonotone ==
  ASSUME NEW n \in Nat, NEW e \in [1 .. n -> Nat], NEW d \in [1 .. n -> Nat],
         NEW K \in SUBSET (1 .. n), NEW L \in SUBSET (1 .. n),
         K \subseteq L, \A k \in K : e[k] <= d[k]
  PROVE  Best(e, K) <= Best(d, L)
<1>1. /\ Best(e, K) \in Nat
      /\ Best(e, K) = 0 \/ \E k \in K : Best(e, K) = e[k]
  BY BestFact
<1>2. Best(d, L) \in Nat /\ \A k \in L : d[k] <= Best(d, L)
  BY BestFact
<1>3. CASE Best(e, K) = 0
  BY <1>2, <1>3
<1>4. ASSUME NEW k \in K, Best(e, K) = e[k] PROVE Best(e, K) <= Best(d, L)
  <2>1. e[k] <= d[k] /\ d[k] <= Best(d, L) /\ e[k] \in Nat /\ d[k] \in Nat
    BY <1>2
  <2> QED
    BY <1>2, <1>4, <2>1
<1> QED
  BY <1>1, <1>3, <1>4

\* How many of the first k are true positives.
Found(hits, k) == Cardinality({i \in 1 .. k : hits[i]})

LEMMA FoundFact ==
  ASSUME NEW n \in Nat, NEW hits \in [1 .. n -> BOOLEAN]
  PROVE  /\ Found(hits, 0) = 0
         /\ \A k \in 0 .. n : Found(hits, k) \in Nat
         /\ \A k \in 1 .. n : Found(hits, k) = IF hits[k] THEN Found(hits, k - 1) + 1 ELSE Found(hits, k - 1)
<1> DEFINE S(k) == {i \in 1 .. k : hits[i]}
<1>1. \A k \in 0 .. n : IsFiniteSet(S(k)) /\ Cardinality(S(k)) \in Nat
  <2> SUFFICES ASSUME NEW k \in 0 .. n PROVE IsFiniteSet(S(k)) /\ Cardinality(S(k)) \in Nat
    OBVIOUS
  <2>1. IsFiniteSet(1 .. k) /\ S(k) \in SUBSET (1 .. k)
    BY FS_Interval
  <2> HIDE DEF S
  <2>2. IsFiniteSet(S(k))
    BY <2>1, FS_Subset
  <2> QED
    BY <2>2, FS_CardinalityType
<1>2. Found(hits, 0) = 0
  <2>1. S(0) = {}
    OBVIOUS
  <2> HIDE DEF S
  <2>2. Cardinality(S(0)) = 0
    BY <2>1, FS_EmptySet
  <2> QED
    BY <2>2 DEF Found, S
<1>3. ASSUME NEW k \in 1 .. n
      PROVE  Found(hits, k) = IF hits[k] THEN Found(hits, k - 1) + 1 ELSE Found(hits, k - 1)
  <2>1. \A i : i \in 1 .. k <=> i \in 1 .. k - 1 \/ i = k
    OBVIOUS
  <2>2. S(k) = IF hits[k] THEN S(k - 1) \cup {k} ELSE S(k - 1)
    BY <2>1
  <2>3. k \notin S(k - 1) /\ k - 1 \in 0 .. n
    OBVIOUS
  <2>4. Found(hits, k) = Cardinality(S(k)) /\ Found(hits, k - 1) = Cardinality(S(k - 1))
    BY DEF Found
  <2> DEFINE T == S(k - 1)
  <2>5. IsFiniteSet(T) /\ k \notin T
    BY <1>1, <2>3
  <2>6. Cardinality(T \cup {k}) = Cardinality(T) + 1
    <3> HIDE DEF T, S
    <3> QED
      BY <2>5, FS_AddElement
  <2> HIDE DEF S
  <2> QED
    BY <2>2, <2>4, <2>6
<1>4. \A k \in 0 .. n : Found(hits, k) = Cardinality(S(k))
  BY DEF Found
<1> HIDE DEF S
<1> QED
  BY <1>1, <1>2, <1>3, <1>4

LEMMA FoundGrows ==
  ASSUME NEW n \in Nat, NEW hits \in [1 .. n -> BOOLEAN], NEW a \in 0 .. n, NEW b \in a .. n
  PROVE  Found(hits, a) <= Found(hits, b)
<1> DEFINE S(k) == {i \in 1 .. k : hits[i]}
<1>1. S(a) \in SUBSET S(b) /\ S(b) \in SUBSET (1 .. b)
  OBVIOUS
<1>2. IsFiniteSet(S(b))
  <2>1. IsFiniteSet(1 .. b)
    BY FS_Interval
  <2> HIDE DEF S
  <2> QED
    BY <1>1, <2>1, FS_Subset
<1>3. Found(hits, a) = Cardinality(S(a)) /\ Found(hits, b) = Cardinality(S(b))
  BY DEF Found
<1> HIDE DEF S
<1> QED
  BY <1>1, <1>2, <1>3, FS_Subset

-----------------------------------------------------------------------------
(* The area under the envelope is what the objects are worth                 *)

\* A list with a zero before it and a number after.
LEMMA Between ==
  ASSUME NEW n \in Nat, NEW s \in [1 .. n -> Nat], NEW b \in Nat
  PROVE  LET l == <<0>> \o s \o <<b>>
         IN  /\ l \in [1 .. n + 2 -> Nat]
             /\ l[1] = 0 /\ (\A i \in 1 .. n : l[i + 1] = s[i]) /\ l[n + 2] = b
<1>1. s \in Seq(Nat) /\ Len(s) = n
  <2>1. s \in Seq(Nat)
    BY SeqDef
  <2> QED
    BY <2>1, LenProperties
<1> DEFINE x == <<0>>
           y == <<b>>
           h == x \o s
           l == h \o y
<1>2. x \in Seq(Nat) /\ y \in Seq(Nat) /\ Len(x) = 1 /\ Len(y) = 1 /\ x[1] = 0 /\ y[1] = b
  OBVIOUS
<1> HIDE DEF x, y, h, l
<1>3. /\ h \in Seq(Nat) /\ Len(h) = 1 + n
      /\ \A i \in 1 .. 1 + n : h[i] = IF i <= 1 THEN x[i] ELSE s[i - 1]
  <2>1. /\ h \in Seq(Nat) /\ Len(h) = Len(x) + Len(s)
        /\ \A i \in 1 .. Len(x) + Len(s) : h[i] = IF i <= Len(x) THEN x[i] ELSE s[i - Len(x)]
    BY <1>1, <1>2, ConcatProperties DEF h
  <2> QED
    BY <1>1, <1>2, <2>1
<1>4. /\ l \in Seq(Nat) /\ Len(l) = 1 + n + 1
      /\ \A i \in 1 .. 1 + n + 1 : l[i] = IF i <= 1 + n THEN h[i] ELSE y[i - (1 + n)]
  <2>1. /\ l \in Seq(Nat) /\ Len(l) = Len(h) + Len(y)
        /\ \A i \in 1 .. Len(h) + Len(y) : l[i] = IF i <= Len(h) THEN h[i] ELSE y[i - Len(h)]
    BY <1>2, <1>3, ConcatProperties DEF l
  <2> QED
    BY <1>2, <1>3, <2>1
<1>5. l = <<0>> \o s \o <<b>>
  BY DEF l, h, x, y
<1>6. l \in [1 .. n + 2 -> Nat]
  <2>1. l \in [1 .. Len(l) -> Nat] /\ Len(l) = n + 2
    BY <1>4, LenProperties
  <2> QED
    BY <2>1
<1>7. l[1] = 0
  <2>1. 1 \in 1 .. 1 + n + 1 /\ 1 \in 1 .. 1 + n /\ 1 <= 1 + n /\ 1 <= 1
    OBVIOUS
  <2>2. l[1] = h[1] /\ h[1] = x[1]
    BY <1>3, <1>4, <2>1
  <2> QED
    BY <1>2, <2>2
<1>8. ASSUME NEW i \in 1 .. n PROVE l[i + 1] = s[i]
  <2>1. i + 1 \in 1 .. 1 + n + 1 /\ i + 1 \in 1 .. 1 + n /\ i + 1 <= 1 + n /\ ~ (i + 1 <= 1) /\ i + 1 - 1 = i
    OBVIOUS
  <2>2. l[i + 1] = h[i + 1] /\ h[i + 1] = s[i + 1 - 1]
    BY <1>3, <1>4, <2>1
  <2> QED
    BY <2>1, <2>2
<1>9. l[n + 2] = b
  <2> DEFINE i == n + 2
  <2>1. i \in 1 .. 1 + n + 1 /\ ~ (i <= 1 + n) /\ i - (1 + n) = 1
    OBVIOUS
  <2> HIDE DEF i
  <2>2. l[i] = y[i - (1 + n)]
    BY <1>4, <2>1
  <2>3. l[i] = b
    BY <1>2, <2>1, <2>2
  <2> QED
    BY <2>3 DEF i
<1> QED
  BY <1>5, <1>6, <1>7, <1>8, <1>9

\* The envelope of precisions between two zeros: the best from a rank on, and nothing behind.
LEMMA EnvelopeFact ==
  ASSUME NEW n \in Nat, NEW p \in [1 .. n -> Nat]
  PROVE  /\ \A i \in 1 .. n : Envelope(<<0>> \o p \o <<0>>)[i + 1] = Best(p, i .. n)
         /\ Envelope(<<0>> \o p \o <<0>>)[n + 2] = 0
<1> DEFINE l == <<0>> \o p \o <<0>>
           e == Envelope(l)
           From(i) == {l[j] : j \in i .. n + 2}
<1>1. /\ l \in [1 .. n + 2 -> Nat]
      /\ l[1] = 0 /\ (\A i \in 1 .. n : l[i + 1] = p[i]) /\ l[n + 2] = 0
  <2> DEFINE b == 0
             m == <<0>> \o p \o <<b>>
  <2>1. b \in Nat
    OBVIOUS
  <2> HIDE DEF b
  <2>2. /\ m \in [1 .. n + 2 -> Nat]
        /\ m[1] = 0 /\ (\A i \in 1 .. n : m[i + 1] = p[i]) /\ m[n + 2] = b
    BY <2>1, Between
  <2> QED
    BY <2>2 DEF b
<1> HIDE DEF l
<1>2. Len(l) = n + 2
  <2>1. l \in Seq(Nat)
    BY <1>1, SeqDef
  <2> QED
    BY <1>1, <2>1, LenProperties
<1>3. \A i \in 1 .. n + 2 : e[i] = Max(From(i))
  BY <1>1, <1>2 DEF Envelope
<1>4. ASSUME NEW i \in 1 .. n PROVE From(i + 1) = {0} \cup {p[k] : k \in i .. n}
  <2>1. ASSUME NEW j \in i + 1 .. n + 2 PROVE l[j] \in {0} \cup {p[k] : k \in i .. n}
    <3>1. CASE j = n + 2
      BY <1>1, <3>1
    <3>2. CASE j # n + 2
      <4>1. j - 1 \in i .. n /\ j - 1 \in 1 .. n /\ j - 1 + 1 = j
        BY <3>2
      <4>2. l[j] = p[j - 1]
        BY <1>1, <4>1
      <4> QED
        BY <4>1, <4>2
    <3> QED
      BY <3>1, <3>2
  <2>2. 0 \in From(i + 1)
    <3>1. n + 2 \in i + 1 .. n + 2
      OBVIOUS
    <3> QED
      BY <1>1, <3>1
  <2>3. ASSUME NEW k \in i .. n PROVE p[k] \in From(i + 1)
    <3>1. k + 1 \in i + 1 .. n + 2 /\ k \in 1 .. n
      OBVIOUS
    <3>2. l[k + 1] = p[k]
      BY <1>1, <3>1
    <3> QED
      BY <3>1, <3>2
  <2> QED
    BY <2>1, <2>2, <2>3
<1>5. ASSUME NEW i \in 1 .. n PROVE e[i + 1] = Best(p, i .. n)
  <2>1. i + 1 \in 1 .. n + 2
    OBVIOUS
  <2> HIDE DEF e, From
  <2>2. e[i + 1] = Max(From(i + 1))
    BY <1>3, <2>1
  <2> QED
    BY <1>4, <2>2 DEF Best
<1>6. e[n + 2] = 0
  <2>1. From(n + 2) = {0}
    <3>1. \A j : j \in n + 2 .. n + 2 <=> j = n + 2
      OBVIOUS
    <3> QED
      BY <1>1, <3>1
  <2>2. n + 2 \in 1 .. n + 2
    OBVIOUS
  <2> HIDE DEF e, From
  <2>3. e[n + 2] = Max({0})
    BY <1>3, <2>1, <2>2
  <2>4. Max({0}) \in {0}
    <3>1. {0} \in SUBSET Int /\ IsFiniteSet({0}) /\ {0} # {}
      <4>1. IsFiniteSet({0})
        BY FS_Singleton
      <4> QED
        BY <4>1
    <3> QED
      BY <3>1, MaxFact
  <2> QED
    BY <2>3, <2>4
<1> QED
  BY <1>5, <1>6 DEF l

\* The precision at each rank.
Rates(hits, n) == [k \in 1 .. n |-> (One * Found(hits, k)) \div k]

LEMMA QuotientMonotone ==
  ASSUME NEW k \in Nat, 0 < k, NEW a \in Nat, NEW b \in Nat, a <= b
  PROVE  a \div k \in Nat /\ a \div k <= b \div k
<1>1. /\ a \div k \in Nat /\ b \div k \in Nat
      /\ k * (a \div k) <= a /\ a < k * (a \div k) + k
      /\ k * (b \div k) <= b /\ b < k * (b \div k) + k
  <2>1. a \div k \in Nat /\ k * (a \div k) <= a /\ a < k * (a \div k) + k
    OBVIOUS
  <2>2. b \div k \in Nat /\ k * (b \div k) <= b /\ b < k * (b \div k) + k
    OBVIOUS
  <2> QED
    BY <2>1, <2>2
<1> DEFINE x == a \div k
           y == b \div k
<1> HIDE DEF x, y
<1>2. x \in Nat /\ y \in Nat /\ k * x <= a /\ a < k * x + k /\ k * y <= b /\ b < k * y + k
  BY <1>1 DEF x, y
<1>3. k * x < k * (y + 1)
  <2>1. k * (y + 1) = k * y + k /\ k * x \in Int /\ k * y \in Int
    BY <1>2
  <2> QED
    BY <1>2, <2>1
<1>4. x < y + 1
  <2> SUFFICES ASSUME y + 1 <= x PROVE FALSE
    BY <1>2
  <2>1. k * (y + 1) <= k * x
    BY <1>2
  <2> QED
    BY <1>2, <1>3, <2>1
<1> QED
  BY <1>2, <1>4 DEF x, y

LEMMA RatesFact ==
  ASSUME NEW n \in Nat, NEW hits \in [1 .. n -> BOOLEAN]
  PROVE  Rates(hits, n) \in [1 .. n -> Nat]
<1>1. ASSUME NEW k \in 1 .. n PROVE (One * Found(hits, k)) \div k \in Nat
  <2>1. Found(hits, k) \in Nat /\ One \in Nat
    BY FoundFact, OneAssumption DEF OneAssumption
  <2>2. One * Found(hits, k) \in Nat
    BY <2>1
  <2> QED
    BY <2>2, QuotientMonotone
<1> QED
  BY <1>1 DEF Rates

\* What the j-th object is worth.
WorthOf(hits, n, j) == Best(Rates(hits, n), {k \in 1 .. n : Found(hits, k) >= j})

LEMMA TotalWorthFact ==
  ASSUME NEW n \in Nat, NEW hits \in [1 .. n -> BOOLEAN], NEW total \in Nat
  PROVE  /\ TotalWorth(hits, total) = Total([j \in 1 .. total |-> WorthOf(hits, n, j)])
         /\ [j \in 1 .. total |-> WorthOf(hits, n, j)] \in [1 .. total -> Nat]
<1> DEFINE K(j) == {k \in 1 .. n : Found(hits, k) >= j}
           Values(j) == {(One * Found(hits, k)) \div k : k \in {k \in DOMAIN hits : Found(hits, k) >= j}}
<1>1. \A j \in 1 .. total : Best(Rates(hits, n), K(j)) = Max({0} \cup Values(j))
  <2> SUFFICES ASSUME NEW j \in 1 .. total PROVE {Rates(hits, n)[k] : k \in K(j)} = Values(j)
    BY DEF Best
  <2>1. DOMAIN hits = 1 .. n
    OBVIOUS
  <2>2. \A k \in 1 .. n : Rates(hits, n)[k] = (One * Found(hits, k)) \div k
    BY DEF Rates
  <2> QED
    BY <2>1, <2>2
<1>2. TotalWorth(hits, total) = Total([j \in 1 .. total |-> Max({0} \cup Values(j))])
  BY DEF TotalWorth, Found
<1>3. [j \in 1 .. total |-> WorthOf(hits, n, j)] = [j \in 1 .. total |-> Max({0} \cup Values(j))]
  <2> HIDE DEF Values
  <2> QED
    BY <1>1 DEF WorthOf
<1>4. \A j \in 1 .. total : WorthOf(hits, n, j) \in Nat
  BY RatesFact, BestFact DEF WorthOf
<1> QED
  BY <1>2, <1>3, <1>4

\* Nothing is added behind the last one.
LEMMA TotalRest ==
  ASSUME NEW n \in Nat, NEW g, NEW w, Sums(g, n, w), NEW m \in 0 .. n,
         \A k \in 1 .. n : k > m => w[k] = 0
  PROVE  g[n] = g[m]
<1> DEFINE A == {k \in 0 .. n - m : g[m + k] = g[m]}
           r == n - m
<1>1. r \in Nat /\ m + r = n
  OBVIOUS
<1>2. 0 \in A
  <2>1. m + 0 = m /\ 0 \in 0 .. n - m
    OBVIOUS
  <2> QED
    BY <2>1
<1>3. ASSUME NEW k \in 0 .. r - 1, k \in A PROVE k + 1 \in A
  <2> DEFINE i == m + (k + 1)
  <2>1. i \in 1 .. n /\ i > m /\ i - 1 = m + k /\ k + 1 \in 0 .. n - m /\ m + k \in 0 .. n
    OBVIOUS
  <2>2. g[m + k] = g[m]
    BY <1>3
  <2> HIDE DEF i
  <2>3. g[i] = g[i - 1] + w[i] /\ w[i] = 0 /\ g[m + k] \in Int
    BY <2>1 DEF Sums
  <2>4. g[i] = g[m]
    BY <2>1, <2>2, <2>3
  <2> QED
    BY <2>1, <2>4 DEF i
<1>4. r \in A
  <2> HIDE DEF A, r
  <2>1. 0 .. r \subseteq A
    BY <1>1, <1>2, <1>3, UpTo
  <2> QED
    BY <1>1, <2>1
<1> QED
  BY <1>1, <1>4

\* The area under the envelope of the precisions is what the objects are worth together.
LEMMA AreaIsWorth ==
  ASSUME NEW n \in Nat, NEW hits \in [1 .. n -> BOOLEAN], NEW total \in Nat, Found(hits, n) <= total
  PROVE  ComputeAp(CumulativeTp(hits), Precision(CumulativeTp(hits)), total) = TotalWorth(hits, total)
<1> DEFINE tp == CumulativeTp(hits)
           rate == Rates(hits, n)
           mrec == <<0>> \o tp \o <<total>>
           mpre == Envelope(<<0>> \o rate \o <<0>>)
           w == [i \in 1 .. n + 1 |-> (mrec[i + 1] - mrec[i]) * mpre[i + 1]]
           worth == [j \in 1 .. total |-> WorthOf(hits, n, j)]
           found == [k \in 0 .. n |-> Found(hits, k)]
<1>1. /\ found \in [0 .. n -> Nat] /\ found[0] = 0 /\ found[n] <= total
      /\ \A k \in 1 .. n : found[k] = IF hits[k] THEN found[k - 1] + 1 ELSE found[k - 1]
  <2>1. 0 \in 0 .. n /\ n \in 0 .. n /\ \A k \in 1 .. n : k \in 0 .. n /\ k - 1 \in 0 .. n
    OBVIOUS
  <2> QED
    BY <2>1, FoundFact
<1>2. tp = [k \in 1 .. n |-> found[k]]
  <2>1. tp = [k \in 1 .. n |-> Found(hits, k)]
    BY DEF CumulativeTp, Found
  <2> QED
    BY <2>1
<1>3. \A a, b \in 0 .. n : a <= b => found[a] <= found[b]
  <2> SUFFICES ASSUME NEW a \in 0 .. n, NEW b \in 0 .. n, a <= b PROVE found[a] <= found[b]
    OBVIOUS
  <2>1. b \in a .. n
    OBVIOUS
  <2> QED
    BY <2>1, FoundGrows
<1>4. Precision(tp) = rate
  <2>1. rate = [k \in 1 .. n |-> (One * found[k]) \div k]
    BY DEF Rates
  <2> HIDE DEF found, rate, tp
  <2> QED
    BY <1>2, <2>1 DEF Precision
<1>5. rate \in [1 .. n -> Nat]
  BY RatesFact
<1>6. tp \in [1 .. n -> Nat] /\ Len(tp) = n
  <2> HIDE DEF found, tp
  <2>1. tp \in [1 .. n -> Nat]
    BY <1>1, <1>2
  <2>2. tp \in Seq(Nat)
    BY <2>1, SeqDef
  <2> QED
    BY <2>1, <2>2, LenProperties
<1>7. ComputeAp(tp, Precision(tp), total) = Total(w)
  <2> HIDE DEF tp, rate
  <2> QED
    BY <1>4, <1>6 DEF ComputeAp
<1>8. TotalWorth(hits, total) = Total(worth) /\ worth \in [1 .. total -> Nat]
  BY TotalWorthFact
<1>9. ASSUME NEW j \in 1 .. total
      PROVE  /\ worth[j] = Best(rate, {k \in 1 .. n : found[k] >= j})
             /\ found[n] < j => worth[j] = 0
  <2>1. worth[j] = Best(rate, {k \in 1 .. n : found[k] >= j})
    <3>1. {k \in 1 .. n : found[k] >= j} = {k \in 1 .. n : Found(hits, k) >= j}
      OBVIOUS
    <3> QED
      BY <3>1 DEF WorthOf
  <2> HIDE DEF found, worth, rate
  <2> DEFINE K == {k \in 1 .. n : found[k] >= j}
  <2>2. found[n] < j => K = {}
    <3>1. \A k \in 1 .. n : k \in 0 .. n /\ n \in 0 .. n /\ k <= n
      OBVIOUS
    <3>2. \A k \in 1 .. n : found[k] <= found[n] /\ found[k] \in Nat /\ found[n] \in Nat
      BY <1>1, <1>3, <3>1
    <3> QED
      BY <3>2
  <2>3. K = {} => Best(rate, K) = 0
    <3>1. K \in SUBSET (1 .. n)
      OBVIOUS
    <3> HIDE DEF K
    <3>2. Best(rate, K) = 0 \/ \E k \in K : Best(rate, K) = rate[k]
      BY <1>5, <3>1, BestFact
    <3> QED
      BY <3>2
  <2> QED
    BY <2>1, <2>2, <2>3
<1> HIDE DEF found, tp, rate
<1>10. /\ mrec \in [1 .. n + 2 -> Nat]
       /\ mrec[1] = 0 /\ (\A i \in 1 .. n : mrec[i + 1] = tp[i]) /\ mrec[n + 2] = total
  BY <1>6, Between
<1>11. /\ \A i \in 1 .. n : mpre[i + 1] = Best(rate, i .. n)
       /\ mpre[n + 2] = 0
  BY <1>5, EnvelopeFact
<1> HIDE DEF mrec, mpre, worth
<1>12. ASSUME NEW i \in 1 .. n
       PROVE  /\ mrec[i + 1] = found[i] /\ mrec[i] = found[i - 1]
              /\ w[i] = (found[i] - found[i - 1]) * Best(rate, i .. n)
  <2>1. mrec[i + 1] = found[i]
    BY <1>2, <1>10
  <2>2. mrec[i] = found[i - 1]
    <3>1. CASE i = 1
      <4>1. i - 1 = 0
        BY <3>1
      <4> QED
        BY <1>1, <1>10, <3>1, <4>1
    <3>2. CASE i # 1
      <4>1. i - 1 \in 1 .. n /\ i - 1 + 1 = i
        BY <3>2
      <4>2. mrec[i - 1 + 1] = tp[i - 1] /\ tp[i - 1] = found[i - 1]
        BY <1>2, <1>10, <4>1
      <4> QED
        BY <4>1, <4>2
    <3> QED
      BY <3>1, <3>2
  <2>3. w[i] = (mrec[i + 1] - mrec[i]) * mpre[i + 1]
    <3>1. i \in 1 .. n + 1
      OBVIOUS
    <3> QED
      BY <3>1
  <2> HIDE DEF w
  <2> QED
    BY <1>11, <2>1, <2>2, <2>3
<1>13. w[n + 1] = 0
  <2>1. n + 1 \in 1 .. n + 1 /\ n + 1 + 1 = n + 2 /\ n + 1 \in 1 .. n + 2 /\ n + 2 \in 1 .. n + 2
    OBVIOUS
  <2>2. w[n + 1] = (mrec[n + 2] - mrec[n + 1]) * mpre[n + 2]
    BY <2>1
  <2>3. mrec[n + 2] \in Nat /\ mrec[n + 1] \in Nat
    BY <1>10, <2>1
  <2> HIDE DEF w
  <2> QED
    BY <1>11, <2>2, <2>3
<1>14. \A i \in 1 .. n : Best(rate, i .. n) \in Nat
  <2> SUFFICES ASSUME NEW i \in 1 .. n PROVE Best(rate, i .. n) \in Nat
    OBVIOUS
  <2>1. i .. n \in SUBSET (1 .. n)
    OBVIOUS
  <2> QED
    BY <1>5, <2>1, BestFact
<1>15. w \in [1 .. n + 1 -> Int]
  <2>1. ASSUME NEW i \in 1 .. n + 1 PROVE w[i] \in Int
    <3>1. CASE i = n + 1
      <4> HIDE DEF w
      <4> QED
        BY <1>13, <3>1
    <3>2. CASE i # n + 1
      <4>1. i \in 1 .. n /\ i \in 0 .. n /\ i - 1 \in 0 .. n
        BY <3>2
      <4>2. found[i] \in Nat /\ found[i - 1] \in Nat /\ Best(rate, i .. n) \in Nat
        BY <1>1, <1>14, <4>1
      <4>3. w[i] = (found[i] - found[i - 1]) * Best(rate, i .. n)
        <5> HIDE DEF w
        <5> QED
          BY <1>12, <4>1
      <4> HIDE DEF w
      <4> QED
        BY <4>2, <4>3
    <3> QED
      BY <3>1, <3>2
  <2>2. w = [i \in 1 .. n + 1 |-> w[i]]
    OBVIOUS
  <2> HIDE DEF w
  <2> QED
    BY <2>1, <2>2
<1> HIDE DEF w
<1>16. PICK f : Sums(f, n + 1, w) /\ Total(w) = f[n + 1]
  <2>1. n + 1 \in Nat
    OBVIOUS
  <2> QED
    BY <1>15, <2>1, TotalFact
<1>17. PICK g : Sums(g, total, worth) /\ Total(worth) = g[total]
  <2>1. worth \in [1 .. total -> Int]
    BY <1>8
  <2> QED
    BY <2>1, TotalFact
<1> DEFINE A == {i \in 0 .. n : f[i] = g[found[i]]}
<1>18. 0 \in A
  BY <1>1, <1>16, <1>17 DEF Sums
<1>19. ASSUME NEW h \in 0 .. n - 1, h \in A PROVE h + 1 \in A
  <2> DEFINE i == h + 1
             b == Best(rate, i .. n)
  <2>1. i \in 1 .. n /\ i \in 0 .. n /\ i \in 1 .. n + 1 /\ i - 1 = h /\ h \in 0 .. n /\ h \in 0 .. n + 1
    OBVIOUS
  <2>2. f[h] = g[found[h]]
    BY <1>19
  <2> HIDE DEF i, b
  <2>3. f[i] = f[h] + w[i] /\ w[i] = (found[i] - found[h]) * b /\ b \in Nat /\ f[h] \in Int
    BY <1>12, <1>14, <1>16, <2>1 DEF Sums, b
  <2>4. found[i] \in Nat /\ found[h] \in Nat /\ found[i] = IF hits[i] THEN found[h] + 1 ELSE found[h]
    BY <1>1, <2>1
  <2>5. CASE ~ hits[i]
    <3>1. w[i] = 0
      <4>1. found[i] - found[h] = 0
        BY <2>4, <2>5
      <4> QED
        BY <2>3, <4>1
    <3>2. f[i] = f[h] /\ found[i] = found[h]
      BY <2>3, <2>4, <2>5, <3>1
    <3> QED
      BY <2>1, <2>2, <3>2 DEF i
  <2>6. CASE hits[i]
    <3> DEFINE j == found[i]
    <3>1. w[i] = b
      <4>1. found[i] - found[h] = 1
        BY <2>4, <2>6
      <4> QED
        BY <2>3, <4>1
    <3>2. j \in 1 .. total /\ j - 1 = found[h]
      <4>1. j <= found[n] /\ found[n] \in Nat
        BY <1>1, <1>3, <2>1
      <4> QED
        BY <1>1, <2>4, <2>6, <4>1
    <3>3. {k \in 1 .. n : found[k] >= j} = i .. n
      <4>1. ASSUME NEW k \in 1 .. n PROVE found[k] >= j <=> k \in i .. n
        <5>1. k \in 0 .. n /\ found[k] \in Nat
          BY <1>1
        <5>2. CASE k \in i .. n
          <6>1. found[i] <= found[k]
            BY <1>3, <2>1, <5>1, <5>2
          <6> QED
            BY <2>4, <5>1, <5>2, <6>1
        <5>3. CASE k \notin i .. n
          <6>1. k <= h
            BY <2>1, <5>3
          <6>2. found[k] <= found[h]
            BY <1>3, <2>1, <5>1, <6>1
          <6> QED
            BY <2>4, <2>6, <5>1, <5>3, <6>2
        <5> QED
          BY <5>2, <5>3
      <4>2. i .. n \subseteq 1 .. n
        BY <2>1
      <4> QED
        BY <4>1, <4>2
    <3> HIDE DEF j
    <3>4. worth[j] = b
      BY <1>9, <3>2, <3>3 DEF b
    <3>5. g[j] = g[j - 1] + worth[j]
      BY <1>17, <3>2 DEF Sums
    <3>6. g[j] = f[i]
      BY <2>2, <2>3, <3>1, <3>2, <3>4, <3>5
    <3> QED
      BY <2>1, <3>6 DEF j, i
  <2> QED
    BY <2>5, <2>6
<1>20. f[n] = g[found[n]]
  <2>1. n \in A
    <3> HIDE DEF A
    <3>1. 0 .. n \subseteq A
      BY <1>18, <1>19, UpTo
    <3> QED
      BY <3>1
  <2> QED
    BY <2>1
<1>21. f[n + 1] = f[n]
  <2>1. n + 1 \in 1 .. n + 1 /\ n + 1 - 1 = n /\ n \in 0 .. n + 1
    OBVIOUS
  <2>2. f[n + 1] = f[n] + w[n + 1] /\ f[n] \in Int
    BY <1>16, <2>1 DEF Sums
  <2> QED
    BY <1>13, <2>2
<1>22. g[total] = g[found[n]]
  <2> DEFINE m == found[n]
  <2>1. m \in 0 .. total
    BY <1>1
  <2>2. \A k \in 1 .. total : k > m => worth[k] = 0
    BY <1>9, <2>1
  <2> HIDE DEF m
  <2>3. g[total] = g[m]
    BY <1>17, <2>1, <2>2, TotalRest
  <2> QED
    BY <2>3 DEF m
<1> QED
  BY <1>7, <1>8, <1>16, <1>17, <1>20, <1>21, <1>22 DEF tp

-----------------------------------------------------------------------------
(* True positives are the first to claim an annotation                       *)

Boxes == [1 .. 4 -> Int]

LEMMA NextUpTo ==
  ASSUME NEW m \in Nat
  PROVE  \A k : k \in 1 .. m + 1 <=> k \in 1 .. m \/ k = m + 1
OBVIOUS

LEMMA ProductLess ==
  ASSUME NEW x \in Int, NEW y \in Int, NEW f \in Int, 0 < f
  PROVE  x < y <=> x * f < y * f
OBVIOUS

\* Of three ratios, the first above the second and the third no more than that.
LEMMA CrossFact ==
  ASSUME NEW a \in Nat, NEW b \in Nat, NEW c \in Nat, NEW d \in Nat, NEW e \in Nat, NEW f \in Nat,
         0 < b, 0 < d, 0 < f, c * b < a * d, e * d <= c * f
  PROVE  e * b < a * f
<1>1. (c * b) * f < (a * d) * f
  <2> DEFINE x == c * b
             y == a * d
  <2>1. x \in Int /\ y \in Int /\ x < y
    OBVIOUS
  <2> HIDE DEF x, y
  <2>2. x * f < y * f
    BY <2>1, ProductLess
  <2> QED
    BY <2>2 DEF x, y
<1>2. (e * d) * b <= (c * f) * b
  <2> DEFINE x == c * f
             y == e * d
  <2>1. x \in Int /\ y \in Int /\ ~ (x < y)
    OBVIOUS
  <2> HIDE DEF x, y
  <2>2. ~ (x * b < y * b) /\ x * b \in Int /\ y * b \in Int
    BY <2>1, ProductLess
  <2>3. y * b <= x * b
    BY <2>2
  <2> QED
    BY <2>3 DEF x, y
<1>3. (c * b) * f = (c * f) * b /\ (a * d) * f = (a * f) * d /\ (e * d) * b = (e * b) * d
  OBVIOUS
<1> DEFINE x == e * b
           y == a * f
           z == (c * f) * b
<1>4. x \in Int /\ y \in Int /\ z \in Int
  OBVIOUS
<1>5. x * d <= z /\ z < y * d
  BY <1>1, <1>2, <1>3
<1> HIDE DEF x, y, z
<1>6. x * d < y * d
  <2>1. x * d \in Int /\ y * d \in Int
    BY <1>4
  <2> QED
    BY <1>4, <1>5, <2>1
<1>7. x < y
  BY <1>4, <1>6, ProductLess
<1> QED
  BY <1>7 DEF x, y

\* The first of the greatest ratios of n.
LEMMA FirstBest ==
  ASSUME NEW n \in Nat, 0 < n, NEW I \in [1 .. n -> Nat], NEW U \in [1 .. n -> Nat],
         (\A j \in 1 .. n : 0 < U[j]) \/ (\A j \in 1 .. n : I[j] = 0)
  PROVE  \E j \in 1 .. n : \A k \in (1 .. n) \ {j} :
            I[k] * U[j] < I[j] * U[k] \/ (I[j] * U[k] = I[k] * U[j] /\ j < k)
<1>1. CASE \A j \in 1 .. n : I[j] = 0
  <2>1. 1 \in 1 .. n
    OBVIOUS
  <2>2. ASSUME NEW k \in (1 .. n) \ {1} PROVE I[1] * U[k] = I[k] * U[1] /\ 1 < k
    <3>1. I[1] = 0 /\ I[k] = 0 /\ U[1] \in Nat /\ U[k] \in Nat
      BY <1>1, <2>1
    <3>2. 0 * U[k] = 0 /\ 0 * U[1] = 0
      BY <3>1
    <3> QED
      BY <3>1, <3>2
  <2> QED
    BY <2>1, <2>2
<1>2. CASE \A j \in 1 .. n : 0 < U[j]
  <2> DEFINE Above(j, k) == I[k] * U[j] < I[j] * U[k]
             Level(j, k) == I[j] * U[k] = I[k] * U[j]
             First(j, m) == \A k \in (1 .. m) \ {j} : Above(j, k) \/ (Level(j, k) /\ j < k)
             A == {m \in 0 .. n : m = 0 \/ \E j \in 1 .. m : First(j, m)}
  <2>1. \A j, k \in 1 .. n : I[j] * U[k] \in Nat
    OBVIOUS
  <2>2. \A j, k, l \in 1 .. n : Above(j, k) /\ (Above(k, l) \/ Level(k, l)) => Above(j, l)
    <3> SUFFICES ASSUME NEW j \in 1 .. n, NEW k \in 1 .. n, NEW l \in 1 .. n,
                        Above(j, k), Above(k, l) \/ Level(k, l)
                 PROVE  Above(j, l)
      OBVIOUS
    <3>1. /\ I[j] \in Nat /\ I[k] \in Nat /\ I[l] \in Nat /\ U[j] \in Nat /\ U[k] \in Nat /\ U[l] \in Nat
          /\ 0 < U[j] /\ 0 < U[k] /\ 0 < U[l]
      BY <1>2
    <3>2. I[k] * U[j] < I[j] * U[k]
      OBVIOUS
    <3>3. I[l] * U[k] <= I[k] * U[l]
      <4> DEFINE x == I[l] * U[k]
                 y == I[k] * U[l]
      <4>1. x \in Int /\ y \in Int
        BY <3>1
      <4>2. x < y \/ y = x
        OBVIOUS
      <4> HIDE DEF x, y
      <4>3. x <= y
        BY <4>1, <4>2
      <4> QED
        BY <4>3 DEF x, y
    <3> QED
      BY <3>1, <3>2, <3>3, CrossFact
  <2>3. \A j, k \in 1 .. n : Above(k, j) \/ Above(j, k) \/ Level(j, k)
    <3> SUFFICES ASSUME NEW j \in 1 .. n, NEW k \in 1 .. n
                 PROVE  Above(k, j) \/ Above(j, k) \/ Level(j, k)
      OBVIOUS
    <3> DEFINE x == I[j] * U[k]
               y == I[k] * U[j]
    <3>1. x \in Int /\ y \in Int
      BY <2>1
    <3> HIDE DEF x, y
    <3>2. x < y \/ y < x \/ x = y
      BY <3>1
    <3> QED
      BY <3>2 DEF x, y
  <2>4. 0 \in A
    OBVIOUS
  <2>5. ASSUME NEW m \in 0 .. n - 1, m \in A PROVE m + 1 \in A
    <3>4. m = 0 \/ \E j \in 1 .. m : First(j, m)
      BY <2>5
    <3> HIDE DEF Above, Level
    <3>1. m + 1 \in 1 .. n /\ m + 1 \in 0 .. n /\ m + 1 \in 1 .. m + 1
      OBVIOUS
    <3>2. \A k : k \in 1 .. m + 1 <=> k \in 1 .. m \/ k = m + 1
      <4> HIDE DEF A, First
      <4>1. m \in Nat
        OBVIOUS
      <4> QED
        BY <4>1, NextUpTo
    <3>3. 1 .. m \subseteq 1 .. n /\ \A k \in 1 .. m : k < m + 1
      OBVIOUS
    <3>5. CASE m = 0
      <4>1. First(m + 1, m + 1)
        BY <3>5
      <4> HIDE DEF First
      <4> QED
        BY <3>1, <4>1
    <3>6. ASSUME NEW j \in 1 .. m, First(j, m) PROVE m + 1 \in A
      <4>1. j \in 1 .. n /\ j \in 1 .. m + 1 /\ j < m + 1
        BY <3>2, <3>3
      <4>2. CASE Above(m + 1, j)
        <5>1. ASSUME NEW k \in 1 .. m PROVE Above(m + 1, k)
          <6>1. k \in 1 .. n
            BY <3>3
          <6>2. k = j \/ Above(j, k) \/ Level(j, k)
            BY <3>6
          <6> QED
            BY <2>2, <3>1, <4>1, <4>2, <6>1, <6>2
        <5>2. First(m + 1, m + 1)
          BY <3>2, <5>1
        <5> HIDE DEF First
        <5> QED
          BY <3>1, <5>2
      <4>3. CASE ~ Above(m + 1, j)
        <5>1. Above(j, m + 1) \/ Level(j, m + 1)
          BY <2>3, <3>1, <4>1, <4>3
        <5>2. First(j, m + 1)
          BY <3>2, <3>6, <4>1, <5>1
        <5> HIDE DEF First
        <5> QED
          BY <3>1, <4>1, <5>2
      <4> QED
        BY <4>2, <4>3
    <3> HIDE DEF First, A
    <3> QED
      BY <3>4, <3>5, <3>6
  <2>6. n \in A
    <3> HIDE DEF A
    <3>1. 0 .. n \subseteq A
      BY <2>4, <2>5, UpTo
    <3> QED
      BY <3>1
  <2> QED
    BY <2>6
<1> QED
  BY <1>1, <1>2

\* Two boxes share no more than either has.
LEMMA OverlapFact ==
  ASSUME NEW a \in Boxes, NEW b \in Boxes
  PROVE  /\ Intersection(a, b) \in Nat /\ Union(a, b) \in Nat
         /\ Intersection(a, b) = 0 \/ 0 < Union(a, b)
         /\ Area(a) \in Nat
         /\ Area(a) = 0 => Intersection(a, b) = 0
         /\ 0 < Area(a) => 0 < Union(a, b)
<1>1. ASSUME NEW axis \in {1, 2}
      PROVE  /\ Shared(a, b, axis) \in Nat /\ Extent(a, axis) \in Nat /\ Extent(b, axis) \in Nat
             /\ Shared(a, b, axis) <= Extent(a, axis) /\ Shared(a, b, axis) <= Extent(b, axis)
  <2>1. axis \in 1 .. 4 /\ axis + 2 \in 1 .. 4
    OBVIOUS
  <2>2. a[axis] \in Int /\ a[axis + 2] \in Int /\ b[axis] \in Int /\ b[axis + 2] \in Int
    BY <2>1 DEF Boxes
  <2> QED
    BY <2>2 DEF Shared, Extent, Larger, Smaller
<1> DEFINE s1 == Shared(a, b, 1)
           s2 == Shared(a, b, 2)
           a1 == Extent(a, 1)
           a2 == Extent(a, 2)
           b1 == Extent(b, 1)
           b2 == Extent(b, 2)
<1>2. /\ s1 \in Nat /\ s2 \in Nat /\ a1 \in Nat /\ a2 \in Nat /\ b1 \in Nat /\ b2 \in Nat
      /\ s1 <= a1 /\ s2 <= a2 /\ s1 <= b1 /\ s2 <= b2
  BY <1>1
<1>3. Intersection(a, b) = s1 * s2 /\ Area(a) = a1 * a2 /\ Area(b) = b1 * b2
  BY DEF Intersection, Area
<1> HIDE DEF s1, s2, a1, a2, b1, b2
<1>4. \A x, y, u, v \in Nat : x <= u /\ y <= v => x * y <= u * v
  <2> SUFFICES ASSUME NEW x \in Nat, NEW y \in Nat, NEW u \in Nat, NEW v \in Nat, x <= u, y <= v
               PROVE  x * y <= u * v
    OBVIOUS
  <2>1. x * y <= u * y /\ u * y <= u * v
    OBVIOUS
  <2>2. x * y \in Nat /\ u * y \in Nat /\ u * v \in Nat
    OBVIOUS
  <2> QED
    BY <2>1, <2>2
<1> DEFINE i == s1 * s2
           x == a1 * a2
           y == b1 * b2
<1>5. i <= x /\ i <= y /\ i \in Nat /\ x \in Nat /\ y \in Nat
  BY <1>2, <1>4
<1>6. Intersection(a, b) = i /\ Area(a) = x /\ Union(a, b) = x + y - i
  BY <1>3 DEF Union
<1> HIDE DEF i, x, y
<1> QED
  BY <1>5, <1>6

\* A detection is assigned an annotation, if there is one.
LEMMA AssignedFact ==
  ASSUME NEW det, det.box \in Boxes, NEW annotations \in Seq(Boxes), annotations # <<>>
  PROVE  Assigned(det, annotations) \in DOMAIN annotations
<1> DEFINE n == Len(annotations)
           I == [j \in 1 .. n |-> Intersection(det.box, annotations[j])]
           U == [j \in 1 .. n |-> Union(det.box, annotations[j])]
           Beats(j, k) ==
             LET mine   == Intersection(det.box, annotations[j]) * Union(det.box, annotations[k])
                 theirs == Intersection(det.box, annotations[k]) * Union(det.box, annotations[j])
             IN  mine > theirs \/ (mine = theirs /\ j < k)
<1>1. n \in Nat /\ DOMAIN annotations = 1 .. n /\ 0 < n /\ \A j \in 1 .. n : annotations[j] \in Boxes
  <2>1. n \in Nat /\ DOMAIN annotations = 1 .. n /\ \A j \in DOMAIN annotations : annotations[j] \in Boxes
    BY SeqDomain
  <2>2. n # 0
    BY EmptySeq
  <2> QED
    BY <2>1, <2>2
<1> HIDE DEF n
<1>2. /\ \A j \in 1 .. n : Intersection(det.box, annotations[j]) \in Nat /\ Union(det.box, annotations[j]) \in Nat
      /\ \/ \A j \in 1 .. n : 0 < Union(det.box, annotations[j])
         \/ \A j \in 1 .. n : Intersection(det.box, annotations[j]) = 0
  <2>1. 1 \in 1 .. n
    BY <1>1
  <2>2. Area(det.box) \in Nat
    BY <1>1, <2>1, OverlapFact
  <2>3. Area(det.box) = 0 \/ 0 < Area(det.box)
    BY <2>2
  <2> QED
    BY <1>1, <2>3, OverlapFact
<1>3. /\ I \in [1 .. n -> Nat] /\ U \in [1 .. n -> Nat]
      /\ (\A j \in 1 .. n : 0 < U[j]) \/ (\A j \in 1 .. n : I[j] = 0)
  BY <1>2
<1>4. \E j \in 1 .. n : \A k \in (1 .. n) \ {j} :
            I[k] * U[j] < I[j] * U[k] \/ (I[j] * U[k] = I[k] * U[j] /\ j < k)
  <2> HIDE DEF I, U
  <2> QED
    BY <1>1, <1>3, FirstBest
<1>5. PICK j \in 1 .. n : \A k \in (1 .. n) \ {j} : Beats(j, k)
  BY <1>4
<1>6. Assigned(det, annotations) = CHOOSE i \in 1 .. n : \A k \in (1 .. n) \ {i} : Beats(i, k)
  BY <1>1 DEF Assigned
<1> HIDE DEF Beats
<1> QED
  BY <1>1, <1>5, <1>6

Claims(dets, annotations, i, j, t) ==
    Assigned(dets[i], annotations) = j /\ IoU(dets[i].box, annotations[j], <<t, 100>>)

\* The first one to claim an annotation is true, and no other.
LEMMA TrueFact ==
  ASSUME NEW dets \in Seq(Detection), NEW annotations \in Seq(Boxes), NEW t
  PROVE  TruePositives(dets, annotations, t) = [k \in DOMAIN dets |-> IsTrue(dets, annotations, k, t)]
<1> DEFINE n == Len(dets)
           J == DOMAIN annotations
           Hit(det, detected) ==
             /\ annotations # <<>>
             /\ IoU(det.box, annotations[Assigned(det, annotations)], <<t, 100>>)
             /\ NotYet(Assigned(det, annotations), detected)
           Mark(detected, det) ==
             IF Hit(det, detected) THEN detected \cup {Assigned(det, annotations)} ELSE detected
           Equation(v) == v = [k \in 0 .. n |-> IF k = 0 THEN {} ELSE Mark(v[k - 1], dets[k])]
           marked == CHOOSE v : Equation(v)
           step == [p \in (1 .. n) \X SUBSET J |-> Mark(p[2], dets[p[1]])]
<1>1. n \in Nat /\ DOMAIN dets = 1 .. n /\ \A k \in 1 .. n : dets[k].box \in Boxes
  <2>1. n \in Nat /\ DOMAIN dets = 1 .. n /\ \A k \in DOMAIN dets : dets[k] \in Detection
    BY SeqDomain
  <2>2. \A d \in Detection : d.box \in Boxes
    BY DEF Detection, Boxes
  <2> QED
    BY <2>1, <2>2
<1>2. annotations # <<>> => \A k \in 1 .. n : Assigned(dets[k], annotations) \in J
  BY <1>1, AssignedFact
<1>3. TruePositives(dets, annotations, t) = [k \in 1 .. n |-> Hit(dets[k], marked[k - 1])]
  BY <1>1 DEF TruePositives
<1> HIDE DEF n, J
<1>4. step \in StepFunctions(n, SUBSET J)
  <2>1. \A p \in (1 .. n) \X SUBSET J : Mark(p[2], dets[p[1]]) \in SUBSET J
    <3> SUFFICES ASSUME NEW p \in (1 .. n) \X SUBSET J PROVE Mark(p[2], dets[p[1]]) \in SUBSET J
      OBVIOUS
    <3> DEFINE k == p[1]
               s == p[2]
    <3>2. k \in 1 .. n /\ s \in SUBSET J
      OBVIOUS
    <3> HIDE DEF k, s
    <3>3. Hit(dets[k], s) => Assigned(dets[k], annotations) \in J
      BY <1>2, <3>2
    <3>4. Mark(s, dets[k]) \in SUBSET J
      <4> HIDE DEF Hit
      <4> QED
        BY <3>2, <3>3
    <3> QED
      BY <3>4 DEF k, s
  <2> HIDE DEF Mark
  <2> QED
    BY <2>1 DEF StepFunctions
<1>5. PICK f \in [0 .. n -> SUBSET J] : f[0] = {} /\ \A k \in 1 .. n : f[k] = step[<<k, f[k - 1]>>]
  <2> HIDE DEF step
  <2>1. {} \in SUBSET J
    OBVIOUS
  <2>2. \E f : Steps(f, n, SUBSET J, {}, step)
    BY <1>1, <1>4, <2>1, Recursion
  <2> QED
    BY <2>2 DEF Steps
<1> HIDE DEF Mark
<1>6. Equation(f)
  <2>1. \A k \in 1 .. n : k - 1 \in 0 .. n /\ f[k - 1] \in SUBSET J
    BY <1>1, <1>5
  <2>2. \A k \in 1 .. n : f[k] = Mark(f[k - 1], dets[k])
    BY <1>5, <2>1
  <2>3. \A k \in 0 .. n : f[k] = IF k = 0 THEN {} ELSE Mark(f[k - 1], dets[k])
    BY <1>1, <1>5, <2>2
  <2> QED
    BY <1>5, <2>3
<1>7. Equation(marked)
  <2> HIDE DEF Equation
  <2> QED
    BY <1>6
<1> HIDE DEF marked
<1>8. marked[0] = {} /\ \A k \in 1 .. n : marked[k] = Mark(marked[k - 1], dets[k])
  <2>1. \A k \in 0 .. n : marked[k] = IF k = 0 THEN {} ELSE Mark(marked[k - 1], dets[k])
    BY <1>7
  <2>2. 0 \in 0 .. n /\ \A k \in 1 .. n : k \in 0 .. n /\ k # 0
    BY <1>1
  <2> QED
    BY <2>1, <2>2
<1> DEFINE By(k) == {j \in J : \E i \in 1 .. k : Claims(dets, annotations, i, j, t)}
           True(k) == \E j \in J : /\ Claims(dets, annotations, k, j, t)
                                   /\ \A i \in 1 .. k - 1 : ~ Claims(dets, annotations, i, j, t)
<1>9. ASSUME NEW k \in 1 .. n, marked[k - 1] = By(k - 1)
      PROVE  (Hit(dets[k], marked[k - 1]) <=> True(k)) /\ marked[k] = By(k)
  <2> DEFINE a == Assigned(dets[k], annotations)
  <2>1. \A i : i \in 1 .. k <=> i \in 1 .. k - 1 \/ i = k
    BY <1>1
  <2>2. \A j : Claims(dets, annotations, k, j, t) <=> j = a /\ IoU(dets[k].box, annotations[a], <<t, 100>>)
    BY DEF Claims
  <2>3. J # {} <=> annotations # <<>>
    <3> DEFINE m == Len(annotations)
    <3>1. m \in Nat /\ J = 1 .. m /\ (annotations # <<>> => m # 0)
      BY LenProperties, EmptySeq DEF J
    <3>2. annotations = <<>> => m = 0
      OBVIOUS
    <3> HIDE DEF m
    <3>3. CASE m = 0
      BY <3>1, <3>3
    <3>4. CASE m # 0
      <4>1. 1 \in J
        BY <3>1, <3>4
      <4> QED
        BY <3>2, <3>4, <4>1
    <3> QED
      BY <3>3, <3>4
  <2>4. annotations # <<>> => a \in J
    BY <1>2
  <2>5. Hit(dets[k], marked[k - 1]) <=>
          /\ annotations # <<>> /\ IoU(dets[k].box, annotations[a], <<t, 100>>) /\ a \notin By(k - 1)
    BY <1>9 DEF NotYet
  <2>6. marked[k] = IF Hit(dets[k], marked[k - 1]) THEN marked[k - 1] \cup {a} ELSE marked[k - 1]
    BY <1>8 DEF Mark
  <2> HIDE DEF a, Hit
  <2>7. Hit(dets[k], marked[k - 1]) <=> True(k)
    BY <2>2, <2>3, <2>4, <2>5
  <2>8. \A j : j \in By(k) <=> j \in By(k - 1) \/ (j \in J /\ Claims(dets, annotations, k, j, t))
    BY <2>1
  <2>9. marked[k] = By(k)
    <3> DEFINE b == By(k)
               o == By(k - 1)
    <3>1. /\ \A j : j \in b <=> j \in o \/ (j \in J /\ j = a /\ IoU(dets[k].box, annotations[a], <<t, 100>>))
          /\ o \subseteq J /\ marked[k - 1] = o
      BY <1>9, <2>2, <2>8
    <3>2. CASE annotations = <<>>
      <4>1. marked[k] = o /\ J = {}
        BY <2>3, <2>5, <2>6, <3>1, <3>2
      <4> HIDE DEF b, o, By
      <4>2. b = o
        BY <3>1, <4>1
      <4> QED
        BY <4>1, <4>2 DEF b
    <3>3. CASE annotations # <<>>
      <4>1. a \in J
        BY <2>4, <3>3
      <4>2. Hit(dets[k], marked[k - 1]) <=> IoU(dets[k].box, annotations[a], <<t, 100>>) /\ a \notin o
        BY <2>5, <3>3
      <4> HIDE DEF b, o, By
      <4>3. marked[k] = b
        BY <2>6, <3>1, <4>1, <4>2
      <4> QED
        BY <4>3 DEF b
    <3> QED
      BY <3>2, <3>3
  <2> QED
    BY <2>7, <2>9
<1>10. \A k \in 0 .. n : marked[k] = By(k)
  <2> DEFINE A == {k \in 0 .. n : marked[k] = By(k)}
  <2>1. 0 \in A
    BY <1>1, <1>8
  <2>2. ASSUME NEW k \in 0 .. n - 1, k \in A PROVE k + 1 \in A
    <3>1. k + 1 \in 1 .. n /\ k + 1 - 1 = k /\ k + 1 \in 0 .. n
      BY <1>1
    <3>2. marked[k] = By(k)
      BY <2>2
    <3> DEFINE i == k + 1
    <3>3. i \in 1 .. n /\ i - 1 = k
      BY <3>1
    <3> HIDE DEF i, By
    <3>4. marked[i] = By(i)
      BY <1>9, <3>2, <3>3
    <3> QED
      BY <3>1, <3>4 DEF i
  <2> HIDE DEF A
  <2>3. 0 .. n \subseteq A
    BY <1>1, <2>1, <2>2, UpTo
  <2> QED
    BY <2>3 DEF A
<1>11. ASSUME NEW k \in 1 .. n PROVE Hit(dets[k], marked[k - 1]) <=> True(k)
  <2>1. k - 1 \in 0 .. n
    BY <1>1
  <2> HIDE DEF By, Hit, True
  <2> QED
    BY <1>9, <1>10, <2>1
<1>12. \A k \in 1 .. n : IsTrue(dets, annotations, k, t) <=> True(k)
  BY DEF IsTrue, Claims, J
<1>13. ASSUME NEW k \in 1 .. n PROVE Hit(dets[k], marked[k - 1]) = IsTrue(dets, annotations, k, t)
  <2>1. Hit(dets[k], marked[k - 1]) \in BOOLEAN /\ IsTrue(dets, annotations, k, t) \in BOOLEAN
    BY DEF IsTrue
  <2> HIDE DEF Hit, True
  <2> QED
    BY <1>11, <1>12, <2>1
<1> HIDE DEF Hit
<1> QED
  BY <1>1, <1>3, <1>13

-----------------------------------------------------------------------------
(* What a stricter threshold finds                                           *)

LEMMA OneTrue ==
  ASSUME NEW dets, NEW annotations, NEW t, NEW k \in Nat \ {0}, IsTrue(dets, annotations, k, t)
  PROVE  /\ Assigned(dets[k], annotations) \in DOMAIN annotations
         /\ Claims(dets, annotations, k, Assigned(dets[k], annotations), t)
         /\ \A i \in 1 .. k - 1 : ~ Claims(dets, annotations, i, Assigned(dets[k], annotations), t)
BY DEF IsTrue, Claims

\* An annotation is found once.
LEMMA FoundOnce ==
  ASSUME NEW dets, NEW annotations, NEW t, NEW k \in Nat \ {0}, NEW l \in Nat \ {0},
         IsTrue(dets, annotations, k, t), IsTrue(dets, annotations, l, t),
         Assigned(dets[k], annotations) = Assigned(dets[l], annotations)
  PROVE  k = l
<1> DEFINE j == Assigned(dets[k], annotations)
<1>1. /\ Claims(dets, annotations, k, j, t) /\ \A i \in 1 .. k - 1 : ~ Claims(dets, annotations, i, j, t)
      /\ Claims(dets, annotations, l, j, t) /\ \A i \in 1 .. l - 1 : ~ Claims(dets, annotations, i, j, t)
  BY OneTrue
<1> HIDE DEF j
<1>2. k \notin 1 .. l - 1 /\ l \notin 1 .. k - 1
  BY <1>1
<1> QED
  BY <1>2

\* What reaches a threshold reaches a lower one.
LEMMA LowerThreshold ==
  ASSUME NEW a \in Boxes, NEW b \in Boxes, NEW s \in Nat, NEW t \in Nat, s <= t, IoU(a, b, <<t, 100>>)
  PROVE  IoU(a, b, <<s, 100>>)
<1> DEFINE both == Intersection(a, b)
           all == Union(a, b)
<1>1. both \in Nat /\ all \in Nat
  BY OverlapFact
<1>2. all > 0 /\ both * 100 >= all * t
  BY DEF IoU, AtLeast, Union
<1>3. IoU(a, b, <<s, 100>>) <=> all > 0 /\ both * 100 >= all * s
  BY DEF IoU, AtLeast, Union
<1> HIDE DEF both, all
<1>4. all * s <= all * t /\ all * s \in Nat /\ all * t \in Nat /\ both * 100 \in Nat
  BY <1>1
<1> QED
  BY <1>2, <1>3, <1>4

\* At a lower threshold the same annotation is found no later.
LEMMA FoundEarlier ==
  ASSUME NEW dets \in Seq(Detection), NEW annotations \in Seq(Boxes), NEW k \in DOMAIN dets,
         NEW s \in Nat, NEW t \in Nat, s <= t, IsTrue(dets, annotations, k, t)
  PROVE  \E l \in 1 .. k : /\ IsTrue(dets, annotations, l, s)
                           /\ Assigned(dets[l], annotations) = Assigned(dets[k], annotations)
<1> DEFINE j == Assigned(dets[k], annotations)
           T == {i \in 1 .. k : Claims(dets, annotations, i, j, s)}
<1>1. k \in Nat \ {0} /\ k \in 1 .. k /\ dets[k].box \in Boxes
  <2>1. DOMAIN dets = 1 .. Len(dets) /\ Len(dets) \in Nat /\ dets[k] \in Detection
    BY SeqDomain
  <2> DEFINE m == Len(dets)
  <2>2. k \in 1 .. m /\ m \in Nat
    BY <2>1
  <2> HIDE DEF m
  <2>3. k \in Nat \ {0} /\ k \in 1 .. k
    BY <2>2
  <2>4. dets[k].box \in Boxes
    BY <2>1 DEF Detection, Boxes
  <2> QED
    BY <2>3, <2>4
<1>2. j \in DOMAIN annotations /\ Claims(dets, annotations, k, j, t)
  BY <1>1, OneTrue
<1>3. annotations[j] \in Boxes
  BY <1>2, SeqDomain
<1>4. Claims(dets, annotations, k, j, s)
  <2> HIDE DEF j
  <2> QED
    BY <1>1, <1>2, <1>3, LowerThreshold DEF Claims
<1>5. k \in T /\ T \in SUBSET Nat
  BY <1>1, <1>4
<1>6. PICK l \in T : \A y \in T : l <= y
  <2> HIDE DEF T
  <2>1. T # {}
    BY <1>5
  <2> QED
    BY <1>5, <2>1, LeastNat
<1>7. l \in 1 .. k /\ Claims(dets, annotations, l, j, s)
  OBVIOUS
<1>8. \A i \in 1 .. l - 1 : ~ Claims(dets, annotations, i, j, s)
  <2> SUFFICES ASSUME NEW i \in 1 .. l - 1, Claims(dets, annotations, i, j, s) PROVE FALSE
    OBVIOUS
  <2>1. i \in 1 .. k /\ i < l /\ i \in Nat /\ l \in Nat
    BY <1>1, <1>7
  <2>2. i \in T
    BY <2>1
  <2> HIDE DEF T
  <2>3. l <= i
    BY <1>6, <2>2
  <2> QED
    BY <2>1, <2>3
<1>9. Assigned(dets[l], annotations) = j
  BY <1>7 DEF Claims
<1>10. IsTrue(dets, annotations, l, s)
  BY <1>2, <1>7, <1>8 DEF IsTrue, Claims
<1> HIDE DEF T
<1> QED
  BY <1>7, <1>9, <1>10

-----------------------------------------------------------------------------
(* All of a class                                                            *)

\* Lists of detections or annotations, frame by frame.
Framed(frames, n, E) == DOMAIN frames = 1 .. n /\ \A i \in 1 .. n : frames[i] \in Seq(E)

LEMMA OfLabelFact ==
  ASSUME NEW E, NEW s \in Seq(E), NEW c
  PROVE  /\ OfLabel(s, c) \in Seq(E)
         /\ Untied(s) => Untied(OfLabel(s, c))
<1> DEFINE keep == {k \in DOMAIN s : s[k].label = c}
<1>1. keep \in SUBSET DOMAIN s /\ OfLabel(s, c) = Index(s, keep)
  BY DEF OfLabel
<1> HIDE DEF keep
<1> QED
  BY <1>1, IndexFact

LEMMA PoolFact ==
  ASSUME NEW n \in Nat, NEW E, NEW frames, Framed(frames, n, E), NEW c
  PROVE  /\ IsFiniteSet(Pool(frames, c))
         /\ \A i \in 1 .. n : \A k \in DOMAIN OfLabel(frames[i], c) : <<i, k>> \in Pool(frames, c)
         /\ \A p \in Pool(frames, c) :
               p[1] \in 1 .. n /\ p[2] \in DOMAIN OfLabel(frames[p[1]], c) /\ p = <<p[1], p[2]>>
<1> DEFINE Part(i) == {i} \X DOMAIN OfLabel(frames[i], c)
           parts == [i \in 1 .. n |-> Part(i)]
           all == {Part(i) : i \in 1 .. n}
<1>1. Pool(frames, c) = UNION all
  BY DEF Pool, Framed
<1>2. \A x \in all : IsFiniteSet(x)
  <2> SUFFICES ASSUME NEW i \in 1 .. n PROVE IsFiniteSet(Part(i))
    OBVIOUS
  <2> DEFINE D == DOMAIN OfLabel(frames[i], c)
             pair == [k \in D |-> <<i, k>>]
  <2>1. IsFiniteSet(D)
    BY OfLabelFact, SeqDomain DEF Framed
  <2>2. pair \in Surjection(D, {i} \X D)
    <3> HIDE DEF D
    <3>1. pair \in [D -> {i} \X D]
      OBVIOUS
    <3>2. \A y \in {i} \X D : \E k \in D : pair[k] = y
      OBVIOUS
    <3> HIDE DEF pair
    <3> QED
      BY <3>1, <3>2 DEF Surjection
  <2>3. IsFiniteSet({i} \X D)
    <3> HIDE DEF D, pair
    <3> QED
      BY <2>1, <2>2, FS_Surjection
  <2> QED
    BY <2>3
<1>3. IsFiniteSet(all)
  <2>1. parts \in Surjection(1 .. n, all)
    <3> HIDE DEF Part
    <3> QED
      BY DEF Surjection
  <2>2. IsFiniteSet(1 .. n)
    BY FS_Interval
  <2> HIDE DEF all, parts
  <2> QED
    BY <2>1, <2>2, FS_Surjection
<1>4. IsFiniteSet(Pool(frames, c))
  <2> HIDE DEF all
  <2> QED
    BY <1>1, <1>2, <1>3, FS_UNION
<1>5. \A i \in 1 .. n : \A k \in DOMAIN OfLabel(frames[i], c) : <<i, k>> \in Pool(frames, c)
  BY DEF Pool, Framed
<1>6. ASSUME NEW p \in Pool(frames, c)
      PROVE  p[1] \in 1 .. n /\ p[2] \in DOMAIN OfLabel(frames[p[1]], c) /\ p = <<p[1], p[2]>>
  <2>1. PICK i \in 1 .. n : p \in {i} \X DOMAIN OfLabel(frames[i], c)
    BY DEF Pool, Framed
  <2>2. p[1] = i /\ p[2] \in DOMAIN OfLabel(frames[i], c) /\ p = <<p[1], p[2]>>
    BY <2>1
  <2> QED
    BY <2>2
<1> QED
  BY <1>4, <1>5, <1>6

\* order lists the members of a finite set once each, better ones first.
Ranking(order, m, S, score) ==
    /\ m = Cardinality(S) /\ m \in Nat /\ order \in [1 .. m -> S]
    /\ \A i, j \in 1 .. m : order[i] = order[j] => i = j
    /\ \A x \in S : \E i \in 1 .. m : order[i] = x
    /\ \A i, j \in 1 .. m : i < j => score[order[i]] >= score[order[j]]

LEMMA RankingFact ==
  ASSUME NEW S, IsFiniteSet(S), NEW score, DOMAIN score = S, NEW order \in Rankings(score)
  PROVE  Ranking(order, Cardinality(S), S, score)
<1> DEFINE m == Cardinality(S)
<1>1. m \in Nat
  BY FS_CardinalityType
<1>2. IsFiniteSet(1 .. m) /\ Cardinality(1 .. m) = m
  BY <1>1, FS_Interval
<1>3. /\ order \in [1 .. m -> S]
      /\ \A i, j \in 1 .. m : i # j => order[i] # order[j]
      /\ \A i, j \in DOMAIN order : i < j => score[order[i]] >= score[order[j]]
  BY DEF Rankings, SetToSeqs
<1> HIDE DEF m
<1>4. order \in Injection(1 .. m, S)
  BY <1>3 DEF Injection, IsInjective
<1>5. order \in Surjection(1 .. m, S)
  BY <1>2, <1>4, FS_Injection DEF m
<1>6. \A x \in S : \E i \in 1 .. m : order[i] = x
  BY <1>5 DEF Surjection
<1>7. \A i, j \in 1 .. m : i < j => score[order[i]] >= score[order[j]]
  BY <1>3
<1> QED
  BY <1>1, <1>3, <1>6, <1>7 DEF Ranking, m

-----------------------------------------------------------------------------
(* The figures of a class                                                    *)

\* Frames of detections and of annotations, as many.
Frames(d, a, n) == n \in Nat /\ Framed(d, n, Detection) /\ Framed(a, n, Annotation)

Mine(d, a, c, p) == Assigned(OfLabel(d[p[1]], c)[p[2]], BoxesOf(OfLabel(a[p[1]], c)))
Hit(d, a, c, t, p) == IsTrue(OfLabel(d[p[1]], c), BoxesOf(OfLabel(a[p[1]], c)), p[2], t)
Hits(d, a, c, t, order) == [k \in DOMAIN order |-> Hit(d, a, c, t, order[k])]

LEMMA FramesFact ==
  ASSUME NEW d, NEW a, NEW n, Frames(d, a, n), NEW c, NEW i \in 1 .. n
  PROVE  /\ OfLabel(d[i], c) \in Seq(Detection)
         /\ BoxesOf(OfLabel(a[i], c)) \in Seq(Boxes)
         /\ DOMAIN BoxesOf(OfLabel(a[i], c)) = DOMAIN OfLabel(a[i], c)
<1> DEFINE s == OfLabel(a[i], c)
           m == Len(s)
<1>1. OfLabel(d[i], c) \in Seq(Detection) /\ s \in Seq(Annotation)
  BY OfLabelFact DEF Frames, Framed
<1>2. m \in Nat /\ DOMAIN s = 1 .. m /\ \A k \in 1 .. m : s[k] \in Annotation
  BY <1>1, SeqDomain
<1> HIDE DEF s, m
<1>3. \A x \in Annotation : x.box \in Boxes
  BY DEF Annotation, Boxes
<1>4. BoxesOf(s) = [k \in 1 .. m |-> s[k].box] /\ \A k \in 1 .. m : s[k].box \in Boxes
  BY <1>2, <1>3 DEF BoxesOf
<1>5. BoxesOf(s) \in Seq(Boxes) /\ DOMAIN BoxesOf(s) = 1 .. m
  <2>1. BoxesOf(s) \in [1 .. m -> Boxes]
    BY <1>4
  <2> QED
    BY <1>2, <2>1, SeqDef
<1> QED
  BY <1>1, <1>2, <1>5 DEF s

\* No more annotations are found than there are.
LEMMA FoundAtMost ==
  ASSUME NEW d, NEW a, NEW n, Frames(d, a, n), NEW c, NEW t, NEW m \in Nat,
         NEW order \in [1 .. m -> Pool(d, c)], \A i, j \in 1 .. m : order[i] = order[j] => i = j
  PROVE  /\ Hits(d, a, c, t, order) \in [1 .. m -> BOOLEAN]
         /\ Cardinality(Pool(a, c)) \in Nat
         /\ Found(Hits(d, a, c, t, order), m) <= Cardinality(Pool(a, c))
<1> DEFINE hits == Hits(d, a, c, t, order)
           T == {i \in 1 .. m : hits[i]}
           P == Pool(a, c)
           x == [i \in T |-> <<order[i][1], Mine(d, a, c, order[i])>>]
<1>1. hits \in [1 .. m -> BOOLEAN] /\ \A i \in 1 .. m : hits[i] <=> Hit(d, a, c, t, order[i])
  BY DEF Hits, Hit, IsTrue
<1>2. IsFiniteSet(P) /\ \A i \in 1 .. n : \A k \in DOMAIN OfLabel(a[i], c) : <<i, k>> \in P
  BY PoolFact DEF Frames
<1>3. \A p \in Pool(d, c) : p[1] \in 1 .. n /\ p[2] \in DOMAIN OfLabel(d[p[1]], c) /\ p = <<p[1], p[2]>>
  BY PoolFact DEF Frames
<1>4. ASSUME NEW p \in Pool(d, c), Hit(d, a, c, t, p)
      PROVE  <<p[1], Mine(d, a, c, p)>> \in P /\ p[2] \in Nat \ {0}
  <2> DEFINE i == p[1]
             k == p[2]
             s == OfLabel(d[i], c)
             b == BoxesOf(OfLabel(a[i], c))
  <2>1. i \in 1 .. n /\ k \in DOMAIN s
    BY <1>3
  <2>2. s \in Seq(Detection) /\ DOMAIN b = DOMAIN OfLabel(a[i], c)
    BY <2>1, FramesFact
  <2>3. IsTrue(s, b, k, t) /\ Mine(d, a, c, p) = Assigned(s[k], b)
    BY <1>4 DEF Hit, Mine
  <2> HIDE DEF s, b, i, k
  <2>4. k \in Nat \ {0}
    <3>1. DOMAIN s = 1 .. Len(s) /\ Len(s) \in Nat
      BY <2>2, SeqDomain
    <3> DEFINE z == Len(s)
    <3>2. k \in 1 .. z /\ z \in Nat
      BY <2>1, <3>1
    <3> HIDE DEF z
    <3> QED
      BY <3>2
  <2>5. Assigned(s[k], b) \in DOMAIN b
    BY <2>3, <2>4, OneTrue
  <2>6. <<i, Assigned(s[k], b)>> \in P
    BY <1>2, <2>1, <2>2, <2>5
  <2> QED
    BY <2>3, <2>4, <2>6 DEF i, k
<1>5. ASSUME NEW p \in Pool(d, c), NEW q \in Pool(d, c), Hit(d, a, c, t, p), Hit(d, a, c, t, q),
             p[1] = q[1], Mine(d, a, c, p) = Mine(d, a, c, q)
      PROVE  p = q
  <2>1. p[2] \in Nat \ {0} /\ q[2] \in Nat \ {0}
    BY <1>4, <1>5
  <2>2. p[2] = q[2]
    BY <1>5, <2>1, FoundOnce DEF Hit, Mine
  <2> QED
    BY <1>3, <1>5, <2>2
<1> HIDE DEF hits, P
<1>6. x \in Injection(T, P)
  <2>1. ASSUME NEW i \in T PROVE x[i] \in P
    <3>1. i \in 1 .. m /\ order[i] \in Pool(d, c) /\ Hit(d, a, c, t, order[i])
      BY <1>1
    <3> QED
      BY <1>4, <3>1
  <2>2. ASSUME NEW i \in T, NEW j \in T, x[i] = x[j] PROVE i = j
    <3>1. /\ i \in 1 .. m /\ order[i] \in Pool(d, c) /\ Hit(d, a, c, t, order[i])
          /\ j \in 1 .. m /\ order[j] \in Pool(d, c) /\ Hit(d, a, c, t, order[j])
      BY <1>1
    <3>2. order[i][1] = order[j][1] /\ Mine(d, a, c, order[i]) = Mine(d, a, c, order[j])
      BY <2>2
    <3>3. order[i] = order[j]
      BY <1>5, <3>1, <3>2
    <3> QED
      BY <3>1, <3>3
  <2>3. x = [i \in T |-> x[i]]
    OBVIOUS
  <2> HIDE DEF x, T
  <2>4. x \in [T -> P]
    BY <2>1, <2>3
  <2> QED
    BY <2>2, <2>4 DEF Injection, IsInjective
<1>7. Found(hits, m) = Cardinality(T)
  BY DEF Found
<1>8. Cardinality(T) <= Cardinality(P) /\ Cardinality(P) \in Nat
  <2> HIDE DEF x, T
  <2> QED
    BY <1>2, <1>6, FS_Injection, FS_CardinalityType
<1> QED
  BY <1>1, <1>7, <1>8 DEF hits, P

\* The average precision of a class is what its objects are worth together.
LEMMA ClassFact ==
  ASSUME NEW d, NEW a, NEW n, Frames(d, a, n), NEW c, NEW t, NEW m \in Nat,
         NEW order \in [1 .. m -> Pool(d, c)], \A i, j \in 1 .. m : order[i] = order[j] => i = j
  PROVE  AveragePrecision(d, a, c, t, order) = TotalWorth(Hits(d, a, c, t, order), Cardinality(Pool(a, c)))
<1> DEFINE OfFrame(i) == TruePositives(OfLabel(d[i], c), BoxesOf(OfLabel(a[i], c)), t)
           total == Cardinality(Pool(a, c))
           hits == Hits(d, a, c, t, order)
<1>1. hits \in [1 .. m -> BOOLEAN] /\ total \in Nat /\ Found(hits, m) <= total
  BY FoundAtMost
<1>2. ASSUME NEW k \in 1 .. m PROVE OfFrame(order[k][1])[order[k][2]] = Hit(d, a, c, t, order[k])
  <2> DEFINE p == order[k]
             i == p[1]
             s == OfLabel(d[i], c)
             b == BoxesOf(OfLabel(a[i], c))
  <2>1. p \in Pool(d, c)
    OBVIOUS
  <2>2. i \in 1 .. n /\ p[2] \in DOMAIN s
    BY <2>1, PoolFact DEF Frames
  <2>3. s \in Seq(Detection) /\ b \in Seq(Boxes)
    BY <2>2, FramesFact
  <2>4. Hit(d, a, c, t, p) = IsTrue(s, b, p[2], t)
    BY DEF Hit
  <2> HIDE DEF s, b
  <2>5. TruePositives(s, b, t)[p[2]] = IsTrue(s, b, p[2], t)
    BY <2>2, <2>3, TrueFact
  <2> QED
    BY <2>4, <2>5 DEF s, b
<1>3. [k \in DOMAIN order |-> OfFrame(order[k][1])[order[k][2]]] = hits
  <2> HIDE DEF OfFrame
  <2> QED
    BY <1>2 DEF Hits
<1>4. AveragePrecision(d, a, c, t, order) =
         IF total = 0 THEN 0 ELSE ComputeAp(CumulativeTp(hits), Precision(CumulativeTp(hits)), total)
  <2>1. AveragePrecision(d, a, c, t, order) =
          LET tp == CumulativeTp([k \in DOMAIN order |-> OfFrame(order[k][1])[order[k][2]]])
          IN  IF total = 0 THEN 0 ELSE ComputeAp(tp, Precision(tp), total)
    BY DEF AveragePrecision
  <2> HIDE DEF OfFrame, total, hits
  <2> QED
    BY <1>3, <2>1
<1> HIDE DEF OfFrame, total, hits
<1>5. CASE total = 0
  <2>1. TotalWorth(hits, total) = 0
    <3> DEFINE w == [j \in 1 .. total |-> WorthOf(hits, m, j)]
    <3>1. TotalWorth(hits, total) = Total(w) /\ w \in [1 .. total -> Nat]
      BY <1>1, TotalWorthFact
    <3> HIDE DEF w
    <3>2. w \in [1 .. total -> Int]
      BY <3>1
    <3>3. PICK f : Sums(f, total, w) /\ Total(w) = f[total]
      BY <1>1, <3>2, TotalFact
    <3> QED
      BY <1>5, <3>1, <3>3 DEF Sums
  <2> QED
    BY <1>4, <1>5, <2>1 DEF total, hits
<1>6. CASE total # 0
  BY <1>1, <1>4, <1>6, AreaIsWorth DEF total, hits
<1> QED
  BY <1>5, <1>6

-----------------------------------------------------------------------------
(* A stricter threshold lowers no figure                                     *)

\* Better ones first, and no two alike.
Strict(s) == \A i, j \in DOMAIN s : i < j => s[i].score > s[j].score

LEMMA OfLabelStrict ==
  ASSUME NEW s \in Seq(Detection), Strict(s), NEW c
  PROVE  Strict(OfLabel(s, c))
<1> DEFINE keep == {k \in DOMAIN s : s[k].label = c}
           m == Cardinality(keep)
           r == Ascending(keep)
<1>1. keep \in SUBSET DOMAIN s /\ OfLabel(s, c) = [k \in DOMAIN r |-> s[r[k]]]
  BY DEF OfLabel, Index
<1>2. DOMAIN s \in SUBSET Int /\ IsFiniteSet(DOMAIN s)
  BY SeqDomain
<1> HIDE DEF keep, r, m
<1>3. keep \in SUBSET Int /\ IsFiniteSet(keep)
  BY <1>1, <1>2, FS_Subset
<1>4. m \in Nat /\ r \in [1 .. m -> keep] /\ \A i, j \in 1 .. m : r[i] < r[j] <=> i < j
  BY <1>3, AscendingFact DEF m, r
<1>5. ASSUME NEW i \in 1 .. m, NEW j \in 1 .. m, i < j PROVE s[r[i]].score > s[r[j]].score
  <2>1. r[i] \in DOMAIN s /\ r[j] \in DOMAIN s /\ r[i] < r[j]
    BY <1>1, <1>4, <1>5
  <2> QED
    BY <2>1 DEF Strict
<1>6. DOMAIN r = 1 .. m
  BY <1>4
<1> QED
  BY <1>1, <1>5, <1>6 DEF Strict

\* The lower the threshold, the more is found among the first k.
LEMMA FoundMore ==
  ASSUME NEW d, NEW a, NEW n, Frames(d, a, n), NEW c, NEW s \in Nat, NEW t \in Nat, s <= t,
         NEW m, NEW order, Ranking(order, m, Pool(d, c), ScoresOf(d, c)),
         \A i \in 1 .. n : Strict(d[i]), NEW k \in 0 .. m
  PROVE  Found(Hits(d, a, c, t, order), k) <= Found(Hits(d, a, c, s, order), k)
<1> DEFINE low == Hits(d, a, c, s, order)
           high == Hits(d, a, c, t, order)
           S == {i \in 1 .. k : low[i]}
           T == {i \in 1 .. k : high[i]}
           Same(i, l) == /\ order[l][1] = order[i][1]
                         /\ Mine(d, a, c, order[l]) = Mine(d, a, c, order[i])
           x == [i \in T |-> CHOOSE l \in S : Same(i, l)]
<1>1. /\ m \in Nat /\ order \in [1 .. m -> Pool(d, c)]
      /\ \A i, j \in 1 .. m : order[i] = order[j] => i = j
      /\ \A y \in Pool(d, c) : \E i \in 1 .. m : order[i] = y
      /\ \A i, j \in 1 .. m : i < j => ScoresOf(d, c)[order[i]] >= ScoresOf(d, c)[order[j]]
  BY DEF Ranking
<1>2. \A i \in 1 .. m : (low[i] <=> Hit(d, a, c, s, order[i])) /\ (high[i] <=> Hit(d, a, c, t, order[i]))
  BY <1>1 DEF Hits
<1>3. /\ \A p \in Pool(d, c) : p[1] \in 1 .. n /\ p[2] \in DOMAIN OfLabel(d[p[1]], c) /\ p = <<p[1], p[2]>>
      /\ \A i \in 1 .. n : \A j \in DOMAIN OfLabel(d[i], c) : <<i, j>> \in Pool(d, c)
  BY PoolFact DEF Frames
<1>4. 1 .. k \subseteq 1 .. m
  BY <1>1
<1> HIDE DEF low, high
<1>5. ASSUME NEW i \in T PROVE \E l \in S : Same(i, l)
  <2> DEFINE p == order[i]
             f == p[1]
             dets == OfLabel(d[f], c)
             anns == BoxesOf(OfLabel(a[f], c))
  <2>1. i \in 1 .. k /\ i \in 1 .. m /\ p \in Pool(d, c) /\ Hit(d, a, c, t, p)
    BY <1>1, <1>2, <1>4
  <2>2. f \in 1 .. n /\ p[2] \in DOMAIN dets /\ p = <<f, p[2]>>
    BY <1>3, <2>1
  <2>3. dets \in Seq(Detection) /\ anns \in Seq(Boxes) /\ d[f] \in Seq(Detection)
    BY <2>2, FramesFact DEF Frames, Framed
  <2>4. Strict(dets)
    BY <2>2, <2>3, OfLabelStrict
  <2>5. IsTrue(dets, anns, p[2], t)
    BY <2>1 DEF Hit
  <2> DEFINE kk == p[2]
  <2>6. PICK l \in 1 .. kk : IsTrue(dets, anns, l, s) /\ Assigned(dets[l], anns) = Assigned(dets[kk], anns)
    <3> HIDE DEF dets, anns
    <3> QED
      BY <2>2, <2>3, <2>5, FoundEarlier
  <2> DEFINE q == <<f, l>>
             z == Len(dets)
  <2>7. kk \in 1 .. z /\ z \in Nat /\ DOMAIN dets = 1 .. z
    <3> HIDE DEF dets, kk
    <3>1. DOMAIN dets = 1 .. Len(dets) /\ Len(dets) \in Nat
      BY <2>3, SeqDomain
    <3> QED
      BY <2>2, <3>1 DEF kk
  <2>8. l \in DOMAIN dets /\ l \in Nat /\ kk \in Nat /\ l <= kk
    <3> HIDE DEF z, kk, dets
    <3> QED
      BY <2>6, <2>7
  <2>9. q \in Pool(d, c) /\ q[1] = f /\ q[2] = l
    BY <1>3, <2>2, <2>8
  <2>10. Hit(d, a, c, s, q) /\ Mine(d, a, c, q) = Mine(d, a, c, p)
    BY <2>6, <2>9 DEF Hit, Mine
  <2>11. PICK j \in 1 .. m : order[j] = q
    BY <1>1, <2>9
  <2>12. j <= i
    <3> SUFFICES ASSUME i < j PROVE FALSE
      BY <1>1, <2>1
    <3>1. ScoresOf(d, c)[p] >= ScoresOf(d, c)[q]
      BY <1>1, <2>1, <2>11
    <3>2. ScoresOf(d, c)[p] = dets[kk].score /\ ScoresOf(d, c)[q] = dets[l].score
      BY <2>1, <2>9 DEF ScoresOf
    <3>3. dets[kk].score \in Int /\ dets[l].score \in Int
      <4>1. dets[kk] \in Detection /\ dets[l] \in Detection
        <5> HIDE DEF dets, kk
        <5> QED
          BY <2>2, <2>3, <2>8, SeqDomain DEF kk
      <4> HIDE DEF dets, kk
      <4> QED
        BY <4>1 DEF Detection
    <3>4. l = kk \/ l < kk
      <4> HIDE DEF kk
      <4> QED
        BY <2>8
    <3>5. CASE l = kk
      <4>1. order[j] = order[i]
        BY <2>2, <2>11, <3>5
      <4>2. j = i
        BY <1>1, <2>1, <4>1
      <4> QED
        BY <2>1, <4>2
    <3>6. CASE l < kk
      <4>1. dets[l].score > dets[kk].score
        <5> HIDE DEF dets, kk
        <5> QED
          BY <2>2, <2>4, <2>8, <3>6 DEF Strict, kk
      <4> HIDE DEF dets, kk
      <4> QED
        BY <3>1, <3>2, <3>3, <4>1
    <3> QED
      BY <3>4, <3>5, <3>6
  <2>13. j \in 1 .. k
    BY <2>1, <2>11, <2>12
  <2>14. low[j]
    BY <1>2, <2>10, <2>11
  <2>15. Same(i, j)
    BY <2>9, <2>10, <2>11
  <2> QED
    BY <2>13, <2>14, <2>15
<1>6. ASSUME NEW i \in T PROVE x[i] \in S /\ Same(i, x[i])
  <2> HIDE DEF S, Same
  <2>1. x[i] = CHOOSE l \in S : Same(i, l)
    OBVIOUS
  <2> HIDE DEF x
  <2> QED
    BY <1>5, <2>1
<1> HIDE DEF x
<1>7. ASSUME NEW i \in T, NEW j \in T, x[i] = x[j] PROVE i = j
  <2> DEFINE p == order[i]
             q == order[j]
  <2>1. /\ i \in 1 .. m /\ p \in Pool(d, c) /\ Hit(d, a, c, t, p)
        /\ j \in 1 .. m /\ q \in Pool(d, c) /\ Hit(d, a, c, t, q)
    BY <1>1, <1>2, <1>4
  <2>2. p[1] = q[1] /\ Mine(d, a, c, p) = Mine(d, a, c, q)
    <3>1. Same(i, x[i]) /\ Same(j, x[i])
      BY <1>6, <1>7
    <3> QED
      BY <3>1
  <2>3. p[2] \in Nat \ {0} /\ q[2] \in Nat \ {0} /\ p = <<p[1], p[2]>> /\ q = <<q[1], q[2]>>
    <3>1. ASSUME NEW y \in Pool(d, c) PROVE y[2] \in Nat \ {0}
      <4> DEFINE v == OfLabel(d[y[1]], c)
                 z == Len(v)
      <4>1. y[1] \in 1 .. n /\ y[2] \in DOMAIN v
        BY <1>3
      <4>2. v \in Seq(Detection)
        BY <4>1, FramesFact
      <4> HIDE DEF v, z
      <4>3. DOMAIN v = 1 .. z /\ z \in Nat
        BY <4>2, SeqDomain DEF z
      <4> QED
        BY <4>1, <4>3
    <3> QED
      BY <1>3, <2>1, <3>1
  <2> HIDE DEF p, q
  <2>4. p[2] = q[2]
    BY <2>1, <2>2, <2>3, FoundOnce DEF Hit, Mine
  <2>5. p = q
    BY <2>2, <2>3, <2>4
  <2> QED
    BY <1>1, <2>1, <2>5 DEF p, q
<1>8. Found(high, k) = Cardinality(T) /\ Found(low, k) = Cardinality(S)
  BY DEF Found
<1>9. IsFiniteSet(S)
  <2>1. S \in SUBSET (1 .. k) /\ k \in Nat
    BY <1>1
  <2>2. IsFiniteSet(1 .. k)
    BY <2>1, FS_Interval
  <2> HIDE DEF S
  <2> QED
    BY <2>1, <2>2, FS_Subset
<1>10. x \in Injection(T, S)
  <2>1. x \in [T -> S]
    <3>1. x = [i \in T |-> x[i]]
      BY DEF x
    <3> HIDE DEF T, S
    <3> QED
      BY <1>6, <3>1
  <2> HIDE DEF T, S
  <2> QED
    BY <1>7, <2>1 DEF Injection, IsInjective
<1>11. Cardinality(T) <= Cardinality(S)
  <2> HIDE DEF T, S
  <2> QED
    BY <1>9, <1>10, FS_Injection
<1> QED
  BY <1>8, <1>11 DEF low, high

\* So the objects are worth no less.
LEMMA WorthMore ==
  ASSUME NEW n \in Nat, NEW h \in [1 .. n -> BOOLEAN], NEW g \in [1 .. n -> BOOLEAN], NEW total \in Nat,
         \A k \in 0 .. n : Found(h, k) <= Found(g, k)
  PROVE  TotalWorth(h, total) <= TotalWorth(g, total)
<1> DEFINE v == [j \in 1 .. total |-> WorthOf(h, n, j)]
           w == [j \in 1 .. total |-> WorthOf(g, n, j)]
<1>1. /\ TotalWorth(h, total) = Total(v) /\ v \in [1 .. total -> Nat]
      /\ TotalWorth(g, total) = Total(w) /\ w \in [1 .. total -> Nat]
  BY TotalWorthFact
<1>2. \A k \in 1 .. n : k \in 0 .. n /\ Found(h, k) \in Nat /\ Found(g, k) \in Nat /\ Found(h, k) <= Found(g, k)
  BY FoundFact
<1>3. ASSUME NEW k \in 1 .. n PROVE Rates(h, n)[k] <= Rates(g, n)[k]
  <2> DEFINE x == One * Found(h, k)
             y == One * Found(g, k)
  <2>1. One \in Nat
    BY OneAssumption DEF OneAssumption
  <2>2. x \in Nat /\ y \in Nat /\ x <= y
    <3> DEFINE u == Found(h, k)
               z == Found(g, k)
    <3>1. u \in Nat /\ z \in Nat /\ u <= z
      BY <1>2
    <3> HIDE DEF u, z
    <3>2. One * u \in Nat /\ One * z \in Nat /\ One * u <= One * z
      BY <2>1, <3>1
    <3> QED
      BY <3>2 DEF u, z
  <2>3. k \in Nat /\ 0 < k
    OBVIOUS
  <2>4. Rates(h, n)[k] = x \div k /\ Rates(g, n)[k] = y \div k
    BY DEF Rates
  <2> HIDE DEF x, y
  <2> QED
    BY <2>2, <2>3, <2>4, QuotientMonotone
<1>4. ASSUME NEW j \in 1 .. total PROVE v[j] <= w[j]
  <2> DEFINE K == {k \in 1 .. n : Found(h, k) >= j}
             L == {k \in 1 .. n : Found(g, k) >= j}
  <2>1. K \in SUBSET (1 .. n) /\ L \in SUBSET (1 .. n) /\ K \subseteq L
    BY <1>2
  <2>2. Rates(h, n) \in [1 .. n -> Nat] /\ Rates(g, n) \in [1 .. n -> Nat]
    BY RatesFact
  <2>3. v[j] = Best(Rates(h, n), K) /\ w[j] = Best(Rates(g, n), L)
    BY DEF WorthOf
  <2> HIDE DEF K, L, v, w
  <2>4. \A k \in K : Rates(h, n)[k] <= Rates(g, n)[k]
    BY <1>3, <2>1
  <2> QED
    BY <2>1, <2>2, <2>3, <2>4, BestMonotone
<1> HIDE DEF v, w
<1>5. v \in [1 .. total -> Int] /\ w \in [1 .. total -> Int]
  BY <1>1
<1> QED
  BY <1>1, <1>4, <1>5, TotalMonotone

\* The figure of a class at a stricter threshold is no higher, if no two scores of a frame tie.
LEMMA ClassStricter ==
  ASSUME NEW d, NEW a, NEW n, Frames(d, a, n), NEW c, NEW s \in Nat, NEW t \in Nat, s <= t,
         NEW m, NEW order, Ranking(order, m, Pool(d, c), ScoresOf(d, c)),
         \A i \in 1 .. n : Strict(d[i])
  PROVE  AveragePrecision(d, a, c, t, order) <= AveragePrecision(d, a, c, s, order)
<1> DEFINE low == Hits(d, a, c, s, order)
           high == Hits(d, a, c, t, order)
           total == Cardinality(Pool(a, c))
<1>1. m \in Nat /\ order \in [1 .. m -> Pool(d, c)] /\ \A i, j \in 1 .. m : order[i] = order[j] => i = j
  BY DEF Ranking
<1>2. low \in [1 .. m -> BOOLEAN] /\ high \in [1 .. m -> BOOLEAN] /\ total \in Nat
  <2>1. low \in [1 .. m -> BOOLEAN] /\ total \in Nat
    BY <1>1, FoundAtMost
  <2>2. high \in [1 .. m -> BOOLEAN]
    BY <1>1, FoundAtMost
  <2> QED
    BY <2>1, <2>2
<1>3. /\ AveragePrecision(d, a, c, s, order) = TotalWorth(low, total)
      /\ AveragePrecision(d, a, c, t, order) = TotalWorth(high, total)
  BY <1>1, ClassFact
<1>4. \A k \in 0 .. m : Found(high, k) <= Found(low, k)
  BY FoundMore
<1> HIDE DEF low, high, total
<1>5. TotalWorth(high, total) <= TotalWorth(low, total)
  BY <1>1, <1>2, <1>4, WorthMore
<1> QED
  BY <1>3, <1>5

-----------------------------------------------------------------------------
(* The two rows                                                              *)

\* The samples are those of the records.
LEMMA SamplesFact ==
  ASSUME RecordsOK
  PROVE  Len(Samples) \in Nat /\ \A i \in 1 .. Len(Samples) : Samples[i] \in DOMAIN records
<1> DEFINE S == DOMAIN records
           n == Cardinality(S)
<1>1. S \in SUBSET Int /\ IsFiniteSet(S)
  BY DEF RecordsOK
<1>2. n \in Nat /\ Samples \in [1 .. n -> S]
  BY <1>1, AscendingFact DEF Samples
<1> HIDE DEF S, n
<1>3. Samples \in Seq(S)
  BY <1>2, SeqDef
<1>4. Len(Samples) \in Nat /\ DOMAIN Samples = 1 .. Len(Samples) /\ \A i \in DOMAIN Samples : Samples[i] \in S
  BY <1>3, SeqDomain
<1> QED
  BY <1>4 DEF S

\* A kit has detections for each of its samples.
LEMMA StoredFact ==
  ASSUME scene \in Scenes, kit \in DOMAIN scene.kits, NEW s \in Nat, s < Kit.count
  PROVE  Kit.reference[s + 1] \in Seq(Detection) /\ scene.gate \in Int
<1>1. /\ Kit.count \in Nat /\ Kit.count <= Len(Kit.reference) /\ Kit.reference \in Seq(Seq(Detection))
      /\ scene.gate \in Int
  BY ScoresAssumption DEF ScoresAssumption, Kit
<1>2. DOMAIN Kit.reference = 1 .. Len(Kit.reference) /\ Len(Kit.reference) \in Nat
  BY <1>1, LenProperties
<1>3. s + 1 \in DOMAIN Kit.reference
  BY <1>1, <1>2
<1> QED
  BY <1>1, <1>3, ElementOfSeq

\* A frame whose detections are the kit's own is collected in one way, from either side.
LEMMA SameFrame ==
  ASSUME scene \in Scenes, kit \in DOMAIN scene.kits, RecordsOK,
         NEW s \in DOMAIN records, s < Kit.count, SameAsReference(s), NEW shape,
         NEW p \in Rankings(ScoresOfSeq(FromDump[s])), NEW q \in Rankings(ScoresOfSeq(FromKit[s]))
  PROVE  TopOf(FromDump[s], shape, p) = TopOf(FromKit[s], shape, q)
<1> DEFINE stored == Kit.reference[s + 1]
<1>1. s \in Nat /\ records[s] \in Seq(Detection) /\ FromDump[s] = records[s]
  BY DEF RecordsOK, FromDump
<1>2. stored \in Seq(Detection) /\ scene.gate \in Int
  BY <1>1, StoredFact
<1>3. FromKit[s] = Gated(stored, scene.gate)
  BY DEF FromKit
<1>4. /\ Untied(records[s]) /\ Untied(stored)
      /\ ToSet(records[s]) = {d \in ToSet(stored) : ~ (d.score < scene.gate)}
  BY DEF SameAsReference
<1> HIDE DEF stored
<1>5. /\ Gated(stored, scene.gate) \in Seq(Detection) /\ Untied(Gated(stored, scene.gate))
      /\ ToSet(Gated(stored, scene.gate)) = ToSet(records[s])
  BY <1>2, <1>4, GatedFact
<1> DEFINE a == records[s]
           b == Gated(stored, scene.gate)
<1>6. a \in Seq(Detection) /\ b \in Seq(Detection) /\ Untied(a) /\ Untied(b) /\ ToSet(a) = ToSet(b)
  BY <1>1, <1>4, <1>5
<1>7. p \in Rankings(ScoresOfSeq(a)) /\ q \in Rankings(ScoresOfSeq(b)) /\ FromDump[s] = a /\ FromKit[s] = b
  BY <1>1, <1>3
<1> HIDE DEF a, b
<1>8. TopOf(a, shape, p) = TopOf(b, shape, q)
  BY <1>6, <1>7, SameTop
<1> QED
  BY <1>7, <1>8

LEMMA SameFunction ==
  ASSUME NEW S, NEW C, NEW D, NEW c \in [S -> C], NEW d \in [S -> D], \A i \in S : c[i] = d[i]
  PROVE  c = d
<1>1. c = [i \in S |-> c[i]] /\ d = [i \in S |-> d[i]]
  OBVIOUS
<1> QED
  BY <1>1

\* So the two rows are computed from the same frames.
LEMMA SameCollection ==
  ASSUME scene \in Scenes, kit \in DOMAIN scene.kits, RecordsOK,
         \A s \in DOMAIN records : s < Kit.count, \A s \in DOMAIN records : SameAsReference(s),
         NEW c \in Collections(FromDump), NEW d \in Collections(FromKit)
  PROVE  c = d
<1> DEFINE n == Len(Samples)
           Ours(i) == {TopOf(FromDump[Samples[i]], Kit.shapes[Samples[i] + 1], o) :
                          o \in Rankings(ScoresOfSeq(FromDump[Samples[i]]))}
           Kits(i) == {TopOf(FromKit[Samples[i]], Kit.shapes[Samples[i] + 1], o) :
                          o \in Rankings(ScoresOfSeq(FromKit[Samples[i]]))}
<1>1. c \in [1 .. n -> UNION {Ours(i) : i \in 1 .. n}] /\ \A i \in 1 .. n : c[i] \in Ours(i)
  BY DEF Collections
<1>2. d \in [1 .. n -> UNION {Kits(i) : i \in 1 .. n}] /\ \A i \in 1 .. n : d[i] \in Kits(i)
  BY DEF Collections
<1>3. ASSUME NEW i \in 1 .. n PROVE c[i] = d[i]
  <2> DEFINE s == Samples[i]
             shape == Kit.shapes[s + 1]
  <2>1. s \in DOMAIN records
    BY SamplesFact
  <2>2. c[i] \in Ours(i) /\ d[i] \in Kits(i)
    BY <1>1, <1>2
  <2>3. PICK p \in Rankings(ScoresOfSeq(FromDump[s])) : c[i] = TopOf(FromDump[s], shape, p)
    BY <2>2
  <2>4. PICK q \in Rankings(ScoresOfSeq(FromKit[s])) : d[i] = TopOf(FromKit[s], shape, q)
    BY <2>2
  <2> HIDE DEF s, shape
  <2>5. s < Kit.count /\ SameAsReference(s)
    BY <2>1
  <2>6. TopOf(FromDump[s], shape, p) = TopOf(FromKit[s], shape, q)
    BY <2>1, <2>5, SameFrame
  <2> QED
    BY <2>3, <2>4, <2>6
<1> DEFINE I == 1 .. n
           C == UNION {Ours(i) : i \in 1 .. n}
           D == UNION {Kits(i) : i \in 1 .. n}
<1>4. c \in [I -> C] /\ d \in [I -> D]
  BY <1>1, <1>2
<1>5. \A i \in I : c[i] = d[i]
  BY <1>3
<1> HIDE DEF I, C, D
<1> QED
  BY <1>4, <1>5, SameFunction

-----------------------------------------------------------------------------
(* The steps                                                                 *)

LEMMA ScoreInit == Init => IInv
<1> SUFFICES ASSUME Init PROVE IInv
  OBVIOUS
<1>1. scene \in Scenes /\ stage = "read" /\ at = 0 /\ records = <<>> /\ kit = "none"
  BY DEF Init
<1>2. Len(scene.lines) \in Nat
  <2>1. scene.lines \in Seq([sample : Nat, dets : Seq(Detection)])
    BY <1>1, ScoresAssumption DEF ScoresAssumption
  <2> QED
    BY <2>1, LenProperties
<1>3. DOMAIN records = {}
  BY <1>1
<1>4. RecordsOK
  BY <1>1, <1>3, FS_EmptySet DEF RecordsOK
<1>5. GateComparable
  BY <1>1 DEF GateComparable
<1> QED
  BY <1>1, <1>2, <1>4, <1>5 DEF IInv

\* A line adds a sample to the records, or replaces its record.
LEMMA ReadLineKeeps == IInv /\ ReadLine => IInv'
<1> SUFFICES ASSUME IInv, ReadLine PROVE IInv'
  OBVIOUS
<1> DEFINE line == scene.lines[at + 1]
<1>1. /\ stage = "read" /\ at < Len(scene.lines) /\ at' = at + 1
      /\ records' = [s \in DOMAIN records \cup {line.sample} |->
                       IF s = line.sample THEN line.dets ELSE records[s]]
      /\ scene' = scene /\ stage' = stage /\ kit' = kit
  BY DEF ReadLine
<1>2. scene \in Scenes /\ at \in 0 .. Len(scene.lines) /\ RecordsOK
  BY DEF IInv
<1>3. scene.lines \in Seq([sample : Nat, dets : Seq(Detection)])
  BY <1>2, ScoresAssumption DEF ScoresAssumption
<1>4. at + 1 \in DOMAIN scene.lines /\ at + 1 \in 0 .. Len(scene.lines)
  BY <1>1, <1>2, <1>3, LenProperties
<1>5. line \in [sample : Nat, dets : Seq(Detection)]
  <2> DEFINE L == [sample : Nat, dets : Seq(Detection)]
             ls == scene.lines
  <2>1. ls \in Seq(L) /\ at + 1 \in DOMAIN ls
    BY <1>3, <1>4
  <2> HIDE DEF L, ls
  <2>2. ls[at + 1] \in L
    BY <2>1, SeqDomain
  <2> QED
    BY <2>2 DEF L, ls
<1> HIDE DEF line
<1>6. line.sample \in Nat /\ line.dets \in Seq(Detection)
  BY <1>5
<1>7. /\ DOMAIN records \in SUBSET Nat /\ IsFiniteSet(DOMAIN records)
      /\ \A s \in DOMAIN records : records[s] \in Seq(Detection)
  BY <1>2 DEF RecordsOK
<1>8. DOMAIN records' = DOMAIN records \cup {line.sample}
  BY <1>1
<1>9. DOMAIN records' \in SUBSET Nat /\ IsFiniteSet(DOMAIN records')
  <2> DEFINE S == DOMAIN records
             x == line.sample
  <2>1. S \in SUBSET Nat /\ IsFiniteSet(S) /\ x \in Nat /\ DOMAIN records' = S \cup {x}
    BY <1>6, <1>7, <1>8
  <2> HIDE DEF S, x
  <2>2. IsFiniteSet(S \cup {x})
    BY <2>1, FS_AddElement
  <2> QED
    BY <2>1, <2>2
<1>10. \A s \in DOMAIN records' : records'[s] \in Seq(Detection)
  BY <1>1, <1>6, <1>7
<1>11. RecordsOK'
  BY <1>1, <1>9, <1>10 DEF RecordsOK
<1>12. GateComparable'
  BY <1>1 DEF GateComparable
<1> QED
  BY <1>1, <1>2, <1>4, <1>11, <1>12 DEF IInv

\* Nothing of the figures changes before they are computed.
LEMMA QuietKeeps ==
  ASSUME IInv, UNCHANGED <<scene, at, records>>,
         stage' \notin {"reference", "done"},
         stage' \in {"check", "fleet"} => kit' \in DOMAIN scene.kits,
         stage' = "fleet" => \A s \in DOMAIN records : s < Kit'.count
  PROVE  IInv'
<1>1. scene \in Scenes /\ at \in 0 .. Len(scene.lines) /\ RecordsOK
  BY DEF IInv
<1>2. RecordsOK'
  BY <1>1 DEF RecordsOK
<1>3. GateComparable'
  BY DEF GateComparable
<1> QED
  BY <1>1, <1>2, <1>3 DEF IInv

LEMMA ReadEndKeeps == IInv /\ ReadEnd => IInv'
<1> SUFFICES ASSUME IInv, ReadEnd PROVE IInv'
  OBVIOUS
<1>1. UNCHANGED <<scene, at, records>> /\ stage' \in {"refused", "choose"}
  BY DEF ReadEnd, Refuse
<1> QED
  BY <1>1, QuietKeeps

LEMMA ChooseKitKeeps == IInv /\ ChooseKit => IInv'
<1> SUFFICES ASSUME IInv, ChooseKit PROVE IInv'
  OBVIOUS
<1> DEFINE choice == IF scene.npz # "none" THEN {scene.npz} ELSE FindSourceNpz
<1>1. UNCHANGED <<scene, at, records>> /\ (stage' = "refused" \/ (stage' = "check" /\ kit' \in choice))
  <2>1. \/ choice = {} /\ Refuse
        \/ kit' \in choice /\ stage' = "check" /\ UNCHANGED <<scene, at, records, detections, ranked, rows>>
    BY DEF ChooseKit
  <2> HIDE DEF choice
  <2> QED
    BY <2>1 DEF Refuse
<1>2. /\ scene.npz \in DOMAIN scene.kits \cup {"none"}
      /\ \A x \in scene.sets : x.kit \in DOMAIN scene.kits
  BY ScoresAssumption DEF ScoresAssumption, IInv
<1>3. FindSourceNpz \subseteq DOMAIN scene.kits
  BY <1>2 DEF FindSourceNpz
<1>4. choice \subseteq DOMAIN scene.kits
  BY <1>2, <1>3
<1> HIDE DEF choice
<1>5. stage' = "check" => kit' \in DOMAIN scene.kits
  BY <1>1, <1>4
<1>6. stage' \notin {"reference", "done"} /\ stage' # "fleet"
  BY <1>1
<1> QED
  BY <1>1, <1>5, <1>6, QuietKeeps

\* The check lets only samples pass that the kit has.
LEMMA CheckKeeps == IInv /\ Check => IInv'
<1> SUFFICES ASSUME IInv, Check PROVE IInv'
  OBVIOUS
<1>1. /\ UNCHANGED <<scene, at, records>> /\ stage = "check"
      /\ stage' = "refused" \/ (stage' = "fleet" /\ kit' = kit /\ Max(DOMAIN records) < Kit.count)
  BY DEF Check, Refuse
<1>2. scene \in Scenes /\ kit \in DOMAIN scene.kits /\ RecordsOK
  BY <1>1 DEF IInv
<1>3. DOMAIN records \in SUBSET Int /\ IsFiniteSet(DOMAIN records) /\ Kit.count \in Nat
  BY <1>2, ScoresAssumption DEF ScoresAssumption, RecordsOK, Kit
<1>4. ASSUME NEW s \in DOMAIN records, stage' = "fleet" PROVE s < Kit.count
  <2>1. Max(DOMAIN records) \in DOMAIN records /\ s <= Max(DOMAIN records)
    BY <1>3, MaxFact
  <2>2. Max(DOMAIN records) < Kit.count
    BY <1>1, <1>4
  <2> QED
    BY <1>3, <2>1, <2>2
<1>5. stage' = "fleet" => kit' = kit /\ Kit' = Kit
  BY <1>1 DEF Kit
<1>6. stage' \notin {"reference", "done"} /\ stage' # "check"
  BY <1>1
<1> QED
  BY <1>1, <1>2, <1>4, <1>5, <1>6, QuietKeeps

\* What a row is computed from does not change when it is.
LEMMA RowFact ==
  ASSUME UNCHANGED <<scene, at, records, kit>>
  PROVE  /\ Kit' = Kit /\ FromDump' = FromDump /\ Samples' = Samples /\ Annotations' = Annotations
         /\ Collections(FromDump)' = Collections(FromDump)
         /\ \A s : SameAsReference(s)' <=> SameAsReference(s)
<1>1. Kit' = Kit /\ FromDump' = FromDump /\ Samples' = Samples
  BY DEF Kit, FromDump, Samples
<1>2. Annotations' = Annotations
  BY <1>1 DEF Annotations
<1>3. Collections(FromDump)' = Collections(FromDump)
  BY <1>1 DEF Collections, TopOf
<1>4. \A s : SameAsReference(s)' <=> SameAsReference(s)
  BY <1>1 DEF SameAsReference
<1> QED
  BY <1>1, <1>2, <1>3, <1>4

LEMMA FleetKeeps == IInv /\ Fleet => IInv'
<1> SUFFICES ASSUME IInv, Fleet PROVE IInv'
  OBVIOUS
<1>1. /\ stage = "fleet" /\ stage' = "reference" /\ UNCHANGED <<scene, at, records, kit>>
      /\ \E c \in Collections(FromDump) : \E o \in Orders(c) :
           /\ ranked' = ranked \cup {<<ScoresOf(c, l), o[l]>> : l \in Labels}
           /\ rows' = [r \in DOMAIN rows \cup {"fleet"} |->
                         IF r = "fleet" THEN Evaluate(c, Annotations, Labels, o) ELSE rows[r]]
  BY DEF Fleet, Row
<1>2. PICK c \in Collections(FromDump) : \E o \in Orders(c) :
           /\ ranked' = ranked \cup {<<ScoresOf(c, l), o[l]>> : l \in Labels}
           /\ rows' = [r \in DOMAIN rows \cup {"fleet"} |->
                         IF r = "fleet" THEN Evaluate(c, Annotations, Labels, o) ELSE rows[r]]
  BY <1>1
<1>3. PICK o \in Orders(c) :
           /\ ranked' = ranked \cup {<<ScoresOf(c, l), o[l]>> : l \in Labels}
           /\ rows' = [r \in DOMAIN rows \cup {"fleet"} |->
                         IF r = "fleet" THEN Evaluate(c, Annotations, Labels, o) ELSE rows[r]]
  BY <1>2
<1>4. "fleet" \in DOMAIN rows' /\ rows'["fleet"] = Evaluate(c, Annotations, Labels, o)
  BY <1>3
<1>5. \A l \in Labels : <<ScoresOf(c, l), o[l]>> \in ranked'
  BY <1>3
<1>6. Annotations' = Annotations /\ c \in Collections(FromDump)'
  BY <1>1, RowFact
<1>7. Computed("fleet", FromDump)'
  BY <1>4, <1>5, <1>6 DEF Computed
<1>8. /\ scene \in Scenes /\ at \in 0 .. Len(scene.lines) /\ kit \in DOMAIN scene.kits
      /\ RecordsOK /\ \A s \in DOMAIN records : s < Kit.count
  BY <1>1 DEF IInv, RecordsOK
<1>9. RecordsOK'
  BY <1>1, <1>8 DEF RecordsOK, Kit
<1>10. GateComparable'
  BY <1>1 DEF GateComparable
<1> QED
  BY <1>1, <1>4, <1>7, <1>8, <1>9, <1>10 DEF IInv

\* The second row is the first if the detections are the same: they are collected in the
\* same way, and argsort orders their scores as it did before.
LEMMA ReferenceKeeps == IInv /\ Reference => IInv'
<1> SUFFICES ASSUME IInv, Reference PROVE IInv'
  OBVIOUS
<1>1. /\ stage = "reference" /\ stage' = "done" /\ UNCHANGED <<scene, at, records, kit>>
      /\ \E d \in Collections(FromKit) : \E o \in Orders(d) :
           /\ ranked' = ranked \cup {<<ScoresOf(d, l), o[l]>> : l \in Labels}
           /\ Consistent(ranked')
           /\ rows' = [r \in DOMAIN rows \cup {"reference"} |->
                         IF r = "reference" THEN Evaluate(d, Annotations, Labels, o) ELSE rows[r]]
  BY DEF Reference, Row
<1>2. PICK d \in Collections(FromKit) : \E o \in Orders(d) :
           /\ ranked' = ranked \cup {<<ScoresOf(d, l), o[l]>> : l \in Labels}
           /\ Consistent(ranked')
           /\ rows' = [r \in DOMAIN rows \cup {"reference"} |->
                         IF r = "reference" THEN Evaluate(d, Annotations, Labels, o) ELSE rows[r]]
  BY <1>1
<1>3. PICK o \in Orders(d) :
           /\ ranked' = ranked \cup {<<ScoresOf(d, l), o[l]>> : l \in Labels}
           /\ Consistent(ranked')
           /\ rows' = [r \in DOMAIN rows \cup {"reference"} |->
                         IF r = "reference" THEN Evaluate(d, Annotations, Labels, o) ELSE rows[r]]
  BY <1>2
<1>4. /\ scene \in Scenes /\ at \in 0 .. Len(scene.lines) /\ kit \in DOMAIN scene.kits
      /\ RecordsOK /\ \A s \in DOMAIN records : s < Kit.count
      /\ "fleet" \in DOMAIN rows /\ Computed("fleet", FromDump)
  BY <1>1 DEF IInv, RecordsOK
<1>5. rows'["fleet"] = rows["fleet"] /\ rows'["reference"] = Evaluate(d, Annotations, Labels, o)
  BY <1>3, <1>4
<1>6. PICK c \in Collections(FromDump) : \E p \in Orders(c) :
        /\ rows["fleet"] = Evaluate(c, Annotations, Labels, p)
        /\ \A l \in Labels : <<ScoresOf(c, l), p[l]>> \in ranked
  BY <1>4 DEF Computed
<1>7. PICK p \in Orders(c) :
        /\ rows["fleet"] = Evaluate(c, Annotations, Labels, p)
        /\ \A l \in Labels : <<ScoresOf(c, l), p[l]>> \in ranked
  BY <1>6
<1>8. ASSUME \A s \in DOMAIN records : SameAsReference(s)
      PROVE  rows'["fleet"] = rows'["reference"]
  <2>1. c = d
    BY <1>4, <1>8, SameCollection
  <2>2. ASSUME NEW l \in Labels PROVE p[l] = o[l]
    <3>1. <<ScoresOf(c, l), p[l]>> \in ranked' /\ <<ScoresOf(d, l), o[l]>> \in ranked'
      BY <1>3, <1>7
    <3>2. \A x, y \in ranked' : x[1] = y[1] => x = y
      BY <1>3 DEF Consistent
    <3>3. <<ScoresOf(c, l), p[l]>> = <<ScoresOf(d, l), o[l]>>
      <4> DEFINE x == <<ScoresOf(c, l), p[l]>>
                 y == <<ScoresOf(d, l), o[l]>>
      <4>1. x[1] = y[1]
        BY <2>1
      <4> HIDE DEF x, y
      <4>2. x \in ranked' /\ y \in ranked'
        BY <3>1 DEF x, y
      <4>3. x = y
        BY <3>2, <4>1, <4>2
      <4> QED
        BY <4>3 DEF x, y
    <3> QED
      BY <3>3
  <2>3. p = o
    <3>1. p \in [Labels -> UNION {Rankings(ScoresOf(c, l)) : l \in Labels}]
      BY DEF Orders
    <3>2. o \in [Labels -> UNION {Rankings(ScoresOf(d, l)) : l \in Labels}]
      BY DEF Orders
    <3> QED
      BY <2>2, <3>1, <3>2
  <2> QED
    BY <1>5, <1>7, <2>1, <2>3
<1>9. DOMAIN records' = DOMAIN records /\ \A s : SameAsReference(s)' <=> SameAsReference(s)
  BY <1>1, RowFact
<1>10. GateComparable'
  BY <1>8, <1>9 DEF GateComparable
<1>11. RecordsOK'
  BY <1>1, <1>4 DEF RecordsOK, Kit
<1> QED
  BY <1>1, <1>4, <1>10, <1>11 DEF IInv

LEMMA OverKeeps == IInv /\ (Over \/ UNCHANGED vars) => IInv'
<1> SUFFICES ASSUME IInv, UNCHANGED vars PROVE IInv'
  BY DEF Over
<1>1. /\ UNCHANGED <<scene, at, records, kit>> /\ stage' = stage /\ ranked' = ranked /\ rows' = rows
  BY DEF vars
<1>2. /\ Kit' = Kit /\ FromDump' = FromDump /\ Annotations' = Annotations
      /\ Collections(FromDump)' = Collections(FromDump)
      /\ \A s : SameAsReference(s)' <=> SameAsReference(s)
  BY <1>1, RowFact
<1>3. RecordsOK'
  BY <1>1, <1>2 DEF IInv, RecordsOK
<1>4. Computed("fleet", FromDump) => Computed("fleet", FromDump)'
  BY <1>1, <1>2 DEF Computed
<1>5. GateComparable'
  BY <1>1, <1>2 DEF IInv, GateComparable
<1> QED
  BY <1>1, <1>3, <1>4, <1>5 DEF IInv

LEMMA ScoreNext == IInv /\ [Next]_vars => IInv'
BY ReadLineKeeps, ReadEndKeeps, ChooseKitKeeps, CheckKeeps, FleetKeeps, ReferenceKeeps, OverKeeps
   DEF Next

\* Every state of a scored run satisfies the invariant: records are of samples of the kit, and
\* the fleet row is that of what the dump holds (eval_shard_map.py:128-169).
THEOREM ScoreInvariant == Spec => []IInv
BY ScoreInit, ScoreNext, PTL DEF Spec

\* A run that found the kit's own detections gets the figures of the reference row, whatever
\* was dumped in whatever order, for every gate and cap (eval_shard_map.py:153-169).
THEOREM RowsAreComparable == Spec => []GateComparable
<1>1. IInv => GateComparable
  BY DEF IInv
<1> QED
  BY <1>1, ScoreInvariant, PTL

-----------------------------------------------------------------------------
(* The figures of a run                                                      *)

\* Better ones first.
Falling(s) == \A i, j \in DOMAIN s : i < j => s[i].score >= s[j].score

\* The best of a frame, in raw pixels, are detections, better ones first.
LEMMA TopFact ==
  ASSUME NEW dets \in Seq(Detection), NEW shape \in Nat \X Nat, scene.maxBoxes \in Nat,
         NEW p \in Rankings(ScoresOfSeq(dets))
  PROVE  TopOf(dets, shape, p) \in Seq(Detection) /\ Falling(TopOf(dets, shape, p))
<1> DEFINE n == Len(dets)
           scores == ScoresOfSeq(dets)
           r == Ranked(dets, p)
           q == Smaller(scene.maxBoxes, n)
           best == SubSeq(r, 1, q)
           top == TopOf(dets, shape, p)
<1>1. n \in Nat /\ DOMAIN dets = 1 .. n /\ IsFiniteSet(1 .. n) /\ \A k \in 1 .. n : dets[k] \in Detection
  BY SeqDomain
<1>2. scores = [k \in 1 .. n |-> dets[k].score]
  BY <1>1 DEF ScoresOfSeq
<1> HIDE DEF scores, r, n
<1>3. Cardinality(1 .. n) = n
  <2>1. Cardinality(1 .. n) = IF 1 > n THEN 0 ELSE n - 1 + 1
    <3>1. n \in Int
      BY <1>1
    <3> QED
      BY <3>1, FS_Interval
  <2>2. n \in Nat
    BY <1>1
  <2> QED
    BY <2>1, <2>2
<1>4. Ranking(p, n, 1 .. n, scores)
  <2>1. DOMAIN scores = 1 .. n /\ p \in Rankings(scores)
    BY <1>2 DEF scores
  <2>2. Ranking(p, Cardinality(1 .. n), 1 .. n, scores)
    BY <1>1, <2>1, RankingFact
  <2> QED
    BY <1>3, <2>2
<1>5. p \in [1 .. n -> 1 .. n] /\ \A i, j \in 1 .. n : i < j => dets[p[i]].score >= dets[p[j]].score
  <2>1. p \in [1 .. n -> 1 .. n] /\ \A i, j \in 1 .. n : i < j => scores[p[i]] >= scores[p[j]]
    BY <1>4 DEF Ranking
  <2> QED
    BY <1>2, <2>1
<1>6. r = [k \in 1 .. n |-> dets[p[k]]]
  BY <1>5 DEF Ranked, r
<1>7. q \in 0 .. n
  BY <1>1 DEF Smaller
<1> HIDE DEF q
<1>8. /\ best \in Seq(Detection) /\ Len(best) = q
      /\ \A i \in 1 .. q : best[i] = dets[p[i]] /\ best[i] \in Detection
  <2>1. \A i \in 1 .. q : i \in 1 .. n /\ r[i] = dets[p[i]] /\ r[i] \in Detection
    BY <1>1, <1>5, <1>6, <1>7
  <2>2. /\ SubSeq(r, 1, q) \in Seq(Detection)
        /\ Len(SubSeq(r, 1, q)) = IF 1 <= q THEN q - 1 + 1 ELSE 0
        /\ \A i \in 1 .. q - 1 + 1 : SubSeq(r, 1, q)[i] = r[1 + i - 1]
    <3>1. 1 \in Int /\ q \in Int
      BY <1>7
    <3> QED
      BY <2>1, <3>1, SubSeqProperties
  <2> HIDE DEF best
  <2>3. /\ best \in Seq(Detection)
        /\ Len(best) = IF 1 <= q THEN q - 1 + 1 ELSE 0
        /\ \A i \in 1 .. q - 1 + 1 : best[i] = r[1 + i - 1]
    BY <2>2 DEF best
  <2>4. Len(best) = q
    <3>1. q \in Nat
      BY <1>7
    <3>2. Len(best) = IF 1 <= q THEN q - 1 + 1 ELSE 0
      BY <2>3
    <3> QED
      BY <3>1, <3>2
  <2>5. \A i \in 1 .. q : best[i] = r[i]
    <3> SUFFICES ASSUME NEW i \in 1 .. q PROVE best[i] = r[i]
      OBVIOUS
    <3>1. i \in 1 .. q - 1 + 1 /\ 1 + i - 1 = i
      BY <1>7
    <3>2. best[i] = r[1 + i - 1]
      BY <2>3, <3>1
    <3> QED
      BY <3>1, <3>2
  <2> QED
    BY <2>1, <2>3, <2>4, <2>5
<1>9. top = [k \in DOMAIN best |-> [best[k] EXCEPT !.box = ScaleToRaw(@, shape)]]
  BY DEF TopOf, r, q, n
<1> HIDE DEF best, top
<1>10. DOMAIN best = 1 .. q
  BY <1>8, LenProperties
<1>11. ASSUME NEW e \in Detection
       PROVE  /\ [e EXCEPT !.box = ScaleToRaw(@, shape)] \in Detection
              /\ [e EXCEPT !.box = ScaleToRaw(@, shape)].score = e.score
  <2> DEFINE b == ScaleToRaw(e.box, shape)
  <2>1. e.box \in [1 .. 4 -> Int]
    BY DEF Detection
  <2>2. b \in [1 .. 4 -> Int]
    <3>1. shape[1] \in Int /\ shape[2] \in Int
      OBVIOUS
    <3>2. \A i \in 1 .. 4 : shape[IF i % 2 = 1 THEN 2 ELSE 1] \in Int /\ e.box[i] \in Int
      BY <2>1, <3>1
    <3>3. b = [i \in 1 .. 4 |-> e.box[i] * shape[IF i % 2 = 1 THEN 2 ELSE 1]]
      BY DEF ScaleToRaw
    <3> HIDE DEF b
    <3>4. \A i \in 1 .. 4 : b[i] \in Int
      <4> SUFFICES ASSUME NEW i \in 1 .. 4 PROVE b[i] \in Int
        OBVIOUS
      <4> DEFINE x == e.box[i]
                 y == shape[IF i % 2 = 1 THEN 2 ELSE 1]
      <4>1. x \in Int /\ y \in Int /\ b[i] = x * y
        BY <3>2, <3>3
      <4> HIDE DEF x, y
      <4> QED
        BY <4>1
    <3> QED
      BY <3>3, <3>4
  <2> HIDE DEF b
  <2>3. [e EXCEPT !.box = b] \in Detection /\ [e EXCEPT !.box = b].score = e.score
    BY <2>2 DEF Detection
  <2> QED
    BY <2>3 DEF b
<1>12. \A k \in 1 .. q : top[k] \in Detection /\ top[k].score = best[k].score
  <2> SUFFICES ASSUME NEW k \in 1 .. q PROVE top[k] \in Detection /\ top[k].score = best[k].score
    OBVIOUS
  <2> DEFINE e == best[k]
  <2>1. e \in Detection /\ top[k] = [e EXCEPT !.box = ScaleToRaw(@, shape)]
    BY <1>8, <1>9, <1>10
  <2> HIDE DEF e
  <2>2. top[k] \in Detection /\ top[k].score = e.score
    BY <1>11, <2>1
  <2> QED
    BY <2>2 DEF e
<1>13. DOMAIN top = 1 .. q /\ top = [k \in 1 .. q |-> top[k]]
  BY <1>9, <1>10
<1>14. top \in Seq(Detection)
  <2>1. top \in [1 .. q -> Detection]
    BY <1>12, <1>13
  <2>2. q \in Nat
    BY <1>7
  <2> QED
    BY <2>1, <2>2, SeqDef
<1>15. Falling(top)
  <2> SUFFICES ASSUME NEW i \in 1 .. q, NEW j \in 1 .. q, i < j PROVE top[i].score >= top[j].score
    BY <1>13 DEF Falling
  <2>1. top[i].score = dets[p[i]].score /\ top[j].score = dets[p[j]].score
    BY <1>8, <1>12
  <2>2. i \in 1 .. n /\ j \in 1 .. n
    BY <1>1, <1>7
  <2> QED
    BY <1>5, <2>1, <2>2
<1> QED
  BY <1>14, <1>15 DEF top

\* A kit has annotations and a shape for each of its samples.
LEMMA KitFact ==
  ASSUME scene \in Scenes, kit \in DOMAIN scene.kits, NEW s \in Nat, s < Kit.count
  PROVE  /\ Kit.annotations[s + 1] \in Seq(Annotation) /\ Kit.shapes[s + 1] \in Nat \X Nat
         /\ scene.maxBoxes \in Nat
<1> DEFINE as == Kit.annotations
           ss == Kit.shapes
           A == Seq(Annotation)
           P == Nat \X Nat
<1>1. /\ Kit.count \in Nat /\ Kit.count <= Len(as) /\ Kit.count <= Len(ss)
      /\ as \in Seq(A) /\ ss \in Seq(P) /\ scene.maxBoxes \in Nat
  BY ScoresAssumption DEF ScoresAssumption, Kit
<1> HIDE DEF as, ss, A, P
<1>2. /\ Len(as) \in Nat /\ \A i \in 1 .. Len(as) : as[i] \in A
      /\ Len(ss) \in Nat /\ \A i \in 1 .. Len(ss) : ss[i] \in P
  BY <1>1, LenProperties, ElementOfSeq
<1> DEFINE x == Len(as)
           y == Len(ss)
<1>3. s + 1 \in 1 .. x /\ s + 1 \in 1 .. y
  <2>1. Kit.count \in Nat /\ x \in Nat /\ y \in Nat /\ Kit.count <= x /\ Kit.count <= y
    BY <1>1, <1>2
  <2> HIDE DEF x, y
  <2> QED
    BY <2>1
<1>4. as[s + 1] \in A /\ ss[s + 1] \in P
  BY <1>2, <1>3
<1> QED
  BY <1>1, <1>4 DEF as, ss, A, P

\* What is collected are lists of detections beside lists of annotations, better ones first.
LEMMA CollectedFact ==
  ASSUME scene \in Scenes, kit \in DOMAIN scene.kits, RecordsOK, \A s \in DOMAIN records : s < Kit.count,
         NEW detsOf, \A s \in DOMAIN records : detsOf[s] \in Seq(Detection),
         NEW c \in Collections(detsOf)
  PROVE  Frames(c, Annotations, Len(Samples)) /\ \A i \in 1 .. Len(Samples) : Falling(c[i])
<1> DEFINE n == Len(Samples)
           Ours(i) == {TopOf(detsOf[Samples[i]], Kit.shapes[Samples[i] + 1], o) :
                          o \in Rankings(ScoresOfSeq(detsOf[Samples[i]]))}
<1>1. c \in [1 .. n -> UNION {Ours(i) : i \in 1 .. n}] /\ \A i \in 1 .. n : c[i] \in Ours(i)
  BY DEF Collections
<1>2. n \in Nat /\ \A i \in 1 .. n : Samples[i] \in DOMAIN records
  BY SamplesFact
<1>3. DOMAIN Samples = 1 .. n
  <2> DEFINE S == DOMAIN records
  <2>1. S \in SUBSET Int /\ IsFiniteSet(S)
    BY DEF RecordsOK
  <2>2. Cardinality(S) \in Nat /\ Samples \in [1 .. Cardinality(S) -> S]
    BY <2>1, AscendingFact DEF Samples
  <2> HIDE DEF S
  <2>3. Samples \in Seq(S)
    BY <2>2, SeqDef
  <2> QED
    BY <2>3, SeqDomain
<1>4. ASSUME NEW i \in 1 .. n
      PROVE  c[i] \in Seq(Detection) /\ Falling(c[i]) /\ Annotations[i] \in Seq(Annotation)
  <2> DEFINE s == Samples[i]
             dets == detsOf[s]
             shape == Kit.shapes[s + 1]
  <2>1. s \in DOMAIN records /\ s \in Nat /\ s < Kit.count /\ dets \in Seq(Detection)
    BY <1>2 DEF RecordsOK
  <2>2. Kit.annotations[s + 1] \in Seq(Annotation) /\ shape \in Nat \X Nat /\ scene.maxBoxes \in Nat
    <3> HIDE DEF s
    <3> QED
      BY <2>1, KitFact
  <2>3. PICK o \in Rankings(ScoresOfSeq(dets)) : c[i] = TopOf(dets, shape, o)
    <3>1. c[i] \in Ours(i)
      BY <1>1
    <3> QED
      BY <3>1
  <2>4. Annotations[i] = Kit.annotations[s + 1]
    BY <1>3 DEF Annotations
  <2> HIDE DEF s, dets, shape
  <2>5. c[i] \in Seq(Detection) /\ Falling(c[i])
    BY <2>1, <2>2, <2>3, TopFact
  <2> QED
    BY <2>2, <2>4, <2>5
<1>5. DOMAIN c = 1 .. n /\ DOMAIN Annotations = 1 .. n
  <2>1. DOMAIN Annotations = 1 .. n
    BY <1>3 DEF Annotations
  <2>2. DOMAIN c = 1 .. n
    <3> HIDE DEF Ours
    <3> QED
      BY <1>1
  <2> QED
    BY <2>1, <2>2
<1> HIDE DEF n, Ours
<1>6. Frames(c, Annotations, n)
  BY <1>2, <1>4, <1>5 DEF Frames, Framed
<1> QED
  BY <1>4, <1>6 DEF n

\* The figures of the row computed last are those of the detections that were collected for it.
Figures ==
    /\ Frames(detections, Annotations, Len(Samples))
    /\ \A i \in 1 .. Len(Samples) : Falling(detections[i])
    /\ \E o \in Orders(detections) : \A r : Evaluated(r) => rows[r] = Evaluate(detections, Annotations, Labels, o)

Latest ==
    /\ stage \notin {"reference", "done"} => rows = <<>>
    /\ stage \in {"reference", "done"} => Figures

LEMMA RowGives ==
  ASSUME IInv, stage \in {"fleet", "reference"}, NEW name, NEW next, NEW detsOf, Row(name, next, detsOf),
         \A s \in DOMAIN records : detsOf[s] \in Seq(Detection),
         next \in {"reference", "done"}, name = (IF next = "reference" THEN "fleet" ELSE "reference")
  PROVE  Latest'
<1>1. stage' = next /\ UNCHANGED <<scene, at, records, kit>>
  BY DEF Row
<1>2. PICK c \in Collections(detsOf) : \E o \in Orders(c) :
         /\ detections' = c
         /\ rows' = [r \in DOMAIN rows \cup {name} |->
                       IF r = name THEN Evaluate(c, Annotations, Labels, o) ELSE rows[r]]
  BY DEF Row
<1>3. PICK o \in Orders(c) :
         /\ detections' = c
         /\ rows' = [r \in DOMAIN rows \cup {name} |->
                       IF r = name THEN Evaluate(c, Annotations, Labels, o) ELSE rows[r]]
  BY <1>2
<1>4. /\ scene \in Scenes /\ kit \in DOMAIN scene.kits /\ RecordsOK
      /\ \A s \in DOMAIN records : s < Kit.count
  BY DEF IInv, RecordsOK
<1>5. Frames(c, Annotations, Len(Samples)) /\ \A i \in 1 .. Len(Samples) : Falling(c[i])
  BY <1>4, CollectedFact
<1>6. Samples' = Samples /\ Annotations' = Annotations
  BY <1>1, RowFact
<1>7. rows'[name] = Evaluate(c, Annotations, Labels, o)
  BY <1>3
<1>8. \A r : Evaluated(r)' => r = name
  BY <1>1 DEF Evaluated
<1>9. Frames(detections, Annotations, Len(Samples))' /\ (\A i \in 1 .. Len(Samples) : Falling(detections[i]))'
  BY <1>3, <1>5, <1>6
<1>10. (\E p \in Orders(detections) : \A r : Evaluated(r) => rows[r] = Evaluate(detections, Annotations, Labels, p))'
  <2>1. o \in Orders(detections)'
    BY <1>3
  <2>2. \A r : Evaluated(r)' => rows'[r] = Evaluate(detections, Annotations, Labels, o)'
    BY <1>3, <1>6, <1>7, <1>8
  <2> QED
    BY <2>1, <2>2
<1>11. Figures'
  BY <1>9, <1>10 DEF Figures
<1> QED
  BY <1>1, <1>11 DEF Latest

LEMMA LatestInit == Init => Latest
BY DEF Init, Latest

LEMMA LatestNext == IInv /\ Latest /\ [Next]_vars => Latest'
<1> SUFFICES ASSUME IInv, Latest, [Next]_vars PROVE Latest'
  OBVIOUS
<1>1. CASE ReadLine
  BY <1>1 DEF ReadLine, Latest
<1>2. CASE ReadEnd
  BY <1>2 DEF ReadEnd, Refuse, Latest
<1>3. CASE ChooseKit
  <2>1. stage = "choose" /\ rows' = rows /\ stage' \in {"refused", "check"}
    BY <1>3 DEF ChooseKit, Refuse
  <2> QED
    BY <2>1 DEF Latest
<1>4. CASE Check
  <2>1. stage = "check" /\ rows' = rows /\ stage' \in {"refused", "fleet"}
    BY <1>4 DEF Check, Refuse
  <2> QED
    BY <2>1 DEF Latest
<1>5. CASE Fleet
  <2>1. stage = "fleet" /\ Row("fleet", "reference", FromDump)
    BY <1>5 DEF Fleet, Row
  <2>2. \A s \in DOMAIN records : FromDump[s] \in Seq(Detection)
    BY DEF IInv, RecordsOK, FromDump
  <2> QED
    BY <2>1, <2>2, RowGives
<1>6. CASE Reference
  <2>1. stage = "reference" /\ Row("reference", "done", FromKit)
    BY <1>6 DEF Reference, Row
  <2>2. \A s \in DOMAIN records : FromKit[s] \in Seq(Detection)
    <3> SUFFICES ASSUME NEW s \in DOMAIN records PROVE FromKit[s] \in Seq(Detection)
      OBVIOUS
    <3>1. scene \in Scenes /\ kit \in DOMAIN scene.kits /\ s \in Nat /\ s < Kit.count
      BY <2>1 DEF IInv, RecordsOK
    <3>2. Kit.reference[s + 1] \in Seq(Detection) /\ scene.gate \in Int
      BY <3>1, StoredFact
    <3>3. FromKit[s] = Gated(Kit.reference[s + 1], scene.gate)
      BY DEF FromKit
    <3> QED
      BY <3>2, <3>3, GatedFact
  <2> QED
    BY <2>1, <2>2, RowGives
<1>7. CASE Over \/ UNCHANGED vars
  <2>1. UNCHANGED vars
    BY <1>7 DEF Over
  <2>2. /\ UNCHANGED <<scene, at, records, kit>> /\ stage' = stage /\ rows' = rows /\ detections' = detections
    BY <2>1 DEF vars
  <2>3. Samples' = Samples /\ Annotations' = Annotations
    BY <2>2, RowFact
  <2>4. Figures => Figures'
    BY <2>2, <2>3 DEF Figures, Evaluated
  <2> QED
    BY <2>2, <2>4 DEF Latest
<1> QED
  BY <1>1, <1>2, <1>3, <1>4, <1>5, <1>6, <1>7 DEF Next

\* The figures of the last row are always those of the frames that were collected for it.
THEOREM LatestInvariant == Spec => []Latest
<1>1. Init => Latest
  BY LatestInit
<1>2. IInv /\ Latest /\ [Next]_vars => Latest'
  BY LatestNext
<1> QED
  BY <1>1, <1>2, ScoreInvariant, PTL DEF Spec

\* A figure of the last row is the average precision of its class.
LEMMA FigureFact ==
  ASSUME Latest, NEW r \in DOMAIN rows, Evaluated(r)
  PROVE  /\ Frames(detections, Annotations, Len(Samples))
         /\ \A i \in 1 .. Len(Samples) : Falling(detections[i])
         /\ \E o \in Orders(detections) :
               \A t \in IoUThresholds : \A c \in Labels :
                  rows[r][t][c] = AveragePrecision(detections, Annotations, c, t, o[c])
<1>1. DOMAIN rows # {}
  OBVIOUS
<1>2. rows # <<>>
  <2>1. DOMAIN <<>> = {}
    OBVIOUS
  <2> QED
    BY <1>1, <2>1
<1>3. Figures
  BY <1>2 DEF Latest
<1>4. PICK o \in Orders(detections) : rows[r] = Evaluate(detections, Annotations, Labels, o)
  BY <1>3 DEF Figures
<1>5. \A t \in IoUThresholds : \A c \in Labels :
        rows[r][t][c] = AveragePrecision(detections, Annotations, c, t, o[c])
  BY <1>4 DEF Evaluate
<1> QED
  BY <1>3, <1>5 DEF Figures

\* The order of a class ranks all its detections.
LEMMA OrderFact ==
  ASSUME NEW d, NEW a, NEW n, Frames(d, a, n), NEW o \in Orders(d), NEW c \in Labels
  PROVE  /\ o[c] \in Rankings(ScoresOf(d, c))
         /\ Ranking(o[c], Cardinality(Pool(d, c)), Pool(d, c), ScoresOf(d, c))
<1> DEFINE P == Pool(d, c)
           score == ScoresOf(d, c)
<1>1. o[c] \in Rankings(score)
  BY DEF Orders
<1>2. IsFiniteSet(P)
  BY PoolFact DEF Frames
<1>3. DOMAIN score = P
  BY DEF ScoresOf
<1> HIDE DEF P, score
<1>4. Ranking(o[c], Cardinality(P), P, score)
  BY <1>1, <1>2, <1>3, RankingFact
<1> QED
  BY <1>1, <1>4 DEF P, score

\* Whatever was dumped, and whatever order argsort gives to equal scores, the figure of a class
\* is the average precision of the textbook (detection_map.py:20-27, 53-95).
THEOREM FiguresAreAreas == Spec => []ApIsArea
<1>1. Latest => ApIsArea
  <2> SUFFICES ASSUME Latest, NEW r \in DOMAIN rows, Evaluated(r), NEW t \in IoUThresholds, NEW c \in Labels
               PROVE  \E order \in Rankings(ScoresOf(detections, c)) :
                        rows[r][t][c] = TotalWorth([k \in DOMAIN order |-> Hit(detections, Annotations, c, t, order[k])],
                                                   Cardinality(Pool(Annotations, c)))
    BY DEF ApIsArea, Hit
  <2>1. Frames(detections, Annotations, Len(Samples))
    BY FigureFact
  <2>2. PICK o \in Orders(detections) :
          rows[r][t][c] = AveragePrecision(detections, Annotations, c, t, o[c])
    BY FigureFact
  <2> DEFINE m == Cardinality(Pool(detections, c))
             order == o[c]
  <2>3. order \in Rankings(ScoresOf(detections, c)) /\ Ranking(order, m, Pool(detections, c), ScoresOf(detections, c))
    BY <2>1, OrderFact
  <2> HIDE DEF order, m
  <2>4. m \in Nat /\ order \in [1 .. m -> Pool(detections, c)] /\ \A i, j \in 1 .. m : order[i] = order[j] => i = j
    BY <2>3 DEF Ranking
  <2>5. AveragePrecision(detections, Annotations, c, t, order)
          = TotalWorth(Hits(detections, Annotations, c, t, order), Cardinality(Pool(Annotations, c)))
    BY <2>1, <2>4, ClassFact
  <2> QED
    BY <2>2, <2>3, <2>5 DEF Hits, order
<1> QED
  BY <1>1, LatestInvariant, PTL

\* A figure never rises with the threshold, if no two scores of a frame tie
\* (detection_map.py:119-124).
THEOREM StricterNeverHigher == Spec => []StricterIsLower
<1>1. Latest => StricterIsLower
  <2> SUFFICES ASSUME Latest, DistinctScores, NEW r \in DOMAIN rows, Evaluated(r),
                      NEW s \in IoUThresholds, NEW t \in IoUThresholds, NEW c \in Labels, s < t
               PROVE  rows[r][s][c] >= rows[r][t][c]
    BY DEF StricterIsLower
  <2> DEFINE n == Len(Samples)
  <2>1. Frames(detections, Annotations, n) /\ \A i \in 1 .. n : Falling(detections[i])
    BY FigureFact
  <2>2. PICK o \in Orders(detections) :
          /\ rows[r][s][c] = AveragePrecision(detections, Annotations, c, s, o[c])
          /\ rows[r][t][c] = AveragePrecision(detections, Annotations, c, t, o[c])
    BY FigureFact
  <2> HIDE DEF n
  <2>3. \A i \in 1 .. n : Strict(detections[i])
    <3> SUFFICES ASSUME NEW i \in 1 .. n, NEW j \in DOMAIN detections[i], NEW k \in DOMAIN detections[i], j < k
                 PROVE  detections[i][j].score > detections[i][k].score
      BY DEF Strict
    <3> DEFINE d == detections[i]
    <3>1. d \in Seq(Detection) /\ Untied(d) /\ Falling(d)
      BY <2>1 DEF DistinctScores, Frames, Framed
    <3> HIDE DEF d
    <3>2. j \in DOMAIN d /\ k \in DOMAIN d
      BY DEF d
    <3>3. j \in Int /\ k \in Int /\ d[j] \in Detection /\ d[k] \in Detection
      BY <3>1, <3>2, SeqDomain
    <3>4. d[j].score >= d[k].score /\ d[j].score # d[k].score
      BY <3>1, <3>2, <3>3 DEF Falling, Untied
    <3>5. d[j].score \in Int /\ d[k].score \in Int
      BY <3>3 DEF Detection
    <3>6. d[j].score > d[k].score
      BY <3>4, <3>5
    <3> QED
      BY <3>6 DEF d
  <2>4. s \in Nat /\ t \in Nat /\ s <= t
    BY DEF IoUThresholds
  <2>5. Ranking(o[c], Cardinality(Pool(detections, c)), Pool(detections, c), ScoresOf(detections, c))
    BY <2>1, OrderFact
  <2>6. AveragePrecision(detections, Annotations, c, t, o[c]) <= AveragePrecision(detections, Annotations, c, s, o[c])
    BY <2>1, <2>3, <2>4, <2>5, ClassStricter
  <2> QED
    BY <2>2, <2>6
<1> QED
  BY <1>1, LatestInvariant, PTL
=============================================================================
