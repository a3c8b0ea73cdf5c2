-------------------------- MODULE CompletionProofs --------------------------
(***************************************************************************)
(* What a completion returns and what becomes of its text, proved for      *)
(* every budget of attempts, every provider, every text and every cap: the *)
(* lemmas are about PostProcess, the theorems about Completion.            *)
(***************************************************************************)
EXTENDS Completion, FunctionTheorems, FiniteSetTheorems, SequenceTheorems,
        WellFoundedInduction, TLAPS

-----------------------------------------------------------------------------
(* The operators of PostProcess.                                            *)

\* The least and the greatest number of a bounded set are what the name says.
LEMMA LeastNumber ==
  ASSUME NEW m \in Int, NEW S \in SUBSET Int, S # {}, \A x \in S : x >= m
  PROVE  Min(S) \in S /\ \A x \in S : Min(S) <= x
<1> DEFINE D == {x - m : x \in S}
           R == OpToRel(<, Nat)
<1>1. D \subseteq Nat /\ D # {}
  <2>1. PICK x \in S : TRUE
    OBVIOUS
  <2>2. x - m \in D
    OBVIOUS
  <2>3. ASSUME NEW y \in S PROVE y - m \in Nat
    <3>1. y >= m /\ y \in Int
      OBVIOUS
    <3> QED
      BY <3>1
  <2> QED
    BY <2>2, <2>3
<1>2. IsWellFoundedOn(R, Nat)
  BY NatLessThanWellFounded
<1>3. R = {ss \in Nat \X Nat : ss[1] < ss[2]}
  BY DEF OpToRel
<1> HIDE DEF R
<1>4. PICK d \in D : \A y \in D : ~(<<y, d>> \in R)
  <2> HIDE DEF D
  <2> QED
    BY <1>1, <1>2, WFMin, Zenon
<1>5. PICK x \in S : d = x - m
  OBVIOUS
<1>6. ASSUME NEW y \in S PROVE x <= y
  <2>1. y - m \in D /\ y - m \in Nat /\ d \in Nat
    BY <1>1
  <2>2. ~(<<y - m, d>>[1] < <<y - m, d>>[2])
    BY <1>3, <1>4, <2>1
  <2> QED
    BY <1>5, <2>1, <2>2
<1> HIDE DEF D
<1> QED
  BY <1>6 DEF Min

\* ... and so is the greatest, which is the least of the negated numbers.
LEMMA GreatestNumber ==
  ASSUME NEW n \in Int, NEW S \in SUBSET Int, S # {}, \A x \in S : x <= n
  PROVE  Max(S) \in S /\ \A x \in S : x <= Max(S)
<1> DEFINE D == {-x : x \in S}
<1>1. D \in SUBSET Int /\ D # {} /\ -n \in Int /\ \A x \in D : x >= -n
  <2>1. PICK x \in S : TRUE
    OBVIOUS
  <2>2. -x \in D
    OBVIOUS
  <2>3. ASSUME NEW y \in S PROVE -y \in Int /\ -y >= -n
    <3>1. y <= n /\ y \in Int
      OBVIOUS
    <3> QED
      BY <3>1
  <2> QED
    BY <2>2, <2>3
<1>2. Min(D) \in D /\ \A x \in D : Min(D) <= x
  <2> HIDE DEF D
  <2> QED
    BY <1>1, LeastNumber
<1>3. PICK x \in S : Min(D) = -x
  BY <1>2
<1>4. \A y \in S : x >= y
  <2> TAKE y \in S
  <2>1. -y \in D
    OBVIOUS
  <2>2. Min(D) <= -y /\ Min(D) = -x /\ x \in Int /\ y \in Int
    BY <1>2, <1>3, <2>1
  <2> QED
    BY <2>2
<1> HIDE DEF D
<1> QED
  BY <1>4 DEF Max

\* The ranks of places in a text are natural numbers.
LEMMA RankType ==
  ASSUME NEW n \in Nat, NEW K \in SUBSET (1 .. n)
  PROVE  /\ IsFiniteSet(K) /\ Cardinality(K) \in Nat
         /\ \A i \in Int : Rank(K, i) \in Nat
         /\ \A i \in Int : IsFiniteSet({j \in K : j <= i})
<1>1. IsFiniteSet(1 .. n)
  BY FS_Interval
<1>2. IsFiniteSet(K)
  BY <1>1, FS_Subset
<1>3. ASSUME NEW i \in Int
      PROVE  IsFiniteSet({j \in K : j <= i}) /\ Rank(K, i) \in Nat
  <2> DEFINE U == {j \in K : j <= i}
  <2>1. U \in SUBSET K
    OBVIOUS
  <2> HIDE DEF U
  <2>2. IsFiniteSet(U) /\ Cardinality(U) \in Nat
    BY <1>2, <2>1, FS_Subset, FS_CardinalityType
  <2> QED
    BY <2>2 DEF U, Rank
<1> QED
  BY <1>2, <1>3, FS_CardinalityType

\* A later place has a higher rank.
LEMMA RankIncreases ==
  ASSUME NEW n \in Nat, NEW K \in SUBSET (1 .. n), NEW i \in K, NEW j \in K
  PROVE  /\ i < j => Rank(K, i) < Rank(K, j)
         /\ Rank(K, i) = Rank(K, j) => i = j
<1> DEFINE Upto(x) == {y \in K : y <= x}
<1>0. ASSUME NEW a \in K, NEW b \in K, a < b
      PROVE  Rank(K, a) < Rank(K, b)
  <2>0. a \in Int /\ b \in Int /\ \A y \in K : y \in Int
    OBVIOUS
  <2>a. \A x \in Upto(a) : x \in K /\ x <= b
    BY <1>0, <2>0
  <2>1. Upto(a) \in SUBSET Upto(b)
    BY <2>a
  <2>2. b \in Upto(b) /\ b \notin Upto(a)
    BY <1>0, <2>0
  <2>3. IsFiniteSet(Upto(b)) /\ Cardinality(Upto(a)) \in Nat /\ Cardinality(Upto(b)) \in Nat
    BY <2>0, RankType DEF Rank
  <2> HIDE DEF Upto
  <2>4. /\ Cardinality(Upto(a)) <= Cardinality(Upto(b))
        /\ Cardinality(Upto(b)) = Cardinality(Upto(a)) => Upto(b) = Upto(a)
    BY <2>1, <2>3, FS_Subset
  <2>5. Cardinality(Upto(a)) < Cardinality(Upto(b))
    BY <2>2, <2>3, <2>4
  <2> QED
    BY <2>5 DEF Upto, Rank
<1>a. i \in Int /\ j \in Int
  OBVIOUS
<1>1. i \in Int /\ j \in Int /\ Rank(K, i) \in Nat /\ Rank(K, j) \in Nat
  BY <1>a, RankType
<1>2. i < j \/ j < i \/ i = j
  BY <1>1
<1>3. (i < j => Rank(K, i) < Rank(K, j)) /\ (j < i => Rank(K, j) < Rank(K, i))
  BY <1>0
<1> QED
  BY <1>1, <1>2, <1>3

\* A place is among the places it is one of.
LEMMA RanksAreInRange ==
  ASSUME NEW n \in Nat, NEW K \in SUBSET (1 .. n), NEW i \in K
  PROVE  Rank(K, i) \in 1 .. Cardinality(K)
<1> DEFINE U == {j \in K : j <= i}
<1>1. IsFiniteSet(K) /\ Cardinality(K) \in Nat
  BY RankType
<1>2. i \in Int /\ \A y \in K : y \in Int
  OBVIOUS
<1>3. U \in SUBSET K /\ i \in U /\ Rank(K, i) = Cardinality(U)
  BY <1>2 DEF Rank
<1>4. IsFiniteSet(U) /\ Rank(K, i) \in Nat
  BY <1>2, RankType
<1> HIDE DEF U
<1>5. Cardinality(U) <= Cardinality(K) /\ Cardinality(U) # 0
  BY <1>1, <1>3, <1>4, FS_Subset, FS_EmptySet
<1> QED
  BY <1>1, <1>3, <1>4, <1>5

\* Every number up to how many places there are is the rank of one.
LEMMA PlacesHaveRanks ==
  ASSUME NEW n \in Nat, NEW K \in SUBSET (1 .. n), NEW k \in 1 .. Cardinality(K)
  PROVE  \E i \in K : Rank(K, i) = k
<1> DEFINE rank == [i \in K |-> Rank(K, i)]
           C == 1 .. Cardinality(K)
<1>1. IsFiniteSet(K) /\ Cardinality(K) \in Nat
  BY RankType
<1>2. \A i \in K : Rank(K, i) \in C
  BY RanksAreInRange
<1> HIDE DEF C
<1>3. rank \in [K -> C] /\ \A i \in K : rank[i] = Rank(K, i)
  BY <1>2
<1> HIDE DEF rank
<1>4. rank \in Injection(K, C)
  BY <1>3, RankIncreases DEF Injection, IsInjective
<1>5. IsFiniteSet(C) /\ Cardinality(C) = Cardinality(K)
  BY <1>1, FS_Interval DEF C
<1>6. rank \in Surjection(K, C)
  BY <1>4, <1>5, FS_Injection
<1> QED
  BY <1>3, <1>6 DEF Surjection, C

\* The text that has the characters at some places in their order is At.
LEMMA AtIs ==
  ASSUME NEW T, NEW s \in Seq(T), NEW K \in SUBSET (1 .. Len(s)), NEW t \in Seq(T),
         Len(t) = Cardinality(K),
         \A k \in 1 .. Len(t) : \E i \in K : Rank(K, i) = k /\ t[k] = s[i]
  PROVE  At(s, K) = t
<1> DEFINE place(k) == CHOOSE i \in K : Rank(K, i) = k
<1>1. Len(s) \in Nat /\ DOMAIN s = 1 .. Len(s) /\ Len(t) \in Nat /\ t \in [1 .. Len(t) -> T]
  BY LenProperties
<1>3. At(s, K) = [k \in 1 .. Len(t) |-> s[place(k)]]
  BY DEF At
<1>4. ASSUME NEW k \in 1 .. Len(t)
      PROVE  s[place(k)] = t[k]
  <2>1. PICK i \in K : Rank(K, i) = k /\ t[k] = s[i]
    OBVIOUS
  <2>2. place(k) \in K /\ Rank(K, place(k)) = k
    BY <2>1, Zenon
  <2> HIDE DEF place
  <2>3. place(k) = i
    BY <1>1, <2>1, <2>2, RankIncreases
  <2> QED
    BY <2>1, <2>3
<1> HIDE DEF place
<1> QED
  BY <1>1, <1>3, <1>4

\* ... and there is one.
LEMMA AtPlaces ==
  ASSUME NEW T, NEW s \in Seq(T), NEW K \in SUBSET (1 .. Len(s))
  PROVE  /\ At(s, K) \in Seq(T) /\ Len(At(s, K)) = Cardinality(K)
         /\ \E p \in [1 .. Cardinality(K) -> K] :
              /\ \A k \in 1 .. Cardinality(K) : Rank(K, p[k]) = k /\ At(s, K)[k] = s[p[k]]
              /\ \A i \in K : \E k \in 1 .. Cardinality(K) : p[k] = i
<1> DEFINE c == Cardinality(K)
           place(k) == CHOOSE i \in K : Rank(K, i) = k
           p == [k \in 1 .. c |-> place(k)]
<1>1. Len(s) \in Nat /\ DOMAIN s = 1 .. Len(s) /\ c \in Nat
  BY LenProperties, RankType
<1>3. At(s, K) = [k \in 1 .. c |-> s[place(k)]]
  BY DEF At
<1>4. ASSUME NEW k \in 1 .. c
      PROVE  place(k) \in K /\ Rank(K, place(k)) = k
  <2>1. \E i \in K : Rank(K, i) = k
    BY <1>1, PlacesHaveRanks
  <2> QED
    BY <2>1, Zenon
<1>5. ASSUME NEW i \in K
      PROVE  \E k \in 1 .. c : place(k) = i
  <2> DEFINE k == Rank(K, i)
  <2>4. k \in 1 .. c
    BY <1>1, RankType, RanksAreInRange
  <2>5. place(k) \in K /\ Rank(K, place(k)) = Rank(K, i)
    BY <1>4, <2>4
  <2> HIDE DEF place, k
  <2>6. place(k) = i
    BY <1>1, <2>5, RankIncreases
  <2> QED
    BY <2>4, <2>6
<1> HIDE DEF place, c
<1>6. p \in [1 .. c -> K] /\ \A k \in 1 .. c : p[k] = place(k)
  BY <1>4
<1>7. \A i \in K : s[i] \in T
  BY ElementOfSeq
<1> HIDE DEF p
<1>a. \A k \in 1 .. c : s[place(k)] \in T
  BY <1>4, <1>7
<1>8. At(s, K) \in Seq(T) /\ Len(At(s, K)) = c /\ \A k \in 1 .. c : At(s, K)[k] = s[p[k]]
  BY <1>1, <1>3, <1>a, <1>6
<1>9. \A k \in 1 .. c : Rank(K, p[k]) = k
  BY <1>4, <1>6
<1>10. \A i \in K : \E k \in 1 .. c : p[k] = i
  BY <1>5, <1>6
<1> QED
  BY <1>6, <1>8, <1>9, <1>10 DEF c

\* The places from one on to the end are the end of the text.
LEMMA AtTheEnd ==
  ASSUME NEW T, NEW s \in Seq(T), NEW a \in 1 .. Len(s) + 1
  PROVE  At(s, a .. Len(s)) = SubSeq(s, a, Len(s))
<1> DEFINE n == Len(s)
           K == a .. n
           t == SubSeq(s, a, n)
<1>1. n \in Nat /\ a \in Int /\ a >= 1 /\ a <= n + 1
  BY LenProperties
<1>2. \A i \in a .. n : s[i] \in T
  BY <1>1, ElementOfSeq
<1>3. t \in Seq(T) /\ Len(t) = n - a + 1 /\ \A k \in 1 .. n - a + 1 : t[k] = s[a + k - 1]
  BY <1>1, <1>2, SubSeqProperties
<1>4. Cardinality(K) = n - a + 1
  <2>1. ASSUME NEW x \in Int, NEW y \in Int, x <= y + 1
        PROVE  Cardinality(x .. y) = y - x + 1
    <3>1. Cardinality(x .. y) = IF x > y THEN 0 ELSE y - x + 1
      BY FS_Interval, Zenon
    <3> QED
      BY <2>1, <3>1
  <2> HIDE DEF n
  <2>2. n \in Int
    BY <1>1
  <2> QED
    BY <1>1, <2>1, <2>2
<1>5. ASSUME NEW k \in 1 .. n - a + 1
      PROVE  a + k - 1 \in K /\ Rank(K, a + k - 1) = k
  <2>1. a + k - 1 \in a .. n /\ {j \in a .. n : j <= a + k - 1} = a .. a + k - 1
    BY <1>1
  <2>2. Cardinality(a .. a + k - 1) = k
    BY <1>1, FS_Interval
  <2> QED
    BY <2>1, <2>2 DEF Rank
<1>6. K \in SUBSET (1 .. n)
  BY <1>1
<1>7. ASSUME NEW k \in 1 .. Len(t)
      PROVE  \E i \in K : Rank(K, i) = k /\ t[k] = s[i]
  <2>1. k \in 1 .. n - a + 1
    BY <1>3
  <2>2. a + k - 1 \in K /\ Rank(K, a + k - 1) = k
    BY <1>5, <2>1
  <2>3. t[k] = s[a + k - 1]
    BY <1>3, <2>1
  <2> HIDE DEF K, t
  <2> QED
    BY <2>2, <2>3
<1> HIDE DEF K, t
<1>8. t \in Seq(T) /\ Len(t) = Cardinality(K)
  BY <1>3, <1>4
<1>9. At(s, K) = t
  BY <1>6, <1>7, <1>8, AtIs
<1> QED
  BY <1>9 DEF K, t

\* TrimSpace takes the text from its first to its last solid character.
LEMMA TrimSpaceEnds ==
  ASSUME NEW T, NEW s \in Seq(T)
  PROVE  \/ TrimSpace(s) = <<>> /\ \A i \in 1 .. Len(s) : s[i] \in Blank
         \/ \E a, b \in 1 .. Len(s) :
              /\ TrimSpace(s) = SubSeq(s, a, b) /\ a <= b
              /\ s[a] \notin Blank /\ s[b] \notin Blank
              /\ \A i \in 1 .. Len(s) : i < a \/ b < i => s[i] \in Blank
<1> DEFINE solid == {i \in DOMAIN s : s[i] \notin Blank}
<1>1. Len(s) \in Nat /\ DOMAIN s = 1 .. Len(s)
  BY LenProperties
<1>2. TrimSpace(s) = IF solid = {} THEN <<>> ELSE SubSeq(s, Min(solid), Max(solid))
  BY DEF TrimSpace
<1>3. CASE solid = {}
  <2>1. \A i \in 1 .. Len(s) : s[i] \in Blank
    BY <1>1, <1>3
  <2> HIDE DEF solid
  <2> QED
    BY <1>2, <1>3, <2>1
<1>4. CASE solid # {}
  <2>1. solid \in SUBSET Int /\ \A i \in solid : i >= 1 /\ i <= Len(s)
    BY <1>1
  <2>2. Min(solid) \in solid /\ \A i \in solid : Min(solid) <= i
    <3> HIDE DEF solid
    <3> QED
      BY <1>4, <2>1, LeastNumber
  <2>3. Max(solid) \in solid /\ \A i \in solid : i <= Max(solid)
    <3> HIDE DEF solid
    <3>1. Len(s) \in Int /\ \A i \in solid : i <= Len(s)
      BY <1>1, <2>1
    <3> QED
      BY <1>4, <2>1, <3>1, GreatestNumber
  <2>4. \A i \in 1 .. Len(s) : s[i] \in Blank \/ i \in solid
    BY <1>1
  <2>5. \A i \in solid : i \in 1 .. Len(s) /\ s[i] \notin Blank
    BY <1>1
  <2>6. TrimSpace(s) = SubSeq(s, Min(solid), Max(solid))
    <3> HIDE DEF solid
    <3> QED
      BY <1>2, <1>4
  <2> DEFINE a == Min(solid)
             b == Max(solid)
  <2>7. a \in solid /\ b \in solid /\ TrimSpace(s) = SubSeq(s, a, b)
    BY <2>2, <2>3, <2>6
  <2>8. \A i \in solid : a <= i /\ i <= b
    BY <2>2, <2>3
  <2> HIDE DEF solid, a, b
  <2>9. a \in 1 .. Len(s) /\ b \in 1 .. Len(s) /\ a <= b
    BY <2>5, <2>7, <2>8
  <2>10. \A i \in 1 .. Len(s) : i < a \/ b < i => s[i] \in Blank
    BY <2>4, <2>8, <2>9
  <2> QED
    BY <2>5, <2>7, <2>9, <2>10
<1> QED
  BY <1>3, <1>4

\* A trimmed text is a text, and does not begin with a blank.
LEMMA TrimSpaceType ==
  ASSUME NEW T, NEW s \in Seq(T)
  PROVE  /\ TrimSpace(s) \in Seq(T)
         /\ TrimSpace(s) # <<>> => TrimSpace(s)[1] \notin Blank
<1>1. CASE TrimSpace(s) = <<>>
  BY <1>1, EmptySeq
<1>2. CASE TrimSpace(s) # <<>>
  <2>1. PICK a, b \in 1 .. Len(s) :
          TrimSpace(s) = SubSeq(s, a, b) /\ a <= b /\ s[a] \notin Blank
    BY <1>2, TrimSpaceEnds
  <2>2. Len(s) \in Nat /\ a \in Int /\ b \in Int /\ \A i \in a .. b : s[i] \in T
    BY LenProperties, ElementOfSeq
  <2>3. SubSeq(s, a, b) \in Seq(T) /\ SubSeq(s, a, b)[1] = s[a + 1 - 1]
    <3>1. 1 \in 1 .. b - a + 1
      BY <2>1, <2>2
    <3> QED
      BY <2>2, <3>1, SubSeqProperties
  <2>4. a + 1 - 1 = a
    BY <2>2
  <2> QED
    BY <2>1, <2>3, <2>4
<1> QED
  BY <1>1, <1>2

\* Every step of PostProcess makes a text of a text.
LEMMA PartType ==
  ASSUME NEW T, NEW s \in Seq(T), NEW a \in Int, NEW b \in Int, a >= 1, b <= Len(s)
  PROVE  SubSeq(s, a, b) \in Seq(T)
<1>1. \A i \in a .. b : s[i] \in T
  BY LenProperties, ElementOfSeq
<1> QED
  BY <1>1, SubSeqProperties

\* A text without a prefix or a suffix is a text.
LEMMA TrimAffixType ==
  ASSUME NEW T, NEW s \in Seq(T), NEW token
  PROVE  TrimPrefix(s, token) \in Seq(T) /\ TrimSuffix(s, token) \in Seq(T)
<1>1. s # <<>> => Tail(s) \in Seq(T)
  BY HeadTailProperties
<1>2. Front(s) \in Seq(T)
  <2>1. Len(s) \in Nat
    BY LenProperties
  <2>2. SubSeq(s, 1, Len(s) - 1) \in Seq(T)
    BY <2>1, PartType
  <2> QED
    BY <2>2 DEF Front
<1> QED
  BY <1>1, <1>2 DEF TrimPrefix, TrimSuffix, HasPrefix

\* What comes after the last closing tag is a text.
LEMMA AfterLastCloseType ==
  ASSUME NEW T, NEW s \in Seq(T)
  PROVE  AfterLastClose(s) \in Seq(T)
<1> DEFINE closes == {i \in DOMAIN s : s[i] = Close}
<1>1. Len(s) \in Nat /\ closes \in SUBSET Int /\ \A i \in closes : i >= 1 /\ i <= Len(s)
  BY LenProperties
<1>2. AfterLastClose(s) = IF closes = {} THEN s ELSE SubSeq(s, Max(closes) + 1, Len(s))
  BY DEF AfterLastClose
<1> HIDE DEF closes
<1>3. ASSUME closes # {}
      PROVE  SubSeq(s, Max(closes) + 1, Len(s)) \in Seq(T)
  <2>1. Len(s) \in Int /\ \A i \in closes : i <= Len(s)
    BY <1>1
  <2>2. Max(closes) \in closes
    BY <1>1, <1>3, <2>1, GreatestNumber
  <2>3. Max(closes) + 1 \in Int /\ Max(closes) + 1 >= 1
    <3>1. Max(closes) \in Int /\ Max(closes) >= 1
      BY <1>1, <2>2
    <3> QED
      BY <3>1
  <2> QED
    BY <1>1, <2>3, PartType
<1> QED
  BY <1>2, <1>3

\* What is inside of a fence is a text.
LEMMA UnfenceType ==
  ASSUME NEW T, NEW s \in Seq(T)
  PROVE  Unfence(s) \in Seq(T)
<1> DEFINE newlines == {i \in DOMAIN s : s[i] = Newline}
           first == Min(newlines)
           tagged == newlines # {} /\ Fields(SubSeq(s, 1, first - 1)) <= 1
           body == IF tagged THEN SubSeq(s, first + 1, Len(s)) ELSE s
<1>1. Len(s) \in Nat /\ newlines \in SUBSET Int /\ \A i \in newlines : i >= 1
  BY LenProperties
<1>2. Unfence(s) = TrimSpace(TrimSuffix(TrimSpace(body), Fence))
  BY DEF Unfence
<1>3. ASSUME newlines # {}
      PROVE  SubSeq(s, first + 1, Len(s)) \in Seq(T)
  <2> HIDE DEF newlines
  <2>1. first \in newlines
    BY <1>1, <1>3, LeastNumber
  <2> HIDE DEF first
  <2>2. first + 1 \in Int /\ first + 1 >= 1
    BY <1>1, <2>1
  <2> QED
    BY <1>1, <2>2, PartType
<1>4. body \in Seq(T)
  <2>1. tagged => newlines # {}
    OBVIOUS
  <2> HIDE DEF tagged, newlines, first
  <2> QED
    BY <1>3, <2>1
<1> HIDE DEF body
<1>5. TrimSpace(body) \in Seq(T)
  BY <1>4, TrimSpaceType
<1>6. TrimSuffix(TrimSpace(body), Fence) \in Seq(T)
  BY <1>5, TrimAffixType
<1> QED
  BY <1>2, <1>6, TrimSpaceType

\* A cleaned answer is a text, and does not begin with a blank.
LEMMA CleanType ==
  ASSUME NEW T, NEW s \in Seq(T)
  PROVE  /\ Clean(s) \in Seq(T)
         /\ Clean(s) # <<>> => Clean(s)[1] \notin Blank
<1>1. DropThinking(s) \in Seq(T)
  <2> DEFINE thought(i) == \E k \in 1 .. i, j \in i .. Len(s) :
                             s[k] = Open /\ s[j] = Close /\ \A m \in k .. j - 1 : s[m] # Close
             K == {i \in DOMAIN s : ~thought(i)}
  <2>1. DropThinking(s) = At(s, K) /\ K \in SUBSET (1 .. Len(s))
    BY LenProperties DEF DropThinking
  <2> HIDE DEF K
  <2> QED
    BY <2>1, AtPlaces
<1>2. AfterLastClose(DropThinking(s)) \in Seq(T)
  BY <1>1, AfterLastCloseType
<1> DEFINE u == TrimSpace(AfterLastClose(DropThinking(s)))
<1>3. u \in Seq(T)
  BY <1>2, TrimSpaceType
<1>4. StripFence(u) \in Seq(T)
  <2> HIDE DEF u
  <2>1. HasPrefix(u, Fence) => Tail(u) \in Seq(T)
    BY <1>3, HeadTailProperties DEF HasPrefix
  <2> QED
    BY <1>3, <2>1, UnfenceType DEF StripFence
<1>5. TrimPrefix(StripFence(u), Preamble) \in Seq(T)
  <2> HIDE DEF u
  <2> QED
    BY <1>4, TrimAffixType
<1>6. Clean(s) = TrimSpace(TrimPrefix(StripFence(u), Preamble))
  BY DEF Clean
<1> HIDE DEF u
<1> QED
  BY <1>5, <1>6, TrimSpaceType

\* lastSpace finds the last blank, if there is one.
LEMMA LastSpaceIsLast ==
  ASSUME NEW T, NEW s \in Seq(T)
  PROVE  /\ lastSpace(s) \in -1 .. Len(s) - 1
         /\ lastSpace(s) >= 0 => s[lastSpace(s) + 1] \in Blank
         /\ \A i \in 1 .. Len(s) : s[i] \in Blank => i <= lastSpace(s) + 1
<1> DEFINE B == {i \in DOMAIN s : s[i] \in Blank}
           S == {i - 1 : i \in B} \cup {-1}
<1>1. Len(s) \in Nat /\ DOMAIN s = 1 .. Len(s)
  BY LenProperties
<1>2. S \in SUBSET Int /\ S # {} /\ \A x \in S : x <= Len(s) - 1
  BY <1>1
<1>3. \A x \in S : x = -1 \/ (x >= 0 /\ s[x + 1] \in Blank)
  <2>1. ASSUME NEW i \in B PROVE i - 1 >= 0 /\ s[i - 1 + 1] \in Blank
    <3>1. i \in Int /\ i >= 1 /\ s[i] \in Blank
      BY <1>1
    <3>2. i - 1 + 1 = i
      BY <3>1
    <3> QED
      BY <3>1, <3>2
  <2> HIDE DEF B
  <2> QED
    BY <2>1
<1>4. \A i \in 1 .. Len(s) : s[i] \in Blank => i - 1 \in S
  BY <1>1
<1>5. lastSpace(s) = Max(S)
  BY DEF lastSpace
<1>6. -1 \in S
  OBVIOUS
<1> HIDE DEF S
<1>7. Len(s) - 1 \in Int
  BY <1>1
<1>8. lastSpace(s) \in S /\ \A x \in S : x <= lastSpace(s)
  BY <1>2, <1>5, <1>7, GreatestNumber
<1>9. lastSpace(s) \in Int /\ lastSpace(s) >= -1 /\ lastSpace(s) <= Len(s) - 1
  BY <1>2, <1>6, <1>8
<1>10. lastSpace(s) \in -1 .. Len(s) - 1
  BY <1>1, <1>9
<1>11. lastSpace(s) >= 0 => s[lastSpace(s) + 1] \in Blank
  BY <1>3, <1>8
<1>12. ASSUME NEW i \in 1 .. Len(s), s[i] \in Blank
       PROVE  i <= lastSpace(s) + 1
  <2>1. i - 1 <= lastSpace(s)
    BY <1>4, <1>8, <1>12
  <2> QED
    BY <1>1, <1>9, <2>1
<1> QED
  BY <1>10, <1>11, <1>12

\* A beginning of a text has its characters, and the beginning of a beginning is one.
LEMMA Beginning ==
  ASSUME NEW T, NEW s \in Seq(T), NEW p \in 1 .. Len(s)
  PROVE  /\ SubSeq(s, 1, p) \in Seq(T) /\ Len(SubSeq(s, 1, p)) = p
         /\ \A i \in 1 .. p : SubSeq(s, 1, p)[i] = s[i]
         /\ \A k \in 1 .. p : SubSeq(SubSeq(s, 1, p), 1, k) = SubSeq(s, 1, k)
<1>1. Len(s) \in Nat /\ p \in Int /\ p >= 1 /\ p <= Len(s) /\ 1 \in 1 .. Len(s)
  BY LenProperties
<1>2. \A i \in 1 .. p : s[i] \in T
  BY <1>1, ElementOfSeq
<1>3. /\ SubSeq(s, 1, p) \in Seq(T)
      /\ Len(SubSeq(s, 1, p)) = IF 1 <= p THEN p - 1 + 1 ELSE 0
      /\ \A i \in 1 .. p - 1 + 1 : SubSeq(s, 1, p)[i] = s[1 + i - 1]
  BY <1>1, <1>2, SubSeqProperties
<1>4. p - 1 + 1 = p /\ \A i \in 1 .. p : 1 + i - 1 = i
  BY <1>1
<1>5. ASSUME NEW k \in 1 .. p
      PROVE  SubSeq(SubSeq(s, 1, p), 1, k) = SubSeq(s, 1, k)
  <2>1. k \in 1 .. p - 1 + 1 /\ 1 \in 1 .. p - 1 + 1 /\ 1 + 1 - 1 = 1 /\ 1 + k - 1 = k
    BY <1>1
  <2>2. SubSeq(SubSeq(s, 1, p), 1, k) = SubSeq(s, 1 + 1 - 1, 1 + k - 1)
    BY <1>1, <2>1, SubSeqOfSubSeq
  <2> QED
    BY <2>1, <2>2
<1> QED
  BY <1>1, <1>3, <1>4, <1>5

\* The beginning of a text that begins with a solid character is trimmed at its
\* end only, and only blanks go.
LEMMA TrimmedBeginning ==
  ASSUME NEW T, NEW s \in Seq(T), NEW p \in 1 .. Len(s), s[1] \notin Blank
  PROVE  \E k \in 1 .. p :
           /\ TrimSpace(SubSeq(s, 1, p)) = SubSeq(s, 1, k)
           /\ \A i \in k + 1 .. p : s[i] \in Blank
<1> DEFINE c == SubSeq(s, 1, p)
<1>1. Len(s) \in Nat /\ p \in Nat /\ p >= 1 /\ p <= Len(s)
  BY LenProperties
<1>3. c \in Seq(T) /\ Len(c) = p /\ \A i \in 1 .. p : c[i] = s[i]
  BY Beginning
<1>4. 1 \in 1 .. p /\ c[1] \notin Blank
  BY <1>1, <1>3
<1> HIDE DEF c
<1>5. PICK a, b \in 1 .. p :
        /\ TrimSpace(c) = SubSeq(c, a, b) /\ a <= b
        /\ \A i \in 1 .. p : i < a \/ b < i => c[i] \in Blank
  BY <1>3, <1>4, TrimSpaceEnds
<1>6. a = 1
  <2>1. ~(1 < a)
    BY <1>4, <1>5
  <2> QED
    BY <1>1, <1>5, <2>1
<1>7. SubSeq(c, 1, b) = SubSeq(s, 1, b)
  BY Beginning DEF c
<1>8. \A i \in b + 1 .. p : s[i] \in Blank
  BY <1>1, <1>3, <1>5
<1>9. TrimSpace(SubSeq(s, 1, p)) = SubSeq(s, 1, b)
  BY <1>5, <1>6, <1>7 DEF c
<1> QED
  BY <1>5, <1>8, <1>9

\* What the cap does to a text that begins with a solid character.
LEMMA CappedIsAtABlankOrTheLimit ==
  ASSUME NEW T, NEW s \in Seq(T), NEW m \in Int, s # <<>> => s[1] \notin Blank
  PROVE  /\ Capped(s, m) \in Seq(T \cup {Ellipsis})
         /\ Capped(s, m) # s =>
              \E k \in 0 .. m :
                /\ k < Len(s) /\ Capped(s, m) = SubSeq(s, 1, k) \o <<Ellipsis>>
                /\ \/ s[k + 1] \in Blank
                   \/ k = m /\ \A i \in m \div 2 + 2 .. m : s[i] \notin Blank
<1>1. Len(s) \in Nat
  BY LenProperties
<1>2. CASE m <= 0 \/ Len(s) <= m
  <2>1. Capped(s, m) = s
    BY <1>2 DEF Capped
  <2> QED
    BY <2>1, SeqMonotonic
<1>3. CASE ~(m <= 0 \/ Len(s) <= m)
  <2> DEFINE cut == SubSeq(s, 1, m)
             h == m \div 2
             l == lastSpace(cut)
             kept == IF l > h THEN SubSeq(cut, 1, l) ELSE cut
  <2>1. m \in Nat /\ m >= 1 /\ m < Len(s) /\ m \in 1 .. Len(s)
    BY <1>1, <1>3
  <2>2. h \in Nat
    BY <2>1
  <2>3. Capped(s, m) = TrimSpace(kept) \o <<Ellipsis>>
    BY <1>3 DEF Capped
  <2>4. s[1] \notin Blank
    BY <1>1, <2>1, EmptySeq
  <2>5. /\ cut \in Seq(T) /\ Len(cut) = m
        /\ \A i \in 1 .. m : cut[i] = s[i]
    BY <2>1, Beginning
  <2>6. /\ l \in -1 .. m - 1
        /\ l >= 0 => cut[l + 1] \in Blank
        /\ \A i \in 1 .. m : cut[i] \in Blank => i <= l + 1
    <3> HIDE DEF cut
    <3> QED
      BY <2>5, LastSpaceIsLast
  <2>7. \E p \in 1 .. m :
          /\ kept = SubSeq(s, 1, p)
          /\ \/ s[p + 1] \in Blank
             \/ p = m /\ \A i \in h + 2 .. m : s[i] \notin Blank
    <3>1. CASE l > h
      <4>1. l \in 1 .. m /\ l + 1 \in 1 .. m /\ l >= 0
        BY <2>2, <2>6, <3>1
      <4>2. SubSeq(cut, 1, l) = SubSeq(s, 1, l)
        BY <2>1, <4>1, Beginning
      <4>3. s[l + 1] \in Blank
        <5> HIDE DEF l, cut
        <5> QED
          BY <2>5, <2>6, <4>1
      <4>4. kept = SubSeq(s, 1, l)
        BY <3>1, <4>2
      <4> HIDE DEF kept, l, cut
      <4> QED
        BY <4>1, <4>3, <4>4
    <3>2. CASE ~(l > h)
      <4>1. kept = SubSeq(s, 1, m)
        BY <3>2
      <4>2. ASSUME NEW i \in h + 2 .. m
            PROVE  s[i] \notin Blank
        <5> HIDE DEF h, l, cut
        <5>1. i \in 1 .. m /\ ~(i <= l + 1)
          BY <2>1, <2>2, <2>6, <3>2
        <5> QED
          BY <2>5, <2>6, <5>1
      <4>3. m \in 1 .. m
        BY <2>1
      <4> HIDE DEF kept, h, l, cut
      <4> QED
        BY <4>1, <4>2, <4>3
    <3> QED
      BY <3>1, <3>2, Zenon
  <2> HIDE DEF cut, l, kept
  <2>8. PICK p \in 1 .. m :
          /\ kept = SubSeq(s, 1, p)
          /\ \/ s[p + 1] \in Blank
             \/ p = m /\ \A i \in h + 2 .. m : s[i] \notin Blank
    BY <2>7
  <2>9. p \in 1 .. Len(s)
    BY <1>1, <2>1
  <2>10. PICK k \in 1 .. p :
           /\ TrimSpace(SubSeq(s, 1, p)) = SubSeq(s, 1, k)
           /\ \A i \in k + 1 .. p : s[i] \in Blank
    BY <2>4, <2>9, TrimmedBeginning
  <2>11. Capped(s, m) = SubSeq(s, 1, k) \o <<Ellipsis>>
    BY <2>3, <2>8, <2>10
  <2>12. k \in 0 .. m /\ k < Len(s) /\ k \in 1 .. p /\ k \in Nat /\ k <= Len(s)
    BY <1>1, <2>1
  <2>13. s[k + 1] \in Blank \/ (k = m /\ \A i \in h + 2 .. m : s[i] \notin Blank)
    <3>1. CASE k = p
      BY <2>8, <3>1
    <3>2. CASE k < p
      <4>1. k + 1 \in k + 1 .. p
        BY <3>2
      <4> QED
        BY <2>10, <4>1
    <3>3. k = p \/ k < p
      OBVIOUS
    <3> QED
      BY <3>1, <3>2, <3>3
  <2>14. Capped(s, m) \in Seq(T \cup {Ellipsis})
    <3>1. SubSeq(s, 1, k) \in Seq(T)
      BY <2>12, PartType
    <3>2. SubSeq(s, 1, k) \in Seq(T \cup {Ellipsis})
      BY <3>1, SeqMonotonic
    <3>3. <<Ellipsis>> \in Seq(T \cup {Ellipsis})
      <4> DEFINE E == Ellipsis
      <4> HIDE DEF E
      <4>1. <<E>> \in Seq(T \cup {E})
        OBVIOUS
      <4> QED
        BY <4>1 DEF E
    <3> QED
      BY <2>11, <3>2, <3>3, ConcatProperties
  <2> QED
    BY <2>11, <2>12, <2>13, <2>14
<1> QED
  BY <1>2, <1>3

-----------------------------------------------------------------------------
(* What is dropped before the answer.                                       *)

\* What is after the last closing tag at some places is at the places after it.
LEMMA AfterLastCloseOfPlaces ==
  ASSUME NEW T, NEW s \in Seq(T), NEW K \in SUBSET (1 .. Len(s))
  PROVE  AfterLastClose(At(s, K)) = At(s, {i \in K : \A j \in K : j >= i => s[j] # Close})
<1> DEFINE c == Cardinality(K)
           t == At(s, K)
           R == {i \in K : \A j \in K : j >= i => s[j] # Close}
           closes == {k \in DOMAIN t : t[k] = Close}
<1>0. Len(s) \in Nat
  BY LenProperties
<1>a. c \in Nat /\ IsFiniteSet(K)
  BY <1>0, RankType, Zenon
<1>b. \A i \in K : i \in Int
  BY <1>0
<1>1. Len(s) \in Nat /\ c \in Nat /\ IsFiniteSet(K) /\ \A i \in K : i \in Int
  BY <1>0, <1>a, <1>b
<1>2. t \in Seq(T) /\ Len(t) = c
  BY AtPlaces
<1>3. PICK p \in [1 .. c -> K] :
        /\ \A k \in 1 .. c : Rank(K, p[k]) = k /\ t[k] = s[p[k]]
        /\ \A i \in K : \E k \in 1 .. c : p[k] = i
  BY AtPlaces
<1>4. DOMAIN t = 1 .. c
  BY <1>2, LenProperties
<1>5. AfterLastClose(t) = IF closes = {} THEN t ELSE SubSeq(t, Max(closes) + 1, Len(t))
  BY DEF AfterLastClose
<1>6. \A k \in closes : k \in 1 .. c /\ s[p[k]] = Close
  BY <1>3, <1>4
<1>7. \A k \in 1 .. c : s[p[k]] = Close => k \in closes
  BY <1>3, <1>4
<1>8. CASE closes = {}
  <2>1. \A i \in K : s[i] # Close
    BY <1>3, <1>7, <1>8
  <2>2. R = K
    BY <2>1
  <2> QED
    BY <1>5, <1>8, <2>2
<1>9. CASE closes # {}
  <2> DEFINE m == Max(closes)
             q == p[m]
             L == {j \in K : j <= q}
  <2>1. m \in closes /\ \A k \in closes : k <= m
    <3>1. closes \in SUBSET Int /\ (\A k \in closes : k <= c) /\ c \in Int
      BY <1>1, <1>6
    <3> HIDE DEF closes, c
    <3> QED
      BY <1>9, <3>1, GreatestNumber
  <2>2. m \in 1 .. c /\ q \in K /\ q \in Int /\ s[q] = Close /\ Rank(K, q) = m
    <3> HIDE DEF closes, m
    <3> QED
      BY <1>1, <1>3, <1>6, <2>1
  <2>3. AfterLastClose(t) = SubSeq(t, m + 1, c)
    BY <1>2, <1>5, <1>9
  <2> HIDE DEF m, q, t, c, closes
  <2>4. \A k \in 1 .. c : k > m => p[k] > q
    <3> SUFFICES ASSUME NEW k \in 1 .. c, k > m
                 PROVE  p[k] > q
      OBVIOUS
    <3>1. p[k] \in K /\ Rank(K, p[k]) = k
      BY <1>3
    <3>2. p[k] < q => Rank(K, p[k]) < Rank(K, q)
      BY <1>1, <2>2, <3>1, RankIncreases
    <3>3. p[k] \in Int
      BY <1>1, <3>1
    <3> QED
      BY <1>1, <2>2, <3>1, <3>2, <3>3
  <2>5. \A i \in K : i \in R <=> i > q
    <3>1. ASSUME NEW i \in K, i > q
          PROVE  i \in R
      <4> SUFFICES ASSUME NEW j \in K, j >= i, s[j] = Close
                   PROVE  FALSE
        BY <3>1
      <4>1. PICK k \in 1 .. c : p[k] = j
        BY <1>3
      <4>2. k \in closes /\ k <= m /\ Rank(K, j) = k
        BY <1>3, <1>7, <2>1, <4>1
      <4>3. j > q
        BY <1>1, <2>2, <3>1
      <4>4. Rank(K, q) < Rank(K, j)
        BY <1>1, <2>2, <4>3, RankIncreases
      <4> QED
        BY <1>1, <2>2, <4>2, <4>4
    <3>2. ASSUME NEW i \in R
          PROVE  i > q
      <4>1. i \in K /\ (q >= i => s[q] # Close)
        BY <2>2
      <4> QED
        BY <1>1, <2>2, <4>1
    <3> QED
      BY <3>1, <3>2
  <2>6. R \in SUBSET K /\ L \in SUBSET K
    OBVIOUS
  <2>7. R \in SUBSET (1 .. Len(s))
    BY <2>6
  <2>8. L \cup R = K /\ L \cap R = {}
    <3>1. \A i \in K : i \in L <=> i <= q
      OBVIOUS
    <3>2. \A i \in K : i \in L <=> i \notin R
      <4> HIDE DEF L, R
      <4> QED
        BY <1>1, <2>2, <2>5, <3>1
    <3> HIDE DEF L, R
    <3> QED
      BY <2>6, <3>2
  <2>9. Cardinality(L) = m /\ IsFiniteSet(L) /\ IsFiniteSet(R)
    BY <1>1, <2>2, <2>6, FS_Subset DEF Rank
  <2>10. Cardinality(R) = c - m
    <3>1. Cardinality(L \cup R) = Cardinality(L) + Cardinality(R) - Cardinality(L \cap R)
      <4> HIDE DEF L, R
      <4> QED
        BY <2>9, FS_Union
    <3>2. Cardinality(R) \in Nat /\ Cardinality({}) = 0
      BY <2>9, FS_CardinalityType, FS_EmptySet
    <3>3. c = m + Cardinality(R) - 0
      <4> HIDE DEF L, R
      <4> QED
        BY <2>8, <2>9, <3>1, <3>2 DEF c
    <3> HIDE DEF R
    <3> QED
      BY <1>1, <2>2, <3>2, <3>3
  <2>11. ASSUME NEW i \in R
         PROVE  Rank(K, i) = m + Rank(R, i)
    <3> DEFINE U == {j \in R : j <= i}
               V == {j \in K : j <= i}
    <3>1. i \in K /\ i > q /\ i \in Int
      BY <1>1, <2>5, <2>6
    <3>2. \A j \in K : j \in V <=> j \in L \/ j \in U
      <4> TAKE j \in K
      <4>1. j \in Int /\ (j \in L <=> j <= q) /\ (j \in V <=> j <= i) /\ (j \in U <=> j > q /\ j <= i)
        BY <1>1, <2>5
      <4> HIDE DEF L, U, V
      <4> QED
        BY <2>2, <3>1, <4>1
    <3>3. U \in SUBSET R /\ V \in SUBSET K
      OBVIOUS
    <3> HIDE DEF U, V, L, R
    <3>4. V = L \cup U /\ L \cap U = {} /\ U \in SUBSET K
      BY <2>6, <2>8, <3>2, <3>3
    <3>5. IsFiniteSet(U) /\ Cardinality(U) \in Nat
      BY <2>9, <3>3, FS_Subset, FS_CardinalityType
    <3>6. Cardinality(V) = Cardinality(L) + Cardinality(U) - Cardinality(L \cap U)
      BY <2>9, <3>4, <3>5, FS_Union
    <3>7. Cardinality(V) = m + Cardinality(U)
      <4>1. Cardinality(L \cap U) = 0
        BY <3>4, FS_EmptySet
      <4> QED
        BY <2>2, <2>9, <3>5, <3>6, <4>1
    <3> QED
      BY <3>7 DEF U, V, Rank
  <2> DEFINE r == SubSeq(t, m + 1, c)
  <2>12. /\ r \in Seq(T) /\ Len(r) = c - m
         /\ \A k \in 1 .. c - m : r[k] = t[m + k]
    <3>1. \A k \in m + 1 .. c : t[k] \in T
      BY <1>1, <1>2, <2>2, ElementOfSeq
    <3>2. /\ r \in Seq(T) /\ Len(r) = IF m + 1 <= c THEN c - (m + 1) + 1 ELSE 0
          /\ \A k \in 1 .. c - (m + 1) + 1 : r[k] = t[m + 1 + k - 1]
      BY <1>1, <2>2, <3>1, SubSeqProperties
    <3> HIDE DEF r
    <3>3. c - (m + 1) + 1 = c - m /\ \A k \in 1 .. c - m : m + 1 + k - 1 = m + k
      BY <1>1, <2>2
    <3> QED
      BY <1>1, <2>2, <3>2, <3>3
  <2> HIDE DEF r
  <2>13. ASSUME NEW k \in 1 .. Len(r)
         PROVE  \E i \in R : Rank(R, i) = k /\ r[k] = s[i]
    <3>1. m + k \in 1 .. c /\ m + k > m /\ k \in Int /\ r[k] = t[m + k]
      BY <1>1, <2>2, <2>12
    <3> DEFINE i == p[m + k]
    <3>2. i \in K /\ i > q /\ Rank(K, i) = m + k /\ t[m + k] = s[i]
      BY <1>3, <2>4, <3>1
    <3> HIDE DEF i, R
    <3>3. i \in R /\ Rank(K, i) = m + Rank(R, i) /\ Rank(R, i) \in Nat
      <4>1. i \in R
        BY <2>5, <3>2
      <4>2. i \in Int /\ Len(s) \in Nat
        BY <1>1, <3>2
      <4> QED
        BY <2>7, <2>11, <4>1, <4>2, RankType
    <3> QED
      BY <2>2, <3>1, <3>2, <3>3
  <2> HIDE DEF R
  <2>14. At(s, R) = r
    <3>1. r \in Seq(T) /\ Len(r) = Cardinality(R)
      BY <2>10, <2>12
    <3> QED
      BY <2>7, <2>13, <3>1, AtIs
  <2> QED
    BY <2>3, <2>14 DEF r, R, t
<1> QED
  BY <1>8, <1>9 DEF t, R

\* A closing tag is not an opening one.
LEMMA TagsDiffer == Open # Close
BY Zenon DEF Open, Close

\* In a text without nested tags, a tag is closed by the next one of either kind.
LEMMA NextTagCloses ==
  ASSUME NEW T, NEW s \in Seq(T), Flat(s), NEW o \in 1 .. Len(s), s[o] = Open
  PROVE  \E j \in o + 1 .. Len(s) :
           s[j] = Close /\ \A k \in o + 1 .. j - 1 : s[k] # Open /\ s[k] # Close
<1>1. Len(s) \in Nat /\ DOMAIN s = 1 .. Len(s) /\ o \in Int
  BY LenProperties
<1>2. PICK e \in o + 1 .. Len(s) : s[e] = Close /\ \A k \in o + 1 .. e - 1 : s[k] # Open
  BY <1>1 DEF Flat
<1> DEFINE S == {k \in o + 1 .. e : s[k] = Close}
<1>3. S \in SUBSET Int /\ e \in S /\ \A x \in S : x >= o
  BY <1>1, <1>2
<1>4. \A k \in o + 1 .. e : s[k] = Close => k \in S
  OBVIOUS
<1>5. \A k \in S : k \in o + 1 .. e /\ s[k] = Close
  OBVIOUS
<1> DEFINE j == Min(S)
<1>6. j \in S /\ \A x \in S : j <= x
  <2> HIDE DEF S
  <2>1. S # {}
    BY <1>3
  <2> QED
    BY <1>1, <1>3, <2>1, LeastNumber
<1> HIDE DEF S, j
<1>7. j \in o + 1 .. e /\ s[j] = Close
  BY <1>5, <1>6
<1>8. \A k \in o + 1 .. j - 1 : s[k] # Open /\ s[k] # Close
  <2> TAKE k \in o + 1 .. j - 1
  <2>1. k \in o + 1 .. e - 1 /\ k \in o + 1 .. e /\ k < j
    BY <1>1, <1>2, <1>7
  <2>2. k \notin S
    BY <1>1, <1>6, <1>7, <2>1
  <2> QED
    BY <1>2, <1>4, <2>1, <2>2
<1>9. j \in o + 1 .. Len(s)
  BY <1>1, <1>2, <1>7
<1> QED
  BY <1>7, <1>8, <1>9

\* A closing tag at i or later that has an opening tag of its own after i, for
\* all closing tags up to j: there are no more of them than of the others.
LEMMA OpenedAfter ==
  ASSUME NEW T, NEW s \in Seq(T), NEW i \in 1 .. Len(s), NEW j \in 1 .. Len(s),
         \A c \in i .. j : s[c] = Close =>
           \E k \in i .. c : s[k] = Open /\ \A m \in k .. c - 1 : s[m] # Close
  PROVE  Surplus(s, i, j) <= 0
<1> DEFINE C == {k \in i .. j : s[k] = Close}
           O == {k \in i .. j : s[k] = Open}
           opener(c) == CHOOSE k \in O : k <= c /\ \A m \in k .. c - 1 : s[m] # Close
           f == [c \in C |-> opener(c)]
<1>1. i \in Int /\ j \in Int /\ IsFiniteSet(i .. j)
  BY FS_Interval
<1>2. IsFiniteSet(C) /\ IsFiniteSet(O) /\ Cardinality(C) \in Nat /\ Cardinality(O) \in Nat
  <2>1. C \in SUBSET (i .. j) /\ O \in SUBSET (i .. j)
    OBVIOUS
  <2> HIDE DEF C, O
  <2> QED
    BY <1>1, <2>1, FS_Subset, FS_CardinalityType
<1>3. ASSUME NEW c \in C
      PROVE  opener(c) \in O /\ opener(c) <= c /\ \A m \in opener(c) .. c - 1 : s[m] # Close
  <2>1. c \in i .. j /\ s[c] = Close
    OBVIOUS
  <2>2. PICK k \in i .. c : s[k] = Open /\ \A m \in k .. c - 1 : s[m] # Close
    BY <2>1
  <2>3. k \in O /\ k <= c
    BY <1>1, <2>1, <2>2
  <2> HIDE DEF O
  <2> QED
    BY <2>2, <2>3, Zenon
<1>4. \A c \in C : c \in Int /\ s[c] = Close
  BY <1>1
<1>5. \A k \in O : k \in Int
  BY <1>1
<1> HIDE DEF C, O, opener
<1>6. f \in [C -> O] /\ \A c \in C : f[c] = opener(c)
  BY <1>3
<1>7. ASSUME NEW c \in C, NEW d \in C, f[c] = f[d], c < d
      PROVE  FALSE
  <2>1. opener(d) <= c /\ opener(d) \in Int /\ c \in Int /\ d \in Int /\ s[c] = Close
    BY <1>3, <1>4, <1>5, <1>6, <1>7
  <2>2. c \in opener(d) .. d - 1
    BY <1>7, <2>1
  <2> QED
    BY <1>3, <2>1, <2>2
<1>8. f \in Injection(C, O)
  <2>1. \A c, d \in C : f[c] = f[d] => c = d
    BY <1>4, <1>7
  <2> HIDE DEF f
  <2> QED
    BY <1>6, <2>1 DEF Injection, IsInjective
<1>9. Cardinality(C) <= Cardinality(O)
  <2> HIDE DEF f
  <2> QED
    BY <1>2, <1>8, FS_Injection
<1>10. Surplus(s, i, j) = Cardinality(C) - Cardinality(O)
  BY DEF Surplus, C, O
<1> QED
  BY <1>2, <1>9, <1>10

\* An orphaned closing tag tips the balance.
LEMMA OrphansTip ==
  ASSUME NEW T, NEW s \in Seq(T), Flat(s), NEW i \in 1 .. Len(s), NEW c \in i .. Len(s),
         s[c] = Close,
         ~\E k \in i .. c : s[k] = Open /\ \A m \in k .. c - 1 : s[m] # Close
  PROVE  Surplus(s, i, c) > 0
<1> DEFINE C == {k \in i .. c : s[k] = Close}
           O == {k \in i .. c : s[k] = Open}
           D == C \ {c}
           closer(o) == CHOOSE e \in D : e > o /\ \A k \in o + 1 .. e - 1 : s[k] # Open
           f == [o \in O |-> closer(o)]
<1>1. i \in Int /\ c \in Int /\ Len(s) \in Nat /\ IsFiniteSet(i .. c)
  BY LenProperties, FS_Interval
<1>2. IsFiniteSet(C) /\ IsFiniteSet(O) /\ Cardinality(C) \in Nat /\ Cardinality(O) \in Nat
  <2>1. C \in SUBSET (i .. c) /\ O \in SUBSET (i .. c)
    OBVIOUS
  <2> HIDE DEF C, O
  <2> QED
    BY <1>1, <2>1, FS_Subset, FS_CardinalityType
<1>3. ASSUME NEW o \in O
      PROVE  closer(o) \in D /\ closer(o) > o /\ \A k \in o + 1 .. closer(o) - 1 : s[k] # Open
  <2>1. o \in i .. c /\ s[o] = Open /\ o \in 1 .. Len(s)
    BY <1>1
  <2>2. PICK e \in o + 1 .. Len(s) :
          s[e] = Close /\ \A k \in o + 1 .. e - 1 : s[k] # Open /\ s[k] # Close
    BY <2>1, NextTagCloses
  <2>3. o < c
    BY <1>1, <2>1, TagsDiffer
  <2>4. e <= c
    <3> SUFFICES ASSUME e > c PROVE FALSE
      BY <1>1, <2>2
    <3>1. c \in o + 1 .. e - 1
      BY <1>1, <2>1, <2>2, <2>3
    <3> QED
      BY <2>2, <3>1
  <2>5. e # c
    <3> SUFFICES ASSUME e = c PROVE FALSE
      OBVIOUS
    <3>1. \A m \in o .. c - 1 : m = o \/ m \in o + 1 .. c - 1
      BY <1>1, <2>1
    <3>2. \A m \in o .. c - 1 : s[m] # Close
      BY <2>1, <2>2, <3>1, TagsDiffer
    <3> QED
      BY <2>1, <3>2
  <2>6. e \in D /\ e > o
    BY <1>1, <2>1, <2>2, <2>4, <2>5
  <2> HIDE DEF D
  <2> QED
    BY <2>2, <2>6, Zenon
<1>4. \A o \in O : o \in Int /\ s[o] = Open
  BY <1>1
<1>5. (\A e \in D : e \in Int) /\ c \in C
  BY <1>1
<1>6. IsFiniteSet(D) /\ Cardinality(D) = Cardinality(C) - 1
  <2> HIDE DEF C
  <2> QED
    BY <1>2, <1>5, FS_RemoveElement
<1> HIDE DEF C, O, D, closer
<1>7. f \in [O -> D] /\ \A o \in O : f[o] = closer(o)
  BY <1>3
<1>8. ASSUME NEW o \in O, NEW p \in O, f[o] = f[p], o < p
      PROVE  FALSE
  <2>1. /\ closer(o) > p /\ closer(o) \in Int /\ o \in Int /\ p \in Int /\ s[p] = Open
    BY <1>3, <1>4, <1>5, <1>7, <1>8
  <2>2. p \in o + 1 .. closer(o) - 1
    BY <1>8, <2>1
  <2> QED
    BY <1>3, <2>1, <2>2
<1>9. f \in Injection(O, D)
  <2>1. \A o, p \in O : f[o] = f[p] => o = p
    BY <1>4, <1>8
  <2> HIDE DEF f
  <2> QED
    BY <1>7, <2>1 DEF Injection, IsInjective
<1>10. Cardinality(O) <= Cardinality(D)
  <2> HIDE DEF f
  <2> QED
    BY <1>6, <1>9, FS_Injection
<1>11. Surplus(s, i, c) = Cardinality(C) - Cardinality(O)
  BY DEF Surplus, C, O
<1> QED
  BY <1>2, <1>6, <1>10, <1>11

\* What the two passes leave of a text without nested tags is its answer.
LEMMA PassesLeaveTheAnswer ==
  ASSUME NEW T, NEW s \in Seq(T), Flat(s)
  PROVE  AfterLastClose(DropThinking(s)) = Answer(s)
<1> DEFINE n == Len(s)
           thought(i) == \E k \in 1 .. i, j \in i .. Len(s) :
                           s[k] = Open /\ s[j] = Close /\ \A m \in k .. j - 1 : s[m] # Close
           K == {i \in DOMAIN s : ~thought(i)}
           R == {i \in K : \A j \in K : j >= i => s[j] # Close}
           A == {i \in DOMAIN s : /\ s[i] \notin {Open, Close}
                                  /\ \A j \in i .. Len(s) : Surplus(s, i, j) <= 0}
<1>1. n \in Nat /\ DOMAIN s = 1 .. n
  BY LenProperties
<1>2. DropThinking(s) = At(s, K)
  BY DEF DropThinking
<1>3. K \in SUBSET (1 .. n)
  BY <1>1
<1>4. AfterLastClose(DropThinking(s)) = At(s, R)
  <2> HIDE DEF K
  <2> QED
    BY <1>2, <1>3, AfterLastCloseOfPlaces
<1>5. \A i \in 1 .. n : i \in K <=> ~thought(i)
  BY <1>1
<1>6. ASSUME NEW i \in R
      PROVE  i \in A
  <2>1. i \in 1 .. n /\ i \in K /\ ~thought(i) /\ i \in Int
    BY <1>1
  <2>2. \A j \in K : j >= i => s[j] # Close
    OBVIOUS
  <2> HIDE DEF K
  <2>3. s[i] # Close
    BY <2>1, <2>2
  <2>4. s[i] # Open
    <3> SUFFICES ASSUME s[i] = Open PROVE FALSE
      OBVIOUS
    <3>1. PICK j \in i + 1 .. n :
            s[j] = Close /\ \A k \in i + 1 .. j - 1 : s[k] # Open /\ s[k] # Close
      BY <2>1, NextTagCloses
    <3>2. \A m \in i .. j - 1 : m = i \/ m \in i + 1 .. j - 1
      BY <1>1, <2>1, <3>1
    <3>3. \A m \in i .. j - 1 : s[m] # Close
      BY <3>1, <3>2, TagsDiffer
    <3>4. i \in 1 .. i /\ j \in i .. Len(s)
      BY <1>1, <2>1, <3>1
    <3> QED
      BY <2>1, <3>1, <3>3, <3>4
  <2>5. ASSUME NEW j \in i .. n
        PROVE  Surplus(s, i, j) <= 0
    <3>1. ASSUME NEW c \in i .. j, s[c] = Close
          PROVE  \E k \in i .. c : s[k] = Open /\ \A m \in k .. c - 1 : s[m] # Close
      <4>1. c \in 1 .. n /\ c >= i /\ c \in Int
        BY <1>1, <2>1
      <4>2. thought(c)
        BY <1>5, <2>2, <3>1, <4>1
      <4>3. PICK k \in 1 .. c : \E e \in c .. Len(s) :
              s[k] = Open /\ s[e] = Close /\ \A m \in k .. e - 1 : s[m] # Close
        BY <4>2
      <4>4. PICK e \in c .. Len(s) : s[k] = Open /\ s[e] = Close /\ \A m \in k .. e - 1 : s[m] # Close
        BY <4>3
      <4>5. e = c
        BY <1>1, <3>1, <4>1, <4>4
      <4>6. k >= i
        <5> SUFFICES ASSUME k < i PROVE FALSE
          BY <2>1
        <5>1. k \in 1 .. i /\ c \in i .. Len(s)
          BY <1>1, <2>1, <4>1
        <5> QED
          BY <2>1, <4>4, <4>5, <5>1
      <4>7. k \in i .. c
        BY <2>1, <4>1, <4>6
      <4> QED
        BY <4>4, <4>5, <4>7
    <3>2. j \in 1 .. Len(s)
      BY <1>1, <2>1
    <3> QED
      BY <2>1, <3>1, <3>2, OpenedAfter
  <2> QED
    BY <1>1, <2>1, <2>3, <2>4, <2>5
<1>7. ASSUME NEW i \in A
      PROVE  i \in R
  <2>1. /\ i \in 1 .. n /\ i \in Int /\ s[i] # Open /\ s[i] # Close
        /\ \A j \in i .. n : Surplus(s, i, j) <= 0
    BY <1>1
  <2>2. ASSUME NEW c \in i .. n, s[c] = Close
        PROVE  \E k \in i .. c : s[k] = Open /\ \A m \in k .. c - 1 : s[m] # Close
    <3>1. ~(Surplus(s, i, c) > 0)
      <4>1. Surplus(s, i, c) <= 0
        BY <2>1
      <4>2. IsFiniteSet(i .. c) /\ c \in Int
        BY <2>1, FS_Interval
      <4>3. Surplus(s, i, c) \in Int
        <5> DEFINE C == {k \in i .. c : s[k] = Close}
                   O == {k \in i .. c : s[k] = Open}
        <5>1. C \in SUBSET (i .. c) /\ O \in SUBSET (i .. c)
          OBVIOUS
        <5>2. Surplus(s, i, c) = Cardinality(C) - Cardinality(O)
          BY DEF Surplus
        <5> HIDE DEF C, O
        <5>3. Cardinality(C) \in Nat /\ Cardinality(O) \in Nat
          BY <4>2, <5>1, FS_Subset, FS_CardinalityType
        <5> QED
          BY <5>2, <5>3
      <4> QED
        BY <4>1, <4>3
    <3> QED
      BY <2>1, <2>2, <3>1, OrphansTip
  <2>3. ~thought(i)
    <3> SUFFICES ASSUME thought(i) PROVE FALSE
      OBVIOUS
    <3>1. PICK k \in 1 .. i : \E e \in i .. Len(s) :
            s[k] = Open /\ s[e] = Close /\ \A m \in k .. e - 1 : s[m] # Close
      OBVIOUS
    <3>2. PICK e \in i .. Len(s) : s[k] = Open /\ s[e] = Close /\ \A m \in k .. e - 1 : s[m] # Close
      BY <3>1
    <3>3. PICK o \in i .. e : s[o] = Open
      BY <2>2, <3>2
    <3>4. k \in 1 .. n /\ o \in Int /\ k < o /\ k \in Int /\ e \in Int /\ o < e
      BY <1>1, <2>1, <3>2, <3>3, TagsDiffer
    <3>5. PICK j \in k + 1 .. n :
            s[j] = Close /\ \A m \in k + 1 .. j - 1 : s[m] # Open /\ s[m] # Close
      BY <3>2, <3>4, NextTagCloses
    <3>6. j >= e
      <4> SUFFICES ASSUME j < e PROVE FALSE
        BY <1>1, <3>4, <3>5
      <4>1. j \in k .. e - 1
        BY <1>1, <3>4, <3>5
      <4> QED
        BY <3>2, <3>5, <4>1
    <3>7. o \in k + 1 .. j - 1
      BY <1>1, <3>4, <3>5, <3>6
    <3> QED
      BY <3>3, <3>5, <3>7
  <2>4. \A c \in K : c >= i => s[c] # Close
    <3> SUFFICES ASSUME NEW c \in K, c >= i, s[c] = Close
                 PROVE  FALSE
      OBVIOUS
    <3>1. c \in 1 .. n /\ ~thought(c) /\ c \in i .. n
      BY <1>1, <2>1
    <3>2. PICK k \in i .. c : s[k] = Open /\ \A m \in k .. c - 1 : s[m] # Close
      BY <2>2, <3>1
    <3>3. k \in 1 .. c /\ c \in c .. Len(s)
      BY <1>1, <2>1, <3>1
    <3>4. thought(c)
      BY <3>2, <3>3
    <3> QED
      BY <3>1, <3>4
  <2> QED
    BY <1>5, <2>1, <2>3, <2>4
<1>8. R = A
  BY <1>6, <1>7
<1>9. Answer(s) = At(s, A)
  BY DEF Answer
<1> HIDE DEF R, A
<1> QED
  BY <1>4, <1>8, <1>9

\* A text without tags is left as it is.
LEMMA NothingToStrip ==
  ASSUME NEW T, NEW s \in Seq(T), \A i \in 1 .. Len(s) : s[i] # Open /\ s[i] # Close
  PROVE  AfterLastClose(DropThinking(s)) = s
<1>1. Len(s) \in Nat /\ DOMAIN s = 1 .. Len(s)
  BY LenProperties
<1> DEFINE thought(i) == \E k \in 1 .. i, j \in i .. Len(s) :
                           s[k] = Open /\ s[j] = Close /\ \A m \in k .. j - 1 : s[m] # Close
           K == {i \in DOMAIN s : ~thought(i)}
           closes == {i \in DOMAIN s : s[i] = Close}
<1>2. DropThinking(s) = At(s, K)
  BY DEF DropThinking
<1>3. ASSUME NEW i \in 1 .. Len(s) PROVE ~thought(i)
  <2>1. \A j \in i .. Len(s) : j \in 1 .. Len(s)
    BY <1>1
  <2> QED
    BY <2>1
<1>4. K = 1 .. Len(s)
  <2> HIDE DEF thought
  <2> QED
    BY <1>1, <1>3
<1> HIDE DEF K
<1>5. At(s, 1 .. Len(s)) = SubSeq(s, 1, Len(s))
  <2>1. 1 \in 1 .. Len(s) + 1
    BY <1>1
  <2> QED
    BY <2>1, AtTheEnd
<1>6. DropThinking(s) = s
  BY <1>2, <1>4, <1>5, SubSeqFull
<1>7. closes = {}
  BY <1>1
<1>8. AfterLastClose(s) = IF closes = {} THEN s ELSE SubSeq(s, Max(closes) + 1, Len(s))
  BY DEF AfterLastClose
<1> QED
  BY <1>6, <1>7, <1>8

\* The answer is a text without tags.
LEMMA AnswerHasNoTags ==
  ASSUME NEW T, NEW s \in Seq(T)
  PROVE  /\ Answer(s) \in Seq(T)
         /\ \A k \in 1 .. Len(Answer(s)) : Answer(s)[k] # Open /\ Answer(s)[k] # Close
<1> DEFINE A == {i \in DOMAIN s : /\ s[i] \notin {Open, Close}
                                  /\ \A j \in i .. Len(s) : Surplus(s, i, j) <= 0}
<1>1. DOMAIN s = 1 .. Len(s)
  BY LenProperties
<1>2. A \in SUBSET (1 .. Len(s)) /\ \A i \in A : s[i] # Open /\ s[i] # Close
  BY <1>1
<1>3. Answer(s) = At(s, A)
  BY DEF Answer
<1> HIDE DEF A
<1>4. /\ At(s, A) \in Seq(T) /\ Len(At(s, A)) = Cardinality(A)
      /\ \A k \in 1 .. Cardinality(A) : \E i \in A : At(s, A)[k] = s[i]
  <2>1. At(s, A) \in Seq(T) /\ Len(At(s, A)) = Cardinality(A)
    BY <1>2, AtPlaces
  <2>2. PICK p \in [1 .. Cardinality(A) -> A] : \A k \in 1 .. Cardinality(A) : At(s, A)[k] = s[p[k]]
    BY <1>2, AtPlaces
  <2> QED
    BY <2>1, <2>2
<1> QED
  BY <1>2, <1>3, <1>4

\* Closed reasoning has no say in what PostProcess makes of a text.
LEMMA ReasoningIsGone ==
  ASSUME NEW T, NEW s \in Seq(T), Flat(s), NEW m
  PROVE  Summary(s, m) = Summary(Answer(s), m)
<1>1. AfterLastClose(DropThinking(s)) = Answer(s)
  BY PassesLeaveTheAnswer
<1>2. AfterLastClose(DropThinking(Answer(s))) = Answer(s)
  <2> DEFINE t == Answer(s)
  <2>1. t \in Seq(T) /\ \A k \in 1 .. Len(t) : t[k] # Open /\ t[k] # Close
    BY AnswerHasNoTags
  <2> HIDE DEF t
  <2>2. AfterLastClose(DropThinking(t)) = t
    BY <2>1, NothingToStrip
  <2> QED
    BY <2>2 DEF t
<1>3. Clean(s) = Clean(Answer(s))
  BY <1>1, <1>2, Zenon DEF Clean
<1> QED
  BY <1>3, Zenon DEF Summary

-----------------------------------------------------------------------------
(* What is written around the answer.                                       *)

\* Parts of two texts that have the same characters are the same.
LEMMA SamePart ==
  ASSUME NEW T, NEW s \in Seq(T), NEW t \in Seq(T), NEW d \in Int,
         NEW a \in 1 .. Len(t), NEW b \in 1 .. Len(t), d + 1 >= 1, d + Len(t) <= Len(s),
         \A i \in 1 .. Len(t) : s[d + i] = t[i]
  PROVE  SubSeq(s, d + a, d + b) = SubSeq(t, a, b)
<1> DEFINE x == SubSeq(s, d + a, d + b)
           y == SubSeq(t, a, b)
<1>1. Len(s) \in Nat /\ Len(t) \in Nat /\ a \in Int /\ b \in Int
  BY LenProperties
<1>2. \A i \in a .. b : t[i] \in T
  BY <1>1, ElementOfSeq
<1>3. \A i \in d + a .. d + b : s[i] \in T
  BY <1>1, ElementOfSeq
<1>4. /\ y \in Seq(T) /\ Len(y) = (IF a <= b THEN b - a + 1 ELSE 0)
      /\ \A i \in 1 .. b - a + 1 : y[i] = t[a + i - 1]
  BY <1>1, <1>2, SubSeqProperties
<1>5. /\ x \in Seq(T) /\ Len(x) = (IF a <= b THEN b - a + 1 ELSE 0)
      /\ \A i \in 1 .. b - a + 1 : x[i] = s[d + a + i - 1]
  <2> DEFINE l == d + a
             r == d + b
  <2>1. l \in Int /\ r \in Int /\ \A i \in l .. r : s[i] \in T
    BY <1>1, <1>3
  <2>2. (l <= r <=> a <= b) /\ r - l + 1 = b - a + 1
    BY <1>1
  <2> HIDE DEF l, r
  <2>3. /\ SubSeq(s, l, r) \in Seq(T) /\ Len(SubSeq(s, l, r)) = IF l <= r THEN r - l + 1 ELSE 0
        /\ \A i \in 1 .. r - l + 1 : SubSeq(s, l, r)[i] = s[l + i - 1]
    BY <2>1, SubSeqProperties, SMTT(30)
  <2> QED
    BY <2>2, <2>3 DEF l, r
<1> HIDE DEF x, y
<1>6. \A i \in 1 .. Len(x) : x[i] = y[i]
  <2> TAKE i \in 1 .. Len(x)
  <2>1. i \in 1 .. b - a + 1 /\ a + i - 1 \in 1 .. Len(t)
    BY <1>1, <1>5
  <2>2. d + (a + i - 1) = d + a + i - 1
    BY <1>1, <2>1
  <2>3. s[d + (a + i - 1)] = t[a + i - 1]
    BY <2>1
  <2> QED
    BY <1>4, <1>5, <2>1, <2>2, <2>3
<1>7. x = y
  BY <1>4, <1>5, <1>6, SeqEqual
<1> QED
  BY <1>7 DEF x, y

\* Blanks around a text do not change what TrimSpace makes of it.
LEMMA BlanksAroundGo ==
  ASSUME NEW T, NEW s \in Seq(T), NEW t \in Seq(T), NEW d \in Nat, d + Len(t) <= Len(s),
         \A i \in 1 .. Len(t) : s[d + i] = t[i],
         \A i \in 1 .. Len(s) : i <= d \/ d + Len(t) < i => s[i] \in Blank
  PROVE  TrimSpace(s) = TrimSpace(t)
<1>1. Len(s) \in Nat /\ Len(t) \in Nat
  BY LenProperties
<1>2. ASSUME NEW i \in 1 .. Len(s), s[i] \notin Blank
      PROVE  i - d \in 1 .. Len(t) /\ t[i - d] = s[i]
  <2>1. ~(i <= d) /\ ~(d + Len(t) < i)
    BY <1>2
  <2>2. i - d \in 1 .. Len(t) /\ d + (i - d) = i
    BY <1>1, <2>1
  <2> QED
    BY <2>2
<1>3. CASE \A i \in 1 .. Len(t) : t[i] \in Blank
  <2>1. TrimSpace(t) = <<>>
    <3>1. ~\E a, b \in 1 .. Len(t) : TrimSpace(t) = SubSeq(t, a, b) /\ a <= b /\ t[a] \notin Blank
      BY <1>3
    <3> QED
      BY <3>1, TrimSpaceEnds
  <2>2. TrimSpace(s) = <<>>
    <3>1. \A i \in 1 .. Len(s) : s[i] \in Blank
      BY <1>2, <1>3
    <3>2. ~\E a, b \in 1 .. Len(s) : TrimSpace(s) = SubSeq(s, a, b) /\ a <= b /\ s[a] \notin Blank
      BY <3>1
    <3> QED
      BY <3>2, TrimSpaceEnds
  <2> QED
    BY <2>1, <2>2
<1>4. CASE \E i \in 1 .. Len(t) : t[i] \notin Blank
  <2>1. PICK a, b \in 1 .. Len(t) :
          /\ TrimSpace(t) = SubSeq(t, a, b) /\ a <= b
          /\ t[a] \notin Blank /\ t[b] \notin Blank
          /\ \A i \in 1 .. Len(t) : i < a \/ b < i => t[i] \in Blank
    BY <1>4, TrimSpaceEnds
  <2>2. d + a \in 1 .. Len(s) /\ d + b \in 1 .. Len(s) /\ s[d + a] \notin Blank /\ s[d + b] \notin Blank
    BY <1>1, <2>1
  <2>3. PICK l, r \in 1 .. Len(s) :
          /\ TrimSpace(s) = SubSeq(s, l, r) /\ l <= r
          /\ s[l] \notin Blank /\ s[r] \notin Blank
          /\ \A i \in 1 .. Len(s) : i < l \/ r < i => s[i] \in Blank
    BY <2>2, TrimSpaceEnds
  <2>4. l <= d + a /\ d + b <= r
    <3>1. ~(d + a < l) /\ ~(r < d + b)
      BY <2>2, <2>3
    <3> QED
      BY <1>1, <2>2, <3>1
  <2>5. /\ l - d \in 1 .. Len(t) /\ t[l - d] \notin Blank
        /\ r - d \in 1 .. Len(t) /\ t[r - d] \notin Blank
    BY <1>2, <2>3
  <2>6. a <= l - d /\ r - d <= b
    <3>1. ~(l - d < a) /\ ~(b < r - d)
      BY <2>1, <2>5
    <3> QED
      BY <1>1, <2>5, <3>1
  <2>7. l = d + a /\ r = d + b
    BY <1>1, <2>2, <2>3, <2>4, <2>6
  <2>8. SubSeq(s, d + a, d + b) = SubSeq(t, a, b)
    <3>1. d \in Int /\ d + 1 >= 1
      OBVIOUS
    <3> QED
      BY <3>1, SamePart
  <2> QED
    BY <2>1, <2>3, <2>7, <2>8
<1> QED
  BY <1>3, <1>4

\* A text that begins and ends with a solid character is trimmed already.
LEMMA SolidIsTrimmed ==
  ASSUME NEW T, NEW s \in Seq(T), s # <<>>, s[1] \notin Blank, s[Len(s)] \notin Blank
  PROVE  TrimSpace(s) = s
<1>1. Len(s) \in Nat /\ 1 \in 1 .. Len(s) /\ Len(s) \in 1 .. Len(s)
  BY EmptySeq, LenProperties
<1>2. PICK a, b \in 1 .. Len(s) :
        /\ TrimSpace(s) = SubSeq(s, a, b)
        /\ \A i \in 1 .. Len(s) : i < a \/ b < i => s[i] \in Blank
  BY <1>1, TrimSpaceEnds
<1>3. ~(1 < a) /\ ~(b < Len(s))
  BY <1>1, <1>2
<1>4. a = 1 /\ b = Len(s)
  BY <1>1, <1>2, <1>3
<1> QED
  BY <1>2, <1>4, SubSeqFull

\* What is trimmed is not trimmed further.
LEMMA TrimmedOnce ==
  ASSUME NEW T, NEW s \in Seq(T)
  PROVE  TrimSpace(TrimSpace(s)) = TrimSpace(s)
<1>1. CASE TrimSpace(s) = <<>>
  <2> DEFINE e == <<>>
  <2>1. e \in Seq(T) /\ Len(e) = 0
    BY EmptySeq
  <2>2. TrimSpace(e) = <<>> \/ \E a, b \in 1 .. Len(e) : TRUE
    <3> HIDE DEF e
    <3> QED
      BY <2>1, TrimSpaceEnds
  <2>3. TrimSpace(e) = <<>>
    BY <2>1, <2>2
  <2> QED
    BY <1>1, <2>3
<1>2. CASE TrimSpace(s) # <<>>
  <2>0. Len(s) \in Nat
    BY LenProperties
  <2>1. PICK a, b \in 1 .. Len(s) :
          /\ TrimSpace(s) = SubSeq(s, a, b) /\ a <= b
          /\ s[a] \notin Blank /\ s[b] \notin Blank
    BY <1>2, TrimSpaceEnds
  <2> DEFINE t == SubSeq(s, a, b)
  <2>2. \A i \in a .. b : s[i] \in T
    BY <2>0, ElementOfSeq
  <2>3. /\ t \in Seq(T) /\ Len(t) = b - a + 1
        /\ \A i \in 1 .. b - a + 1 : t[i] = s[a + i - 1]
    BY <2>0, <2>1, <2>2, SubSeqProperties
  <2> HIDE DEF t
  <2>4. 1 \in 1 .. b - a + 1 /\ b - a + 1 \in 1 .. b - a + 1 /\ a + 1 - 1 = a /\ a + (b - a + 1) - 1 = b
    BY <2>0, <2>1
  <2>5. t[1] \notin Blank /\ t[Len(t)] \notin Blank
    BY <2>1, <2>3, <2>4
  <2>6. t # <<>>
    BY <2>3, <2>4, EmptySeq
  <2>7. TrimSpace(t) = t
    BY <2>3, <2>5, <2>6, SolidIsTrimmed
  <2> QED
    BY <2>1, <2>7 DEF t
<1> QED
  BY <1>1, <1>2

\* All characters but the last.
LEMMA FrontOf ==
  ASSUME NEW T, NEW s \in Seq(T), s # <<>>
  PROVE  /\ Front(s) \in Seq(T) /\ Len(Front(s)) = Len(s) - 1
         /\ \A i \in 1 .. Len(s) - 1 : Front(s)[i] = s[i]
<1> DEFINE n == Len(s)
           m == n - 1
<1>1. n \in Nat /\ n >= 1
  BY EmptySeq, LenProperties
<1>2. m \in Int /\ 1 \in Int /\ m >= 0 /\ \A i \in 1 .. m : i \in 1 .. n /\ 1 + i - 1 = i
  BY <1>1
<1>3. \A i \in 1 .. m : s[i] \in T
  BY <1>2, ElementOfSeq
<1> HIDE DEF m
<1>4. /\ SubSeq(s, 1, m) \in Seq(T) /\ Len(SubSeq(s, 1, m)) = IF 1 <= m THEN m - 1 + 1 ELSE 0
      /\ \A i \in 1 .. m - 1 + 1 : SubSeq(s, 1, m)[i] = s[1 + i - 1]
  BY <1>2, <1>3, SubSeqProperties
<1>5. m - 1 + 1 = m /\ (~(1 <= m) => m = 0)
  BY <1>2
<1>6. Front(s) = SubSeq(s, 1, m)
  BY DEF Front, m
<1>7. Len(Front(s)) = m /\ \A i \in 1 .. m : Front(s)[i] = s[i]
  BY <1>2, <1>4, <1>5, <1>6
<1> QED
  BY <1>4, <1>6, <1>7 DEF m

\* A text that begins with a solid character keeps it when it is trimmed, and
\* what comes after it is trimmed with it.
LEMMA TrimmedTail ==
  ASSUME NEW T, NEW s \in Seq(T), s # <<>>, s[1] \notin Blank
  PROVE  /\ TrimSpace(s) \in Seq(T) /\ TrimSpace(s) # <<>> /\ TrimSpace(s)[1] = s[1]
         /\ TrimSpace(Tail(TrimSpace(s))) = TrimSpace(Tail(s))
<1> DEFINE n == Len(s)
           u == TrimSpace(s)
<1>1. n \in Nat /\ n \in 1 .. n /\ SubSeq(s, 1, n) = s
  BY EmptySeq, LenProperties, SubSeqFull
<1>2. PICK k \in 1 .. n : u = SubSeq(s, 1, k) /\ \A i \in k + 1 .. n : s[i] \in Blank
  BY <1>1, TrimmedBeginning
<1>3. u \in Seq(T) /\ Len(u) = k /\ \A i \in 1 .. k : u[i] = s[i]
  BY <1>2, Beginning
<1> HIDE DEF u
<1>4. k \in Int /\ k >= 1 /\ k <= n /\ 1 \in 1 .. k
  BY <1>1
<1>5. u # <<>> /\ u[1] = s[1]
  BY <1>3, <1>4, EmptySeq
<1>6. /\ Tail(s) \in Seq(T) /\ Len(Tail(s)) = n - 1
      /\ \A i \in 1 .. Len(Tail(s)) : Tail(s)[i] = s[i + 1]
  BY HeadTailProperties
<1>7. /\ Tail(u) \in Seq(T) /\ Len(Tail(u)) = k - 1
      /\ \A i \in 1 .. Len(Tail(u)) : Tail(u)[i] = u[i + 1]
  BY <1>3, <1>5, HeadTailProperties
<1> DEFINE x == Tail(s)
           y == Tail(u)
<1>8. TrimSpace(x) = TrimSpace(y)
  <2>1. x \in Seq(T) /\ y \in Seq(T) /\ 0 \in Nat /\ 0 + Len(y) <= Len(x)
    BY <1>1, <1>4, <1>6, <1>7
  <2>2. \A i \in 1 .. Len(y) : x[0 + i] = y[i]
    <3> TAKE i \in 1 .. Len(y)
    <3>1. i + 1 \in 1 .. k /\ i \in 1 .. Len(x) /\ 0 + i = i
      BY <1>1, <1>4, <1>6, <1>7
    <3> QED
      BY <1>3, <1>6, <1>7, <3>1
  <2>3. \A i \in 1 .. Len(x) : i <= 0 \/ 0 + Len(y) < i => x[i] \in Blank
    <3> SUFFICES ASSUME NEW i \in 1 .. Len(x), i <= 0 \/ 0 + Len(y) < i
                 PROVE  x[i] \in Blank
      OBVIOUS
    <3>1. i + 1 \in k + 1 .. n
      BY <1>1, <1>4, <1>6, <1>7
    <3> QED
      BY <1>2, <1>6, <3>1
  <2> HIDE DEF x, y
  <2> QED
    BY <2>1, <2>2, <2>3, BlanksAroundGo
<1> QED
  BY <1>3, <1>5, <1>8 DEF u

\* ... and the same at the other end.
LEMMA TrimmedFront ==
  ASSUME NEW T, NEW s \in Seq(T), s # <<>>, s[Len(s)] \notin Blank
  PROVE  /\ TrimSpace(s) \in Seq(T) /\ TrimSpace(s) # <<>>
         /\ TrimSpace(s)[Len(TrimSpace(s))] = s[Len(s)]
         /\ TrimSpace(Front(TrimSpace(s))) = TrimSpace(Front(s))
<1> DEFINE n == Len(s)
           u == TrimSpace(s)
<1>1. n \in Nat /\ n \in 1 .. n
  BY EmptySeq, LenProperties
<1>2. PICK a, b \in 1 .. n :
        /\ u = SubSeq(s, a, b) /\ a <= b
        /\ \A i \in 1 .. n : i < a \/ b < i => s[i] \in Blank
  BY <1>1, TrimSpaceEnds
<1>3. b = n
  <2>1. ~(b < n)
    BY <1>1, <1>2
  <2> QED
    BY <1>1, <1>2, <2>1
<1>4. \A i \in a .. n : s[i] \in T
  BY <1>1, ElementOfSeq
<1>5. a \in Int /\ a >= 1 /\ a <= n
  BY <1>1
<1>6. /\ u \in Seq(T) /\ Len(u) = n - a + 1
      /\ \A i \in 1 .. n - a + 1 : u[i] = s[a + i - 1]
  BY <1>1, <1>2, <1>3, <1>4, <1>5, SubSeqProperties
<1> HIDE DEF u
<1>7. n - a + 1 \in 1 .. n - a + 1 /\ a + (n - a + 1) - 1 = n
  BY <1>1, <1>5
<1>8. u # <<>> /\ u[Len(u)] = s[n]
  <2> DEFINE m == n - a + 1
  <2>1. Len(u) = m /\ m \in Nat \ {0} /\ u[m] = s[a + m - 1] /\ a + m - 1 = n
    BY <1>1, <1>5, <1>6, <1>7
  <2> HIDE DEF m, n
  <2> QED
    BY <2>1, EmptySeq
<1> DEFINE x == Front(s)
           y == Front(u)
<1>9. /\ x \in Seq(T) /\ Len(x) = n - 1 /\ \A i \in 1 .. n - 1 : x[i] = s[i]
  BY FrontOf
<1>10. /\ y \in Seq(T) /\ Len(y) = n - a /\ \A i \in 1 .. n - a : y[i] = u[i]
  <2>1. Len(u) - 1 = n - a
    BY <1>1, <1>5, <1>6
  <2>2. y \in Seq(T) /\ Len(y) = Len(u) - 1 /\ \A i \in 1 .. Len(u) - 1 : y[i] = u[i]
    BY <1>6, <1>8, FrontOf
  <2> HIDE DEF y
  <2> QED
    BY <2>1, <2>2
<1>11. TrimSpace(x) = TrimSpace(y)
  <2> HIDE DEF x, y, n
  <2>1. a - 1 \in Nat /\ (a - 1) + Len(y) = n - 1
    BY <1>1, <1>5, <1>10
  <2>2. \A i \in 1 .. Len(y) : x[(a - 1) + i] = y[i]
    <3> TAKE i \in 1 .. Len(y)
    <3>1. (a - 1) + i \in 1 .. n - 1 /\ i \in 1 .. n - a + 1 /\ i \in 1 .. n - a /\ (a - 1) + i = a + i - 1
      BY <1>1, <1>5, <1>10
    <3> QED
      BY <1>6, <1>9, <1>10, <3>1
  <2>3. \A i \in 1 .. Len(x) : i <= a - 1 \/ (a - 1) + Len(y) < i => x[i] \in Blank
    <3> SUFFICES ASSUME NEW i \in 1 .. Len(x), i <= a - 1 \/ (a - 1) + Len(y) < i
                 PROVE  x[i] \in Blank
      OBVIOUS
    <3>1. i \in 1 .. n /\ i < a /\ i \in 1 .. n - 1
      BY <1>1, <1>5, <1>9, <2>1
    <3> QED
      BY <1>2, <1>9, <3>1
  <2>4. (a - 1) + Len(y) <= Len(x)
    BY <1>1, <1>9, <2>1
  <2> QED
    BY <1>9, <1>10, <2>1, <2>2, <2>3, <2>4, BlanksAroundGo
<1> QED
  BY <1>6, <1>8, <1>11 DEF u

\* The tokens are different.
LEMMA TokensDiffer ==
  /\ Letter # Open /\ Space # Open /\ Newline # Open /\ Fence # Open /\ Preamble # Open
  /\ Letter # Close /\ Space # Close /\ Newline # Close /\ Fence # Close /\ Preamble # Close
  /\ Letter \notin Blank /\ Fence \notin Blank /\ Preamble \notin Blank
  /\ Letter # Newline /\ Space # Newline /\ Fence # Newline /\ Preamble # Newline
  /\ Letter # Fence /\ Preamble # Fence /\ Letter # Preamble
BY Zenon DEF Letter, Space, Newline, Open, Close, Fence, Preamble, Blank

\* The two passes leave the end of a text without tags, if before it there are
\* only tags and what comes right before a closing one.
LEMMA PassesKeepTheEnd ==
  ASSUME NEW T, NEW s \in Seq(T), Flat(s), NEW a \in 1 .. Len(s) + 1,
         \A i \in a .. Len(s) : s[i] # Open /\ s[i] # Close,
         \A i \in 1 .. a - 1 : s[i] = Open \/ s[i] = Close \/ (i + 1 <= Len(s) /\ s[i + 1] = Close)
  PROVE  AfterLastClose(DropThinking(s)) = SubSeq(s, a, Len(s))
<1> DEFINE n == Len(s)
           A == {i \in DOMAIN s : /\ s[i] \notin {Open, Close}
                                  /\ \A j \in i .. Len(s) : Surplus(s, i, j) <= 0}
<1>1. n \in Nat /\ DOMAIN s = 1 .. n /\ a \in Int /\ a >= 1 /\ a <= n + 1
  BY LenProperties
<1>2. ASSUME NEW i \in a .. n PROVE i \in A
  <2>1. i \in 1 .. n /\ s[i] \notin {Open, Close}
    BY <1>1
  <2>2. ASSUME NEW j \in i .. n PROVE Surplus(s, i, j) <= 0
    <3> DEFINE C == {k \in i .. j : s[k] = Close}
               O == {k \in i .. j : s[k] = Open}
    <3>1. \A k \in i .. j : k \in a .. n
      BY <1>1
    <3>2. C = {} /\ O = {}
      BY <3>1
    <3>3. Surplus(s, i, j) = Cardinality(C) - Cardinality(O)
      BY DEF Surplus
    <3> HIDE DEF C, O
    <3>4. Cardinality(C) = 0 /\ Cardinality(O) = 0
      BY <3>2, FS_EmptySet
    <3> QED
      BY <3>3, <3>4
  <2> QED
    BY <1>1, <2>1, <2>2
<1>3. ASSUME NEW i \in A PROVE i \in a .. n
  <2> SUFFICES ASSUME i < a PROVE FALSE
    BY <1>1
  <2>1. i \in 1 .. a - 1 /\ s[i] # Open /\ s[i] # Close /\ i \in Int
    BY <1>1
  <2>2. i + 1 <= n /\ s[i + 1] = Close
    BY <2>1
  <2> DEFINE C == {k \in i .. i + 1 : s[k] = Close}
             O == {k \in i .. i + 1 : s[k] = Open}
  <2>3. \A k \in i .. i + 1 : k = i \/ k = i + 1
    BY <2>1
  <2>4. i + 1 \in i .. i + 1
    BY <2>1
  <2>5. C = {i + 1}
    BY <2>1, <2>2, <2>3, <2>4
  <2>6. O = {}
    BY <2>1, <2>2, <2>3, TagsDiffer
  <2>7. Surplus(s, i, i + 1) = Cardinality(C) - Cardinality(O)
    BY DEF Surplus
  <2>8. i + 1 \in i .. n
    BY <1>1, <2>1, <2>2
  <2>9. Surplus(s, i, i + 1) <= 0
    BY <2>8
  <2> HIDE DEF C, O
  <2>10. Cardinality(C) = 1 /\ Cardinality(O) = 0
    BY <2>5, <2>6, FS_EmptySet, FS_Singleton
  <2> QED
    BY <2>7, <2>9, <2>10
<1>4. A = a .. n
  <2> HIDE DEF A
  <2> QED
    BY <1>2, <1>3
<1>5. Answer(s) = At(s, A)
  BY DEF Answer
<1> HIDE DEF A
<1> QED
  BY <1>4, <1>5, PassesLeaveTheAnswer, AtTheEnd

\* Reasoning before a text without tags goes, and blanks behind it are trimmed.
LEMMA ReasoningGoes ==
  ASSUME NEW T, NEW r \in Seq(T), NEW t \in Seq(T), Flat(r), NEW a \in 1 .. Len(r) + 1,
         \A i \in 1 .. Len(t) : t[i] # Open /\ t[i] # Close,
         \A i \in a .. Len(r) : r[i] \in Blank,
         \A i \in 1 .. a - 1 : r[i] = Open \/ r[i] = Close \/ (i + 1 <= Len(r) /\ r[i + 1] = Close)
  PROVE  TrimSpace(AfterLastClose(DropThinking(r \o t))) = TrimSpace(t)
<1> DEFINE m == Len(r)
           n == Len(t)
           s == r \o t
<1>1. m \in Nat /\ n \in Nat /\ DOMAIN r = 1 .. m /\ a \in Int /\ a >= 1 /\ a <= m + 1
  BY LenProperties
<1>2. /\ s \in Seq(T) /\ Len(s) = m + n
      /\ \A i \in 1 .. m + n : s[i] = IF i <= m THEN r[i] ELSE t[i - m]
  BY ConcatProperties
<1>3. DOMAIN s = 1 .. m + n
  BY <1>2, LenProperties
<1> HIDE DEF s
<1>4. (\A i \in 1 .. m : s[i] = r[i]) /\ \A i \in 1 .. n : s[m + i] = t[i]
  <2>1. ASSUME NEW i \in 1 .. m PROVE s[i] = r[i]
    BY <1>1, <1>2
  <2>2. ASSUME NEW i \in 1 .. n PROVE s[m + i] = t[i]
    <3>1. m + i \in 1 .. m + n /\ ~(m + i <= m) /\ m + i - m = i
      BY <1>1
    <3> QED
      BY <1>2, <3>1
  <2> QED
    BY <2>1, <2>2
<1>5. \A i \in 1 .. m + n : i \in 1 .. m \/ (i - m \in 1 .. n /\ m + (i - m) = i)
  BY <1>1
<1>6. Flat(s)
  <2> SUFFICES ASSUME NEW i \in 1 .. m + n, s[i] = Open
               PROVE  \E j \in i + 1 .. m + n :
                        s[j] = Close /\ \A k \in i + 1 .. j - 1 : s[k] # Open
    BY <1>2, <1>3 DEF Flat
  <2>1. i \in 1 .. m /\ r[i] = Open
    BY <1>4, <1>5
  <2>2. PICK j \in i + 1 .. m : r[j] = Close /\ \A k \in i + 1 .. j - 1 : r[k] # Open
    BY <1>1, <2>1 DEF Flat
  <2>3. j \in 1 .. m /\ j \in i + 1 .. m + n /\ \A k \in i + 1 .. j - 1 : k \in 1 .. m
    BY <1>1, <2>1
  <2> QED
    BY <1>4, <2>2, <2>3
<1>7. \A i \in a .. m + n : s[i] # Open /\ s[i] # Close
  <2> TAKE i \in a .. m + n
  <2>1. i \in 1 .. m + n
    BY <1>1
  <2>2. CASE i \in 1 .. m
    <3>1. r[i] \in Blank
      BY <1>1, <2>2
    <3> QED
      BY <1>4, <2>2, <3>1, TokensDiffer DEF Blank
  <2>3. CASE i - m \in 1 .. n /\ m + (i - m) = i
    <3>1. s[m + (i - m)] = t[i - m] /\ t[i - m] # Open /\ t[i - m] # Close
      BY <1>4, <2>3
    <3> QED
      BY <2>3, <3>1
  <2> QED
    BY <1>5, <2>1, <2>2, <2>3
<1>8. \A i \in 1 .. a - 1 : s[i] = Open \/ s[i] = Close \/ (i + 1 <= m + n /\ s[i + 1] = Close)
  <2> TAKE i \in 1 .. a - 1
  <2>1. i \in 1 .. m /\ (i + 1 <= m => i + 1 \in 1 .. m /\ i + 1 <= m + n)
    BY <1>1
  <2> QED
    BY <1>4, <2>1
<1>9. AfterLastClose(DropThinking(s)) = SubSeq(s, a, m + n)
  <2>1. a \in 1 .. Len(s) + 1
    BY <1>1, <1>2
  <2> HIDE DEF m, n
  <2> QED
    BY <1>2, <1>6, <1>7, <1>8, <2>1, PassesKeepTheEnd
<1> DEFINE x == SubSeq(s, a, m + n)
           d == m + 1 - a
<1>10. \A i \in a .. m + n : s[i] \in T
  BY <1>1, <1>2, ElementOfSeq
<1>11. /\ x \in Seq(T) /\ Len(x) = m + n - a + 1
       /\ \A i \in 1 .. m + n - a + 1 : x[i] = s[a + i - 1]
  <2> DEFINE l == m + n
  <2>1. l \in Int /\ \A i \in a .. l : s[i] \in T
    BY <1>1, <1>10
  <2>2. a <= l + 1
    BY <1>1
  <2> HIDE DEF l
  <2>3. /\ SubSeq(s, a, l) \in Seq(T) /\ Len(SubSeq(s, a, l)) = IF a <= l THEN l - a + 1 ELSE 0
        /\ \A i \in 1 .. l - a + 1 : SubSeq(s, a, l)[i] = s[a + i - 1]
    BY <1>1, <2>1, SubSeqProperties
  <2>4. ~(a <= l) => l - a + 1 = 0
    BY <1>1, <2>1, <2>2
  <2> QED
    BY <2>3, <2>4 DEF l
<1> HIDE DEF x
<1>12. TrimSpace(x) = TrimSpace(t)
  <2>1. d \in Nat /\ d + n = Len(x)
    BY <1>1, <1>11
  <2>2. \A i \in 1 .. n : x[d + i] = t[i]
    <3> TAKE i \in 1 .. n
    <3>1. d + i \in 1 .. m + n - a + 1 /\ a + (d + i) - 1 = m + i
      BY <1>1
    <3> QED
      BY <1>4, <1>11, <3>1
  <2>3. \A i \in 1 .. Len(x) : i <= d \/ d + n < i => x[i] \in Blank
    <3> SUFFICES ASSUME NEW i \in 1 .. Len(x), i <= d \/ d + n < i
                 PROVE  x[i] \in Blank
      OBVIOUS
    <3>1. i \in 1 .. m + n - a + 1 /\ a + i - 1 \in a .. m /\ a + i - 1 \in 1 .. m
      BY <1>1, <1>11
    <3> QED
      BY <1>4, <1>11, <3>1
  <2>4. d + n <= Len(x)
    BY <1>1, <2>1
  <2> HIDE DEF d, n
  <2> QED
    BY <1>11, <2>1, <2>2, <2>3, <2>4, BlanksAroundGo DEF n
<1> QED
  BY <1>9, <1>12 DEF s, x

\* The fence around an answer goes, with the language tag and the newlines.
LEMMA FenceGoes ==
  ASSUME NEW g \in Seq(Tokens), NEW q \in Seq(Tokens), NEW X \in Seq(Tokens), Len(g) \in {2, 3},
         g[1] = Fence, g[Len(g)] = Newline, \A i \in 1 .. Len(g) - 1 : g[i] # Newline,
         Len(X) = Len(g) + Len(q) + 2,
         \A i \in 1 .. Len(g) : X[i] = g[i],
         \A i \in 1 .. Len(q) : X[Len(g) + i] = q[i],
         X[Len(g) + Len(q) + 1] = Newline, X[Len(X)] = Fence
  PROVE  StripFence(TrimSpace(X)) = TrimSpace(q)
<1> DEFINE k == Len(g)
           l == Len(q)
           n == Len(X)
           y == Tail(X)
<1>1. k \in Nat /\ (k = 2 \/ k = 3) /\ l \in Nat /\ n \in Nat /\ n = k + l + 2
  BY LenProperties
<1>2. X # <<>> /\ X[1] = Fence
  <2>1. 1 \in 1 .. k /\ n # 0
    BY <1>1
  <2>2. X # <<>>
    BY <2>1, EmptySeq
  <2> QED
    BY <2>1, <2>2
<1>3. TrimSpace(X) = X
  BY <1>2, SolidIsTrimmed, TokensDiffer
<1>4. StripFence(X) = Unfence(y)
  <2>1. Head(X) = Fence
    BY <1>2
  <2> QED
    BY <1>2, <2>1 DEF StripFence, HasPrefix
<1>5. y \in Seq(Tokens) /\ Len(y) = n - 1 /\ \A i \in 1 .. n - 1 : y[i] = X[i + 1]
  BY <1>2, HeadTailProperties
<1>6. DOMAIN y = 1 .. n - 1
  BY <1>5, LenProperties
<1> HIDE DEF y
<1> DEFINE newlines == {i \in DOMAIN y : y[i] = Newline}
           first == Min(newlines)
           body == SubSeq(y, k, n - 1)
<1>7. first = k - 1 /\ newlines # {}
  <2>1. k - 1 \in 1 .. n - 1 /\ k - 1 + 1 = k /\ k \in 1 .. k
    BY <1>1
  <2>2. k - 1 \in newlines
    <3>1. y[k - 1] = X[k - 1 + 1]
      BY <1>5, <2>1
    <3>2. X[k] = g[k] /\ g[k] = Newline
      BY <2>1
    <3> QED
      BY <1>6, <2>1, <3>1, <3>2
  <2>3. \A i \in newlines : i \in Int /\ i >= k - 1
    <3> SUFFICES ASSUME NEW i \in 1 .. n - 1, y[i] = Newline, i < k - 1
                 PROVE  FALSE
      BY <1>1, <1>6
    <3>1. i + 1 \in 1 .. Len(g) - 1 /\ i + 1 \in 1 .. Len(g)
      BY <1>1
    <3>2. y[i] = g[i + 1]
      BY <1>5, <3>1
    <3> QED
      BY <3>1, <3>2
  <2>4. k - 1 \in Int
    BY <1>1
  <2> HIDE DEF newlines, k
  <2>5. newlines \in SUBSET Int /\ newlines # {} /\ \A i \in newlines : i >= k - 1
    BY <2>2, <2>3
  <2>6. first \in newlines /\ \A i \in newlines : first <= i
    BY <2>4, <2>5, LeastNumber
  <2> HIDE DEF first
  <2> QED
    BY <2>2, <2>3, <2>4, <2>6
<1>8. Fields(SubSeq(y, 1, first - 1)) <= 1
  <2> DEFINE c == SubSeq(y, 1, k - 2)
             starts == {i \in DOMAIN c : c[i] \notin Blank /\ (i = 1 \/ c[i - 1] \in Blank)}
  <2>1. k - 2 \in Int /\ 1 \in Int /\ \A i \in 1 .. k - 2 : i \in 1 .. Len(y)
    BY <1>1, <1>5
  <2>2. \A i \in 1 .. k - 2 : y[i] \in Tokens
    BY <1>5, <2>1, ElementOfSeq
  <2>3. c \in Seq(Tokens) /\ Len(c) = IF 1 <= k - 2 THEN k - 2 - 1 + 1 ELSE 0
    <3> DEFINE m == k - 2
    <3> HIDE DEF m
    <3>1. m \in Int /\ 1 \in Int /\ \A i \in 1 .. m : y[i] \in Tokens
      BY <2>1, <2>2 DEF m
    <3>2. SubSeq(y, 1, m) \in Seq(Tokens) /\ Len(SubSeq(y, 1, m)) = IF 1 <= m THEN m - 1 + 1 ELSE 0
      BY <3>1, SubSeqProperties
    <3> QED
      BY <3>2 DEF m
  <2>4. DOMAIN c \in SUBSET {1}
    <3>1. DOMAIN c = 1 .. Len(c)
      BY <2>3, LenProperties
    <3>2. Len(c) \in {0, 1}
      BY <1>1, <2>3
    <3> HIDE DEF c
    <3> QED
      BY <3>1, <3>2
  <2>5. Fields(c) = Cardinality(starts)
    BY DEF Fields
  <2>6. starts \in SUBSET {1}
    BY <2>4
  <2> HIDE DEF starts, c
  <2>7. Cardinality(starts) <= Cardinality({1}) /\ Cardinality({1}) = 1
    BY <2>6, FS_Singleton, FS_Subset
  <2>8. first - 1 = k - 2
    BY <1>1, <1>7
  <2> QED
    BY <2>5, <2>7, <2>8 DEF c
<1>9. Unfence(y) = TrimSpace(TrimSuffix(TrimSpace(body), Fence))
  <2>1. Unfence(y) = TrimSpace(TrimSuffix(TrimSpace(SubSeq(y, first + 1, Len(y))), Fence))
    <3> DEFINE tagged == newlines # {} /\ Fields(SubSeq(y, 1, first - 1)) <= 1
    <3>1. tagged
      BY <1>7, <1>8
    <3>2. Unfence(y) = TrimSpace(TrimSuffix(TrimSpace(
            IF tagged THEN SubSeq(y, first + 1, Len(y)) ELSE y), Fence))
      BY DEF Unfence
    <3> HIDE DEF tagged, first
    <3> QED
      BY <3>1, <3>2
  <2>2. first + 1 = k /\ Len(y) = n - 1
    BY <1>1, <1>5, <1>7
  <2> HIDE DEF first
  <2> QED
    BY <2>1, <2>2
<1>10. body \in Seq(Tokens) /\ Len(body) = l + 2 /\ \A i \in 1 .. l + 2 : body[i] = X[k + i]
  <2>1. \A i \in k .. n - 1 : i \in 1 .. Len(y)
    BY <1>1, <1>5
  <2>2. k \in Int /\ n - 1 \in Int /\ \A i \in k .. n - 1 : y[i] \in Tokens
    BY <1>1, <1>5, <2>1, ElementOfSeq
  <2> DEFINE z == n - 1
  <2>3. z \in Int /\ k <= z /\ z - k + 1 = l + 2
    BY <1>1
  <2>4. \A i \in k .. z : y[i] \in Tokens
    BY <2>2
  <2> HIDE DEF z, k
  <2>5. /\ SubSeq(y, k, z) \in Seq(Tokens) /\ Len(SubSeq(y, k, z)) = IF k <= z THEN z - k + 1 ELSE 0
        /\ \A i \in 1 .. z - k + 1 : SubSeq(y, k, z)[i] = y[k + i - 1]
    BY <2>2, <2>3, <2>4, SubSeqProperties
  <2>6. body = SubSeq(y, k, z)
    BY DEF z
  <2>7. \A i \in 1 .. l + 2 : k + i - 1 \in 1 .. n - 1 /\ k + i - 1 + 1 = k + i
    BY <1>1 DEF k
  <2>8. \A i \in 1 .. l + 2 : body[i] = X[k + i]
    <3> TAKE i \in 1 .. l + 2
    <3>1. i \in 1 .. z - k + 1 /\ k + i - 1 \in 1 .. n - 1 /\ k + i - 1 + 1 = k + i
      BY <2>3, <2>7
    <3>2. SubSeq(y, k, z)[i] = y[k + i - 1]
      BY <2>5, <3>1
    <3>3. y[k + i - 1] = X[k + i]
      BY <1>5, <3>1
    <3> QED
      BY <2>6, <3>2, <3>3
  <2> HIDE DEF body
  <2> QED
    BY <2>3, <2>5, <2>6, <2>8
<1> HIDE DEF body
<1> DEFINE u == TrimSpace(body)
           x == Front(body)
<1>11. body # <<>> /\ body[Len(body)] = Fence
  <2>1. Len(body) = l + 2 /\ l + 2 \in 1 .. l + 2 /\ l + 2 # 0 /\ k + (l + 2) = n
    BY <1>1, <1>10
  <2>2. body[l + 2] = X[n]
    BY <1>10, <2>1
  <2>3. body # <<>>
    BY <2>1, EmptySeq
  <2> QED
    BY <2>1, <2>2, <2>3
<1>12. u \in Seq(Tokens) /\ u # <<>> /\ u[Len(u)] = Fence /\ TrimSpace(Front(u)) = TrimSpace(x)
  BY <1>10, <1>11, TrimmedFront, TokensDiffer
<1>13. TrimSuffix(u, Fence) = Front(u)
  <2> HIDE DEF u
  <2> QED
    BY <1>12 DEF TrimSuffix, Last
<1>14. x \in Seq(Tokens) /\ Len(x) = l + 1 /\ \A i \in 1 .. l + 1 : x[i] = X[k + i]
  <2>1. /\ x \in Seq(Tokens) /\ Len(x) = Len(body) - 1
        /\ \A i \in 1 .. Len(body) - 1 : x[i] = body[i]
    BY <1>10, <1>11, FrontOf
  <2>2. Len(body) - 1 = l + 1 /\ \A i \in 1 .. l + 1 : i \in 1 .. l + 2
    BY <1>1, <1>10
  <2> HIDE DEF x
  <2> QED
    BY <1>10, <2>1, <2>2
<1>15. TrimSpace(x) = TrimSpace(q)
  <2> HIDE DEF x
  <2>1. 0 \in Nat /\ 0 + Len(q) <= Len(x)
    BY <1>1, <1>14
  <2>2. \A i \in 1 .. Len(q) : x[0 + i] = q[i]
    <3> TAKE i \in 1 .. Len(q)
    <3>1. i \in 1 .. l + 1 /\ 0 + i = i
      BY <1>1
    <3> QED
      BY <1>14, <3>1
  <2>3. \A i \in 1 .. Len(x) : i <= 0 \/ 0 + Len(q) < i => x[i] \in Blank
    <3> SUFFICES ASSUME NEW i \in 1 .. Len(x), i <= 0 \/ 0 + Len(q) < i
                 PROVE  x[i] \in Blank
      OBVIOUS
    <3>0. i \in 1 .. l + 1 /\ l < i
      BY <1>1, <1>14
    <3>1. i = l + 1 /\ i \in 1 .. l + 1 /\ k + i = Len(g) + Len(q) + 1
      <4>1. \A c, d \in Nat : \A j \in 1 .. d + 1 : d < j => j = d + 1 /\ c + j = c + d + 1
        OBVIOUS
      <4>2. Len(g) \in Nat /\ Len(q) \in Nat
        BY <1>1
      <4> QED
        BY <3>0, <4>1, <4>2
    <3>2. x[i] = Newline
      BY <1>14, <3>1
    <3> QED
      BY <3>2 DEF Blank
  <2> QED
    BY <1>14, <2>1, <2>2, <2>3, BlanksAroundGo
<1> QED
  BY <1>3, <1>4, <1>9, <1>12, <1>13, <1>15

\* The characters of a text and of what is written behind it.
LEMMA Joined ==
  ASSUME NEW T, NEW s \in Seq(T), NEW t \in Seq(T), NEW m, NEW n, Len(s) = m, Len(t) = n
  PROVE  /\ m \in Nat /\ n \in Nat /\ s \o t \in Seq(T) /\ Len(s \o t) = m + n
         /\ \A i \in 1 .. m : (s \o t)[i] = s[i]
         /\ \A i \in 1 .. n : (s \o t)[m + i] = t[i]
<1> DEFINE x == s \o t
<1>1. m \in Nat /\ n \in Nat
  BY LenProperties
<1>2. /\ x \in Seq(T) /\ Len(x) = m + n
      /\ \A i \in 1 .. m + n : x[i] = IF i <= m THEN s[i] ELSE t[i - m]
  BY ConcatProperties
<1> HIDE DEF x
<1>3. \A i \in 1 .. m : x[i] = s[i]
  BY <1>1, <1>2
<1>4. \A i \in 1 .. n : x[m + i] = t[i]
  <2> TAKE i \in 1 .. n
  <2>1. m + i \in 1 .. m + n /\ ~(m + i <= m) /\ m + i - m = i
    BY <1>1
  <2> QED
    BY <1>2, <2>1
<1> QED
  BY <1>1, <1>2, <1>3, <1>4 DEF x

\* A line, and the newline at its end.
LEMMA EndOfLine ==
  ASSUME NEW s \in Seq(Tokens)
  PROVE  /\ s \o <<Newline>> \in Seq(Tokens) /\ Len(s \o <<Newline>>) = Len(s) + 1
         /\ \A i \in 1 .. Len(s) : (s \o <<Newline>>)[i] = s[i]
         /\ (s \o <<Newline>>)[Len(s) + 1] = Newline
<1> DEFINE o == <<Newline>>
           n == 1
<1>1. o \in Seq(Tokens) /\ Len(o) = n /\ o[1] = Newline /\ 1 \in 1 .. n
  BY DEF Tokens, Blank
<1> HIDE DEF o, n
<1>2. /\ s \o o \in Seq(Tokens) /\ Len(s \o o) = Len(s) + n
      /\ \A i \in 1 .. Len(s) : (s \o o)[i] = s[i]
      /\ \A i \in 1 .. n : (s \o o)[Len(s) + i] = o[i]
  BY <1>1, Joined
<1>3. (s \o o)[Len(s) + 1] = Newline
  BY <1>1, <1>2
<1> QED
  BY <1>2, <1>3 DEF o, n

\* A text of letters and spaces, with a preamble or without, does not begin with
\* a fence, and nothing but it comes out behind the preamble.
LEMMA PreambleGoes ==
  ASSUME NEW t \in Seq(Tokens), \A i \in 1 .. Len(t) : t[i] \in {Letter, Space},
         NEW p \in {<<>>, <<Preamble, Space>>}
  PROVE  /\ p \o t \in Seq(Tokens)
         /\ \A i \in 1 .. Len(p \o t) : (p \o t)[i] \in {Letter, Space, Preamble}
         /\ StripFence(TrimSpace(p \o t)) = TrimSpace(p \o t)
         /\ TrimSpace(TrimPrefix(TrimSpace(p \o t), Preamble)) = TrimSpace(t)
<1> DEFINE q == p \o t
           u == TrimSpace(q)
           n == Len(t)
<1>1. n \in Nat
  BY LenProperties
<1>2. CASE p = <<>>
  <2>1. q = t
    BY <1>2, ConcatEmptySeq
  <2>2. \A i \in 1 .. Len(q) : q[i] \in {Letter, Space, Preamble}
    BY <2>1
  <2>3. u \in Seq(Tokens) /\ (u # <<>> => u[1] = Letter)
    <3>1. u \in Seq(Tokens)
      BY <2>1, TrimSpaceType
    <3>2. ASSUME u # <<>> PROVE u[1] = Letter
      <4>1. PICK a, b \in 1 .. n : u = SubSeq(t, a, b) /\ a <= b /\ t[a] \notin Blank
        BY <2>1, <3>2, TrimSpaceEnds
      <4>2. \A i \in a .. b : t[i] \in Tokens
        BY <1>1, ElementOfSeq
      <4>3. a \in Int /\ b \in Int /\ 1 \in 1 .. b - a + 1 /\ a + 1 - 1 = a
        BY <1>1, <4>1
      <4>4. SubSeq(t, a, b)[1] = t[a + 1 - 1]
        BY <4>2, <4>3, SubSeqProperties
      <4> QED
        BY <4>1, <4>3, <4>4 DEF Blank
    <3> QED
      BY <3>1, <3>2
  <2> HIDE DEF u
  <2>4. ~HasPrefix(u, Fence) /\ ~HasPrefix(u, Preamble)
    <3>1. u # <<>> => Head(u) = u[1]
      BY <2>3
    <3> QED
      BY <2>3, <3>1, TokensDiffer DEF HasPrefix
  <2>5. StripFence(u) = u /\ TrimPrefix(u, Preamble) = u
    BY <2>4 DEF StripFence, TrimPrefix
  <2>6. TrimSpace(u) = TrimSpace(t)
    BY <2>1, TrimmedOnce DEF u
  <2> QED
    BY <2>1, <2>2, <2>5, <2>6 DEF u
<1>3. CASE p = <<Preamble, Space>>
  <2>1. p \in Seq(Tokens) /\ Len(p) = 2 /\ p[1] = Preamble /\ p[2] = Space
    BY <1>3 DEF Tokens, Blank
  <2>2. /\ q \in Seq(Tokens) /\ Len(q) = n + 2
        /\ q[1] = Preamble /\ q[2] = Space /\ \A i \in 1 .. n : q[i + 2] = t[i]
    <3> DEFINE m == 2
    <3>1. p \in Seq(Tokens) /\ t \in Seq(Tokens) /\ Len(p) = m /\ Len(t) = n
      BY <2>1
    <3> HIDE DEF m, n
    <3>2. /\ q \in Seq(Tokens) /\ Len(q) = m + n
          /\ \A i \in 1 .. m : q[i] = p[i]
          /\ \A i \in 1 .. n : q[m + i] = t[i]
      BY <3>1, Joined
    <3> HIDE DEF q
    <3> USE DEF m
    <3>3. 1 \in 1 .. 2 /\ 2 \in 1 .. 2 /\ 2 + n = n + 2 /\ \A i \in 1 .. n : 2 + i = i + 2
      BY <1>1 DEF n
    <3> QED
      BY <2>1, <3>2, <3>3
  <2> HIDE DEF q
  <2>3. q[1] = Preamble /\ q[2] = Space /\ \A i \in 1 .. n : q[i + 2] = t[i]
    BY <2>2
  <2>4. \A i \in 1 .. Len(q) : q[i] \in {Letter, Space, Preamble}
    <3> TAKE i \in 1 .. Len(q)
    <3>1. i = 1 \/ i = 2 \/ (i - 2 \in 1 .. n /\ i = i - 2 + 2)
      BY <1>1, <2>2
    <3>2. CASE i - 2 \in 1 .. n /\ i = i - 2 + 2
      <4>1. q[i - 2 + 2] = t[i - 2]
        BY <2>3, <3>2
      <4> QED
        BY <3>2, <4>1
    <3> QED
      BY <2>3, <3>1, <3>2
  <2>5. q # <<>> /\ q[1] \notin Blank
    BY <1>1, <2>2, <2>3, EmptySeq, TokensDiffer
  <2>6. /\ u \in Seq(Tokens) /\ u # <<>> /\ u[1] = Preamble
        /\ TrimSpace(Tail(u)) = TrimSpace(Tail(q))
    BY <2>2, <2>3, <2>5, TrimmedTail
  <2> HIDE DEF u
  <2>7. HasPrefix(u, Preamble) /\ ~HasPrefix(u, Fence)
    <3>1. Head(u) = u[1]
      BY <2>6
    <3> QED
      BY <2>6, <3>1, TokensDiffer DEF HasPrefix
  <2>8. StripFence(u) = u /\ TrimPrefix(u, Preamble) = Tail(u)
    BY <2>7 DEF StripFence, TrimPrefix
  <2> DEFINE x == Tail(q)
  <2>9. x \in Seq(Tokens) /\ Len(x) = n + 1 /\ \A i \in 1 .. n + 1 : x[i] = q[i + 1]
    <3>1. /\ x \in Seq(Tokens) /\ Len(x) = Len(q) - 1
          /\ \A i \in 1 .. Len(x) : x[i] = q[i + 1]
      BY <2>2, <2>5, HeadTailProperties
    <3>2. Len(q) - 1 = n + 1
      BY <1>1, <2>2
    <3> HIDE DEF x
    <3> QED
      BY <3>1, <3>2
  <2> HIDE DEF x
  <2>10. TrimSpace(x) = TrimSpace(t)
    <3>1. 1 \in Nat /\ 1 + Len(t) <= Len(x)
      BY <1>1, <2>9
    <3>2. \A i \in 1 .. Len(t) : x[1 + i] = t[i]
      <4> TAKE i \in 1 .. Len(t)
      <4>1. 1 + i \in 1 .. n + 1 /\ 1 + i + 1 = i + 2
        BY <1>1
      <4> QED
        BY <2>3, <2>9, <4>1
    <3>3. \A i \in 1 .. Len(x) : i <= 1 \/ 1 + Len(t) < i => x[i] \in Blank
      <4> SUFFICES ASSUME NEW i \in 1 .. Len(x), i <= 1 \/ 1 + Len(t) < i
                   PROVE  x[i] \in Blank
        OBVIOUS
      <4>1. i = 1 /\ 1 \in 1 .. n + 1
        BY <1>1, <2>9
      <4>2. x[1] = q[1 + 1]
        BY <2>9, <4>1
      <4> QED
        BY <2>3, <4>1, <4>2 DEF Blank
    <3> QED
      BY <2>9, <3>1, <3>2, <3>3, BlanksAroundGo
  <2> QED
    BY <2>2, <2>4, <2>6, <2>8, <2>10 DEF u, x, q
<1> QED
  BY <1>2, <1>3

\* An answer of letters and spaces comes bare out of everything around it.
LEMMA WrappingGoes ==
  ASSUME NEW t \in Seq(Tokens), \A i \in 1 .. Len(t) : t[i] \in {Letter, Space},
         NEW r \in {<<>>, <<Close>>, <<Letter, Close, Newline>>, <<Open, Letter, Close>>},
         NEW f \in {<<>>, <<Fence>>, <<Fence, Letter>>},
         NEW p \in {<<>>, <<Preamble, Space>>}
  PROVE  Clean(Wrapped(r, f, p, t)) = TrimSpace(t)
<1> DEFINE q == p \o t
           inside == IF f = <<>> THEN q ELSE f \o <<Newline>> \o q \o <<Newline, Fence>>
<1>1. /\ q \in Seq(Tokens) /\ \A i \in 1 .. Len(q) : q[i] \in {Letter, Space, Preamble}
      /\ StripFence(TrimSpace(q)) = TrimSpace(q)
      /\ TrimSpace(TrimPrefix(TrimSpace(q), Preamble)) = TrimSpace(t)
  BY PreambleGoes
<1> HIDE DEF q
<1>2. /\ inside \in Seq(Tokens) /\ \A i \in 1 .. Len(inside) : inside[i] # Open /\ inside[i] # Close
      /\ StripFence(TrimSpace(inside)) = TrimSpace(q)
  <2>1. CASE f = <<>>
    <3>1. inside = q
      BY <2>1
    <3>2. \A i \in 1 .. Len(q) : q[i] # Open /\ q[i] # Close
      BY <1>1, TokensDiffer
    <3> QED
      BY <1>1, <3>1, <3>2
  <2>2. CASE f # <<>>
    <3> DEFINE g == f \o <<Newline>>
               e == <<Newline, Fence>>
               k == Len(g)
               l == Len(q)
               X == g \o q \o e
    <3>1. inside = X
      BY <2>2
    <3>2. /\ g \in Seq(Tokens) /\ k \in {2, 3} /\ g[1] = Fence /\ g[k] = Newline
          /\ \A i \in 1 .. k - 1 : g[i] # Newline
          /\ \A i \in 1 .. k : g[i] \in {Letter, Fence, Newline}
      <4> DEFINE m == Len(f)
      <4>1. /\ f \in Seq(Tokens) /\ (m = 1 \/ m = 2) /\ f[1] = Fence
            /\ (m = 2 => f[2] = Letter)
        <5>1. CASE f = <<Fence>>
          BY <5>1 DEF Tokens
        <5>2. CASE f = <<Fence, Letter>>
          BY <5>2 DEF Tokens
        <5> QED
          BY <2>2, <5>1, <5>2
      <4>2. /\ g \in Seq(Tokens) /\ k = m + 1
            /\ \A i \in 1 .. m : g[i] = f[i]
            /\ g[m + 1] = Newline
        BY <4>1, EndOfLine
      <4> HIDE DEF m, g, k
      <4>4. 1 \in 1 .. m /\ (m = 2 => 2 \in 1 .. m)
        BY <4>1
      <4>5. g[1] = Fence /\ (m = 2 => g[2] = Letter) /\ g[m + 1] = Newline
        BY <4>1, <4>2, <4>4
      <4>6. /\ \A i \in 1 .. m : i = 1 \/ (m = 2 /\ i = 2)
            /\ \A i \in 1 .. m + 1 : i \in 1 .. m \/ i = m + 1
            /\ m + 1 - 1 = m /\ m + 1 \in {2, 3}
        BY <4>1
      <4>7. \A i \in 1 .. m : g[i] \in {Letter, Fence}
        BY <4>5, <4>6
      <4>8. \A i \in 1 .. m : g[i] # Newline
        BY <4>7, TokensDiffer
      <4>9. \A i \in 1 .. m + 1 : g[i] \in {Letter, Fence, Newline}
        BY <4>5, <4>6, <4>7
      <4> QED
        BY <4>2, <4>5, <4>6, <4>8, <4>9
    <3>3. e \in Seq(Tokens) /\ Len(e) = 2 /\ e[1] = Newline /\ e[2] = Fence
      BY DEF Tokens, Blank
    <3> HIDE DEF g, e
    <3>4. k \in Nat /\ l \in Nat /\ (k = 2 \/ k = 3)
      BY <1>1, <3>2, LenProperties
    <3> DEFINE h == g \o q
    <3>5. /\ h \in Seq(Tokens) /\ Len(h) = k + l
          /\ \A i \in 1 .. k : h[i] = g[i]
          /\ \A i \in 1 .. l : h[k + i] = q[i]
      BY <1>1, <3>2, Joined
    <3>6. X = h \o e
      OBVIOUS
    <3> HIDE DEF h, k, l, X
    <3>7. /\ X \in Seq(Tokens) /\ Len(X) = k + l + 2
          /\ \A i \in 1 .. k : X[i] = g[i]
          /\ \A i \in 1 .. l : X[k + i] = q[i]
          /\ X[k + l + 1] = Newline /\ X[k + l + 2] = Fence
      <4> DEFINE m == k + l
                 n == 2
      <4>0. Len(h) = m /\ Len(e) = n
        BY <3>3, <3>5
      <4> HIDE DEF m, n
      <4>1. /\ h \o e \in Seq(Tokens) /\ Len(h \o e) = m + n
            /\ \A i \in 1 .. m : (h \o e)[i] = h[i]
            /\ \A i \in 1 .. n : (h \o e)[m + i] = e[i]
        BY <3>3, <3>5, <4>0, Joined
      <4> USE DEF m, n
      <4>2. /\ X \in Seq(Tokens) /\ Len(X) = k + l + 2
            /\ \A i \in 1 .. k + l : X[i] = h[i]
            /\ \A i \in 1 .. 2 : X[k + l + i] = e[i]
        BY <3>6, <4>1
      <4>3. /\ \A i \in 1 .. k : i \in 1 .. k + l
            /\ \A i \in 1 .. l : k + i \in 1 .. k + l
        BY <3>4
      <4>4. \A i \in 1 .. k : X[i] = g[i]
        BY <3>5, <4>2, <4>3
      <4>5. \A i \in 1 .. l : X[k + i] = q[i]
        BY <3>5, <4>2, <4>3
      <4>6. 1 \in 1 .. 2 /\ 2 \in 1 .. 2
        OBVIOUS
      <4>7. X[k + l + 1] = Newline /\ X[k + l + 2] = Fence
        BY <3>3, <4>2, <4>6
      <4> QED
        BY <4>2, <4>4, <4>5, <4>7
    <3>8. \A i \in 1 .. Len(X) : X[i] # Open /\ X[i] # Close
      <4> TAKE i \in 1 .. Len(X)
      <4>0. i \in 1 .. k + l + 2
        BY <3>7
      <4>1. \/ i \in 1 .. k
            \/ i - k \in 1 .. l /\ i = k + (i - k)
            \/ i = k + l + 1
            \/ i = k + l + 2
        BY <3>4, <4>0
      <4>2. CASE i \in 1 .. k
        BY <3>2, <3>7, <4>2, TokensDiffer DEF k
      <4>3. CASE i - k \in 1 .. l /\ i = k + (i - k)
        <5>1. X[k + (i - k)] = q[i - k]
          BY <3>7, <4>3
        <5>2. q[i - k] \in {Letter, Space, Preamble}
          BY <1>1, <4>3 DEF l
        <5> QED
          BY <4>3, <5>1, <5>2, TokensDiffer
      <4> QED
        BY <3>7, <4>1, <4>2, <4>3, TokensDiffer
    <3>9. StripFence(TrimSpace(X)) = TrimSpace(q)
      <4>1. Len(g) \in {2, 3} /\ g[1] = Fence /\ g[Len(g)] = Newline
        BY <3>2 DEF k
      <4>2. \A i \in 1 .. Len(g) - 1 : g[i] # Newline
        BY <3>2 DEF k
      <4>3. Len(X) = Len(g) + Len(q) + 2 /\ \A i \in 1 .. Len(g) : X[i] = g[i]
        BY <3>7 DEF k, l
      <4>4. \A i \in 1 .. Len(q) : X[Len(g) + i] = q[i]
        BY <3>7 DEF k, l
      <4>5. X[Len(g) + Len(q) + 1] = Newline /\ X[Len(X)] = Fence
        BY <3>7 DEF k, l
      <4> QED
        BY <1>1, <3>2, <3>7, <4>1, <4>2, <4>3, <4>4, <4>5, FenceGoes
    <3> QED
      BY <3>1, <3>7, <3>8, <3>9
  <2> QED
    BY <2>1, <2>2
<1> HIDE DEF inside
<1>3. TrimSpace(AfterLastClose(DropThinking(r \o inside))) = TrimSpace(inside)
  <2>1. CASE r = <<>>
    <3>1. r \in Seq(Tokens) /\ Len(r) = 0 /\ 1 \in 1 .. Len(r) + 1 /\ Flat(r)
      BY <2>1 DEF Flat
    <3>2. 1 - 1 = 0 /\ 1 .. 1 - 1 = {}
      OBVIOUS
    <3> QED
      <4> DEFINE a == 1
      <4>1. \A i \in a .. Len(r) : r[i] \in Blank
        BY <3>1
      <4>2. \A i \in 1 .. a - 1 : r[i] = Open \/ r[i] = Close \/ (i + 1 <= Len(r) /\ r[i + 1] = Close)
        BY <3>2
      <4>3. a \in 1 .. Len(r) + 1 /\ r \in Seq(Tokens) /\ Flat(r)
        BY <3>1
      <4> HIDE DEF a
      <4> QED
        BY <1>2, <4>1, <4>2, <4>3, ReasoningGoes
  <2>2. CASE r = <<Close>>
    <3>1. r \in Seq(Tokens) /\ Len(r) = 1 /\ 2 \in 1 .. Len(r) + 1 /\ r[1] = Close /\ DOMAIN r = {1}
      BY <2>2 DEF Tokens
    <3>2. Flat(r)
      BY <3>1, TokensDiffer, TagsDiffer DEF Flat
    <3>3. 1 .. 2 - 1 = {1} /\ 2 .. 1 = {}
      OBVIOUS
    <3> QED
      BY <1>2, <3>1, <3>2, <3>3, ReasoningGoes
  <2>3. CASE r = <<Letter, Close, Newline>>
    <3>1. /\ r \in Seq(Tokens) /\ Len(r) = 3 /\ 3 \in 1 .. Len(r) + 1 /\ DOMAIN r = {1, 2, 3}
          /\ r[2] = Close /\ r[1] = Letter /\ r[3] = Newline
      BY <2>3 DEF Tokens, Blank
    <3>2. Flat(r)
      BY <3>1, TokensDiffer, TagsDiffer DEF Flat
    <3>3. 1 .. 3 - 1 = {1, 2} /\ 3 .. 3 = {3} /\ 1 + 1 = 2
      OBVIOUS
    <3>4. Newline \in Blank
      BY DEF Blank
    <3> QED
      <4> DEFINE a == 3
      <4>1. \A i \in a .. Len(r) : r[i] \in Blank
        BY <3>1, <3>3, <3>4
      <4>2. \A i \in 1 .. a - 1 : r[i] = Open \/ r[i] = Close \/ (i + 1 <= Len(r) /\ r[i + 1] = Close)
        BY <3>1, <3>3
      <4>3. a \in 1 .. Len(r) + 1 /\ r \in Seq(Tokens) /\ Flat(r)
        BY <3>1, <3>2
      <4> HIDE DEF a
      <4> QED
        BY <1>2, <4>1, <4>2, <4>3, ReasoningGoes
  <2>4. CASE r = <<Open, Letter, Close>>
    <3>1. /\ r \in Seq(Tokens) /\ Len(r) = 3 /\ 4 \in 1 .. Len(r) + 1 /\ DOMAIN r = {1, 2, 3}
          /\ r[1] = Open /\ r[2] = Letter /\ r[3] = Close
      BY <2>4 DEF Tokens
    <3>2. Flat(r)
      <4> SUFFICES ASSUME NEW i \in DOMAIN r, r[i] = Open
                   PROVE  \E j \in i + 1 .. Len(r) : r[j] = Close /\ \A k \in i + 1 .. j - 1 : r[k] # Open
        BY DEF Flat
      <4>1. i = 1
        BY <3>1, TokensDiffer, TagsDiffer
      <4>2. 3 \in i + 1 .. Len(r) /\ \A k \in i + 1 .. 3 - 1 : k = 2
        BY <3>1, <4>1
      <4> QED
        BY <3>1, <4>2, TokensDiffer
    <3>3. 1 .. 4 - 1 = {1, 2, 3} /\ 4 .. 3 = {} /\ 2 + 1 = 3
      OBVIOUS
    <3> QED
      <4> DEFINE a == 4
      <4>1. \A i \in a .. Len(r) : r[i] \in Blank
        BY <3>1, <3>3
      <4>2. \A i \in 1 .. a - 1 : r[i] = Open \/ r[i] = Close \/ (i + 1 <= Len(r) /\ r[i + 1] = Close)
        BY <3>1, <3>3
      <4>3. a \in 1 .. Len(r) + 1 /\ r \in Seq(Tokens) /\ Flat(r)
        BY <3>1, <3>2
      <4> HIDE DEF a
      <4> QED
        BY <1>2, <4>1, <4>2, <4>3, ReasoningGoes
  <2> QED
    BY <2>1, <2>2, <2>3, <2>4
<1>4. Wrapped(r, f, p, t) = r \o inside
  BY Zenon DEF Wrapped, inside, q
<1>5. Clean(r \o inside)
        = TrimSpace(TrimPrefix(StripFence(TrimSpace(AfterLastClose(DropThinking(r \o inside)))), Preamble))
  BY Zenon DEF Clean
<1>6. Clean(r \o inside) = TrimSpace(TrimPrefix(TrimSpace(q), Preamble))
  BY <1>2, <1>3, <1>5, Zenon
<1> QED
  BY <1>1, <1>4, <1>6, Zenon

-----------------------------------------------------------------------------
(* The requests.                                                            *)

\* A summary is a text with at most an ellipsis more.
LEMMA SummaryType ==
  ASSUME NEW t \in Texts
  PROVE  t \in Seq(Tokens) /\ Summary(t, MaxChars) \in Seq(Tokens \cup {Ellipsis})
<1>1. t \in Seq(Tokens) /\ MaxChars \in Int
  BY CompletionAssumption
<1>2. Clean(t) \in Seq(Tokens) /\ (Clean(t) # <<>> => Clean(t)[1] \notin Blank)
  BY <1>1, CleanType
<1>3. Capped(Clean(t), MaxChars) \in Seq(Tokens \cup {Ellipsis})
  BY <1>1, <1>2, CappedIsAtABlankOrTheLimit
<1> QED
  BY <1>1, <1>3 DEF Summary

\* The providers state tokens only for an answer with a text or one that could
\* not get one, and never for an outcome that is worth a retry.
LEMMA ReplyOutcome ==
  ASSUME NEW reply \in Replies
  PROVE  /\ Outcome(reply) \in {OK} \cup Errors /\ Usage(reply) \in Nat
         /\ Transient(Outcome(reply)) => Usage(reply) = 0
         /\ Outcome(reply) = OK => Usage(reply) = 1
<1>1. CASE reply.status # 200
  <2>1. reply.status \in {400, 401, 403, 429, 500, 503}
    BY <1>1 DEF Replies
  <2>2. Outcome(reply) \in {ErrRateLimited, ErrAuth, ErrUnavailable, ErrOther}
    BY <1>1, <2>1 DEF Outcome, StatusError
  <2>3. Usage(reply) = 0
    BY <1>1 DEF Usage
  <2> QED
    BY <2>2, <2>3 DEF Errors, OK, ErrRateLimited, ErrAuth, ErrUnavailable, ErrOther
<1>2. CASE reply.status = 200
  <2>1. reply.body \in Bodies
    BY <1>2 DEF Replies
  <2>2. Outcome(reply) = BodyOutcome(reply.body)
    BY <1>2 DEF Outcome
  <2>3. /\ BodyOutcome(reply.body) \in {OK, ErrOther, ErrEmpty, ErrTruncated}
        /\ BodyOutcome(reply.body) = OK => reply.body \in {"text", "cut"}
    BY <2>1 DEF BodyOutcome, Bodies, OK, ErrOther, ErrEmpty, ErrTruncated
  <2>4. Usage(reply) \in {0, 1} /\ (reply.body \in {"text", "cut"} => Usage(reply) = 1)
    BY <1>2 DEF Usage
  <2> QED
    BY <2>2, <2>3, <2>4
    DEF Errors, Transient, OK, ErrOther, ErrEmpty, ErrTruncated, ErrRateLimited, ErrUnavailable
<1> QED
  BY <1>1, <1>2

\* What the invariant says of the log, whatever the texts are.
LEMMA SettleKeepsTheInvariant ==
  ASSUME CompletionInv, NEW outcome \in {OK} \cup Errors, NEW tokens \in Nat,
         Transient(outcome) => tokens = 0, outcome = OK => tokens = 1,
         phase = "asking", Settle(outcome, tokens),
         UNCHANGED <<provider, tries, over, post>>
  PROVE  CompletionInv'
<1>1. /\ TypeOK /\ LogMatchesTries /\ used = 0 /\ returned = 0
      /\ \A i \in DOMAIN log : Transient(log[i])
  BY DEF CompletionInv
<1>2. UNCHANGED <<provider, tries, over, text, summary>>
  BY DEF post
<1>3. log \in Seq({OK} \cup Errors) /\ Len(log) \in Nat /\ Len(log) = tries - 1 /\ tries \in 1 .. Attempts
  BY <1>1, CompletionAssumption DEF TypeOK, LogMatchesTries
<1>4. log' = Append(log, outcome) /\ used' = tokens
  BY <1>1 DEF Settle
<1>5. /\ log' \in Seq({OK} \cup Errors) /\ Len(log') = tries
      /\ DOMAIN log' = 1 .. tries /\ log'[tries] = outcome
      /\ \A i \in 1 .. tries - 1 : log'[i] = log[i] /\ i \in DOMAIN log
  <2> DEFINE S == {OK} \cup Errors
  <2>0. log \in Seq(S) /\ outcome \in S
    BY <1>3
  <2> HIDE DEF S
  <2>1. /\ Append(log, outcome) \in Seq(S) /\ Len(Append(log, outcome)) = Len(log) + 1
        /\ \A i \in 1 .. Len(log) : Append(log, outcome)[i] = log[i]
        /\ Append(log, outcome)[Len(log) + 1] = outcome
    BY <2>0, AppendProperties
  <2>2. DOMAIN log = 1 .. Len(log) /\ DOMAIN Append(log, outcome) = 1 .. Len(Append(log, outcome))
    BY <2>0, <2>1, LenProperties
  <2>3. Len(log) + 1 = tries
    BY <1>3
  <2> QED
    BY <1>3, <1>4, <2>1, <2>2, <2>3 DEF S
<1>6. \A i \in 1 .. tries - 1 : Transient(log'[i])
  BY <1>1, <1>5
<1>7. CASE Transient(outcome) /\ ~LastAttempt
  <2>1. phase' = "waiting" /\ UNCHANGED <<result, returned>> /\ tries < Attempts
    BY <1>3, <1>7, CompletionAssumption DEF Settle, LastAttempt
  <2>2. TypeOK'
    BY <1>1, <1>2, <1>4, <1>5, <2>1 DEF TypeOK
  <2>3. LogMatchesTries'
    BY <1>2, <1>3, <1>5, <2>1 DEF LogMatchesTries
  <2>4. ResultIsTheLastOutcome'
    BY <2>1 DEF ResultIsTheLastOutcome
  <2>5. \A i \in DOMAIN log' : Transient(log'[i])
    <3>1. \A i \in DOMAIN log' : i \in 1 .. tries - 1 \/ i = tries
      BY <1>3, <1>5
    <3> QED
      BY <1>5, <1>6, <1>7, <3>1
  <2>6. used' = 0 /\ returned' = 0
    BY <1>1, <1>4, <1>7, <2>1
  <2> QED
    BY <2>1, <2>2, <2>3, <2>4, <2>5, <2>6 DEF CompletionInv, Transient
<1>8. CASE ~(Transient(outcome) /\ ~LastAttempt)
  <2>1. /\ phase' = "returned" /\ result' = outcome
        /\ returned' = IF outcome = OK THEN tokens ELSE 0
    BY <1>8 DEF Settle
  <2>2. TypeOK'
    <3>1. outcome \in {OK, "none"} \cup Errors /\ returned' \in Nat
      BY <2>1
    <3> QED
      BY <1>1, <1>2, <1>4, <1>5, <2>1, <3>1 DEF TypeOK
  <2>3. LogMatchesTries'
    BY <1>2, <1>3, <1>5, <2>1 DEF LogMatchesTries
  <2>4. ResultIsTheLastOutcome'
    <3>1. result' = log'[Len(log')]
      BY <1>5, <2>1
    <3>2. /\ result' # OK => returned' = 0
          /\ result' = OK => returned' = 1 /\ used' = 1
      BY <1>4, <2>1
    <3> QED
      BY <3>1, <3>2 DEF ResultIsTheLastOutcome
  <2>5. \A i \in DOMAIN log' : Transient(log'[i]) \/ i = Len(log')
    <3>1. \A i \in DOMAIN log' : i \in 1 .. tries - 1 \/ i = tries
      BY <1>3, <1>5
    <3> QED
      BY <1>5, <1>6, <3>1
  <2> QED
    BY <2>1, <2>2, <2>3, <2>4, <2>5 DEF CompletionInv, Transient
<1> QED
  BY <1>7, <1>8

\* Every request, answer, wait and timeout keeps the log of outcomes in step
\* with the number of tries.
LEMMA CompletionStep == CompletionInv /\ [Next]_vars => CompletionInv'
<1> SUFFICES ASSUME CompletionInv, [Next]_vars
             PROVE  CompletionInv'
  OBVIOUS
<1>0. TypeOK /\ LogMatchesTries /\ ResultIsTheLastOutcome
  BY DEF CompletionInv
<1>1. CASE Ask
  <2>1. /\ phase = "ready" /\ phase' = "asking" /\ tries' = tries + 1
        /\ UNCHANGED <<provider, over, log, result, used, returned, text, summary>>
    BY <1>1 DEF Ask, post
  <2>2. tries \in Nat /\ tries < Attempts /\ Len(log) = tries /\ tries' \in 0 .. Attempts
    BY <1>0, <2>1, CompletionAssumption DEF TypeOK, LogMatchesTries
  <2>3. TypeOK'
    BY <1>0, <2>1, <2>2 DEF TypeOK
  <2>4. LogMatchesTries'
    BY <2>1, <2>2 DEF LogMatchesTries
  <2> QED
    BY <2>1, <2>3, <2>4 DEF CompletionInv, ResultIsTheLastOutcome, Transient
<1>2. CASE BuildFails
  <2>1. ErrOther \in {OK} \cup Errors /\ ErrOther # OK /\ ~Transient(ErrOther)
    BY DEF OK, Errors, Transient, ErrRateLimited, ErrUnavailable, ErrAuth, ErrTruncated,
           ErrEmpty, ErrOther, ErrContext
  <2> QED
    BY <1>2, <2>1, SettleKeepsTheInvariant DEF BuildFails
<1>3. CASE Reply
  <2>1. PICK reply \in Replies : Settle(Outcome(reply), Usage(reply))
    BY <1>3 DEF Reply
  <2>2. phase = "asking" /\ UNCHANGED <<provider, tries, over, post>>
    BY <1>3 DEF Reply
  <2> QED
    BY <2>1, <2>2, ReplyOutcome, SettleKeepsTheInvariant
<1>4. CASE TransportFails
  <2>1. ErrUnavailable \in {OK} \cup Errors /\ ErrUnavailable # OK
    BY DEF OK, Errors, ErrUnavailable
  <2> QED
    BY <1>4, <2>1, SettleKeepsTheInvariant DEF TransportFails
<1>5. CASE Backoff
  <2>1. /\ phase = "waiting" /\ phase' = "ready"
        /\ UNCHANGED <<provider, tries, over, log, result, used, returned, text, summary>>
    BY <1>5 DEF Backoff, post
  <2>2. TypeOK' /\ LogMatchesTries'
    BY <1>0, <2>1 DEF TypeOK, LogMatchesTries
  <2> QED
    BY <2>1, <2>2 DEF CompletionInv, ResultIsTheLastOutcome, Transient
<1>6. CASE GiveUp
  <2>1. /\ phase = "waiting" /\ over /\ phase' = "returned" /\ result' = ErrContext
        /\ UNCHANGED <<provider, tries, over, log, used, returned, text, summary>>
    BY <1>6 DEF GiveUp, post
  <2>2. ErrContext \in {OK, "none"} \cup Errors /\ ErrContext # OK
    BY DEF OK, Errors, ErrContext
  <2>3. TypeOK' /\ LogMatchesTries'
    BY <1>0, <2>1, <2>2 DEF TypeOK, LogMatchesTries
  <2>4. \A i \in DOMAIN log : Transient(log[i])
    BY <2>1 DEF CompletionInv
  <2>5. Len(log) \in DOMAIN log
    <3>1. Len(log) = tries /\ tries >= 1 /\ tries \in Nat
      BY <1>0, <2>1 DEF TypeOK, LogMatchesTries
    <3>2. DOMAIN log = 1 .. Len(log)
      BY <1>0, LenProperties DEF TypeOK
    <3> QED
      BY <3>1, <3>2
  <2>6. returned = 0
    BY <2>1 DEF CompletionInv
  <2>7. ResultIsTheLastOutcome'
    BY <2>1, <2>2, <2>4, <2>5, <2>6 DEF ResultIsTheLastOutcome, Transient
  <2> QED
    BY <2>1, <2>3, <2>4, <2>7 DEF CompletionInv, Transient
<1>7. CASE Expire
  <2>1. over' = TRUE /\ UNCHANGED <<provider, phase, tries, log, result, used, returned, text, summary>>
    BY <1>7 DEF Expire, post
  <2>2. TypeOK' /\ LogMatchesTries'
    BY <1>0, <2>1 DEF TypeOK, LogMatchesTries
  <2>3. ResultIsTheLastOutcome'
    BY <1>0, <2>1 DEF ResultIsTheLastOutcome, Transient
  <2> QED
    BY <2>1, <2>2, <2>3 DEF CompletionInv, Transient
<1>8. CASE Summarize
  <2>1. PICK t \in Texts : text' = t /\ summary' = Summary(t, MaxChars)
    BY <1>8 DEF Summarize
  <2>2. /\ phase = "returned" /\ phase' = "summarized"
        /\ UNCHANGED <<provider, tries, over, log, result, used, returned>>
    BY <1>8 DEF Summarize
  <2>3. TypeOK'
    BY <1>0, <2>1, <2>2, SummaryType DEF TypeOK
  <2>4. LogMatchesTries' /\ ResultIsTheLastOutcome'
    BY <1>0, <2>2 DEF LogMatchesTries, ResultIsTheLastOutcome, Transient
  <2>5. text' \in Texts /\ summary' = Summary(text', MaxChars)
    BY <2>1
  <2>6. \A i \in DOMAIN log' : Transient(log'[i]) \/ i = Len(log')
    BY <2>2 DEF CompletionInv
  <2>7. (\A i \in DOMAIN log : Transient(log[i]) \/ i = Len(log))'
    BY <2>6 DEF Transient
  <2> QED
    BY <2>2, <2>3, <2>4, <2>5, <2>7 DEF CompletionInv
<1>9. CASE Done \/ UNCHANGED vars
  <2>1. UNCHANGED <<provider, phase, tries, over, log, result, used, returned, text, summary>>
    BY <1>9 DEF Done, vars, post
  <2>2. TypeOK' /\ LogMatchesTries' /\ ResultIsTheLastOutcome'
    BY <1>0, <2>1 DEF TypeOK, LogMatchesTries, ResultIsTheLastOutcome, Transient
  <2> QED
    BY <2>1, <2>2 DEF CompletionInv, Transient
<1> QED
  BY <1>1, <1>2, <1>3, <1>4, <1>5, <1>6, <1>7, <1>8, <1>9 DEF Next

\* Whatever the provider answers and whenever the context is over: until Complete
\* returns, every outcome was worth a retry and cost no tokens, no request goes
\* beyond the budget, and a summary is what PostProcess makes of the text.
THEOREM CompletionInvariant == Spec => []CompletionInv
<1>1. Init => CompletionInv
  <2> SUFFICES ASSUME Init PROVE CompletionInv
    OBVIOUS
  <2>1. /\ provider \in Providers /\ phase = "ready" /\ tries = 0 /\ over = FALSE
        /\ log = <<>> /\ result = "none" /\ used = 0 /\ returned = 0
        /\ text = <<>> /\ summary = <<>>
    BY DEF Init
  <2>2. <<>> \in Seq(Tokens) /\ <<>> \in Seq(Tokens \cup {Ellipsis}) /\ <<>> \in Seq({OK} \cup Errors)
    BY EmptySeq
  <2>3. 0 \in 0 .. Attempts /\ 0 < Attempts
    BY CompletionAssumption
  <2>4. TypeOK
    BY <2>1, <2>2, <2>3 DEF TypeOK
  <2>5. Len(log) = 0 /\ DOMAIN log = {}
    BY <2>1
  <2> QED
    BY <2>1, <2>3, <2>4, <2>5 DEF CompletionInv, LogMatchesTries, ResultIsTheLastOutcome
<1> QED
  BY <1>1, CompletionStep, PTL DEF Spec

\* Only rate limits and unavailability lead to another request (retrier.Complete).
THEOREM OnlyTransientOutcomesAreRetried == Spec => []OnlyTransientIsRetried
<1>1. CompletionInv => OnlyTransientIsRetried
  <2> SUFFICES ASSUME CompletionInv, NEW i \in 1 .. tries - 1
               PROVE  Transient(log[i])
    BY DEF OnlyTransientIsRetried, Transient
  <2>1. TypeOK /\ LogMatchesTries
    BY DEF CompletionInv
  <2>2. tries \in Nat /\ Len(log) \in {tries, tries - 1} /\ (phase # "asking" => Len(log) = tries)
    BY <2>1 DEF TypeOK, LogMatchesTries
  <2>3. DOMAIN log = 1 .. Len(log)
    BY <2>1, LenProperties DEF TypeOK
  <2>4. i \in 1 .. Len(log)
    <3>1. i \in Int /\ i >= 1 /\ i <= tries - 1
      BY <2>2
    <3> QED
      BY <2>2, <3>1
  <2>5. phase \in {"returned", "summarized"} => i # Len(log)
    BY <2>2
  <2> QED
    BY <2>3, <2>4, <2>5 DEF CompletionInv
<1> QED
  BY <1>1, CompletionInvariant, PTL

\* What Complete returns is the outcome of the last request, or the context's
\* error after one that could have been retried; tokens come with a success only.
THEOREM TheLastOutcomeIsReturned == Spec => []ResultIsTheLastOutcome
<1>1. CompletionInv => ResultIsTheLastOutcome
  BY DEF CompletionInv
<1> QED
  BY <1>1, CompletionInvariant, PTL

\* Reasoning between tags that are not nested, an orphaned closing tag and what is
\* before it never change a summary (PostProcess, thinkRe and strings.LastIndex).
THEOREM ReasoningIsIgnored == Spec => []ReasoningHasNoSay
<1>1. CompletionInv => ReasoningHasNoSay
  <2> SUFFICES ASSUME CompletionInv, phase = "summarized", Flat(text)
               PROVE  summary = Summary(Answer(text), MaxChars)
    BY DEF ReasoningHasNoSay
  <2>1. text \in Texts /\ summary = Summary(text, MaxChars)
    BY DEF CompletionInv
  <2>2. text \in Seq(Tokens)
    BY <2>1, CompletionAssumption
  <2>3. Summary(text, MaxChars) = Summary(Answer(text), MaxChars)
    BY <2>2, ReasoningIsGone
  <2> QED
    BY <2>1, <2>3
<1> QED
  BY <1>1, CompletionInvariant, PTL

\* A wrapped answer comes out bare, in every kind of wrapping the run looks at.
THEOREM WrappedAnswersAreBare == Spec => []WrappingIsStripped
<1>1. CompletionInv => WrappingIsStripped
  <2> SUFFICES ASSUME CompletionInv, phase = "summarized", Bare(text),
                      NEW r \in {<<>>, <<Close>>, <<Letter, Close, Newline>>, <<Open, Letter, Close>>},
                      NEW f \in {<<>>, <<Fence>>, <<Fence, Letter>>},
                      NEW p \in {<<>>, <<Preamble, Space>>}
               PROVE  Summary(Wrapped(r, f, p, text), MaxChars) = summary
    BY DEF WrappingIsStripped
  <2>1. text \in Texts /\ summary = Summary(text, MaxChars)
    BY DEF CompletionInv
  <2>2. text \in Seq(Tokens)
    BY <2>1, CompletionAssumption
  <2>3. \A i \in 1 .. Len(text) : text[i] \in {Letter, Space}
    BY <2>2, LenProperties DEF Bare
  <2>4. Clean(Wrapped(r, f, p, text)) = TrimSpace(text)
    BY <2>2, <2>3, WrappingGoes
  <2>5. Clean(text) = TrimSpace(text)
    <3> DEFINE e == <<>>
    <3>1. Clean(Wrapped(e, e, e, text)) = TrimSpace(text)
      <4>1. /\ e \in {<<>>, <<Close>>, <<Letter, Close, Newline>>, <<Open, Letter, Close>>}
            /\ e \in {<<>>, <<Fence>>, <<Fence, Letter>>} /\ e \in {<<>>, <<Preamble, Space>>}
        OBVIOUS
      <4> HIDE DEF e
      <4> QED
        BY <2>2, <2>3, <4>1, WrappingGoes
    <3>2. Wrapped(e, e, e, text) = text
      <4>1. e \o text = text
        BY <2>2, ConcatEmptySeq
      <4>2. Wrapped(e, e, e, text) = e \o (e \o text)
        BY DEF Wrapped
      <4> QED
        BY <4>1, <4>2
    <3> QED
      BY <3>1, <3>2
  <2> QED
    BY <2>1, <2>4, <2>5, Zenon DEF Summary
<1> QED
  BY <1>1, CompletionInvariant, PTL

\* Whatever the model writes and wherever the cap is: a capped summary ends before a
\* blank of the clean text, or at the limit when there is none in the second half
\* up to there (PostProcess).
THEOREM TheCutIsAtABlankOrTheLimit == Spec => []CutIsAtABlankOrTheLimit
<1>1. CompletionInv => CutIsAtABlankOrTheLimit
  <2> SUFFICES ASSUME CompletionInv, phase = "summarized", summary # Clean(text)
               PROVE  \E k \in 0 .. MaxChars :
                        /\ k < Len(Clean(text))
                        /\ summary = SubSeq(Clean(text), 1, k) \o <<Ellipsis>>
                        /\ \/ Clean(text)[k + 1] \in Blank
                           \/ /\ k = MaxChars
                              /\ \A i \in MaxChars \div 2 + 2 .. MaxChars : Clean(text)[i] \notin Blank
    BY DEF CutIsAtABlankOrTheLimit
  <2>1. text \in Seq(Tokens) /\ MaxChars \in Int
    BY CompletionAssumption DEF CompletionInv
  <2>2. summary = Capped(Clean(text), MaxChars)
    BY DEF CompletionInv, Summary
  <2> DEFINE clean == Clean(text)
  <2>3. clean \in Seq(Tokens) /\ (clean # <<>> => clean[1] \notin Blank)
    BY <2>1, CleanType
  <2> HIDE DEF clean
  <2>4. Capped(clean, MaxChars) # clean
    BY <2>2 DEF clean
  <2>5. \E k \in 0 .. MaxChars :
          /\ k < Len(clean) /\ Capped(clean, MaxChars) = SubSeq(clean, 1, k) \o <<Ellipsis>>
          /\ \/ clean[k + 1] \in Blank
             \/ k = MaxChars /\ \A i \in MaxChars \div 2 + 2 .. MaxChars : clean[i] \notin Blank
    BY <2>1, <2>3, <2>4, CappedIsAtABlankOrTheLimit
  <2> QED
    BY <2>2, <2>5, Zenon DEF clean
<1> QED
  BY <1>1, CompletionInvariant, PTL
=============================================================================
