---------------------------- MODULE CollectProofs ---------------------------
(***************************************************************************)
(* Theorems about Collect, for every source, every behaviour of its        *)
(* endpoints and every length of their messages.                           *)
(***************************************************************************)
EXTENDS Collect, SequenceTheorems, WellFoundedInduction, TLAPS

-----------------------------------------------------------------------------
(* Adding up.                                                               *)

\* Counting from zero in steps of one passes every number.
LEMMA CountingUp ==
  ASSUME NEW n \in Nat, NEW T, 0 \in T, \A i \in 1 .. n : i - 1 \in T => i \in T
  PROVE  0 .. n \subseteq T
<1> DEFINE L == {i \in 0 .. n : i \notin T}
           R == OpToRel(<, Nat)
<1> SUFFICES ASSUME L # {} PROVE FALSE
  OBVIOUS
<1>1. L \subseteq Nat
  OBVIOUS
<1>2. IsWellFoundedOn(R, Nat)
  BY NatLessThanWellFounded
<1>3. R = {ss \in Nat \X Nat : ss[1] < ss[2]}
  BY DEF OpToRel
<1> HIDE DEF R
<1>4. PICK x \in L : \A y \in L : ~(<<y, x>> \in R)
  <2> HIDE DEF L
  <2> QED
    BY <1>1, <1>2, WFMin, Zenon
<1>5. x \in 1 .. n /\ x - 1 \notin T
  OBVIOUS
<1>6. x - 1 \in L /\ x - 1 \in Nat /\ x \in Nat
  BY <1>5
<1>7. <<x - 1, x>> \in Nat \X Nat /\ <<x - 1, x>>[1] < <<x - 1, x>>[2]
  BY <1>6
<1> QED
  BY <1>3, <1>4, <1>6, <1>7

\* The sums of a list of integers exist and are what their name says.
LEMMA SumsStep ==
  ASSUME NEW g \in Seq(Int)
  PROVE  /\ Sums(g) \in [0 .. Len(g) -> Int]
         /\ Sums(g)[0] = 0
         /\ \A n \in 1 .. Len(g) : Sums(g)[n] = Sums(g)[n - 1] + g[n]
<1> DEFINE Good(f, m) ==
             f[0] = 0 /\ \A n \in 1 .. m : f[n] = f[n - 1] + g[n]
           T == {m \in Nat : \E f \in [0 .. m -> Int] : Good(f, m)}
           N == Len(g)
<1>0. N \in Nat /\ \A n \in 1 .. N : g[n] \in Int
  OBVIOUS
<1>1. 0 \in T
  <2>1. [n \in 0 .. 0 |-> 0] \in [0 .. 0 -> Int] /\ Good([n \in 0 .. 0 |-> 0], 0)
    OBVIOUS
  <2> QED
    BY <2>1
<1>2. ASSUME NEW i \in 1 .. N, i - 1 \in T
      PROVE  i \in T
  <2>1. PICK f \in [0 .. i - 1 -> Int] : Good(f, i - 1)
    BY <1>2
  <2> DEFINE h == [n \in 0 .. i |-> IF n = i THEN f[i - 1] + g[i] ELSE f[n]]
  <2>2. i \in Nat /\ i >= 1 /\ g[i] \in Int /\ f[i - 1] \in Int
    BY <1>0
  <2>3. h \in [0 .. i -> Int]
    BY <2>2
  <2>4. h[0] = 0
    BY <2>1, <2>2
  <2>5. ASSUME NEW n \in 1 .. i
        PROVE  h[n] = h[n - 1] + g[n]
    <3>1. CASE n = i
      <4>1. h[n] = f[i - 1] + g[i] /\ h[n - 1] = f[i - 1]
        BY <2>2, <3>1
      <4> QED
        BY <4>1, <3>1
    <3>2. CASE n # i
      <4>1. n \in 1 .. i - 1 /\ h[n] = f[n] /\ h[n - 1] = f[n - 1]
        BY <2>2, <3>2
      <4> QED
        BY <2>1, <4>1
    <3> QED
      BY <3>1, <3>2
  <2> QED
    BY <2>2, <2>3, <2>4, <2>5
<1>3. N \in T
  <2>1. 0 .. N \subseteq T
    <3> HIDE DEF T, N
    <3> QED
      BY <1>0, <1>1, <1>2, CountingUp
  <2>2. N \in 0 .. N
    BY <1>0
  <2> HIDE DEF T, N
  <2> QED
    BY <2>1, <2>2
<1>4. PICK f \in [0 .. N -> Int] : Good(f, N)
  BY <1>3
<1> DEFINE Eq(t) == t = [n \in 0 .. N |-> IF n = 0 THEN 0 ELSE t[n - 1] + g[n]]
<1>5. Eq(f)
  BY <1>0, <1>4
<1>6. Sums(g) = CHOOSE t : Eq(t)
  BY DEF Sums
<1>7. Eq(Sums(g))
  <2> HIDE DEF Eq
  <2> QED
    BY <1>5, <1>6, Zenon
<1>8. Sums(g)[0] = 0 /\ \A n \in 1 .. N : Sums(g)[n] = Sums(g)[n - 1] + g[n]
  <2> DEFINE t == Sums(g)
  <2> HIDE DEF t, N
  <2>1. t = [n \in 0 .. N |-> IF n = 0 THEN 0 ELSE t[n - 1] + g[n]]
    BY <1>7 DEF t, N
  <2>2. t[0] = 0 /\ \A n \in 1 .. N : t[n] = t[n - 1] + g[n]
    BY <1>0, <2>1
  <2> QED
    BY <2>2 DEF t
<1>9. \A n \in 0 .. N : Sums(g)[n] \in Int
  <2> DEFINE S == {n \in 0 .. N : Sums(g)[n] \in Int}
  <2>1. 0 \in S
    BY <1>0, <1>8
  <2>2. \A i \in 1 .. N : i - 1 \in S => i \in S
    BY <1>0, <1>8
  <2>3. 0 .. N \subseteq S
    <3> HIDE DEF S, N
    <3> QED
      BY <1>0, <2>1, <2>2, CountingUp
  <2> QED
    BY <2>3
<1> QED
  BY <1>7, <1>8, <1>9

\* Sums of values that are at least zero never fall, and grow by the values.
LEMMA SumsRise ==
  ASSUME NEW g \in Seq(Nat)
  PROVE  /\ Sums(g) \in [0 .. Len(g) -> Nat]
         /\ \A i, j \in 0 .. Len(g) : i <= j => Sums(g)[i] <= Sums(g)[j]
<1> DEFINE t == Sums(g)
           N == Len(g)
<1>1. g \in Seq(Int) /\ N \in Nat /\ \A n \in 1 .. N : g[n] \in Nat
  OBVIOUS
<1>2. t \in [0 .. N -> Int] /\ t[0] = 0 /\ \A n \in 1 .. N : t[n] = t[n - 1] + g[n]
  BY <1>1, SumsStep
<1> HIDE DEF t, N
<1>3. \A i \in 0 .. N : \A j \in 0 .. N : i <= j => t[i] <= t[j]
  <2> DEFINE S == {j \in 0 .. N : \A i \in 0 .. N : i <= j => t[i] <= t[j]}
  <2>1. 0 \in S
    BY <1>1, <1>2
  <2>2. ASSUME NEW j \in 1 .. N, j - 1 \in S
        PROVE  j \in S
    <3>1. ASSUME NEW i \in 0 .. N, i <= j PROVE t[i] <= t[j]
      <4>1. t[j] \in Int /\ t[j - 1] \in Int /\ t[i] \in Int /\ g[j] \in Nat
        BY <1>1, <1>2
      <4>2. t[j] = t[j - 1] + g[j]
        BY <1>2
      <4>3. CASE i = j
        BY <4>1, <4>3
      <4>4. CASE i # j
        <5>1. i <= j - 1
          BY <3>1, <4>4, <1>1
        <5>2. t[i] <= t[j - 1]
          BY <2>2, <5>1
        <5> QED
          BY <4>1, <4>2, <5>2
      <4> QED
        BY <4>3, <4>4
    <3> QED
      BY <1>1, <3>1
  <2>3. 0 .. N \subseteq S
    <3> HIDE DEF S
    <3> QED
      BY <1>1, <2>1, <2>2, CountingUp
  <2> QED
    BY <2>3
<1>4. \A i \in 0 .. N : t[i] \in Nat
  <2>1. \A i \in 0 .. N : 0 \in 0 .. N /\ 0 <= i /\ t[i] \in Int
    BY <1>1, <1>2
  <2> QED
    BY <1>2, <1>3, <2>1
<1> QED
  BY <1>2, <1>3, <1>4 DEF t, N

\* Values that are at most b add up to at most b each.
LEMMA SumsBounded ==
  ASSUME NEW g \in Seq(Nat), NEW b \in Nat, \A i \in 1 .. Len(g) : g[i] <= b
  PROVE  \A i \in 0 .. Len(g) : Sums(g)[i] <= i * b
<1> DEFINE t == Sums(g)
           N == Len(g)
           S == {i \in 0 .. N : t[i] <= i * b}
<1>1. g \in Seq(Int) /\ N \in Nat /\ \A n \in 1 .. N : g[n] \in Nat /\ g[n] <= b
  OBVIOUS
<1>2. t \in [0 .. N -> Nat] /\ t[0] = 0 /\ \A n \in 1 .. N : t[n] = t[n - 1] + g[n]
  BY <1>1, SumsStep, SumsRise
<1> HIDE DEF t, N
<1>3. 0 \in S
  BY <1>1, <1>2
<1>4. ASSUME NEW i \in 1 .. N, i - 1 \in S
      PROVE  i \in S
  <2>1. t[i] = t[i - 1] + g[i] /\ t[i - 1] <= (i - 1) * b /\ g[i] <= b
    BY <1>1, <1>2, <1>4
  <2>2. (i - 1) * b + b = i * b /\ (i - 1) * b \in Int /\ i * b \in Int
    BY <1>1
  <2>3. t[i - 1] \in Nat /\ g[i] \in Nat /\ t[i] \in Nat
    BY <1>1, <1>2
  <2>4. t[i] <= i * b
    BY <2>1, <2>2, <2>3
  <2> QED
    BY <2>4
<1>5. 0 .. N \subseteq S
  <2> HIDE DEF S
  <2> QED
    BY <1>1, <1>3, <1>4, CountingUp
<1> QED
  BY <1>5 DEF t, N

-----------------------------------------------------------------------------
(* The line of errors.                                                      *)

\* The smaller and the larger of two integers are one of them and bound both.
LEMMA LeastGreatest ==
  \A a, b \in Int : /\ Least(a, b) \in Int /\ Least(a, b) <= a /\ Least(a, b) <= b
                    /\ Least(a, b) = a \/ Least(a, b) = b
                    /\ Greatest(a, b) \in Int /\ Greatest(a, b) >= a /\ Greatest(a, b) >= b
                    /\ Greatest(a, b) = a \/ Greatest(a, b) = b
BY DEF Least, Greatest

\* A share leaves room for the head of a message and its ellipsis, and up to
\* eleven shares fit the line.
LEMMA Shares ==
  ASSUME NEW n \in Nat \ {0}
  PROVE  /\ Budget(n) \in minQueryMessage .. maxQueryMessage
         /\ n <= 11 => n * Budget(n) + (n - 1) * sep <= maxQueryErrors
<1> DEFINE even == (maxQueryErrors - (n - 1) * sep) \div n
<1>1. even \in Int
  BY DEF sep, maxQueryErrors
<1>2. Budget(n) = Least(Greatest(even, minQueryMessage), maxQueryMessage)
  BY DEF Budget
<1>3. Budget(n) \in minQueryMessage .. maxQueryMessage
  <2> HIDE DEF even
  <2> QED
    BY <1>1, <1>2 DEF Least, Greatest, minQueryMessage, maxQueryMessage
<1>4. ASSUME n <= 11
      PROVE  n * Budget(n) + (n - 1) * sep <= maxQueryErrors
  <2>1. n \in 1 .. 11
    BY <1>4
  <2>2. n * even + (n - 1) * sep <= maxQueryErrors /\ even >= minQueryMessage
    <3>1. n = 1 \/ n = 2 \/ n = 3 \/ n = 4 \/ n = 5 \/ n = 6 \/ n = 7 \/ n = 8 \/ n = 9 \/ n = 10 \/ n = 11
      BY <2>1
    <3> QED
      BY <3>1 DEF sep, maxQueryErrors, minQueryMessage
  <2>3. Budget(n) <= even /\ Budget(n) \in Int
    <3> HIDE DEF even
    <3> QED
      BY <1>1, <1>2, <2>2 DEF Least, Greatest, minQueryMessage, maxQueryMessage
  <2>4. n * Budget(n) <= n * even
    <3> HIDE DEF even
    <3>1. n = 1 \/ n = 2 \/ n = 3 \/ n = 4 \/ n = 5 \/ n = 6 \/ n = 7 \/ n = 8 \/ n = 9 \/ n = 10 \/ n = 11
      BY <2>1
    <3> QED
      BY <1>1, <2>3, <3>1
  <2>5. n * Budget(n) \in Int /\ n * even \in Int /\ (n - 1) * sep \in Int
    BY <1>1, <2>3 DEF sep
  <2> HIDE DEF even
  <2> QED
    BY <2>2, <2>4, <2>5 DEF maxQueryErrors
<1> QED
  BY <1>3, <1>4

\* What the excerpts of the messages add up to.
LEMMA Excerpts ==
  ASSUME NEW errs \in Seq([n : Nat, bytes : Nat]), Len(errs) > 0,
         NEW g, g = [i \in 1 .. Len(errs) |-> Least(errs[i].bytes, Budget(Len(errs)))]
  PROVE  /\ g \in Seq(Nat) /\ Len(g) = Len(errs)
         /\ \A i \in 1 .. Len(errs) : /\ errs[i].bytes \in Nat /\ errs[i].n \in Nat
                                      /\ g[i] = Least(errs[i].bytes, Budget(Len(errs)))
                                      /\ g[i] <= Budget(Len(errs))
<1> DEFINE n == Len(errs)
           b == Budget(n)
<1>1. n \in Nat \ {0} /\ \A i \in 1 .. n : errs[i].bytes \in Nat /\ errs[i].n \in Nat
  <2>1. n \in Nat \ {0}
    BY LenProperties
  <2>2. \A i \in 1 .. n : errs[i] \in [n : Nat, bytes : Nat]
    BY ElementOfSeq
  <2> HIDE DEF n
  <2> QED
    BY <2>1, <2>2
<1>2. b \in Nat
  <2> HIDE DEF n
  <2>1. b \in minQueryMessage .. maxQueryMessage
    BY <1>1, Shares
  <2> HIDE DEF b
  <2> QED
    BY <2>1 DEF minQueryMessage, maxQueryMessage
<1> HIDE DEF b, n
<1>3. \A i \in 1 .. n : Least(errs[i].bytes, b) \in Nat /\ Least(errs[i].bytes, b) <= b
  BY <1>1, <1>2 DEF Least
<1>4. g = [i \in 1 .. n |-> Least(errs[i].bytes, b)]
  BY DEF b, n
<1> QED
  BY <1>1, <1>3, <1>4 DEF b, n

\* The error of a source counts all its losses and is no longer than its limit.
LEMMA QueryErrorsType ==
  ASSUME NEW total \in Nat, NEW errs \in Seq([n : Nat, bytes : Nat])
  PROVE  /\ QueryErrors(total, errs).failed = Len(errs)
         /\ QueryErrors(total, errs) \in
              [failed : Nat, total : Nat, bytes : 0 .. maxQueryErrors, named : SUBSET Nat]
<1> DEFINE n == Len(errs)
           g == [i \in 1 .. n |-> Least(errs[i].bytes, Budget(n))]
           Start(i) == Sums(g)[i - 1] + (i - 1) * sep
           line == Start(n) + g[n]
           Named(i) == /\ HeadBytes <= Kept(errs[i].bytes, Budget(n))
                       /\ Start(i) + HeadBytes <= Kept(line, maxQueryErrors)
<1>1. CASE n = 0
  BY <1>1 DEF QueryErrors, NoError, maxQueryErrors
<1>2. CASE n # 0
  <2>1. QueryErrors(total, errs) =
          [failed |-> n, total |-> total, bytes |-> Least(line, maxQueryErrors),
           named |-> {errs[i].n : i \in {i \in 1 .. n : Named(i)}}]
    BY <1>2 DEF QueryErrors
  <2>2. n \in Nat \ {0}
    BY <1>2
  <2>3. g \in Seq(Nat) /\ Len(g) = n /\ \A i \in 1 .. n : errs[i].n \in Nat
    <3> HIDE DEF g
    <3>1. g = [i \in 1 .. Len(errs) |-> Least(errs[i].bytes, Budget(Len(errs)))]
      BY DEF g
    <3>2. Len(errs) > 0
      BY <2>2
    <3> QED
      BY <2>2, <3>1, <3>2, Excerpts
  <2> HIDE DEF g
  <2> HIDE DEF n
  <2>4. Sums(g)[n - 1] \in Nat /\ g[n] \in Nat
    <3>1. n - 1 \in 0 .. n /\ n \in 1 .. n
      BY <2>2
    <3>2. Sums(g) \in [0 .. n -> Nat]
      BY <2>3, SumsRise
    <3> QED
      BY <2>3, <3>1, <3>2
  <2>5. line \in Nat
    BY <2>2, <2>4 DEF sep
  <2>6. Least(line, maxQueryErrors) \in 0 .. maxQueryErrors
    <3> HIDE DEF line
    <3> QED
      BY <2>5 DEF Least, maxQueryErrors
  <2>7. {errs[i].n : i \in {i \in 1 .. n : Named(i)}} \in SUBSET Nat
    <3> HIDE DEF Named
    <3> QED
      BY <2>3
  <2> HIDE DEF line, Named
  <2>8. QueryErrors(total, errs).failed = n
    BY <2>1
  <2>9. QueryErrors(total, errs) \in
          [failed : Nat, total : Nat, bytes : 0 .. maxQueryErrors, named : SUBSET Nat]
    BY <2>1, <2>2, <2>6, <2>7
  <2> QED
    BY <2>8, <2>9 DEF n
<1> QED
  BY <1>1, <1>2

\* The error counts what failed, out of all, and names nothing else.
LEMMA ErrorSays ==
  ASSUME NEW total \in Nat, NEW errs \in Seq([n : Nat, bytes : Nat])
  PROVE  /\ QueryErrors(total, errs).failed = Len(errs)
         /\ QueryErrors(total, errs).total = (IF errs = <<>> THEN 0 ELSE total)
         /\ QueryErrors(total, errs).named \subseteq {errs[i].n : i \in DOMAIN errs}
<1> DEFINE n == Len(errs)
           g == [i \in 1 .. n |-> Least(errs[i].bytes, Budget(n))]
           Start(i) == Sums(g)[i - 1] + (i - 1) * sep
           line == Start(n) + g[n]
           Named(i) == /\ HeadBytes <= Kept(errs[i].bytes, Budget(n))
                       /\ Start(i) + HeadBytes <= Kept(line, maxQueryErrors)
           L == {errs[i].n : i \in {i \in 1 .. n : Named(i)}}
<1>1. n \in Nat /\ DOMAIN errs = 1 .. n /\ (errs = <<>> <=> n = 0)
  OBVIOUS
<1>2. CASE n = 0
  BY <1>1, <1>2 DEF QueryErrors, NoError
<1>3. CASE n # 0
  <2>1. QueryErrors(total, errs) =
          [failed |-> n, total |-> total, bytes |-> Least(line, maxQueryErrors), named |-> L]
    BY <1>3 DEF QueryErrors
  <2> HIDE DEF Named, line
  <2>2. L \subseteq {errs[i].n : i \in DOMAIN errs}
    BY <1>1
  <2> HIDE DEF L
  <2> QED
    BY <1>1, <1>3, <2>1, <2>2
<1> QED
  BY <1>2, <1>3

\* As many excerpts as fit the line, one behind the other.
LEMMA LineHolds ==
  ASSUME NEW n \in 1 .. 11, NEW g \in Seq(Nat), Len(g) = n, NEW b \in Nat
  PROVE  /\ (\A i \in 1 .. n : g[i] <= b) /\ n * b + (n - 1) * 3 <= 800
              => Sums(g)[n - 1] + (n - 1) * 3 + g[n] \in 0 .. 800
         /\ \A i \in 1 .. n : Sums(g)[i - 1] + (i - 1) * 3 + g[i] <= Sums(g)[n - 1] + (n - 1) * 3 + g[n]
<1> DEFINE t == Sums(g)
<1>1. g \in Seq(Int) /\ (\A i \in 1 .. n : g[i] \in Nat) /\ n \in 1 .. n /\ n \in 0 .. n
  OBVIOUS
<1>2. /\ t \in [0 .. n -> Nat] /\ \A i, j \in 0 .. n : i <= j => t[i] <= t[j]
      /\ \A i \in 1 .. n : t[i] = t[i - 1] + g[i]
  BY <1>1, SumsStep, SumsRise
<1>3. (\A i \in 1 .. n : g[i] <= b) => t[n] <= n * b
  <2> SUFFICES ASSUME \A i \in 1 .. n : g[i] <= b PROVE t[n] <= n * b
    OBVIOUS
  <2>1. \A i \in 0 .. Len(g) : t[i] <= i * b
    BY <1>1, SumsBounded
  <2> QED
    BY <1>1, <2>1
<1> HIDE DEF t
<1>4. \A i \in 0 .. n : t[i] \in Nat
  BY <1>2
<1>5. t[n] = t[n - 1] + g[n] /\ t[n] \in Nat /\ t[n - 1] \in Nat /\ g[n] \in Nat
  BY <1>1, <1>2, <1>4
<1>6. ASSUME \A i \in 1 .. n : g[i] <= b, n * b + (n - 1) * 3 <= 800
      PROVE  t[n - 1] + (n - 1) * 3 + g[n] \in 0 .. 800
  <2>1. t[n] + (n - 1) * 3 <= n * b + (n - 1) * 3
    <3>1. n * b \in Int
      OBVIOUS
    <3> QED
      BY <1>3, <1>5, <1>6, <3>1
  <2>2. t[n] + (n - 1) * 3 <= 800
    <3>1. n * b \in Int
      OBVIOUS
    <3> QED
      BY <1>5, <1>6, <2>1, <3>1
  <2>3. (n - 1) * 3 \in Nat
    OBVIOUS
  <2> DEFINE x == t[n - 1]
             y == g[n]
             z == (n - 1) * 3
  <2>4. t[n] = x + y /\ x \in Nat /\ y \in Nat /\ z \in Nat /\ t[n] + z <= 800
    BY <1>5, <2>2, <2>3
  <2> HIDE DEF x, y, z
  <2>5. x + z + y \in 0 .. 800
    BY <2>4
  <2> QED
    BY <2>5 DEF x, y, z
<1>7. ASSUME NEW i \in 1 .. n
      PROVE  t[i - 1] + (i - 1) * 3 + g[i] <= t[n - 1] + (n - 1) * 3 + g[n]
  <2>1. t[i] = t[i - 1] + g[i] /\ t[i] <= t[n] /\ t[i - 1] \in Nat /\ g[i] \in Nat /\ t[i] \in Nat
    <3>1. i \in 0 .. n /\ i - 1 \in 0 .. n /\ i <= n
      OBVIOUS
    <3> QED
      BY <1>1, <1>2, <1>4, <3>1
  <2>2. (i - 1) * 3 <= (n - 1) * 3 /\ (i - 1) * 3 \in Nat /\ (n - 1) * 3 \in Nat
    OBVIOUS
  <2> DEFINE x == t[i - 1]
             y == g[i]
             z == (i - 1) * 3
             u == t[n - 1]
             v == g[n]
             w == (n - 1) * 3
  <2>3. /\ x \in Nat /\ y \in Nat /\ z \in Nat /\ u \in Nat /\ v \in Nat /\ w \in Nat
        /\ x + y <= u + v /\ z <= w
    BY <1>5, <2>1, <2>2
  <2> HIDE DEF x, y, z, u, v, w
  <2>4. x + z + y <= u + w + v
    BY <2>3
  <2> QED
    BY <2>4 DEF x, y, z, u, v, w
<1> QED
  BY <1>6, <1>7 DEF t

\* A message that has its head keeps it in its share.
LEMMA HeadIsKept ==
  ASSUME NEW m \in Nat, NEW b \in Nat, b >= 64, HeadBytes <= m
  PROVE  /\ HeadBytes <= Kept(m, b)
         /\ Least(m, b) \in Nat /\ HeadBytes <= Least(m, b) /\ Least(m, b) <= b
<1>1. HeadBytes \in 1 .. 60
  BY CollectAssumption
<1> QED
  BY <1>1 DEF Kept, Least, ellipsis

\* Up to eleven messages that have their heads are all named.
LEMMA AllAreNamed ==
  ASSUME NEW total \in Nat, NEW errs \in Seq([n : Nat, bytes : Nat])
  PROVE  Len(errs) <= 11 /\ (\A i \in DOMAIN errs : errs[i].bytes >= HeadBytes)
           => QueryErrors(total, errs).named = {errs[i].n : i \in DOMAIN errs}
<1> DEFINE n == Len(errs)
           b == Budget(n)
           g == [i \in 1 .. n |-> Least(errs[i].bytes, b)]
           Start(i) == Sums(g)[i - 1] + (i - 1) * sep
           line == Start(n) + g[n]
           Named(i) == /\ HeadBytes <= Kept(errs[i].bytes, b)
                       /\ Start(i) + HeadBytes <= Kept(line, maxQueryErrors)
<1>0. n \in Nat /\ DOMAIN errs = 1 .. n
  BY LenProperties
<1>1. CASE n = 0
  <2>1. DOMAIN errs = {}
    BY <1>0, <1>1
  <2>2. QueryErrors(total, errs).named = {}
    BY <1>1 DEF QueryErrors, NoError
  <2> QED
    BY <2>1, <2>2
<1>a. n # 0 /\ n <= 11 => n \in 1 .. 11
  <2> HIDE DEF n
  <2> QED
    BY <1>0
<1>2. ASSUME n # 0, n <= 11, \A i \in 1 .. n : errs[i].bytes >= HeadBytes
      PROVE  QueryErrors(total, errs).named = {errs[i].n : i \in 1 .. n}
  <2>1. QueryErrors(total, errs).named = {errs[i].n : i \in {i \in 1 .. n : Named(i)}}
    BY <1>2 DEF QueryErrors
  <2>2. n \in 1 .. 11
    BY <1>a, <1>2, Zenon
  <2>3. \A i \in 1 .. n : errs[i].bytes \in Nat /\ HeadBytes <= errs[i].bytes
    <3>1. \A i \in 1 .. n : errs[i] \in [n : Nat, bytes : Nat]
      BY <1>0, ElementOfSeq
    <3>2. HeadBytes \in Int
      BY CollectAssumption
    <3> HIDE DEF n
    <3> QED
      BY <1>2, <3>1, <3>2
  <2>4. b \in Nat /\ b >= 64 /\ n * b + (n - 1) * 3 <= 800
    <3> HIDE DEF n
    <3>1. b \in minQueryMessage .. maxQueryMessage /\ n * b + (n - 1) * sep <= maxQueryErrors
      BY <2>2, Shares
    <3> HIDE DEF b
    <3> QED
      BY <3>1 DEF minQueryMessage, maxQueryMessage, maxQueryErrors, sep
  <2>5. \A i \in 1 .. n : HeadBytes <= Kept(errs[i].bytes, b)
    <3> HIDE DEF n, b
    <3> QED
      BY <2>3, <2>4, HeadIsKept
  <2>6. /\ g \in Seq(Nat) /\ Len(g) = n
        /\ \A i \in 1 .. n : g[i] \in Nat /\ HeadBytes <= g[i] /\ g[i] <= b
    <3> HIDE DEF n, b
    <3>1. \A i \in 1 .. n : /\ Least(errs[i].bytes, b) \in Nat
                            /\ HeadBytes <= Least(errs[i].bytes, b) /\ Least(errs[i].bytes, b) <= b
      BY <2>3, <2>4, HeadIsKept
    <3> QED
      BY <2>2, <3>1
  <2>7. /\ line \in 0 .. 800
        /\ \A i \in 1 .. n : Start(i) + g[i] <= line
    <3> HIDE DEF n, b, g
    <3>1. /\ Sums(g)[n - 1] + (n - 1) * 3 + g[n] \in 0 .. 800
          /\ \A i \in 1 .. n : Sums(g)[i - 1] + (i - 1) * 3 + g[i] <= Sums(g)[n - 1] + (n - 1) * 3 + g[n]
      <4>1. b \in Nat /\ n * b + (n - 1) * 3 <= 800 /\ \A i \in 1 .. n : g[i] <= b
        BY <2>4, <2>6
      <4>2. g \in Seq(Nat) /\ Len(g) = n
        BY <2>6
      <4> QED
        BY <2>2, <4>1, <4>2, LineHolds, ZenonT(30)
    <3> QED
      BY <3>1 DEF sep
  <2>8. \A i \in 1 .. n : Start(i) \in Nat
    <3> HIDE DEF n, b, g
    <3>1. Sums(g) \in [0 .. n -> Nat]
      BY <2>6, SumsRise
    <3>2. \A i \in 1 .. n : i - 1 \in 0 .. n /\ (i - 1) * 3 \in Nat
      BY <2>2
    <3>3. \A i \in 1 .. n : Sums(g)[i - 1] \in Nat
      BY <3>1, <3>2
    <3> QED
      BY <3>2, <3>3 DEF sep
  <2>9. Kept(line, maxQueryErrors) = line
    <3> HIDE DEF line
    <3> QED
      BY <2>7 DEF Kept, maxQueryErrors
  <2>10. \A i \in 1 .. n : Named(i)
    <3>1. HeadBytes \in Int
      BY CollectAssumption
    <3> HIDE DEF n, b, g, Start, line
    <3>2. \A i \in 1 .. n : Start(i) + HeadBytes <= line
      <4> SUFFICES ASSUME NEW i \in 1 .. n PROVE Start(i) + HeadBytes <= line
        OBVIOUS
      <4>1. Start(i) \in Nat /\ g[i] \in Nat /\ HeadBytes <= g[i] /\ Start(i) + g[i] <= line
        BY <2>6, <2>7, <2>8
      <4>2. line \in Nat
        BY <2>7
      <4> QED
        BY <3>1, <4>1, <4>2
    <3> QED
      BY <2>5, <2>9, <3>2
  <2> HIDE DEF Named, n, b, g
  <2>11. {i \in 1 .. n : Named(i)} = 1 .. n
    BY <2>10
  <2> QED
    BY <2>1, <2>11
<1> HIDE DEF n
<1> QED
  BY <1>0, <1>1, <1>2 DEF n

-----------------------------------------------------------------------------
(* The count of a Prometheus result.                                        *)

Lasts(series) ==
  [s \in DOMAIN series |-> IF series[s] = <<>> THEN 0 ELSE series[s][Len(series[s])]]

\* The running sums of up to three numbers end at their total: the shapes into
\* which flatten's sources split a count.
LEMMA SumsOfFew ==
  ASSUME NEW g \in Seq(Int)
  PROVE  /\ Len(g) = 0 => Sums(g)[Len(g)] = 0
         /\ Len(g) = 1 => Sums(g)[Len(g)] = g[1]
         /\ Len(g) = 2 => Sums(g)[Len(g)] = g[1] + g[2]
         /\ Len(g) = 3 => Sums(g)[Len(g)] = g[1] + g[2] + g[3]
<1>1. /\ Sums(g)[0] = 0
      /\ \A n \in 1 .. Len(g) : Sums(g)[n] = Sums(g)[n - 1] + g[n] /\ g[n] \in Int
  BY SumsStep
<1> DEFINE t == Sums(g)
           n == Len(g)
<1>2. n >= 1 => t[1] = t[0] + g[1] /\ g[1] \in Int
  BY <1>1
<1>3. n >= 2 => t[2] = t[1] + g[2] /\ g[2] \in Int
  BY <1>1
<1>4. n >= 3 => t[3] = t[2] + g[3] /\ g[3] \in Int
  BY <1>1
<1>5. t[0] = 0
  BY <1>1
<1> HIDE DEF t, n
<1>6. n = 0 => t[n] = 0
  BY <1>5
<1>7. n = 1 => t[n] = g[1]
  BY <1>2, <1>5
<1>8. n = 2 => t[n] = g[1] + g[2]
  BY <1>2, <1>3, <1>5
<1>9. n = 3 => t[n] = g[1] + g[2] + g[3]
  BY <1>2, <1>3, <1>4, <1>5
<1> QED
  BY <1>6, <1>7, <1>8, <1>9 DEF t, n

\* However the count is split over the series, their last samples add up to it.
LEMMA SplitAddsUp ==
  ASSUME NEW c \in Nat, NEW series \in Split(c)
  PROVE  /\ series \in Seq(Seq(Int)) /\ Len(series) <= 2
         /\ \A i \in 1 .. Len(series) : Len(series[i]) = 1
         /\ Len(series) = 0 => c = 0
         /\ Len(series) = 1 => series[1][1] = 2 * c
         /\ Len(series) = 2 => series[1][1] + series[2][1] = 2 * c
<1>1. CASE c = 0
  <2>1. series = <<>> \/ series = <<<<0>>>>
    BY <1>1 DEF Split
  <2>2. CASE series = <<>>
    BY <1>1, <2>2
  <2>3. CASE series = <<<<0>>>>
    BY <1>1, <2>3
  <2> QED
    BY <2>1, <2>2, <2>3
<1>2. CASE c # 0
  <2>1. \/ series = <<<<2 * c>>>> \/ series = <<<<2 * c - 1>>, <<1>>>>
        \/ series = <<<<-1>>, <<2 * c + 1>>>>
    BY <1>2 DEF Split
  <2>2. CASE series = <<<<2 * c>>>>
    BY <1>2, <2>2
  <2>3. CASE series = <<<<2 * c - 1>>, <<1>>>>
    BY <1>2, <2>3
  <2>4. CASE series = <<<<-1>>, <<2 * c + 1>>>>
    BY <1>2, <2>4
  <2> QED
    BY <2>1, <2>2, <2>3, <2>4
<1> QED
  BY <1>1, <1>2

\* The last samples of the series of an instant query.
LEMMA InstantSum ==
  ASSUME NEW c \in Nat, NEW series \in Split(c)
  PROVE  Sums(Lasts(series))[Len(Lasts(series))] = 2 * c
<1> DEFINE g == Lasts(series)
<1>1. /\ series \in Seq(Seq(Int)) /\ Len(series) <= 2 /\ Len(series) \in Nat
      /\ DOMAIN series = 1 .. Len(series)
      /\ \A i \in 1 .. Len(series) : series[i] \in Seq(Int) /\ Len(series[i]) = 1
  BY SplitAddsUp
<1>2. \A i \in 1 .. Len(series) : series[i] # <<>> /\ series[i][Len(series[i])] = series[i][1]
                                  /\ series[i][1] \in Int
  BY <1>1
<1>3. g = [i \in 1 .. Len(series) |-> series[i][1]]
  BY <1>1, <1>2 DEF Lasts
<1>4. g \in Seq(Int) /\ Len(g) = Len(series) /\ \A i \in 1 .. Len(series) : g[i] = series[i][1]
  BY <1>1, <1>2, <1>3
<1> HIDE DEF g
<1>5. /\ Len(g) = 0 => Sums(g)[Len(g)] = 0
      /\ Len(g) = 1 => Sums(g)[Len(g)] = g[1]
      /\ Len(g) = 2 => Sums(g)[Len(g)] = g[1] + g[2]
  BY <1>4, SumsOfFew
<1>6. /\ Len(series) = 0 => c = 0
      /\ Len(series) = 1 => series[1][1] = 2 * c
      /\ Len(series) = 2 => series[1][1] + series[2][1] = 2 * c
  BY SplitAddsUp
<1>7. CASE Len(series) = 0
  BY <1>4, <1>5, <1>6, <1>7 DEF g
<1>8. CASE Len(series) = 1
  <2>1. g[1] = series[1][1]
    BY <1>4, <1>8
  <2> QED
    BY <2>1, <1>4, <1>5, <1>6, <1>8 DEF g
<1>9. CASE Len(series) = 2
  <2>1. g[1] = series[1][1] /\ g[2] = series[2][1]
    BY <1>4, <1>9
  <2> QED
    BY <2>1, <1>4, <1>5, <1>6, <1>9 DEF g
<1>10. Len(series) = 0 \/ Len(series) = 1 \/ Len(series) = 2
  <2>1. Len(series) \in Nat /\ Len(series) <= 2
    BY SplitAddsUp, LenProperties
  <2> DEFINE m == Len(series)
  <2>2. m \in Nat /\ m <= 2
    BY <2>1
  <2> HIDE DEF m
  <2>3. m = 0 \/ m = 1 \/ m = 2
    BY <2>2
  <2> QED
    BY <2>3 DEF m
<1> QED
  BY <1>7, <1>8, <1>9, <1>10

\* Neither earlier samples nor a series without any change the sum.
LEMMA RangeSum ==
  ASSUME NEW c \in Nat, NEW t \in Split(c), NEW series \in Ranged(t)
  PROVE  Sums(Lasts(series))[Len(Lasts(series))] = 2 * c
<1>1. /\ t \in Seq(Seq(Int)) /\ Len(t) <= 2 /\ Len(t) \in Nat /\ DOMAIN t = 1 .. Len(t)
      /\ \A i \in 1 .. Len(t) : t[i] \in Seq(Int) /\ Len(t[i]) = 1
  BY SplitAddsUp
<1>2. \A i \in 1 .. Len(t) : t[i] # <<>> /\ t[i][Len(t[i])] = t[i][1] /\ t[i][1] \in Int
  BY <1>1
<1>3. \/ series = [i \in DOMAIN t |-> <<5>> \o t[i]]
      \/ series = <<<<>>>> \o t
  BY DEF Ranged
<1>4. CASE series = [i \in DOMAIN t |-> <<5>> \o t[i]]
  <2>1. \A i \in 1 .. Len(t) : /\ series[i] # <<>> /\ Len(series[i]) = 2
                               /\ series[i][2] = t[i][1]
    <3> SUFFICES ASSUME NEW i \in 1 .. Len(t)
                 PROVE  series[i] # <<>> /\ Len(series[i]) = 2 /\ series[i][2] = t[i][1]
      OBVIOUS
    <3>1. series[i] = <<5>> \o t[i]
      BY <1>1, <1>4
    <3>2. <<5>> \in Seq(Int) /\ Len(<<5>>) = 1
      OBVIOUS
    <3>3. t[i] \in Seq(Int) /\ Len(t[i]) = 1
      BY <1>1
    <3> DEFINE u == t[i]
               f == <<5>>
    <3>5. f \in Seq(Int) /\ Len(f) = 1 /\ u \in Seq(Int) /\ Len(u) = 1
      BY <3>2, <3>3
    <3> HIDE DEF f, u
    <3>6. Len(f \o u) = 2 /\ (f \o u)[2] = u[1]
      <4>1. /\ Len(f \o u) = Len(f) + Len(u)
            /\ \A k \in 1 .. Len(f) + Len(u) : (f \o u)[k] = IF k <= Len(f) THEN f[k] ELSE u[k - Len(f)]
        BY <3>5, ConcatProperties
      <4>2. Len(f) = 1 /\ Len(u) = 1 /\ 2 \in 1 .. 2
        BY <3>5
      <4>3. Len(f \o u) = 2 /\ \A k \in 1 .. 2 : (f \o u)[k] = IF k <= 1 THEN f[k] ELSE u[k - 1]
        BY <4>1, <4>2
      <4> QED
        BY <4>3
    <3>4. Len(<<5>> \o t[i]) = 2 /\ (<<5>> \o t[i])[2] = t[i][1] /\ <<5>> \o t[i] # <<>>
      BY <3>6 DEF f, u
    <3> QED
      BY <3>1, <3>4
  <2>2. Lasts(series) = Lasts(t)
    <3>1. DOMAIN series = DOMAIN t
      BY <1>4
    <3>2. Lasts(series) = [i \in 1 .. Len(t) |-> t[i][1]]
      BY <1>1, <2>1, <3>1 DEF Lasts
    <3>3. Lasts(t) = [i \in 1 .. Len(t) |-> t[i][1]]
      BY <1>1, <1>2 DEF Lasts
    <3> QED
      BY <3>2, <3>3
  <2> QED
    BY <2>2, InstantSum
<1>5. CASE series = <<<<>>>> \o t
  <2> DEFINE g == Lasts(series)
  <2>1. <<<<>>>> \in Seq(Seq(Int)) /\ Len(<<<<>>>>) = 1
    OBVIOUS
  <2>2. /\ Len(series) = Len(t) + 1 /\ DOMAIN series = 1 .. Len(t) + 1
        /\ series[1] = <<>>
        /\ \A i \in 1 .. Len(t) : series[i + 1] = t[i]
    BY <1>1, <1>5, <2>1
  <2>3. /\ DOMAIN g = 1 .. Len(t) + 1
        /\ g[1] = 0
        /\ \A i \in 1 .. Len(t) : g[i + 1] = t[i][1]
    <3>1. \A i \in 1 .. Len(t) : i + 1 \in 1 .. Len(t) + 1
      BY <1>1
    <3> QED
      BY <1>1, <1>2, <2>2, <3>1 DEF Lasts
  <2>4. g = [i \in 1 .. Len(t) + 1 |-> g[i]]
    BY <2>3 DEF Lasts
  <2> HIDE DEF g
  <2>5. \A i \in 1 .. Len(t) + 1 : g[i] \in Int
    <3> SUFFICES ASSUME NEW i \in 1 .. Len(t) + 1 PROVE g[i] \in Int
      OBVIOUS
    <3>1. CASE i = 1
      BY <2>3, <3>1
    <3>2. CASE i # 1
      <4>1. i - 1 \in 1 .. Len(t) /\ (i - 1) + 1 = i
        BY <1>1, <3>2
      <4> QED
        BY <1>2, <2>3, <4>1
    <3> QED
      BY <3>1, <3>2
  <2>6. g \in Seq(Int) /\ Len(g) = Len(t) + 1
    BY <1>1, <2>4, <2>5
  <2>7. /\ Len(t) = 0 => Sums(g)[Len(g)] = g[1]
        /\ Len(t) = 1 => Sums(g)[Len(g)] = g[1] + g[2]
        /\ Len(t) = 2 => Sums(g)[Len(g)] = g[1] + g[2] + g[3]
    <3>1. /\ Len(g) = 1 => Sums(g)[Len(g)] = g[1]
          /\ Len(g) = 2 => Sums(g)[Len(g)] = g[1] + g[2]
          /\ Len(g) = 3 => Sums(g)[Len(g)] = g[1] + g[2] + g[3]
      BY <2>6, SumsOfFew
    <3> DEFINE m == Len(t)
               k == Len(g)
    <3>2. k = m + 1 /\ m \in Nat
      BY <1>1, <2>6
    <3> HIDE DEF m, k
    <3>3. (m = 0 => k = 1) /\ (m = 1 => k = 2) /\ (m = 2 => k = 3)
      BY <3>2
    <3> QED
      BY <3>1, <3>3 DEF m, k
  <2>8. /\ Len(t) >= 1 => g[2] = t[1][1] /\ t[1][1] \in Int
        /\ Len(t) >= 2 => g[3] = t[2][1] /\ t[2][1] \in Int
    <3>1. Len(t) >= 1 => 1 \in 1 .. Len(t)
      BY <1>1
    <3>2. Len(t) >= 2 => 2 \in 1 .. Len(t)
      BY <1>1
    <3> QED
      BY <1>2, <2>3, <3>1, <3>2
  <2>9. /\ Len(t) = 0 => c = 0
        /\ Len(t) = 1 => t[1][1] = 2 * c
        /\ Len(t) = 2 => t[1][1] + t[2][1] = 2 * c
    BY SplitAddsUp
  <2>10. g[1] = 0
    BY <2>3
  <2>11. Len(t) = 0 \/ Len(t) = 1 \/ Len(t) = 2
    BY <1>1
  <2> QED
    BY <2>7, <2>8, <2>9, <2>10, <2>11 DEF g
<1> QED
  BY <1>3, <1>4, <1>5

\* A result that is a number is taken for the number it is; any other is taken
\* for some integer.
LEMMA FlattenIsTrue ==
  ASSUME truth[Current] \in Nat, Query.form \in PromForms, NEW v \in Results(truth[Current]), NEW n \in flatten(v)
  PROVE  /\ n \in Int
         /\ Query.form \notin {"nan", "string"} => n = truth[Current]
<1> DEFINE c == truth[Current]
<1>1. c \in Nat /\ MinInt \in Int
  BY CollectAssumption
<1> HIDE DEF c
<1>2. Round(2 * c) = c
  BY <1>1 DEF Round
<1>3. ASSUME v.type # "string", v.nan = FALSE, Sums(Lasts(v.series))[Len(Lasts(v.series))] = 2 * c
      PROVE  n = c
  <2>1. flatten(v) = {Round(Sums(Lasts(v.series))[Len(Lasts(v.series))])}
    BY <1>3 DEF flatten, Lasts
  <2> QED
    BY <1>2, <1>3, <2>1
<1>4. CASE Query.form = "vector"
  <2>1. PICK s \in Split(c) : v = [type |-> "vector", nan |-> FALSE, series |-> s]
    BY <1>4 DEF Results, c
  <2> QED
    BY <1>1, <1>3, <2>1, InstantSum DEF c
<1>5. CASE Query.form = "matrix"
  <2>1. PICK t \in Split(c) : \E s \in Ranged(t) : v = [type |-> "matrix", nan |-> FALSE, series |-> s]
    BY <1>5 DEF Results, c
  <2>2. PICK s \in Ranged(t) : v = [type |-> "matrix", nan |-> FALSE, series |-> s]
    BY <2>1
  <2> QED
    BY <1>1, <1>3, <2>2, RangeSum DEF c
<1>6. CASE Query.form = "scalar"
  <2>1. v = [type |-> "scalar", nan |-> FALSE, series |-> <<<<2 * c>>>>]
    BY <1>6 DEF Results, c
  <2>2. Lasts(<<<<2 * c>>>>) = <<2 * c>>
    <3> DEFINE one == <<2 * c>>
    <3>1. one # <<>> /\ one[Len(one)] = 2 * c
      BY <1>1
    <3> HIDE DEF one
    <3>2. DOMAIN <<one>> = 1 .. 1 /\ <<one>>[1] = one
      OBVIOUS
    <3>3. Lasts(<<one>>) = [i \in 1 .. 1 |-> 2 * c]
      BY <3>1, <3>2 DEF Lasts
    <3>4. [i \in 1 .. 1 |-> 2 * c] = <<2 * c>>
      BY <1>1
    <3> QED
      BY <3>3, <3>4 DEF one
  <2>3. Sums(<<2 * c>>)[Len(<<2 * c>>)] = 2 * c
    <3>1. <<2 * c>> \in Seq(Int) /\ Len(<<2 * c>>) = 1 /\ <<2 * c>>[1] = 2 * c
      BY <1>1
    <3> QED
      BY <3>1, SumsOfFew
  <2>4. v.series = <<<<2 * c>>>> /\ v.type # "string" /\ v.nan = FALSE
    BY <2>1
  <2>5. n = c
    BY <1>3, <2>2, <2>3, <2>4
  <2> QED
    BY <1>1, <2>5 DEF c
<1>7. CASE Query.form = "nan"
  <2>1. v = [type |-> "vector", nan |-> TRUE, series |-> <<<<0>>>>]
    BY <1>7 DEF Results, c
  <2>2. flatten(v) = {MinInt, 0}
    BY <2>1 DEF flatten
  <2> QED
    BY <1>1, <1>7, <2>2
<1>8. CASE Query.form \notin {"vector", "matrix", "scalar", "nan"}
  <2>1. v = [type |-> "string", nan |-> FALSE, series |-> <<>>]
    BY <1>8 DEF Results, c
  <2>2. flatten(v) = {0}
    BY <2>1 DEF flatten
  <2>3. Query.form = "string"
    BY <1>8 DEF PromForms
  <2> QED
    BY <2>2, <2>3
<1> QED
  BY <1>4, <1>5, <1>6, <1>7, <1>8

-----------------------------------------------------------------------------
(* A response.                                                              *)

\* What the types say of a configured source and of the world it asks.
LEMMA SetupFacts ==
  ASSUME TypeOK
  PROVE  /\ setup.type \in {"elasticsearch", "prometheus"}
         /\ Len(setup.queries) \in Nat \ {0} /\ Queries = 1 .. Len(setup.queries)
         /\ \A n \in Queries :
              /\ setup.type = "prometheus" => setup.queries[n].form \in PromForms
              /\ truth[n] \in Nat /\ mood[n] \in Moods
         /\ \A b \in setup.lengths : b \in Nat /\ b >= HeadBytes
         /\ Attempts \in 1 .. 2 /\ (setup.type = "prometheus" => Attempts = 1)
<1>1. setup \in Setups /\ mood \in [Queries -> Moods] /\ truth \in [Queries -> Nat]
  BY DEF TypeOK
<1>2. /\ setup.type \in {"elasticsearch", "prometheus"}
      /\ setup.queries \in Seq([title : Nat, warning : Nat, critical : Nat,
           form : IF setup.type = "elasticsearch" THEN EsForms ELSE PromForms]) \ {<<>>}
      /\ \A b \in setup.lengths : b \in Nat /\ b >= HeadBytes
  BY <1>1, CollectAssumption
<1> DEFINE q == setup.queries
           Row == [title : Nat, warning : Nat, critical : Nat,
                   form : IF setup.type = "elasticsearch" THEN EsForms ELSE PromForms]
<1>3. q \in Seq(Row) /\ q # <<>>
  BY <1>2
<1>4. Len(q) \in Nat \ {0} /\ DOMAIN q = 1 .. Len(q) /\ \A n \in 1 .. Len(q) : q[n] \in Row
  <2> HIDE DEF q, Row
  <2> QED
    BY <1>3, LenProperties, ElementOfSeq, EmptySeq
<1>5. \A n \in 1 .. Len(q) :
        q[n].form \in IF setup.type = "elasticsearch" THEN EsForms ELSE PromForms
  <2> HIDE DEF q
  <2> QED
    BY <1>4
<1>6. Attempts \in 1 .. 2 /\ (setup.type = "prometheus" => Attempts = 1)
  BY DEF Attempts
<1> QED
  BY <1>1, <1>2, <1>4, <1>5, <1>6 DEF Queries

\* The fields of a response, and of one that is spoilt in one of them.
LEMMA HitsFields ==
  ASSUME NEW c
  PROVE  /\ Hits(c).status = 200 /\ Hits(c).decodes = TRUE /\ Hits(c).timedOut = FALSE
         /\ Hits(c).failed = 0 /\ Hits(c).total = Total(Query.form, c)
         /\ [Hits(c) EXCEPT !.decodes = FALSE].decodes = FALSE
         /\ [Hits(c) EXCEPT !.decodes = FALSE].status = 200
         /\ [Hits(c) EXCEPT !.timedOut = TRUE].timedOut = TRUE
         /\ [Hits(c) EXCEPT !.timedOut = TRUE].decodes = TRUE
         /\ [Hits(c) EXCEPT !.timedOut = TRUE].status = 200
         /\ [Hits(c) EXCEPT !.failed = 1].failed = 1
         /\ [Hits(c) EXCEPT !.failed = 1].timedOut = FALSE
         /\ [Hits(c) EXCEPT !.failed = 1].decodes = TRUE
         /\ [Hits(c) EXCEPT !.failed = 1].status = 200
BY DEF Hits

\* An error response has its status.
LEMMA EsErrorStatus == \A status : EsError(status).status = status
BY DEF Hits, EsError

\* What an Elasticsearch endpoint answers with, by its mood.
EsReplyOf(r) ==
  \/ FailsNow /\ r.status \in Busy
  \/ Mood = "broken" /\ (r.status = 400 \/ (r.status = 200 /\ r.decodes = FALSE))
  \/ /\ Mood = "short" /\ r.status = 200 /\ r.decodes = TRUE
     /\ r.timedOut = TRUE \/ (r.timedOut = FALSE /\ r.failed = 1)
  \/ Mood \notin {"broken", "short", "hangs"} /\ r = Hits(truth[Current])

\* Every reply of the endpoint is one that its mood allows.
LEMMA EsReplyIs ==
  ASSUME NEW r \in EsReplies
  PROVE  EsReplyOf(r)
<1> DEFINE c == truth[Current]
<1>1. CASE FailsNow
  <2>1. EsReplies = {EsError(status) : status \in Busy}
    BY <1>1 DEF EsReplies, FailsNow
  <2>2. PICK status \in Busy : r = EsError(status)
    BY <2>1
  <2>3. EsError(status).status = status
    BY EsErrorStatus
  <2>4. r.status \in Busy
    BY <2>2, <2>3, Zenon
  <2> QED
    BY <1>1, <2>4 DEF EsReplyOf
<1>2. CASE ~FailsNow /\ Mood = "broken"
  <2>1. r = EsError(400) \/ r = [Hits(c) EXCEPT !.decodes = FALSE]
    BY <1>2 DEF EsReplies
  <2>2. CASE r = EsError(400)
    <3>1. r.status = 400
      BY <2>2 DEF EsError, Hits
    <3> QED
      BY <1>2, <3>1 DEF EsReplyOf
  <2>3. CASE r = [Hits(c) EXCEPT !.decodes = FALSE]
    <3>1. r.status = 200 /\ r.decodes = FALSE
      BY <2>3, HitsFields
    <3> QED
      BY <1>2, <3>1 DEF EsReplyOf
  <2> QED
    BY <2>1, <2>2, <2>3
<1>3. CASE ~FailsNow /\ Mood = "short"
  <2>1. \E part \in 0 .. c : \/ r = [Hits(part) EXCEPT !.timedOut = TRUE]
                             \/ r = [Hits(part) EXCEPT !.failed = 1]
    BY <1>3 DEF EsReplies
  <2>2. PICK part \in 0 .. c : \/ r = [Hits(part) EXCEPT !.timedOut = TRUE]
                               \/ r = [Hits(part) EXCEPT !.failed = 1]
    BY <2>1
  <2>3. CASE r = [Hits(part) EXCEPT !.timedOut = TRUE]
    <3>1. r.status = 200 /\ r.decodes = TRUE /\ r.timedOut = TRUE
      BY <2>3, HitsFields
    <3> QED
      BY <1>3, <3>1 DEF EsReplyOf
  <2>4. CASE r = [Hits(part) EXCEPT !.failed = 1]
    <3>1. r.status = 200 /\ r.decodes = TRUE /\ r.timedOut = FALSE /\ r.failed = 1
      BY <2>4, HitsFields
    <3> QED
      BY <1>3, <3>1 DEF EsReplyOf
  <2> QED
    BY <2>2, <2>3, <2>4
<1>4. CASE ~FailsNow /\ Mood \notin {"broken", "short"}
  <2>1. Mood # "hangs" /\ r = Hits(c)
    BY <1>4 DEF EsReplies
  <2> QED
    BY <1>4, <2>1 DEF EsReplyOf
<1> QED
  BY <1>1, <1>2, <1>3, <1>4

\* A total that the code takes is the count, unless there is none in it.
LEMMA TotalIsTrue ==
  ASSUME NEW c \in Nat, NEW form
  PROVE  /\ Total(form, c).value \in Int
         /\ Total(form, c).relation \in {"absent", "eq"} /\ form # "untracked" => Total(form, c).value = c
         /\ Total(form, c).relation \notin {"absent", "eq"} => form = "default" /\ c > Ceiling
<1>1. Ceiling \in Nat
  BY CollectAssumption
<1>2. CASE form = "untracked"
  <2>1. Total(form, c) = [value |-> 0, relation |-> "absent"]
    BY <1>2 DEF Total
  <2> QED
    BY <1>2, <2>1
<1>3. CASE form = "default" /\ c > Ceiling
  <2>1. Total(form, c) = [value |-> Ceiling, relation |-> "gte"]
    BY <1>3 DEF Total
  <2> QED
    BY <1>1, <1>3, <2>1
<1>4. CASE form # "untracked" /\ ~(form = "default" /\ c > Ceiling)
  <2>1. Total(form, c) = [value |-> c, relation |-> "eq"]
    BY <1>4 DEF Total
  <2> QED
    BY <1>4, <2>1 DEF EsReplyOf
<1> QED
  BY <1>2, <1>3, <1>4

\* A response of Elasticsearch that is taken holds the count, and one that is
\* refused for good did not come from an endpoint that answers in full.
LEMMA EsResponse ==
  ASSUME NEW r \in EsReplies, truth[Current] \in Nat, setup.type = "elasticsearch"
  PROVE  /\ EsRefuses(r) = "none" =>
              /\ r.total.value \in Int
              /\ Query.form # "untracked" => r.total.value = truth[Current]
         /\ EsRefuses(r) # "none" /\ ~(Retryable(r.status) /\ tries < Attempts) /\ tries \in 1 .. 2
              => ~Healthy(Current)
<1> DEFINE c == truth[Current]
<1>1. CASE FailsNow /\ r.status \in Busy
  <2>1. EsRefuses(r) = "status"
    BY <1>1 DEF EsRefuses, Busy
  <2>2. Retryable(r.status)
    BY <1>1 DEF Retryable, Busy
  <2>3. tries \in 1 .. 2 /\ ~(tries < Attempts) => Mood = "down"
    BY <1>1 DEF FailsNow, Attempts
  <2> QED
    BY <2>1, <2>2, <2>3 DEF Healthy, Mood
<1>2. CASE Mood = "broken" /\ (r.status = 400 \/ (r.status = 200 /\ r.decodes = FALSE))
  <2>1. EsRefuses(r) # "none"
    BY <1>2 DEF EsRefuses
  <2> QED
    BY <1>2, <2>1 DEF Healthy, Mood
<1>3. CASE /\ Mood = "short" /\ r.status = 200 /\ r.decodes = TRUE
           /\ r.timedOut = TRUE \/ (r.timedOut = FALSE /\ r.failed = 1)
  <2>1. EsRefuses(r) # "none"
    BY <1>3 DEF EsRefuses
  <2> QED
    BY <1>3, <2>1 DEF Healthy, Mood
<1>4. CASE r = Hits(c)
  <2>1. /\ r.status = 200 /\ r.decodes = TRUE /\ r.timedOut = FALSE /\ r.failed = 0
        /\ r.total = Total(Query.form, c)
    BY <1>4, HitsFields
  <2>2. EsRefuses(r) = IF r.total.relation \notin {"absent", "eq"} THEN "bound" ELSE "none"
    BY <2>1 DEF EsRefuses
  <2>3. /\ r.total.value \in Int
        /\ r.total.relation \in {"absent", "eq"} /\ Query.form # "untracked" => r.total.value = c
        /\ r.total.relation \notin {"absent", "eq"} => Query.form = "default" /\ c > Ceiling
    BY <2>1, TotalIsTrue
  <2> QED
    BY <2>2, <2>3 DEF Healthy, OverTheCeiling, Query
<1>5. EsReplyOf(r)
  BY EsReplyIs
<1> QED
  BY <1>1, <1>2, <1>3, <1>4, <1>5, Zenon DEF EsReplyOf

\* The same of Prometheus.
LEMMA PromResponse ==
  ASSUME NEW r \in PromReplies, truth[Current] \in Nat, setup.type = "prometheus",
         Query.form \in PromForms, tries = 1
  PROVE  /\ \A n \in flatten(r.value) : PromRefuses(r) = "none" =>
              /\ n \in Int
              /\ Query.form \notin {"nan", "string"} => n = truth[Current]
         /\ PromRefuses(r) # "none" => ~Healthy(Current)
<1> DEFINE c == truth[Current]
<1>1. CASE FailsNow \/ Mood = "broken"
  <2>1. PromReplies = [error : {TRUE}, warnings : {FALSE}, value : Results(0)]
    BY <1>1 DEF PromReplies, FailsNow
  <2>4. r.error = TRUE
    BY <2>1
  <2>2. PromRefuses(r) = "api"
    BY <2>4 DEF PromRefuses
  <2>3. Mood = "down" \/ Mood = "busy" \/ Mood = "broken"
    BY <1>1 DEF FailsNow
  <2> QED
    BY <2>2, <2>3 DEF Healthy, Mood
<1>2. CASE ~FailsNow /\ Mood = "short"
  <2>1. PromReplies = UNION {[error : {FALSE}, warnings : {TRUE}, value : Results(part)] : part \in 0 .. c}
    BY <1>2 DEF PromReplies
  <2>3. PICK part \in 0 .. c : r \in [error : {FALSE}, warnings : {TRUE}, value : Results(part)]
    BY <2>1
  <2>4. r.error = FALSE /\ r.warnings = TRUE
    BY <2>3
  <2>2. PromRefuses(r) = "warnings"
    BY <2>4 DEF PromRefuses
  <2> QED
    BY <1>2, <2>2 DEF Healthy, Mood
<1>3. CASE ~FailsNow /\ Mood \notin {"broken", "short"}
  <2>1. r.error = FALSE /\ r.warnings = FALSE /\ r.value \in Results(c)
    BY <1>3 DEF PromReplies
  <2>2. PromRefuses(r) = "none"
    BY <2>1 DEF PromRefuses
  <2> QED
    BY <2>1, <2>2, FlattenIsTrue
<1> QED
  BY <1>1, <1>2, <1>3

-----------------------------------------------------------------------------
(* The invariant.                                                           *)

\* A step of the collector changes neither the configuration nor the counts
\* that are true.
LEMMA SameWorld ==
  ASSUME UNCHANGED world
  PROVE  /\ setup' = setup /\ mood' = mood /\ truth' = truth
         /\ Queries' = Queries /\ Attempts' = Attempts
         /\ \A n : Healthy(n)' = Healthy(n)
BY DEF world, Queries, Attempts, Healthy, OverTheCeiling

\* The losses are numbers of queries with the length of their message.
LEMMA LossesAreLoss ==
  ASSUME TypeOK
  PROVE  lost \in Seq([n : Nat, bytes : Nat])
<1> DEFINE S == [n : Queries, bytes : Nat]
           T == [n : Nat, bytes : Nat]
<1>1. Queries \subseteq Nat
  BY SetupFacts
<1>2. S \subseteq T
  BY <1>1
<1>3. lost \in Seq(S)
  BY DEF TypeOK
<1> HIDE DEF S, T
<1>4. lost \in Seq(T)
  BY <1>2, <1>3
<1> QED
  BY <1>4 DEF T

\* Nothing is asked and nothing lost at the start of a collection.
LEMMA CollectInvInit == Init => CollectInv
<1> SUFFICES ASSUME Init PROVE CollectInv
  OBVIOUS
<1>1. setup \in Setups /\ mood \in [Queries -> setup.moods] /\ truth \in [Queries -> setup.truths]
  BY DEF Init
<1>2. setup.moods \subseteq Moods /\ setup.truths \subseteq Nat
  BY <1>1, CollectAssumption
<1>3. mood \in [Queries -> Moods] /\ truth \in [Queries -> Nat]
  BY <1>1, <1>2
<1>4. /\ phase = "next" /\ tries = 0 /\ over = FALSE
      /\ found = <<>> /\ lost = <<>> /\ err = NoError
  BY DEF Init
<1>5. Attempts \in 1 .. 2
  BY DEF Attempts
<1>6. NoError \in [failed : Nat, total : Nat, bytes : 0 .. maxQueryErrors, named : SUBSET Nat]
  BY DEF NoError, maxQueryErrors
<1>9. /\ found \in Seq([n : Queries, count : Int, severity : Severity])
      /\ lost \in Seq([n : Queries, bytes : Nat])
  BY <1>4
<1>10. /\ phase \in {"next", "sending", "backoff", "returned"}
       /\ tries \in 0 .. Attempts /\ over \in BOOLEAN
  <2>1. 0 \in 0 .. Attempts
    BY <1>5
  <2> QED
    BY <1>4, <2>1
<1>11. err \in [failed : Nat, total : Nat, bytes : 0 .. maxQueryErrors, named : SUBSET Nat]
  BY <1>4, <1>6
<1>7. TypeOK
  BY <1>1, <1>3, <1>9, <1>10, <1>11 DEF TypeOK
<1>8. Len(setup.queries) \in Nat
  BY <1>7, SetupFacts
<1> QED
  BY <1>4, <1>7, <1>8 DEF CollectInv, LoopInTurn, LossesHaveAReason, NeverAnUndercount

\* While a query is under way it is one of the source's.
LEMMA CurrentFacts ==
  ASSUME CollectInv
  PROVE  /\ Len(found) \in Nat /\ Len(lost) \in Nat /\ Current \in Nat \ {0}
         /\ Current <= Len(setup.queries) + 1
         /\ Current \in Queries <=> Current <= Len(setup.queries)
         /\ phase \in {"sending", "backoff"} => Current \in Queries /\ tries \in 1 .. Attempts
         /\ phase = "returned" => Current \notin Queries
<1>1. /\ found \in Seq([n : Queries, count : Int, severity : Severity])
      /\ lost \in Seq([n : Queries, bytes : Nat]) /\ tries \in 0 .. Attempts
  BY DEF CollectInv, TypeOK
<1>2. Len(found) \in Nat /\ Len(lost) \in Nat
  BY <1>1, LenProperties
<1>3. Len(setup.queries) \in Nat /\ Queries = 1 .. Len(setup.queries) /\ Attempts \in 1 .. 2
  BY SetupFacts DEF CollectInv
<1>4. /\ Len(found) + Len(lost) <= Len(setup.queries)
      /\ phase \in {"sending", "backoff"} => Current \in Queries /\ tries >= 1
      /\ phase = "returned" => Current \notin Queries
  BY DEF CollectInv, LoopInTurn
<1> QED
  BY <1>1, <1>2, <1>3, <1>4 DEF Current

\* A step that settles nothing keeps what holds of the settled queries.
LEMMA NothingSettled ==
  ASSUME CollectInv, UNCHANGED <<world, found, lost, err>>, over => over',
         over' \in BOOLEAN, tries' \in 0 .. Attempts,
         phase' \in {"next", "sending", "backoff"},
         phase' \in {"sending", "backoff"} => Current \in Queries /\ tries' >= 1,
         phase' = "backoff" => tries' < Attempts
  PROVE  CollectInv'
<1>1. /\ setup' = setup /\ mood' = mood /\ truth' = truth /\ found' = found /\ lost' = lost
      /\ err' = err /\ Queries' = Queries /\ Attempts' = Attempts
      /\ \A n : Healthy(n)' = Healthy(n)
  BY SameWorld
<1>2. TypeOK'
  BY <1>1 DEF CollectInv, TypeOK
<1>3. Current' = Current /\ Losses' = Losses
  BY <1>1 DEF Current, Losses
<1>4. LoopInTurn'
  BY <1>1, <1>3 DEF CollectInv, LoopInTurn
<1>5. LossesHaveAReason'
  BY <1>1 DEF CollectInv, LossesHaveAReason
<1>6. NeverAnUndercount'
  BY <1>1 DEF CollectInv, NeverAnUndercount
<1>7. phase' # "returned"
  OBVIOUS
<1> QED
  BY <1>2, <1>4, <1>5, <1>6, <1>7 DEF CollectInv

\* A query is lost with a reason and a message.
LEMMA FailKeeps ==
  ASSUME CollectInv, Current \in Queries, over \/ ~Healthy(Current), NEW why, Fail(why)
  PROVE  CollectInv'
<1>1. PICK b \in MessageBytes(why) : lost' = Append(lost, [n |-> Current, bytes |-> b])
  BY DEF Fail
<1>2. phase' = "next" /\ tries' = 0 /\ UNCHANGED <<world, over, found, err>>
  BY DEF Fail
<1>3. /\ setup' = setup /\ mood' = mood /\ truth' = truth
      /\ Queries' = Queries /\ Attempts' = Attempts /\ \A n : Healthy(n)' = Healthy(n)
  BY <1>2, SameWorld
<1>4. HeadBytes \in Nat
  BY CollectAssumption
<1>5. b \in Nat /\ b >= HeadBytes
  BY <1>1, <1>4, SetupFacts DEF MessageBytes, CollectInv
<1> DEFINE L == [n : Queries, bytes : Nat]
           e == [n |-> Current, bytes |-> b]
<1>6. e \in L /\ e.n = Current /\ e.bytes = b
  BY <1>5
<1>7. lost \in Seq(L) /\ Attempts \in 1 .. 2
  BY SetupFacts DEF CollectInv, TypeOK
<1>8. Len(lost) \in Nat /\ DOMAIN lost = 1 .. Len(lost)
  BY <1>7, LenProperties
<1> HIDE DEF e, L
<1>9. /\ lost' \in Seq(L) /\ Len(lost') = Len(lost) + 1 /\ DOMAIN lost' = 1 .. Len(lost) + 1
      /\ lost'[Len(lost) + 1] = e /\ \A i \in 1 .. Len(lost) : lost'[i] = lost[i]
  <2>1. lost' = Append(lost, e)
    BY <1>1 DEF e
  <2>2. /\ lost' \in Seq(L) /\ Len(lost') = Len(lost) + 1
        /\ lost'[Len(lost) + 1] = e /\ \A i \in 1 .. Len(lost) : lost'[i] = lost[i]
    BY <1>6, <1>7, <2>1, AppendProperties
  <2>3. DOMAIN lost' = 1 .. Len(lost')
    BY <2>2, LenProperties
  <2> QED
    BY <2>2, <2>3
<1>10. TypeOK'
  <2>1. lost' \in Seq([n : Queries', bytes : Nat])
    BY <1>3, <1>9 DEF L
  <2> QED
    BY <1>2, <1>3, <1>7, <2>1 DEF CollectInv, TypeOK
<1>11. Current <= Len(setup.queries) /\ Current = Len(found) + Len(lost) + 1 /\ Len(found) \in Nat
  BY CurrentFacts DEF Current
<1>12. LoopInTurn'
  <2>1. Len(found') + Len(lost') = Current
    BY <1>2, <1>8, <1>9, <1>11
  <2>2. ASSUME NEW n \in 1 .. Current
        PROVE  n \in Losses' \/ \E i \in DOMAIN found' : found'[i].n = n
    <3>1. CASE n = Current
      <4>1. Len(lost) + 1 \in DOMAIN lost' /\ lost'[Len(lost) + 1].n = n
        BY <1>6, <1>8, <1>9, <3>1
      <4> QED
        BY <4>1 DEF Losses
    <3>2. CASE n # Current
      <4>1. n \in 1 .. Len(found) + Len(lost)
        BY <1>8, <1>11, <3>2
      <4>2. n \in Losses \/ \E i \in DOMAIN found : found[i].n = n
        BY <4>1 DEF CollectInv, LoopInTurn
      <4>3. Losses \subseteq Losses'
        <5>1. DOMAIN lost \subseteq DOMAIN lost' /\ \A i \in DOMAIN lost : lost'[i] = lost[i]
          BY <1>8, <1>9
        <5> QED
          BY <5>1 DEF Losses
      <4> QED
        BY <1>2, <4>2, <4>3
    <3> QED
      BY <3>1, <3>2
  <2> QED
    BY <1>2, <1>3, <1>11, <2>1, <2>2 DEF LoopInTurn
<1>13. LossesHaveAReason'
  <2> SUFFICES ASSUME NEW i \in 1 .. Len(lost) + 1
               PROVE  lost'[i].bytes >= HeadBytes /\ (over \/ ~Healthy(lost'[i].n))
    BY <1>2, <1>3, <1>9 DEF LossesHaveAReason
  <2>1. CASE i = Len(lost) + 1
    BY <1>5, <1>6, <1>9, <2>1
  <2>2. CASE i # Len(lost) + 1
    <3>1. i \in 1 .. Len(lost)
      BY <1>8, <2>2
    <3>2. lost[i].bytes >= HeadBytes /\ (over \/ ~Healthy(lost[i].n))
      BY <1>8, <3>1 DEF CollectInv, LossesHaveAReason
    <3> QED
      BY <1>9, <3>1, <3>2
  <2> QED
    BY <2>1, <2>2
<1>14. NeverAnUndercount'
  BY <1>2, <1>3 DEF CollectInv, NeverAnUndercount
<1> QED
  BY <1>2, <1>10, <1>12, <1>13, <1>14 DEF CollectInv

\* A query is answered with its count.
LEMMA AnswerKeeps ==
  ASSUME CollectInv, Current \in Queries, NEW c \in Int,
         Query.form \notin {"untracked", "nan", "string"} => c = truth[Current],
         found' = Append(found, [n |-> Current, count |-> c, severity |-> Score(c, Query)]),
         phase' = "next", tries' = 0, UNCHANGED <<world, over, lost, err>>
  PROVE  CollectInv'
<1>1. /\ setup' = setup /\ mood' = mood /\ truth' = truth /\ over' = over /\ lost' = lost /\ err' = err
      /\ Queries' = Queries /\ Attempts' = Attempts /\ \A n : Healthy(n)' = Healthy(n)
  BY SameWorld
<1> DEFINE F == [n : Queries, count : Int, severity : Severity]
           f == [n |-> Current, count |-> c, severity |-> Score(c, Query)]
<1>2. Score(c, Query) \in Severity
  BY DEF Score, Severity, SeverityInfo, SeverityWarning, SeverityCritical
<1>3. f \in F /\ f.n = Current /\ f.count = c
  BY <1>2
<1>4. found \in Seq(F) /\ Attempts \in 1 .. 2
  BY SetupFacts DEF CollectInv, TypeOK
<1>5. Len(found) \in Nat /\ DOMAIN found = 1 .. Len(found)
  BY <1>4, LenProperties
<1>6. found' = Append(found, f)
  OBVIOUS
<1> HIDE DEF f, F
<1>7. /\ found' \in Seq(F) /\ Len(found') = Len(found) + 1 /\ DOMAIN found' = 1 .. Len(found) + 1
      /\ found'[Len(found) + 1] = f /\ \A i \in 1 .. Len(found) : found'[i] = found[i]
  <2>1. /\ found' \in Seq(F) /\ Len(found') = Len(found) + 1
        /\ found'[Len(found) + 1] = f /\ \A i \in 1 .. Len(found) : found'[i] = found[i]
    BY <1>3, <1>4, <1>6, AppendProperties
  <2>2. DOMAIN found' = 1 .. Len(found')
    BY <2>1, LenProperties
  <2> QED
    BY <2>1, <2>2
<1>8. TypeOK'
  <2>1. found' \in Seq([n : Queries', count : Int, severity : Severity])
    BY <1>1, <1>7 DEF F
  <2> QED
    BY <1>1, <1>4, <2>1 DEF CollectInv, TypeOK
<1>9. Current <= Len(setup.queries) /\ Current = Len(found) + Len(lost) + 1 /\ Len(lost) \in Nat
  BY CurrentFacts DEF Current
<1>10. LoopInTurn'
  <2>1. Len(found') + Len(lost') = Current
    BY <1>1, <1>5, <1>7, <1>9
  <2>2. ASSUME NEW n \in 1 .. Current
        PROVE  n \in Losses' \/ \E i \in DOMAIN found' : found'[i].n = n
    <3>1. CASE n = Current
      <4>1. Len(found) + 1 \in DOMAIN found' /\ found'[Len(found) + 1].n = n
        BY <1>3, <1>5, <1>7, <3>1
      <4> QED
        BY <4>1
    <3>2. CASE n # Current
      <4>1. n \in 1 .. Len(found) + Len(lost)
        BY <1>5, <1>9, <3>2
      <4>2. n \in Losses \/ \E i \in DOMAIN found : found[i].n = n
        BY <4>1 DEF CollectInv, LoopInTurn
      <4>3. DOMAIN found \subseteq DOMAIN found' /\ \A i \in DOMAIN found : found'[i] = found[i]
        BY <1>5, <1>7
      <4>4. Losses' = Losses
        BY <1>1 DEF Losses
      <4> QED
        BY <4>2, <4>3, <4>4
    <3> QED
      BY <3>1, <3>2
  <2> QED
    BY <1>1, <1>9, <2>1, <2>2 DEF LoopInTurn
<1>11. LossesHaveAReason'
  BY <1>1 DEF CollectInv, LossesHaveAReason
<1>12. NeverAnUndercount'
  <2> SUFFICES ASSUME NEW i \in 1 .. Len(found) + 1,
                      setup.queries[found'[i].n].form \notin {"untracked", "nan", "string"}
               PROVE  found'[i].count = truth[found'[i].n]
    BY <1>1, <1>7 DEF NeverAnUndercount
  <2>1. CASE i = Len(found) + 1
    BY <1>3, <1>7, <2>1 DEF Query
  <2>2. CASE i # Len(found) + 1
    <3>1. i \in 1 .. Len(found) /\ found'[i] = found[i]
      BY <1>5, <1>7, <2>2
    <3> QED
      BY <1>5, <3>1 DEF CollectInv, NeverAnUndercount
  <2> QED
    BY <2>1, <2>2
<1> QED
  BY <1>8, <1>10, <1>11, <1>12 DEF CollectInv

\* Every step of the loop over the queries keeps the invariant: what it appends
\* to the findings is true, and what it appends to the losses has a reason.
LEMMA CollectInvNext == CollectInv /\ [Next]_vars => CollectInv'
<1> SUFFICES ASSUME CollectInv, [Next]_vars PROVE CollectInv'
  OBVIOUS
<1>1. /\ Attempts \in 1 .. 2 /\ tries \in 0 .. Attempts /\ over \in BOOLEAN
      /\ phase \in {"sending", "backoff"} => Current \in Queries /\ tries \in 1 .. Attempts
      /\ phase = "backoff" => tries < Attempts
      /\ TypeOK
  BY CurrentFacts, SetupFacts DEF CollectInv, TypeOK, LoopInTurn
<1>2. CASE Begin
  BY <1>1, <1>2, NothingSettled DEF Begin
<1>3. CASE TemplateFails
  <2>1. Fail("template") /\ Current \in Queries /\ ~Healthy(Current)
    BY <1>3 DEF TemplateFails, Healthy, Mood
  <2> QED
    BY <2>1, FailKeeps
<1>4. ASSUME phase = "sending", BackOff, tries < Attempts
      PROVE  CollectInv'
  <2>1. /\ UNCHANGED <<world, found, lost, err>> /\ over' = over /\ tries' = tries
        /\ phase' = "backoff"
    BY <1>4 DEF BackOff
  <2> QED
    BY <1>1, <1>4, <2>1, NothingSettled
<1>5. CASE TransportFails
  <2>1. CASE tries < Attempts
    BY <1>4, <1>5, <2>1 DEF TransportFails
  <2>2. CASE ~(tries < Attempts)
    <3>1. phase = "sending" /\ FailsNow /\ Fail("transport")
      BY <1>5, <2>2 DEF TransportFails
    <3>2. Mood = "down" \/ (Mood = "busy" /\ setup.type # "elasticsearch")
      BY <1>1, <2>2, <3>1 DEF FailsNow, Attempts
    <3>3. ~Healthy(Current)
      BY <3>2 DEF Healthy, Mood
    <3> QED
      BY <1>1, <3>1, <3>3, FailKeeps
  <2> QED
    BY <2>1, <2>2
<1>6. CASE Respond
  <2>1. phase = "sending" /\ Current \in Queries /\ tries \in 1 .. 2
    BY <1>1, <1>6 DEF Respond
  <2>2. truth[Current] \in Nat
    BY <1>1, <2>1, SetupFacts
  <2>3. CASE setup.type = "elasticsearch"
    <3>1. PICK r \in EsReplies :
            \/ Retryable(r.status) /\ tries < Attempts /\ BackOff
            \/ /\ ~(Retryable(r.status) /\ tries < Attempts)
               /\ EsRefuses(r) # "none" /\ Fail(EsRefuses(r))
            \/ /\ EsRefuses(r) = "none"
               /\ \E c \in {r.total.value} :
                    found' = Append(found, [n |-> Current, count |-> c, severity |-> Score(c, Query)])
               /\ phase' = "next" /\ tries' = 0
               /\ UNCHANGED <<world, over, lost, err>>
      BY <1>6, <2>3 DEF Respond, Refuses, CountsOf
    <3>2. CASE Retryable(r.status) /\ tries < Attempts /\ BackOff
      BY <1>4, <2>1, <3>2
    <3>3. CASE /\ ~(Retryable(r.status) /\ tries < Attempts)
               /\ EsRefuses(r) # "none" /\ Fail(EsRefuses(r))
      <4>1. ~Healthy(Current)
        BY <2>1, <2>2, <2>3, <3>3, EsResponse
      <4> QED
        BY <2>1, <3>3, <4>1, FailKeeps
    <3>4. CASE /\ EsRefuses(r) = "none"
               /\ \E c \in {r.total.value} :
                    found' = Append(found, [n |-> Current, count |-> c, severity |-> Score(c, Query)])
               /\ phase' = "next" /\ tries' = 0
               /\ UNCHANGED <<world, over, lost, err>>
      <4> DEFINE c == r.total.value
      <4>1. c \in Int /\ (Query.form # "untracked" => c = truth[Current])
        BY <2>2, <2>3, <3>4, EsResponse
      <4>2. found' = Append(found, [n |-> Current, count |-> c, severity |-> Score(c, Query)])
        BY <3>4
      <4> HIDE DEF c
      <4> QED
        BY <2>1, <3>4, <4>1, <4>2, AnswerKeeps
    <3> QED
      BY <3>1, <3>2, <3>3, <3>4
  <2>4. CASE setup.type # "elasticsearch"
    <3>1. setup.type = "prometheus" /\ Attempts = 1 /\ Query.form \in PromForms
      BY <1>1, <2>1, <2>4, SetupFacts DEF Query
    <3>2. tries = 1
      BY <1>1, <2>1, <3>1
    <3>3. PICK r \in PromReplies :
            \/ PromRefuses(r) # "none" /\ Fail(PromRefuses(r))
            \/ /\ PromRefuses(r) = "none"
               /\ \E c \in flatten(r.value) :
                    found' = Append(found, [n |-> Current, count |-> c, severity |-> Score(c, Query)])
               /\ phase' = "next" /\ tries' = 0
               /\ UNCHANGED <<world, over, lost, err>>
      BY <1>6, <2>4 DEF Respond, Refuses, CountsOf
    <3>4. CASE PromRefuses(r) # "none" /\ Fail(PromRefuses(r))
      <4>1. ~Healthy(Current)
        BY <2>2, <3>1, <3>2, <3>4, PromResponse
      <4> QED
        BY <2>1, <3>4, <4>1, FailKeeps
    <3>5. CASE /\ PromRefuses(r) = "none"
               /\ \E c \in flatten(r.value) :
                    found' = Append(found, [n |-> Current, count |-> c, severity |-> Score(c, Query)])
               /\ phase' = "next" /\ tries' = 0
               /\ UNCHANGED <<world, over, lost, err>>
      <4>1. PICK c \in flatten(r.value) :
              found' = Append(found, [n |-> Current, count |-> c, severity |-> Score(c, Query)])
        BY <3>5
      <4>2. c \in Int /\ (Query.form \notin {"nan", "string"} => c = truth[Current])
        BY <2>2, <3>1, <3>2, <3>5, PromResponse
      <4> QED
        BY <2>1, <3>5, <4>1, <4>2, AnswerKeeps
    <3> QED
      BY <3>3, <3>4, <3>5
  <2> QED
    BY <2>3, <2>4
<1>7. CASE Retry
  <2>1. /\ UNCHANGED <<world, found, lost, err>> /\ over' = over /\ phase' = "sending"
        /\ tries' = tries + 1 /\ phase = "backoff"
    BY <1>7 DEF Retry
  <2>2. tries' \in 0 .. Attempts /\ tries' >= 1 /\ Current \in Queries
    BY <1>1, <2>1
  <2> QED
    BY <1>1, <2>1, <2>2, NothingSettled
<1>8. CASE ContextEnds
  <2>1. Fail("context") /\ over /\ Current \in Queries
    BY <1>1, <1>8 DEF ContextEnds
  <2> QED
    BY <2>1, FailKeeps
<1>9. CASE Expire
  <2>1. /\ UNCHANGED <<world, found, lost, err>> /\ over' = TRUE /\ phase' = phase
        /\ tries' = tries /\ phase \in {"sending", "backoff"}
    BY <1>9 DEF Expire
  <2> QED
    BY <1>1, <2>1, NothingSettled
<1>10. CASE Return
  <2>1. /\ phase' = "returned" /\ err' = QueryErrors(Len(setup.queries), lost)
        /\ UNCHANGED <<world, tries, over, found, lost>> /\ Current \notin Queries
    BY <1>10 DEF Return
  <2>2. /\ setup' = setup /\ mood' = mood /\ truth' = truth /\ tries' = tries /\ over' = over
        /\ found' = found /\ lost' = lost
        /\ Queries' = Queries /\ Attempts' = Attempts /\ \A n : Healthy(n)' = Healthy(n)
    BY <2>1, SameWorld
  <2>3. err' \in [failed : Nat, total : Nat, bytes : 0 .. maxQueryErrors, named : SUBSET Nat]
    <3>1. Len(setup.queries) \in Nat /\ Queries \subseteq Nat
      BY <1>1, SetupFacts
    <3>3. lost \in Seq([n : Nat, bytes : Nat])
      BY <1>1, LossesAreLoss
    <3> QED
      BY <2>1, <3>1, <3>3, QueryErrorsType
  <2>4. TypeOK'
    BY <1>1, <2>1, <2>2, <2>3 DEF TypeOK
  <2>5. Current' = Current /\ Losses' = Losses
    BY <2>2 DEF Current, Losses
  <2>6. LoopInTurn'
    BY <2>1, <2>2, <2>5 DEF CollectInv, LoopInTurn
  <2>7. LossesHaveAReason' /\ NeverAnUndercount'
    BY <2>2 DEF CollectInv, LossesHaveAReason, NeverAnUndercount
  <2> QED
    BY <2>1, <2>2, <2>4, <2>5, <2>6, <2>7 DEF CollectInv
<1>11. CASE UNCHANGED vars
  <2>1. /\ UNCHANGED <<world, found, lost, err>> /\ over' = over /\ tries' = tries /\ phase' = phase
    BY <1>11 DEF vars
  <2>2. CASE phase # "returned"
    <3>1. phase \in {"next", "sending", "backoff"}
      BY <1>1, <2>2 DEF TypeOK
    <3> QED
      BY <1>1, <2>1, <3>1, NothingSettled
  <2>3. CASE phase = "returned"
    <3>1. /\ setup' = setup /\ mood' = mood /\ truth' = truth /\ tries' = tries /\ over' = over
          /\ found' = found /\ lost' = lost /\ err' = err /\ phase' = phase
          /\ Queries' = Queries /\ Attempts' = Attempts /\ \A n : Healthy(n)' = Healthy(n)
      BY <2>1, SameWorld
    <3>2. Current' = Current /\ Losses' = Losses
      BY <3>1 DEF Current, Losses
    <3>3. TypeOK'
      BY <1>1, <3>1 DEF TypeOK
    <3>4. LoopInTurn' /\ LossesHaveAReason' /\ NeverAnUndercount'
      BY <3>1, <3>2 DEF CollectInv, LoopInTurn, LossesHaveAReason, NeverAnUndercount
    <3> QED
      BY <3>1, <3>2, <3>3, <3>4 DEF CollectInv
  <2> QED
    BY <2>2, <2>3
<1> QED
  BY <1>2, <1>3, <1>5, <1>6, <1>7, <1>8, <1>9, <1>10, <1>11 DEF Next, Returned

\* The queries are settled one by one, each answered with its true count or lost
\* for a reason of its own or the deadline's, and the error is made of the losses
\* (Collect).
THEOREM CollectInvariant == Spec => []CollectInv
BY CollectInvInit, CollectInvNext, PTL DEF Spec

\* No number that is reported is quietly too small, whatever the endpoints
\* answer, how a Prometheus result splits it, and where the ceiling of
\* Elasticsearch lies (run, Collect, flatten).
THEOREM CountsAreTrue == Spec => []NeverAnUndercount
<1>1. CollectInv => NeverAnUndercount
  BY DEF CollectInv
<1> QED
  BY <1>1, CollectInvariant, PTL

\* However many queries fail around it, a query whose endpoint answers in full
\* has its finding when the deadline has held (Collect, httpx.Do).
THEOREM NeighboursAreIndependent == Spec => []NeighboursSurvive
<1>1. CollectInv => NeighboursSurvive
  <2> SUFFICES ASSUME CollectInv, phase = "returned", ~over, NEW n \in Queries, Healthy(n)
               PROVE  \E i \in DOMAIN found : found[i].n = n
    BY DEF NeighboursSurvive
  <2>1. TypeOK
    BY DEF CollectInv
  <2>2. n \in 1 .. Len(found) + Len(lost)
    <3>1. Queries = 1 .. Len(setup.queries) /\ Len(setup.queries) \in Nat
      BY <2>1, SetupFacts
    <3>2. ~(Current <= Len(setup.queries)) /\ Len(found) \in Nat /\ Len(lost) \in Nat
      BY CurrentFacts
    <3> QED
      BY <3>1, <3>2 DEF Current
  <2>3. n \in Losses \/ \E i \in DOMAIN found : found[i].n = n
    BY <2>2 DEF CollectInv, LoopInTurn
  <2>4. n \notin Losses
    BY DEF Losses, CollectInv, LossesHaveAReason
  <2> QED
    BY <2>3, <2>4
<1> QED
  BY <1>1, CollectInvariant, PTL

\* The line of errors keeps its limit for any messages, and up to eleven failures
\* are all named in it (QueryErrors).
THEOREM ErrorsNameTheLosses == Spec => []LossesAreNamed
<1>1. CollectInv => LossesAreNamed
  <2> SUFFICES ASSUME CollectInv, phase = "returned"
               PROVE  /\ err.bytes <= maxQueryErrors /\ err.failed = Len(lost)
                      /\ Len(lost) <= 11 => err.named = Losses
    BY DEF LossesAreNamed
  <2>1. TypeOK /\ err = QueryErrors(Len(setup.queries), lost)
    BY DEF CollectInv
  <2>2. Len(setup.queries) \in Nat /\ lost \in Seq([n : Nat, bytes : Nat])
    <3>1. Len(setup.queries) \in Nat /\ Queries \subseteq Nat
      BY <2>1, SetupFacts
    <3> QED
      BY <2>1, <3>1, LossesAreLoss
  <2>3. err.failed = Len(lost)
    BY <2>1, <2>2, QueryErrorsType
  <2>4. err.bytes <= maxQueryErrors
    <3>1. err.bytes \in 0 .. maxQueryErrors
      BY <2>1 DEF TypeOK
    <3> QED
      BY <3>1 DEF maxQueryErrors
  <2>5. \A i \in DOMAIN lost : lost[i].bytes >= HeadBytes
    BY DEF CollectInv, LossesHaveAReason
  <2>6. Len(lost) <= 11 => err.named = Losses
    BY <2>1, <2>2, <2>5, AllAreNamed DEF Losses
  <2> QED
    BY <2>3, <2>4, <2>6
<1> QED
  BY <1>1, CollectInvariant, PTL

-----------------------------------------------------------------------------
(* The source implements the collector of the runner, step by step.         *)

\* One more entry is one more value of each of its fields.
LEMMA OneMore ==
  ASSUME NEW S, NEW s \in Seq(S), NEW e \in S, NEW t, t = Append(s, e),
         NEW f, f = [i \in DOMAIN s |-> s[i].count],
         NEW g, g = [i \in DOMAIN t |-> t[i].count],
         NEW m, m = [i \in DOMAIN s |-> s[i].n],
         NEW k, k = [i \in DOMAIN t |-> t[i].n]
  PROVE  /\ Len(f) = Len(s) /\ Len(m) = Len(s)
         /\ Len(g) = Len(s) + 1 /\ SubSeq(g, 1, Len(s)) = f /\ g[Len(s) + 1] = e.count
         /\ k = Append(m, e.n)
<1> DEFINE n == Len(s)
<1>1. n \in Nat /\ DOMAIN s = 1 .. n
  BY LenProperties
<1>2. DOMAIN t = 1 .. n + 1 /\ t[n + 1] = e /\ \A i \in 1 .. n : t[i] = s[i]
  <2>1. t \in Seq(S) /\ Len(t) = n + 1 /\ t[n + 1] = e /\ \A i \in 1 .. n : t[i] = s[i]
    BY AppendProperties
  <2>2. DOMAIN t = 1 .. Len(t)
    BY <2>1, LenProperties
  <2> QED
    BY <2>1, <2>2
<1> HIDE DEF n
<1>3. f = [i \in 1 .. n |-> s[i].count] /\ m = [i \in 1 .. n |-> s[i].n]
  BY <1>1
<1>4. g = [i \in 1 .. n + 1 |-> t[i].count] /\ k = [i \in 1 .. n + 1 |-> t[i].n]
  BY <1>2
<1>5. Len(f) = n /\ Len(m) = n /\ Len(g) = n + 1 /\ Len(k) = n + 1
  BY <1>1, <1>3, <1>4
<1>6. g[n + 1] = e.count /\ \A i \in 1 .. n : g[i] = f[i]
  BY <1>1, <1>2, <1>3, <1>4
<1>7. SubSeq(g, 1, n) = f
  <2>1. SubSeq(g, 1, n) = [i \in 1 .. n |-> g[i]]
    BY <1>1, <1>4
  <2> QED
    BY <1>3, <1>6, <2>1
<1>8. k = Append(m, e.n)
  <2>1. Append(m, e.n) = [i \in 1 .. n + 1 |-> IF i = n + 1 THEN e.n ELSE m[i]]
    BY <1>1, <1>3
  <2>2. \A i \in 1 .. n + 1 : t[i].n = IF i = n + 1 THEN e.n ELSE m[i]
    BY <1>1, <1>2, <1>3
  <2> QED
    BY <1>4, <2>1, <2>2
<1> QED
  BY <1>5, <1>6, <1>7, <1>8 DEF n

\* A source that has asked nothing is a collector of DigestRun that has asked
\* nothing.
LEMMA ViewInit == Init => View!Init
<1> SUFFICES ASSUME Init PROVE View!Init
  OBVIOUS
<1>1. Len(setup.queries) \in Nat \ {0}
  BY CollectInvInit, SetupFacts DEF CollectInv
<1>2. found = <<>> /\ lost = <<>> /\ phase = "next" /\ err = NoError
  BY DEF Init
<1>3. [i \in DOMAIN found |-> found[i].count] = <<>> /\ [i \in DOMAIN lost |-> lost[i].n] = <<>>
  BY <1>2
<1>4. err.failed = 0 /\ err.total = 0 /\ err.named = {}
  BY <1>2 DEF NoError
<1> QED
  BY <1>1, <1>2, <1>3, <1>4 DEF View!Init

\* Requests, retries and waits inside of one query are no step of the collector
\* of DigestRun.
LEMMA ViewUnchanged ==
  ASSUME setup' = setup, found' = found, lost' = lost, err' = err,
         (phase' = "returned") = (phase = "returned")
  PROVE  UNCHANGED View!vars
BY DEF View!vars, View!error

\* What the runner counts as settled.
LEMMA ViewSettled ==
  ASSUME CollectInv
  PROVE  /\ Len([i \in DOMAIN found |-> found[i].count]) = Len(found)
         /\ Len([i \in DOMAIN lost |-> lost[i].n]) = Len(lost)
         /\ View!Settled = Len(found) + Len(lost)
<1>1. /\ found \in Seq([n : Queries, count : Int, severity : Severity])
      /\ lost \in Seq([n : Queries, bytes : Nat])
  BY DEF CollectInv, TypeOK
<1>2. DOMAIN found = 1 .. Len(found) /\ DOMAIN lost = 1 .. Len(lost)
      /\ Len(found) \in Nat /\ Len(lost) \in Nat
  BY <1>1, LenProperties
<1>3. /\ Len([i \in DOMAIN found |-> found[i].count]) = Len(found)
      /\ Len([i \in DOMAIN lost |-> lost[i].n]) = Len(lost)
  BY <1>2
<1> QED
  BY <1>3 DEF View!Settled

\* A query that fails, for any reason, is one that the collector of DigestRun
\* loses.
LEMMA ViewLose ==
  ASSUME CollectInv, Current \in Queries, NEW why, Fail(why), phase # "returned"
  PROVE  View!Lose
<1>1. PICK b \in MessageBytes(why) : lost' = Append(lost, [n |-> Current, bytes |-> b])
  BY DEF Fail
<1>2. phase' = "next" /\ UNCHANGED <<world, over, found, err>>
  BY DEF Fail
<1>3. setup' = setup /\ found' = found /\ err' = err
  BY <1>2 DEF world
<1>4. Current = Len(found) + Len(lost) + 1 /\ Current <= Len(setup.queries)
      /\ Len(found) + Len(lost) < Len(setup.queries) /\ Current \in Nat
  <2>1. Current <= Len(setup.queries) /\ Len(found) \in Nat /\ Len(lost) \in Nat
    BY CurrentFacts
  <2>2. Len(setup.queries) \in Nat
    BY SetupFacts DEF CollectInv
  <2> QED
    BY <2>1, <2>2 DEF Current
<1>5. [i \in DOMAIN lost' |-> lost'[i].n] = Append([i \in DOMAIN lost |-> lost[i].n], Current)
  <2> DEFINE e == [n |-> Current, bytes |-> b]
             S == [n : Queries, bytes : Nat] \cup {e}
  <2>1. lost \in Seq([n : Queries, bytes : Nat])
    BY DEF CollectInv, TypeOK
  <2>2. lost \in Seq(S) /\ e \in S /\ e.n = Current /\ lost' = Append(lost, e)
    <3>1. lost' = Append(lost, e) /\ e.n = Current
      BY <1>1
    <3> DEFINE R == [n : Queries, bytes : Nat]
    <3>2. lost \in Seq(R)
      BY <2>1
    <3> HIDE DEF e, R
    <3>3. lost \in Seq(R \cup {e})
      BY <3>2
    <3> QED
      BY <3>1, <3>3 DEF R
  <2> HIDE DEF e, S
  <2> QED
    BY <2>2, OneMore
<1>6. View!Settled = Len(found) + Len(lost)
  BY ViewSettled
<1> QED
  BY <1>2, <1>3, <1>4, <1>5, <1>6 DEF View!Lose, View!error

\* A query that is scored is one that the collector of DigestRun answers.
LEMMA ViewAnswer ==
  ASSUME CollectInv, Current \in Queries, phase # "returned", NEW c \in Int,
         found' = Append(found, [n |-> Current, count |-> c, severity |-> Score(c, Query)]),
         phase' = "next", UNCHANGED <<world, lost, err>>
  PROVE  View!Answer
<1>1. setup' = setup /\ lost' = lost /\ err' = err
  BY DEF world
<1>2. Len(found) + Len(lost) < Len(setup.queries)
  <2>1. Current <= Len(setup.queries) /\ Len(found) \in Nat /\ Len(lost) \in Nat
    BY CurrentFacts
  <2>2. Len(setup.queries) \in Nat
    BY SetupFacts DEF CollectInv
  <2> QED
    BY <2>1, <2>2 DEF Current
<1> DEFINE f == [i \in DOMAIN found |-> found[i].count]
           g == [i \in DOMAIN found' |-> found'[i].count]
<1>3. Len(f) = Len(found) /\ Len(g) = Len(found) + 1 /\ SubSeq(g, 1, Len(found)) = f
      /\ g[Len(found) + 1] = c
  <2> DEFINE e == [n |-> Current, count |-> c, severity |-> Score(c, Query)]
             S == [n : Queries, count : Int, severity : Severity]
  <2>1. found \in Seq(S)
    BY DEF CollectInv, TypeOK
  <2>2. e \in S /\ e.count = c /\ found' = Append(found, e)
    BY DEF Score, Severity, SeverityInfo, SeverityWarning, SeverityCritical
  <2> HIDE DEF e, S
  <2> QED
    BY <2>1, <2>2, OneMore
<1>4. View!Settled = Len(found) + Len(lost)
  BY ViewSettled
<1> HIDE DEF f, g
<1>5. Len(g) = Len(f) + 1 /\ SubSeq(g, 1, Len(f)) = f /\ g[Len(g)] \in Int
  BY <1>3
<1>6. [i \in DOMAIN lost |-> lost[i].n]' = [i \in DOMAIN lost |-> lost[i].n]
  BY <1>1
<1>7. (phase = "returned")' = (phase = "returned")
  OBVIOUS
<1> QED
  BY <1>1, <1>2, <1>4, <1>5, <1>6, <1>7 DEF View!Answer, View!error, f, g

\* What QueryErrors makes of the losses is the error the collector of DigestRun
\* returns: it counts them all, names none but them, and all up to eleven.
LEMMA ViewReturn ==
  ASSUME CollectInv, phase # "returned", phase' = "returned",
         View!Settled = Len(setup.queries), UNCHANGED <<setup, found, lost>>,
         err' = QueryErrors(Len(setup.queries), lost)
  PROVE  View!Return
<1> DEFINE size == Len(setup.queries)
           places == [i \in DOMAIN lost |-> lost[i].n]
           e == QueryErrors(size, lost)
<1>1. size \in Nat /\ lost \in Seq([n : Nat, bytes : Nat])
  <2>1. TypeOK
    BY DEF CollectInv
  <2>2. Len(setup.queries) \in Nat /\ Queries \subseteq Nat
    BY <2>1, SetupFacts
  <2> QED
    BY <2>1, <2>2, LossesAreLoss
<1>2. Len(places) = Len(lost) /\ (places = <<>> <=> lost = <<>>)
      /\ {places[i] : i \in DOMAIN places} = {lost[i].n : i \in DOMAIN lost}
  BY <1>1
<1>3. e.failed = Len(lost) /\ e.total = (IF lost = <<>> THEN 0 ELSE size)
      /\ e.named \subseteq {lost[i].n : i \in DOMAIN lost}
  <2> HIDE DEF size
  <2> QED
    BY <1>1, ErrorSays
<1>4. Len(lost) <= 11 => e.named = {lost[i].n : i \in DOMAIN lost}
  <2>1. \A i \in DOMAIN lost : lost[i].bytes >= HeadBytes
    BY DEF CollectInv, LossesHaveAReason
  <2> HIDE DEF size
  <2> QED
    BY <1>1, <2>1, AllAreNamed
<1>5. err' = e
  OBVIOUS
<1> HIDE DEF e
<1> QED
  BY <1>2, <1>3, <1>4, <1>5 DEF View!Return

\* Every step of a source is a step of the collector of DigestRun, or none.
LEMMA ViewNext == CollectInv /\ [Next]_vars => [View!Next]_(View!vars)
<1> SUFFICES ASSUME CollectInv, [Next]_vars PROVE View!Next \/ UNCHANGED View!vars
  OBVIOUS
<1>0. phase \in {"sending", "backoff"} => Current \in Queries
  BY CurrentFacts
<1>1. ASSUME UNCHANGED <<world, found, lost, err>>, (phase' = "returned") = (phase = "returned")
      PROVE  UNCHANGED View!vars
  BY <1>1, ViewUnchanged DEF world
<1>2. ASSUME BackOff, phase = "sending"
      PROVE  UNCHANGED View!vars
  BY <1>1, <1>2 DEF BackOff
<1>3. CASE Begin
  BY <1>1, <1>3 DEF Begin
<1>4. CASE TemplateFails
  BY <1>4, ViewLose DEF TemplateFails, View!Next
<1>5. CASE TransportFails
  <2>1. phase = "sending" /\ (BackOff \/ Fail("transport"))
    BY <1>5 DEF TransportFails
  <2> QED
    BY <1>0, <1>2, <2>1, ViewLose DEF View!Next
<1>6. CASE Respond
  <2>1. phase = "sending" /\ Current \in Queries
    BY <1>0, <1>6 DEF Respond
  <2>2. \/ BackOff
        \/ \E why : Fail(why)
        \/ /\ \E c : found' = Append(found, [n |-> Current, count |-> c, severity |-> Score(c, Query)])
           /\ phase' = "next" /\ UNCHANGED <<world, lost, err>>
    BY <1>6 DEF Respond
  <2>3. CASE \E why : Fail(why)
    BY <2>1, <2>3, ViewLose DEF View!Next
  <2>4. CASE /\ \E c : found' = Append(found, [n |-> Current, count |-> c, severity |-> Score(c, Query)])
             /\ phase' = "next" /\ UNCHANGED <<world, lost, err>>
    <3>1. PICK c : found' = Append(found, [n |-> Current, count |-> c, severity |-> Score(c, Query)])
      BY <2>4
    <3> DEFINE e == [n |-> Current, count |-> c, severity |-> Score(c, Query)]
    <3>2. c \in Int
      <4>1. CollectInv'
        BY CollectInvNext
      <4>2. found' \in Seq([n : Queries', count : Int, severity : Severity])
        BY <4>1 DEF CollectInv, TypeOK
      <4>3. found \in Seq([n : Queries, count : Int, severity : Severity])
        BY DEF CollectInv, TypeOK
      <4>4. Len(found') = Len(found) + 1 /\ found'[Len(found) + 1] = e /\ Len(found) \in Nat
        <5> DEFINE S == [n : Queries, count : Int, severity : Severity]
        <5>1. found \in Seq(S \cup {e}) /\ found' = Append(found, e)
          <6>1. found' = Append(found, e) /\ found \in Seq(S)
            BY <3>1, <4>3
          <6> HIDE DEF S, e
          <6> QED
            BY <6>1
        <5> HIDE DEF S, e
        <5> QED
          BY <5>1, AppendProperties, LenProperties
      <4>5. e.count \in Int
        <5> DEFINE R == [n : Queries', count : Int, severity : Severity]
        <5>1. found' \in Seq(R)
          BY <4>2
        <5>2. e \in R
          <6> HIDE DEF R, e
          <6> QED
            BY <4>4, <5>1, ElementOfSeq
        <5> QED
          BY <5>2
      <4> QED
        BY <4>5
    <3> QED
      BY <2>1, <2>4, <3>1, <3>2, ViewAnswer DEF View!Next
  <2> QED
    BY <1>2, <2>1, <2>2, <2>3, <2>4
<1>7. CASE Retry
  BY <1>1, <1>7 DEF Retry
<1>8. CASE ContextEnds
  <2>1. phase \in {"sending", "backoff"} /\ Fail("context")
    BY <1>8 DEF ContextEnds
  <2> QED
    BY <1>0, <2>1, ViewLose DEF View!Next
<1>9. CASE Expire
  BY <1>1, <1>9 DEF Expire
<1>10. CASE Return
  <2>1. /\ phase = "next" /\ phase' = "returned" /\ Current \notin Queries
        /\ setup' = setup /\ found' = found /\ lost' = lost
        /\ err' = QueryErrors(Len(setup.queries), lost)
    BY <1>10 DEF Return, world
  <2>2. Len(found) + Len(lost) = Len(setup.queries)
    <3>1. /\ ~(Current <= Len(setup.queries)) /\ Current <= Len(setup.queries) + 1
          /\ Len(found) \in Nat /\ Len(lost) \in Nat
      BY <2>1, CurrentFacts
    <3>2. Len(setup.queries) \in Nat
      BY SetupFacts DEF CollectInv
    <3> QED
      BY <3>1, <3>2 DEF Current
  <2>3. View!Settled = Len(setup.queries)
    BY <2>2, ViewSettled
  <2>4. View!Return
    BY <2>1, <2>3, ViewReturn
  <2> QED
    BY <2>4 DEF View!Next
<1>11. CASE UNCHANGED vars
  BY <1>1, <1>11 DEF vars
<1> QED
  BY <1>3, <1>4, <1>5, <1>6, <1>7, <1>8, <1>9, <1>10, <1>11 DEF Next, Returned

\* The steps of a source are those the runner knows of: the queries are settled
\* one by one in their order, and it returns once, after the last.  That it does
\* return is the part of ImplementsCollector that needs fairness (Collect,
\* Runner.collect).
THEOREM SourceStepsAreACollectors == Spec => View!Init /\ [][View!Next]_(View!vars)
BY ViewInit, ViewNext, CollectInvariant, PTL DEF Spec
=============================================================================
