---------------------------- MODULE HistoryProofs ---------------------------
(***************************************************************************)
(* Theorems about History, for every set of processes, every limit and     *)
(* every number of runs and crashes; those that need the file for one      *)
(* process alone say so.                                                   *)
(***************************************************************************)
EXTENDS History, SequenceTheorems, TLAPS

-----------------------------------------------------------------------------
(* The limit.                                                               *)

\* The number of entries to keep is positive, whatever is configured.
LEMMA KeepType == \A k \in Int : Keep(k) \in Nat \ {0}
BY DEF Keep, DefaultKeep

-----------------------------------------------------------------------------
(* Places in a list that has each of its entries once.                      *)

\* In a list without repetitions an entry has one place.
LEMMA PlaceOfEntry ==
  ASSUME NEW U, NEW a \in Seq(U), OnceEach(a)
  PROVE  /\ DOMAIN a = 1 .. Len(a) /\ Len(a) \in Nat
         /\ \A i \in 1 .. Len(a) : Place(a, a[i]) = i
         /\ \A r \in Elements(a) : Place(a, r) \in 1 .. Len(a) /\ a[Place(a, r)] = r
<1>1. DOMAIN a = 1 .. Len(a) /\ Len(a) \in Nat
  BY LenProperties
<1>2. \A i \in 1 .. Len(a) : Place(a, a[i]) = i
  BY <1>1 DEF Place, OnceEach
<1>3. \A r \in Elements(a) : Place(a, r) \in 1 .. Len(a) /\ a[Place(a, r)] = r
  BY <1>1, <1>2 DEF Elements
<1> QED
  BY <1>1, <1>2, <1>3

\* Appending a new entry gives it the last place and moves no other.
LEMMA AppendNew ==
  ASSUME NEW U, NEW a \in Seq(U), OnceEach(a), NEW r \in U, r \notin Elements(a)
  PROVE  /\ Append(a, r) \in Seq(U) /\ OnceEach(Append(a, r))
         /\ Elements(Append(a, r)) = Elements(a) \cup {r}
         /\ \A q \in Elements(a) : Place(Append(a, r), q) = Place(a, q)
         /\ Place(Append(a, r), r) = Len(a) + 1
<1> DEFINE b == Append(a, r)
           n == Len(a)
<1>1. n \in Nat /\ DOMAIN a = 1 .. n
  BY LenProperties
<1>2. b \in Seq(U) /\ Len(b) = n + 1 /\ (\A i \in 1 .. n : b[i] = a[i]) /\ b[n + 1] = r
  BY AppendProperties
<1>3. DOMAIN b = 1 .. n + 1
  BY <1>2, LenProperties
<1> HIDE DEF b, n
<1>4. \A i \in 1 .. n : a[i] # r
  BY <1>1 DEF Elements
<1>5. OnceEach(b)
  <2> SUFFICES ASSUME NEW i \in 1 .. n + 1, NEW j \in 1 .. n + 1, b[i] = b[j]
               PROVE  i = j
    BY <1>3 DEF OnceEach
  <2>1. CASE i = n + 1 /\ j = n + 1
    BY <2>1
  <2>2. CASE i = n + 1 /\ j \in 1 .. n
    BY <2>2, <1>2, <1>4
  <2>3. CASE i \in 1 .. n /\ j = n + 1
    BY <2>3, <1>2, <1>4
  <2>4. CASE i \in 1 .. n /\ j \in 1 .. n
    BY <2>4, <1>1, <1>2 DEF OnceEach
  <2> QED
    BY <1>1, <2>1, <2>2, <2>3, <2>4
<1>6. Elements(b) = Elements(a) \cup {r}
  <2>1. Elements(b) = {b[i] : i \in 1 .. n + 1} /\ Elements(a) = {a[i] : i \in 1 .. n}
    BY <1>1, <1>3 DEF Elements
  <2>2. 1 .. n + 1 = (1 .. n) \cup {n + 1}
    BY <1>1
  <2> QED
    BY <1>2, <2>1, <2>2
<1>7. ASSUME NEW q \in Elements(a)
      PROVE  Place(b, q) = Place(a, q)
  <2>1. Place(a, q) \in 1 .. n /\ a[Place(a, q)] = q
    BY PlaceOfEntry DEF n
  <2>2. Place(a, q) \in 1 .. Len(b) /\ b[Place(a, q)] = q
    BY <1>1, <1>2, <2>1
  <2> QED
    BY <1>2, <1>5, <2>2, PlaceOfEntry
<1>8. Place(b, r) = n + 1
  BY <1>1, <1>2, <1>5, PlaceOfEntry
<1> QED
  BY <1>2, <1>5, <1>6, <1>7, <1>8 DEF b, n

-----------------------------------------------------------------------------
(* Lists in the order of the appends.                                       *)

\* A list in the order of the appends stays so when one of both or both get the
\* next entry.
LEMMA InOrderAppend ==
  ASSUME NEW U, NEW a \in Seq(U), OnceEach(a), NEW r \in U, r \notin Elements(a),
         NEW s \in Seq(U), InOrder(s, a)
  PROVE  InOrder(s, Append(a, r)) /\ InOrder(Append(s, r), Append(a, r))
<1> DEFINE b == Append(a, r)
           n == Len(s)
           t == Append(s, r)
<1>1. n \in Nat /\ DOMAIN s = 1 .. n
  BY LenProperties
<1>2. t \in Seq(U) /\ Len(t) = n + 1 /\ (\A i \in 1 .. n : t[i] = s[i]) /\ t[n + 1] = r
  BY AppendProperties
<1>3. DOMAIN t = 1 .. n + 1
  BY <1>2, LenProperties
<1>4. /\ Elements(b) = Elements(a) \cup {r}
      /\ \A q \in Elements(a) : Place(b, q) = Place(a, q)
      /\ Place(b, r) = Len(a) + 1
  BY AppendNew
<1>5. \A q \in Elements(a) : Place(a, q) \in 1 .. Len(a)
  BY PlaceOfEntry
<1>6. Len(a) \in Nat
  BY LenProperties
<1>7. \A i \in 1 .. n : s[i] \in Elements(a)
  BY <1>1 DEF InOrder, Elements
<1>8. \A i, j \in 1 .. n : i < j => Place(a, s[i]) < Place(a, s[j])
  BY <1>1 DEF InOrder
<1> HIDE DEF b, n, t
<1>9. InOrder(s, b)
  <2>1. Elements(s) \subseteq Elements(b)
    BY <1>4 DEF InOrder
  <2>2. \A i, j \in 1 .. n : i < j => Place(b, s[i]) < Place(b, s[j])
    BY <1>4, <1>7, <1>8
  <2> QED
    BY <1>1, <2>1, <2>2 DEF InOrder
<1>10. InOrder(t, b)
  <2>1. \A i \in 1 .. n : t[i] \in Elements(b) /\ Place(b, t[i]) \in 1 .. Len(a)
    BY <1>2, <1>4, <1>5, <1>7
  <2>2. t[n + 1] \in Elements(b) /\ Place(b, t[n + 1]) = Len(a) + 1
    BY <1>2, <1>4
  <2>3. \A i \in 1 .. n + 1 : t[i] \in Elements(b)
    BY <1>1, <2>1, <2>2
  <2>4. ASSUME NEW i \in 1 .. n + 1, NEW j \in 1 .. n + 1, i < j
        PROVE  Place(b, t[i]) < Place(b, t[j])
    <3>1. i \in 1 .. n
      BY <1>1, <2>4
    <3>2. CASE j = n + 1
      BY <1>6, <2>1, <2>2, <3>1, <3>2
    <3>3. CASE j \in 1 .. n
      BY <1>2, <1>4, <1>7, <1>8, <2>4, <3>1, <3>3
    <3> QED
      BY <1>1, <3>2, <3>3
  <2> QED
    BY <1>3, <2>3, <2>4 DEF InOrder, Elements
<1> QED
  BY <1>9, <1>10 DEF b, t

\* The entries that truncate keeps, and where they were.
LEMMA Truncated ==
  ASSUME NEW U, NEW s \in Seq(U), NEW k \in Nat \ {0}
  PROVE  /\ truncate(s, k) \in Seq(U)
         /\ Len(s) <= k => truncate(s, k) = s
         /\ Len(s) > k =>
              /\ Len(truncate(s, k)) = k
              /\ \A i \in 1 .. k : truncate(s, k)[i] = s[Len(s) - k + i]
<1> DEFINE n == Len(s)
           t == SubSeq(s, n - k + 1, n)
<1>1. n \in Nat /\ \A i \in 1 .. n : s[i] \in U
  BY LenProperties, ElementOfSeq
<1>2. CASE n <= k
  BY <1>1, <1>2 DEF truncate
<1>3. CASE n > k
  <2>1. truncate(s, k) = t
    BY <1>3 DEF truncate
  <2> HIDE DEF n
  <2>2. \A i \in (n - k + 1) .. n : s[i] \in U
    BY <1>1, <1>3
  <2>3. n - k + 1 \in Int /\ n \in Int
    BY <1>1
  <2>4. /\ t \in Seq(U) /\ Len(t) = IF n - k + 1 <= n THEN n - (n - k + 1) + 1 ELSE 0
        /\ \A i \in 1 .. n - (n - k + 1) + 1 : t[i] = s[n - k + 1 + i - 1]
    <3> DEFINE m == n - k + 1
    <3>1. m \in Int /\ n \in Int /\ \A i \in m .. n : s[i] \in U
      BY <2>2, <2>3
    <3> HIDE DEF m
    <3>2. /\ SubSeq(s, m, n) \in Seq(U) /\ Len(SubSeq(s, m, n)) = IF m <= n THEN n - m + 1 ELSE 0
          /\ \A i \in 1 .. n - m + 1 : SubSeq(s, m, n)[i] = s[m + i - 1]
      BY <3>1, SubSeqProperties
    <3> QED
      BY <3>2 DEF m
  <2> HIDE DEF t
  <2>5. n - (n - k + 1) + 1 = k /\ n - k + 1 <= n
    BY <1>1
  <2>6. Len(t) = k
    BY <2>4, <2>5
  <2>7. \A i \in 1 .. k : t[i] = s[n - k + 1 + i - 1]
    BY <2>4, <2>5
  <2>8. \A i \in 1 .. k : t[i] = s[n - k + i]
    <3>1. \A i \in 1 .. k : n - k + 1 + i - 1 = n - k + i
      BY <1>1
    <3> QED
      BY <2>7, <3>1
  <2> QED
    BY <1>1, <1>3, <2>1, <2>4, <2>6, <2>8 DEF n
<1> QED
  BY <1>1, <1>2, <1>3

\* Truncation keeps the order and the newest entry.
LEMMA TruncateKeepsOrder ==
  ASSUME NEW U, NEW a, NEW s \in Seq(U), NEW k \in Nat \ {0}, InOrder(s, a)
  PROVE  /\ truncate(s, k) \in Seq(U) /\ Len(truncate(s, k)) <= k
         /\ InOrder(truncate(s, k), a)
         /\ s # <<>> => /\ truncate(s, k) # <<>>
                        /\ truncate(s, k)[Len(truncate(s, k))] = s[Len(s)]
<1> DEFINE n == Len(s)
           t == truncate(s, k)
<1>1. n \in Nat /\ DOMAIN s = 1 .. n
  BY LenProperties
<1>2. t \in Seq(U) /\ (n <= k => t = s)
      /\ (n > k => Len(t) = k /\ \A i \in 1 .. k : t[i] = s[n - k + i])
  BY Truncated
<1>3. DOMAIN t = 1 .. Len(t)
  BY <1>2, LenProperties
<1> HIDE DEF n, t
<1>4. CASE n <= k
  BY <1>2, <1>4 DEF n, t
<1>5. CASE n > k
  <2>1. \A i \in 1 .. k : n - k + i \in 1 .. n
    BY <1>1, <1>5
  <2>2. Elements(t) \subseteq Elements(a)
    BY <1>1, <1>2, <1>3, <1>5, <2>1 DEF InOrder, Elements
  <2>3. \A i, j \in 1 .. k : i < j => n - k + i < n - k + j
    BY <1>1
  <2>4. \A i, j \in 1 .. n : i < j => Place(a, s[i]) < Place(a, s[j])
    BY <1>1 DEF InOrder
  <2>5. \A i, j \in 1 .. k : i < j => Place(a, t[i]) < Place(a, t[j])
    BY <1>2, <1>5, <2>1, <2>3, <2>4
  <2>6. InOrder(t, a)
    BY <1>2, <1>3, <1>5, <2>2, <2>5 DEF InOrder
  <2>7. Len(t) = k /\ k \in 1 .. k
    BY <1>2, <1>5
  <2>8. t[k] = s[n - k + k] /\ n - k + k = n
    BY <1>1, <1>2, <1>5, <2>7
  <2>9. t # <<>>
    BY <1>2, <2>7, EmptySeq
  <2> QED
    BY <1>2, <2>6, <2>7, <2>8, <2>9 DEF n, t
<1> QED
  BY <1>1, <1>4, <1>5

-----------------------------------------------------------------------------
(* Runs that make room for newer ones.                                      *)

\* Truncation adds nothing, and a list that is longer than the limit is cut to it.
LEMMA TruncateAddsNothing ==
  ASSUME NEW U, NEW s \in Seq(U), NEW k \in Nat \ {0}
  PROVE  /\ Elements(truncate(s, k)) \subseteq Elements(s)
         /\ Len(s) > k => Len(truncate(s, k)) = k
<1> DEFINE n == Len(s)
           t == truncate(s, k)
<1>1. n \in Nat /\ DOMAIN s = 1 .. n
  BY LenProperties
<1>2. t \in Seq(U) /\ (n <= k => t = s)
      /\ (n > k => Len(t) = k /\ \A i \in 1 .. k : t[i] = s[n - k + i])
  BY Truncated
<1>3. DOMAIN t = 1 .. Len(t)
  BY <1>2, LenProperties
<1> HIDE DEF n, t
<1>4. CASE n <= k
  BY <1>1, <1>2, <1>4 DEF n, t
<1>5. CASE n > k
  <2>1. \A i \in 1 .. k : n - k + i \in 1 .. n
    BY <1>1, <1>5
  <2>2. Elements(t) \subseteq Elements(s)
    BY <1>1, <1>2, <1>3, <1>5, <2>1 DEF Elements
  <2> QED
    BY <1>2, <2>2 DEF n, t
<1> QED
  BY <1>1, <1>4, <1>5

\* A run that truncate drops makes room for a full list of newer ones.
LEMMA DroppedMakesRoom ==
  ASSUME NEW U, NEW a \in Seq(U), NEW s \in Seq(U), InOrder(s, a),
         NEW k \in Nat \ {0},
         NEW r \in Elements(s), r \notin Elements(truncate(s, k))
  PROVE  MadeRoom(truncate(s, k), a, k, r)
<1> DEFINE n == Len(s)
           t == truncate(s, k)
<1>1. n \in Nat /\ DOMAIN s = 1 .. n
  BY LenProperties
<1>2. t \in Seq(U) /\ (n <= k => t = s)
      /\ (n > k => Len(t) = k /\ \A i \in 1 .. k : t[i] = s[n - k + i])
  BY Truncated
<1>3. DOMAIN t = 1 .. Len(t)
  BY <1>2, LenProperties
<1> HIDE DEF n, t
<1>4. r \notin Elements(t)
  BY DEF t
<1>5. n > k
  BY <1>1, <1>2, <1>4
<1>6. PICK i \in 1 .. n : s[i] = r
  BY <1>1 DEF Elements
<1>7. i <= n - k
  <2> SUFFICES ASSUME i > n - k PROVE FALSE
    BY <1>1
  <2>1. i - (n - k) \in 1 .. k /\ n - k + (i - (n - k)) = i
    BY <1>1
  <2>2. t[i - (n - k)] = r
    BY <1>2, <1>5, <1>6, <2>1
  <2> QED
    BY <1>2, <1>3, <1>4, <1>5, <2>1, <2>2 DEF Elements
<1>8. \A j \in 1 .. k : n - k + j \in 1 .. n /\ i < n - k + j
  BY <1>1, <1>5, <1>7
<1>9. \A j, l \in 1 .. n : j < l => Place(a, s[j]) < Place(a, s[l])
  BY <1>1 DEF InOrder
<1>10. ASSUME NEW j \in 1 .. k
       PROVE  Place(a, t[j]) > Place(a, r)
  <2>1. Place(a, s[i]) < Place(a, s[n - k + j])
    BY <1>8, <1>9
  <2> QED
    BY <1>2, <1>5, <1>6, <2>1
<1>11. \A q \in Elements(t) : Place(a, q) > Place(a, r)
  BY <1>2, <1>3, <1>5, <1>10 DEF Elements
<1> QED
  BY <1>2, <1>5, <1>11 DEF MadeRoom, t

-----------------------------------------------------------------------------
(* The inductive invariant of any number of processes.                      *)

\* The empty list is in order.
LEMMA EmptyInOrder ==
  ASSUME NEW a
  PROVE  <<>> \in Seq(Runs) /\ Len(<<>>) = 0 /\ InOrder(<<>>, a)
BY EmptySeq DEF InOrder, Elements

\* A store that is not open has its type.
LEMMA ClosedType == Closed \in StoreType
<1>1. DefaultKeep \in Nat \ {0} /\ <<>> \in Seq(Runs) /\ NoRun \in Runs \cup {NoRun}
  BY EmptySeq DEF DefaultKeep
<1> QED
  BY <1>1 DEF Closed, StoreType

\* There is no file, no run and no open store at the start.
LEMMA HistoryInit == Init => HistoryInv
<1> SUFFICES ASSUME Init PROVE HistoryInv
  OBVIOUS
<1> USE DEF Init
<1>1. <<>> \in Seq(Runs) /\ InOrder(<<>>, appended) /\ Elements(<<>>) = {}
  BY EmptyInOrder DEF Elements
<1>2. TypeOK
  <2>1. run \in [Runs -> RunType]
    BY DEF RunType
  <2>2. store \in [Procs -> StoreType]
    BY ClosedType
  <2>3. file \in [whole : BOOLEAN, entries : Seq(Runs)]
    BY <1>1 DEF NoFile
  <2> QED
    BY <1>1, <2>1, <2>2, <2>3 DEF TypeOK
<1>3. RunsHold
  <2>1. \A r \in Runs : run[r].stage = "new"
    OBVIOUS
  <2> QED
    BY <1>1, <2>1 DEF RunsHold, OnceEach, InProgress
<1>4. FileIsASnapshot
  BY <1>1 DEF FileIsASnapshot, NoFile
<1>5. ASSUME NEW p \in Procs
      PROVE  StoreHolds(p)
  <2>1. store[p] = Closed
    OBVIOUS
  <2> QED
    BY <1>1, <2>1 DEF StoreHolds, Closed
<1> QED
  BY <1>2, <1>3, <1>4, <1>5 DEF HistoryInv

\* What a step leaves alone.
LEMMA RunsKept ==
  ASSUME HistoryInv, UNCHANGED <<run, file, appended, acked>>,
         \A q \in Procs : store[q].up => store'[q].up
  PROVE  RunsHold' /\ FileIsASnapshot'
<1>1. FileIsASnapshot'
  BY DEF HistoryInv, FileIsASnapshot
<1>2. \A r \in Runs : InProgress(r) => store'[run[r].proc].up
  BY DEF HistoryInv, RunsHold, InProgress
<1> QED
  BY <1>1, <1>2 DEF HistoryInv, RunsHold, InProgress

\* What holds of a store is kept by the steps of other processes.
LEMMA StoreKept ==
  ASSUME HistoryInv, NEW q \in Procs, store'[q] = store[q],
         \A h \in Runs : run[h] = [stage |-> "appending", proc |-> q] => run'[h] = run[h],
         \A s \in Seq(Runs) : InOrder(s, appended) => InOrder(s, appended')
  PROVE  StoreHolds(q)'
<1>1. StoreHolds(q) /\ store[q] \in StoreType
  BY DEF HistoryInv, TypeOK
<1>2. store[q].entries \in Seq(Runs) /\ store[q].holder \in Runs \cup {NoRun}
  BY <1>1 DEF StoreType
<1>3. InOrder(store[q].entries, appended')
  BY <1>1, <1>2 DEF StoreHolds
<1>4. store[q].holder # NoRun => run'[store[q].holder] = [stage |-> "appending", proc |-> q]
  BY <1>1, <1>2 DEF StoreHolds
<1> QED
  BY <1>1, <1>3, <1>4 DEF StoreHolds

\* A step that only changes what process p holds.
LEMMA OneStoreStep ==
  ASSUME HistoryInv, NEW p \in Procs, NEW x \in StoreType, store' = [store EXCEPT ![p] = x], x.up,
         UNCHANGED <<run, file, appended, acked>>, crashes' \in Nat, StoreHolds(p)'
  PROVE  HistoryInv'
<1>1. TypeOK'
  BY DEF HistoryInv, TypeOK
<1>2. ASSUME NEW q \in Procs
      PROVE  StoreHolds(q)'
  <2>1. CASE q = p
    BY <2>1
  <2>2. CASE q # p
    <3>1. store'[q] = store[q]
      BY <2>2 DEF HistoryInv, TypeOK
    <3> QED
      BY <3>1, StoreKept
  <2> QED
    BY <2>1, <2>2
<1>3. \A q \in Procs : store[q].up => store'[q].up
  BY DEF HistoryInv, TypeOK
<1>4. RunsHold' /\ FileIsASnapshot'
  BY <1>3, RunsKept
<1> QED
  BY <1>1, <1>2, <1>4 DEF HistoryInv

\* Opening reads what a rename left, which is a snapshot.
LEMMA OpenHolds ==
  ASSUME HistoryInv, NEW p \in Procs, Open(p)
  PROVE  HistoryInv'
<1> USE DEF HistoryInv
<1>1. PICK k \in Keeps :
        \/ store' = [store EXCEPT ![p] = [Closed EXCEPT !.up = TRUE, !.keep = Keep(k),
                       !.disk = TRUE, !.entries = truncate(file.entries, Keep(k))]]
        \/ store' = [store EXCEPT ![p] = [Closed EXCEPT !.up = TRUE, !.keep = Keep(k)]]
  BY Zenon DEF Open
<1> DEFINE K == Keep(k)
           list == truncate(file.entries, K)
<1>2. K \in Nat \ {0} /\ K \in {Keep(n) : n \in Keeps}
  BY KeepType, HistoryAssumption
<1>3. file.entries \in Seq(Runs) /\ InOrder(file.entries, appended)
  BY DEF TypeOK, FileIsASnapshot
<1> HIDE DEF K
<1>4. list \in Seq(Runs) /\ Len(list) <= K /\ InOrder(list, appended)
  BY <1>2, <1>3, TruncateKeepsOrder
<1> HIDE DEF list
<1>5. UNCHANGED <<run, file, appended, acked, crashes>> /\ crashes' \in Nat
  BY DEF Open, TypeOK
<1> DEFINE Opened(d, e) == [up |-> TRUE, disk |-> d, keep |-> K, entries |-> e,
                            holder |-> NoRun, stage |-> "idle", raw |-> <<>>, temp |-> "none"]
<1>6. store' = [store EXCEPT ![p] = Opened(TRUE, list)]
      \/ store' = [store EXCEPT ![p] = Opened(FALSE, <<>>)]
  BY <1>1 DEF Closed, list, K
<1>7. ASSUME NEW d \in BOOLEAN, NEW e \in Seq(Runs), Len(e) <= K, InOrder(e, appended),
             store' = [store EXCEPT ![p] = Opened(d, e)]
      PROVE  HistoryInv'
  <2>1. Opened(d, e) \in StoreType
    BY <1>2, EmptySeq DEF StoreType
  <2>2. store'[p] = Opened(d, e)
    BY <1>7 DEF TypeOK
  <2>3. StoreHolds(p)'
    BY <1>2, <1>5, <1>7, <2>2 DEF StoreHolds
  <2> QED
    BY <1>5, <1>7, <2>1, <2>3, OneStoreStep, Zenon
<1>8. <<>> \in Seq(Runs) /\ Len(<<>>) <= K /\ InOrder(<<>>, appended)
  BY <1>2, EmptyInOrder
<1> HIDE DEF Opened
<1> QED
  BY <1>4, <1>6, <1>7, <1>8

\* The process that is in an Append.
LEMMA HolderHolds ==
  ASSUME HistoryInv, NEW p \in Procs, store[p].stage # "idle"
  PROVE  /\ store[p] \in StoreType
         /\ store[p].holder \in Runs /\ store[p].holder # NoRun
         /\ store[p].up /\ store[p].disk /\ run[store[p].holder] = [stage |-> "appending", proc |-> p]
         /\ store[p].entries # <<>> /\ store[p].entries[Len(store[p].entries)] = store[p].holder
         /\ store[p].keep \in {Keep(k) : k \in Keeps} /\ Len(store[p].entries) <= store[p].keep
         /\ InOrder(store[p].entries, appended)
<1>1. StoreHolds(p) /\ store[p] \in StoreType
  BY DEF HistoryInv, TypeOK
<1>2. store[p].holder # NoRun
  BY <1>1 DEF StoreHolds
<1>3. store[p].holder \in Runs
  BY <1>1, <1>2 DEF StoreType
<1>4. /\ store[p].up /\ store[p].disk /\ run[store[p].holder] = [stage |-> "appending", proc |-> p]
      /\ store[p].entries # <<>> /\ store[p].entries[Len(store[p].entries)] = store[p].holder
  BY <1>1, <1>2, Zenon DEF StoreHolds
<1>5. /\ store[p].keep \in {Keep(k) : k \in Keeps} /\ Len(store[p].entries) <= store[p].keep
      /\ InOrder(store[p].entries, appended)
  BY <1>1, <1>4, Zenon DEF StoreHolds
<1> QED
  BY <1>1, <1>2, <1>3, <1>4, <1>5

\* The steps before the rename keep the list that is about to become the file.
LEMMA PersistingHolds ==
  ASSUME HistoryInv, NEW p \in Procs, Marshal(p) \/ CreateTemp(p) \/ Write(p)
  PROVE  HistoryInv'
<1> DEFINE s == store[p]
<1>1. s.stage # "idle"
  BY DEF Marshal, CreateTemp, Write, Step
<1>2. StoreHolds(p) /\ store \in [Procs -> StoreType] /\ crashes \in Nat
  BY DEF HistoryInv, TypeOK
<1>3. UNCHANGED <<run, file, appended, acked>> /\ crashes' \in Nat
  BY <1>2 DEF Marshal, CreateTemp, Write, Step
<1> DEFINE Moved(x) ==
      /\ store' = [store EXCEPT ![p] = x]
      /\ x \in StoreType
      /\ x.up = s.up /\ x.disk = s.disk /\ x.keep = s.keep /\ x.entries = s.entries
      /\ x.holder = s.holder
      /\ x.stage \in {"create", "write", "rename"} /\ x.raw = s.entries
      /\ x.stage = "rename" => x.temp = "whole"
<1>4. ASSUME NEW x, Moved(x)
      PROVE  HistoryInv'
  <2>1. store'[p] = x
    BY <1>2, <1>4
  <2>2. StoreHolds(p)'
    BY <1>1, <1>3, <1>4, <2>1, HolderHolds DEF StoreHolds
  <2> QED
    BY <1>1, <1>3, <1>4, <2>2, HolderHolds, OneStoreStep
<1>5. s \in StoreType
  BY <1>2
<1>6. CASE Marshal(p)
  <2> DEFINE x == [s EXCEPT !.stage = "create", !.raw = s.entries]
  <2>1. store' = [store EXCEPT ![p] = x] /\ s.stage = "marshal"
    BY <1>6 DEF Marshal, Step
  <2>2. s.entries \in Seq(Runs)
    BY <1>2, <1>5, <2>1 DEF StoreType, StoreHolds
  <2> HIDE DEF s
  <2>3. x \in StoreType
    BY <1>5, <2>2 DEF StoreType
  <2>4. /\ x.up = s.up /\ x.disk = s.disk /\ x.keep = s.keep /\ x.entries = s.entries
        /\ x.holder = s.holder /\ x.stage = "create" /\ x.raw = s.entries
    BY <1>5, <2>2 DEF StoreType
  <2> HIDE DEF x
  <2>5. Moved(x)
    BY <2>1, <2>2, <2>3, <2>4
  <2> HIDE DEF Moved
  <2> QED
    BY <1>4, <2>5
<1>7. CASE CreateTemp(p)
  <2> DEFINE x == [s EXCEPT !.stage = "write", !.temp = "empty"]
  <2>1. store' = [store EXCEPT ![p] = x] /\ s.stage = "create"
    BY <1>7 DEF CreateTemp, Step
  <2>2. s.entries \in Seq(Runs) /\ s.raw = s.entries
    BY <1>2, <1>5, <2>1 DEF StoreType, StoreHolds
  <2> HIDE DEF s
  <2>3. x \in StoreType
    BY <1>5, <2>2 DEF StoreType
  <2>4. /\ x.up = s.up /\ x.disk = s.disk /\ x.keep = s.keep /\ x.entries = s.entries
        /\ x.holder = s.holder /\ x.stage = "write" /\ x.raw = s.raw
    BY <1>5, <2>2 DEF StoreType
  <2> HIDE DEF x
  <2>5. Moved(x)
    BY <2>1, <2>2, <2>3, <2>4
  <2> HIDE DEF Moved
  <2> QED
    BY <1>4, <2>5
<1>8. CASE Write(p)
  <2> DEFINE x == [s EXCEPT !.stage = "rename", !.temp = "whole"]
  <2>1. store' = [store EXCEPT ![p] = x] /\ s.stage = "write"
    BY <1>8 DEF Write, Step
  <2>2. s.entries \in Seq(Runs) /\ s.raw = s.entries
    BY <1>2, <1>5, <2>1 DEF StoreType, StoreHolds
  <2> HIDE DEF s
  <2>3. x \in StoreType
    BY <1>5, <2>2 DEF StoreType
  <2>4. /\ x.up = s.up /\ x.disk = s.disk /\ x.keep = s.keep /\ x.entries = s.entries
        /\ x.holder = s.holder /\ x.stage = "rename" /\ x.raw = s.raw /\ x.temp = "whole"
    BY <1>5, <2>2 DEF StoreType
  <2> HIDE DEF x
  <2>5. Moved(x)
    BY <2>1, <2>2, <2>3, <2>4
  <2> HIDE DEF Moved
  <2> QED
    BY <1>4, <2>5
<1> QED
  BY <1>6, <1>7, <1>8

\* The start of a run touches no store.
LEMMA StartHolds ==
  ASSUME HistoryInv, NEW p \in Procs, NEW r \in Runs, Start(p, r)
  PROVE  HistoryInv'
<1>1. /\ run' = [run EXCEPT ![r] = [stage |-> "running", proc |-> p]]
      /\ UNCHANGED <<store, file, appended, acked, crashes>>
      /\ run[r].stage = "new" /\ \A q \in Runs : q < r => run[q].stage # "new"
  BY DEF Start
<1>2. TypeOK /\ run \in [Runs -> RunType]
  BY DEF HistoryInv, TypeOK
<1>3. [stage |-> "running", proc |-> p] \in RunType
  BY DEF RunType
<1>4. TypeOK'
  BY <1>1, <1>2, <1>3 DEF TypeOK
<1>5. run'[r] = [stage |-> "running", proc |-> p] /\ \A q \in Runs : q # r => run'[q] = run[q]
  BY <1>1, <1>2
<1>6. RunsHold'
  <2>1. RunsHold
    BY DEF HistoryInv
  <2>2. \A q, t \in Runs : q < t /\ run'[t].stage # "new" => run'[q].stage # "new"
    BY <1>1, <1>5, <2>1 DEF RunsHold
  <2>3. \A t \in Runs : run'[t].stage # "new" => run'[t].proc \in Procs
    BY <1>5, <2>1 DEF RunsHold
  <2>4. \A t \in Elements(appended) : t \in Runs /\ t # r
    <3>1. \A t \in Elements(appended) : t \in Runs
      BY <1>2 DEF TypeOK, Elements
    <3> QED
      BY <1>1, <2>1, <3>1 DEF RunsHold
  <2>5. \A t \in acked : t \in Runs /\ t # r
    BY <1>1, <1>2, <2>1 DEF RunsHold, TypeOK
  <2>6. \A t \in Runs : InProgress(t)' => store[run'[t].proc].up
    <3>1. store[p].up
      BY DEF Start
    <3> QED
      BY <1>5, <2>1, <3>1 DEF RunsHold, InProgress
  <2> QED
    BY <1>1, <1>5, <2>1, <2>2, <2>3, <2>4, <2>5, <2>6 DEF RunsHold, InProgress
<1>7. ASSUME NEW q \in Procs PROVE StoreHolds(q)'
  <2>1. \A h \in Runs : run[h] = [stage |-> "appending", proc |-> q] => run'[h] = run[h]
    BY <1>1, <1>5
  <2> QED
    BY <1>1, <2>1, StoreKept
<1>8. FileIsASnapshot'
  BY <1>1 DEF HistoryInv, FileIsASnapshot
<1> QED
  BY <1>4, <1>6, <1>7, <1>8 DEF HistoryInv

\* A step of a run that is in progress.
LEMMA RunStep ==
  ASSUME HistoryInv, NEW r \in Runs, NEW stage \in {"finished", "appending", "persisted", "memory"},
         run' = [run EXCEPT ![r].stage = stage], InProgress(r),
         \A q \in Procs : store[q].up => store'[q].up,
         appended' \in Seq(Runs), OnceEach(appended'),
         Elements(appended) \subseteq Elements(appended'),
         Elements(appended') \subseteq Elements(appended) \cup {r},
         r \in Elements(appended') => stage # "finished",
         acked' = acked \/ (acked' = acked \cup {r} /\ stage = "persisted" /\ r \in Elements(appended'))
  PROVE  /\ run' \in [Runs -> RunType] /\ acked' \subseteq Runs
         /\ run'[r] = [stage |-> stage, proc |-> run[r].proc]
         /\ \A q \in Runs : q # r => run'[q] = run[q]
         /\ RunsHold'
<1>1. run \in [Runs -> RunType] /\ acked \subseteq Runs /\ RunsHold
  BY DEF HistoryInv, TypeOK
<1>2. run[r] = [stage |-> run[r].stage, proc |-> run[r].proc] /\ run[r].proc \in Procs \cup {"none"}
  BY <1>1 DEF RunType
<1>3. [run[r] EXCEPT !.stage = stage] = [stage |-> stage, proc |-> run[r].proc]
  BY <1>1 DEF RunType
<1>4. [stage |-> stage, proc |-> run[r].proc] \in RunType
  BY <1>2 DEF RunType
<1>5. run' = [run EXCEPT ![r] = [stage |-> stage, proc |-> run[r].proc]]
  BY <1>1, <1>3
<1>6. run' \in [Runs -> RunType] /\ run'[r] = [stage |-> stage, proc |-> run[r].proc]
      /\ \A q \in Runs : q # r => run'[q] = run[q]
  BY <1>1, <1>4, <1>5
<1>7. acked' \subseteq Runs
  BY <1>1
<1>8. run[r].stage # "new" /\ run'[r].stage # "new" /\ run'[r].stage = stage /\ run'[r].proc = run[r].proc
  BY <1>6 DEF InProgress
<1>9. RunsHold'
  <2>1. \A q, t \in Runs : q < t /\ run'[t].stage # "new" => run'[q].stage # "new"
    <3>1. \A t \in Runs : run'[t].stage # "new" <=> run[t].stage # "new"
      BY <1>6, <1>8
    <3> QED
      BY <1>1, <3>1 DEF RunsHold
  <2>2. \A t \in Runs : run'[t].stage # "new" => run'[t].proc \in Procs
    <3>1. run'[r].proc \in Procs
      BY <1>1, <1>8 DEF RunsHold
    <3>2. \A t \in Runs : run[t].stage # "new" => run[t].proc \in Procs
      BY <1>1 DEF RunsHold
    <3> QED
      BY <1>6, <3>1, <3>2
  <2>3. \A t \in Runs : InProgress(t)' => store'[run'[t].proc].up
    <3>1. \A t \in Runs : InProgress(t)' => InProgress(t) /\ run'[t].proc = run[t].proc
      BY <1>6, <1>8 DEF InProgress
    <3>2. \A t \in Runs : InProgress(t) => run[t].proc \in Procs /\ store[run[t].proc].up
      BY <1>1 DEF RunsHold, InProgress
    <3> QED
      BY <3>1, <3>2
  <2>4. \A t \in Elements(appended') : run'[t].stage \in {"appending", "persisted", "memory", "killed"}
    <3>1. \A t \in Elements(appended') : t \in Runs
      BY DEF Elements
    <3>2. \A t \in Elements(appended) : run[t].stage \in {"appending", "persisted", "memory", "killed"}
      BY <1>1 DEF RunsHold
    <3> QED
      BY <1>6, <1>8, <3>1, <3>2
  <2>5. \A t \in acked' : t \in Elements(appended') /\ run'[t].stage = "persisted"
    <3>1. \A t \in acked : t \in Runs /\ t # r /\ t \in Elements(appended) /\ run[t].stage = "persisted"
      BY <1>1 DEF RunsHold, InProgress
    <3> QED
      BY <1>6, <1>8, <3>1
  <2> QED
    BY <2>1, <2>2, <2>3, <2>4, <2>5 DEF RunsHold
<1> QED
  BY <1>6, <1>7, <1>9

\* The end of a run touches no store.
LEMMA FinishHolds ==
  ASSUME HistoryInv, NEW p \in Procs, NEW r \in Runs, Finish(p, r)
  PROVE  HistoryInv'
<1>1. /\ run' = [run EXCEPT ![r].stage = "finished"] /\ run[r] = [stage |-> "running", proc |-> p]
      /\ UNCHANGED <<store, file, appended, acked, crashes>>
  BY DEF Finish
<1>2. r \notin Elements(appended) /\ r \notin acked
  BY <1>1 DEF HistoryInv, RunsHold
<1>3. /\ run' \in [Runs -> RunType] /\ run'[r] = [stage |-> "finished", proc |-> run[r].proc]
      /\ \A q \in Runs : q # r => run'[q] = run[q]
      /\ RunsHold'
  <2> DEFINE stage == "finished"
  <2>1. stage \in {"finished", "appending", "persisted", "memory"} /\ run' = [run EXCEPT ![r].stage = stage]
    BY <1>1
  <2>2. InProgress(r) /\ acked' = acked /\ appended' = appended /\ store' = store
    BY <1>1 DEF InProgress
  <2>3. appended \in Seq(Runs) /\ OnceEach(appended)
    BY DEF HistoryInv, TypeOK, RunsHold
  <2> HIDE DEF stage
  <2> QED
    BY <1>2, <2>1, <2>2, <2>3, RunStep DEF stage
<1>4. TypeOK'
  BY <1>1, <1>3 DEF HistoryInv, TypeOK
<1>5. ASSUME NEW q \in Procs PROVE StoreHolds(q)'
  BY <1>1, <1>3, StoreKept
<1>6. FileIsASnapshot'
  BY <1>1 DEF HistoryInv, FileIsASnapshot
<1> QED
  BY <1>3, <1>4, <1>5, <1>6 DEF HistoryInv

\* The run that is appended, and the lists that get it.
LEMMA AppendedRun ==
  ASSUME HistoryInv, NEW p \in Procs, NEW r \in Runs, BeginAppend(p, r)
  PROVE  /\ r \notin Elements(appended) /\ r \notin acked /\ InProgress(r)
         /\ run[r].stage = "finished" /\ run[r].proc = p
         /\ store[p] \in StoreType /\ store[p].up /\ store[p].holder = NoRun /\ store[p].stage = "idle"
         /\ appended' = Append(appended, r) /\ appended' \in Seq(Runs) /\ OnceEach(appended')
         /\ Elements(appended') = Elements(appended) \cup {r}
         /\ \A s \in Seq(Runs) : InOrder(s, appended) =>
              InOrder(s, appended') /\ InOrder(Append(s, r), appended')
<1>1. run[r] = [stage |-> "finished", proc |-> p] /\ store[p].holder = NoRun
      /\ appended' = Append(appended, r)
  BY DEF BeginAppend
<1>2. r \notin Elements(appended) /\ r \notin acked /\ InProgress(r) /\ store[p].up
  BY <1>1 DEF HistoryInv, RunsHold, InProgress
<1>3. appended \in Seq(Runs) /\ OnceEach(appended) /\ store[p] \in StoreType /\ store[p].stage = "idle"
  BY <1>1 DEF HistoryInv, TypeOK, RunsHold, StoreHolds
<1>4. appended' \in Seq(Runs) /\ OnceEach(appended') /\ Elements(appended') = Elements(appended) \cup {r}
  BY <1>1, <1>2, <1>3, AppendNew
<1>5. \A s \in Seq(Runs) : InOrder(s, appended) =>
        InOrder(s, appended') /\ InOrder(Append(s, r), appended')
  BY <1>1, <1>2, <1>3, InOrderAppend
<1> QED
  BY <1>1, <1>2, <1>3, <1>4, <1>5

\* What the first step of Append makes of the list in memory: the old one with
\* the new entry, cut to its limit.
LEMMA BeginAppendStore ==
  ASSUME HistoryInv, NEW p \in Procs, NEW r \in Runs, BeginAppend(p, r)
  PROVE  LET s == store[p]
             list == truncate(Append(s.entries, r), s.keep)
         IN  /\ store' \in [Procs -> StoreType]
             /\ \A q \in Procs : q # p => store'[q] = store[q]
             /\ store'[p].up /\ store'[p].disk = s.disk /\ store'[p].keep = s.keep
             /\ store'[p].entries = list
             /\ s.disk => store'[p].holder = r /\ store'[p].stage = "marshal"
             /\ ~s.disk => store'[p].holder = NoRun /\ store'[p].stage = "idle"
             /\ s.entries \in Seq(Runs) /\ s.keep \in {Keep(k) : k \in Keeps}
             /\ list \in Seq(Runs) /\ Len(list) <= s.keep /\ list # <<>> /\ list[Len(list)] = r
             /\ InOrder(list, appended')
<1> DEFINE s == store[p]
           list == truncate(Append(s.entries, r), s.keep)
<1>1. /\ s \in StoreType /\ s.up /\ s.holder = NoRun /\ s.stage = "idle"
      /\ \A e \in Seq(Runs) : InOrder(e, appended) => InOrder(Append(e, r), appended')
  BY AppendedRun
<1>2. StoreHolds(p) /\ store \in [Procs -> StoreType]
  BY DEF HistoryInv, TypeOK
<1>3. /\ s.entries \in Seq(Runs) /\ InOrder(s.entries, appended)
      /\ s.keep \in Nat \ {0} /\ s.keep \in {Keep(k) : k \in Keeps}
  BY <1>1, <1>2 DEF StoreType, StoreHolds
<1>4. /\ Append(s.entries, r) \in Seq(Runs) /\ Append(s.entries, r) # <<>>
      /\ Append(s.entries, r)[Len(Append(s.entries, r))] = r
      /\ InOrder(Append(s.entries, r), appended')
  BY <1>1, <1>3, AppendProperties
<1>5. /\ list \in Seq(Runs) /\ Len(list) <= s.keep /\ InOrder(list, appended')
      /\ list # <<>> /\ list[Len(list)] = r
  <2> DEFINE l == Append(s.entries, r)
             k == s.keep
  <2>1. l \in Seq(Runs) /\ InOrder(l, appended') /\ k \in Nat \ {0} /\ l # <<>> /\ l[Len(l)] = r
    BY <1>3, <1>4
  <2> HIDE DEF l, k
  <2>2. /\ truncate(l, k) \in Seq(Runs) /\ Len(truncate(l, k)) <= k
        /\ InOrder(truncate(l, k), appended')
        /\ truncate(l, k) # <<>> /\ truncate(l, k)[Len(truncate(l, k))] = l[Len(l)]
    BY <2>1, TruncateKeepsOrder
  <2> QED
    BY <2>1, <2>2 DEF l, k
<1>6. store' = [store EXCEPT ![p] = IF s.disk
                  THEN [s EXCEPT !.entries = list, !.holder = r, !.stage = "marshal"]
                  ELSE [s EXCEPT !.entries = list]]
  BY <1>2 DEF BeginAppend
<1> HIDE DEF list
<1> DEFINE x == [s EXCEPT !.entries = list, !.holder = r, !.stage = "marshal"]
           y == [s EXCEPT !.entries = list]
<1>7. store'[p] = (IF s.disk THEN x ELSE y) /\ \A q \in Procs : q # p => store'[q] = store[q]
  BY <1>2, <1>6
<1>8. store' = [store EXCEPT ![p] = IF s.disk THEN x ELSE y]
  BY <1>6
<1> HIDE DEF s
<1>9. /\ x \in StoreType /\ x.up = s.up /\ x.disk = s.disk /\ x.keep = s.keep /\ x.entries = list
      /\ x.holder = r /\ x.stage = "marshal"
  BY <1>1, <1>5 DEF StoreType
<1>10. /\ y \in StoreType /\ y.up = s.up /\ y.disk = s.disk /\ y.keep = s.keep /\ y.entries = list
       /\ y.holder = s.holder /\ y.stage = s.stage
  BY <1>1, <1>5 DEF StoreType
<1> HIDE DEF x, y
<1>11. store' \in [Procs -> StoreType]
  BY <1>2, <1>8, <1>9, <1>10
<1>12. /\ store'[p].up /\ store'[p].disk = s.disk /\ store'[p].keep = s.keep
       /\ store'[p].entries = list
       /\ s.disk => store'[p].holder = r /\ store'[p].stage = "marshal"
       /\ ~s.disk => store'[p].holder = NoRun /\ store'[p].stage = "idle"
  BY <1>1, <1>7, <1>9, <1>10
<1> QED
  BY <1>3, <1>5, <1>7, <1>11, <1>12 DEF s, list

\* Append takes the mutex and puts its entry at the end of the list.
LEMMA BeginAppendHolds ==
  ASSUME HistoryInv, NEW p \in Procs, NEW r \in Runs, BeginAppend(p, r)
  PROVE  HistoryInv'
<1> DEFINE s == store[p]
           stage == IF s.disk THEN "appending" ELSE "memory"
<1>1. /\ run' = [run EXCEPT ![r].stage = stage]
      /\ UNCHANGED <<file, acked, crashes>>
  BY DEF BeginAppend
<1>2. /\ r \notin Elements(appended) /\ InProgress(r) /\ run[r].stage = "finished" /\ run[r].proc = p
      /\ appended' \in Seq(Runs) /\ OnceEach(appended')
      /\ Elements(appended') = Elements(appended) \cup {r}
  BY AppendedRun
<1>3. \A e \in Seq(Runs) : InOrder(e, appended) => InOrder(e, appended')
  BY AppendedRun
<1>4. /\ store' \in [Procs -> StoreType] /\ store'[p].up
      /\ \A q \in Procs : q # p => store'[q] = store[q]
  BY BeginAppendStore
<1>5. \A q \in Procs : store[q].up => store'[q].up
  BY <1>4
<1>6. stage \in {"finished", "appending", "persisted", "memory"} /\ stage # "finished"
  OBVIOUS
<1> HIDE DEF stage
<1>7. /\ run' \in [Runs -> RunType] /\ acked' \subseteq Runs
      /\ run'[r] = [stage |-> stage, proc |-> p]
      /\ \A q \in Runs : q # r => run'[q] = run[q]
      /\ RunsHold'
  BY <1>1, <1>2, <1>5, <1>6, RunStep
<1>8. TypeOK'
  BY <1>1, <1>2, <1>4, <1>7 DEF HistoryInv, TypeOK
<1>9. FileIsASnapshot'
  BY <1>1, <1>3 DEF HistoryInv, TypeOK, FileIsASnapshot
<1>10. ASSUME NEW q \in Procs PROVE StoreHolds(q)'
  <2>1. CASE q # p
    <3>1. \A h \in Runs : run[h] = [stage |-> "appending", proc |-> q] => run'[h] = run[h]
      BY <1>2, <1>7
    <3> QED
      BY <1>3, <1>4, <2>1, <3>1, StoreKept
  <2>2. CASE q = p
    <3> DEFINE t == store'[p]
    <3> DEFINE list == truncate(Append(s.entries, r), s.keep)
    <3>0. /\ t.up /\ t.disk = s.disk /\ t.keep = s.keep /\ t.entries = list
          /\ s.keep \in {Keep(k) : k \in Keeps}
          /\ list # <<>> /\ list[Len(list)] = r /\ Len(list) <= s.keep
          /\ InOrder(list, appended')
      BY BeginAppendStore, Zenon
    <3>1. /\ t.up /\ t.disk = s.disk /\ t.keep \in {Keep(k) : k \in Keeps}
          /\ t.entries # <<>> /\ t.entries[Len(t.entries)] = r /\ Len(t.entries) <= t.keep
          /\ InOrder(t.entries, appended')
      <4> HIDE DEF t, s, list
      <4> QED
        BY <3>0
    <3>2. /\ s.disk => t.holder = r /\ t.stage = "marshal"
          /\ ~s.disk => t.holder = NoRun /\ t.stage = "idle"
      BY BeginAppendStore, Zenon
    <3>3. s.disk => run'[r] = [stage |-> "appending", proc |-> p]
      BY <1>7 DEF stage
    <3>4. r # NoRun
      BY HistoryAssumption DEF Runs, NoRun
    <3> HIDE DEF t, s, list
    <3>5. /\ t.holder = NoRun <=> t.stage = "idle"
          /\ t.holder # NoRun => t.disk /\ t.holder = r /\ run'[t.holder] = [stage |-> "appending", proc |-> p]
          /\ t.stage \notin {"create", "write", "rename"}
      BY <3>1, <3>2, <3>3, <3>4
    <3> QED
      BY <2>2, <3>1, <3>5 DEF StoreHolds, t
  <2> QED
    BY <2>1, <2>2
<1> QED
  BY <1>7, <1>8, <1>9, <1>10 DEF HistoryInv

\* What a process gives back when its Append is over.
LEMMA ReleasedHolds ==
  ASSUME HistoryInv, NEW p \in Procs, store[p].stage # "idle"
  PROVE  LET s == store[p]
             x == Released(p)
         IN  /\ x \in StoreType /\ x.up = s.up /\ x.disk = s.disk /\ x.keep = s.keep
             /\ x.entries = s.entries /\ x.holder = NoRun /\ x.stage = "idle"
<1> DEFINE s == store[p]
           x == [s EXCEPT !.holder = NoRun, !.stage = "idle", !.temp = "none", !.raw = <<>>]
<1>1. s \in StoreType /\ <<>> \in Seq(Runs)
  BY HolderHolds, EmptySeq
<1> HIDE DEF s
<1>2. /\ x \in StoreType /\ x.up = s.up /\ x.disk = s.disk /\ x.keep = s.keep
      /\ x.entries = s.entries /\ x.holder = NoRun /\ x.stage = "idle"
  BY <1>1 DEF StoreType
<1>3. Released(p) = x
  BY DEF Released, s
<1> HIDE DEF x
<1> QED
  BY <1>2, <1>3 DEF s

\* Rename or a failure ends the Append and gives the mutex back.
LEMMA PersistedHolds ==
  ASSUME HistoryInv, NEW p \in Procs, Rename(p) \/ PersistFails(p)
  PROVE  HistoryInv'
<1> DEFINE s == store[p]
           r == s.holder
           stage == IF Rename(p) THEN "persisted" ELSE "memory"
<1>1. s.stage \in {"marshal", "create", "write", "rename"} /\ store' = [store EXCEPT ![p] = Released(p)]
  BY DEF Rename, PersistFails
<1>2. /\ s \in StoreType /\ r \in Runs /\ s.up /\ s.disk /\ run[r] = [stage |-> "appending", proc |-> p]
      /\ s.keep \in {Keep(k) : k \in Keeps} /\ Len(s.entries) <= s.keep
      /\ InOrder(s.entries, appended)
      /\ s.entries # <<>> /\ s.entries[Len(s.entries)] = r
  BY <1>1, HolderHolds
<1>3. /\ run' = [run EXCEPT ![r].stage = "persisted"] \/ run' = [run EXCEPT ![r].stage = "memory"]
      /\ UNCHANGED <<appended, crashes>>
  BY DEF Rename, PersistFails
<1>4. PICK t \in {"persisted", "memory"} :
        /\ run' = [run EXCEPT ![r].stage = t]
        /\ \/ t = "memory" /\ UNCHANGED <<file, acked>>
           \/ t = "persisted" /\ Rename(p)
  BY <1>1 DEF Rename, PersistFails
<1>5. store \in [Procs -> StoreType] /\ appended \in Seq(Runs) /\ OnceEach(appended)
      /\ acked \subseteq Runs
  BY DEF HistoryInv, TypeOK, RunsHold
<1>6. /\ store' \in [Procs -> StoreType]
      /\ \A q \in Procs : q # p => store'[q] = store[q]
      /\ store'[p].up /\ store'[p].disk = s.disk /\ store'[p].keep = s.keep
      /\ store'[p].entries = s.entries /\ store'[p].holder = NoRun /\ store'[p].stage = "idle"
  <2> DEFINE x == Released(p)
  <2>1. /\ x \in StoreType /\ x.up = s.up /\ x.disk = s.disk /\ x.keep = s.keep
        /\ x.entries = s.entries /\ x.holder = NoRun /\ x.stage = "idle"
    BY <1>1, ReleasedHolds
  <2>2. store' = [store EXCEPT ![p] = x]
    BY <1>1
  <2> HIDE DEF x
  <2> QED
    BY <1>2, <1>5, <2>1, <2>2
<1>7. \A q \in Procs : store[q].up => store'[q].up
  BY <1>6
<1>8. InProgress(r) /\ run[r].proc = p /\ r \in Elements(appended)
  <2>1. Len(s.entries) \in DOMAIN s.entries
    BY <1>2, EmptySeq, LenProperties DEF StoreType
  <2> QED
    BY <1>2, <2>1 DEF InProgress, InOrder, Elements
<1>9. acked' = acked \/ (acked' = acked \cup {r} /\ t = "persisted" /\ r \in Elements(appended))
  BY <1>4, <1>8 DEF Rename
<1>10. /\ run' \in [Runs -> RunType] /\ acked' \subseteq Runs
       /\ run'[r] = [stage |-> t, proc |-> p]
       /\ \A q \in Runs : q # r => run'[q] = run[q]
       /\ RunsHold'
  <2>1. appended' = appended /\ t \in {"finished", "appending", "persisted", "memory"} /\ t # "finished"
    BY <1>3, <1>4
  <2> HIDE DEF r, s
  <2> QED
    BY <1>2, <1>4, <1>5, <1>7, <1>8, <1>9, <2>1, RunStep
<1>11. /\ file' \in [whole : BOOLEAN, entries : Seq(Runs)]
       /\ FileIsASnapshot'
  <2>1. CASE t = "memory"
    BY <1>3, <1>4, <2>1 DEF HistoryInv, TypeOK, FileIsASnapshot
  <2>2. CASE t = "persisted"
    <3>1. s.stage = "rename" /\ file' = [whole |-> s.temp = "whole", entries |-> s.raw]
      BY <1>4, <2>2 DEF Rename
    <3>2. s.temp = "whole" /\ s.raw = s.entries
      BY <3>1 DEF HistoryInv, StoreHolds
    <3>3. file' = [whole |-> TRUE, entries |-> s.entries] /\ s.entries \in Seq(Runs)
      BY <1>2, <3>1, <3>2 DEF StoreType
    <3> QED
      BY <1>2, <1>3, <3>3 DEF FileIsASnapshot
  <2> QED
    BY <1>4, <2>1, <2>2
<1>12. TypeOK'
  BY <1>3, <1>6, <1>10, <1>11 DEF HistoryInv, TypeOK
<1>13. ASSUME NEW q \in Procs PROVE StoreHolds(q)'
  <2>1. CASE q # p
    <3>1. \A h \in Runs : run[h] = [stage |-> "appending", proc |-> q] => run'[h] = run[h]
      BY <1>2, <1>10, <2>1
    <3>2. appended' = appended
      BY <1>3
    <3> QED
      BY <1>6, <2>1, <3>1, <3>2, StoreKept
  <2>2. CASE q = p
    <3> HIDE DEF s, r
    <3> QED
      BY <1>2, <1>3, <1>6, <2>2 DEF StoreHolds
  <2> QED
    BY <2>1, <2>2
<1> QED
  BY <1>10, <1>11, <1>12, <1>13 DEF HistoryInv

\* A process that is killed leaves the file as it is and closes its store.
LEMMA KillHolds ==
  ASSUME HistoryInv, NEW p \in Procs, Kill(p), crashes' \in Nat
  PROVE  HistoryInv'
<1>1. /\ store' = [store EXCEPT ![p] = Closed]
      /\ run' = [r \in Runs |->
               IF run[r].proc = p /\ run[r].stage \in {"running", "finished", "appending"}
               THEN [run[r] EXCEPT !.stage = "killed"] ELSE run[r]]
      /\ UNCHANGED <<file, appended, acked>>
  BY DEF Kill
<1>2. TypeOK /\ RunsHold /\ FileIsASnapshot
  BY DEF HistoryInv
<1>3. store' \in [Procs -> StoreType] /\ store'[p] = Closed /\ \A q \in Procs : q # p => store'[q] = store[q]
  BY <1>1, <1>2, ClosedType DEF TypeOK
<1>4. ASSUME NEW r \in Runs
      PROVE  /\ run'[r] \in RunType /\ run'[r].proc = run[r].proc
             /\ run[r].proc = p /\ InProgress(r) => run'[r].stage = "killed"
             /\ ~(run[r].proc = p /\ InProgress(r)) => run'[r] = run[r]
  <2> DEFINE x == [run[r] EXCEPT !.stage = "killed"]
  <2>1. run[r] \in RunType
    BY <1>2 DEF TypeOK
  <2>2. x \in RunType /\ x.proc = run[r].proc /\ x.stage = "killed"
    BY <2>1 DEF RunType
  <2>3. run'[r] = IF run[r].proc = p /\ InProgress(r) THEN x ELSE run[r]
    BY <1>1 DEF InProgress
  <2> HIDE DEF x
  <2> QED
    BY <2>1, <2>2, <2>3
<1>5. run' \in [Runs -> RunType]
  BY <1>1, <1>4
<1>6. TypeOK'
  BY <1>1, <1>2, <1>3, <1>5 DEF TypeOK
<1>7. RunsHold'
  <2>1. \A r \in Runs : run'[r].stage # "new" <=> run[r].stage # "new"
    BY <1>4 DEF InProgress
  <2>2. \A q, r \in Runs : q < r /\ run'[r].stage # "new" => run'[q].stage # "new"
    BY <1>2, <2>1 DEF RunsHold
  <2>3. \A r \in Runs : run'[r].stage # "new" => run'[r].proc \in Procs
    BY <1>2, <1>4, <2>1 DEF RunsHold
  <2>4. \A r \in Runs : InProgress(r)' => store'[run'[r].proc].up
    <3>1. \A r \in Runs : InProgress(r)' => InProgress(r) /\ run[r].proc # p /\ run'[r] = run[r]
      BY <1>4 DEF InProgress
    <3>2. \A r \in Runs : InProgress(r) => run[r].proc \in Procs /\ store[run[r].proc].up
      BY <1>2 DEF RunsHold, InProgress
    <3> QED
      BY <1>3, <3>1, <3>2
  <2>5. \A r \in Elements(appended) : run'[r].stage \in {"appending", "persisted", "memory", "killed"}
    <3>1. \A r \in Elements(appended) : r \in Runs
      BY <1>2 DEF TypeOK, Elements
    <3> QED
      BY <1>2, <1>4, <3>1 DEF RunsHold
  <2>6. \A r \in acked : r \in Elements(appended) /\ run'[r].stage = "persisted"
    BY <1>2, <1>4 DEF RunsHold, TypeOK, InProgress
  <2> QED
    BY <1>1, <1>2, <2>2, <2>3, <2>4, <2>5, <2>6 DEF RunsHold
<1>8. ASSUME NEW q \in Procs PROVE StoreHolds(q)'
  <2>1. CASE q # p
    <3>1. \A h \in Runs : run[h] = [stage |-> "appending", proc |-> q] => run'[h] = run[h]
      BY <1>4, <2>1
    <3> QED
      BY <1>1, <1>3, <2>1, <3>1, StoreKept
  <2>2. CASE q = p
    BY <1>3, <2>2, EmptyInOrder DEF StoreHolds, Closed
  <2> QED
    BY <2>1, <2>2
<1>9. FileIsASnapshot'
  BY <1>1, <1>2 DEF FileIsASnapshot
<1> QED
  BY <1>6, <1>7, <1>8, <1>9 DEF HistoryInv

\* Steps that touch neither runs nor stores keep the invariant.
LEMMA HistoryKept ==
  ASSUME HistoryInv, UNCHANGED <<run, store, file, appended, acked>>, crashes' \in Nat
  PROVE  HistoryInv'
BY DEF HistoryInv, TypeOK, RunsHold, FileIsASnapshot, StoreHolds, InProgress

\* Every step of every process keeps the invariant.
LEMMA HistoryNext == HistoryInv /\ [Next]_vars => HistoryInv'
<1> SUFFICES ASSUME HistoryInv, [Next]_vars PROVE HistoryInv'
  OBVIOUS
<1>1. crashes \in Nat
  BY DEF HistoryInv, TypeOK
<1>2. ASSUME NEW p \in Procs, Open(p) \/ Persist(p) \/ Crash(p) PROVE HistoryInv'
  <2>1. CASE Open(p)
    BY <2>1, OpenHolds
  <2>2. CASE Marshal(p) \/ CreateTemp(p) \/ Write(p)
    BY <2>2, PersistingHolds
  <2>3. CASE Rename(p) \/ PersistFails(p)
    BY <2>3, PersistedHolds
  <2>4. CASE Crash(p)
    <3>1. Kill(p) /\ crashes' \in Nat
      BY <1>1, <2>4 DEF Crash
    <3> QED
      BY <3>1, KillHolds
  <2> QED
    BY <1>2, <2>1, <2>2, <2>3, <2>4 DEF Persist
<1>3. ASSUME NEW p \in Procs, NEW r \in Runs, Start(p, r) \/ Finish(p, r) \/ BeginAppend(p, r)
      PROVE  HistoryInv'
  BY <1>3, StartHolds, FinishHolds, BeginAppendHolds
<1>4. CASE Exhausted \/ UNCHANGED vars
  <2>1. UNCHANGED <<run, store, file, appended, acked, crashes>>
    BY <1>4 DEF Exhausted, vars
  <2> QED
    BY <1>1, <2>1, HistoryKept
<1> QED
  BY <1>2, <1>3, <1>4 DEF Next

\* Any number of processes may share the file, be killed at any step and start
\* with other limits: what HistoryInv says of the mutex, the lists and the runs
\* holds in every state (Store in store.go).
THEOREM HistoryInvariant == Spec => []HistoryInv
<1> QED
  BY HistoryInit, HistoryNext, PTL DEF Spec

\* The file can be loaded at every moment and lists appended runs once each, in
\* the order of their Appends, whatever step of whatever persist failed or was
\* cut by a crash (temporary file and rename in persist).
THEOREM FileIsAlwaysASnapshot == Spec => []FileIsASnapshot
<1>1. HistoryInv => FileIsASnapshot
  BY DEF HistoryInv
<1> QED
  BY <1>1, HistoryInvariant, PTL

-----------------------------------------------------------------------------
(* A process that has the file for itself.                                  *)

\* There is nothing in the file at the start.
LEMMA AloneInit == Init => AloneInv
<1> SUFFICES ASSUME Init PROVE AloneInv
  OBVIOUS
<1>1. ASSUME NEW p \in Procs PROVE AloneHolds(p)
  BY DEF Init, AloneHolds, Closed
<1> QED
  BY <1>1, HistoryInit DEF AloneInv

\* What a run of the file is owed moves with the list it is in: the same list, or
\* what is left of it when r is added and the oldest are dropped.
LEMMA OwedAfterAppend ==
  ASSUME HistoryInv, NEW p \in Procs, NEW r \in Runs, BeginAppend(p, r),
         NEW q \in Elements(appended),
         \/ q \in Elements(store[p].entries)
         \/ MadeRoom(store[p].entries, appended, store[p].keep, q)
  PROVE  \/ q \in Elements(store'[p].entries)
         \/ MadeRoom(store'[p].entries, appended', store[p].keep, q)
<1> DEFINE e == store[p].entries
           l == Append(e, r)
           k == store[p].keep
<1>1. /\ r \notin Elements(appended) /\ appended' = Append(appended, r)
      /\ appended' \in Seq(Runs) /\ OnceEach(appended')
      /\ \A s \in Seq(Runs) : InOrder(s, appended) => InOrder(Append(s, r), appended')
  BY AppendedRun
<1>2. /\ e \in Seq(Runs) /\ k \in {Keep(n) : n \in Keeps}
      /\ store'[p].entries = truncate(l, k)
  BY BeginAppendStore, Zenon
<1>3. /\ appended \in Seq(Runs) /\ OnceEach(appended)
      /\ StoreHolds(p)
  BY DEF HistoryInv, TypeOK, RunsHold
<1>4. InOrder(e, appended) /\ k \in Nat \ {0}
  BY <1>2, <1>3, KeepType, HistoryAssumption DEF StoreHolds
<1>5. /\ l \in Seq(Runs) /\ InOrder(l, appended') /\ Len(l) = Len(e) + 1 /\ Len(e) \in Nat
      /\ \A i \in 1 .. Len(e) : l[i] = e[i]
  BY <1>1, <1>2, <1>4, AppendProperties, LenProperties
<1>6. Elements(l) = Elements(e) \cup {r}
  <2>1. DOMAIN e = 1 .. Len(e) /\ DOMAIN l = 1 .. Len(l) /\ l[Len(e) + 1] = r
    BY <1>2, <1>5, AppendProperties, LenProperties
  <2>2. 1 .. Len(l) = (1 .. Len(e)) \cup {Len(e) + 1}
    BY <1>5
  <2> HIDE DEF l, e
  <2>3. Elements(e) = {e[i] : i \in 1 .. Len(e)} /\ Elements(l) = {l[i] : i \in 1 .. Len(l)}
    BY <2>1 DEF Elements
  <2> QED
    BY <1>5, <2>1, <2>2, <2>3
<1> HIDE DEF l, k, e
<1>7. CASE q \in Elements(e)
  <2>1. q \in Elements(l)
    BY <1>6, <1>7
  <2> DEFINE a == appended'
  <2>2. a \in Seq(Runs) /\ InOrder(l, a)
    BY <1>1, <1>5
  <2> HIDE DEF a
  <2>3. q \in Elements(truncate(l, k)) \/ MadeRoom(truncate(l, k), a, k, q)
    BY <1>4, <1>5, <2>1, <2>2, DroppedMakesRoom
  <2> QED
    BY <1>2, <2>3 DEF a, k
<1>8. CASE MadeRoom(e, appended, k, q)
  <2>1. Len(e) = k /\ \A x \in Elements(e) : Place(appended, x) > Place(appended, q)
    BY <1>8 DEF MadeRoom
  <2>2. Len(truncate(l, k)) = k /\ Elements(truncate(l, k)) \subseteq Elements(l)
    BY <1>4, <1>5, <2>1, TruncateAddsNothing
  <2>3. /\ \A x \in Elements(appended) : Place(appended', x) = Place(appended, x)
        /\ Place(appended', r) = Len(appended) + 1
    BY <1>1, <1>3, AppendNew
  <2>4. Elements(e) \subseteq Elements(appended)
    BY <1>4 DEF InOrder
  <2>5. Place(appended, q) \in 1 .. Len(appended) /\ Len(appended) \in Nat
    BY <1>3, PlaceOfEntry
  <2>6. \A x \in Elements(e) \cup {r} : Place(appended', x) > Place(appended', q)
    BY <2>1, <2>3, <2>4, <2>5
  <2>7. MadeRoom(truncate(l, k), appended', k, q)
    BY <1>6, <2>2, <2>6 DEF MadeRoom
  <2> QED
    BY <1>2, <2>7 DEF k
<1> QED
  BY <1>7, <1>8 DEF e, k

\* A process that is alone reads the file back, up to its limit.
LEMMA AloneOpen ==
  ASSUME AloneInv, NEW p \in Procs, Open(p)
  PROVE  AloneHolds(p)'
<1>1. HistoryInv
  BY DEF AloneInv
<1>2. UNCHANGED <<file, appended, acked>>
  BY DEF Open
<1>3. PICK k \in Keeps :
        \/ store' = [store EXCEPT ![p] = [Closed EXCEPT !.up = TRUE, !.keep = Keep(k),
                       !.disk = TRUE, !.entries = truncate(file.entries, Keep(k))]]
        \/ store' = [store EXCEPT ![p] = [Closed EXCEPT !.up = TRUE, !.keep = Keep(k)]]
  BY Zenon DEF Open
<1>4. store \in [Procs -> StoreType]
  BY <1>1 DEF HistoryInv, TypeOK
<1>5. \/ store'[p].keep = Keep(k) /\ store'[p].entries = truncate(file.entries, Keep(k))
      \/ store'[p].disk = FALSE
  BY <1>3, <1>4 DEF Closed
<1>6. /\ file.entries \in Seq(Runs) /\ InOrder(file.entries, appended)
      /\ appended \in Seq(Runs) /\ Keep(k) \in Nat \ {0}
  BY <1>1, KeepType, HistoryAssumption DEF HistoryInv, TypeOK, FileIsASnapshot
<1>7. \A r \in Elements(file.entries) :
        \/ r \in Elements(truncate(file.entries, Keep(k)))
        \/ MadeRoom(truncate(file.entries, Keep(k)), appended, Keep(k), r)
  <2> DEFINE m == Keep(k)
  <2>1. m \in Nat \ {0}
    BY <1>6
  <2> HIDE DEF m
  <2>2. \A r \in Elements(file.entries) :
          r \in Elements(truncate(file.entries, m)) \/ MadeRoom(truncate(file.entries, m), appended, m, r)
    BY <1>6, <2>1, DroppedMakesRoom
  <2> QED
    BY <2>2 DEF m
<1> QED
  BY <1>2, <1>5, <1>7 DEF AloneHolds

\* An Append of a process that is alone drops only what the limit has no room for.
LEMMA AloneAppend ==
  ASSUME AloneInv, NEW p \in Procs, NEW r \in Runs, BeginAppend(p, r)
  PROVE  AloneHolds(p)'
<1>1. HistoryInv /\ AloneHolds(p)
  BY DEF AloneInv
<1>2. UNCHANGED <<file, acked>>
  BY DEF BeginAppend
<1>3. r \notin acked
  BY <1>1, AppendedRun
<1>4. Elements(file.entries) \subseteq Elements(appended)
  BY <1>1 DEF HistoryInv, FileIsASnapshot, InOrder
<1> DEFINE list == truncate(Append(store[p].entries, r), store[p].keep)
<1>5. /\ store'[p].disk = store[p].disk /\ store'[p].keep = store[p].keep
      /\ store'[p].entries[Len(store'[p].entries)] = r
  <2>1. /\ store'[p].disk = store[p].disk /\ store'[p].keep = store[p].keep
        /\ store'[p].entries = list /\ list[Len(list)] = r
    BY <1>1, BeginAppendStore, Zenon
  <2> HIDE DEF list
  <2> QED
    BY <2>1
<1>6. store[p].disk => \A q \in Elements(file.entries) :
        \/ q \in Elements(store'[p].entries)
        \/ MadeRoom(store'[p].entries, appended', store[p].keep, q)
  BY <1>1, <1>4, OwedAfterAppend DEF AloneHolds
<1> QED
  BY <1>2, <1>3, <1>5, <1>6 DEF AloneHolds

\* The list of a process that renamed it is the file.
LEMMA RenamedList ==
  ASSUME HistoryInv, NEW p \in Procs, Rename(p)
  PROVE  /\ file'.entries = store[p].entries
         /\ store[p].disk /\ store[p].holder \in Elements(store[p].entries)
         /\ acked' = acked \cup {store[p].holder}
         /\ truncate(store[p].entries, store[p].keep) = store[p].entries
<1> DEFINE s == store[p]
<1>1. s.stage = "rename" /\ s.stage # "idle"
      /\ file'.entries = s.raw /\ acked' = acked \cup {s.holder}
  BY DEF Rename
<1>2. /\ s \in StoreType /\ s.disk /\ Len(s.entries) <= s.keep
      /\ s.entries # <<>> /\ s.entries[Len(s.entries)] = s.holder
  BY <1>1, HolderHolds
<1>3. s.raw = s.entries
  BY <1>1 DEF HistoryInv, StoreHolds
<1>4. s.entries \in Seq(Runs) /\ s.keep \in Nat \ {0}
  BY <1>2 DEF StoreType
<1>5. s.holder \in Elements(s.entries)
  <2>1. Len(s.entries) \in DOMAIN s.entries
    BY <1>2, <1>4, EmptySeq, LenProperties
  <2> QED
    BY <1>2, <2>1 DEF Elements
<1>6. truncate(s.entries, s.keep) = s.entries
  <2> DEFINE e == s.entries
             k == s.keep
  <2>1. e \in Seq(Runs) /\ k \in Nat \ {0} /\ Len(e) <= k
    BY <1>2, <1>4
  <2> HIDE DEF e, k
  <2>2. truncate(e, k) = e
    BY <2>1, Truncated
  <2> QED
    BY <2>2 DEF e, k
<1> QED
  BY <1>1, <1>2, <1>3, <1>5, <1>6

\* A persist that ends leaves the list as it was; one that succeeds makes it the
\* file.
LEMMA AlonePersisted ==
  ASSUME AloneInv, NEW p \in Procs, Rename(p) \/ PersistFails(p)
  PROVE  AloneHolds(p)'
<1> DEFINE s == store[p]
<1>1. HistoryInv /\ AloneHolds(p)
  BY DEF AloneInv
<1>2. s.stage # "idle" /\ store' = [store EXCEPT ![p] = Released(p)] /\ appended' = appended
  BY DEF Rename, PersistFails
<1>3. store'[p] = Released(p)
  BY <1>1, <1>2 DEF HistoryInv, TypeOK
<1>4. store'[p].disk = s.disk /\ store'[p].keep = s.keep /\ store'[p].entries = s.entries
  BY <1>1, <1>2, <1>3, ReleasedHolds
<1>5. CASE PersistFails(p)
  <2>1. UNCHANGED <<file, acked>>
    BY <1>5 DEF PersistFails
  <2> QED
    BY <1>1, <1>2, <1>4, <2>1 DEF AloneHolds
<1>6. CASE Rename(p)
  <2>1. file'.entries = s.entries /\ truncate(s.entries, s.keep) = s.entries
    BY <1>1, <1>6, RenamedList
  <2> HIDE DEF s
  <2> QED
    BY <1>4, <2>1 DEF AloneHolds
<1> QED
  BY <1>5, <1>6

\* Nothing is owed anew while file, list and acknowledgements do not change.
LEMMA AloneKept ==
  ASSUME AloneInv, NEW p \in Procs, UNCHANGED <<file, appended, acked>>,
         \/ store'[p].disk = FALSE
         \/ /\ store'[p].disk = store[p].disk /\ store'[p].keep = store[p].keep
            /\ store'[p].entries = store[p].entries
  PROVE  AloneHolds(p)'
BY DEF AloneInv, AloneHolds

\* The steps before the rename acknowledge nothing.
LEMMA AlonePersisting ==
  ASSUME AloneInv, NEW p \in Procs, Marshal(p) \/ CreateTemp(p) \/ Write(p)
  PROVE  AloneHolds(p)'
<1> DEFINE s == store[p]
<1>1. UNCHANGED <<file, appended, acked>>
  BY DEF Marshal, CreateTemp, Write, Step
<1>2. s \in StoreType /\ store \in [Procs -> StoreType]
  BY DEF AloneInv, HistoryInv, TypeOK
<1>3. \/ store'[p] = [s EXCEPT !.stage = "create", !.raw = s.entries]
      \/ store'[p] = [s EXCEPT !.stage = "write", !.temp = "empty"]
      \/ store'[p] = [s EXCEPT !.stage = "rename", !.temp = "whole"]
  BY <1>2 DEF Marshal, CreateTemp, Write, Step
<1>4. store'[p].disk = s.disk /\ store'[p].keep = s.keep /\ store'[p].entries = s.entries
  <2> DEFINE Same(x) == x.disk = s.disk /\ x.keep = s.keep /\ x.entries = s.entries
  <2> HIDE DEF s
  <2>1. Same([s EXCEPT !.stage = "create", !.raw = s.entries])
    BY <1>2 DEF StoreType
  <2>2. Same([s EXCEPT !.stage = "write", !.temp = "empty"])
    BY <1>2 DEF StoreType
  <2>3. Same([s EXCEPT !.stage = "rename", !.temp = "whole"])
    BY <1>2 DEF StoreType
  <2> HIDE DEF Same
  <2>4. Same(store'[p])
    BY <1>3, <2>1, <2>2, <2>3
  <2> QED
    BY <2>4 DEF Same
<1> QED
  BY <1>1, <1>4, AloneKept

\* What a step of the one process, or of the world around it, may be.
LEMMA AloneStep ==
  ASSUME NEW p, Procs = {p}, AloneInv, crashes' \in Nat,
         \/ Open(p) \/ Persist(p) \/ Kill(p)
         \/ \E r \in Runs : Start(p, r) \/ Finish(p, r) \/ BeginAppend(p, r)
         \/ UNCHANGED <<run, store, file, appended, acked>>
  PROVE  AloneInv'
<1>1. HistoryInv /\ p \in Procs
  BY DEF AloneInv
<1>2. SUFFICES HistoryInv' /\ AloneHolds(p)'
  BY DEF AloneInv
<1>3. CASE Open(p)
  BY <1>1, <1>3, OpenHolds, AloneOpen
<1>4. CASE Marshal(p) \/ CreateTemp(p) \/ Write(p)
  BY <1>1, <1>4, PersistingHolds, AlonePersisting
<1>5. CASE Rename(p) \/ PersistFails(p)
  BY <1>1, <1>5, PersistedHolds, AlonePersisted
<1>6. CASE Kill(p)
  <2>1. store'[p].disk = FALSE /\ UNCHANGED <<file, appended, acked>>
    BY <1>1, <1>6 DEF Kill, HistoryInv, TypeOK, Closed
  <2> QED
    BY <1>1, <1>6, <2>1, KillHolds, AloneKept
<1>7. ASSUME NEW r \in Runs, Start(p, r) \/ Finish(p, r)
      PROVE  HistoryInv' /\ AloneHolds(p)'
  <2>1. UNCHANGED <<store, file, appended, acked>>
    BY <1>7 DEF Start, Finish
  <2>2. AloneHolds(p)'
    BY <1>1, <2>1, AloneKept
  <2> QED
    BY <1>1, <1>7, <2>2, StartHolds, FinishHolds
<1>8. ASSUME NEW r \in Runs, BeginAppend(p, r)
      PROVE  HistoryInv' /\ AloneHolds(p)'
  BY <1>1, <1>8, BeginAppendHolds, AloneAppend
<1>9. CASE UNCHANGED <<run, store, file, appended, acked>>
  BY <1>1, <1>9, HistoryKept, AloneKept
<1> QED
  BY <1>3, <1>4, <1>5, <1>6, <1>7, <1>8, <1>9 DEF Persist

\* A run is in the file when its Append returns, and leaves it for newer ones only.
LEMMA AckedStep ==
  ASSUME NEW p, Procs = {p}, AloneInv,
         \/ Open(p) \/ Persist(p) \/ Kill(p)
         \/ \E r \in Runs : Start(p, r) \/ Finish(p, r) \/ BeginAppend(p, r)
         \/ UNCHANGED <<run, store, file, appended, acked>>
  PROVE  LosesNoRun
<1>1. HistoryInv /\ p \in Procs /\ AloneHolds(p)
  BY DEF AloneInv
<1>2. CASE Rename(p)
  <2>1. /\ file'.entries = store[p].entries /\ store[p].disk
        /\ store[p].holder \in Elements(store[p].entries) /\ acked' = acked \cup {store[p].holder}
    BY <1>1, <1>2, RenamedList
  <2>2. store[p].stage = "rename"
    BY <1>2 DEF Rename
  <2>3. \A r \in Elements(file.entries) :
          r \in Elements(file'.entries) \/ MadeRoom(file'.entries, appended, store[p].keep, r)
    BY <1>1, <2>1 DEF AloneHolds
  <2> QED
    BY <1>1, <2>1, <2>2, <2>3 DEF LosesNoRun
<1>3. ASSUME UNCHANGED <<file, acked>>
      PROVE  LosesNoRun
  BY <1>3 DEF LosesNoRun
<1>4. CASE ~Rename(p)
  <2>1. UNCHANGED <<file, acked>>
    BY <1>4, Zenon DEF Open, Persist, Marshal, CreateTemp, Write, Step, PersistFails, Kill, Start,
                       Finish, BeginAppend
  <2> QED
    BY <1>3, <2>1
<1> QED
  BY <1>2, <1>4

\* Every step of a process that is alone keeps its invariant.
LEMMA AloneNext ==
  ASSUME NEW p, Procs = {p}
  PROVE  AloneInv /\ [Next]_vars => AloneInv'
<1> SUFFICES ASSUME AloneInv, [Next]_vars PROVE AloneInv'
  OBVIOUS
<1>1. crashes \in Nat
  BY DEF AloneInv, HistoryInv, TypeOK
<1>2. crashes' \in Nat
  <2>1. ASSUME NEW q \in Procs, Persist(q) PROVE crashes' = crashes
    BY <2>1 DEF Persist, Marshal, CreateTemp, Write, Step, Rename, PersistFails
  <2>2. ASSUME NEW q \in Procs, Open(q) PROVE crashes' = crashes
    BY <2>2 DEF Open
  <2>3. ASSUME NEW q \in Procs, Crash(q) PROVE crashes' = crashes + 1
    BY <2>3 DEF Crash
  <2>4. ASSUME NEW q \in Procs, NEW r \in Runs, Start(q, r) \/ Finish(q, r) \/ BeginAppend(q, r)
        PROVE  crashes' = crashes
    BY <2>4 DEF Start, Finish, BeginAppend
  <2>5. ASSUME Exhausted \/ UNCHANGED vars PROVE crashes' = crashes
    BY <2>5, Zenon DEF Exhausted, vars
  <2>6. crashes' = crashes \/ crashes' = crashes + 1
    BY <2>1, <2>2, <2>3, <2>4, <2>5, Zenon DEF Next
  <2> QED
    BY <1>1, <2>6
<1>3. \/ Open(p) \/ Persist(p) \/ Kill(p)
      \/ \E r \in Runs : Start(p, r) \/ Finish(p, r) \/ BeginAppend(p, r)
      \/ UNCHANGED <<run, store, file, appended, acked>>
  BY DEF Next, vars, Crash, Exhausted
<1> QED
  BY <1>2, <1>3, AloneStep

\* What the invariant says of the list in memory.
LEMMA AloneMeans == AloneInv => FileIsASnapshot /\ MemoryIsTheFile
<1> SUFFICES ASSUME AloneInv PROVE FileIsASnapshot /\ MemoryIsTheFile
  OBVIOUS
<1>1. MemoryIsTheFile
  BY DEF AloneInv, AloneHolds, MemoryIsTheFile
<1> QED
  BY <1>1 DEF AloneInv, HistoryInv

\* A process that has the file for itself loses no run it acknowledged: a run is
\* in the file when its Append returns nil, and leaves it only when the file it
\* renames is full, at the limit it runs with, of runs appended later; and what
\* it shows after a persisted Append is what a restart would show (Open, Append,
\* persist).
THEOREM OneProcessKeepsItsHistory ==
  ASSUME NEW p, Procs = {p}
  PROVE  Spec => AckedSurvives /\ []MemoryIsTheFile
<1>1. AloneInv /\ [Next]_vars => AloneInv'
  BY AloneNext
<1>2. AloneInv /\ [Next]_vars => [LosesNoRun]_vars
  <2> SUFFICES ASSUME AloneInv, [Next]_vars PROVE LosesNoRun
    OBVIOUS
  <2>1. \/ Open(p) \/ Persist(p) \/ Kill(p)
        \/ \E r \in Runs : Start(p, r) \/ Finish(p, r) \/ BeginAppend(p, r)
        \/ UNCHANGED <<run, store, file, appended, acked>>
    BY DEF Next, vars, Crash, Exhausted
  <2> QED
    BY <2>1, AckedStep
<1> QED
  BY <1>1, <1>2, AloneInit, AloneMeans, PTL DEF Spec, AckedSurvives

-----------------------------------------------------------------------------
(* The abstract history.                                                    *)

\* Truncation is what the log calls its newest entries.
LEMMA TruncateIsNewest ==
  ASSUME NEW U, NEW s \in Seq(U), NEW k
  PROVE  truncate(s, k) = Log!Newest(s, k)
<1>1. SubSeq(s, 1, Len(s)) = s
  BY SubSeqFull
<1> QED
  BY <1>1, Zenon DEF truncate, Log!Newest

\* A process that is alone starts with an empty log.
LEMMA LogInit ==
  ASSUME NEW p, Procs = {p}
  PROVE  Init => Log!Init
<1> SUFFICES ASSUME Init PROVE Log!Init
  OBVIOUS
<1>1. Only = p
  BY DEF Only
<1>2. store[p] = Closed /\ file = NoFile /\ acked = {}
  BY DEF Init
<1> QED
  BY <1>1, <1>2 DEF Log!Init, Closed, NoFile

\* Steps that touch neither file nor list nor acknowledgements are no steps of
\* the log.
LEMMA LogQuiet ==
  ASSUME NEW p, Procs = {p}, UNCHANGED <<file, acked>>,
         store'[p].up = store[p].up, store'[p].keep = store[p].keep,
         store'[p].entries = store[p].entries
  PROVE  UNCHANGED Log!vars
<1>1. Only = p
  BY DEF Only
<1> QED
  BY <1>1 DEF Log!vars

\* Every step is a step of the abstract history or invisible to it.
LEMMA LogStep ==
  ASSUME NEW p, Procs = {p}, HistoryInv,
         \/ Open(p) \/ Persist(p) \/ Kill(p)
         \/ \E r \in Runs : Start(p, r) \/ Finish(p, r) \/ BeginAppend(p, r)
         \/ UNCHANGED <<run, store, file, appended, acked>>
  PROVE  [Log!Next]_(Log!vars)
<1> DEFINE s == store[p]
<1>1. Only = p /\ p \in Procs
  BY DEF Only
<1>2. store \in [Procs -> StoreType] /\ StoreHolds(p) /\ file.entries \in Seq(Runs)
  BY <1>1 DEF HistoryInv, TypeOK
<1>3. s \in StoreType
  BY <1>1, <1>2
<1>4. CASE Open(p)
  <2>1. PICK k \in Keeps :
        \/ store' = [store EXCEPT ![p] = [Closed EXCEPT !.up = TRUE, !.keep = Keep(k),
                       !.disk = TRUE, !.entries = truncate(file.entries, Keep(k))]]
        \/ store' = [store EXCEPT ![p] = [Closed EXCEPT !.up = TRUE, !.keep = Keep(k)]]
    BY <1>4, Zenon DEF Open
  <2>2. ~s.up /\ UNCHANGED <<file, acked>>
    BY <1>4 DEF Open
  <2>3. /\ store'[p].up /\ store'[p].keep = Keep(k)
        /\ \/ store'[p].entries = truncate(file.entries, Keep(k))
           \/ store'[p].entries = <<>>
    BY <1>1, <1>2, <2>1 DEF Closed
  <2>4. truncate(file.entries, Keep(k)) = Log!Newest(file.entries, Keep(k))
    BY <1>2, TruncateIsNewest
  <2>5. store'[p].up = TRUE
    BY <1>1, <1>2, <2>1 DEF Closed
  <2>6. Log!Load
    BY <1>1, <2>2, <2>3, <2>4, <2>5 DEF Log!Load
  <2> QED
    BY <2>6 DEF Log!Next
<1>5. CASE Marshal(p) \/ CreateTemp(p) \/ Write(p)
  <2>1. UNCHANGED <<file, acked>>
    BY <1>5 DEF Marshal, CreateTemp, Write, Step
  <2>2. \/ store'[p] = [s EXCEPT !.stage = "create", !.raw = s.entries]
        \/ store'[p] = [s EXCEPT !.stage = "write", !.temp = "empty"]
        \/ store'[p] = [s EXCEPT !.stage = "rename", !.temp = "whole"]
    BY <1>1, <1>2, <1>5 DEF Marshal, CreateTemp, Write, Step
  <2> DEFINE Same(x) == x.up = s.up /\ x.keep = s.keep /\ x.entries = s.entries
  <2> HIDE DEF s
  <2>3. Same([s EXCEPT !.stage = "create", !.raw = s.entries])
    BY <1>3 DEF StoreType
  <2>4. Same([s EXCEPT !.stage = "write", !.temp = "empty"])
    BY <1>3 DEF StoreType
  <2>5. Same([s EXCEPT !.stage = "rename", !.temp = "whole"])
    BY <1>3 DEF StoreType
  <2> HIDE DEF Same
  <2>6. Same(store'[p])
    BY <2>2, <2>3, <2>4, <2>5
  <2>7. UNCHANGED Log!vars
    BY <2>1, <2>6, LogQuiet DEF Same, s
  <2> QED
    BY <2>7
<1>6. CASE Rename(p) \/ PersistFails(p)
  <2>1. s.stage # "idle" /\ store' = [store EXCEPT ![p] = Released(p)]
    BY <1>6 DEF Rename, PersistFails
  <2>2. store'[p].up = s.up /\ store'[p].keep = s.keep /\ store'[p].entries = s.entries
    <3>1. store'[p] = Released(p)
      BY <1>1, <1>2, <2>1
    <3> QED
      BY <1>1, <2>1, <3>1, ReleasedHolds
  <2>3. s.up /\ s.entries # <<>> /\ s.entries[Len(s.entries)] = s.holder
    BY <1>1, <2>1, HolderHolds
  <2>4. CASE PersistFails(p)
    <3>1. UNCHANGED <<file, acked>>
      BY <2>4 DEF PersistFails
    <3> QED
      BY <2>2, <3>1, LogQuiet
  <2>5. CASE Rename(p)
    <3>1. s.stage = "rename" /\ file'.entries = s.raw /\ acked' = acked \cup {s.holder}
      BY <2>5 DEF Rename
    <3>2. s.raw = s.entries
      BY <1>2, <3>1 DEF StoreHolds
    <3>3. Log!Sync
      BY <1>1, <2>2, <2>3, <3>1, <3>2 DEF Log!Sync
    <3> QED
      BY <3>3 DEF Log!Next
  <2> QED
    BY <1>6, <2>4, <2>5
<1>7. CASE Kill(p)
  <2>1. store'[p] = Closed /\ UNCHANGED <<file, acked>>
    BY <1>1, <1>2, <1>7 DEF Kill
  <2>2. CASE s.up
    <3>1. Log!Crash
      BY <1>1, <2>1, <2>2 DEF Log!Crash, Closed
    <3> QED
      BY <3>1 DEF Log!Next
  <2>3. CASE ~s.up
    <3>1. s = Closed
      BY <1>2, <2>3 DEF StoreHolds
    <3> QED
      BY <2>1, <3>1, LogQuiet
  <2> QED
    BY <2>2, <2>3
<1>8. ASSUME NEW r \in Runs, Start(p, r) \/ Finish(p, r)
      PROVE  UNCHANGED Log!vars
  BY <1>8, LogQuiet DEF Start, Finish
<1>9. ASSUME NEW r \in Runs, BeginAppend(p, r)
      PROVE  Log!Next
  <2>1. UNCHANGED <<file, acked>>
    BY <1>9 DEF BeginAppend
  <2>2. s.up
    BY <1>1, <1>9, AppendedRun
  <2>3. /\ store'[p].up /\ store'[p].keep = s.keep
        /\ store'[p].entries = truncate(Append(s.entries, r), s.keep)
        /\ s.entries \in Seq(Runs)
    BY <1>1, <1>9, BeginAppendStore, Zenon
  <2>4. Append(s.entries, r) \in Seq(Runs)
    BY <2>3, AppendProperties
  <2>5. store'[p].entries = Log!Newest(Append(s.entries, r), s.keep)
    BY <2>3, <2>4, TruncateIsNewest
  <2>6. store'[p].up = s.up
    <3>1. s.up \in BOOLEAN /\ store'[p].up \in BOOLEAN
      BY <1>1, <1>3, <1>9, BeginAppendStore DEF StoreType
    <3> QED
      BY <2>2, <2>3, <3>1
  <2>7. Log!Add(r)
    BY <1>1, <2>1, <2>2, <2>3, <2>5, <2>6 DEF Log!Add
  <2> QED
    BY <2>7 DEF Log!Next
<1>10. CASE UNCHANGED <<run, store, file, appended, acked>>
  BY <1>10, LogQuiet
<1> QED
  BY <1>4, <1>5, <1>6, <1>7, <1>8, <1>9, <1>10 DEF Persist

\* A process that has the file for itself implements the history of RunLog: its
\* file moves from one list to the next in the step that promises the newest run,
\* whatever the temporary files and the mutex do in between.
THEOREM OneProcessImplementsRunLog ==
  ASSUME NEW p, Procs = {p}
  PROVE  Spec => ImplementsRunLog
<1>1. HistoryInv /\ [Next]_vars => [Log!Next]_(Log!vars)
  <2> SUFFICES ASSUME HistoryInv, [Next]_vars PROVE [Log!Next]_(Log!vars)
    OBVIOUS
  <2>1. \/ Open(p) \/ Persist(p) \/ Kill(p)
        \/ \E r \in Runs : Start(p, r) \/ Finish(p, r) \/ BeginAppend(p, r)
        \/ UNCHANGED <<run, store, file, appended, acked>>
    BY DEF Next, vars, Crash, Exhausted
  <2> QED
    BY <2>1, LogStep
<1> QED
  BY <1>1, LogInit, HistoryInvariant, PTL DEF Spec, ImplementsRunLog, Log!Spec

=============================================================================
