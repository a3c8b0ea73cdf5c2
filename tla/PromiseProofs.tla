---------------------------- MODULE PromiseProofs ---------------------------
(***************************************************************************)
(* DigestRun implements the safety half of DigestPromise: initial states   *)
(* map to initial states, and every step of a goroutine is a step of the   *)
(* promise or invisible to it.                                             *)
(***************************************************************************)
EXTENDS DigestOutcomeProofs

-----------------------------------------------------------------------------
(* The fate of a query.                                                     *)

\* What the types say of the collector of one source.
LEMMA SourceTypes ==
  ASSUME TypeOK, NEW s \in S
  PROVE  /\ collector[s] \in Collector
         /\ collector[s].found \in Seq(Finding) /\ collector[s].lost \in Seq(Nat)
         /\ Len(collector[s].found) \in Nat /\ Len(collector[s].lost) \in Nat
         /\ DOMAIN collector[s].found = 1 .. Len(collector[s].found)
         /\ DOMAIN collector[s].lost = 1 .. Len(collector[s].lost)
         /\ Resolved(s) = Len(collector[s].found) + Len(collector[s].lost)
         /\ Resolved(s) \in Nat /\ Len(Sources[s].queries) \in Nat
<1>1. collector[s] \in Collector
  BY DEF TypeOK
<1>2. collector[s].found \in Seq(Finding) /\ collector[s].lost \in Seq(Nat)
  BY <1>1 DEF Collector
<1>3. /\ Len(collector[s].found) \in Nat /\ Len(collector[s].lost) \in Nat
      /\ DOMAIN collector[s].found = 1 .. Len(collector[s].found)
      /\ DOMAIN collector[s].lost = 1 .. Len(collector[s].lost)
  BY <1>2, LenProperties
<1>4. Resolved(s) = Len(collector[s].found) + Len(collector[s].lost)
  BY DEF Resolved
<1>5. \A m, n \in Nat : m + n \in Nat
  OBVIOUS
<1>6. Len(Sources[s].queries) \in Nat
  BY ConfigTypes, LenProperties
<1> QED
  BY <1>1, <1>2, <1>3, <1>4, <1>5, <1>6

\* No query has a fate before it is asked.
LEMMA FatesInit ==
  ASSUME Init
  PROVE  FatesHold
<1> SUFFICES ASSUME NEW s \in S PROVE FatesOf(s)
  BY DEF FatesHold
<1>1. collector[s].found = <<>> /\ collector[s].lost = <<>>
  BY DEF Init
<1>2. Resolved(s) = 0 /\ LostBy(s) = {}
  BY <1>1 DEF Resolved, LostBy
<1>3. Won(s) = {}
  BY <1>2 DEF Won
<1>4. Len(Sources[s].queries) \in Nat
  BY ConfigTypes, LenProperties
<1> QED
  BY <1>1, <1>2, <1>3, <1>4 DEF FatesOf

\* An answer is the fate of the next query and the last finding so far.
LEMMA AnswerStep ==
  ASSUME TypeOK, NEW s \in S, FatesOf(s), Answer(s)
  PROVE  LET n == Resolved(s) + 1
             f == collector'[s].found[Len(collector[s].found) + 1]
         IN  /\ \A t \in S \ {s} : collector'[t] = collector[t]
             /\ collector'[s].lost = collector[s].lost
             /\ Len(collector'[s].found) = Len(collector[s].found) + 1
             /\ \A i \in 1 .. Len(collector[s].found) : collector'[s].found[i] = collector[s].found[i]
             /\ f.count \in Counts /\ f.severity = Score(f.count, Sources[s].queries[n])
             /\ Resolved(s)' = n /\ n <= Len(Sources[s].queries)
             /\ LostBy(s)' = LostBy(s) /\ n \notin LostBy(s)
             /\ PlaceOf(s, n) = Len(collector[s].found) + 1
             /\ \A i : PlaceOf(s, i)' = PlaceOf(s, i)
<1> DEFINE n == Resolved(s) + 1
           g == collector[s].found
           l == collector[s].lost
<1>1. /\ g \in Seq(Finding) /\ l \in Seq(Nat) /\ Len(g) \in Nat /\ Len(l) \in Nat
      /\ DOMAIN l = 1 .. Len(l) /\ Resolved(s) = Len(g) + Len(l)
  BY SourceTypes
<1>0. Resolved(s) \in Nat /\ Len(Sources[s].queries) \in Nat
  BY SourceTypes
<1>2. PICK c \in Counts :
        collector' = [collector EXCEPT ![s].found = Append(@,
          [source |-> Sources[s].name, title |-> NextQuery(s).title, count |-> c,
           severity |-> Score(c, NextQuery(s))])]
  BY DEF Answer
<1> DEFINE f == [source |-> Sources[s].name, title |-> NextQuery(s).title, count |-> c,
                 severity |-> Score(c, NextQuery(s))]
<1>3. f \in Finding
  <2>1. NextQuery(s).title \in Nat
    BY SourceTypes, NextQueryType DEF Answer, Query
  <2> QED
    BY <2>1, ConfigTypes, CountsAssumption, ScoreType DEF Finding
<1>4. /\ \A t \in S \ {s} : collector'[t] = collector[t]
      /\ collector'[s].lost = l /\ collector'[s].found = Append(g, f)
  BY <1>2, SourceTypes DEF TypeOK, Collector
<1>5. f.count = c /\ f.severity = Score(c, Sources[s].queries[n])
  BY DEF NextQuery
<1> HIDE DEF f
<1>6. /\ Len(Append(g, f)) = Len(g) + 1 /\ Append(g, f)[Len(g) + 1] = f
      /\ \A i \in 1 .. Len(g) : Append(g, f)[i] = g[i]
  BY <1>1, <1>3, AppendProperties
<1>7. Resolved(s)' = n
  <2>1. Resolved(s)' = Len(Append(g, f)) + Len(l)
    BY <1>4 DEF Resolved
  <2> HIDE DEF g, l
  <2> QED
    BY <1>1, <1>6, <2>1
<1>8. n <= Len(Sources[s].queries)
  BY <1>0 DEF Answer, Pending
<1>9. LostBy(s)' = LostBy(s) /\ \A i : PlaceOf(s, i)' = PlaceOf(s, i)
  BY <1>4 DEF LostBy, PlaceOf
<1>10. LostBy(s) \subseteq 1 .. Resolved(s)
  BY DEF FatesOf
<1>11. n \notin LostBy(s)
  BY <1>0, <1>10
<1>12. PlaceOf(s, n) = Len(g) + 1
  <2>1. \A i \in DOMAIN l : l[i] \in 1 .. Resolved(s)
    BY <1>10 DEF LostBy
  <2>2. {i \in DOMAIN l : l[i] <= n} = 1 .. Len(l)
    <3>1. \A x \in 1 .. Resolved(s) : x <= n
      BY <1>0
    <3> HIDE DEF l, n
    <3> QED
      BY <1>1, <2>1, <3>1
  <2>3. Cardinality(1 .. Len(l)) = Len(l)
    <3>1. Len(l) \in Nat
      BY <1>1
    <3>2. \A k \in Nat : Cardinality(1 .. k) = k
      BY FS_Interval
    <3> HIDE DEF l
    <3> QED
      BY <3>1, <3>2
  <2>4. PlaceOf(s, n) = n - Len(l)
    BY <2>2, <2>3 DEF PlaceOf
  <2> HIDE DEF g, l
  <2> QED
    BY <1>1, <2>4
<1> QED
  BY <1>2, <1>4, <1>5, <1>6, <1>7, <1>8, <1>9, <1>11, <1>12

\* A lost query is the next one, and moves no other query's finding.
LEMMA LoseStep ==
  ASSUME TypeOK, NEW s \in S, FatesOf(s), Lose(s)
  PROVE  LET n == Resolved(s) + 1
         IN  /\ \A t \in S \ {s} : collector'[t] = collector[t]
             /\ collector'[s].found = collector[s].found
             /\ Resolved(s)' = n /\ n <= Len(Sources[s].queries)
             /\ LostBy(s)' = LostBy(s) \cup {n}
             /\ \A i \in 1 .. Resolved(s) : PlaceOf(s, i)' = PlaceOf(s, i)
<1> DEFINE n == Resolved(s) + 1
           g == collector[s].found
           l == collector[s].lost
<1>1. /\ g \in Seq(Finding) /\ l \in Seq(Nat) /\ Len(g) \in Nat /\ Len(l) \in Nat
      /\ DOMAIN l = 1 .. Len(l) /\ Resolved(s) = Len(g) + Len(l)
  BY SourceTypes
<1>0. Resolved(s) \in Nat /\ Len(Sources[s].queries) \in Nat
  BY SourceTypes
<1>2. /\ \A t \in S \ {s} : collector'[t] = collector[t]
      /\ collector'[s].found = g /\ collector'[s].lost = Append(l, n)
  BY SourceTypes DEF Lose, TypeOK, Collector
<1>3. /\ Len(Append(l, n)) = Len(l) + 1 /\ Append(l, n)[Len(l) + 1] = n
      /\ \A i \in 1 .. Len(l) : Append(l, n)[i] = l[i]
      /\ DOMAIN Append(l, n) = 1 .. Len(l) + 1
  <2>1. n \in Nat
    BY <1>0
  <2> HIDE DEF n
  <2>2. Append(l, n) \in Seq(Nat)
    BY <1>1, <2>1, AppendProperties
  <2> QED
    BY <1>1, <2>1, <2>2, AppendProperties, LenProperties
<1>4. Resolved(s)' = n
  <2>1. Resolved(s)' = Len(g) + Len(Append(l, n))
    BY <1>2 DEF Resolved
  <2>2. Len(Append(l, n)) = Len(l) + 1
    BY <1>3
  <2> HIDE DEF g, l
  <2> QED
    BY <1>1, <2>1, <2>2
<1>5. n <= Len(Sources[s].queries)
  BY <1>0 DEF Lose, Pending
<1>6. \A i \in 1 .. Len(l) + 1 : i = Len(l) + 1 \/ i \in 1 .. Len(l)
  BY <1>1
<1>7. LostBy(s)' = LostBy(s) \cup {n}
  <2>1. LostBy(s)' = {Append(l, n)[i] : i \in 1 .. Len(l) + 1}
    BY <1>2, <1>3 DEF LostBy
  <2>2. LostBy(s) = {l[i] : i \in 1 .. Len(l)}
    BY <1>1 DEF LostBy
  <2>3. \A i \in 1 .. Len(l) : i \in 1 .. Len(l) + 1
    BY <1>1
  <2>4. Len(l) + 1 \in 1 .. Len(l) + 1
    BY <1>1
  <2>5. ASSUME NEW x \in LostBy(s)' PROVE x \in LostBy(s) \cup {n}
    BY <1>3, <1>6, <2>1, <2>2
  <2>6. ASSUME NEW x \in LostBy(s) \cup {n} PROVE x \in LostBy(s)'
    BY <1>3, <2>1, <2>2, <2>3, <2>4
  <2> QED
    BY <2>5, <2>6
<1>8. ASSUME NEW j \in 1 .. Resolved(s)
      PROVE  PlaceOf(s, j)' = PlaceOf(s, j)
  <2>1. ~(n <= j)
    BY <1>0
  <2>2. {i \in 1 .. Len(l) + 1 : Append(l, n)[i] <= j} = {i \in 1 .. Len(l) : l[i] <= j}
    <3>1. \A i \in 1 .. Len(l) : i \in 1 .. Len(l) + 1 /\ i # Len(l) + 1
      BY <1>1
    <3> QED
      BY <1>3, <1>6, <2>1, <3>1
  <2> QED
    BY <1>1, <1>2, <1>3, <2>2 DEF PlaceOf
<1> QED
  BY <1>2, <1>4, <1>5, <1>7, <1>8

\* A source that runs out of time, or returns, settles no query by that.
LEMMA EndKeepsFates ==
  ASSUME TypeOK, NEW s \in S, ExpireSource(s) \/ Return(s)
  PROVE  collector'[s].found = collector[s].found /\ collector'[s].lost = collector[s].lost
<1>1. collector \in [S -> Collector] /\ collector[s] \in Collector
  BY SourceTypes DEF TypeOK
<1>2. CASE ExpireSource(s)
  BY <1>1, <1>2 DEF ExpireSource, Collector
<1>3. CASE Return(s)
  <2>1. PICK named : collector' = [collector EXCEPT ![s] = [@ EXCEPT !.phase = "returned", !.named = named]]
    BY <1>3 DEF Return
  <2>2. collector'[s] = [collector[s] EXCEPT !.phase = "returned", !.named = named]
    BY <1>1, <2>1
  <2> QED
    BY <1>1, <2>2 DEF Collector
<1> QED
  BY <1>2, <1>3

\* A query gets its fate in the step that resolves it, and keeps it.
LEMMA FatesNext ==
  ASSUME TypeOK, FatesHold, [Next]_vars
  PROVE  FatesHold'
<1>1. ASSUME \A s \in S : /\ collector'[s].found = collector[s].found
                          /\ collector'[s].lost = collector[s].lost
      PROVE  FatesHold'
  <2> SUFFICES ASSUME NEW s \in S PROVE FatesOf(s)'
    BY DEF FatesHold
  <2>1. /\ Resolved(s)' = Resolved(s) /\ LostBy(s)' = LostBy(s)
        /\ \A n : PlaceOf(s, n)' = PlaceOf(s, n)
    BY <1>1 DEF Resolved, LostBy, PlaceOf
  <2> QED
    BY <1>1, <2>1 DEF FatesHold, FatesOf, Won
\* Only the fate of the source's own queries changes.
<1>2. ASSUME NEW s \in S, FatesOf(s)', \A t \in S \ {s} : collector'[t] = collector[t]
      PROVE  FatesHold'
  <2>1. ASSUME NEW t \in S \ {s} PROVE FatesOf(t)'
    <3>1. /\ Resolved(t)' = Resolved(t) /\ LostBy(t)' = LostBy(t)
          /\ \A n : PlaceOf(t, n)' = PlaceOf(t, n)
      BY <1>2 DEF Resolved, LostBy, PlaceOf
    <3> QED
      BY <1>2, <3>1 DEF FatesHold, FatesOf, Won
  <2> QED
    BY <1>2, <2>1 DEF FatesHold
<1>3. ASSUME NEW s \in S, Answer(s)
      PROVE  FatesHold'
  <2> DEFINE n == Resolved(s) + 1
             g == collector[s].found
  <2>1. FatesOf(s) /\ Len(g) \in Nat /\ Resolved(s) \in Nat /\ DOMAIN g = 1 .. Len(g)
    BY SourceTypes DEF FatesHold
  <2>2. /\ \A t \in S \ {s} : collector'[t] = collector[t]
        /\ \A i \in 1 .. Len(g) : collector'[s].found[i] = g[i]
        /\ collector'[s].found[Len(g) + 1].severity
             = Score(collector'[s].found[Len(g) + 1].count, Sources[s].queries[n])
        /\ Resolved(s)' = n /\ n <= Len(Sources[s].queries)
        /\ LostBy(s)' = LostBy(s) /\ n \notin LostBy(s)
        /\ PlaceOf(s, n) = Len(g) + 1
        /\ \A i : PlaceOf(s, i)' = PlaceOf(s, i)
    BY <1>3, <2>1, AnswerStep
  <2>3. DOMAIN collector'[s].found = 1 .. Len(g) + 1
    <3>1. TypeOK'
      BY TypeNext
    <3>2. Len(collector'[s].found) = Len(g) + 1
      BY <1>3, <2>1, AnswerStep
    <3>3. collector'[s].found \in Seq(Finding)
      BY <3>1 DEF TypeOK, Collector
    <3> QED
      BY <3>2, <3>3, LenProperties
  <2>4. Won(s)' = Won(s) \cup {n}
    BY <2>1, <2>2 DEF Won
  <2>5. {PlaceOf(s, i) : i \in Won(s)} = 1 .. Len(g)
    BY <2>1 DEF FatesOf
  <2>6. {PlaceOf(s, i) : i \in Won(s)}' = 1 .. Len(g) + 1
    <3>1. {PlaceOf(s, i) : i \in Won(s)}' = {PlaceOf(s, i) : i \in Won(s) \cup {n}}
      BY <2>2, <2>4
    <3>2. {PlaceOf(s, i) : i \in Won(s) \cup {n}} = {PlaceOf(s, i) : i \in Won(s)} \cup {PlaceOf(s, n)}
      OBVIOUS
    <3>3. (1 .. Len(g)) \cup {Len(g) + 1} = 1 .. Len(g) + 1
      BY <2>1
    <3> QED
      BY <2>2, <2>5, <3>1, <3>2, <3>3
  <2>7. \A i \in Won(s) : PlaceOf(s, i) \in 1 .. Len(g)
    BY <2>5
  <2>8. \A i \in Won(s)' :
          collector'[s].found[PlaceOf(s, i)'].severity
            = Score(collector'[s].found[PlaceOf(s, i)'].count, Sources[s].queries[i])
    <3> TAKE i \in Won(s)'
    <3>1. CASE i = n
      BY <2>2, <3>1
    <3>2. CASE i \in Won(s)
      <4>1. g[PlaceOf(s, i)].severity = Score(g[PlaceOf(s, i)].count, Sources[s].queries[i])
        BY <2>1, <3>2 DEF FatesOf
      <4>2. collector'[s].found[PlaceOf(s, i)] = g[PlaceOf(s, i)]
        BY <2>2, <2>7, <3>2
      <4>3. PlaceOf(s, i)' = PlaceOf(s, i)
        BY <2>2
      <4> QED
        BY <4>1, <4>2, <4>3
    <3> QED
      BY <2>4, <3>1, <3>2
  <2>9. LostBy(s)' \subseteq 1 .. Resolved(s)'
    BY <2>1, <2>2 DEF FatesOf
  <2>10. FatesOf(s)'
    BY <2>2, <2>3, <2>6, <2>8, <2>9 DEF FatesOf
  <2> QED
    BY <1>2, <2>2, <2>10
<1>4. ASSUME NEW s \in S, Lose(s)
      PROVE  FatesHold'
  <2> DEFINE n == Resolved(s) + 1
  <2>1. FatesOf(s) /\ Resolved(s) \in Nat
    BY SourceTypes DEF FatesHold
  <2>2. /\ \A t \in S \ {s} : collector'[t] = collector[t]
        /\ collector'[s].found = collector[s].found
        /\ Resolved(s)' = n /\ n <= Len(Sources[s].queries)
        /\ LostBy(s)' = LostBy(s) \cup {n}
        /\ \A i \in 1 .. Resolved(s) : PlaceOf(s, i)' = PlaceOf(s, i)
    BY <1>4, <2>1, LoseStep
  <2>3. Won(s)' = Won(s) /\ Won(s) \subseteq 1 .. Resolved(s)
    BY <2>1, <2>2 DEF Won
  <2>4. {PlaceOf(s, i) : i \in Won(s)}' = {PlaceOf(s, i) : i \in Won(s)}
    BY <2>2, <2>3
  <2>5. LostBy(s)' \subseteq 1 .. Resolved(s)'
    BY <2>1, <2>2 DEF FatesOf
  <2>6. \A i \in Won(s)' :
          collector'[s].found[PlaceOf(s, i)'].severity
            = Score(collector'[s].found[PlaceOf(s, i)'].count, Sources[s].queries[i])
    BY <2>1, <2>2, <2>3 DEF FatesOf
  <2>7. FatesOf(s)'
    BY <2>1, <2>2, <2>4, <2>5, <2>6 DEF FatesOf
  <2> QED
    BY <1>2, <2>2, <2>7
<1>5. ASSUME NEW s \in S, ExpireSource(s) \/ Return(s)
      PROVE  FatesHold'
  <2>1. \A t \in S \ {s} : collector'[t] = collector[t]
    BY <1>5 DEF ExpireSource, Return, TypeOK
  <2>2. collector'[s].found = collector[s].found /\ collector'[s].lost = collector[s].lost
    BY <1>1, <1>5, EndKeepsFates
  <2>3. \A t \in S : /\ collector'[t].found = collector[t].found
                     /\ collector'[t].lost = collector[t].lost
    BY <2>1, <2>2
  <2> QED
    BY <1>1, <2>3
<1>6. CASE LLMNext \/ MainNext \/ Cancel \/ Terminating \/ UNCHANGED vars
  <2>1. collector' = collector
    BY <1>6, LLMKeeps, MainKeeps DEF Cancel, Terminating, vars
  <2> QED
    BY <1>1, <2>1
<1>7. ASSUME NEW k \in K, SinkNext(k)
      PROVE  FatesHold'
  BY <1>1, <1>7, SinkKeeps
<1> QED
  BY <1>3, <1>4, <1>5, <1>6, <1>7 DEF Next, SourceNext

\* The invariant behind all the safety properties of a run (Runner.Run).
THEOREM PromiseInvariant == Spec => []PromiseInv
<1>1. Init => PromiseInv
  BY OutcomeInvInit, FatesInit DEF PromiseInv
<1>2. PromiseInv /\ [Next]_vars => PromiseInv'
  BY OutcomeInvNext, FatesNext DEF PromiseInv, OutcomeInv, RunInv
<1> QED
  BY <1>1, <1>2, PTL DEF Spec

-----------------------------------------------------------------------------
(* The mapping.                                                             *)

\* The promise scores and names severities as the run does.
LEMMA SameScale ==
  /\ \A c, t : Promise!Score(c, t) = Score(c, t)
  /\ Promise!Severity = Severity /\ Promise!SeverityInfo = SeverityInfo
BY DEF Promise!Score, Score, Promise!Severity, Severity, Promise!SeverityInfo, SeverityInfo,
       Promise!SeverityWarning, SeverityWarning, Promise!SeverityCritical, SeverityCritical

\* The queries of the promise are pairs of a source and a number, and their
\* fates are those of the mapping.
LEMMA QueryPairs ==
  /\ Promise!S = S /\ Promise!K = K
  /\ Promise!Queries = DOMAIN fates
  /\ \A q \in Promise!Queries : /\ q = <<q[1], q[2]>> /\ q[1] \in S
                                /\ q[2] \in 1 .. Len(Sources[q[1]].queries)
                                /\ fates[q] = FateOf(q[1], q[2])
  /\ \A s \in S : \A n \in 1 .. Len(Sources[s].queries) :
       <<s, n>> \in Promise!Queries /\ fates[<<s, n>>] = FateOf(s, n)
<1>1. Promise!S = S /\ Promise!K = K
  BY DEF Promise!S, Promise!K, S, K
<1>2. \A s \in S : DOMAIN Sources[s].queries = 1 .. Len(Sources[s].queries)
  BY ConfigTypes, LenProperties
<1>3. Promise!Queries = UNION {{<<s, n>> : n \in 1 .. Len(Sources[s].queries)} : s \in S}
  BY <1>1, <1>2 DEF Promise!Queries
<1>4. fates = [q \in Promise!Queries |-> FateOf(q[1], q[2])]
  BY <1>1 DEF fates, Promise!Queries
<1>5. \A q \in Promise!Queries : /\ q = <<q[1], q[2]>> /\ q[1] \in S
                                 /\ q[2] \in 1 .. Len(Sources[q[1]].queries)
  BY <1>3
<1>6. \A s \in S : \A n \in 1 .. Len(Sources[s].queries) : <<s, n>> \in Promise!Queries
  BY <1>3
<1> QED
  BY <1>1, <1>4, <1>5, <1>6

\* A run that has asked nothing is a promise that nothing is known of.
LEMMA PromiseInit ==
  ASSUME Init
  PROVE  Promise!Init
<1>1. \A s \in S : Resolved(s) = 0
  <2> TAKE s \in S
  <2>1. collector[s].found = <<>> /\ collector[s].lost = <<>>
    BY DEF Init
  <2> QED
    BY <2>1 DEF Resolved
<1>2. \A q \in Promise!Queries : fates[q] = [state |-> "open", count |-> 0]
  <2> TAKE q \in Promise!Queries
  <2>1. q[1] \in S /\ q[2] > 0 /\ fates[q] = FateOf(q[1], q[2])
    BY QueryPairs
  <2> QED
    BY <1>1, <2>1 DEF FateOf
<1>3. fates = [q \in Promise!Queries |-> [state |-> "open", count |-> 0]]
  BY <1>2, QueryPairs DEF fates
<1>4. tales = [k \in K |-> {}]
  BY DEF Init, tales
<1>5. exit = Promise!NoExit
  <2>1. exit = NoExit
    BY DEF Init
  <2> QED
    BY <2>1 DEF NoExit, Promise!NoExit
<1> QED
  BY <1>3, <1>4, <1>5, QueryPairs DEF Promise!Init

\* A source's step resolves its next query, or changes no fate.
LEMMA SourceResolves ==
  ASSUME PromiseInv, NEW s \in S, SourceNext(s)
  PROVE  (\E q \in Promise!Queries : Promise!Resolve(q)) \/ UNCHANGED <<fates, tales, exit>>
<1>1. TypeOK /\ FatesOf(s)
  BY DEF PromiseInv, OutcomeInv, RunInv, FatesHold
<1>2. tales' = tales /\ exit' = exit
  BY SourceKeeps DEF tales, delivery, outcome
<1>3. Resolved(s) \in Nat /\ Len(Sources[s].queries) \in Nat
  BY <1>1, SourceTypes
<1>0. PICK n \in Nat : n = Resolved(s) + 1
  BY <1>3
<1> DEFINE q == <<s, n>>
<1>4. /\ fates' = [p \in Promise!Queries |-> FateOf(p[1], p[2])']
      /\ fates = [p \in Promise!Queries |-> FateOf(p[1], p[2])]
  BY DEF fates, S, Promise!Queries, Promise!S
\* Queries of other sources and queries already resolved keep their fate.
<1>5. ASSUME \A t \in S \ {s} : collector'[t] = collector[t],
             NEW p \in Promise!Queries, p[1] # s
      PROVE  FateOf(p[1], p[2])' = FateOf(p[1], p[2])
  <2>1. p[1] \in S \ {s}
    BY <1>5, QueryPairs
  <2>2. collector'[p[1]] = collector[p[1]]
    BY <1>5, <2>1
  <2> QED
    BY <2>2, Zenon DEF FateOf, LostBy, PlaceOf, Resolved
<1>6. ASSUME n <= Len(Sources[s].queries)
      PROVE  q \in Promise!Queries /\ fates[q].state = "open"
  <2>1. n \in 1 .. Len(Sources[s].queries)
    BY <1>0, <1>3, <1>6
  <2>2. q \in Promise!Queries /\ fates[q] = FateOf(s, n)
    BY <2>1, QueryPairs
  <2>3. n > Resolved(s)
    BY <1>0, <1>3
  <2> QED
    BY <2>2, <2>3 DEF FateOf
<1>7. ASSUME NEW v, q \in Promise!Queries, FateOf(s, n)' = v,
             \A t \in S \ {s} : collector'[t] = collector[t],
             \A i \in 1 .. Len(Sources[s].queries) : i # n => FateOf(s, i)' = FateOf(s, i)
      PROVE  fates' = [fates EXCEPT ![q] = v]
  <2>1. \A p \in Promise!Queries : p # q => FateOf(p[1], p[2])' = FateOf(p[1], p[2])
    <3> TAKE p \in Promise!Queries
    <3>1. p = <<p[1], p[2]>> /\ p[2] \in 1 .. Len(Sources[p[1]].queries)
      BY QueryPairs
    <3>2. CASE p[1] # s
      BY <1>5, <1>7, <3>2
    <3>3. CASE p[1] = s
      BY <1>7, <3>1, <3>3
    <3> QED
      BY <3>2, <3>3
  <2>2. FateOf(q[1], q[2])' = v
    BY <1>7
  <2>3. \A p \in Promise!Queries : FateOf(p[1], p[2])' = IF p = q THEN v ELSE fates[p]
    BY <2>1, <2>2, QueryPairs
  <2> HIDE DEF q
  <2>4. fates' = [p \in Promise!Queries |-> IF p = q THEN v ELSE fates[p]]
    BY <1>4, <2>3
  <2> QED
    BY <1>7, <2>4, QueryPairs DEF fates
<1>8. CASE Answer(s)
  <2> DEFINE g == collector[s].found
             f == collector'[s].found[Len(g) + 1]
  <2>1. /\ \A t \in S \ {s} : collector'[t] = collector[t]
        /\ \A i \in 1 .. Len(g) : collector'[s].found[i] = g[i]
        /\ f.count \in Counts
        /\ Resolved(s)' = n /\ n <= Len(Sources[s].queries)
        /\ LostBy(s)' = LostBy(s) /\ n \notin LostBy(s)
        /\ PlaceOf(s, n) = Len(g) + 1
        /\ \A i : PlaceOf(s, i)' = PlaceOf(s, i)
    BY <1>0, <1>1, <1>8, AnswerStep
  <2>2. q \in Promise!Queries /\ fates[q].state = "open"
    BY <1>6, <2>1
  <2>3. FateOf(s, n)' = [state |-> "answered", count |-> f.count]
    <3>1. ~(n > n)
      OBVIOUS
    <3> QED
      BY <2>1, <3>1 DEF FateOf
  <2>4. ASSUME NEW i \in 1 .. Len(Sources[s].queries), i # n
        PROVE  FateOf(s, i)' = FateOf(s, i)
    <3>1. CASE i > Resolved(s)
      <4>1. i > n
        BY <1>0, <1>3, <2>4, <3>1
      <4>2. FateOf(s, i)' = [state |-> "open", count |-> 0]
        BY <2>1, <4>1 DEF FateOf
      <4> QED
        BY <3>1, <4>2 DEF FateOf
    <3>2. CASE ~(i > Resolved(s))
      <4>1. ~(i > n)
        BY <1>0, <1>3, <2>4, <3>2
      <4>2. CASE i \in LostBy(s)
        BY <2>1, <3>2, <4>1, <4>2 DEF FateOf
      <4>3. CASE i \notin LostBy(s)
        <5>1. i \in Won(s)
          BY <1>3, <3>2, <4>3 DEF Won
        <5>2. PlaceOf(s, i) \in 1 .. Len(g)
          BY <1>1, <5>1, SourceTypes DEF FatesOf
        <5>3. collector'[s].found[PlaceOf(s, i)'] = g[PlaceOf(s, i)]
          BY <2>1, <5>2
        <5> QED
          BY <2>1, <3>2, <4>1, <4>3, <5>3 DEF FateOf
      <4> QED
        BY <4>2, <4>3
    <3> QED
      BY <3>1, <3>2
  <2>5. fates' = [fates EXCEPT ![q] = [state |-> "answered", count |-> f.count]]
    BY <1>7, <2>1, <2>2, <2>3, <2>4
  <2> HIDE DEF f, q
  <2> QED
    BY <1>2, <2>1, <2>2, <2>5 DEF Promise!Resolve
<1>9. CASE Lose(s)
  <2>1. /\ \A t \in S \ {s} : collector'[t] = collector[t]
        /\ collector'[s].found = collector[s].found
        /\ Resolved(s)' = n /\ n <= Len(Sources[s].queries)
        /\ LostBy(s)' = LostBy(s) \cup {n}
        /\ \A i \in 1 .. Resolved(s) : PlaceOf(s, i)' = PlaceOf(s, i)
    BY <1>0, <1>1, <1>9, LoseStep
  <2>2. q \in Promise!Queries /\ fates[q].state = "open"
    BY <1>6, <2>1
  <2>3. FateOf(s, n)' = [state |-> "lost", count |-> 0]
    <3>1. ~(n > n)
      OBVIOUS
    <3> QED
      BY <2>1, <3>1 DEF FateOf
  <2>4. ASSUME NEW i \in 1 .. Len(Sources[s].queries), i # n
        PROVE  FateOf(s, i)' = FateOf(s, i)
    <3>1. CASE i > Resolved(s)
      <4>1. i > n
        BY <1>0, <1>3, <2>4, <3>1
      <4>2. FateOf(s, i)' = [state |-> "open", count |-> 0]
        BY <2>1, <4>1 DEF FateOf
      <4> QED
        BY <3>1, <4>2 DEF FateOf
    <3>2. CASE ~(i > Resolved(s))
      <4>1. ~(i > n) /\ i \in 1 .. Resolved(s)
        BY <1>0, <1>3, <2>4, <3>2
      <4>2. PlaceOf(s, i)' = PlaceOf(s, i) /\ (i \in LostBy(s)' <=> i \in LostBy(s))
        BY <2>1, <2>4, <4>1
      <4> QED
        BY <2>1, <3>2, <4>1, <4>2 DEF FateOf
    <3> QED
      BY <3>1, <3>2
  <2>5. fates' = [fates EXCEPT ![q] = [state |-> "lost", count |-> 0]]
    BY <1>7, <2>1, <2>2, <2>3, <2>4
  <2> HIDE DEF q
  <2> QED
    BY <1>2, <2>2, <2>5 DEF Promise!Resolve
<1>10. CASE ExpireSource(s) \/ Return(s)
  <2>1. \A t \in S \ {s} : collector'[t] = collector[t]
    BY <1>1, <1>10 DEF ExpireSource, Return, TypeOK
  <2>2. collector'[s].found = collector[s].found /\ collector'[s].lost = collector[s].lost
    BY <1>1, <1>10, EndKeepsFates
  <2>3. \A p \in Promise!Queries : FateOf(p[1], p[2])' = FateOf(p[1], p[2])
    <3> TAKE p \in Promise!Queries
    <3>1. CASE p[1] # s
      BY <1>5, <2>1, <3>1
    <3>2. CASE p[1] = s
      BY <2>2, <3>2 DEF FateOf, LostBy, PlaceOf, Resolved
    <3> QED
      BY <3>1, <3>2
  <2>4. fates' = fates
    BY <1>4, <2>3
  <2> QED
    BY <1>2, <2>4
<1> QED
  BY <1>8, <1>9, <1>10 DEF SourceNext

-----------------------------------------------------------------------------
(* Past the barrier nothing is open, and the answers of the sources are     *)
(* those of the promise.                                                    *)

\* After the collection every query is answered or lost.
LEMMA FatesClosed ==
  ASSUME PromiseInv, pc # "collect"
  PROVE  /\ Promise!Closed
         /\ \A s \in S : Resolved(s) = Len(Sources[s].queries)
         /\ \A s \in S : \A n \in 1 .. Len(Sources[s].queries) :
              fates[<<s, n>>] = IF n \in LostBy(s) THEN [state |-> "lost", count |-> 0]
                                ELSE [state |-> "answered",
                                      count |-> collector[s].found[PlaceOf(s, n)].count]
<1>1. TypeOK
  BY DEF PromiseInv, OutcomeInv, RunInv
<1>2. ASSUME NEW s \in S
      PROVE  Resolved(s) = Len(Sources[s].queries)
  <2>1. ~Pending(s)
    BY DEF PromiseInv, OutcomeInv, RunInv, SlotsHold, AllReturned
  <2>2. Resolved(s) <= Len(Sources[s].queries)
    BY DEF PromiseInv, FatesHold, FatesOf
  <2>3. Resolved(s) \in Nat /\ Len(Sources[s].queries) \in Nat
    BY <1>1, SourceTypes
  <2> QED
    BY <2>1, <2>2, <2>3 DEF Pending
<1>3. ASSUME NEW s \in S, NEW n \in 1 .. Len(Sources[s].queries)
      PROVE  fates[<<s, n>>] = IF n \in LostBy(s) THEN [state |-> "lost", count |-> 0]
                               ELSE [state |-> "answered",
                                     count |-> collector[s].found[PlaceOf(s, n)].count]
  <2>1. fates[<<s, n>>] = FateOf(s, n)
    BY QueryPairs
  <2>2. Len(Sources[s].queries) \in Nat
    BY <1>1, SourceTypes
  <2>3. ~(n > Resolved(s))
    BY <1>2, <2>2
  <2> QED
    BY <2>1, <2>3 DEF FateOf
<1>4. ASSUME NEW q \in Promise!Queries
      PROVE  fates[q].state # "open"
  <2>1. q = <<q[1], q[2]>> /\ q[1] \in S /\ q[2] \in 1 .. Len(Sources[q[1]].queries)
    BY QueryPairs
  <2>2. fates[<<q[1], q[2]>>].state \in {"lost", "answered"}
    <3> DEFINE s == q[1]
               n == q[2]
    <3>1. fates[<<s, n>>] = IF n \in LostBy(s) THEN [state |-> "lost", count |-> 0]
                            ELSE [state |-> "answered",
                                  count |-> collector[s].found[PlaceOf(s, n)].count]
      BY <1>3, <2>1
    <3> HIDE DEF s, n
    <3>2. fates[<<s, n>>].state \in {"lost", "answered"}
      BY <3>1
    <3> QED
      BY <3>2 DEF s, n
  <2> QED
    BY <2>1, <2>2
<1> QED
  BY <1>2, <1>3, <1>4 DEF Promise!Closed

\* What the promise calls answered and lost are the findings and losses of the
\* collectors.
LEMMA AnsweredPairs ==
  ASSUME PromiseInv, pc # "collect", NEW q \in Promise!Queries
  PROVE  /\ q \in Promise!Answered <=> q[2] \in Won(q[1])
         /\ q[2] \in Won(q[1]) => fates[q].count = collector[q[1]].found[PlaceOf(q[1], q[2])].count
         /\ fates[q].state = "lost" <=> q[2] \in LostBy(q[1])
<1> DEFINE s == q[1]
           n == q[2]
<1>1. q = <<s, n>> /\ s \in S /\ n \in 1 .. Len(Sources[s].queries)
  BY QueryPairs
<1>2. n \in 1 .. Resolved(s)
  BY <1>1, FatesClosed
<1>3. fates[q] = IF n \in LostBy(s) THEN [state |-> "lost", count |-> 0]
                 ELSE [state |-> "answered", count |-> collector[s].found[PlaceOf(s, n)].count]
  BY <1>1, FatesClosed
<1> HIDE DEF s, n
<1>4. /\ fates[q].state = "answered" <=> n \notin LostBy(s)
      /\ fates[q].state = "lost" <=> n \in LostBy(s)
      /\ n \notin LostBy(s) => fates[q].count = collector[s].found[PlaceOf(s, n)].count
  BY <1>3
<1>5. n \in Won(s) <=> n \notin LostBy(s)
  BY <1>2 DEF Won
<1>6. q \in Promise!Answered <=> fates[q].state = "answered"
  BY DEF Promise!Answered
<1> QED
  BY <1>4, <1>5, <1>6 DEF s, n

\* Every answered query has its finding, and every finding its query.
LEMMA AnswersAgree ==
  ASSUME PromiseInv, pc # "collect"
  PROVE  /\ \A q \in Promise!Answered : \E a \in Answers :
              /\ a[1] = q[1]
              /\ collector[a[1]].found[a[2]].count = fates[q].count
              /\ collector[a[1]].found[a[2]].severity = Promise!SeverityOf(q)
         /\ \A a \in Answers : \E q \in Promise!Answered :
              /\ a[1] = q[1]
              /\ collector[a[1]].found[a[2]].count = fates[q].count
              /\ collector[a[1]].found[a[2]].severity = Promise!SeverityOf(q)
<1>1. \A s \in S : FatesOf(s)
  BY DEF PromiseInv, FatesHold
<1>2. ASSUME NEW s \in S, NEW n \in Won(s)
      PROVE  /\ <<s, n>> \in Promise!Answered
             /\ PlaceOf(s, n) \in DOMAIN collector[s].found
             /\ <<s, PlaceOf(s, n)>> \in Answers
             /\ collector[s].found[PlaceOf(s, n)].count = fates[<<s, n>>].count
             /\ collector[s].found[PlaceOf(s, n)].severity = Promise!SeverityOf(<<s, n>>)
  <2>1. n \in 1 .. Len(Sources[s].queries)
    BY <1>2, FatesClosed DEF Won
  <2>2. <<s, n>> \in Promise!Queries
    BY <2>1, QueryPairs
  <2>3. /\ <<s, n>> \in Promise!Answered
        /\ fates[<<s, n>>].count = collector[s].found[PlaceOf(s, n)].count
    <3> DEFINE q == <<s, n>>
    <3>1. q[1] = s /\ q[2] = n
      OBVIOUS
    <3>2. q \in Promise!Queries
      BY <2>2
    <3> HIDE DEF q
    <3>3. q \in Promise!Answered /\ fates[q].count = collector[s].found[PlaceOf(s, n)].count
      BY <1>2, <3>1, <3>2, AnsweredPairs
    <3> QED
      BY <3>3 DEF q
  <2>4. PlaceOf(s, n) \in DOMAIN collector[s].found
    BY <1>1, <1>2 DEF FatesOf
  <2>5. collector[s].found[PlaceOf(s, n)].severity
          = Score(collector[s].found[PlaceOf(s, n)].count, Sources[s].queries[n])
    BY <1>1, <1>2 DEF FatesOf
  <2>6. Promise!SeverityOf(<<s, n>>) = Score(fates[<<s, n>>].count, Sources[s].queries[n])
    <3> DEFINE q == <<s, n>>
    <3>1. q[1] = s /\ q[2] = n
      OBVIOUS
    <3> HIDE DEF q
    <3>2. Promise!SeverityOf(q) = Score(fates[q].count, Sources[q[1]].queries[q[2]])
      BY SameScale DEF Promise!SeverityOf
    <3>3. Promise!SeverityOf(q) = Score(fates[q].count, Sources[s].queries[n])
      BY <3>1, <3>2
    <3> QED
      BY <3>3 DEF q
  <2> QED
    BY <2>3, <2>4, <2>5, <2>6 DEF Answers
<1>3. ASSUME NEW q \in Promise!Answered
      PROVE  \E a \in Answers : /\ a[1] = q[1]
                                /\ collector[a[1]].found[a[2]].count = fates[q].count
                                /\ collector[a[1]].found[a[2]].severity = Promise!SeverityOf(q)
  <2>1. q \in Promise!Queries
    BY DEF Promise!Answered
  <2>2. q = <<q[1], q[2]>> /\ q[1] \in S /\ q[2] \in Won(q[1])
    BY <1>3, <2>1, AnsweredPairs, QueryPairs
  <2> DEFINE a == <<q[1], PlaceOf(q[1], q[2])>>
  <2>3. a[1] = q[1] /\ a[2] = PlaceOf(q[1], q[2])
    OBVIOUS
  <2>4. /\ a \in Answers
        /\ collector[q[1]].found[PlaceOf(q[1], q[2])].count = fates[q].count
        /\ collector[q[1]].found[PlaceOf(q[1], q[2])].severity = Promise!SeverityOf(q)
    BY <1>2, <2>2
  <2> HIDE DEF a
  <2> QED
    BY <2>3, <2>4
<1>4. ASSUME NEW a \in Answers
      PROVE  \E q \in Promise!Answered :
               /\ a[1] = q[1]
               /\ collector[a[1]].found[a[2]].count = fates[q].count
               /\ collector[a[1]].found[a[2]].severity = Promise!SeverityOf(q)
  <2>0. PICK s \in S : \E i \in DOMAIN collector[s].found : a = <<s, i>>
    BY DEF Answers
  <2>1. PICK i \in DOMAIN collector[s].found : a = <<s, i>>
    BY <2>0
  <2>2. PICK n \in Won(s) : PlaceOf(s, n) = i
    BY <1>1, <2>1 DEF FatesOf
  <2> DEFINE q == <<s, n>>
  <2>3. q[1] = s /\ a[1] = s /\ a[2] = i
    BY <2>1
  <2>4. /\ q \in Promise!Answered
        /\ collector[s].found[i].count = fates[q].count
        /\ collector[s].found[i].severity = Promise!SeverityOf(q)
    BY <1>2, <2>2
  <2> HIDE DEF q
  <2> QED
    BY <2>3, <2>4
<1> QED
  BY <1>3, <1>4

-----------------------------------------------------------------------------
(* The tale.                                                                *)

\* Only the empty sequence has an empty domain.
LEMMA EmptyDomain ==
  ASSUME NEW X, NEW q \in Seq(X)
  PROVE  DOMAIN q = {} <=> q = <<>>
<1>1. DOMAIN q = 1 .. Len(q) /\ Len(q) \in Nat
  BY LenProperties
<1>2. Len(q) = 0 <=> q = <<>>
  BY EmptySeq
<1>3. \A n \in Nat : 1 .. n = {} <=> n = 0
  OBVIOUS
<1>4. 1 .. Len(q) = {} <=> Len(q) = 0
  BY <1>1, <1>3
<1>5. DOMAIN q = {} <=> 1 .. Len(q) = {}
  BY <1>1
<1> QED
  BY <1>2, <1>4, <1>5

\* The verdict of a message is the worst severity of the answered queries.
LEMMA VerdictIsTold ==
  ASSUME PromiseInv, NEW k \in K, NEW m \in inbox[k]
  PROVE  m.body.verdict = Promise!Tale.verdict
<1> DEFINE v == m.body.verdict
           Is(w) == /\ \A q \in Promise!Answered : Promise!SeverityOf(q) <= w
                    /\ \/ w = SeverityInfo
                       \/ \E q \in Promise!Answered : Promise!SeverityOf(q) = w
<1>1. OutcomeInv /\ pc # "collect"
  BY Received DEF PromiseInv
<1>2. v \in Severity
  <2>1. v = report.verdict /\ report \in ReportType
    BY <1>1, Received DEF OutcomeInv, RunInv, TypeOK
  <2> QED
    BY <2>1 DEF ReportType
<1>3. /\ \A a \in Answers : collector[a[1]].found[a[2]].severity <= v
      /\ v = SeverityInfo \/ \E a \in Answers : collector[a[1]].found[a[2]].severity = v
  BY <1>1, InvGivesWorstFirst DEF WorstFirst
<1>4. /\ \A q \in Promise!Answered : \E a \in Answers :
           collector[a[1]].found[a[2]].severity = Promise!SeverityOf(q)
      /\ \A a \in Answers : \E q \in Promise!Answered :
           collector[a[1]].found[a[2]].severity = Promise!SeverityOf(q)
  BY <1>1, AnswersAgree
<1> HIDE DEF v
<1>5. Is(v)
  BY <1>3, <1>4
<1>6. \A w \in Severity : Is(w) => w = v
  <2> SUFFICES ASSUME NEW w \in Severity, Is(w) PROVE w = v
    OBVIOUS
  <2>1. w \in 0 .. 2 /\ v \in 0 .. 2
    BY <1>2 DEF Severity, SeverityInfo, SeverityCritical
  <2>2. \A q \in Promise!Answered : Promise!SeverityOf(q) \in 0 .. 2
    BY SameScale, ScoreType DEF Promise!SeverityOf, Severity, SeverityInfo, SeverityCritical
  <2>3. w <= v
    BY <1>5, <2>1, <2>2 DEF SeverityInfo
  <2>4. v <= w
    BY <1>5, <2>1, <2>2 DEF SeverityInfo
  <2> QED
    BY <2>1, <2>3, <2>4
<1>7. Promise!Tale.verdict = CHOOSE w \in Severity : Is(w)
  BY SameScale DEF Promise!Tale
<1> HIDE DEF Is
<1>8. (CHOOSE w \in Severity : Is(w)) = v
  BY <1>2, <1>5, <1>6
<1> QED
  BY <1>7, <1>8 DEF v

\* The failed and partial sources of a message are those whose queries are
\* lost, all or some.
LEMMA ProblemsAreTold ==
  ASSUME PromiseInv, NEW k \in K, NEW m \in inbox[k]
  PROVE  /\ TaleOf(m).failed = Promise!Tale.failed
         /\ TaleOf(m).partial = Promise!Tale.partial
<1>1. OutcomeInv /\ pc # "collect"
  BY Received DEF PromiseInv
<1> DEFINE P == m.body.problems
<1>2. /\ \A s \in Lossy : \E p \in P : Tells(p, s)
      /\ \A p \in P : \E s \in Lossy : Tells(p, s)
  BY <1>1, RunInvIsEnough DEF OutcomeInv, IncompleteIsNamed
<1>3. ASSUME NEW s \in S
      PROVE  /\ Promise!Lost(s) # {} <=> collector[s].lost # <<>>
             /\ (\A q \in Promise!Answered : q[1] # s) <=> collector[s].found = <<>>
  <2>1. /\ collector[s].lost \in Seq(Nat) /\ collector[s].found \in Seq(Finding)
        /\ DOMAIN collector[s].found = 1 .. Len(collector[s].found)
    BY SourceTypes DEF PromiseInv, OutcomeInv, RunInv
  <2>2. LostBy(s) # {} <=> collector[s].lost # <<>>
    <3>1. DOMAIN collector[s].lost = {} <=> collector[s].lost = <<>>
      BY <2>1, EmptyDomain
    <3> QED
      BY <3>1 DEF LostBy
  <2>3. ASSUME NEW n \in LostBy(s)
        PROVE  <<s, n>> \in Promise!Lost(s)
    <3> DEFINE q == <<s, n>>
    <3>1. n \in 1 .. Len(Sources[s].queries)
      BY <1>1, FatesClosed DEF PromiseInv, FatesHold, FatesOf
    <3>2. q \in Promise!Queries /\ q[1] = s /\ q[2] = n
      BY <3>1, QueryPairs
    <3> HIDE DEF q
    <3>3. q \in Promise!Lost(s)
      BY <1>1, <2>3, <3>2, AnsweredPairs DEF Promise!Lost
    <3> QED
      BY <3>3 DEF q
  <2>4. ASSUME NEW q \in Promise!Lost(s)
        PROVE  q[2] \in LostBy(s)
    BY <1>1, AnsweredPairs DEF Promise!Lost
  <2>5. (\E q \in Promise!Answered : q[1] = s) <=> \E a \in Answers : a[1] = s
    BY <1>1, AnswersAgree
  <2>6. (\E a \in Answers : a[1] = s) <=> DOMAIN collector[s].found # {}
    <3>1. ASSUME NEW i \in DOMAIN collector[s].found PROVE \E a \in Answers : a[1] = s
      <4>1. <<s, i>> \in Answers
        BY DEF Answers
      <4> QED
        BY <4>1
    <3>2. ASSUME NEW a \in Answers, a[1] = s PROVE DOMAIN collector[s].found # {}
      BY <3>2 DEF Answers
    <3> QED
      BY <3>1, <3>2
  <2>7. DOMAIN collector[s].found # {} <=> collector[s].found # <<>>
    BY <2>1, EmptyDomain
  <2> QED
    BY <2>2, <2>3, <2>4, <2>5, <2>6, <2>7
<1> DEFINE Failed == {s \in S : collector[s].lost # <<>> /\ collector[s].found = <<>>}
           Partially == {s \in S : collector[s].lost # <<>> /\ collector[s].found # <<>>}
           Failures == {p \in P : p.kind = "failed"}
           Partials == {p \in P : p.kind = "partial"}
<1>4. /\ Promise!Tale.failed = {Sources[s].name : s \in Failed}
      /\ Promise!Tale.partial = {Sources[s].name : s \in Partially}
  <2>1. {s \in Promise!S : Promise!Lost(s) # {} /\ \A q \in Promise!Answered : q[1] # s} = Failed
    BY <1>3, QueryPairs
  <2>2. {s \in Promise!S : Promise!Lost(s) # {} /\ \E q \in Promise!Answered : q[1] = s} = Partially
    BY <1>3, QueryPairs
  <2> QED
    BY <2>1, <2>2 DEF Promise!Tale
<1>5. /\ TaleOf(m).failed = {p.source : p \in Failures}
      /\ TaleOf(m).partial = {p.source : p \in Partials}
  BY DEF TaleOf
<1> HIDE DEF P
<1>6. \A s \in Lossy : s \in S /\ collector[s].lost # <<>>
  BY DEF Lossy
<1>7. \A s \in Lossy, p \in P : Tells(p, s) =>
        /\ p.source = Sources[s].name
        /\ p.kind = "failed" <=> s \in Failed
        /\ p.kind = "partial" <=> s \in Partially
  BY <1>6 DEF Tells
<1>8. Failed \subseteq Lossy /\ Partially \subseteq Lossy
  BY DEF Lossy
<1> HIDE DEF Failed, Partially
<1>9. {p.source : p \in Failures} = {Sources[s].name : s \in Failed}
      /\ {p.source : p \in Partials} = {Sources[s].name : s \in Partially}
  BY <1>2, <1>7, <1>8
<1> QED
  BY <1>4, <1>5, <1>9

\* What a message tells is what the promise demands.
LEMMA TaleIsTold ==
  ASSUME PromiseInv, NEW k \in K, NEW m \in inbox[k]
  PROVE  TaleOf(m) = Promise!Tale
<1> DEFINE t == TaleOf(m)
           u == Promise!Tale
<1>1. t = [verdict |-> t.verdict, failed |-> t.failed, partial |-> t.partial]
  BY DEF TaleOf
<1>2. u = [verdict |-> u.verdict, failed |-> u.failed, partial |-> u.partial]
  BY DEF Promise!Tale
<1>3. t.verdict = m.body.verdict
  BY DEF TaleOf
<1>4. t.verdict = u.verdict /\ t.failed = u.failed /\ t.partial = u.partial
  BY <1>3, VerdictIsTold, ProblemsAreTold
<1> HIDE DEF t, u
<1>5. t = u
  BY <1>1, <1>2, <1>4
<1> QED
  BY <1>5 DEF t, u

OneTale == \A k \in K : \A m \in inbox[k] : TaleOf(m) = Promise!Tale

\* ... so all messages tell the same.
LEMMA OneTaleIsTold == PromiseInv => OneTale
BY TaleIsTold DEF OneTale

\* The same of the state after a step.
LEMMA OneTaleIsToldNext == PromiseInv' => OneTale'
BY OneTaleIsTold, PTL

-----------------------------------------------------------------------------
(* The steps.                                                               *)

\* What leaves the goroutines and the inboxes alone is invisible.
LEMMA Invisible ==
  ASSUME UNCHANGED <<collector, inbox, exit>>
  PROVE  UNCHANGED Promise!vars
<1>1. tales' = tales
  BY DEF tales
<1>2. fates' = fates
  BY DEF fates, FateOf, LostBy, PlaceOf, Resolved
<1> QED
  BY <1>1, <1>2 DEF Promise!vars

\* An endpoint that takes a request off the wire is told the tale.
LEMMA AcceptTells ==
  ASSUME PromiseInv, PromiseInv', NEW k \in K, Accept(k)
  PROVE  Promise!Tell(k)
<1>1. PICK a \in wire[k] :
        inbox' = [inbox EXCEPT ![k] = @ \cup {[attempt |-> a, body |-> sender[k].body]}]
  BY DEF Accept
<1>2. /\ inbox \in [K -> SUBSET [attempt : Nat, body : Body]]
      /\ UNCHANGED <<main, collector, report, exit>>
  BY DEF PromiseInv, OutcomeInv, RunInv, TypeOK, Accept, outcome
<1>3. pc # "collect"
  <2>1. sender[k].phase # "idle"
    BY <1>1 DEF PromiseInv, OutcomeInv, RunInv, MessagesHold
  <2> QED
    BY <2>1 DEF PromiseInv, OutcomeInv, RunInv, MessagesHold
<1>4. fates' = fates
  BY <1>2 DEF fates, FateOf, LostBy, PlaceOf, Resolved
<1>5. Promise!Closed
  BY <1>3, FatesClosed
<1>6. Promise!Tale' = Promise!Tale
  BY <1>4 DEF Promise!Tale, Promise!Answered, Promise!Lost, Promise!SeverityOf
<1>7. \A m \in inbox'[k] : TaleOf(m) = Promise!Tale
  <2>1. \A m \in inbox'[k] : TaleOf(m) = Promise!Tale'
    BY OneTaleIsToldNext DEF OneTale
  <2> QED
    BY <1>6, <2>1
<1>8. inbox'[k] # {}
  BY <1>1, <1>2
<1>9. {TaleOf(m) : m \in inbox'[k]} = {Promise!Tale}
  BY <1>7, <1>8
<1>10. tales' = [tales EXCEPT ![k] = {Promise!Tale}]
  <2>1. \A j \in K : j # k => inbox'[j] = inbox[j]
    BY <1>1, <1>2
  <2>2. tales' = [j \in K |-> {TaleOf(m) : m \in inbox'[j]}]
    BY DEF tales, TaleOf
  <2> QED
    BY <1>9, <2>1, <2>2 DEF tales
<1> QED
  BY <1>2, <1>4, <1>5, <1>10 DEF Promise!Tell

\* The end of the process, on either of its two ways, finishes the promise.
LEMMA ExitFinishes ==
  ASSUME PromiseInv, PromiseInv', pc' = "exited", exit' \in {0, 1, 2}, pc # "collect", exit = NoExit,
         UNCHANGED <<collector, inbox>>
  PROVE  Promise!Finish
<1>1. fates' = fates /\ tales' = tales
  BY DEF fates, FateOf, LostBy, PlaceOf, Resolved, tales
<1>2. Promise!Closed
  BY FatesClosed
<1>3. /\ exit' = 0 => (\A k \in K : inbox[k] # {}) /\ (S # {} => SomethingAnswered)
      /\ exit' = 2 <=> \/ \E a \in Answers : collector[a[1]].found[a[2]].count < 0
                       \/ report'.tokens < 0
  <2>1. ExitTellsTheTruth'
    BY ExitIsTruthfulNext DEF PromiseInv
  <2>2. Answers' = Answers /\ SomethingAnswered' = SomethingAnswered
    BY DEF Answers, SomethingAnswered
  <2> QED
    BY <2>1, <2>2 DEF ExitTellsTheTruth
<1>4. report'.tokens < 0 => \E n \in TokenCounts : n < 0
  <2>1. OutcomeHolds'
    BY DEF PromiseInv, OutcomeInv
  <2>2. report'.tokens \in TokenCounts \cup {0}
    BY <2>1 DEF OutcomeHolds
  <2> QED
    BY <2>2
<1>5. (\E a \in Answers : collector[a[1]].found[a[2]].count < 0)
        <=> \E q \in Promise!Answered : fates[q].count < 0
  BY AnswersAgree
<1>6. SomethingAnswered => Promise!Answered # {}
  <2> SUFFICES ASSUME NEW s \in S, collector[s].found # <<>> PROVE Promise!Answered # {}
    BY DEF SomethingAnswered
  <2>1. DOMAIN collector[s].found # {}
    BY SourceTypes, EmptyDomain DEF PromiseInv, OutcomeInv, RunInv
  <2>2. PICK i \in DOMAIN collector[s].found : TRUE
    BY <2>1
  <2>3. <<s, i>> \in Answers
    BY DEF Answers
  <2> QED
    BY <2>3, AnswersAgree
<1>7. (\A k \in K : inbox[k] # {}) => \A k \in Promise!K : tales[k] # {}
  <2>1. \A k \in K : inbox[k] # {} => tales[k] # {}
    BY DEF tales
  <2> QED
    BY <2>1, QueryPairs
<1>8. exit' \in 0 .. 2 /\ exit = Promise!NoExit /\ Promise!S = S
  BY QueryPairs DEF NoExit, Promise!NoExit
<1> QED
  BY <1>1, <1>2, <1>3, <1>4, <1>5, <1>6, <1>7, <1>8 DEF Promise!Finish

\* Every step of a run is a step of the promise, or none.
LEMMA PromiseNext ==
  ASSUME PromiseInv, PromiseInv', [Next]_vars
  PROVE  [Promise!Next]_Promise!vars
<1>1. ASSUME NEW s \in S, SourceNext(s)
      PROVE  [Promise!Next]_Promise!vars
  BY <1>1, SourceResolves DEF Promise!Next, Promise!vars
<1>2. ASSUME NEW k \in K, SinkNext(k)
      PROVE  [Promise!Next]_Promise!vars
  <2>1. CASE Accept(k)
    BY <2>1, AcceptTells, QueryPairs DEF Promise!Next
  <2>2. CASE ~Accept(k)
    <3>1. UNCHANGED <<collector, inbox, exit>>
      BY <1>2, <2>2, SinkKeeps DEF PromiseInv, OutcomeInv, RunInv, outcome, SinkNext, Compose,
         ComposeFails, Dial, Delivered, RetrySend, Refused, ExpireSink, Abandon
    <3> QED
      BY <3>1, Invisible
  <2> QED
    BY <2>1, <2>2
<1>3. CASE LLMNext
  BY <1>3, LLMKeeps, Invisible DEF PromiseInv, OutcomeInv, RunInv, delivery, outcome
<1>4. CASE Wait \/ Gather \/ Judge \/ Settle \/ Record \/ AppendHistory
  BY <1>4, Invisible DEF Wait, Gather, Judge, Settle, Record, AppendHistory, delivery, outcome
<1>5. CASE Panic \/ Exit
  <2>1. /\ pc' = "exited" /\ exit' \in {0, 1, 2} /\ pc \notin {"collect", "exited"}
        /\ UNCHANGED <<collector, inbox>>
    BY <1>5 DEF Panic, Exit, delivery
  <2>2. exit = NoExit
    BY <2>1 DEF PromiseInv, OutcomeInv, OutcomeHolds
  <2>3. Promise!Finish
    BY <2>1, <2>2, ExitFinishes
  <2> QED
    BY <2>3 DEF Promise!Next
<1>6. CASE Cancel \/ Terminating \/ UNCHANGED vars
  BY <1>6, Invisible DEF Cancel, Terminating, vars, delivery, outcome
<1> QED
  BY <1>1, <1>2, <1>3, <1>4, <1>5, <1>6 DEF Next, MainNext

\* Every run keeps the safety half of the promise, whatever its sources, sinks,
\* attempts, timeouts and signals are: each query is resolved once, endpoints are
\* told one and the same tale of all of them and only when none is open, and the
\* exit code fits (Runner.Run, runCmd).
THEOREM RunKeepsPromise == Spec => Promise!Safety
<1>1. PromiseInv /\ PromiseInv' /\ [Next]_vars => [Promise!Next]_Promise!vars
  BY PromiseNext
<1> QED
  BY <1>1, PromiseInvariant, PromiseInit, PTL DEF Spec, Promise!Safety
=============================================================================
