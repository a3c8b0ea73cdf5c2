--------------------------- MODULE DigestRunProofs --------------------------
(***************************************************************************)
(* Theorems about DigestRun, for every configuration of sources and sinks, *)
(* every number of attempts and every set of counts, and about the pure    *)
(* parts of its report.                                                    *)
(***************************************************************************)
EXTENDS DigestRun, FunctionTheorems, FiniteSetTheorems, SequenceTheorems, TLAPS

-----------------------------------------------------------------------------
(* The parts of a report: sortFindings is a stable sort, Verdict the        *)
(* maximum.                                                                 *)

\* The comparison of three keys in turn is transitive, and so is its negation.
LEMMA LexTransitive ==
  \A a, b, c, d, e, f, l, m, n \in Int :
    /\ a > b \/ (a = b /\ d < e) \/ (a = b /\ d = e /\ l < m)
    /\ b > c \/ (b = c /\ e < f) \/ (b = c /\ e = f /\ m < n)
    => a > c \/ (a = c /\ d < f) \/ (a = c /\ d = f /\ l < n)
  OBVIOUS

\* The order of sortFindings, on the integers it compares: not coming before is
\* transitive.
LEMMA LexNegativelyTransitive ==
  \A a, b, c, d, e, f, l, m, n \in Int :
    /\ ~(b > a \/ (b = a /\ e < d) \/ (b = a /\ e = d /\ m < l))
    /\ ~(c > b \/ (c = b /\ f < e) \/ (c = b /\ f = e /\ n < m))
    => ~(c > a \/ (c = a /\ f < d) \/ (c = a /\ f = d /\ n < l))
  OBVIOUS

\* Before orders the positions of a sequence of findings strictly and totally.
LEMMA BeforeIsTotal ==
  ASSUME NEW fs \in Seq(Finding)
  PROVE  /\ \A i \in DOMAIN fs : ~Before(fs, i, i)
         /\ \A i, j \in DOMAIN fs : i # j => Before(fs, i, j) \/ Before(fs, j, i)
         /\ \A i, j, k \in DOMAIN fs : Before(fs, i, j) /\ Before(fs, j, k) => Before(fs, i, k)
<1>1. DOMAIN fs \subseteq Int /\ \A i \in DOMAIN fs : fs[i] \in Finding
  OBVIOUS
<1>2. \A i \in DOMAIN fs : /\ fs[i].severity \in Int
                           /\ fs[i].source \in Int
                           /\ fs[i].title \in Int
  BY <1>1 DEF Finding, Severity, SeverityInfo, SeverityCritical
<1>3. \A i, j \in DOMAIN fs : Precedes(fs[i], fs[j]) => ~Precedes(fs[j], fs[i])
  BY <1>2 DEF Precedes
<1>4. ASSUME NEW i \in DOMAIN fs, NEW j \in DOMAIN fs, NEW k \in DOMAIN fs
      PROVE  /\ Precedes(fs[i], fs[j]) /\ Precedes(fs[j], fs[k]) => Precedes(fs[i], fs[k])
             /\ ~Precedes(fs[j], fs[i]) /\ ~Precedes(fs[k], fs[j]) => ~Precedes(fs[k], fs[i])
  <2>1. /\ fs[i].severity \in Int /\ fs[i].source \in Int /\ fs[i].title \in Int
        /\ fs[j].severity \in Int /\ fs[j].source \in Int /\ fs[j].title \in Int
        /\ fs[k].severity \in Int /\ fs[k].source \in Int /\ fs[k].title \in Int
    BY <1>2
  <2> DEFINE a == fs[i].severity  b == fs[j].severity  c == fs[k].severity
             d == fs[i].source    e == fs[j].source    f == fs[k].source
             l == fs[i].title     m == fs[j].title     n == fs[k].title
  <2>2. /\ Precedes(fs[i], fs[j]) <=> a > b \/ (a = b /\ d < e) \/ (a = b /\ d = e /\ l < m)
        /\ Precedes(fs[j], fs[k]) <=> b > c \/ (b = c /\ e < f) \/ (b = c /\ e = f /\ m < n)
        /\ Precedes(fs[i], fs[k]) <=> a > c \/ (a = c /\ d < f) \/ (a = c /\ d = f /\ l < n)
        /\ Precedes(fs[j], fs[i]) <=> b > a \/ (b = a /\ e < d) \/ (b = a /\ e = d /\ m < l)
        /\ Precedes(fs[k], fs[j]) <=> c > b \/ (c = b /\ f < e) \/ (c = b /\ f = e /\ n < m)
        /\ Precedes(fs[k], fs[i]) <=> c > a \/ (c = a /\ f < d) \/ (c = a /\ f = d /\ n < l)
    BY Zenon DEF Precedes
  <2> HIDE DEF a, b, c, d, e, f, l, m, n
  <2>3. /\ a \in Int /\ b \in Int /\ c \in Int /\ d \in Int /\ e \in Int /\ f \in Int
        /\ l \in Int /\ m \in Int /\ n \in Int
    BY <2>1 DEF a, b, c, d, e, f, l, m, n
  <2> QED
    BY <2>2, <2>3, LexTransitive, LexNegativelyTransitive
<1> QED
  BY <1>1, <1>3, <1>4 DEF Before

\* The rank of a position is a position, and no two positions share a rank.
LEMMA RankIsInjective ==
  ASSUME NEW fs \in Seq(Finding)
  PROVE  /\ \A i \in DOMAIN fs : Rank(fs, i) \in DOMAIN fs
         /\ \A i, j \in DOMAIN fs : Before(fs, i, j) => Rank(fs, i) < Rank(fs, j)
<1> DEFINE D == DOMAIN fs
           Below(i) == {j \in D : Before(fs, j, i)}
<1>1. D = 1 .. Len(fs) /\ Len(fs) \in Nat
  OBVIOUS
<1>2. IsFiniteSet(D) /\ Cardinality(D) = Len(fs)
  BY <1>1, FS_Interval
<1>3. ASSUME NEW i \in D
      PROVE  /\ IsFiniteSet(Below(i)) /\ Cardinality(Below(i)) \in Nat
             /\ Cardinality(Below(i)) < Len(fs)
  <2>1. Below(i) \in SUBSET (D \ {i})
    BY BeforeIsTotal
  <2>2. IsFiniteSet(D \ {i}) /\ Cardinality(D \ {i}) = Len(fs) - 1
    BY <1>2, FS_RemoveElement
  <2>3. IsFiniteSet(Below(i)) /\ Cardinality(Below(i)) <= Len(fs) - 1
    BY <2>1, <2>2, FS_Subset
  <2>4. Cardinality(Below(i)) \in Nat
    BY <2>3, FS_CardinalityType
  <2> QED
    BY <2>3, <2>4, <1>1
<1> DEFINE below == [i \in D |-> Cardinality(Below(i))]
<1>4. below \in [D -> 0 .. Len(fs) - 1] /\ \A i \in D : Rank(fs, i) = below[i] + 1
  <2>1. \A i \in D : Rank(fs, i) = below[i] + 1
    BY DEF Rank
  <2>2. \A i \in D : below[i] \in 0 .. Len(fs) - 1
    <3> TAKE i \in D
    <3>1. below[i] = Cardinality(Below(i))
      OBVIOUS
    <3> HIDE DEF below, Below
    <3> QED
      BY <1>1, <1>3, <3>1
  <2> QED
    BY <2>1, <2>2
<1>5. ASSUME NEW i \in D, NEW j \in D, Before(fs, i, j)
      PROVE  below[i] < below[j]
  <2>1. Below(i) \in SUBSET Below(j)
    BY <1>5, BeforeIsTotal
  <2>2. i \in Below(j) /\ i \notin Below(i)
    BY <1>5, BeforeIsTotal
  <2>3. Below(i) # Below(j)
    BY <2>2
  <2>4. Cardinality(Below(i)) <= Cardinality(Below(j)) /\ Cardinality(Below(i)) # Cardinality(Below(j))
    BY <1>3, <2>1, <2>3, FS_Subset
  <2>5. below[i] <= below[j] /\ below[i] # below[j]
    BY <2>4
  <2> QED
    BY <1>4, <2>5
<1> HIDE DEF below
<1> QED
  BY <1>1, <1>4, <1>5

\* Every position is the rank of exactly one position.
LEMMA RankIsOnto ==
  ASSUME NEW fs \in Seq(Finding), NEW k \in DOMAIN fs
  PROVE  \E i \in DOMAIN fs : Rank(fs, i) = k
<1> DEFINE D == DOMAIN fs
           rank == [i \in D |-> Rank(fs, i)]
<1>1. IsFiniteSet(D)
  BY FS_Interval
<1>2. rank \in [D -> D] /\ \A i, j \in D : rank[i] = rank[j] => i = j
  <2>1. \A i, j \in D : i # j => Rank(fs, i) # Rank(fs, j)
    BY BeforeIsTotal, RankIsInjective
  <2> QED
    BY <2>1, RankIsInjective
<1>3. rank \in Injection(D, D)
  BY <1>2 DEF Injection, IsInjective
<1>4. rank \in Surjection(D, D)
  BY <1>1, <1>3, FS_Injection
<1> QED
  BY <1>4 DEF Surjection

\* sortFindings is a stable sort of every slice of findings: the report holds
\* each finding exactly once, each one before those it precedes, and equal ones
\* in the order in which they were collected (sort.SliceStable in run.go).
THEOREM SortFindingsIsStableSort ==
  ASSUME NEW fs \in Seq(Finding)
  PROVE  /\ sortFindings(fs) \in Seq(Finding)
         /\ Len(sortFindings(fs)) = Len(fs)
         /\ \E p \in [DOMAIN fs -> DOMAIN fs] :
              /\ \A k \in DOMAIN fs : sortFindings(fs)[k] = fs[p[k]]
              /\ \A i \in DOMAIN fs : \E k \in DOMAIN fs : p[k] = i
              /\ \A k, l \in DOMAIN fs : k < l => Before(fs, p[k], p[l])
<1> DEFINE D == DOMAIN fs
           p == [k \in D |-> CHOOSE i \in D : Rank(fs, i) = k]
<1>1. D = 1 .. Len(fs) /\ Len(fs) \in Nat
  OBVIOUS
<1>2. \A k \in D : p[k] \in D /\ Rank(fs, p[k]) = k
  BY RankIsOnto
<1>3. p \in [D -> D]
  BY <1>2
<1>4. sortFindings(fs) = [k \in D |-> fs[p[k]]]
  BY DEF sortFindings
<1>5. ASSUME NEW k \in D, NEW l \in D, k < l
      PROVE  Before(fs, p[k], p[l])
  <2>1. p[k] # p[l] /\ ~Before(fs, p[l], p[k])
    BY <1>1, <1>2, <1>5, RankIsInjective
  <2> QED
    BY <1>2, <2>1, BeforeIsTotal
<1>6. ASSUME NEW i \in D
      PROVE  \E k \in D : p[k] = i
  <2>1. Rank(fs, i) \in D
    BY RankIsInjective
  <2>2. p[Rank(fs, i)] \in D /\ Rank(fs, p[Rank(fs, i)]) = Rank(fs, i)
    BY <1>2, <2>1
  <2>3. p[Rank(fs, i)] = i
    BY <1>1, <2>1, <2>2, BeforeIsTotal, RankIsInjective
  <2> QED
    BY <2>1, <2>3
<1> HIDE DEF p
<1>7. \A k \in D : fs[p[k]] \in Finding
  BY <1>3
<1>8. sortFindings(fs) \in Seq(Finding) /\ Len(sortFindings(fs)) = Len(fs)
  BY <1>1, <1>4, <1>7
<1> QED
  BY <1>1, <1>3, <1>4, <1>5, <1>6, <1>8

\* The verdict is a severity of the report and no finding exceeds it.
LEMMA VerdictIsMaximum ==
  ASSUME NEW fs \in Seq(Finding)
  PROVE  /\ Verdict(fs) \in Severity
         /\ \A i \in DOMAIN fs : fs[i].severity <= Verdict(fs)
         /\ Verdict(fs) = SeverityInfo \/ \E i \in DOMAIN fs : fs[i].severity = Verdict(fs)
<1> DEFINE levels == {SeverityInfo} \cup {fs[i].severity : i \in DOMAIN fs}
<1>1. \A i \in DOMAIN fs : fs[i].severity \in Severity
  <2>1. \A i \in DOMAIN fs : fs[i] \in Finding
    OBVIOUS
  <2> QED
    BY <2>1 DEF Finding
<1>2. levels \subseteq 0 .. 2 /\ levels # {}
  BY <1>1 DEF Severity, SeverityInfo, SeverityCritical
<1>3. \E v \in levels : \A w \in levels : w <= v
  <2> HIDE DEF levels
  <2>1. CASE 2 \in levels
    BY <1>2, <2>1
  <2>2. CASE 2 \notin levels /\ 1 \in levels
    BY <1>2, <2>2
  <2>3. CASE 2 \notin levels /\ 1 \notin levels
    <3>1. \A w \in levels : w = 0
      BY <1>2, <2>3
    <3>2. 0 \in levels
      BY <1>2, <3>1
    <3>3. \A w \in levels : w <= 0
      BY <3>1
    <3> QED
      BY <3>2, <3>3
  <2> QED
    BY <2>1, <2>2, <2>3
<1>4. Verdict(fs) \in levels /\ \A w \in levels : w <= Verdict(fs)
  BY <1>3 DEF Verdict
<1> QED
  BY <1>1, <1>2, <1>4 DEF Severity, SeverityInfo, SeverityCritical

USE DEF NoExit

-----------------------------------------------------------------------------
(* Types of the helpers.                                                    *)

\* What the assumptions on Sources and Sinks say of one of them.
LEMMA ConfigTypes ==
  /\ S = 1 .. Len(Sources) /\ Len(Sources) \in Nat
  /\ K = 1 .. Len(Sinks) /\ Len(Sinks) \in Nat
  /\ \A s \in S : Sources[s].name \in Nat /\ Sources[s].queries \in Seq(Query)
  /\ \A k \in K : Sinks[k].kind \in SinkKinds /\ Sinks[k].attempts \in Nat \ {0}
<1>1. Sources \in Seq([name : Nat, queries : Seq(Query) \ {<<>>}])
  BY SourcesAssumption
<1>2. S = 1 .. Len(Sources) /\ Len(Sources) \in Nat
  BY <1>1, LenProperties DEF S
<1>3. \A s \in S : Sources[s] \in [name : Nat, queries : Seq(Query) \ {<<>>}]
  BY <1>1, <1>2, ElementOfSeq
<1>4. Sinks \in Seq([kind : SinkKinds, attempts : Nat \ {0}])
  BY SinksAssumption
<1>5. K = 1 .. Len(Sinks) /\ Len(Sinks) \in Nat
  BY <1>4, LenProperties DEF K
<1>6. \A k \in K : Sinks[k] \in [kind : SinkKinds, attempts : Nat \ {0}]
  BY <1>4, <1>5, ElementOfSeq
<1>7. \A s \in S : Sources[s].name \in Nat /\ Sources[s].queries \in Seq(Query)
  BY <1>3
<1>8. \A k \in K : Sinks[k].kind \in SinkKinds /\ Sinks[k].attempts \in Nat \ {0}
  BY <1>6
<1> QED
  BY <1>2, <1>5, <1>7, <1>8

\* A score is a severity.
LEMMA ScoreType ==
  ASSUME NEW c, NEW t
  PROVE  Score(c, t) \in Severity
  BY DEF Score, Severity, SeverityInfo, SeverityWarning, SeverityCritical

\* The problems of statistics are of the type a message has for them.
LEMMA ProblemsType ==
  ASSUME NEW stats \in Seq(SourceStats)
  PROVE  SourceProblems(stats) \in SUBSET Problem
<1>1. \A i \in DOMAIN stats : stats[i] \in SourceStats
  OBVIOUS
<1>2. ASSUME NEW i \in DOMAIN stats
      PROVE  /\ stats[i].source \in Nat
             /\ stats[i].err \in Loss
  BY <1>1 DEF SourceStats
<1> QED
  BY <1>2 DEF SourceProblems, Problem

\* Every kind of message is a body.
LEMMA MessageType ==
  ASSUME NEW r \in ReportType, NEW kind \in SinkKinds
  PROVE  Message(kind, r) \in Body
<1>1. RenderText(r) \in Body
  BY ProblemsType DEF RenderText, ReportType, Body
<1>2. NotifyMessage(r) \in Body
  <2>1. SourceProblems(r.stats) \in SUBSET Problem
    BY ProblemsType DEF ReportType
  <2> QED
    BY <1>1, <2>1, EmptySeq DEF NotifyMessage, Body
<1> QED
  BY <1>1, <1>2 DEF Message, ToJSON, SinkKinds

\* The error of a source has its type, and is none exactly when nothing was lost.
LEMMA QueryErrorsType ==
  ASSUME NEW s \in S, collector[s] \in Collector
  PROVE  QueryErrors(s) \in Loss /\ (QueryErrors(s) # NoLoss <=> collector[s].lost # <<>>)
<1> DEFINE m == Len(collector[s].lost)
           n == Len(Sources[s].queries)
           e == [failed |-> m, total |-> n, named |-> collector[s].named]
<1>1. collector[s].lost \in Seq(Nat) /\ collector[s].named \in SUBSET Nat
  BY DEF Collector
<1>2. m \in Nat /\ n \in Nat /\ (collector[s].lost # <<>> => m # 0)
  BY <1>1, ConfigTypes, LenProperties, EmptySeq
<1> HIDE DEF m, n
<1>3. e \in Loss /\ NoLoss \in Loss
  BY <1>1, <1>2 DEF Loss, NoLoss
<1>4. e.failed = m /\ NoLoss.failed = 0
  BY DEF NoLoss
<1>5. QueryErrors(s) = IF collector[s].lost = <<>> THEN NoLoss ELSE e
  BY DEF QueryErrors, m, n
<1> HIDE DEF e
<1> QED
  BY <1>2, <1>3, <1>4, <1>5

\* What a collector leaves in its slot has the types of statistics and
\* findings.
LEMMA SlotType ==
  ASSUME NEW s \in S, collector[s] \in Collector
  PROVE  SlotStats(s) \in SourceStats /\ SlotFindings(s) \in Seq(Finding)
<1>1. collector[s].found \in Seq(Finding) /\ collector[s].lost \in Seq(Nat)
  BY DEF Collector
<1>2. Len(collector[s].found) \in Nat
  BY <1>1
<1>3. QueryErrors(s) \in Loss /\ NoLoss \in Loss
  BY QueryErrorsType DEF Loss, NoLoss
<1>4. Sources[s].name \in Nat /\ <<>> \in Seq(Finding)
  BY ConfigTypes, EmptySeq
<1> QED
  BY <1>1, <1>2, <1>3, <1>4 DEF SlotStats, SlotFindings, SourceStats

\* The queries a source lost are numbers.
LEMMA LostByType ==
  ASSUME NEW s \in S, collector[s] \in Collector
  PROVE  LostBy(s) \in SUBSET Nat
<1>1. collector[s].lost \in Seq(Nat)
  BY DEF Collector
<1>2. \A i \in DOMAIN collector[s].lost : collector[s].lost[i] \in Nat
  BY <1>1
<1> QED
  BY <1>2 DEF LostBy

\* A slot depends on the goroutine of its source only.
LEMMA SlotKept ==
  ASSUME NEW s, UNCHANGED collector[s]
  PROVE  /\ UNCHANGED <<SlotStats(s), LostBy(s), QueryErrors(s)>>
         /\ Pending(s)' <=> Pending(s)
         /\ Names(s, collector[s].named)' <=> Names(s, collector[s].named)
<1>1. LostBy(s)' = LostBy(s) /\ (Pending(s)' <=> Pending(s))
  BY DEF LostBy, Pending, Resolved
<1>2. QueryErrors(s)' = QueryErrors(s)
  BY DEF QueryErrors
<1>3. SlotStats(s)' = SlotStats(s)
  BY <1>2 DEF SlotStats
<1> QED
  BY <1>1, <1>2, <1>3 DEF Names

\* The next query of a pending source is one of its queries.
LEMMA NextQueryType ==
  ASSUME NEW s \in S, collector[s] \in Collector, Pending(s)
  PROVE  NextQuery(s) \in Query /\ Resolved(s) \in Nat
<1>1. collector[s].found \in Seq(Finding) /\ collector[s].lost \in Seq(Nat)
  BY DEF Collector
<1>2. Resolved(s) \in Nat
  <2> DEFINE m == Len(collector[s].found)
             n == Len(collector[s].lost)
  <2>1. m \in Nat /\ n \in Nat
    BY <1>1, LenProperties
  <2>2. m + n \in Nat
    <3> HIDE DEF m, n
    <3> QED
      BY <2>1
  <2> QED
    BY <2>2 DEF Resolved
<1>3. Sources[s].queries \in Seq(Query) /\ Len(Sources[s].queries) \in Nat
  BY ConfigTypes
<1>4. Resolved(s) + 1 \in 1 .. Len(Sources[s].queries)
  BY <1>2, <1>3 DEF Pending
<1> QED
  BY <1>2, <1>3, <1>4, ElementOfSeq DEF NextQuery

-----------------------------------------------------------------------------
(* Type correctness.                                                        *)

\* The initial state has its types.
LEMMA TypeInit == Init => TypeOK
<1> SUFFICES ASSUME Init PROVE TypeOK
  OBVIOUS
<1>1. collector \in [S -> Collector]
  BY EmptySeq DEF Init, Collector
<1>2. report \in ReportType
  <2>1. <<>> \in Seq(Finding) /\ <<>> \in Seq(SourceStats) /\ <<>> \in Seq({"ok", "failed"})
    BY EmptySeq
  <2>2. report = [verdict |-> SeverityInfo, summary |-> "", findings |-> <<>>,
                  stats |-> <<>>, llm |-> "off", tokens |-> 0, sinks |-> <<>>]
    BY DEF Init
  <2>3. SeverityInfo \in Severity
    BY DEF Severity, SeverityInfo, SeverityCritical
  <2>4. 0 \in Int
    OBVIOUS
  <2> QED
    BY <2>1, <2>2, <2>3, <2>4, Zenon DEF ReportType
<1>3. NoBody \in Body
  BY EmptySeq DEF NoBody, Body, Severity, SeverityInfo, SeverityCritical
<1>4. sender \in [K -> Sender]
  BY <1>3 DEF Init, Sender
<1>5. metrics \in [status : Seq({"success", "partial", "error"}), success : BOOLEAN]
  BY EmptySeq DEF Init
<1>6. llm \in LLMCall
  <2>1. PICK with \in WithLLM, limit \in LLMDeadlines :
          llm = [phase |-> IF with THEN "ready" ELSE "off", tries |-> 0, bounded |-> limit]
    BY DEF Init
  <2>2. (IF with THEN "ready" ELSE "off") \in {"off", "ready", "asking", "late", "done"}
    OBVIOUS
  <2>3. limit \in BOOLEAN
    BY <2>1, LLMAssumption
  <2> QED
    BY <2>1, <2>2, <2>3 DEF LLMCall
<1> QED
  BY <1>1, <1>2, <1>4, <1>5, <1>6 DEF Init, TypeOK, Labels

\* The steps of a source change its goroutine and nothing else.
LEMMA TypeSource ==
  ASSUME TypeOK, NEW s \in S, SourceNext(s)
  PROVE  TypeOK'
<1>1. collector[s] \in Collector
  BY DEF TypeOK
<1>2. collector[s].found \in Seq(Finding) /\ collector[s].lost \in Seq(Nat)
  BY <1>1 DEF Collector
<1>3. ASSUME NEW c \in Collector, collector' = [collector EXCEPT ![s] = c],
             UNCHANGED <<main, llm, report, delivery, outcome>>
      PROVE  TypeOK'
  BY <1>3 DEF TypeOK, main, delivery, outcome
<1>4. CASE Answer(s)
  <2>1. PICK c \in Counts :
          collector' = [collector EXCEPT ![s].found = Append(@,
            [source |-> Sources[s].name, title |-> NextQuery(s).title, count |-> c,
             severity |-> Score(c, NextQuery(s))])]
    BY <1>4 DEF Answer
  <2> DEFINE f == [source |-> Sources[s].name, title |-> NextQuery(s).title, count |-> c,
                   severity |-> Score(c, NextQuery(s))]
             d == [collector[s] EXCEPT !.found = Append(@, f)]
  <2>2. NextQuery(s).title \in Nat
    BY <1>1, <1>4, NextQueryType DEF Answer, Query
  <2>3. f \in Finding
    BY <2>2, ConfigTypes, CountsAssumption, ScoreType DEF Finding
  <2>4. d \in Collector
    BY <1>1, <1>2, <2>3, AppendProperties DEF Collector
  <2>5. collector' = [collector EXCEPT ![s] = d]
    BY <2>1 DEF TypeOK
  <2> QED
    BY <1>3, <1>4, <2>4, <2>5 DEF Answer
<1>5. CASE Lose(s)
  <2> DEFINE d == [collector[s] EXCEPT !.lost = Append(@, Resolved(s) + 1)]
  <2>1. Resolved(s) + 1 \in Nat
    BY <1>1, <1>5, NextQueryType DEF Lose
  <2>2. d \in Collector
    BY <1>1, <1>2, <2>1, AppendProperties DEF Collector
  <2>3. collector' = [collector EXCEPT ![s] = d]
    BY <1>5 DEF Lose
  <2> QED
    BY <1>3, <1>5, <2>2, <2>3 DEF Lose
<1>6. CASE ExpireSource(s)
  <2>1. [collector[s] EXCEPT !.phase = "late"] \in Collector
    BY <1>1 DEF Collector
  <2>2. collector' = [collector EXCEPT ![s] = [collector[s] EXCEPT !.phase = "late"]]
    BY <1>6 DEF ExpireSource
  <2> QED
    BY <1>3, <1>6, <2>1, <2>2 DEF ExpireSource
<1>7. CASE Return(s)
  <2>1. PICK named \in SUBSET LostBy(s) :
          collector' = [collector EXCEPT ![s] = [@ EXCEPT !.phase = "returned", !.named = named]]
    BY <1>7 DEF Return
  <2> DEFINE d == [collector[s] EXCEPT !.phase = "returned", !.named = named]
  <2>2. d \in Collector
    BY <1>1, LostByType DEF Collector
  <2>3. collector' = [collector EXCEPT ![s] = d]
    BY <2>1
  <2> QED
    BY <1>3, <1>7, <2>2, <2>3 DEF Return
<1> QED
  BY <1>4, <1>5, <1>6, <1>7 DEF SourceNext

\* The completion keeps the types.
LEMMA TypeLLM ==
  ASSUME TypeOK, LLMNext
  PROVE  TypeOK'
<1>1. report \in ReportType /\ llm \in LLMCall
  BY DEF TypeOK
<1>2. ASSUME Degrade PROVE TypeOK'
  <2>1. report' \in ReportType
    BY <1>1, <1>2 DEF Degrade, ReportType
  <2>2. llm' \in LLMCall
    BY <1>1, <1>2 DEF Degrade, LLMCall
  <2> QED
    BY <1>2, <2>1, <2>2 DEF Degrade, ToDeliver, TypeOK, delivery, outcome, Labels
<1>3. CASE SkipLLM
  BY <1>3 DEF SkipLLM, ToDeliver, TypeOK, delivery, outcome, Labels
<1>4. CASE RequestFails
  BY <1>2, <1>4 DEF RequestFails
<1>5. CASE Ask
  <2>1. llm.tries \in Nat /\ llm.bounded \in BOOLEAN
    BY <1>1 DEF LLMCall
  <2>2. llm' = [phase |-> "asking", tries |-> llm.tries + 1, bounded |-> llm.bounded]
    BY <1>1, <1>5 DEF Ask, LLMCall
  <2>3. llm' \in LLMCall
    BY <2>1, <2>2 DEF LLMCall
  <2> QED
    BY <1>5, <2>3 DEF Ask, TypeOK, main, delivery, outcome
<1>6. CASE Complete
  <2>1. report' \in ReportType
    BY <1>1, <1>6, CountsAssumption DEF Complete, ReportType
  <2>2. llm' \in LLMCall
    BY <1>1, <1>6 DEF Complete, LLMCall
  <2> QED
    BY <1>6, <2>1, <2>2 DEF Complete, ToDeliver, TypeOK, delivery, outcome, Labels
<1>7. CASE RetryLLM
  BY <1>1, <1>7 DEF RetryLLM, LLMCall, TypeOK, main, delivery, outcome
<1>8. CASE LLMFails
  BY <1>2, <1>8 DEF LLMFails
<1>9. CASE ExpireLLM
  BY <1>1, <1>9 DEF ExpireLLM, LLMCall, TypeOK, main, delivery, outcome
<1>10. CASE AbandonLLM
  BY <1>2, <1>10 DEF AbandonLLM
<1> QED
  BY <1>3, <1>4, <1>5, <1>6, <1>7, <1>8, <1>9, <1>10 DEF LLMNext

\* The steps of a sink change its goroutine, its wire and its inbox.
LEMMA TypeSink ==
  ASSUME TypeOK, NEW k \in K, SinkNext(k)
  PROVE  TypeOK'
<1>1. /\ sender \in [K -> Sender] /\ sender[k] \in Sender /\ sender[k].body \in Body
      /\ sender[k].tries \in Nat /\ report \in ReportType
      /\ wire \in [K -> SUBSET Nat]
      /\ inbox \in [K -> SUBSET [attempt : Nat, body : Body]]
  BY DEF TypeOK, Sender
<1>2. ASSUME NEW d \in Sender, SinkStep(k, d), wire' \in [K -> SUBSET Nat], UNCHANGED inbox
      PROVE  TypeOK'
  <2>1. sender' \in [K -> Sender]
    BY <1>1, <1>2 DEF SinkStep
  <2> QED
    BY <1>2, <2>1 DEF SinkStep, TypeOK, main, outcome
<1>3. ASSUME NEW p \in {"ready", "flying", "late", "ok", "failed"},
             SinkStep(k, [sender[k] EXCEPT !.phase = p]), UNCHANGED <<wire, inbox>>
      PROVE  TypeOK'
  <2>1. [sender[k] EXCEPT !.phase = p] \in Sender
    BY <1>1 DEF Sender
  <2> QED
    BY <1>1, <1>2, <1>3, <2>1
<1>4. CASE Compose(k)
  <2>1. Message(Sinks[k].kind, report) \in Body
    BY <1>1, ConfigTypes, MessageType
  <2>2. [phase |-> "ready", tries |-> 0, body |-> Message(Sinks[k].kind, report)] \in Sender
    BY <2>1 DEF Sender
  <2> QED
    BY <1>1, <1>2, <1>4, <2>2 DEF Compose
<1>5. CASE Dial(k)
  <2>1. [sender[k] EXCEPT !.phase = "flying", !.tries = @ + 1] \in Sender
    <3>1. ASSUME NEW t \in Nat
          PROVE  [sender[k] EXCEPT !.phase = "flying", !.tries = t] \in Sender
      BY <1>1 DEF Sender
    <3>2. sender[k].tries + 1 \in Nat
      BY <1>1
    <3> QED
      BY <3>1, <3>2
  <2>2. wire' \in [K -> SUBSET Nat]
    BY <1>1, <1>5 DEF Dial
  <2> QED
    BY <1>2, <1>5, <2>1, <2>2 DEF Dial
<1>6. CASE Accept(k)
  <2>1. PICK a \in wire[k] :
          /\ wire' = [wire EXCEPT ![k] = @ \ {a}]
          /\ inbox' = [inbox EXCEPT ![k] = @ \cup {[attempt |-> a, body |-> sender[k].body]}]
    BY <1>6 DEF Accept
  <2>2. wire' \in [K -> SUBSET Nat]
    BY <1>1, <2>1
  <2>3. [attempt |-> a, body |-> sender[k].body] \in [attempt : Nat, body : Body]
    BY <1>1, <2>1
  <2>4. inbox' \in [K -> SUBSET [attempt : Nat, body : Body]]
    BY <1>1, <2>1, <2>3
  <2> QED
    BY <1>6, <2>2, <2>4 DEF Accept, TypeOK, main, outcome
<1>7. CASE ComposeFails(k)
  BY <1>3, <1>7 DEF ComposeFails
<1>8. CASE Delivered(k)
  BY <1>3, <1>8 DEF Delivered
<1>9. CASE RetrySend(k)
  BY <1>3, <1>9 DEF RetrySend
<1>10. CASE Refused(k)
  BY <1>3, <1>10 DEF Refused
<1>11. CASE ExpireSink(k)
  BY <1>3, <1>11 DEF ExpireSink
<1>12. CASE Abandon(k)
  BY <1>3, <1>12 DEF Abandon
<1> QED
  BY <1>4, <1>5, <1>6, <1>7, <1>8, <1>9, <1>10, <1>11, <1>12 DEF SinkNext

\* The main goroutine keeps the types.
LEMMA TypeMain ==
  ASSUME TypeOK, MainNext
  PROVE  TypeOK'
<1>1. report \in ReportType /\ collector \in [S -> Collector] /\ sender \in [K -> Sender]
  BY DEF TypeOK
<1>2. CASE Wait
  BY <1>2 DEF Wait, TypeOK, delivery, outcome, Labels
<1>3. CASE Gather
  <2> DEFINE s == Len(report.stats) + 1
  <2>1. s \in S /\ report' = [report EXCEPT !.findings = @ \o SlotFindings(s),
                                           !.stats = Append(@, SlotStats(s))]
    BY <1>3 DEF Gather
  <2>2. SlotStats(s) \in SourceStats /\ SlotFindings(s) \in Seq(Finding)
    BY <1>1, <2>1, SlotType
  <2>3. report.findings \in Seq(Finding) /\ report.stats \in Seq(SourceStats)
    BY <1>1 DEF ReportType
  <2> HIDE DEF s
  <2>4. /\ report.findings \o SlotFindings(s) \in Seq(Finding)
        /\ Append(report.stats, SlotStats(s)) \in Seq(SourceStats)
    BY <2>2, <2>3, ConcatProperties, AppendProperties
  <2>5. report' \in ReportType
    BY <1>1, <2>1, <2>4 DEF ReportType
  <2> QED
    BY <1>3, <2>5 DEF Gather, TypeOK, main, delivery, outcome
<1>4. CASE Judge
  <2>1. report.findings \in Seq(Finding)
    BY <1>1 DEF ReportType
  <2>2. sortFindings(report.findings) \in Seq(Finding)
    BY <2>1, SortFindingsIsStableSort
  <2>3. Verdict(sortFindings(report.findings)) \in Severity
    BY <2>2, VerdictIsMaximum
  <2>4. report' = [report EXCEPT !.findings = sortFindings(report.findings),
                                 !.verdict = Verdict(sortFindings(report.findings))]
    BY <1>4 DEF Judge
  <2>5. report' \in ReportType
    BY <1>1, <2>2, <2>3, <2>4 DEF ReportType
  <2> QED
    BY <1>4, <2>5 DEF Judge, TypeOK, delivery, outcome, Labels
<1>5. CASE Settle
  <2>1. \A k \in 1 .. Len(Sinks) : sender[k].phase \in {"ok", "failed"}
    BY <1>5, ConfigTypes DEF Settle, AllSettled
  <2>2. [k \in 1 .. Len(Sinks) |-> sender[k].phase] \in Seq({"ok", "failed"})
    BY <2>1, ConfigTypes
  <2>3. report' = [report EXCEPT !.sinks = [k \in 1 .. Len(Sinks) |-> sender[k].phase]]
    BY <1>5, ConfigTypes DEF Settle
  <2>4. report' \in ReportType
    BY <1>1, <2>2, <2>3 DEF ReportType
  <2> QED
    BY <1>5, <2>4 DEF Settle, TypeOK, delivery, outcome, Labels
<1>6. CASE Record
  <2>1. report.stats \in Seq(SourceStats)
    BY <1>1 DEF ReportType
  <2>2. DOMAIN report.stats = 1 .. Len(report.stats) /\ Len(report.stats) \in Nat
    BY <2>1, LenProperties
  <2>3. \A i \in DOMAIN report.stats : Status(report.stats[i]) \in {"success", "partial", "error"}
    BY DEF Status
  <2>4. [i \in DOMAIN report.stats |-> Status(report.stats[i])] \in Seq({"success", "partial", "error"})
    BY <2>2, <2>3
  <2>5. RunSucceeded(report.stats, report.sinks) \in BOOLEAN
    BY DEF RunSucceeded
  <2>6. metrics' \in [status : Seq({"success", "partial", "error"}), success : BOOLEAN]
    BY <1>6, <2>4, <2>5 DEF Record
  <2> QED
    BY <1>6, <2>6 DEF Record, TypeOK, delivery, Labels
<1>7. CASE Panic
  BY <1>7 DEF Panic, TypeOK, delivery, Labels
<1>8. CASE AppendHistory
  BY <1>8 DEF AppendHistory, TypeOK, delivery, Labels
<1>9. CASE Exit
  BY <1>9 DEF Exit, TypeOK, delivery, Labels
<1> QED
  BY <1>2, <1>3, <1>4, <1>5, <1>6, <1>7, <1>8, <1>9 DEF MainNext

\* Every step keeps the types.
LEMMA TypeNext == TypeOK /\ [Next]_vars => TypeOK'
<1> SUFFICES ASSUME TypeOK, [Next]_vars PROVE TypeOK'
  OBVIOUS
<1>1. CASE Cancel
  BY <1>1 DEF Cancel, TypeOK, delivery, outcome
<1>2. CASE UNCHANGED vars
  BY <1>2 DEF TypeOK, vars
<1> QED
  BY <1>1, <1>2, TypeSource, TypeSink, TypeLLM, TypeMain DEF Next, Terminating

\* Every variable keeps the type of the value the code keeps in its place,
\* in every configuration (TypeOK).
THEOREM TypeCorrect == Spec => []TypeOK
<1>1. Init => TypeOK
  BY TypeInit
<1>2. TypeOK /\ [Next]_vars => TypeOK'
  BY TypeNext
<1> QED
  BY <1>1, <1>2, PTL DEF Spec

-----------------------------------------------------------------------------
(* Every message is complete.                                               *)

\* The invariant holds before anything is collected.
LEMMA RunInit == Init => RunInv
<1> SUFFICES ASSUME Init PROVE RunInv
  OBVIOUS
<1>1. TypeOK
  BY TypeInit
<1>2. SlotsHold
  <2>1. pc = "collect" /\ report.stats = <<>> /\ \A s \in S : collector[s].phase = "running"
    BY DEF Init
  <2>2. DOMAIN report.stats = {}
    BY <2>1
  <2> QED
    BY <2>1, <2>2 DEF SlotsHold
<1>3. MessagesHold
  BY DEF Init, MessagesHold
<1> QED
  BY <1>1, <1>2, <1>3 DEF RunInv

\* A source works before the barrier: no slot is read and nothing is sent yet.
LEMMA RunSource ==
  ASSUME RunInv, NEW s \in S, SourceNext(s)
  PROVE  SlotsHold' /\ MessagesHold'
<1>1. /\ pc = "collect" /\ report.stats = <<>>
      /\ UNCHANGED <<main, llm, report, delivery, outcome>>
  BY DEF RunInv, SlotsHold, SourceNext, Answer, Lose, ExpireSource, Return
<1>2. collector \in [S -> Collector]
  BY DEF RunInv, TypeOK
<1>3. \A t \in S : t # s => collector'[t] = collector[t]
  BY <1>2 DEF SourceNext, Answer, Lose, ExpireSource, Return
<1>4. collector'[s].phase = "returned" => ~Pending(s)' /\ Names(s, collector[s].named)'
  <2>1. CASE Return(s)
    <3>1. PICK named \in SUBSET LostBy(s) :
            /\ Names(s, named)
            /\ collector' = [collector EXCEPT ![s] = [@ EXCEPT !.phase = "returned", !.named = named]]
      BY <2>1 DEF Return
    <3>2. /\ collector'[s].found = collector[s].found /\ collector'[s].lost = collector[s].lost
          /\ collector'[s].named = named
      BY <1>2, <3>1 DEF Collector
    <3>3. ~Pending(s)' /\ LostBy(s)' = LostBy(s)
      BY <2>1, <3>2 DEF Return, Pending, Resolved, LostBy
    <3> QED
      BY <3>1, <3>2, <3>3 DEF Names
  <2>2. CASE ExpireSource(s)
    <3>1. collector'[s].phase = "late"
      BY <1>2, <2>2 DEF ExpireSource, Collector
    <3> QED
      BY <3>1
  <2>3. CASE Answer(s) \/ Lose(s)
    <3>1. collector[s].phase # "returned"
      BY <2>3 DEF Answer, Lose, RunInv, SlotsHold
    <3>2. collector'[s].phase = collector[s].phase
      BY <1>2, <2>3 DEF Answer, Lose, Collector
    <3> QED
      BY <3>1, <3>2
  <2> QED
    BY <2>1, <2>2, <2>3 DEF SourceNext
<1>5. ASSUME NEW t \in S, collector'[t].phase = "returned"
      PROVE  ~Pending(t)' /\ Names(t, collector[t].named)'
  <2>1. CASE t = s
    BY <1>4, <1>5, <2>1
  <2>2. CASE t # s
    BY <1>3, <1>5, <2>2, SlotKept DEF RunInv, SlotsHold
  <2> QED
    BY <2>1, <2>2
<1>6. SlotsHold'
  BY <1>1, <1>5 DEF SlotsHold, main
<1>7. MessagesHold'
  BY <1>1 DEF RunInv, MessagesHold, Honest, main, delivery
<1> QED
  BY <1>6, <1>7

\* The LLM leaves the statistics and the sinks alone.
LEMMA RunLLM ==
  ASSUME RunInv, LLMNext
  PROVE  SlotsHold' /\ MessagesHold'
<1>1. /\ pc = "summarize" /\ pc' \in {"summarize", "deliver"}
      /\ report.stats' = report.stats /\ UNCHANGED <<collector, sender, wire, inbox>>
  <2>1. ASSUME Degrade
        PROVE  /\ pc' = "deliver" /\ report.stats' = report.stats
               /\ UNCHANGED <<collector, sender, wire, inbox>>
    BY <2>1 DEF Degrade, ToDeliver, delivery, RunInv, TypeOK, ReportType
  <2>2. CASE Complete
    BY <2>2 DEF Complete, ToDeliver, delivery, RunInv, TypeOK, ReportType
  <2> QED
    BY <2>1, <2>2 DEF LLMNext, SkipLLM, RequestFails, Ask, RetryLLM, LLMFails, ExpireLLM,
                      AbandonLLM, ToDeliver, main, delivery
<1>2. SlotsHold'
  BY <1>1, SlotKept DEF RunInv, SlotsHold, AllReturned
<1>3. MessagesHold'
  BY <1>1 DEF RunInv, MessagesHold, Honest
<1> QED
  BY <1>2, <1>3

\* A sink sends what it composed from the report, and composes it once.
LEMMA RunSink ==
  ASSUME RunInv, NEW k \in K, SinkNext(k)
  PROVE  SlotsHold' /\ MessagesHold'
<1>1. UNCHANGED <<pc, collector, report>>
  BY DEF SinkNext, Compose, ComposeFails, Dial, Accept, Delivered, RetrySend, Refused,
         ExpireSink, Abandon, SinkStep, main
<1>2. SlotsHold'
  BY <1>1, SlotKept DEF RunInv, SlotsHold, AllReturned
<1>3. /\ sender \in [K -> Sender] /\ wire \in [K -> SUBSET Nat]
      /\ inbox \in [K -> SUBSET [attempt : Nat, body : Body]]
  BY DEF RunInv, TypeOK
\* The part of the invariant about sink j.
<1> DEFINE Holds(j) ==
      /\ pc \in {"collect", "gather", "summarize"} => sender[j].phase = "idle"
      /\ sender[j].phase = "idle" => wire[j] = {} /\ inbox[j] = {}
      /\ sender[j].phase \in {"ready", "flying", "late", "ok"} => Honest(j)
      /\ wire[j] # {} => Honest(j)
      /\ \A m \in inbox[j] : m.body = sender[j].body /\ Honest(j)
<1>4. \A j \in K : Holds(j)
  BY DEF RunInv, MessagesHold
<1>5. \A j \in K \ {k} : sender'[j] = sender[j] /\ wire'[j] = wire[j] /\ inbox'[j] = inbox[j]
  BY <1>3 DEF SinkNext, Compose, ComposeFails, Dial, Accept, Delivered, RetrySend, Refused,
         ExpireSink, Abandon, SinkStep
<1>6. \A j \in K \ {k} : Holds(j)'
  BY <1>1, <1>4, <1>5 DEF Honest
\* A step that keeps the message and leaves the idle phase behind.
<1>7. ASSUME pc = "deliver", sender'[k].body = sender[k].body, sender'[k].phase # "idle",
             sender[k].phase \in {"ready", "flying", "late", "ok"}, inbox'[k] = inbox[k]
      PROVE  Holds(k)'
  <2>1. Honest(k)
    BY <1>4, <1>7
  <2>2. Honest(k)'
    BY <1>1, <1>7, <2>1 DEF Honest
  <2> QED
    BY <1>1, <1>4, <1>7, <2>2
<1> SUFFICES Holds(k)'
  BY <1>2, <1>6 DEF MessagesHold
<1>8. CASE Compose(k)
  <2>1. sender'[k] = [phase |-> "ready", tries |-> 0, body |-> Message(Sinks[k].kind, report)]
    BY <1>3, <1>8 DEF Compose, SinkStep
  <2>2. Honest(k)'
    <3>1. Sinks[k].kind \in SinkKinds
      BY ConfigTypes
    <3>2. report \in ReportType
      BY DEF RunInv, TypeOK
    <3>3. Message(Sinks[k].kind, report).problems = SourceProblems(report.stats)
      BY <3>1 DEF SinkKinds, Message, RenderText, ToJSON, NotifyMessage
    <3>4. Sinks[k].kind = "homeassistant" =>
            (Message(Sinks[k].kind, report).marked <=> SourceProblems(report.stats) # {})
      BY DEF Message, RenderText, NotifyMessage
    <3> QED
      BY <1>1, <2>1, <3>3, <3>4 DEF Honest
  <2>3. wire'[k] = {} /\ inbox'[k] = {}
    BY <1>4, <1>8 DEF Compose
  <2> QED
    BY <1>1, <1>8, <2>1, <2>2, <2>3 DEF Compose
<1>9. CASE ComposeFails(k)
  <2>1. sender'[k].phase = "failed" /\ wire'[k] = {} /\ inbox'[k] = {}
    BY <1>3, <1>4, <1>9 DEF ComposeFails, SinkStep, Sender
  <2> QED
    BY <1>1, <1>9, <2>1 DEF ComposeFails
<1>10. CASE Accept(k)
  <2>1. PICK a \in wire[k] :
          /\ wire' = [wire EXCEPT ![k] = @ \ {a}]
          /\ inbox' = [inbox EXCEPT ![k] = @ \cup {[attempt |-> a, body |-> sender[k].body]}]
    BY <1>10 DEF Accept
  <2>2. sender' = sender /\ Honest(k) /\ Honest(k)' /\ sender[k].phase # "idle"
    BY <1>1, <1>4, <1>10, <2>1 DEF Accept, Honest
  <2>3. \A m \in inbox'[k] : m.body = sender[k].body
    BY <1>3, <1>4, <2>1
  <2> QED
    BY <1>1, <1>4, <2>2, <2>3
<1>11. CASE Dial(k)
  <2>1. sender'[k].body = sender[k].body /\ sender'[k].phase = "flying"
    BY <1>3, <1>11 DEF Dial, SinkStep, Sender
  <2> QED
    BY <1>7, <1>11, <2>1 DEF Dial
<1>12. CASE Delivered(k)
  <2>1. sender'[k].body = sender[k].body /\ sender'[k].phase = "ok"
    BY <1>3, <1>12 DEF Delivered, SinkStep, Sender
  <2> QED
    BY <1>7, <1>12, <2>1 DEF Delivered, InFlight
<1>13. CASE RetrySend(k)
  <2>1. sender'[k].body = sender[k].body /\ sender'[k].phase = "ready"
    BY <1>3, <1>13 DEF RetrySend, SinkStep, Sender
  <2> QED
    BY <1>7, <1>13, <2>1 DEF RetrySend, InFlight
<1>14. CASE Refused(k)
  <2>1. sender'[k].body = sender[k].body /\ sender'[k].phase = "failed"
    BY <1>3, <1>14 DEF Refused, SinkStep, Sender
  <2> QED
    BY <1>7, <1>14, <2>1 DEF Refused, InFlight
<1>15. CASE ExpireSink(k)
  <2>1. sender'[k].body = sender[k].body /\ sender'[k].phase = "late"
    BY <1>3, <1>15 DEF ExpireSink, SinkStep, Sender
  <2> QED
    BY <1>7, <1>15, <2>1 DEF ExpireSink
<1>16. CASE Abandon(k)
  <2>1. sender'[k].body = sender[k].body /\ sender'[k].phase = "failed"
    BY <1>3, <1>16 DEF Abandon, SinkStep, Sender
  <2> QED
    BY <1>7, <1>16, <2>1 DEF Abandon
<1> QED
  BY <1>8, <1>9, <1>10, <1>11, <1>12, <1>13, <1>14, <1>15, <1>16 DEF SinkNext

\* The main goroutine passes the barrier, fills the report and leaves its
\* statistics alone from then on.
LEMMA RunMain ==
  ASSUME RunInv, MainNext
  PROVE  SlotsHold' /\ MessagesHold'
<1>1. report \in ReportType /\ report.stats \in Seq(SourceStats) /\ collector \in [S -> Collector]
  BY DEF RunInv, TypeOK, ReportType
<1>2. UNCHANGED <<collector, sender, wire, inbox>>
  BY DEF MainNext, Wait, Gather, Judge, Settle, Record, Panic, AppendHistory, Exit, main, delivery
<1>3. CASE Gather
  <2> DEFINE s == Len(report.stats) + 1
  <2>1. s \in S /\ pc = "gather" /\ pc' = "gather" /\ report'.stats = Append(report.stats, SlotStats(s))
    BY <1>1, <1>3 DEF Gather, main, ReportType
  <2>2. SlotStats(s) \in SourceStats /\ Len(report.stats) \in Nat
    BY <1>1, <2>1, SlotType
  <2>3. /\ Len(report'.stats) = s
        /\ \A i \in 1 .. Len(report.stats) : report'.stats[i] = report.stats[i]
        /\ report'.stats[s] = SlotStats(s)
        /\ DOMAIN report'.stats = 1 .. s
    BY <1>1, <2>1, <2>2, AppendProperties, LenProperties
  <2>4. \A i \in DOMAIN report'.stats : report'.stats[i] = SlotStats(i)
    <3>1. \A i \in 1 .. Len(report.stats) : report.stats[i] = SlotStats(i)
      BY <1>1 DEF RunInv, SlotsHold
    <3>2. \A i \in 1 .. s : i = s \/ i \in 1 .. Len(report.stats)
      BY <2>2
    <3> QED
      BY <2>3, <3>1, <3>2
  <2>5. s <= Len(Sources)
    BY <2>1, ConfigTypes
  <2> HIDE DEF s
  <2>6. SlotsHold'
    BY <1>2, <2>1, <2>3, <2>4, <2>5, SlotKept DEF RunInv, SlotsHold, AllReturned
  <2>7. MessagesHold'
    BY <1>2, <2>1 DEF RunInv, MessagesHold
  <2> QED
    BY <2>6, <2>7
<1>4. CASE Wait
  <2>1. pc = "collect" /\ pc' = "gather" /\ report' = report /\ AllReturned
    BY <1>4 DEF Wait
  <2>2. Len(report.stats) = 0 /\ DOMAIN report.stats = {}
    BY <2>1 DEF RunInv, SlotsHold
  <2>3. SlotsHold'
    <3>1. Len(report'.stats) <= Len(Sources) /\ DOMAIN report'.stats = {}
      BY <2>1, <2>2, ConfigTypes
    <3>2. /\ AllReturned'
          /\ \A s \in S : ~Pending(s)' /\ Names(s, collector[s].named)'
      BY <1>2, <2>1, SlotKept DEF RunInv, SlotsHold, AllReturned
    <3> QED
      BY <2>1, <3>1, <3>2 DEF SlotsHold
  <2>4. MessagesHold'
    BY <1>2, <2>1 DEF RunInv, MessagesHold, Honest
  <2> QED
    BY <2>3, <2>4
<1>5. CASE Judge
  <2>1. pc = "gather" /\ pc' = "summarize" /\ report'.stats = report.stats
        /\ Len(report.stats) = Len(Sources)
    BY <1>1, <1>5 DEF Judge, ReportType
  <2>2. SlotsHold'
    BY <1>2, <2>1, SlotKept DEF RunInv, SlotsHold, AllReturned
  <2>3. MessagesHold'
    BY <1>2, <2>1 DEF RunInv, MessagesHold, Honest
  <2> QED
    BY <2>2, <2>3
<1>6. CASE Settle \/ Record \/ Panic \/ AppendHistory \/ Exit
  <2>1. /\ pc \notin {"collect", "gather", "summarize"}
        /\ pc' \notin {"collect", "gather", "summarize"}
        /\ report'.stats = report.stats
    BY <1>1, <1>6 DEF Settle, Record, Panic, AppendHistory, Exit, ReportType
  <2>2. SlotsHold'
    BY <1>2, <2>1, SlotKept DEF RunInv, SlotsHold, AllReturned
  <2>3. MessagesHold'
    BY <1>2, <2>1 DEF RunInv, MessagesHold, Honest
  <2> QED
    BY <2>2, <2>3
<1> QED
  BY <1>3, <1>4, <1>5, <1>6 DEF MainNext

\* Every step keeps the invariant.
LEMMA RunNext == RunInv /\ [Next]_vars => RunInv'
<1> SUFFICES ASSUME RunInv, [Next]_vars PROVE RunInv'
  OBVIOUS
<1>1. TypeOK'
  BY TypeNext DEF RunInv
<1>2. ASSUME UNCHANGED <<pc, collector, report, delivery>>
      PROVE  SlotsHold' /\ MessagesHold'
  <2>1. SlotsHold'
    BY <1>2, SlotKept DEF RunInv, SlotsHold, AllReturned
  <2>2. MessagesHold'
    BY <1>2 DEF RunInv, MessagesHold, Honest, delivery
  <2> QED
    BY <2>1, <2>2
<1>3. CASE Cancel
  BY <1>1, <1>2, <1>3 DEF Cancel, RunInv
<1>4. CASE UNCHANGED vars
  BY <1>1, <1>2, <1>4 DEF vars, delivery, RunInv
<1> QED
  BY <1>1, <1>3, <1>4, RunSource, RunSink, RunLLM, RunMain DEF Next, Terminating, RunInv

\* What the report says about its sources is what happened to them.
LEMMA ProblemsAreTrue ==
  ASSUME RunInv, pc \notin {"collect", "gather"}
  PROVE  LET problems == SourceProblems(report.stats)
         IN  /\ \A s \in Lossy : \E p \in problems : Tells(p, s)
             /\ \A p \in problems : \E s \in Lossy : Tells(p, s)
             /\ \A p, q \in problems : p.source = q.source => p = q
             /\ problems # {} <=> Lossy # {}
<1> DEFINE Kind(s) == IF collector[s].found = <<>> THEN "failed" ELSE "partial"
           Entry(s) == [source |-> Sources[s].name, kind |-> Kind(s), err |-> QueryErrors(s)]
<1>1. report.stats \in Seq(SourceStats) /\ collector \in [S -> Collector]
  BY DEF RunInv, TypeOK, ReportType
<1>2. DOMAIN report.stats = S
  BY <1>1, LenProperties, ConfigTypes DEF RunInv, SlotsHold
<1>3. ASSUME NEW s \in S
      PROVE  /\ report.stats[s].source = Sources[s].name
             /\ report.stats[s].err = QueryErrors(s)
             /\ report.stats[s].findings > 0 <=> collector[s].found # <<>>
             /\ report.stats[s].err # NoLoss <=> s \in Lossy
             /\ Names(s, collector[s].named)
  <2>1. report.stats[s] = [source |-> Sources[s].name, findings |-> Len(collector[s].found),
                           err |-> QueryErrors(s)]
    BY <1>2 DEF RunInv, SlotsHold, AllReturned, SlotStats
  <2>2. collector[s].found \in Seq(Finding)
    BY <1>1 DEF Collector
  <2>3. Len(collector[s].found) > 0 <=> collector[s].found # <<>>
    BY <2>2, EmptySeq
  <2>4. QueryErrors(s) # NoLoss <=> s \in Lossy
    BY <1>1, QueryErrorsType DEF Lossy
  <2>5. Names(s, collector[s].named)
    BY DEF RunInv, SlotsHold, AllReturned
  <2> QED
    BY <2>1, <2>3, <2>4, <2>5
<1>4. Lossy \subseteq S
  BY DEF Lossy
<1>5. SourceProblems(report.stats) = {Entry(s) : s \in Lossy}
  <2>1. \A s \in Lossy : (IF Partial(report.stats[s]) THEN "partial" ELSE "failed") = Kind(s)
    BY <1>3, <1>4 DEF Partial
  <2>2. {i \in DOMAIN report.stats : report.stats[i].err # NoLoss} = Lossy
    BY <1>2, <1>3, <1>4
  <2>3. \A s \in Lossy :
          [source |-> report.stats[s].source,
           kind   |-> IF Partial(report.stats[s]) THEN "partial" ELSE "failed",
           err    |-> report.stats[s].err] = Entry(s)
    BY <1>3, <1>4, <2>1
  <2> HIDE DEF Kind, Entry
  <2> QED
    BY <2>2, <2>3 DEF SourceProblems
<1>6. ASSUME NEW s \in Lossy
      PROVE  Tells(Entry(s), s)
  <2>1. s \in S /\ collector[s].lost # <<>> /\ Names(s, collector[s].named)
    BY <1>3, <1>4 DEF Lossy
  <2>2. QueryErrors(s) = [failed |-> Len(collector[s].lost), total |-> Len(Sources[s].queries),
                          named |-> collector[s].named]
    BY <2>1 DEF QueryErrors
  <2>3. /\ Entry(s).source = Sources[s].name /\ Entry(s).kind = Kind(s)
        /\ Entry(s).err = QueryErrors(s)
    OBVIOUS
  <2> HIDE DEF Entry
  <2>4. /\ Entry(s).err.failed = Len(collector[s].lost)
        /\ Entry(s).err.total = Len(Sources[s].queries)
        /\ Entry(s).err.named = collector[s].named
    BY <2>2, <2>3
  <2> QED
    BY <2>1, <2>3, <2>4 DEF Tells, Names
<1>7. \A s, r \in Lossy : Entry(s).source = Entry(r).source => s = r
  <2>1. \A s, r \in S : Sources[s].name = Sources[r].name => s = r
    BY SourcesAssumption DEF S
  <2> QED
    BY <1>4, <2>1
<1> HIDE DEF Entry, Kind
<1> QED
  BY <1>5, <1>6, <1>7

\* With the slots and the messages as the invariant has them, no message is
\* silent about a loss.
LEMMA RunInvIsEnough == RunInv => IncompleteIsNamed
<1> SUFFICES ASSUME RunInv, NEW k \in K, NEW m \in inbox[k]
             PROVE  LET problems == m.body.problems
                    IN  /\ \A s \in S : ~Pending(s)
                        /\ \A s \in Lossy : \E p \in problems : Tells(p, s)
                        /\ \A p \in problems : \E s \in Lossy : Tells(p, s)
                        /\ \A p, q \in problems : p.source = q.source => p = q
                        /\ Sinks[k].kind = "homeassistant" => (m.body.marked <=> Lossy # {})
  BY DEF IncompleteIsNamed
<1>1. pc \notin {"collect", "gather", "summarize"}
  BY DEF RunInv, MessagesHold
<1>2. \A s \in S : ~Pending(s)
  BY <1>1 DEF RunInv, SlotsHold, AllReturned
<1>3. m.body = sender[k].body /\ Honest(k)
  BY DEF RunInv, MessagesHold
<1>4. m.body.problems = SourceProblems(report.stats)
  BY <1>3 DEF Honest
<1> QED
  BY <1>1, <1>2, <1>3, <1>4, ProblemsAreTrue DEF Honest

\* The report is only ever built from slots that their goroutines wrote, and a
\* message from that report, for any configuration (collect, deliver).
THEOREM RunInvariant == Spec => []RunInv
<1> QED
  BY RunInit, RunNext, PTL DEF Spec

\* No message ever makes an incomplete run look complete: for any sources, sinks,
\* attempts, timeouts and signals, what an endpoint receives has one entry for each
\* source that lost queries and for no other, with how many it lost, and names no
\* query that was answered.  That it also names every lost one is claimed up to
\* Legible losses of a source, for every value of that number: the error line is
\* cut (collect, QueryErrors, SourceProblems, Send).
THEOREM NoSilentGap == Spec => []IncompleteIsNamed
<1> QED
  BY RunInvariant, RunInvIsEnough, PTL
=============================================================================
