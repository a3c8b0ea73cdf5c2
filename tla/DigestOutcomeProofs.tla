-------------------------- MODULE DigestOutcomeProofs -------------------------
(***************************************************************************)
(* Theorems about what DigestRun delivers, counts and exits with, for      *)
(* every configuration of sources and sinks, every number of attempts and  *)
(* every set of counts.                                                    *)
(***************************************************************************)
EXTENDS DigestRunProofs

-----------------------------------------------------------------------------
(* What each goroutine leaves alone.                                        *)

\* A step of a source happens during the collection and touches its own slot
\* only.
LEMMA SourceKeeps ==
  ASSUME NEW s \in S, SourceNext(s)
  PROVE  pc = "collect" /\ UNCHANGED <<main, llm, report, delivery, outcome>>
BY DEF SourceNext, Answer, Lose, ExpireSource, Return

\* A step of the completion changes of the report only what concerns the
\* summary.
LEMMA LLMKeeps ==
  ASSUME TypeOK, LLMNext
  PROVE  /\ pc = "summarize" /\ pc' \in {"summarize", "deliver"}
         /\ UNCHANGED <<collector, delivery, outcome>>
         /\ UNCHANGED <<report.verdict, report.findings, report.stats, report.sinks>>
         /\ report'.tokens \in TokenCounts \cup {report.tokens}
<1>1. report \in ReportType
  BY DEF TypeOK
<1>2. ASSUME Degrade
      PROVE  /\ pc' = "deliver" /\ UNCHANGED <<collector, delivery, outcome>>
             /\ UNCHANGED <<report.verdict, report.findings, report.stats, report.sinks, report.tokens>>
  BY <1>1, <1>2 DEF Degrade, ToDeliver, ReportType
<1>3. CASE Complete
  BY <1>1, <1>3 DEF Complete, ToDeliver, ReportType
<1>4. CASE RequestFails \/ LLMFails \/ AbandonLLM
  BY <1>2, <1>4 DEF RequestFails, LLMFails, AbandonLLM
<1>5. CASE SkipLLM \/ Ask \/ RetryLLM \/ ExpireLLM
  BY <1>5 DEF SkipLLM, Ask, RetryLLM, ExpireLLM, ToDeliver, main
<1> QED
  BY <1>3, <1>4, <1>5 DEF LLMNext

\* A step of a sink touches its own sender, wire and inbox only.
LEMMA SinkKeeps ==
  ASSUME TypeOK, NEW k \in K, SinkNext(k)
  PROVE  /\ UNCHANGED <<main, collector, llm, report, outcome>>
         /\ \A j \in K \ {k} : /\ sender'[j] = sender[j]
                               /\ wire'[j] = wire[j]
                               /\ inbox'[j] = inbox[j]
<1>1. /\ sender \in [K -> Sender] /\ wire \in [K -> SUBSET Nat]
      /\ inbox \in [K -> SUBSET [attempt : Nat, body : Body]]
  BY DEF TypeOK
<1> QED
  BY <1>1 DEF SinkNext, Compose, ComposeFails, Dial, Accept, Delivered, RetrySend, Refused,
              ExpireSink, Abandon, SinkStep

\* A step of a sink that sends nothing and receives nothing only moves its
\* goroutine from one phase to another.
SinkMoves(k, from, to) ==
  /\ pc = "deliver" /\ sender[k].phase \in from
  /\ sender' = [sender EXCEPT ![k] = [sender[k] EXCEPT !.phase = to]]
  /\ UNCHANGED <<wire, inbox>>

\* The steps of a sink, with those that only move its sender taken together.
LEMMA SinkSteps ==
  ASSUME NEW k \in K, SinkNext(k)
  PROVE  \/ Compose(k) \/ Dial(k) \/ Accept(k) \/ Delivered(k)
         \/ SinkMoves(k, {"idle"}, "failed")
         \/ sender[k].tries < Sinks[k].attempts /\ SinkMoves(k, {"flying"}, "ready")
         \/ SinkMoves(k, {"ready", "flying"}, "late")
         \/ SinkMoves(k, {"ready", "flying", "late"}, "failed")
BY DEF SinkNext, ComposeFails, RetrySend, Refused, ExpireSink, Abandon, InFlight, SinkStep, SinkMoves

\* A step of the main goroutine touches no collector and no delivery.
LEMMA MainKeeps ==
  ASSUME MainNext
  PROVE  UNCHANGED <<cancelled, collector, llm, delivery>>
BY DEF MainNext, Wait, Gather, Judge, Settle, Record, Panic, AppendHistory, Exit, main

-----------------------------------------------------------------------------
(* Attempts.                                                                *)

\* No sender has tried anything at the start.
LEMMA SendersInit ==
  ASSUME Init
  PROVE  SendersHold
<1> SUFFICES ASSUME NEW k \in K
             PROVE  /\ sender[k].tries <= Sinks[k].attempts
                    /\ sender[k].phase = "idle"
                    /\ wire[k] = {} /\ inbox[k] = {}
  BY DEF SendersHold
<1>1. sender[k].tries = 0 /\ sender[k].phase = "idle" /\ wire[k] = {} /\ inbox[k] = {}
  BY DEF Init
<1> QED
  BY <1>1, ConfigTypes

\* A step of a sink keeps its attempt either on the wire or in the inbox.
LEMMA SendersSink ==
  ASSUME RunInv, SendersHold, NEW k \in K, SinkNext(k)
  PROVE  SendersHold'
<1>1. /\ sender \in [K -> Sender] /\ sender[k] \in Sender /\ sender[k].tries \in Nat
      /\ wire \in [K -> SUBSET Nat]
      /\ inbox \in [K -> SUBSET [attempt : Nat, body : Body]]
      /\ Sinks[k].attempts \in Nat \ {0}
  BY ConfigTypes DEF RunInv, TypeOK, Sender
<1> DEFINE Received(j) == {m.attempt : m \in inbox[j]}
           Holds(j) == /\ sender[j].tries <= Sinks[j].attempts
                       /\ sender[j].phase = "ready" => sender[j].tries < Sinks[j].attempts
                       /\ wire[j] \cup Received(j) \subseteq 1 .. sender[j].tries
                       /\ wire[j] \cap Received(j) = {}
                       /\ sender[j].phase = "ok" => inbox[j] # {}
<1>2. \A j \in K : Holds(j)
  BY DEF SendersHold
<1>3. \A j \in K \ {k} : Holds(j)'
  BY <1>2, SinkKeeps DEF RunInv
<1> SUFFICES Holds(k)'
  BY <1>3 DEF SendersHold
<1>4. Holds(k)
  BY <1>2
<1>5. CASE Compose(k)
  <2>1. sender'[k].phase = "ready" /\ sender'[k].tries = 0
    BY <1>1, <1>5 DEF Compose, SinkStep
  <2>2. wire'[k] = {} /\ inbox'[k] = {}
    BY <1>5 DEF Compose, RunInv, MessagesHold
  <2> QED
    BY <1>1, <2>1, <2>2
<1>6. CASE Dial(k)
  <2>1. sender'[k].phase = "flying" /\ sender'[k].tries = sender[k].tries + 1
    BY <1>1, <1>6 DEF Dial, SinkStep, Sender
  <2>2. wire'[k] = wire[k] \cup {sender[k].tries + 1} /\ Received(k)' = Received(k)
    BY <1>1, <1>6 DEF Dial
  <2>3. sender[k].tries < Sinks[k].attempts
    BY <1>4, <1>6 DEF Dial
  <2>4. sender[k].tries + 1 \notin Received(k)
    BY <1>1, <1>4
  <2> HIDE DEF Received
  <2>5. wire'[k] \cup Received(k)' \subseteq 1 .. sender'[k].tries
    BY <1>1, <1>4, <2>1, <2>2
  <2> QED
    BY <1>1, <1>4, <2>1, <2>2, <2>3, <2>4, <2>5
<1>7. CASE Accept(k)
  <2>1. PICK a \in wire[k] :
          /\ wire' = [wire EXCEPT ![k] = @ \ {a}]
          /\ inbox' = [inbox EXCEPT ![k] = @ \cup {[attempt |-> a, body |-> sender[k].body]}]
    BY <1>7 DEF Accept
  <2>2. sender' = sender /\ wire'[k] = wire[k] \ {a} /\ inbox'[k] # {}
    BY <1>1, <1>7, <2>1 DEF Accept
  <2>3. Received(k)' = Received(k) \cup {a}
    <3>1. inbox'[k] = inbox[k] \cup {[attempt |-> a, body |-> sender[k].body]}
      BY <1>1, <2>1
    <3>2. [attempt |-> a, body |-> sender[k].body].attempt = a
      OBVIOUS
    <3>3. \A M, r : {m.attempt : m \in M \cup {r}} = {m.attempt : m \in M} \cup {r.attempt}
      OBVIOUS
    <3> QED
      BY <3>1, <3>2, <3>3
  <2> HIDE DEF Received
  <2> QED
    BY <1>4, <2>1, <2>2, <2>3
<1>8. CASE Delivered(k)
  <2>1. sender'[k].phase = "ok" /\ sender'[k].tries = sender[k].tries
    BY <1>1, <1>8 DEF Delivered, SinkStep, Sender
  <2>2. inbox'[k] # {} /\ UNCHANGED <<wire, inbox>>
    BY <1>8 DEF Delivered
  <2> QED
    BY <1>4, <2>1, <2>2
<1>9. ASSUME NEW from, NEW to \in {"ready", "late", "failed"}, SinkMoves(k, from, to),
             to = "ready" => sender[k].tries < Sinks[k].attempts
      PROVE  Holds(k)'
  <2>1. sender'[k].phase = to /\ sender'[k].tries = sender[k].tries /\ UNCHANGED <<wire, inbox>>
    BY <1>1, <1>9 DEF SinkMoves, Sender
  <2> QED
    BY <1>4, <1>9, <2>1
<1> QED
  BY <1>5, <1>6, <1>7, <1>8, <1>9, SinkSteps

\* ... and no other step disturbs that.
LEMMA SendersNext ==
  ASSUME RunInv, SendersHold, [Next]_vars
  PROVE  SendersHold'
<1>1. ASSUME UNCHANGED delivery PROVE SendersHold'
  BY <1>1 DEF SendersHold, delivery
<1>2. CASE Cancel \/ Terminating \/ UNCHANGED vars
  BY <1>1, <1>2 DEF Cancel, Terminating, vars, delivery
<1> QED
  BY <1>1, <1>2, SourceKeeps, LLMKeeps, MainKeeps, SendersSink DEF Next, RunInv

-----------------------------------------------------------------------------
(* Messages.                                                                *)

\* Message reads the verdict, the summary, the findings and the statistics.
LEMMA MessageReads ==
  ASSUME NEW kind \in SinkKinds, NEW r, NEW t,
         r.verdict = t.verdict, r.summary = t.summary, r.findings = t.findings, r.stats = t.stats
  PROVE  Message(kind, r) = Message(kind, t)
<1>1. RenderText(r) = RenderText(t)
  BY DEF RenderText
<1> QED
  BY <1>1 DEF Message, ToJSON, NotifyMessage, SinkKinds

\* A step of a sink sends only what was computed from the report.
LEMMA BodiesSink ==
  ASSUME RunInv, BodiesHold, NEW k \in K, SinkNext(k)
  PROVE  BodiesHold'
<1>1. /\ sender \in [K -> Sender] /\ sender[k] \in Sender
      /\ wire \in [K -> SUBSET Nat]
      /\ inbox \in [K -> SUBSET [attempt : Nat, body : Body]]
  BY DEF RunInv, TypeOK
<1> DEFINE Told(j) == sender[j].body = Message(Sinks[j].kind, report)
           Holds(j) == \/ sender[j].phase \in {"ready", "flying", "late", "ok"}
                       \/ wire[j] # {} \/ inbox[j] # {}
                       => Told(j)
<1>2. \A j \in K : Holds(j)
  BY DEF BodiesHold
<1>3. report' = report
  BY SinkKeeps DEF RunInv
<1>4. \A j \in K \ {k} : Holds(j)'
  BY <1>2, <1>3, SinkKeeps DEF RunInv
<1> SUFFICES Holds(k)'
  BY <1>4 DEF BodiesHold
<1>5. CASE Compose(k)
  <2>1. sender'[k].body = Message(Sinks[k].kind, report)
    BY <1>1, <1>5 DEF Compose, SinkStep
  <2> QED
    BY <1>3, <2>1
<1>6. ASSUME Told(k), sender'[k].body = sender[k].body
      PROVE  Holds(k)'
  BY <1>3, <1>6
<1>7. CASE Dial(k)
  <2>1. sender'[k].body = sender[k].body /\ sender[k].phase = "ready"
    BY <1>1, <1>7 DEF Dial, SinkStep, Sender
  <2> QED
    BY <1>2, <1>6, <2>1
<1>8. CASE Accept(k)
  <2>1. sender' = sender /\ wire[k] # {}
    BY <1>8 DEF Accept
  <2> QED
    BY <1>2, <1>6, <2>1
<1>9. CASE Delivered(k)
  <2>1. sender'[k].body = sender[k].body /\ sender[k].phase = "flying"
    BY <1>1, <1>9 DEF Delivered, InFlight, SinkStep, Sender
  <2> QED
    BY <1>2, <1>6, <2>1
<1>10. CASE SinkMoves(k, {"idle"}, "failed")
  <2>1. sender'[k].phase = "failed" /\ UNCHANGED <<wire, inbox>> /\ wire[k] = {} /\ inbox[k] = {}
    BY <1>1, <1>10 DEF SinkMoves, Sender, RunInv, MessagesHold
  <2> QED
    BY <2>1
<1>11. ASSUME NEW from \in SUBSET {"ready", "flying", "late"}, NEW to, SinkMoves(k, from, to)
       PROVE  Holds(k)'
  <2>1. sender'[k].body = sender[k].body /\ sender[k].phase \in {"ready", "flying", "late"}
    BY <1>1, <1>11 DEF SinkMoves, Sender
  <2> QED
    BY <1>2, <1>6, <2>1
<1> QED
  BY <1>5, <1>7, <1>8, <1>9, <1>10, <1>11, SinkSteps

\* ... and no report changes under a message that is computed from it.
LEMMA BodiesNext ==
  ASSUME RunInv, BodiesHold, [Next]_vars
  PROVE  BodiesHold'
<1>1. ASSUME UNCHANGED <<delivery, report>> PROVE BodiesHold'
  BY <1>1 DEF BodiesHold, delivery
\* Before the delivery every sender is idle and nothing is on its way.
<1>2. ASSUME pc \in {"collect", "gather", "summarize"}, UNCHANGED delivery PROVE BodiesHold'
  BY <1>2 DEF RunInv, MessagesHold, BodiesHold, delivery
<1>3. CASE Cancel \/ Terminating \/ UNCHANGED vars
  BY <1>1, <1>3 DEF Cancel, Terminating, vars, delivery
<1>4. CASE Settle
  <2>1. /\ UNCHANGED <<report.verdict, report.summary, report.findings, report.stats>>
        /\ UNCHANGED delivery
    BY <1>4 DEF Settle, RunInv, TypeOK, ReportType
  <2>2. \A k \in K : Message(Sinks[k].kind, report') = Message(Sinks[k].kind, report)
    BY <2>1, ConfigTypes, MessageReads
  <2> QED
    BY <2>1, <2>2 DEF BodiesHold, delivery
<1>5. CASE MainNext /\ ~Settle
  BY <1>1, <1>2, <1>5, MainKeeps
     DEF MainNext, Wait, Gather, Judge, Record, Panic, AppendHistory, Exit
<1> QED
  BY <1>1, <1>2, <1>3, <1>4, <1>5, SourceKeeps, LLMKeeps, BodiesSink DEF Next, RunInv

-----------------------------------------------------------------------------
(* Findings.                                                                *)

AnswersOf(s) == {<<s, n>> : n \in DOMAIN collector[s].found}

\* A source has one answer for each of its findings.
LEMMA AnswersOfCount ==
  ASSUME TypeOK, NEW s \in S
  PROVE  /\ IsFiniteSet(AnswersOf(s))
         /\ Cardinality(AnswersOf(s)) = Len(collector[s].found)
<1> DEFINE n == Len(collector[s].found)
           f == [i \in 1 .. n |-> <<s, i>>]
<1>1. collector[s].found \in Seq(Finding)
  BY DEF TypeOK, Collector
<1>2. n \in Nat /\ DOMAIN collector[s].found = 1 .. n
  BY <1>1, LenProperties
<1> HIDE DEF n
<1>3. AnswersOf(s) = {<<s, i>> : i \in 1 .. n}
  BY <1>2 DEF AnswersOf
<1>4. f \in Bijection(1 .. n, AnswersOf(s))
  <2>1. f \in [1 .. n -> AnswersOf(s)]
    BY <1>3
  <2>2. \A i, j \in 1 .. n : f[i] = f[j] => i = j
    OBVIOUS
  <2>3. \A a \in AnswersOf(s) : \E i \in 1 .. n : f[i] = a
    BY <1>3
  <2> QED
    BY <2>1, <2>2, <2>3 DEF Bijection, Injection, Surjection, IsInjective
<1>5. ExistsBijection(1 .. n, AnswersOf(s))
  BY <1>4 DEF ExistsBijection
<1> QED
  BY <1>2, <1>5, FS_NatBijection, FS_CountingElements DEF n

\* Two families with the same members are the same set.
LEMMA SameElements ==
  ASSUME NEW f, NEW g, NEW A, NEW B,
         \A a \in A : \E b \in B : f[a] = g[b],
         \A b \in B : \E a \in A : g[b] = f[a]
  PROVE  {f[a] : a \in A} = {g[b] : b \in B}
OBVIOUS

\* The elements of a concatenation are those of its two parts.
LEMMA ElementsOfConcat ==
  ASSUME NEW a \in Seq(Finding), NEW b \in Seq(Finding)
  PROVE  {(a \o b)[i] : i \in DOMAIN (a \o b)} = {a[i] : i \in DOMAIN a} \cup {b[i] : i \in DOMAIN b}
<1> DEFINE m == Len(a)
           n == Len(b)
           c == a \o b
<1>1. m \in Nat /\ n \in Nat /\ DOMAIN a = 1 .. m /\ DOMAIN b = 1 .. n
  BY LenProperties
<1>2. /\ Len(c) = m + n /\ DOMAIN c = 1 .. m + n
      /\ \A i \in 1 .. m + n : c[i] = IF i <= m THEN a[i] ELSE b[i - m]
  <2>1. c \in Seq(Finding) /\ Len(c) = m + n
    BY ConcatProperties
  <2> QED
    BY <2>1, ConcatProperties, LenProperties
<1> HIDE DEF c, m, n
<1>3. \A i \in 1 .. m : i \in 1 .. m + n /\ c[i] = a[i]
  BY <1>1, <1>2
<1>4. \A j \in 1 .. n : m + j \in 1 .. m + n /\ c[m + j] = b[j]
  <2> TAKE j \in 1 .. n
  <2>1. m + j \in 1 .. m + n /\ ~(m + j <= m) /\ (m + j) - m = j
    BY <1>1
  <2> QED
    BY <1>2, <2>1
<1>5. \A i \in 1 .. m + n : \/ i \in 1 .. m /\ c[i] = a[i]
                            \/ i - m \in 1 .. n /\ c[i] = b[i - m]
  BY <1>1, <1>2
<1>6. \A x : x \in {c[i] : i \in 1 .. m + n} <=>
             x \in {a[i] : i \in 1 .. m} \cup {b[i] : i \in 1 .. n}
  BY <1>3, <1>4, <1>5
<1> QED
  BY <1>1, <1>2, <1>6 DEF c

\* Of two findings at most one precedes the other.
LEMMA PrecedesIsAsymmetric ==
  ASSUME NEW f \in Finding, NEW g \in Finding, Precedes(f, g)
  PROVE  ~Precedes(g, f)
<1>1. \A x \in {f, g} : x.severity \in Int /\ x.source \in Int /\ x.title \in Int
  BY DEF Finding, Severity, SeverityInfo, SeverityCritical
<1> QED
  BY <1>1 DEF Precedes

\* Sorting drops nothing, invents nothing and leaves nothing out of order.
LEMMA SortedFindings ==
  ASSUME NEW fs \in Seq(Finding)
  PROVE  LET gs == sortFindings(fs)
         IN  /\ gs \in Seq(Finding) /\ Len(gs) = Len(fs)
             /\ {gs[i] : i \in DOMAIN gs} = {fs[i] : i \in DOMAIN fs}
             /\ \A i, j \in DOMAIN gs : i < j => ~Precedes(gs[j], gs[i])
<1> DEFINE gs == sortFindings(fs)
           D == DOMAIN fs
<1>1. gs \in Seq(Finding) /\ Len(gs) = Len(fs)
  BY SortFindingsIsStableSort
<1>2. PICK p \in [D -> D] :
        /\ \A k \in D : gs[k] = fs[p[k]]
        /\ \A i \in D : \E k \in D : p[k] = i
        /\ \A k, l \in D : k < l => Before(fs, p[k], p[l])
  BY SortFindingsIsStableSort
<1>3. DOMAIN gs = D /\ \A i \in D : fs[i] \in Finding
  BY <1>1, LenProperties
<1> HIDE DEF gs
<1>4. {gs[i] : i \in D} = {fs[i] : i \in D}
  <2> HIDE DEF D
  <2>1. \A k \in D : \E i \in D : gs[k] = fs[i]
    BY <1>2
  <2>2. ASSUME NEW i \in D
        PROVE  \E k \in D : fs[i] = gs[k]
    <3>1. PICK k \in D : p[k] = i
      BY <1>2
    <3>2. gs[k] = fs[i]
      BY <1>2, <3>1
    <3> QED
      BY <3>2
  <2>3. ASSUME NEW x \in {gs[i] : i \in D} PROVE x \in {fs[i] : i \in D}
    BY <2>1
  <2>4. ASSUME NEW x \in {fs[i] : i \in D} PROVE x \in {gs[i] : i \in D}
    <3>1. PICK i \in D : x = fs[i]
      OBVIOUS
    <3>2. PICK k \in D : fs[i] = gs[k]
      BY <2>2
    <3> QED
      BY <3>1, <3>2
  <2> QED
    BY <2>3, <2>4
<1>5. ASSUME NEW i \in D, NEW j \in D, i < j
      PROVE  ~Precedes(gs[j], gs[i])
  <2>1. Before(fs, p[i], p[j]) /\ gs[i] = fs[p[i]] /\ gs[j] = fs[p[j]]
    BY <1>2, <1>5
  <2>2. gs[i] \in Finding /\ gs[j] \in Finding
    BY <1>2, <1>3, <2>1
  <2> QED
    BY <2>1, <2>2, PrecedesIsAsymmetric DEF Before
<1> QED
  BY <1>1, <1>3, <1>4, <1>5 DEF gs

\* No finding is gathered at the start.
LEMMA FindingsInit ==
  ASSUME Init
  PROVE  FindingsHold
<1>1. report.stats = <<>> /\ report.findings = <<>> /\ pc = "collect"
  BY DEF Init
<1>2. Gathered = {}
  BY <1>1 DEF Gathered
<1> QED
  BY <1>1, <1>2, FS_EmptySet DEF FindingsHold

\* Gathering a slot adds each of its findings to the report once.
LEMMA FindingsGather ==
  ASSUME RunInv, FindingsHold, Gather
  PROVE  FindingsHold'
<1> DEFINE s == Len(report.stats) + 1
           fs == report.findings
           gs == collector[s].found
           n == Len(report.stats)
           At(a) == collector[a[1]].found[a[2]]
<1>1. /\ report \in ReportType /\ fs \in Seq(Finding) /\ n \in Nat
      /\ report.stats \in Seq(SourceStats) /\ collector \in [S -> Collector]
  <2>1. report \in ReportType /\ collector \in [S -> Collector]
    BY DEF RunInv, TypeOK
  <2>2. fs \in Seq(Finding) /\ report.stats \in Seq(SourceStats)
    BY <2>1 DEF ReportType
  <2> QED
    BY <2>1, <2>2, LenProperties
<1>2. /\ s \in S /\ pc = "gather" /\ pc' = "gather" /\ collector' = collector
      /\ report'.findings = fs \o SlotFindings(s)
      /\ report'.stats = Append(report.stats, SlotStats(s))
  BY <1>1 DEF Gather, main, ReportType
<1>3. SlotFindings(s) = gs /\ gs \in Seq(Finding)
  BY <1>1, <1>2 DEF RunInv, SlotsHold, AllReturned, SlotFindings, Collector
<1>4. Len(report'.stats) = s
  BY <1>1, <1>2, SlotType, AppendProperties
<1>5. Gathered' = Gathered \cup AnswersOf(s)
  <2>1. 1 .. s = (1 .. n) \cup {s}
    BY <1>1
  <2>2. Gathered' = UNION {AnswersOf(t) : t \in 1 .. s}
    BY <1>2, <1>4 DEF Gathered, AnswersOf
  <2>3. Gathered = UNION {AnswersOf(t) : t \in 1 .. n}
    BY DEF Gathered, AnswersOf
  <2> QED
    BY <2>1, <2>2, <2>3
<1>6. Gathered \cap AnswersOf(s) = {}
  <2>1. \A a \in Gathered : a[1] \in 1 .. n
    BY DEF Gathered
  <2>2. \A a \in AnswersOf(s) : a[1] = s
    BY DEF AnswersOf
  <2>3. s \notin 1 .. n
    BY <1>1
  <2> QED
    BY <2>1, <2>2, <2>3
<1>7. IsFiniteSet(Gathered) /\ Len(fs) = Cardinality(Gathered)
  BY DEF FindingsHold
<1>8. IsFiniteSet(AnswersOf(s)) /\ Cardinality(AnswersOf(s)) = Len(gs)
  BY <1>2, AnswersOfCount DEF RunInv
<1>9. IsFiniteSet(Gathered') /\ Cardinality(Gathered') = Len(fs) + Len(gs)
  <2>1. Cardinality(Gathered \cap AnswersOf(s)) = 0
    BY <1>6, FS_EmptySet
  <2>2. Len(fs) \in Nat /\ Len(gs) \in Nat
    BY <1>1, <1>3, LenProperties
  <2>3. /\ IsFiniteSet(Gathered \cup AnswersOf(s))
        /\ Cardinality(Gathered \cup AnswersOf(s))
             = Cardinality(Gathered) + Cardinality(AnswersOf(s)) - Cardinality(Gathered \cap AnswersOf(s))
    BY <1>7, <1>8, FS_Union
  <2> HIDE DEF fs, gs, s
  <2>4. Cardinality(Gathered \cup AnswersOf(s)) = Len(fs) + Len(gs)
    BY <1>7, <1>8, <2>1, <2>2, <2>3
  <2> QED
    BY <1>5, <2>3, <2>4
<1>10. report'.findings = fs \o gs /\ Len(fs \o gs) = Len(fs) + Len(gs)
  <2>1. report'.findings = fs \o gs
    BY <1>2, <1>3
  <2> HIDE DEF fs, gs
  <2> QED
    BY <1>1, <1>3, <2>1, ConcatProperties
<1>11. {report'.findings[i] : i \in DOMAIN report'.findings}
         = {fs[i] : i \in DOMAIN fs} \cup {gs[i] : i \in DOMAIN gs}
  <2> HIDE DEF fs, gs
  <2>1. {(fs \o gs)[i] : i \in DOMAIN (fs \o gs)}
          = {fs[i] : i \in DOMAIN fs} \cup {gs[i] : i \in DOMAIN gs}
    BY <1>1, <1>3, ElementsOfConcat
  <2> QED
    BY <1>10, <2>1
<1>12. {At(a) : a \in AnswersOf(s)} = {gs[i] : i \in DOMAIN gs}
  <2>1. \A i \in DOMAIN gs : \E a \in AnswersOf(s) : gs[i] = At(a)
    <3>1. \A i \in DOMAIN gs : <<s, i>> \in AnswersOf(s) /\ gs[i] = At(<<s, i>>)
      BY DEF AnswersOf
    <3> QED
      BY <3>1
  <2>2. \A a \in AnswersOf(s) : \E i \in DOMAIN gs : At(a) = gs[i]
    BY DEF AnswersOf
  <2> HIDE DEF gs, At
  <2> QED
    BY <2>1, <2>2
<1>13. {fs[i] : i \in DOMAIN fs} = {At(a) : a \in Gathered}
  BY DEF FindingsHold
<1>14. {At(a) : a \in Gathered'} = {At(a) : a \in Gathered} \cup {At(a) : a \in AnswersOf(s)}
  BY <1>5
<1> QED
  <2> DEFINE found == {report'.findings[i] : i \in DOMAIN report'.findings}
  <2>1. found = {At(a) : a \in Gathered'}
    <3> HIDE DEF found, At, fs, gs
    <3>1. found = {fs[i] : i \in DOMAIN fs} \cup {gs[i] : i \in DOMAIN gs}
      BY <1>11 DEF found
    <3> QED
      BY <3>1, <1>12, <1>13, <1>14
  <2>2. Len(report'.findings) = Cardinality(Gathered')
    BY <1>9, <1>10
  <2>3. collector' = collector /\ pc' \in {"collect", "gather"}
    BY <1>2
  <2>4. found = {collector'[a[1]].found[a[2]] : a \in Gathered'}
    BY <2>1, <2>3
  <2> QED
    BY <1>9, <2>2, <2>3, <2>4, Zenon DEF FindingsHold

\* ... and no other step adds or drops one; Judge only sorts them.
LEMMA FindingsNext ==
  ASSUME RunInv, FindingsHold, [Next]_vars
  PROVE  FindingsHold'
<1>1. report \in ReportType /\ report.findings \in Seq(Finding)
  BY DEF RunInv, TypeOK, ReportType
\* Before the barrier nothing is gathered, whatever the sources find.
<1>2. ASSUME NEW s \in S, SourceNext(s)
      PROVE  FindingsHold'
  <2>1. pc = "collect" /\ pc' = "collect" /\ report' = report
    BY <1>2, SourceKeeps DEF main
  <2>2. Len(report.stats) = 0
    BY <2>1 DEF RunInv, SlotsHold
  <2>3. Gathered = {} /\ Gathered' = {}
    BY <2>1, <2>2 DEF Gathered
  <2>4. {collector[a[1]].found[a[2]] : a \in Gathered}' = {collector[a[1]].found[a[2]] : a \in Gathered}
    BY <2>3
  <2> QED
    BY <2>1, <2>3, <2>4 DEF FindingsHold
\* A step that leaves the goroutines, the findings and the statistics alone.
<1>3. ASSUME collector' = collector,
             UNCHANGED <<report.verdict, report.findings, report.stats>>,
             \/ pc' = pc \/ pc' \in {"collect", "gather"} \/ pc \notin {"collect", "gather"}
      PROVE  FindingsHold'
  <2>1. Gathered' = Gathered
    BY <1>3 DEF Gathered
  <2>2. pc' \notin {"collect", "gather"} => pc \notin {"collect", "gather"}
    BY <1>3
  <2>3. report'.findings = report.findings /\ report'.verdict = report.verdict
    BY <1>3
  <2>4. {collector'[a[1]].found[a[2]] : a \in Gathered'} = {collector[a[1]].found[a[2]] : a \in Gathered}
    BY <1>3, <2>1
  <2>5. IsFiniteSet(Gathered') /\ Len(report'.findings) = Cardinality(Gathered')
    BY <2>1, <2>3 DEF FindingsHold
  <2>6. {report'.findings[i] : i \in DOMAIN report'.findings} = {collector'[a[1]].found[a[2]] : a \in Gathered'}
    BY <2>3, <2>4 DEF FindingsHold
  <2>7. pc' \notin {"collect", "gather"} =>
          LET fs == report'.findings
          IN  (\A i, j \in DOMAIN fs : i < j => ~Precedes(fs[j], fs[i])) /\ report'.verdict = Verdict(fs)
    BY <2>2, <2>3 DEF FindingsHold
  <2> QED
    BY <2>5, <2>6, <2>7 DEF FindingsHold
<1>4. CASE Judge
  <2> DEFINE gs == sortFindings(report.findings)
  <2>1. /\ report'.findings = gs /\ report'.stats = report.stats
        /\ report'.verdict = Verdict(gs) /\ collector' = collector
    BY <1>1, <1>4 DEF Judge, ReportType
  <2>2. /\ Len(gs) = Len(report.findings)
        /\ {gs[i] : i \in DOMAIN gs} = {report.findings[i] : i \in DOMAIN report.findings}
        /\ \A i, j \in DOMAIN gs : i < j => ~Precedes(gs[j], gs[i])
    BY <1>1, SortedFindings
  <2>3. Gathered' = Gathered
    BY <2>1 DEF Gathered
  <2> HIDE DEF gs
  <2>4. IsFiniteSet(Gathered') /\ Len(gs) = Cardinality(Gathered')
    BY <2>2, <2>3 DEF FindingsHold
  <2>5. {gs[i] : i \in DOMAIN gs} = {collector[a[1]].found[a[2]] : a \in Gathered}
    BY <2>2 DEF FindingsHold
  <2>6. {gs[i] : i \in DOMAIN gs} = {collector'[a[1]].found[a[2]] : a \in Gathered'}
    BY <2>1, <2>3, <2>5
  <2> QED
    BY <2>1, <2>2, <2>4, <2>6 DEF FindingsHold
<1>5. CASE Settle
  <2>1. /\ collector' = collector /\ pc \notin {"collect", "gather"}
        /\ UNCHANGED <<report.verdict, report.findings, report.stats>>
    BY <1>1, <1>5 DEF Settle, ReportType
  <2> QED
    BY <1>3, <2>1
<1>6. CASE Wait \/ Record \/ Panic \/ AppendHistory \/ Exit
  <2>1. /\ collector' = collector /\ report' = report
        /\ pc' \in {"collect", "gather"} \/ pc \notin {"collect", "gather"}
    BY <1>6 DEF Wait, Record, Panic, AppendHistory, Exit
  <2> QED
    BY <1>3, <2>1
<1>7. CASE LLMNext
  <2>1. /\ collector' = collector /\ pc \notin {"collect", "gather"}
        /\ UNCHANGED <<report.verdict, report.findings, report.stats>>
    BY <1>7, LLMKeeps DEF RunInv
  <2> QED
    BY <1>3, <2>1
<1>8. ASSUME NEW k \in K, SinkNext(k)
      PROVE  FindingsHold'
  <2>1. collector' = collector /\ pc' = pc /\ report' = report
    BY <1>8, SinkKeeps DEF RunInv, main
  <2> QED
    BY <1>3, <2>1
<1>9. CASE Cancel \/ Terminating \/ UNCHANGED vars
  <2>1. collector' = collector /\ pc' = pc /\ report' = report
    BY <1>9 DEF Cancel, Terminating, vars
  <2> QED
    BY <1>3, <2>1
<1> QED
  BY <1>2, <1>4, <1>5, <1>6, <1>7, <1>8, <1>9, FindingsGather DEF Next, MainNext

-----------------------------------------------------------------------------
(* Metrics and exit code.                                                   *)

\* Nothing is counted and no exit code given at the start.
LEMMA OutcomeInit ==
  ASSUME Init
  PROVE  OutcomeHolds
BY DEF Init, OutcomeHolds, NothingCounted

\* Metrics and exit code are computed from the report once it is settled.
LEMMA OutcomeNext ==
  ASSUME RunInv, OutcomeHolds, [Next]_vars
  PROVE  OutcomeHolds'
<1>1. report \in ReportType /\ pc \in Labels
  BY DEF RunInv, TypeOK
\* A step that leaves the outcome alone, before the end of the delivery ...
<1>2. ASSUME pc \in {"collect", "gather", "summarize", "deliver"},
             pc' \in {"collect", "gather", "summarize", "deliver"},
             UNCHANGED <<report.sinks, outcome>>,
             report'.tokens \in TokenCounts \cup {report.tokens}
      PROVE  OutcomeHolds'
  <2>1. report'.tokens \in TokenCounts \cup {0}
    BY <1>2 DEF OutcomeHolds
  <2>2. NothingCounted' /\ exit' = NoExit /\ report'.sinks = <<>>
    BY <1>2 DEF OutcomeHolds, NothingCounted, outcome
  <2> QED
    BY <1>2, <2>1, <2>2 DEF OutcomeHolds
\* ... or at any time without changing what the outcome is computed from.
<1>3. ASSUME UNCHANGED <<pc, report, outcome>>, \A k \in K : sender'[k].phase = sender[k].phase
      PROVE  OutcomeHolds'
  <2>1. [k \in K |-> sender[k].phase]' = [k \in K |-> sender[k].phase]
    BY <1>3
  <2>2. AllSettled' = AllSettled
    BY <1>3 DEF AllSettled
  <2>3. AllCounted' = AllCounted /\ Negative' = Negative /\ NothingCounted' = NothingCounted
    BY <1>3 DEF AllCounted, Negative, NothingCounted, outcome
  <2> QED
    BY <1>3, <2>1, <2>2, <2>3 DEF OutcomeHolds, outcome
<1>4. ASSUME NEW s \in S, SourceNext(s) PROVE OutcomeHolds'
  BY <1>2, <1>4, SourceKeeps DEF main
<1>5. CASE LLMNext
  BY <1>2, <1>5, LLMKeeps DEF RunInv
<1>6. ASSUME NEW k \in K, SinkNext(k) PROVE OutcomeHolds'
  <2>1. UNCHANGED <<pc, report, outcome>>
    BY <1>6, SinkKeeps DEF RunInv, main
  <2>2. pc = "deliver" \/ sender' = sender
    BY <1>6 DEF SinkNext, Compose, ComposeFails, Dial, Accept, Delivered, RetrySend, Refused,
                ExpireSink, Abandon, InFlight
  <2>3. CASE pc = "deliver"
    BY <1>2, <2>1, <2>3
  <2>4. CASE sender' = sender
    BY <1>3, <2>1, <2>4
  <2> QED
    BY <2>2, <2>3, <2>4
<1>7. CASE Wait \/ Gather \/ Judge
  <2>1. report'.sinks = report.sinks /\ report'.tokens = report.tokens
    BY <1>1, <1>7 DEF Wait, Gather, Judge, ReportType
  <2> QED
    BY <1>2, <1>7, <2>1 DEF Wait, Gather, Judge, main
<1>8. CASE Settle
  <2>1. /\ pc = "deliver" /\ pc' = "record" /\ AllSettled /\ UNCHANGED <<sender, outcome>>
        /\ report'.sinks = [k \in K |-> sender[k].phase] /\ report'.tokens = report.tokens
    BY <1>1, <1>8 DEF Settle, ReportType, delivery
  <2>2. NothingCounted' /\ exit' = NoExit /\ report'.tokens \in TokenCounts \cup {0}
    BY <2>1 DEF OutcomeHolds, NothingCounted, outcome
  <2>3. AllSettled' /\ report'.sinks = [k \in K |-> sender'[k].phase]
    BY <2>1 DEF AllSettled
  <2> QED
    BY <2>1, <2>2, <2>3 DEF OutcomeHolds
<1>9. CASE Record
  <2>1. pc = "record" /\ pc' = "append" /\ UNCHANGED <<sender, report, exit>>
    BY <1>9 DEF Record, delivery
  <2>2. AllCounted'
    BY <1>9, <2>1 DEF Record, AllCounted, Negative
  <2> QED
    BY <2>1, <2>2 DEF OutcomeHolds, AllSettled
<1>10. CASE Panic
  <2>1. /\ pc = "record" /\ pc' = "exited" /\ exit' = 2 /\ Negative
        /\ UNCHANGED <<sender, report, metrics>>
    BY <1>10 DEF Panic, delivery
  <2>2. Negative' /\ NothingCounted'
    BY <2>1 DEF OutcomeHolds, Negative, NothingCounted
  <2> QED
    BY <2>1, <2>2 DEF OutcomeHolds, AllSettled
<1>11. CASE AppendHistory
  <2>1. pc = "append" /\ pc' = "exiting" /\ UNCHANGED <<sender, report, metrics, exit>>
    BY <1>11 DEF AppendHistory, delivery
  <2>2. AllCounted'
    BY <2>1 DEF OutcomeHolds, AllCounted, Negative
  <2> QED
    BY <2>1, <2>2 DEF OutcomeHolds, AllSettled
<1>12. CASE Exit
  <2>1. /\ pc = "exiting" /\ pc' = "exited" /\ UNCHANGED <<sender, report, metrics>>
        /\ exit' = (IF metrics'.success THEN 0 ELSE 1)
    BY <1>12 DEF Exit, delivery
  <2>2. AllCounted'
    BY <2>1 DEF OutcomeHolds, AllCounted, Negative
  <2> QED
    BY <2>1, <2>2 DEF OutcomeHolds, AllSettled
<1>13. CASE Cancel \/ Terminating \/ UNCHANGED vars
  BY <1>3, <1>13 DEF Cancel, Terminating, vars, delivery, outcome
<1> QED
  BY <1>4, <1>5, <1>6, <1>7, <1>8, <1>9, <1>10, <1>11, <1>12, <1>13 DEF Next, MainNext

\* The invariant holds at the start.
LEMMA OutcomeInvInit == Init => OutcomeInv
<1> SUFFICES ASSUME Init PROVE OutcomeInv
  OBVIOUS
<1>1. BodiesHold
  BY DEF Init, BodiesHold
<1> QED
  BY <1>1, RunInit, SendersInit, FindingsInit, OutcomeInit DEF OutcomeInv

\* Every step keeps the invariant, part by part.
LEMMA OutcomeInvNext == OutcomeInv /\ [Next]_vars => OutcomeInv'
BY RunNext, SendersNext, BodiesNext, FindingsNext, OutcomeNext DEF OutcomeInv

\* The invariant behind the delivery, the metrics and the exit code: attempts
\* are counted, messages are those of the report, the report holds every answer,
\* and what is counted is computed from it (deliver, collect, Record, runCmd).
THEOREM OutcomeInvariant == Spec => []OutcomeInv
<1> QED
  BY OutcomeInvInit, OutcomeInvNext, PTL DEF Spec

-----------------------------------------------------------------------------
(* What the invariant is for.                                               *)

\* Every kind of message states verdict, summary and problems of the report,
\* and its findings unless Home Assistant gets the summary instead.
LEMMA MessageSays ==
  ASSUME NEW kind \in SinkKinds, NEW r
  PROVE  /\ Message(kind, r).verdict = r.verdict
         /\ Message(kind, r).summary = r.summary
         /\ Message(kind, r).problems = SourceProblems(r.stats)
         /\ r.summary = "" \/ kind # "homeassistant" => Message(kind, r).findings = r.findings
BY DEF Message, RenderText, ToJSON, NotifyMessage, SinkKinds

\* What is in an inbox is the message of the report, and the report is final.
LEMMA Received ==
  ASSUME OutcomeInv, NEW k \in K, NEW m \in inbox[k]
  PROVE  /\ pc \notin {"collect", "gather", "summarize"}
         /\ m.body.verdict = report.verdict /\ m.body.summary = report.summary
         /\ m.body.problems = SourceProblems(report.stats)
         /\ m.body.summary = "" \/ Sinks[k].kind # "homeassistant" =>
              m.body.findings = report.findings
<1>1. sender[k].phase # "idle" /\ m.body = sender[k].body
  BY DEF OutcomeInv, RunInv, MessagesHold
<1>2. pc \notin {"collect", "gather", "summarize"}
  BY <1>1 DEF OutcomeInv, RunInv, MessagesHold
<1>3. sender[k].body = Message(Sinks[k].kind, report)
  BY DEF OutcomeInv, BodiesHold
<1>4. m.body = Message(Sinks[k].kind, report) /\ Sinks[k].kind \in SinkKinds
  BY <1>1, <1>3, ConfigTypes
<1>5. /\ Message(Sinks[k].kind, report).verdict = report.verdict
      /\ Message(Sinks[k].kind, report).summary = report.summary
      /\ Message(Sinks[k].kind, report).problems = SourceProblems(report.stats)
      /\ report.summary = "" \/ Sinks[k].kind # "homeassistant" =>
           Message(Sinks[k].kind, report).findings = report.findings
  BY <1>4, MessageSays
<1> QED
  BY <1>2, <1>4, <1>5

\* Past the barrier the report holds the answers of the sources, all of them.
LEMMA AllGathered ==
  ASSUME OutcomeInv, pc \notin {"collect", "gather"}
  PROVE  /\ Gathered = Answers
         /\ \A a \in Answers : \E i \in DOMAIN report.findings :
              report.findings[i] = collector[a[1]].found[a[2]]
         /\ \A i \in DOMAIN report.findings : \E a \in Answers :
              report.findings[i] = collector[a[1]].found[a[2]]
<1>1. 1 .. Len(report.stats) = S
  BY ConfigTypes DEF OutcomeInv, RunInv, SlotsHold
<1>2. Gathered = Answers
  BY <1>1 DEF Gathered, Answers
<1>3. {report.findings[i] : i \in DOMAIN report.findings} = {collector[a[1]].found[a[2]] : a \in Answers}
  BY <1>2 DEF OutcomeInv, FindingsHold
<1> QED
  BY <1>2, <1>3

\* Messages are computed from the report, whose findings are sorted.
LEMMA InvGivesWorstFirst == OutcomeInv => WorstFirst
<1> SUFFICES ASSUME OutcomeInv, NEW k \in K, NEW m \in inbox[k]
             PROVE  LET fs == m.body.findings
                    IN  /\ \A a \in Answers : collector[a[1]].found[a[2]].severity <= m.body.verdict
                        /\ \/ m.body.verdict = SeverityInfo
                           \/ \E a \in Answers : collector[a[1]].found[a[2]].severity = m.body.verdict
                        /\ m.body.summary = "" \/ Sinks[k].kind # "homeassistant" =>
                             /\ Len(fs) = Cardinality(Answers)
                             /\ \A a \in Answers : \E i \in DOMAIN fs : fs[i] = collector[a[1]].found[a[2]]
                             /\ \A i, j \in DOMAIN fs : i < j => ~Precedes(fs[j], fs[i])
  BY DEF WorstFirst
<1> DEFINE fs == report.findings
<1>1. fs \in Seq(Finding)
  BY DEF OutcomeInv, RunInv, TypeOK, ReportType
<1>2. pc \notin {"collect", "gather"}
  BY Received
<1>3. /\ m.body.verdict = report.verdict
      /\ m.body.summary = "" \/ Sinks[k].kind # "homeassistant" => m.body.findings = fs
  BY Received
<1>4. /\ report.verdict = Verdict(fs) /\ Len(fs) = Cardinality(Gathered)
      /\ \A i, j \in DOMAIN fs : i < j => ~Precedes(fs[j], fs[i])
  BY <1>2 DEF OutcomeInv, FindingsHold
<1>5. /\ \A i \in DOMAIN fs : fs[i].severity <= report.verdict
      /\ report.verdict = SeverityInfo \/ \E i \in DOMAIN fs : fs[i].severity = report.verdict
  BY <1>1, <1>4, VerdictIsMaximum
<1>6. /\ Gathered = Answers
      /\ \A a \in Answers : \E i \in DOMAIN fs : fs[i] = collector[a[1]].found[a[2]]
      /\ \A i \in DOMAIN fs : \E a \in Answers : fs[i] = collector[a[1]].found[a[2]]
  BY <1>2, AllGathered
<1> HIDE DEF fs
<1> QED
  BY <1>3, <1>4, <1>5, <1>6

\* Past the delivery, a sink the report calls delivered has its message.
LEMMA OkMeansReceived ==
  ASSUME OutcomeInv, NEW k \in K, pc \notin {"collect", "gather", "summarize", "deliver"}
  PROVE  /\ k \in DOMAIN report.sinks /\ report.sinks[k] = sender[k].phase
         /\ report.sinks[k] = "ok" => inbox[k] # {}
         /\ report.sinks[k] # "ok" => sender[k].phase = "failed"
<1>1. pc \in {"record", "append", "exiting", "exited"}
  BY DEF OutcomeInv, RunInv, TypeOK, Labels
<1>2. report.sinks = [j \in K |-> sender[j].phase] /\ AllSettled
  BY <1>1 DEF OutcomeInv, OutcomeHolds
<1>3. sender[k].phase \in {"ok", "failed"}
  BY <1>2 DEF AllSettled
<1>4. sender[k].phase = "ok" => inbox[k] # {}
  BY DEF OutcomeInv, SendersHold
<1> QED
  BY <1>2, <1>3, <1>4

\* A success or a status of a source is only ever counted past the delivery.
LEMMA CountedAtTheEnd ==
  ASSUME OutcomeInv, metrics.success \/ metrics.status # <<>>
  PROVE  pc \in {"append", "exiting", "exited"} /\ AllCounted
<1>1. ~NothingCounted
  BY DEF NothingCounted
<1> QED
  BY <1>1 DEF OutcomeInv, OutcomeHolds, RunInv, TypeOK, Labels

\* What the report says of a sink is how its sender ended.
LEMMA InvGivesTruthfulDelivery == OutcomeInv => DeliveryIsTruthful
<1> SUFFICES ASSUME OutcomeInv, NEW k \in K, pc \notin {"collect", "gather", "summarize"}
             PROVE  /\ report.sinks # <<>> /\ report.sinks[k] = "ok" => inbox[k] # {}
                    /\ metrics.success => inbox[k] # {}
  BY DEF DeliveryIsTruthful
<1>1. report.sinks # <<>> => pc # "deliver"
  BY DEF OutcomeInv, OutcomeHolds
<1>2. metrics.success => pc # "deliver" /\ \A j \in DOMAIN report.sinks : report.sinks[j] = "ok"
  BY CountedAtTheEnd DEF AllCounted, RunSucceeded
<1> QED
  BY <1>1, <1>2, OkMeansReceived

\* Copies in an inbox carry numbers of attempts, which are bounded.
LEMMA InvGivesAtMostAttempts == OutcomeInv => AtMostAttempts
<1> SUFFICES ASSUME OutcomeInv, NEW k \in K
             PROVE  Cardinality(inbox[k]) + Cardinality(wire[k]) <= Sinks[k].attempts
  BY DEF AtMostAttempts
<1> DEFINE received == {m.attempt : m \in inbox[k]}
           tries == sender[k].tries
           attempt == [m \in inbox[k] |-> m.attempt]
<1>1. tries \in Nat /\ Sinks[k].attempts \in Nat /\ tries <= Sinks[k].attempts
  BY ConfigTypes DEF OutcomeInv, SendersHold, RunInv, TypeOK, Sender
<1>2. wire[k] \subseteq 1 .. tries /\ received \subseteq 1 .. tries /\ wire[k] \cap received = {}
  BY DEF OutcomeInv, SendersHold
\* All copies have the same body, so the attempt tells them apart.
<1>3. \A m, l \in inbox[k] : m.attempt = l.attempt => m = l
  <2>1. \A m \in inbox[k] : m \in [attempt : Nat, body : Body] /\ m.body = sender[k].body
    BY DEF OutcomeInv, RunInv, TypeOK, MessagesHold
  <2> QED
    BY <2>1
<1>4. attempt \in Injection(inbox[k], received)
  BY <1>3 DEF Injection, IsInjective
<1> HIDE DEF tries, received, attempt
<1>5. IsFiniteSet(1 .. tries) /\ Cardinality(1 .. tries) = tries
  BY <1>1, FS_Interval
<1>6. /\ IsFiniteSet(wire[k]) /\ IsFiniteSet(received)
      /\ Cardinality(wire[k]) \in Nat /\ Cardinality(received) \in Nat
  BY <1>2, <1>5, FS_Subset, FS_CardinalityType
<1>7. Cardinality(wire[k]) + Cardinality(received) <= tries
  <2>1. IsFiniteSet(wire[k] \cup received) /\ Cardinality(wire[k] \cup received) <= tries
    BY <1>2, <1>5, FS_Subset
  <2>2. Cardinality(wire[k] \cup received)
          = Cardinality(wire[k]) + Cardinality(received) - Cardinality(wire[k] \cap received)
    BY <1>6, FS_Union
  <2>3. Cardinality(wire[k] \cap received) = 0
    BY <1>2, FS_EmptySet
  <2> QED
    BY <1>6, <2>1, <2>2, <2>3
<1>8. IsFiniteSet(inbox[k]) /\ Cardinality(inbox[k]) <= Cardinality(received)
  BY <1>4, <1>6, FS_Injection
<1>9. Cardinality(inbox[k]) \in Nat
  BY <1>8, FS_CardinalityType
<1> QED
  BY <1>1, <1>6, <1>7, <1>8, <1>9

\* What the report says of a source, once it is final.
LEMMA FinalStats ==
  ASSUME OutcomeInv, pc \notin {"collect", "gather"}
  PROVE  /\ DOMAIN report.stats = S
         /\ \A s \in S : /\ report.stats[s].source = Sources[s].name
                         /\ report.stats[s].err = QueryErrors(s)
                         /\ report.stats[s].findings > 0 <=> collector[s].found # <<>>
                         /\ report.stats[s].err # NoLoss <=> collector[s].lost # <<>>
<1>1. report.stats \in Seq(SourceStats) /\ collector \in [S -> Collector]
  BY DEF OutcomeInv, RunInv, TypeOK, ReportType
<1>2. DOMAIN report.stats = S
  BY <1>1, LenProperties, ConfigTypes DEF OutcomeInv, RunInv, SlotsHold
<1>3. ASSUME NEW s \in S
      PROVE  /\ report.stats[s].source = Sources[s].name
             /\ report.stats[s].err = QueryErrors(s)
             /\ report.stats[s].findings > 0 <=> collector[s].found # <<>>
             /\ report.stats[s].err # NoLoss <=> collector[s].lost # <<>>
  <2>1. report.stats[s] = [source |-> Sources[s].name, findings |-> Len(collector[s].found),
                           err |-> QueryErrors(s)]
    BY <1>2 DEF OutcomeInv, RunInv, SlotsHold, AllReturned, SlotStats
  <2>2. Len(collector[s].found) > 0 <=> collector[s].found # <<>>
    BY <1>1, EmptySeq DEF Collector
  <2>3. QueryErrors(s) # NoLoss <=> collector[s].lost # <<>>
    BY <1>1, QueryErrorsType
  <2> QED
    BY <2>1, <2>2, <2>3
<1> QED
  BY <1>2, <1>3

\* Metrics and messages are computed from the same report.
LEMMA InvGivesMatchingMetrics == OutcomeInv => MetricsMatchMessages
<1> SUFFICES ASSUME OutcomeInv, NEW k \in K, NEW s \in S, NEW m \in inbox[k],
                    metrics.status # <<>>
             PROVE  LET told == {p \in m.body.problems : p.source = Sources[s].name}
                    IN  /\ metrics.status[s] = "success" <=> told = {}
                        /\ metrics.status[s] = "partial" => \A p \in told : p.kind = "partial"
                        /\ metrics.status[s] = "error" => \A p \in told : p.kind = "failed"
  BY DEF MetricsMatchMessages
<1> DEFINE st == report.stats[s]
           told == {p \in m.body.problems : p.source = Sources[s].name}
           kind == IF Partial(st) THEN "partial" ELSE "failed"
<1>1. pc \in {"append", "exiting", "exited"} /\ AllCounted
  BY CountedAtTheEnd
<1>2. DOMAIN report.stats = S /\ \A t \in S : report.stats[t].source = Sources[t].name
  BY <1>1, FinalStats
<1>3. metrics.status[s] = Status(st)
  BY <1>1, <1>2 DEF AllCounted
<1>4. m.body.problems = SourceProblems(report.stats)
  BY Received
\* Names of sources are unique, so only the source itself is told of.
<1>5. \A t \in S : report.stats[t].source = Sources[s].name => t = s
  BY <1>2, SourcesAssumption DEF S
<1>6. \A p \in told : st.err # NoLoss /\ p.kind = kind
  BY <1>2, <1>4, <1>5 DEF SourceProblems
<1>7. st.err # NoLoss => told # {}
  <2> DEFINE p == [source |-> st.source, kind |-> kind, err |-> st.err]
  <2>1. st.err # NoLoss => p \in SourceProblems(report.stats)
    BY <1>2 DEF SourceProblems
  <2>2. p.source = Sources[s].name
    BY <1>2
  <2> HIDE DEF p
  <2> QED
    BY <1>4, <2>1, <2>2
<1> HIDE DEF told, st
<1>8. Status(st) = "success" <=> st.err = NoLoss
  BY DEF Status, Partial
<1>9. Status(st) = "partial" => kind = "partial"
  BY DEF Status
<1>10. Status(st) = "error" => kind = "failed"
  BY DEF Status
<1>11. st.err = NoLoss <=> told = {}
  BY <1>6, <1>7
<1>12. /\ metrics.status[s] = "success" <=> told = {}
       /\ metrics.status[s] = "partial" => \A p \in told : p.kind = "partial"
       /\ metrics.status[s] = "error" => \A p \in told : p.kind = "failed"
  BY <1>3, <1>6, <1>8, <1>9, <1>10, <1>11
<1> QED
  BY <1>12 DEF told

\* The exit code is computed from the report that the deliveries settled.
LEMMA InvGivesTruthfulExit == OutcomeInv => ExitTellsTheTruth
<1> SUFFICES ASSUME OutcomeInv, pc = "exited"
             PROVE  /\ exit = 0 => (\A k \in K : inbox[k] # {}) /\ (S # {} => SomethingAnswered)
                    /\ exit = 1 => (\E k \in K : sender[k].phase = "failed")
                                   \/ (S # {} /\ ~SomethingAnswered)
                    /\ exit = 2 <=> \/ \E a \in Answers : collector[a[1]].found[a[2]].count < 0
                                    \/ report.tokens < 0
  BY DEF ExitTellsTheTruth
<1>1. \/ exit = 2 /\ Negative /\ NothingCounted
      \/ exit = (IF metrics.success THEN 0 ELSE 1) /\ AllCounted
  BY DEF OutcomeInv, OutcomeHolds
<1>2. /\ DOMAIN report.stats = S
      /\ \A s \in S : /\ report.stats[s].err # NoLoss <=> collector[s].lost # <<>>
                      /\ report.stats[s].findings > 0 <=> collector[s].found # <<>>
  BY FinalStats
<1>3. Negative <=> \/ \E a \in Answers : collector[a[1]].found[a[2]].count < 0
                   \/ report.tokens < 0
  <2>1. /\ \A a \in Answers : \E i \in DOMAIN report.findings :
              report.findings[i] = collector[a[1]].found[a[2]]
        /\ \A i \in DOMAIN report.findings : \E a \in Answers :
              report.findings[i] = collector[a[1]].found[a[2]]
    BY AllGathered
  <2> QED
    BY <2>1 DEF Negative
\* A source that lost nothing answered something: it has a query.
<1>4. \A s \in S : collector[s].lost = <<>> => collector[s].found # <<>>
  <2> SUFFICES ASSUME NEW s \in S, collector[s].lost = <<>>, collector[s].found = <<>>
               PROVE  FALSE
    OBVIOUS
  <2>1. Resolved(s) = 0
    BY DEF Resolved
  <2>2. ~Pending(s)
    BY DEF OutcomeInv, RunInv, SlotsHold, AllReturned
  <2>3. Sources[s].queries \in Seq(Query) /\ Sources[s].queries # <<>>
    <3>1. Sources \in Seq([name : Nat, queries : Seq(Query) \ {<<>>}])
      BY SourcesAssumption
    <3>2. s \in 1 .. Len(Sources)
      BY ConfigTypes
    <3>3. Sources[s] \in [name : Nat, queries : Seq(Query) \ {<<>>}]
      BY <3>1, <3>2, ElementOfSeq
    <3> QED
      BY <3>3
  <2>4. Len(Sources[s].queries) > 0
    BY <2>3, EmptySeq, LenProperties
  <2> QED
    BY <2>1, <2>2, <2>4 DEF Pending
<1> DEFINE failed == {s \in S : report.stats[s].err # NoLoss /\ ~Partial(report.stats[s])}
<1>5. \A s \in S : s \in failed <=> collector[s].found = <<>>
  BY <1>2, <1>4 DEF Partial
<1>6. failed # S <=> SomethingAnswered
  BY <1>5 DEF SomethingAnswered
<1>7. report.stats = <<>> <=> S = {}
  <2>1. report.stats \in Seq(SourceStats)
    BY DEF OutcomeInv, RunInv, TypeOK, ReportType
  <2> QED
    BY <1>2, <2>1, EmptySeq
<1>8. AllCounted => (metrics.success <=> /\ \A k \in DOMAIN report.sinks : report.sinks[k] = "ok"
                                         /\ S = {} \/ SomethingAnswered)
  <2>1. RunSucceeded(report.stats, report.sinks) <=>
          /\ \A k \in DOMAIN report.sinks : report.sinks[k] = "ok"
          /\ S = {} \/ SomethingAnswered
    BY <1>2, <1>6, <1>7 DEF RunSucceeded
  <2> QED
    BY <2>1 DEF AllCounted
<1>9. /\ DOMAIN report.sinks = K
      /\ \A k \in K : /\ report.sinks[k] = "ok" => inbox[k] # {}
                      /\ report.sinks[k] # "ok" => sender[k].phase = "failed"
  BY OkMeansReceived DEF OutcomeInv, OutcomeHolds
<1>10. CASE exit = 2 /\ Negative /\ NothingCounted
  BY <1>3, <1>10
<1>11. CASE exit = (IF metrics.success THEN 0 ELSE 1) /\ AllCounted
  <2>1. exit # 2 /\ ~Negative
    BY <1>11 DEF AllCounted
  <2>2. CASE metrics.success
    BY <1>3, <1>8, <1>9, <1>11, <2>1, <2>2
  <2>3. CASE ~metrics.success
    BY <1>3, <1>8, <1>9, <1>11, <2>1, <2>3
  <2> QED
    BY <2>2, <2>3
<1> QED
  BY <1>1, <1>10, <1>11

\* The same of the state after a step.
LEMMA ExitIsTruthfulNext == OutcomeInv' => ExitTellsTheTruth'
BY InvGivesTruthfulExit, PTL

\* The verdict of every message is the worst severity of all the answers, and
\* the findings it lists are all the answers, worst first, for any sources,
\* counts and interleaving of the goroutines (collect, sortFindings, Verdict).
THEOREM MessagesAreWorstFirst == Spec => []WorstFirst
<1> QED
  BY OutcomeInvariant, InvGivesWorstFirst, PTL

\* A sink that the report or the metrics call delivered has the message, whatever
\* the network and the timers do (deliver, the Send methods, Record).
THEOREM DeliveryClaimsAreTrue == Spec => []DeliveryIsTruthful
<1> QED
  BY OutcomeInvariant, InvGivesTruthfulDelivery, PTL

\* No endpoint ever receives more copies than its sink has attempts, counting
\* those still on the wire (httpx.Do, smtpSend).
THEOREM CopiesAreBounded == Spec => []AtMostAttempts
<1> QED
  BY OutcomeInvariant, InvGivesAtMostAttempts, PTL

\* The status that the metrics give a source is what its readers were told of
\* it (Record, SourceProblems).
THEOREM MetricsAgreeWithMessages == Spec => []MetricsMatchMessages
<1> QED
  BY OutcomeInvariant, InvGivesMatchingMetrics, PTL

\* The exit code says what became of the run, end to end: 0 only when every
\* endpoint has the digest, 1 only for a failed sink or no answer at all, 2
\* exactly for a negative count of a query or of tokens (Record, RunSucceeded,
\* runCmd).
THEOREM ExitCodeIsTruthful == Spec => []ExitTellsTheTruth
<1> QED
  BY OutcomeInvariant, InvGivesTruthfulExit, PTL
=============================================================================
