---------------------------- MODULE CronJobProofs ---------------------------
(***************************************************************************)
(* Theorems about CronJob and Startup, for every set of configurations and *)
(* every number of retries of the job.                                     *)
(***************************************************************************)
EXTENDS CronJob, FunctionTheorems, FiniteSetTheorems, SequenceTheorems, TLAPS

-----------------------------------------------------------------------------
(* What Build admits.                                                       *)

\* A configuration that builds with the LLM builds without it, and one that
\* builds without it only has a wrong LLM (Build, the argument of --no-llm).
LEMMA BuildsWithAndWithoutLLM ==
  ASSUME NEW c, NEW noLLM
  PROVE  /\ Builds(c, FALSE) => Builds(c, noLLM)
         /\ Builds(c, noLLM) /\ ~Builds(c, FALSE) => noLLM /\ ~BuildsLLM(c)
BY Zenon DEF Builds

\* Every query that is admitted has a title.
LEMMA ResolvedQueriesHaveTitles ==
  ASSUME NEW q, Resolvable(q)
  PROVE  Resolve(q).title # ""
<1>1. Resolve(q).title = IF q.name # "" THEN q.name ELSE q.preset
  BY DEF Resolve
<1>2. q.preset # "" \/ q.name # ""
  BY Zenon DEF Resolvable
<1> QED
  BY <1>1, <1>2, Zenon

\* The timeout of a module is positive, whatever is configured.
LEMMA TimeoutsArePositive ==
  ASSUME NEW d
  PROVE  timeoutOr(d) > 0
BY DEF timeoutOr, defaultModuleTimeout

\* What Builds gives: unique names, known types with valid settings, a window,
\* and queries with a title.
LEMMA BuiltMeansAdmitted ==
  ASSUME NEW c, NEW noLLM, Builds(c, noLLM)
  PROVE  /\ \A i, j \in DOMAIN c.sources : c.sources[i].name = c.sources[j].name => i = j
         /\ \A k, l \in DOMAIN c.sinks : c.sinks[k].name = c.sinks[l].name => k = l
         /\ Effective(c).window > 0
         /\ \A i \in DOMAIN c.sources :
              LET m == c.sources[i]
              IN  /\ m.type \in SourceTypes /\ SettingsAreValid(c, m)
                  /\ m.queries # <<>> /\ timeoutOr(m.timeout) > 0
                  /\ \A n \in DOMAIN m.queries :
                       IF m.type = "elasticsearch" THEN Resolve(m.queries[n]).title # ""
                       ELSE m.queries[n].name # ""
         /\ \A k \in DOMAIN c.sinks : c.sinks[k].type \in SinkTypes /\ SettingsAreValid(c, c.sinks[k])
<1>1. Validate(c)
  BY Zenon DEF Builds, Load
<1>2. /\ \A i, j \in DOMAIN c.sources : c.sources[i].name = c.sources[j].name => i = j
      /\ \A k, l \in DOMAIN c.sinks : c.sinks[k].name = c.sinks[l].name => k = l
  BY <1>1, Zenon DEF Validate, validateModules
<1>3. Effective(c).window > 0
  BY <1>1, Zenon DEF Validate
<1>4. ASSUME NEW i \in DOMAIN c.sources
      PROVE  LET m == c.sources[i]
             IN  /\ m.type \in SourceTypes /\ SettingsAreValid(c, m)
                 /\ m.queries # <<>> /\ timeoutOr(m.timeout) > 0
                 /\ \A n \in DOMAIN m.queries :
                      IF m.type = "elasticsearch" THEN Resolve(m.queries[n]).title # ""
                      ELSE m.queries[n].name # ""
  <2> DEFINE m == c.sources[i]
  <2>1. BuildsSource(c, m)
    BY <1>4, Zenon DEF Builds
  <2>2. m.type \in SourceTypes /\ SettingsAreValid(c, m) /\ QueriesAreValid(m)
    BY <2>1, Zenon DEF BuildsSource
  <2> HIDE DEF m
  <2>3. m.queries # <<>>
    BY <2>2, Zenon DEF QueriesAreValid
  <2>4. ASSUME NEW n \in DOMAIN m.queries
        PROVE  IF m.type = "elasticsearch" THEN Resolve(m.queries[n]).title # ""
               ELSE m.queries[n].name # ""
    <3>1. IF m.type = "elasticsearch" THEN Resolvable(m.queries[n]) ELSE Askable(m.queries[n])
      BY <2>2, <2>4, Zenon DEF QueriesAreValid
    <3>2. Askable(m.queries[n]) => m.queries[n].name # ""
      BY Zenon DEF Askable
    <3> QED
      BY <3>1, <3>2, ResolvedQueriesHaveTitles, Zenon
  <2>5. timeoutOr(m.timeout) > 0
    BY TimeoutsArePositive, Zenon
  <2> QED
    BY <2>2, <2>3, <2>4, <2>5, Zenon DEF m
<1>5. \A k \in DOMAIN c.sinks : c.sinks[k].type \in SinkTypes /\ SettingsAreValid(c, c.sinks[k])
  BY Zenon DEF Builds, BuildsSink
<1> QED
  BY <1>2, <1>3, <1>4, <1>5, Zenon

-----------------------------------------------------------------------------
(* The success of a run.                                                    *)

\* A list has a finite domain, empty only if the list is.
LEMMA ListType ==
  ASSUME NEW s, IsList(s)
  PROVE  Len(s) \in Nat /\ DOMAIN s = 1 .. Len(s) /\ IsFiniteSet(DOMAIN s)
         /\ (s # <<>> => DOMAIN s # {})
<1>1. s \in Seq(Range(s))
  BY DEF IsList
<1> DEFINE R == Range(s)
<1>2. s \in Seq(R)
  BY <1>1
<1> HIDE DEF R
<1>3. Len(s) \in Nat /\ DOMAIN s = 1 .. Len(s)
  BY <1>2, LenProperties
<1>4. IsFiniteSet(DOMAIN s)
  BY <1>3, FS_Interval
<1>5. s # <<>> => Len(s) >= 1
  BY <1>2, EmptySeq
<1> QED
  BY <1>3, <1>4, <1>5

\* The queries of a source are a finite set, and its losses are among them.
LEMMA ConfigTypes ==
  ASSUME TypeOK, NEW i \in Sources
  PROVE  LET D == DOMAIN config.sources[i].queries
         IN  /\ IsFiniteSet(D)
             /\ config.sources[i].queries # <<>> => D # {}
             /\ lost[i] # NotReturned => Head(lost[i]) \in SUBSET D
<1>1. IsList(config.sources[i].queries)
  BY CronJobAssumption, Zenon DEF TypeOK, Sources
<1> DEFINE D == DOMAIN config.sources[i].queries
<1>2. lost[i] = NotReturned \/ \E l \in SUBSET D : lost[i] = <<l>>
  BY Zenon DEF TypeOK
<1> HIDE DEF D
<1>3. lost[i] # NotReturned => Head(lost[i]) \in SUBSET D
  BY <1>2
<1> QED
  BY <1>1, <1>3, ListType, Zenon DEF D

\* A source fails a run when it lost every query, and not before.
LEMMA FailedSource ==
  ASSUME TypeOK, NEW i \in Sources, lost[i] # NotReturned,
         config.sources[i].queries # <<>>
  PROVE  (Stats[i].err # NoLoss /\ ~Partial(Stats[i]))
         <=> Head(lost[i]) = DOMAIN config.sources[i].queries
<1> DEFINE D == DOMAIN config.sources[i].queries
           L == Head(lost[i])
           n == Cardinality(D \ L)
           c == Cardinality(L)
           e == IF L = {} THEN NoLoss
                ELSE [failed |-> c, total |-> Len(config.sources[i].queries), named |-> L]
<1>1. Stats[i] = [source |-> i, findings |-> n, err |-> e]
  BY DEF Stats
<1>2. IsFiniteSet(D) /\ D # {} /\ L \in SUBSET D
  BY ConfigTypes, Zenon
<1> HIDE DEF D, L
<1>3. IsFiniteSet(L) /\ IsFiniteSet(D \ L)
  <2>1. D \ L \in SUBSET D
    OBVIOUS
  <2> QED
    BY <1>2, <2>1, FS_Subset
<1>4. n \in Nat /\ (n = 0 <=> D \ L = {})
  BY <1>3, FS_CardinalityType, FS_EmptySet
<1>5. e = NoLoss <=> L = {}
  <2>1. c \in Nat /\ (c = 0 <=> L = {})
    BY <1>3, FS_CardinalityType, FS_EmptySet
  <2> HIDE DEF c
  <2>2. L # {} => e.failed = c
    OBVIOUS
  <2>3. NoLoss.failed = 0
    BY DEF NoLoss
  <2> QED
    BY <2>1, <2>2, <2>3
<1> HIDE DEF n, e
<1>6. Stats[i].findings = n /\ Stats[i].err = e
  BY <1>1
<1>7. (Stats[i].err # NoLoss /\ ~Partial(Stats[i])) <=> (e # NoLoss /\ ~(e # NoLoss /\ n > 0))
  BY <1>6, Zenon DEF Partial
<1>8. (e # NoLoss /\ ~(e # NoLoss /\ n > 0)) <=> (L # {} /\ D \ L = {})
  BY <1>4, <1>5
<1>9. (L # {} /\ D \ L = {}) <=> L = D
  BY <1>2
<1>10. (Stats[i].err # NoLoss /\ ~Partial(Stats[i])) <=> L = D
  BY <1>7, <1>8, <1>9, Zenon
<1> QED
  BY <1>10 DEF D, L

\* The success rule looks at findings and errors; what it tells is that every
\* sink has the digest and some source had something to say in it.
LEMMA SuccessIsServedAndDelivered ==
  ASSUME TypeOK, Builds(config, config.noLLM), \A i \in Sources : lost[i] # NotReturned
  PROVE  /\ RunSucceeded(Stats, result) <=> Outcome.served /\ Outcome.delivered
         /\ Outcome.delivered <=> \A k \in Sinks : result[k] = "ok"
         /\ Outcome.served <=>
              Sources = {} \/ \E i \in Sources : Head(lost[i]) # DOMAIN config.sources[i].queries
<1>1. \A i \in Sources : config.sources[i].queries # <<>>
  BY BuiltMeansAdmitted, Zenon DEF Sources
<1> DEFINE Dead(i) == Stats[i].err # NoLoss /\ ~Partial(Stats[i])
           Lost(i) == Head(lost[i]) = DOMAIN config.sources[i].queries
           failed == {i \in DOMAIN Stats : Dead(i)}
           ok == \A k \in Sinks : result[k] = "ok"
<1>2. \A i \in Sources : Dead(i) <=> Lost(i)
  BY <1>1, FailedSource
<1>3. DOMAIN Stats = Sources /\ DOMAIN result = Sinks
  BY DEF Stats, TypeOK
<1>4. Stats = <<>> <=> Sources = {}
  <2>1. Stats = <<>> => DOMAIN Stats = {}
    OBVIOUS
  <2>2. Sources = {} => Stats = <<>>
    BY DEF Stats
  <2> QED
    BY <1>3, <2>1, <2>2
<1>5. RunSucceeded(Stats, result) <=> ok /\ (Stats = <<>> \/ failed # DOMAIN Stats)
  BY <1>3, Zenon DEF RunSucceeded
<1> HIDE DEF Dead, Lost
<1>6. failed # DOMAIN Stats <=> \E i \in Sources : ~Lost(i)
  BY <1>2, <1>3
<1>7. Outcome.delivered <=> ok
  BY DEF Outcome
<1>8. Outcome.served <=> (Sources = {} \/ \E i \in Sources : lost[i] # NotReturned /\ ~Lost(i))
  BY DEF Outcome, Lost
<1>9. Outcome.served <=> (Sources = {} \/ \E i \in Sources : ~Lost(i))
  BY <1>8
<1> HIDE DEF failed, ok
<1>10. RunSucceeded(Stats, result) <=> Outcome.served /\ Outcome.delivered
  BY <1>4, <1>5, <1>6, <1>7, <1>9, Zenon
<1> QED
  BY <1>7, <1>9, <1>10 DEF ok, Lost

-----------------------------------------------------------------------------
(* The invariant.                                                           *)

\* A sink has one attempt or two.
LEMMA AttemptsAreOneOrTwo == \A type : SendAttempts(type) \in {1, 2}
BY DEF SendAttempts

\* A pod adds at most the attempts of one pod to what an endpoint took.
LEMMA OneMorePod ==
  \A n, t, x \in Nat, a \in {1, 2} : t <= a /\ x <= n * a + t => x <= (n + 1) * a
<1> TAKE n, t, x \in Nat, a \in {1, 2}
<1>1. CASE a = 1
  BY <1>1
<1>2. CASE a = 2
  BY <1>2
<1> QED
  BY <1>1, <1>2

\* The record of what check did has its type.
LEMMA CheckType ==
  \A next, failed \in Nat, exit \in {-1, 0, 1, 2} :
    LET c == [next |-> next, failed |-> failed, exit |-> exit]
    IN  /\ c \in [next : Nat, failed : Nat, exit : {-1, 0, 1, 2}]
        /\ c.next = next /\ c.failed = failed /\ c.exit = exit
<1> DEFINE E == {-1, 0, 1, 2}
<1> HIDE DEF E
<1>1. \A next, failed \in Nat, exit \in E :
        LET c == [next |-> next, failed |-> failed, exit |-> exit]
        IN  /\ c \in [next : Nat, failed : Nat, exit : E]
            /\ c.next = next /\ c.failed = failed /\ c.exit = exit
  OBVIOUS
<1> QED
  BY <1>1 DEF E

\* A job that no pod has run for has delivered nothing, and check has said
\* nothing.
LEMMA JobInit == Init => JobInv
<1> SUFFICES ASSUME Init PROVE JobInv
  OBVIOUS
<1>1. /\ config \in Configs /\ check = [next |-> 0, failed |-> 0, exit |-> -1]
      /\ job = "waiting" /\ late = FALSE /\ past = <<>>
      /\ stage = "none" /\ code = -1 /\ signalled = FALSE /\ negative = FALSE
      /\ lost = [i \in Sources |-> NotReturned]
      /\ tries = [k \in Sinks |-> 0] /\ result = [k \in Sinks |-> "open"]
      /\ pushed = [k \in Sinks |-> 0]
  BY DEF Init, NotChecked
<1>2. BackoffLimit \in Nat
  BY CronJobAssumption
<1>3. Len(past) = 0 /\ DOMAIN past = {}
  BY <1>1
<1>4. TypeOK
  <2>1. past \in Seq([code : {1, 2, Killed}, negative : BOOLEAN, served : BOOLEAN, delivered : BOOLEAN])
    BY <1>1, EmptySeq
  <2>2. tries \in [Sinks -> 0 .. 2] /\ result \in [Sinks -> {"open", "ok", "error"}] /\ pushed \in [Sinks -> Nat]
    BY <1>1
  <2>3. DOMAIN lost = Sources /\ \A i \in Sources : lost[i] = NotReturned
    BY <1>1
  <2>4. check \in [next : Nat, failed : Nat, exit : {-1, 0, 1, 2}]
    BY <1>1, CheckType
  <2>5. /\ config \in Configs /\ job \in {"waiting", "active", "complete", "failed"}
        /\ late \in BOOLEAN /\ signalled \in BOOLEAN /\ negative \in BOOLEAN
        /\ stage \in {"none", "loading", "collecting", "delivering", "exited"}
        /\ code \in {-1, 0, 1, 2, Killed}
    BY <1>1, Zenon
  <2>6. Len(past) <= BackoffLimit + 1
    BY <1>2, <1>3
  <2> QED
    BY <2>1, <2>2, <2>3, <2>4, <2>5, <2>6, Zenon DEF TypeOK
<1>5. AttemptsAddUp
  <2>1. ~(job = "failed" /\ code # 0)
    BY <1>1
  <2>2. ASSUME NEW k \in Sinks
        PROVE  /\ tries[k] <= IF job = "waiting" THEN 0 ELSE SendAttempts(config.sinks[k].type)
               /\ pushed[k] <= Len(past) * SendAttempts(config.sinks[k].type) + tries[k]
    <3> DEFINE a == SendAttempts(config.sinks[k].type)
    <3>1. a \in {1, 2} /\ tries[k] = 0 /\ pushed[k] = 0
      BY <1>1, AttemptsAreOneOrTwo
    <3> HIDE DEF a
    <3>2. tries[k] <= 0 /\ pushed[k] <= Len(past) * a + tries[k]
      BY <1>3, <3>1
    <3> QED
      BY <1>1, <3>2 DEF a
  <2> QED
    BY <1>2, <1>3, <2>1, <2>2 DEF AttemptsAddUp
<1>6. PodIsHonest
  BY <1>1, <1>3 DEF PodIsHonest
<1>7. CheckIsHonest
  BY <1>1 DEF CheckIsHonest
<1> QED
  BY <1>4, <1>5, <1>6, <1>7 DEF JobInv

\* Parts of the invariant that a step leaves alone.
LEMMA CheckStays == CheckIsHonest /\ UNCHANGED <<check, config>> => CheckIsHonest'
BY DEF CheckIsHonest

\* The bound on deliveries is kept by steps that send nothing and end no pod.
LEMMA AttemptsStay ==
  ASSUME AttemptsAddUp, UNCHANGED <<config, past, tries, pushed>>,
         (job' = "failed" /\ code' # 0) <=> (job = "failed" /\ code # 0),
         job' = "waiting" <=> job = "waiting"
  PROVE  AttemptsAddUp'
BY DEF AttemptsAddUp, Sinks

\* The claims about pods are kept by steps that change no pod.
LEMMA PodStays == PodIsHonest /\ UNCHANGED <<config, job, past, stage, code, run, pushed>> => PodIsHonest'
BY DEF PodIsHonest, run, Stats, Sources, Sinks, Reached

\* The operator's check changes nothing but what it knows itself.
LEMMA CheckKeeps ==
  ASSUME JobInv, CheckBegins \/ Probe \/ CheckEnds
  PROVE  JobInv'
<1>0. TypeOK /\ AttemptsAddUp /\ PodIsHonest /\ CheckIsHonest
  BY DEF JobInv
<1>1. UNCHANGED <<config, job, late, past, stage, code, signalled, run, pushed>>
  BY DEF CheckBegins, Probe, CheckEnds, pod
<1>2. UNCHANGED <<lost, negative, tries, result>>
  BY <1>1 DEF run
<1> DEFINE C == [next : Nat, failed : Nat, exit : {-1, 0, 1, 2}]
           full == Builds(config, FALSE)
<1>2a. check \in C /\ (check.next > 0 \/ check.exit \in {0, 1} => full) /\ (check.exit = 2 => ~full)
  BY <1>0 DEF TypeOK, CheckIsHonest
<1>3. /\ check' \in C
      /\ check'.next > 0 \/ check'.exit \in {0, 1} => full
      /\ check'.exit = 2 => ~full
  <2>1. CASE CheckBegins
    <3>1. /\ check = [next |-> 0, failed |-> 0, exit |-> -1]
          /\ check' = IF full THEN [check EXCEPT !.next = 1] ELSE [check EXCEPT !.exit = 2]
      BY <2>1 DEF CheckBegins, NotChecked
    <3> HIDE DEF full
    <3>2. \/ full /\ check' = [next |-> 1, failed |-> 0, exit |-> -1]
          \/ ~full /\ check' = [next |-> 0, failed |-> 0, exit |-> 2]
      BY <3>1
    <3>3. \/ full /\ check' \in C /\ check'.exit = -1
          \/ ~full /\ check' \in C /\ check'.next = 0 /\ check'.exit = 2
      BY <3>2, CheckType
    <3> HIDE DEF C
    <3> QED
      BY <3>3
  <2>2. CASE Probe
    <3>1. PICK fails \in {0, 1} : check' = [check EXCEPT !.next = @ + 1, !.failed = @ + fails]
      BY <2>2 DEF Probe
    <3>2. full
      BY <1>2a, <2>2 DEF Probe, Checking
    <3> DEFINE d == [check EXCEPT !.next = @ + 1]
    <3>3. check' = [d EXCEPT !.failed = @ + fails]
      BY <1>2a, <3>1
    <3>4. d \in C /\ d.exit = check.exit
      BY <1>2a
    <3> HIDE DEF d, full
    <3>5. check' \in C /\ check'.exit = check.exit
      BY <3>3, <3>4
    <3> HIDE DEF C
    <3> QED
      BY <1>2a, <3>2, <3>5
  <2>3. CASE CheckEnds
    <3>1. full
      BY <1>2a, <2>3 DEF CheckEnds, Checking
    <3>2. /\ check' \in C /\ check'.next = 0 /\ check'.exit \in {0, 1}
      BY <2>3 DEF CheckEnds, NotChecked
    <3> HIDE DEF C, full
    <3> QED
      BY <3>1, <3>2
  <2> QED
    BY <2>1, <2>2, <2>3
<1>4. TypeOK'
  BY <1>0, <1>1, <1>2, <1>3 DEF TypeOK, Sources, Sinks
<1>5. CheckIsHonest'
  BY <1>1, <1>3 DEF CheckIsHonest
<1>6. AttemptsAddUp' /\ PodIsHonest'
  BY <1>0, <1>1, <1>2, AttemptsStay, PodStays
<1> QED
  BY <1>4, <1>5, <1>6 DEF JobInv

\* A pod that loads its configuration keeps the invariant: it goes on only if
\* the configuration builds.
LEMMA LoadKeeps ==
  ASSUME JobInv, LoadConfig
  PROVE  JobInv'
<1>0. TypeOK /\ AttemptsAddUp /\ PodIsHonest /\ CheckIsHonest
  BY DEF JobInv
<1>1. /\ stage = "loading"
      /\ UNCHANGED <<config, check, job, late, past, signalled, lost, negative, tries, result, pushed>>
      /\ \/ Builds(config, config.noLLM) /\ stage' = "collecting" /\ code' = code
         \/ ~Builds(config, config.noLLM) /\ stage' = "exited" /\ code' = 2
  BY DEF LoadConfig, Exit, run
<1>2. code = -1 /\ job \notin {"waiting", "complete", "failed"}
  BY <1>0, <1>1 DEF PodIsHonest
<1>3. TypeOK'
  BY <1>0, <1>1 DEF TypeOK, Sources, Sinks
<1>4. AttemptsAddUp'
  BY <1>0, <1>1, <1>2, AttemptsStay
<1>5. PodIsHonest'
  BY <1>0, <1>1, <1>2 DEF PodIsHonest, Sources, Sinks, Reached
<1> QED
  BY <1>0, <1>1, <1>3, <1>4, <1>5, CheckStays DEF JobInv

\* A source that returns keeps the invariant: it has lost what it must have
\* lost.
LEMMA SourceKeeps ==
  ASSUME JobInv, SourceReturns
  PROVE  JobInv'
<1>0. TypeOK /\ AttemptsAddUp /\ PodIsHonest /\ CheckIsHonest
  BY DEF JobInv
<1>1. /\ stage = "collecting"
      /\ UNCHANGED <<config, check, job, late, past, stage, code, signalled, tries, result, pushed>>
  BY DEF SourceReturns
<1>2a. PICK i \in Sources : \E l \in SUBSET DOMAIN config.sources[i].queries, n \in BOOLEAN :
        /\ QueriesLostForCertain(config.sources[i]) \subseteq l
        /\ lost' = [lost EXCEPT ![i] = <<l>>] /\ negative' = (negative \/ n)
  BY DEF SourceReturns
<1>2. PICK l \in SUBSET DOMAIN config.sources[i].queries, n \in BOOLEAN :
        /\ QueriesLostForCertain(config.sources[i]) \subseteq l
        /\ lost' = [lost EXCEPT ![i] = <<l>>] /\ negative' = (negative \/ n)
  BY <1>2a
<1>3. /\ DOMAIN lost' = Sources /\ lost'[i] = <<l>> /\ Head(lost'[i]) = l
      /\ \A j \in Sources \ {i} : lost'[j] = lost[j]
  BY <1>0, <1>2 DEF TypeOK
<1>4. code = -1 /\ negative' \in BOOLEAN
  BY <1>0, <1>1, <1>2 DEF PodIsHonest, TypeOK
<1>5. TypeOK'
  <2>1. \A j \in Sources : lost'[j] = NotReturned
          \/ \E m \in SUBSET DOMAIN config.sources[j].queries : lost'[j] = <<m>>
    BY <1>0, <1>2, <1>3 DEF TypeOK
  <2> QED
    BY <1>0, <1>1, <1>3, <1>4, <2>1 DEF TypeOK, Sources, Sinks
<1>6. AttemptsAddUp'
  BY <1>0, <1>1, AttemptsStay
<1>7. PodIsHonest'
  <2>1. \A j \in Sources : lost'[j] # NotReturned =>
          QueriesLostForCertain(config.sources[j]) \subseteq Head(lost'[j])
    BY <1>0, <1>2, <1>3 DEF PodIsHonest
  <2> QED
    BY <1>0, <1>1, <1>4, <2>1 DEF PodIsHonest, Sources, Sinks, Reached
<1> QED
  BY <1>0, <1>1, <1>5, <1>6, <1>7, CheckStays DEF JobInv

\* The start of the delivery keeps the invariant: all sources have returned.
LEMMA DeliverKeeps ==
  ASSUME JobInv, Deliver
  PROVE  JobInv'
<1>0. TypeOK /\ AttemptsAddUp /\ PodIsHonest /\ CheckIsHonest
  BY DEF JobInv
<1>1. /\ stage = "collecting" /\ stage' = "delivering" /\ \A i \in Sources : lost[i] # NotReturned
      /\ UNCHANGED <<config, check, job, late, past, code, signalled, lost, tries, result, pushed>>
      /\ negative' \in BOOLEAN
  BY <1>0 DEF Deliver, TypeOK
<1>2. TypeOK'
  BY <1>0, <1>1 DEF TypeOK, Sources, Sinks
<1>3. AttemptsAddUp'
  BY <1>0, <1>1, AttemptsStay
<1>4. PodIsHonest'
  BY <1>0, <1>1 DEF PodIsHonest, Sources, Sinks, Reached
<1> QED
  BY <1>0, <1>1, <1>2, <1>3, <1>4, CheckStays DEF JobInv

\* An attempt to send keeps the invariant: it is one of the sink's attempts.
LEMMA SendKeeps ==
  ASSUME JobInv, Send
  PROVE  JobInv'
<1>0. TypeOK /\ AttemptsAddUp /\ PodIsHonest /\ CheckIsHonest
  BY DEF JobInv
<1>1. /\ stage = "delivering"
      /\ UNCHANGED <<config, check, job, late, past, stage, code, signalled, lost, negative>>
  BY DEF Send
<1>2. PICK k \in Sinks, taken \in BOOLEAN, verdict \in {"ok", "error", "open"} :
        /\ tries[k] < SendAttempts(config.sinks[k].type)
        /\ verdict = "ok" => taken
        /\ Unusable(config.sinks[k]) => ~taken /\ verdict = "error"
        /\ tries' = [tries EXCEPT ![k] = @ + 1]
        /\ result' = [result EXCEPT ![k] = verdict]
        /\ pushed' = IF taken THEN [pushed EXCEPT ![k] = @ + 1] ELSE pushed
  BY DEF Send
<1>3. /\ tries \in [Sinks -> 0 .. 2] /\ result \in [Sinks -> {"open", "ok", "error"}]
      /\ pushed \in [Sinks -> Nat] /\ Len(past) \in Nat
  BY <1>0, LenProperties DEF TypeOK
<1>4. /\ tries'[k] = tries[k] + 1 /\ result'[k] = verdict
      /\ pushed'[k] \in {pushed[k], pushed[k] + 1} /\ (taken => pushed'[k] = pushed[k] + 1)
      /\ \A j \in Sinks \ {k} : tries'[j] = tries[j] /\ result'[j] = result[j] /\ pushed'[j] = pushed[j]
  BY <1>2, <1>3
<1>5. tries[k] \in Nat /\ pushed[k] \in Nat /\ SendAttempts(config.sinks[k].type) \in {1, 2}
  BY <1>3, AttemptsAreOneOrTwo
<1>6. job \notin {"failed", "waiting"} /\ code = -1 /\ Builds(config, config.noLLM)
  BY <1>0, <1>1 DEF PodIsHonest
<1>7. TypeOK'
  <2>1. tries' \in [Sinks -> 0 .. 2]
    <3>1. tries[k] + 1 \in 0 .. 2
      BY <1>2, <1>5
    <3> QED
      BY <1>2, <1>3, <3>1
  <2>2. result' \in [Sinks -> {"open", "ok", "error"}] /\ pushed' \in [Sinks -> Nat]
    BY <1>2, <1>3
  <2> QED
    BY <1>0, <1>1, <2>1, <2>2 DEF TypeOK, Sources, Sinks
<1>8. AttemptsAddUp'
  <2>1. Len(past) <= BackoffLimit
    BY <1>0, <1>6 DEF AttemptsAddUp
  <2>2. ASSUME NEW j \in Sinks
        PROVE  /\ tries'[j] <= SendAttempts(config.sinks[j].type)
               /\ pushed'[j] <= Len(past) * SendAttempts(config.sinks[j].type) + tries'[j]
    <3> DEFINE a == SendAttempts(config.sinks[j].type)
               b == Len(past) * a
    <3>1. tries[j] <= a /\ pushed[j] <= b + tries[j]
      BY <1>0, <1>6 DEF AttemptsAddUp
    <3>2. a \in Nat
      BY AttemptsAreOneOrTwo
    <3>3. b \in Nat
      BY <1>3, <3>2
    <3>4. tries[j] \in Nat /\ pushed[j] \in Nat
      BY <1>3
    <3>5. j = k => tries[j] < a
      BY <1>2
    <3> HIDE DEF a, b
    <3>6. tries'[j] <= a /\ pushed'[j] <= b + tries'[j]
      BY <1>4, <3>1, <3>2, <3>3, <3>4, <3>5
    <3> QED
      BY <3>6 DEF a, b
  <2> QED
    BY <1>1, <1>6, <2>1, <2>2 DEF AttemptsAddUp, Sinks
<1>9. PodIsHonest'
  <2>1. \A j \in Sinks : result'[j] = "ok" => pushed'[j] > 0 /\ ~Unusable(config.sinks[j])
    BY <1>0, <1>2, <1>4, <1>5 DEF PodIsHonest
  <2> QED
    BY <1>0, <1>1, <1>6, <2>1 DEF PodIsHonest, Sources, Sinks, Reached
<1> QED
  BY <1>0, <1>1, <1>7, <1>8, <1>9, CheckStays DEF JobInv

\* A delivery that is cut off keeps the invariant: its sink is not reached.
LEMMA SendIsCancelledKeeps ==
  ASSUME JobInv, SendIsCancelled
  PROVE  JobInv'
<1>0. TypeOK /\ AttemptsAddUp /\ PodIsHonest /\ CheckIsHonest
  BY DEF JobInv
<1>1. /\ stage = "delivering"
      /\ UNCHANGED <<config, check, job, late, past, stage, code, signalled, lost, negative, tries, pushed>>
  BY DEF SendIsCancelled
<1>2. PICK k \in Sinks : result' = [result EXCEPT ![k] = "error"]
  BY DEF SendIsCancelled
<1>3. result \in [Sinks -> {"open", "ok", "error"}]
  BY <1>0 DEF TypeOK
<1>4. /\ result' \in [Sinks -> {"open", "ok", "error"}]
      /\ \A j \in Sinks : result'[j] = "ok" => result[j] = "ok"
  BY <1>2, <1>3
<1>5. code = -1
  BY <1>0, <1>1 DEF PodIsHonest
<1>6. TypeOK'
  BY <1>0, <1>1, <1>4 DEF TypeOK, Sources, Sinks
<1>7. AttemptsAddUp'
  BY <1>0, <1>1, AttemptsStay
<1>8. PodIsHonest'
  BY <1>0, <1>1, <1>4, <1>5 DEF PodIsHonest, Sources, Sinks, Reached
<1> QED
  BY <1>0, <1>1, <1>6, <1>7, <1>8, CheckStays DEF JobInv

\* A pod that exits keeps the invariant: its code is what RunSucceeded says of
\* what it reached.
LEMMA RecordKeeps ==
  ASSUME JobInv, RecordAndExit
  PROVE  JobInv'
<1>0. TypeOK /\ AttemptsAddUp /\ PodIsHonest /\ CheckIsHonest
  BY DEF JobInv
<1> DEFINE succeeded == RunSucceeded(Stats, result)
<1>1. /\ stage = "delivering" /\ stage' = "exited"
      /\ code' = IF negative THEN 2 ELSE IF succeeded THEN 0 ELSE 1
      /\ UNCHANGED <<config, check, job, late, past, signalled, lost, negative, tries, result, pushed>>
  BY DEF RecordAndExit, Exit, run
<1>2. /\ job \notin {"waiting", "complete", "failed"}
      /\ Builds(config, config.noLLM) /\ \A i \in Sources : lost[i] # NotReturned
  BY <1>0, <1>1 DEF PodIsHonest
<1>3. succeeded' = succeeded
  BY <1>1 DEF Stats, Sources
<1>4. /\ code' \in {0, 1, 2} /\ (code' \in {0, 1} => ~negative /\ (succeeded <=> code' = 0))
      /\ (code' = 2 => negative)
  <2> HIDE DEF succeeded
  <2> QED
    BY <1>1
<1>5. TypeOK'
  BY <1>0, <1>1, <1>4 DEF TypeOK, Sources, Sinks
<1>6. AttemptsAddUp'
  BY <1>0, <1>1, <1>2, AttemptsStay
<1>7. PodIsHonest'
  <2>1. code' # -1
    BY <1>4
  <2>2. code' \in {0, 1} => ~negative' /\ (RunSucceeded(Stats, result)' <=> code' = 0)
    BY <1>1, <1>3, <1>4
  <2> HIDE DEF succeeded
  <2> QED
    BY <1>0, <1>1, <1>2, <1>4, <2>1, <2>2 DEF PodIsHonest, Sources, Sinks, Reached
<1> QED
  BY <1>0, <1>1, <1>5, <1>6, <1>7, CheckStays DEF JobInv

\* A new pod starts with nothing done, after pods that are accounted for.
LEMMA NewPodKeeps ==
  ASSUME TypeOK, PodIsHonest, CheckIsHonest, NewPod, job' = "active",
         UNCHANGED <<config, check, late, pushed>>,
         past' \in Seq([code : {1, 2, Killed}, negative : BOOLEAN, served : BOOLEAN, delivered : BOOLEAN]),
         Len(past') <= BackoffLimit,
         \A k \in Sinks : pushed[k] <= Len(past') * SendAttempts(config.sinks[k].type),
         \A i \in DOMAIN past' : Reached(past'[i]) => ~Builds(config, config.noLLM)
  PROVE  JobInv'
<1>1. /\ stage' = "loading" /\ code' = -1 /\ signalled' = FALSE /\ negative' = FALSE
      /\ lost' = [i \in Sources |-> NotReturned]
      /\ tries' = [k \in Sinks |-> 0] /\ result' = [k \in Sinks |-> "open"]
  BY DEF NewPod
<1>2. Sources' = Sources /\ Sinks' = Sinks
  BY DEF Sources, Sinks
<1>3. Len(past') \in Nat
  BY LenProperties
<1>4. TypeOK'
  <2>1. tries' \in [Sinks -> 0 .. 2] /\ result' \in [Sinks -> {"open", "ok", "error"}]
    BY <1>1
  <2>2. DOMAIN lost' = Sources /\ \A i \in Sources : lost'[i] = NotReturned
    BY <1>1
  <2>3. Len(past') <= BackoffLimit + 1
    BY <1>3, CronJobAssumption
  <2>4. /\ stage' \in {"none", "loading", "collecting", "delivering", "exited"}
        /\ code' \in {-1, 0, 1, 2, Killed} /\ signalled' \in BOOLEAN /\ negative' \in BOOLEAN
    BY <1>1, Zenon
  <2> QED
    BY <1>2, <2>1, <2>2, <2>3, <2>4 DEF TypeOK
<1>5. AttemptsAddUp'
  <2>1. ASSUME NEW k \in Sinks
        PROVE  /\ tries'[k] <= SendAttempts(config.sinks[k].type)
               /\ pushed[k] <= Len(past') * SendAttempts(config.sinks[k].type) + tries'[k]
    <3> DEFINE a == SendAttempts(config.sinks[k].type)
               b == Len(past') * a
    <3>1. a \in {1, 2}
      BY AttemptsAreOneOrTwo
    <3>2. b \in Nat
      BY <1>3, <3>1
    <3>3. pushed[k] <= b /\ tries'[k] = 0 /\ pushed[k] \in Nat
      BY <1>1 DEF TypeOK
    <3> HIDE DEF b, a
    <3>4. tries'[k] <= a /\ pushed[k] <= b + tries'[k]
      BY <3>1, <3>2, <3>3
    <3> QED
      BY <3>4 DEF a, b
  <2> QED
    BY <1>1, <1>2, <2>1 DEF AttemptsAddUp
<1>6. PodIsHonest'
  <2>1. \A i \in Sources : lost'[i] = NotReturned
    BY <1>1
  <2>2. \A k \in Sinks : result'[k] = "open"
    BY <1>1
  <2>3. (\A i \in DOMAIN past : Reached(past[i]) => ~Builds(config, config.noLLM))'
    BY DEF Reached
  <2> QED
    BY <1>1, <1>2, <2>1, <2>2, <2>3 DEF PodIsHonest
<1> QED
  BY <1>4, <1>5, <1>6, CheckStays DEF JobInv

\* The job starts its first pod.
LEMMA StartKeeps ==
  ASSUME JobInv, StartJob
  PROVE  JobInv'
<1>0. TypeOK /\ AttemptsAddUp /\ PodIsHonest /\ CheckIsHonest
  BY DEF JobInv
<1>1. /\ job = "waiting" /\ job' = "active"
      /\ stage' = "loading" /\ code' = -1 /\ signalled' = FALSE /\ negative' = FALSE
      /\ lost' = [i \in Sources |-> NotReturned]
      /\ tries' = [k \in Sinks |-> 0] /\ result' = [k \in Sinks |-> "open"]
      /\ UNCHANGED <<config, check, late, past, pushed>>
  BY DEF StartJob, NewPod
<1>2. stage = "none" /\ code = -1
  BY <1>0, <1>1 DEF PodIsHonest
<1>3. Len(past) <= BackoffLimit /\ past \in Seq([code : {1, 2, Killed}, negative : BOOLEAN, served : BOOLEAN, delivered : BOOLEAN])
  BY <1>0, <1>1 DEF AttemptsAddUp, TypeOK
<1>4. ASSUME NEW k \in Sinks
      PROVE  pushed[k] <= Len(past) * SendAttempts(config.sinks[k].type)
  <2> DEFINE b == Len(past) * SendAttempts(config.sinks[k].type)
  <2>0. tries[k] \in Nat /\ pushed[k] \in Nat
    BY <1>0 DEF TypeOK
  <2>1. tries[k] <= 0 /\ pushed[k] <= b + tries[k] /\ tries[k] \in Nat /\ pushed[k] \in Nat
    BY <1>0, <1>1, <2>0 DEF AttemptsAddUp
  <2>2. b \in Nat
    BY <1>3, AttemptsAreOneOrTwo, LenProperties
  <2> HIDE DEF b
  <2>3. pushed[k] <= b
    BY <2>1, <2>2
  <2> QED
    BY <2>3 DEF b
<1>5. \A i \in DOMAIN past : Reached(past[i]) => ~Builds(config, config.noLLM)
  BY <1>0 DEF PodIsHonest
<1>6. NewPod
  BY DEF StartJob
<1> QED
  BY <1>0, <1>1, <1>3, <1>4, <1>5, <1>6, NewPodKeeps

\* A pod that is killed keeps the invariant: it leaves what was sent and no
\* code of its own.
LEMMA KillKeeps ==
  ASSUME JobInv, Kill
  PROVE  JobInv'
<1>0. TypeOK /\ AttemptsAddUp /\ PodIsHonest /\ CheckIsHonest
  BY DEF JobInv
<1>1. /\ stage \in {"loading", "collecting", "delivering"} /\ stage' = "exited" /\ code' = 137
      /\ UNCHANGED <<config, check, job, late, past, signalled, lost, negative, tries, result, pushed>>
  BY DEF Kill, Running, Exit, Killed, run
<1>2. job \notin {"waiting", "complete", "failed"}
  BY <1>0, <1>1 DEF PodIsHonest
<1>3. TypeOK'
  BY <1>0, <1>1 DEF TypeOK, Sources, Sinks, Killed
<1>4. AttemptsAddUp'
  BY <1>0, <1>1, <1>2, AttemptsStay
<1>5. PodIsHonest'
  BY <1>0, <1>1, <1>2 DEF PodIsHonest, Sources, Sinks, Reached
<1> QED
  BY <1>0, <1>1, <1>3, <1>4, <1>5, CheckStays DEF JobInv

\* The deadline of the job keeps the invariant: a pod that has not loaded its
\* configuration dies, one that runs is only signalled.
LEMMA DeadlineKeeps ==
  ASSUME JobInv, Deadline
  PROVE  JobInv'
<1>0. TypeOK /\ AttemptsAddUp /\ PodIsHonest /\ CheckIsHonest
  BY DEF JobInv
<1>1. /\ job = "active" /\ late' = TRUE
      /\ UNCHANGED <<config, check, job, past, lost, negative, tries, result, pushed>>
      /\ \/ stage = "loading" /\ stage' = "exited" /\ code' = 137 /\ signalled' = signalled
         \/ UNCHANGED <<stage, code>> /\ signalled' = Running
  BY DEF Deadline, Exit, Killed, run
<1>2. TypeOK'
  <2>a. signalled \in BOOLEAN
    BY <1>0 DEF TypeOK
  <2>b. Running \in BOOLEAN
    BY DEF Running
  <2>1. signalled' \in BOOLEAN
    BY <1>1, <2>a, <2>b, Zenon
  <2>2. stage' \in {"none", "loading", "collecting", "delivering", "exited"} /\ code' \in {-1, 0, 1, 2, Killed}
    BY <1>0, <1>1 DEF TypeOK, Killed
  <2> QED
    BY <1>0, <1>1, <2>1, <2>2 DEF TypeOK, Sources, Sinks
<1>3. AttemptsAddUp'
  BY <1>0, <1>1, AttemptsStay
<1>4. PodIsHonest'
  <2>1. CASE UNCHANGED <<stage, code>>
    BY <1>0, <1>1, <2>1, PodStays DEF run
  <2>2. CASE stage = "loading" /\ stage' = "exited" /\ code' = 137
    BY <1>0, <1>1, <2>2 DEF PodIsHonest, Sources, Sinks, Reached
  <2> QED
    BY <1>1, <2>1, <2>2
<1> QED
  BY <1>0, <1>1, <1>2, <1>3, <1>4, CheckStays DEF JobInv

\* What a pod that failed leaves behind.
LEMMA FailedPod ==
  ASSUME JobInv, stage = "exited", code # 0
  PROVE  /\ Outcome \in [code : {1, 2, Killed}, negative : BOOLEAN, served : BOOLEAN, delivered : BOOLEAN]
         /\ Reached(Outcome) => ~Builds(config, config.noLLM)
<1>0. TypeOK /\ PodIsHonest
  BY DEF JobInv
<1>1. code \in {1, 2, Killed} /\ negative \in BOOLEAN
  BY <1>0 DEF TypeOK, PodIsHonest
<1>2. Outcome.served \in BOOLEAN /\ Outcome.delivered \in BOOLEAN
  BY DEF Outcome
<1>3. /\ Outcome = [code |-> code, negative |-> negative, served |-> Outcome.served,
                    delivered |-> Outcome.delivered]
      /\ Outcome.code = code /\ Outcome.negative = negative
  BY DEF Outcome
<1>4. Outcome \in [code : {1, 2, Killed}, negative : BOOLEAN, served : BOOLEAN, delivered : BOOLEAN]
  <2> DEFINE o == Outcome
  <2> HIDE DEF o
  <2>1. o = [code |-> code, negative |-> negative, served |-> o.served, delivered |-> o.delivered]
    BY <1>3 DEF o
  <2>2. o.served \in BOOLEAN /\ o.delivered \in BOOLEAN
    BY <1>2 DEF o
  <2>3. o \in [code : {1, 2, Killed}, negative : BOOLEAN, served : BOOLEAN, delivered : BOOLEAN]
    BY <1>1, <2>1, <2>2
  <2> QED
    BY <2>3 DEF o
<1>5. ASSUME Reached(Outcome), Builds(config, config.noLLM) PROVE FALSE
  <2>1. Outcome.served /\ Outcome.delivered /\ code # Killed /\ ~negative
    BY <1>3, <1>5 DEF Reached
  <2>2. code # 2
    BY <1>0, <1>5, <2>1 DEF PodIsHonest
  <2>3. code = 1
    BY <1>1, <2>1, <2>2
  <2>4. (\A i \in Sources : lost[i] # NotReturned) /\ ~RunSucceeded(Stats, result)
    BY <1>0, <2>3 DEF PodIsHonest
  <2> QED
    BY <1>0, <1>5, <2>1, <2>4, SuccessIsServedAndDelivered
<1> QED
  BY <1>4, <1>5

\* The end of a pod keeps the invariant: its attempts are counted to the past
\* ones, and the job completes only with exit code 0.
LEMMA PodEndsKeeps ==
  ASSUME JobInv, PodEnds
  PROVE  JobInv'
<1>0. TypeOK /\ AttemptsAddUp /\ PodIsHonest /\ CheckIsHonest
  BY DEF JobInv
<1>1. stage = "exited" /\ job = "active" /\ UNCHANGED <<config, check, late, pushed>>
  BY DEF PodEnds
<1> DEFINE Pod == [code : {1, 2, Killed}, negative : BOOLEAN, served : BOOLEAN, delivered : BOOLEAN]
<1>2. past \in Seq(Pod) /\ Len(past) \in Nat /\ Len(past) <= BackoffLimit
  <2>1. past \in Seq(Pod)
    BY <1>0 DEF TypeOK
  <2>2. Len(past) \in Nat
    BY <2>1, LenProperties
  <2> QED
    BY <1>0, <1>1, <2>1, <2>2 DEF AttemptsAddUp
<1>3. CASE code = 0
  <2>1. past' = past /\ UNCHANGED <<stage, code, signalled, lost, negative, tries, result>>
        /\ job' \in {"failed", "complete"}
    BY <1>3 DEF PodEnds, pod, run
  <2>2. TypeOK'
    BY <1>0, <1>1, <2>1 DEF TypeOK, Sources, Sinks
  <2>3. AttemptsAddUp'
    BY <1>0, <1>1, <1>3, <2>1, AttemptsStay
  <2>4. PodIsHonest'
    <3>1. Stats' = Stats
      BY <1>1, <2>1 DEF Stats, Sources
    <3>2. RunSucceeded(Stats, result)' <=> RunSucceeded(Stats, result)
      BY <2>1, <3>1
    <3> QED
      BY <1>0, <1>1, <1>3, <2>1, <3>2 DEF PodIsHonest, Sources, Sinks, Reached
  <2> QED
    BY <1>0, <1>1, <2>2, <2>3, <2>4, CheckStays DEF JobInv
<1>4. CASE code # 0
  <2>1. Outcome \in Pod /\ (Reached(Outcome) => ~Builds(config, config.noLLM))
    BY <1>1, <1>4, FailedPod
  <2>2. past' = Append(past, Outcome)
    BY <1>4 DEF PodEnds
  <2>3. /\ past' \in Seq(Pod) /\ Len(past') = Len(past) + 1 /\ DOMAIN past' = 1 .. Len(past) + 1
        /\ DOMAIN past = 1 .. Len(past) /\ past'[Len(past) + 1] = Outcome
        /\ \A i \in 1 .. Len(past) : past'[i] = past[i]
    <3> DEFINE o == Outcome
    <3> HIDE DEF Pod, o
    <3>1. past \in Seq(Pod) /\ o \in Pod /\ past' = Append(past, o)
      BY <1>2, <2>1, <2>2 DEF o
    <3>2. /\ Append(past, o) \in Seq(Pod) /\ Len(Append(past, o)) = Len(past) + 1
          /\ Append(past, o)[Len(past) + 1] = o
          /\ \A i \in 1 .. Len(past) : Append(past, o)[i] = past[i]
      BY <3>1, AppendProperties
    <3>3. DOMAIN past = 1 .. Len(past) /\ DOMAIN Append(past, o) = 1 .. Len(Append(past, o))
      BY <3>1, <3>2, LenProperties
    <3> QED
      BY <3>1, <3>2, <3>3 DEF o
  <2>4. \A i \in DOMAIN past' : Reached(past'[i]) => ~Builds(config, config.noLLM)
    <3>1. \A i \in DOMAIN past : Reached(past[i]) => ~Builds(config, config.noLLM)
      BY <1>0 DEF PodIsHonest
    <3>2. \A i \in DOMAIN past' : i \in DOMAIN past \/ i = Len(past) + 1
      BY <1>2, <2>3
    <3> QED
      BY <2>1, <2>3, <3>1, <3>2
  <2>5. ASSUME NEW k \in Sinks
        PROVE  /\ tries[k] <= SendAttempts(config.sinks[k].type)
               /\ pushed[k] <= Len(past') * SendAttempts(config.sinks[k].type)
    <3> DEFINE a == SendAttempts(config.sinks[k].type)
    <3>0. tries[k] \in Nat /\ pushed[k] \in Nat
      BY <1>0 DEF TypeOK
    <3>1. tries[k] <= a /\ pushed[k] <= Len(past) * a + tries[k]
      BY <1>0, <1>1 DEF AttemptsAddUp
    <3>2. a \in {1, 2}
      BY AttemptsAreOneOrTwo
    <3> HIDE DEF a
    <3>3. pushed[k] <= (Len(past) + 1) * a
      <4> DEFINE n == Len(past)
      <4>1. n \in Nat
        BY <1>2
      <4> HIDE DEF n
      <4>2. pushed[k] <= n * a + tries[k]
        BY <3>1 DEF n
      <4>3. pushed[k] <= (n + 1) * a
        BY <3>0, <3>1, <3>2, <4>1, <4>2, OneMorePod
      <4> QED
        BY <4>3 DEF n
    <3> QED
      BY <2>3, <3>1, <3>3 DEF a
  <2>6. CASE late \/ TriedEnough
    <3>1. job' = "failed" /\ UNCHANGED <<stage, code, signalled, lost, negative, tries, result>>
      BY <1>4, <2>6 DEF PodEnds, pod, run
    <3>2. TypeOK'
      <4>1. Len(past') <= BackoffLimit + 1
        BY <1>2, <2>3, CronJobAssumption
      <4> QED
        BY <1>0, <1>1, <2>3, <3>1, <4>1 DEF TypeOK, Sources, Sinks
    <3>3. AttemptsAddUp'
      <4>1. Len(past') <= BackoffLimit + 1
        BY <1>2, <2>3, CronJobAssumption
      <4>2. ASSUME NEW k \in Sinks
            PROVE  /\ tries[k] <= SendAttempts(config.sinks[k].type)
                   /\ pushed[k] <= Len(past') * SendAttempts(config.sinks[k].type) + 0
        <5> DEFINE b == Len(past') * SendAttempts(config.sinks[k].type)
        <5>1. b \in Nat
          BY <1>2, <2>3, AttemptsAreOneOrTwo
        <5>2. tries[k] <= SendAttempts(config.sinks[k].type) /\ pushed[k] <= b
          BY <2>5
        <5> HIDE DEF b
        <5>3. pushed[k] <= b + 0
          BY <5>1, <5>2
        <5> QED
          BY <5>2, <5>3 DEF b
      <4> QED
        BY <1>1, <1>4, <3>1, <4>1, <4>2 DEF AttemptsAddUp, Sinks
    <3>4. PodIsHonest'
      <4>1. Stats' = Stats
        BY <1>1, <3>1 DEF Stats, Sources
      <4>2. RunSucceeded(Stats, result)' <=> RunSucceeded(Stats, result)
        BY <3>1, <4>1
      <4>3. (\A i \in DOMAIN past : Reached(past[i]) => ~Builds(config, config.noLLM))'
        BY <1>1, <2>4 DEF Reached
      <4> QED
        BY <1>0, <1>1, <1>4, <3>1, <4>2, <4>3 DEF PodIsHonest, Sources, Sinks
    <3> QED
      BY <1>0, <1>1, <3>2, <3>3, <3>4, CheckStays DEF JobInv
  <2>7. CASE ~late /\ ~TriedEnough
    <3>1. NewPod /\ job' = "active"
      BY <1>1, <1>4, <2>7 DEF PodEnds
    <3>2. Len(past') <= BackoffLimit
      <4>1. BackoffLimit \in Nat
        BY CronJobAssumption
      <4> QED
        BY <1>2, <2>3, <2>7, <4>1 DEF TriedEnough
    <3> QED
      BY <1>0, <1>1, <2>3, <2>4, <2>5, <3>1, <3>2, NewPodKeeps
  <2> QED
    BY <2>6, <2>7
<1> QED
  BY <1>3, <1>4

\* Every step of the operator, of a pod and of Kubernetes keeps the invariant.
LEMMA JobNext ==
  ASSUME JobInv, [Next]_vars
  PROVE  JobInv'
<1>1. CASE CheckBegins \/ Probe \/ CheckEnds
  BY <1>1, CheckKeeps
<1>2. CASE LoadConfig
  BY <1>2, LoadKeeps
<1>3. CASE SourceReturns
  BY <1>3, SourceKeeps
<1>4. CASE Deliver
  BY <1>4, DeliverKeeps
<1>5. CASE Send
  BY <1>5, SendKeeps
<1>6. CASE SendIsCancelled
  BY <1>6, SendIsCancelledKeeps
<1>7. CASE RecordAndExit
  BY <1>7, RecordKeeps
<1>8. CASE StartJob
  BY <1>8, StartKeeps
<1>9. CASE Deadline
  BY <1>9, DeadlineKeeps
<1>10. CASE Kill
  BY <1>10, KillKeeps
<1>11. CASE PodEnds
  BY <1>11, PodEndsKeeps
<1>12. CASE UNCHANGED vars
  <2>0. TypeOK /\ AttemptsAddUp /\ PodIsHonest /\ CheckIsHonest
    BY DEF JobInv
  <2>1. /\ UNCHANGED <<config, check, job, late, past, stage, code, signalled, lost, negative, tries, result, pushed>>
        /\ UNCHANGED run
    BY <1>12 DEF vars, pod, run
  <2>2. TypeOK'
    BY <2>0, <2>1 DEF TypeOK, Sources, Sinks
  <2> QED
    BY <2>0, <2>1, <2>2, AttemptsStay, PodStays, CheckStays DEF JobInv
<1> QED
  BY <1>1, <1>2, <1>3, <1>4, <1>5, <1>6, <1>7, <1>8, <1>9, <1>10, <1>11, <1>12, Zenon DEF Next, Over

\* Whatever the configurations and the number of retries, each pod is honest
\* about its configuration, its losses and its deliveries, and its attempts add
\* up (checkCmd, runCmd, cronjob.yaml).
THEOREM JobInvariant == Spec => []JobInv
<1>1. Init => JobInv
  BY JobInit
<1>2. JobInv /\ [Next]_vars => JobInv'
  BY JobNext
<1> QED
  BY <1>1, <1>2, PTL DEF Spec

-----------------------------------------------------------------------------
(* What follows from it.                                                    *)

\* No pod collects with a configuration that a run could not be told of.
THEOREM CollectingPodsAreConfigured == Spec => []AdmittedConfigsRun
<1>1. JobInv => AdmittedConfigsRun
  <2> SUFFICES ASSUME JobInv, stage \in {"collecting", "delivering"}
               PROVE  AdmittedConfigsRun
    BY DEF AdmittedConfigsRun
  <2>1. Builds(config, config.noLLM)
    BY DEF JobInv, PodIsHonest
  <2> QED
    BY <2>1, BuiltMeansAdmitted, Zenon DEF AdmittedConfigsRun, Sources, Sinks
<1> QED
  BY <1>1, JobInvariant, PTL

\* A complete job delivered a digest that some source contributed to.
THEOREM CompleteJobsDelivered == Spec => []CompleteMeansDelivered
<1>1. JobInv => CompleteMeansDelivered
  <2> SUFFICES ASSUME JobInv, job = "complete"
               PROVE  CompleteMeansDelivered
    BY DEF CompleteMeansDelivered
  <2>0. TypeOK /\ PodIsHonest
    BY DEF JobInv
  <2>1. /\ Builds(config, config.noLLM) /\ \A i \in Sources : lost[i] # NotReturned
        /\ RunSucceeded(Stats, result)
    BY <2>0 DEF PodIsHonest
  <2>2. /\ \A k \in Sinks : result[k] = "ok"
        /\ Sources # {} => \E i \in Sources : Head(lost[i]) # DOMAIN config.sources[i].queries
    BY <2>0, <2>1, SuccessIsServedAndDelivered
  <2>3. \A k \in Sinks : pushed[k] > 0 /\ ~Unusable(config.sinks[k])
    BY <2>0, <2>2 DEF PodIsHonest
  <2>4. ASSUME NEW i \in Sources, Head(lost[i]) # DOMAIN config.sources[i].queries
        PROVE  ~Unusable(config.sources[i])
    <3>1. PICK l \in SUBSET DOMAIN config.sources[i].queries : lost[i] = <<l>>
      BY <2>0, <2>1 DEF TypeOK
    <3>2. Head(lost[i]) \subseteq DOMAIN config.sources[i].queries
      BY <3>1
    <3>3. QueriesLostForCertain(config.sources[i]) \subseteq Head(lost[i])
      BY <2>0, <2>1 DEF PodIsHonest
    <3> QED
      BY <2>4, <3>2, <3>3 DEF QueriesLostForCertain
  <2> QED
    BY <2>2, <2>3, <2>4 DEF CompleteMeansDelivered
<1> QED
  BY <1>1, JobInvariant, PTL

\* No endpoint takes more digests than the pods of a job may send, and none
\* takes any from a configuration with an invalid module.
THEOREM EndpointsAreNotFlooded == Spec => []PushesAreBounded
<1>1. JobInv => PushesAreBounded
  <2> SUFFICES ASSUME JobInv, NEW k \in Sinks, pushed[k] > 0
               PROVE  /\ pushed[k] <= (BackoffLimit + 1) * SendAttempts(config.sinks[k].type)
                      /\ \A m \in {config.sources[i] : i \in Sources} \cup {config.sinks[l] : l \in Sinks} :
                           /\ m.type \in SourceTypes \cup SinkTypes
                           /\ SettingsAreValid(config, m)
    BY DEF PushesAreBounded, SendAttempts, SettingsAreValid
  <2>0. TypeOK /\ AttemptsAddUp /\ PodIsHonest
    BY DEF JobInv
  <2>1. Builds(config, config.noLLM)
    BY <2>0 DEF PodIsHonest
  <2>2. /\ \A i \in Sources : config.sources[i].type \in SourceTypes /\ SettingsAreValid(config, config.sources[i])
        /\ \A l \in Sinks : config.sinks[l].type \in SinkTypes /\ SettingsAreValid(config, config.sinks[l])
    BY <2>1, BuiltMeansAdmitted, Zenon DEF Sources, Sinks
  <2>3. pushed[k] <= (BackoffLimit + 1) * SendAttempts(config.sinks[k].type)
    <3> DEFINE a == SendAttempts(config.sinks[k].type)
               n == Len(past)
               counted == job = "failed" /\ code # 0
    <3>1. n \in Nat /\ BackoffLimit \in Nat /\ tries[k] \in Nat /\ pushed[k] \in Nat
      BY <2>0, LenProperties, CronJobAssumption DEF TypeOK
    <3>2. a \in {1, 2}
      BY AttemptsAreOneOrTwo
    <3>3. /\ n <= IF counted THEN BackoffLimit + 1 ELSE BackoffLimit
          /\ tries[k] <= IF job = "waiting" THEN 0 ELSE a
          /\ pushed[k] <= n * a + (IF counted THEN 0 ELSE tries[k])
      BY <2>0 DEF AttemptsAddUp
    <3> HIDE DEF a, n, counted
    <3>4. CASE a = 1
      BY <3>1, <3>3, <3>4 DEF a
    <3>5. CASE a = 2
      BY <3>1, <3>3, <3>5 DEF a
    <3> QED
      BY <3>2, <3>4, <3>5
  <2> QED
    BY <2>2, <2>3
<1> QED
  BY <1>1, JobInvariant, PTL

\* What check says of the configuration holds for the pods that come after it.
THEOREM CheckIsARehearsal == Spec => []CheckTellsTheConfig
<1>1. JobInv => CheckTellsTheConfig
  <2> SUFFICES ASSUME JobInv
               PROVE  CheckTellsTheConfig
    OBVIOUS
  <2> DEFINE full == Builds(config, FALSE)
             built == Builds(config, config.noLLM)
             broken == config.noLLM /\ ~BuildsLLM(config)
  <2>1. (full => built) /\ (built /\ ~full => broken)
    BY BuildsWithAndWithoutLLM, Zenon
  <2>2. /\ check.exit \in {0, 1} => full
        /\ check.exit = 2 => ~full
    BY DEF JobInv, CheckIsHonest
  <2>3. /\ stage \in {"collecting", "delivering"} => built
        /\ code = 2 => negative \/ ~built
    BY DEF JobInv, PodIsHonest
  <2> HIDE DEF full, built
  <2>4. /\ check.exit \in {0, 1} /\ stage = "exited" /\ code = 2 => negative
        /\ check.exit = 2 /\ stage \in {"collecting", "delivering"} => broken
    BY <2>1, <2>2, <2>3, Zenon
  <2> QED
    BY <2>4, Zenon DEF CheckTellsTheConfig
<1> QED
  BY <1>1, JobInvariant, PTL

\* Only a pod that was killed, or panicked, is followed by one that pushes the
\* same window to sinks that all took it already (Record).
THEOREM DeliveredWindowsStayDelivered == Spec => NotPushedAgain
<1>1. JobInv /\ [Next]_vars => [pushed' # pushed => ~\E i \in DOMAIN past : Reached(past[i])]_vars
  <2> SUFFICES ASSUME JobInv, [Next]_vars, pushed' # pushed
               PROVE  ~\E i \in DOMAIN past : Reached(past[i])
    OBVIOUS
  <2>1. Send
    BY Zenon DEF Next, Over, vars, CheckBegins, Probe, CheckEnds, LoadConfig, SourceReturns, Deliver,
       SendIsCancelled, RecordAndExit, StartJob, Deadline, Kill, PodEnds
  <2>2. Builds(config, config.noLLM)
    BY <2>1 DEF JobInv, PodIsHonest, Send
  <2> QED
    BY <2>2 DEF JobInv, PodIsHonest
<1> QED
  BY <1>1, JobInvariant, PTL DEF Spec, NotPushedAgain
=============================================================================
