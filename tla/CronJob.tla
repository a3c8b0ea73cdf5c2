------------------------------ MODULE CronJob -------------------------------
(***************************************************************************)
(* The one-shot deployment (deploy/cronjob.yaml): a job of Kubernetes that *)
(* runs pods with `digestron run` until one exits with 0, and, before it,  *)
(* an operator who may try the configuration with `digestron check`.  A    *)
(* run is what DigestRun shows of it: sources return with what they got    *)
(* and what they lost, every sink is tried and settles, then the run is    *)
(* judged.  The summary of the LLM has no say in this.                     *)
(***************************************************************************)
EXTENDS Startup, Report, SequencesExt

CONSTANTS
  Configs,       \* configurations and environments to look at
  BackoffLimit   \* backoffLimit of the job

\* Modules and queries are lists, as YAML has them.
IsList(s) == s \in Seq(Range(s))

ASSUME CronJobAssumption ==
  /\ BackoffLimit \in Nat
  /\ \A c \in Configs : /\ IsList(c.sources) /\ IsList(c.sinks)
                        /\ \A i \in DOMAIN c.sources : IsList(c.sources[i].queries)

VARIABLES
  config,         \* what the job is deployed with, the arguments included
  check,          \* the command check: [next, failed, exit]
  job,            \* waiting, active, complete, failed
  late,           \* activeDeadlineSeconds are over
  past,           \* the pods that ended without success
  stage,          \* of the pod: none, loading, collecting, delivering, exited
  code,           \* its exit code
  signalled,      \* it got SIGTERM
  lost,           \* per source, the queries it lost, and <<>> until it returns
  negative,       \* some count, of a query or of tokens, is below zero
  tries, result,  \* per sink
  pushed          \* per sink, digests that its endpoint took, over all pods

run == <<lost, negative, tries, result>>
pod == <<stage, code, signalled, run>>
vars == <<config, check, job, late, past, pod, pushed>>

Sources == DOMAIN config.sources
Sinks == DOMAIN config.sinks
NotReturned == <<>>
NotChecked == [next |-> 0, failed |-> 0, exit |-> -1]

Init ==
  /\ config \in Configs
  /\ check = NotChecked
  /\ job = "waiting" /\ late = FALSE /\ past = <<>>
  /\ stage = "none" /\ code = -1 /\ signalled = FALSE
  /\ lost = [i \in Sources |-> NotReturned] /\ negative = FALSE
  /\ tries = [k \in Sinks |-> 0] /\ result = [k \in Sinks |-> "open"]
  /\ pushed = [k \in Sinks |-> 0]

-----------------------------------------------------------------------------
(* The command check.                                                       *)

Probed == config.sources \o <<[config.client EXCEPT !.type = Effective(config).llm]>> \o config.sinks
HasCheck(type) == type \notin {"webhook", "noop"}

\* Mutant: check does not build the LLM.
CheckBegins_noLLM ==
  /\ check = NotChecked /\ job = "waiting"
  /\ check' = IF Builds(config, TRUE) THEN [check EXCEPT !.next = 1]
              ELSE [check EXCEPT !.exit = 2]
  /\ UNCHANGED <<config, job, late, past, pod, pushed>>

CheckBegins ==
  /\ check = NotChecked /\ job = "waiting"
  /\ check' = IF Builds(config, FALSE) THEN [check EXCEPT !.next = 1]
              ELSE [check EXCEPT !.exit = 2]
  /\ UNCHANGED <<config, job, late, past, pod, pushed>>

Checking == check.next > 0

\* The probes go one after the other, each with a timeout of its own.
Probe ==
  /\ Checking /\ check.next <= Len(Probed)
  /\ \E fails \in IF HasCheck(Probed[check.next].type) THEN {0, 1} ELSE {0} :
       check' = [check EXCEPT !.next = @ + 1, !.failed = @ + fails]
  /\ UNCHANGED <<config, job, late, past, pod, pushed>>

CheckEnds ==
  /\ Checking /\ check.next > Len(Probed)
  /\ check' = [NotChecked EXCEPT !.exit = IF check.failed > 0 THEN 1 ELSE 0]
  /\ UNCHANGED <<config, job, late, past, pod, pushed>>

-----------------------------------------------------------------------------
(* The command run, in a pod.                                               *)

Exit(c) == stage' = "exited" /\ code' = c

LoadConfig ==
  /\ stage = "loading"
  /\ IF Builds(config, config.noLLM) THEN stage' = "collecting" /\ UNCHANGED code ELSE Exit(2)
  /\ UNCHANGED <<config, check, job, late, past, signalled, run, pushed>>

\* A source returns with its losses; a legal sample of Prometheus may be negative.
SourceReturns ==
  /\ stage = "collecting"
  /\ \E i \in Sources :
       /\ lost[i] = NotReturned
       /\ LET queries == DOMAIN config.sources[i].queries
          IN  \E l \in SUBSET queries, n \in BOOLEAN :
                /\ QueriesLostForCertain(config.sources[i]) \subseteq l
                /\ n => config.sources[i].type = "prometheus" /\ l # queries
                /\ lost' = [lost EXCEPT ![i] = <<l>>] /\ negative' = (negative \/ n)
  /\ UNCHANGED <<config, check, job, late, past, stage, code, signalled, tries, result, pushed>>

\* Every source is in; a completion of the LLM may report negative tokens.
Deliver ==
  /\ stage = "collecting" /\ \A i \in Sources : lost[i] # NotReturned
  /\ stage' = "delivering"
  /\ \E n \in BOOLEAN : /\ n => ~config.noLLM /\ Effective(config).llm # "noop"
                        /\ negative' = (negative \/ n)
  /\ UNCHANGED <<config, check, job, late, past, code, signalled, lost, tries, result, pushed>>

\* Mutant: three attempts instead of two.
SendAttempts_three(type) == IF type = "email" THEN 1 ELSE 3

SendAttempts(type) == IF type = "email" THEN 1 ELSE 2

\* One attempt: the endpoint may take the digest, the client may learn of it.
Send ==
  /\ stage = "delivering" /\ ~signalled
  /\ \E k \in Sinks, taken \in BOOLEAN, verdict \in {"ok", "error", "open"} :
       /\ result[k] = "open" /\ tries[k] < SendAttempts(config.sinks[k].type)
       /\ verdict = "ok" => taken
       /\ verdict = "open" => tries[k] + 1 < SendAttempts(config.sinks[k].type)
       /\ Unusable(config.sinks[k]) => ~taken /\ verdict = "error"
       /\ tries' = [tries EXCEPT ![k] = @ + 1]
       /\ result' = [result EXCEPT ![k] = verdict]
       /\ pushed' = IF taken THEN [pushed EXCEPT ![k] = @ + 1] ELSE pushed
  /\ UNCHANGED <<config, check, job, late, past, stage, code, signalled, lost, negative>>

SendIsCancelled ==
  /\ stage = "delivering" /\ signalled
  /\ \E k \in Sinks : result[k] = "open" /\ result' = [result EXCEPT ![k] = "error"]
  /\ UNCHANGED <<config, check, job, late, past, stage, code, signalled, lost, negative, tries, pushed>>

\* Of an error only counts here that there is one.
Stats ==
  [i \in Sources |->
     [source |-> i,
      findings |-> Cardinality(DOMAIN config.sources[i].queries \ Head(lost[i])),
      err |-> IF Head(lost[i]) = {} THEN NoLoss
              ELSE [failed |-> Cardinality(Head(lost[i])),
                    total |-> Len(config.sources[i].queries), named |-> Head(lost[i])]]]

\* Record panics on a negative count, and the process dies with status 2.
RecordAndExit ==
  /\ stage = "delivering" /\ \A k \in Sinks : result[k] # "open"
  /\ Exit(IF negative THEN 2 ELSE IF RunSucceeded(Stats, result) THEN 0 ELSE 1)
  /\ UNCHANGED <<config, check, job, late, past, signalled, run, pushed>>

-----------------------------------------------------------------------------
(* Kubernetes.                                                              *)

NewPod ==
  /\ stage' = "loading" /\ code' = -1 /\ signalled' = FALSE
  /\ lost' = [i \in Sources |-> NotReturned] /\ negative' = FALSE
  /\ tries' = [k \in Sinks |-> 0] /\ result' = [k \in Sinks |-> "open"]

StartJob ==
  /\ job = "waiting" /\ ~Checking
  /\ job' = "active" /\ NewPod
  /\ UNCHANGED <<config, check, late, past, pushed>>

Killed == 137
Running == stage \in {"loading", "collecting", "delivering"}

\* Mutant: the job has no deadline.
Deadline_never == FALSE /\ UNCHANGED vars

\* SIGTERM before the command listens to it ends the process.
Deadline ==
  /\ job = "active" /\ ~late
  /\ late' = TRUE
  /\ IF stage = "loading" THEN Exit(Killed) /\ UNCHANGED signalled
     ELSE signalled' = Running /\ UNCHANGED <<stage, code>>
  /\ UNCHANGED <<config, check, job, past, run, pushed>>

\* The grace period ends, or the node takes the pod away.
Kill ==
  /\ Running /\ Exit(Killed)
  /\ UNCHANGED <<config, check, job, late, past, signalled, run, pushed>>

Outcome ==
  [code |-> code, negative |-> negative,
   served |-> \/ Sources = {}
              \/ \E i \in Sources : lost[i] # NotReturned
                                    /\ Head(lost[i]) # DOMAIN config.sources[i].queries,
   delivered |-> \A k \in Sinks : result[k] = "ok"]

\* Mutant: the pod that just ended is not counted.
TriedEnough_oneMore == Len(past) > BackoffLimit

TriedEnough == Len(past) + 1 > BackoffLimit

\* restartPolicy: Never, so that a failed pod is replaced by another one.
PodEnds ==
  /\ stage = "exited" /\ job = "active"
  /\ past' = IF code = 0 THEN past ELSE Append(past, Outcome)
  /\ IF late THEN job' = "failed" /\ UNCHANGED pod
     ELSE IF code = 0 THEN job' = "complete" /\ UNCHANGED pod
     ELSE IF TriedEnough THEN job' = "failed" /\ UNCHANGED pod
     ELSE NewPod /\ UNCHANGED job
  /\ UNCHANGED <<config, check, late, pushed>>

Over == job \in {"complete", "failed"} /\ UNCHANGED vars

Next == \/ CheckBegins \/ Probe \/ CheckEnds
        \/ LoadConfig \/ SourceReturns \/ Deliver \/ Send \/ SendIsCancelled \/ RecordAndExit
        \/ StartJob \/ Deadline \/ Kill \/ PodEnds \/ Over

Spec == Init /\ [][Next]_vars

\* The controller acts, and gives up on a pod that ignores its signal; the
\* commands are run by people and the run itself may hang.
Fairness == WF_vars(Deadline) /\ WF_vars(late /\ Kill) /\ WF_vars(PodEnds)

FairSpec == Spec /\ Fairness

-----------------------------------------------------------------------------
(* Properties.                                                              *)

\* Every variable has the type of the value the code keeps.
TypeOK ==
  /\ config \in Configs
  /\ check \in [next : Nat, failed : Nat, exit : {-1, 0, 1, 2}]
  /\ job \in {"waiting", "active", "complete", "failed"} /\ late \in BOOLEAN
  /\ past \in Seq([code : {1, 2, Killed}, negative : BOOLEAN, served : BOOLEAN, delivered : BOOLEAN])
  /\ Len(past) <= BackoffLimit + 1
  /\ stage \in {"none", "loading", "collecting", "delivering", "exited"}
  /\ code \in {-1, 0, 1, 2, Killed} /\ signalled \in BOOLEAN
  /\ DOMAIN lost = Sources
  /\ \A i \in Sources :
       lost[i] = NotReturned \/ \E l \in SUBSET DOMAIN config.sources[i].queries : lost[i] = <<l>>
  /\ negative \in BOOLEAN
  /\ tries \in [Sinks -> 0 .. 2] /\ result \in [Sinks -> {"open", "ok", "error"}]
  /\ pushed \in [Sinks -> Nat]

\* No process starts collecting with a configuration that DigestRun does not
\* cover: names tell the modules of a kind apart, every source has a query, and
\* every query a title to be listed and lost under (Validate, New, resolve).
AdmittedConfigsRun ==
  stage \in {"collecting", "delivering"} =>
    /\ \A i, j \in Sources : config.sources[i].name = config.sources[j].name => i = j
    /\ \A k, l \in Sinks : config.sinks[k].name = config.sinks[l].name => k = l
    /\ \A i \in Sources :
         LET m == config.sources[i]
         IN  /\ m.queries # <<>> /\ timeoutOr(m.timeout) > 0
             /\ \A n \in DOMAIN m.queries :
                  IF m.type = "elasticsearch" THEN Resolve(m.queries[n]).title # ""
                  ELSE m.queries[n].name # ""
    /\ Effective(config).window > 0

\* A job that is complete has done its job: each sink is usable and its endpoint
\* took the digest, and some usable source had something to say in it (Record,
\* cronjob.yaml: alerts watch the status of the job only).
CompleteMeansDelivered ==
  job = "complete" =>
    /\ \A k \in Sinks : pushed[k] > 0 /\ ~Unusable(config.sinks[k])
    /\ Sources # {} => \E i \in Sources : ~Unusable(config.sources[i])
                          /\ Head(lost[i]) # DOMAIN config.sources[i].queries

\* No endpoint takes more digests than the attempts of the pods add up to, and
\* none takes any from a configuration with an invalid module anywhere, of
\* whatever kind (Build: "any invalid module fails here").
PushesAreBounded ==
  \A k \in Sinks : pushed[k] > 0 =>
    /\ pushed[k] <= (BackoffLimit + 1) * (IF config.sinks[k].type = "email" THEN 1 ELSE 2)
    /\ \A m \in {config.sources[i] : i \in Sources} \cup {config.sinks[l] : l \in Sinks} :
         /\ m.type \in SourceTypes \cup SinkTypes
         /\ Required(m.type) \subseteq Given(config, m)
         /\ m.malformed \cap LookedAt(m.type) = {}

\* check is a rehearsal of the configuration: after a 0 or a 1 no pod is turned
\* away by it, and after a 2 no pod gets to collect, unless it is the LLM that is
\* wrong and the job runs without one (checkCmd, runCmd).
CheckTellsTheConfig ==
  /\ check.exit \in {0, 1} /\ stage = "exited" /\ code = 2 => negative
  /\ check.exit = 2 /\ stage \in {"collecting", "delivering"} => config.noLLM /\ ~BuildsLLM(config)

\* A window whose digest reached every sink, as far as its senders were told, is
\* not pushed again, partial or not, unless the pod was killed or panicked before
\* it could say so (Record: a non-zero exit "would only make Kubernetes rerun the
\* CronJob").  A delivery whose answer was lost counts as failed, and is repeated.
Reached(p) == p.served /\ p.delivered /\ p.code # Killed /\ ~p.negative
NotPushedAgain == [][pushed' # pushed => ~\E i \in DOMAIN past : Reached(past[i])]_vars

\* A pod counts as one when it has ended, and an attempt pushes once.
AttemptsAddUp ==
  LET counted == job = "failed" /\ code # 0
  IN  /\ Len(past) <= IF counted THEN BackoffLimit + 1 ELSE BackoffLimit
      /\ \A k \in Sinks :
           LET attempts == SendAttempts(config.sinks[k].type)
           IN  /\ tries[k] <= IF job = "waiting" THEN 0 ELSE attempts
               /\ pushed[k] <= Len(past) * attempts + (IF counted THEN 0 ELSE tries[k])

\* What the pod has done, and the code it left with, are what its configuration,
\* its losses and its deliveries allow.
PodIsHonest ==
  /\ job = "waiting" <=> stage = "none"
  /\ job \in {"complete", "failed"} => stage = "exited"
  /\ job = "complete" => code = 0
  /\ stage = "exited" <=> code # -1
  /\ stage \in {"collecting", "delivering"} => Builds(config, config.noLLM)
  /\ stage = "delivering" => \A i \in Sources : lost[i] # NotReturned
  /\ \A i \in Sources : lost[i] # NotReturned => QueriesLostForCertain(config.sources[i]) \subseteq Head(lost[i])
  /\ \A k \in Sinks : /\ pushed[k] > 0 => Builds(config, config.noLLM)
                      /\ result[k] = "ok" => pushed[k] > 0 /\ ~Unusable(config.sinks[k])
  /\ code \in {0, 1} => /\ Builds(config, config.noLLM) /\ ~negative
                        /\ \A i \in Sources : lost[i] # NotReturned
                        /\ RunSucceeded(Stats, result) <=> code = 0
  /\ code = 2 => negative \/ ~Builds(config, config.noLLM)
  /\ \A i \in DOMAIN past : Reached(past[i]) => ~Builds(config, config.noLLM)

\* check has seen the whole configuration when it probes, and when it does not.
CheckIsHonest ==
  /\ check.next > 0 \/ check.exit \in {0, 1} => Builds(config, FALSE)
  /\ check.exit = 2 => ~Builds(config, FALSE)

\* What holds all along, and is enough to see that it keeps holding.
JobInv == TypeOK /\ AttemptsAddUp /\ PodIsHonest /\ CheckIsHonest

\* The next window is not skipped for this one: whatever hangs, the job ends
\* (concurrencyPolicy: Forbid, activeDeadlineSeconds).
JobEnds == job = "active" ~> job \in {"complete", "failed"}
=============================================================================
