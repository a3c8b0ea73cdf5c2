------------------------------ MODULE DigestRun -----------------------------
(***************************************************************************)
(* One run of the pipeline, from the goroutines of the sources to the exit *)
(* code of the command: Runner.Run with collect, summarize and deliver     *)
(* (internal/digest/run.go), the query loop of the sources, the retrying   *)
(* LLM, the senders of the sinks, App.Record (internal/cli/build.go) and   *)
(* the command around them (internal/cli/run.go).                          *)
(*                                                                         *)
(* The main goroutine is pc.  Every source and every sink has a goroutine, *)
(* a context with a deadline, and an endpoint on the other side of a wire  *)
(* that answers late, wrongly, or never.                                   *)
(***************************************************************************)
EXTENDS Report

CONSTANTS
  Sources,      \* sequence of [name, queries]; a query is [title, warning, critical]
  Sinks,        \* sequence of [kind, attempts], in the order of the configuration
  WithLLM,      \* may a run have an LLM: TRUE, FALSE under --no-llm, or both
  LLMAttempts,  \* llm.retries: the attempts of the retrier
  LLMDeadlines, \* may llm.timeout be > 0: TRUE, FALSE for a timeout of zero, or both
  Cancellable,  \* TRUE in `run` (SIGTERM cancels), FALSE in `serve`
  Counts,       \* the counts a query may answer with
  TokenCounts,  \* the lesser of the two token counts a completion may report
  Legible       \* losses of one source whose names its error line has room for

Query == [title : Nat, warning : Nat, critical : Nat]

ASSUME SourcesAssumption ==
  /\ Sources \in Seq([name : Nat, queries : Seq(Query) \ {<<>>}])
  /\ \A s, t \in DOMAIN Sources : Sources[s].name = Sources[t].name => s = t

ASSUME SinksAssumption == Sinks \in Seq([kind : SinkKinds, attempts : Nat \ {0}])

ASSUME LLMAssumption ==
  /\ WithLLM \subseteq BOOLEAN /\ LLMDeadlines \subseteq BOOLEAN /\ Cancellable \in BOOLEAN
  /\ LLMAttempts \in Nat \ {0}

ASSUME CountsAssumption == Counts \subseteq Int /\ TokenCounts \subseteq Int

\* errors.go: 11 as long as a message up to the name fits in 60 bytes (Collect),
\* and 0 for names of any length.
ASSUME LegibleAssumption == Legible \in Nat

VARIABLES
  pc,         \* where the main goroutine is
  cancelled,  \* the context of the command was cancelled by a signal
  collector,  \* per source: its goroutine [phase, found, lost, named]
  llm,        \* the call to the LLM [phase, tries, bounded]
  report,     \* the report being built
  sender,     \* per sink: its goroutine [phase, tries, body]
  wire,       \* per sink: the attempts whose request is on the way
  inbox,      \* per sink: what the endpoint has received, [attempt, body]
  metrics,    \* what Record counted: [status, success]
  history,    \* what became of the history entry
  exit        \* exit code, NoExit while the process runs

main == <<pc, cancelled>>
delivery == <<sender, wire, inbox>>
outcome == <<metrics, history, exit>>
vars == <<pc, cancelled, collector, llm, report, sender, wire, inbox, metrics, history, exit>>

NoExit == -1
S == DOMAIN Sources
K == DOMAIN Sinks
NoBody == [verdict |-> SeverityInfo, marked |-> FALSE, summary |-> "",
           findings |-> <<>>, problems |-> {}]

Init ==
  /\ pc = "collect"
  /\ cancelled = FALSE
  /\ collector = [s \in S |-> [phase |-> "running", found |-> <<>>, lost |-> <<>>, named |-> {}]]
  /\ \E with \in WithLLM, limit \in LLMDeadlines :
       llm = [phase |-> IF with THEN "ready" ELSE "off", tries |-> 0, bounded |-> limit]
  /\ report = [verdict |-> SeverityInfo, summary |-> "", findings |-> <<>>,
               stats |-> <<>>, llm |-> "off", tokens |-> 0, sinks |-> <<>>]
  /\ sender = [k \in K |-> [phase |-> "idle", tries |-> 0, body |-> NoBody]]
  /\ wire = [k \in K |-> {}]
  /\ inbox = [k \in K |-> {}]
  /\ metrics = [status |-> <<>>, success |-> FALSE]
  /\ history = "none"
  /\ exit = NoExit

-----------------------------------------------------------------------------
(* collect: one goroutine per source, one query after the other.            *)

Resolved(s) == Len(collector[s].found) + Len(collector[s].lost)
Pending(s) == Resolved(s) < Len(Sources[s].queries)
NextQuery(s) == Sources[s].queries[Resolved(s) + 1]
SourceDead(s) == collector[s].phase = "late" \/ cancelled

\* The endpoint answers in full and in time: a finding, scored here.
Answer(s) ==
  /\ pc = "collect" /\ Pending(s) /\ ~SourceDead(s)
  /\ \E c \in Counts :
       LET f == [source |-> Sources[s].name, title |-> NextQuery(s).title, count |-> c,
                 severity |-> Score(c, NextQuery(s))]
       IN  collector' = [collector EXCEPT ![s].found = Append(@, f)]
  /\ UNCHANGED <<main, llm, report, delivery, outcome>>

\* A transport error, a bad status, an undecodable body, a partial result, or
\* a context that is over: the query costs its finding and the loop goes on.
Lose(s) ==
  /\ pc = "collect" /\ Pending(s)
  /\ collector' = [collector EXCEPT ![s].lost = Append(@, Resolved(s) + 1)]
  /\ UNCHANGED <<main, llm, report, delivery, outcome>>

\* Mutant: a module timeout of zero means no deadline.
ExpireSource_never(s) == FALSE /\ UNCHANGED vars

\* The deadline of the module passes.  Every source has one (timeoutOr).
ExpireSource(s) ==
  /\ pc = "collect" /\ collector[s].phase = "running" /\ Pending(s)
  /\ collector' = [collector EXCEPT ![s].phase = "late"]
  /\ UNCHANGED <<main, llm, report, delivery, outcome>>

LostBy(s) == {collector[s].lost[i] : i \in DOMAIN collector[s].lost}

\* The queries that the error line can still name after it is cut (QueryErrors).
Names(s, named) ==
  named \subseteq LostBy(s) /\ (Len(collector[s].lost) <= Legible => named = LostBy(s))

\* The goroutine writes its slot and is done; its context is released.
Return(s) ==
  /\ pc = "collect" /\ ~Pending(s) /\ collector[s].phase # "returned"
  /\ \E named \in SUBSET LostBy(s) :
       /\ Names(s, named)
       /\ collector' = [collector EXCEPT ![s] = [@ EXCEPT !.phase = "returned", !.named = named]]
  /\ UNCHANGED <<main, llm, report, delivery, outcome>>

-----------------------------------------------------------------------------
(* The main goroutine waits for every slot, then appends them in order.     *)

\* The error a source returns, nil if nothing was lost.
QueryErrors(s) ==
  IF collector[s].lost = <<>> THEN NoLoss
  ELSE [failed |-> Len(collector[s].lost), total |-> Len(Sources[s].queries),
        named |-> collector[s].named]

\* What is in a slot: the zero value until its goroutine wrote it.
SlotStats(s) ==
  IF collector[s].phase = "returned"
  THEN [source |-> Sources[s].name, findings |-> Len(collector[s].found), err |-> QueryErrors(s)]
  ELSE [source |-> 0, findings |-> 0, err |-> NoLoss]
SlotFindings(s) == IF collector[s].phase = "returned" THEN collector[s].found ELSE <<>>

\* Mutant: the join lets the main goroutine go when one source is done.
AllReturned_any == S = {} \/ \E s \in S : collector[s].phase = "returned"

AllReturned == \A s \in S : collector[s].phase = "returned"

Wait ==
  /\ pc = "collect" /\ AllReturned
  /\ pc' = "gather"
  /\ UNCHANGED <<cancelled, collector, llm, report, delivery, outcome>>

Gather ==
  LET s == Len(report.stats) + 1
  IN  /\ pc = "gather" /\ s \in S
      /\ report' = [report EXCEPT !.findings = @ \o SlotFindings(s),
                                  !.stats = Append(@, SlotStats(s))]
      /\ UNCHANGED <<main, collector, llm, delivery, outcome>>

Judge ==
  /\ pc = "gather" /\ Len(report.stats) = Len(Sources)
  /\ LET sorted == sortFindings(report.findings)
     IN  report' = [report EXCEPT !.findings = sorted, !.verdict = Verdict(sorted)]
  /\ pc' = "summarize"
  /\ UNCHANGED <<cancelled, collector, llm, delivery, outcome>>

-----------------------------------------------------------------------------
(* summarize: BuildRequest, then the retrying provider under its deadline.  *)

\* Mutant: the LLM gets a context of its own, not the one of the command.
LLMDead_detached == llm.phase = "late"

LLMDead == llm.phase = "late" \/ cancelled
ToDeliver == pc' = "deliver" /\ UNCHANGED <<cancelled, collector, delivery, outcome>>

SkipLLM ==
  /\ pc = "summarize" /\ llm.phase = "off"
  /\ ToDeliver /\ UNCHANGED <<llm, report>>

\* BuildRequest returns an error, or the completion is given up: the raw
\* digest goes out.
Degrade ==
  /\ report' = [report EXCEPT !.llm = "failed"]
  /\ llm' = [llm EXCEPT !.phase = "done"]
  /\ ToDeliver

RequestFails == pc = "summarize" /\ llm.phase = "ready" /\ llm.tries = 0 /\ Degrade

Ask ==
  /\ pc = "summarize" /\ llm.phase = "ready" /\ ~cancelled
  /\ llm' = [phase |-> "asking", tries |-> llm.tries + 1, bounded |-> llm.bounded]
  /\ UNCHANGED <<main, collector, report, delivery, outcome>>

\* A completion, with the tokens its provider says it took; PostProcess may leave
\* nothing of the text.
Complete ==
  /\ pc = "summarize" /\ llm.phase = "asking" /\ ~cancelled
  /\ \E text \in {"", "text"}, n \in TokenCounts :
       report' = [report EXCEPT !.llm = "ok", !.summary = text, !.tokens = n]
  /\ llm' = [llm EXCEPT !.phase = "done"]
  /\ ToDeliver

\* A rate limit or an unavailable backend is tried again after a backoff.
RetryLLM ==
  /\ pc = "summarize" /\ llm.phase = "asking" /\ ~cancelled /\ llm.tries < LLMAttempts
  /\ llm' = [llm EXCEPT !.phase = "ready"]
  /\ UNCHANGED <<main, collector, report, delivery, outcome>>

\* Anything else, or the last attempt, is final.
LLMFails == pc = "summarize" /\ llm.phase = "asking" /\ Degrade

ExpireLLM ==
  /\ pc = "summarize" /\ llm.bounded /\ llm.phase \in {"ready", "asking"} /\ llm.tries > 0
  /\ llm' = [llm EXCEPT !.phase = "late"]
  /\ UNCHANGED <<main, collector, report, delivery, outcome>>

\* A dead context ends the attempt or the backoff.
AbandonLLM == pc = "summarize" /\ llm.phase # "off" /\ LLMDead /\ Degrade

-----------------------------------------------------------------------------
(* deliver: one goroutine per sink.                                         *)

SenderDead(k) == sender[k].phase = "late" \/ cancelled
SinkStep(k, s) ==
  /\ sender' = [sender EXCEPT ![k] = s]
  /\ UNCHANGED <<main, collector, llm, report, outcome>>

\* The message is built once, from the report by value.
Compose(k) ==
  /\ pc = "deliver" /\ sender[k].phase = "idle"
  /\ SinkStep(k, [phase |-> "ready", tries |-> 0, body |-> Message(Sinks[k].kind, report)])
  /\ UNCHANGED <<wire, inbox>>

\* A template of the operator does not execute on this report.
ComposeFails(k) ==
  /\ pc = "deliver" /\ sender[k].phase = "idle"
  /\ SinkStep(k, [sender[k] EXCEPT !.phase = "failed"])
  /\ UNCHANGED <<wire, inbox>>

\* The first attempt, or a retry after its backoff.
Dial(k) ==
  /\ pc = "deliver" /\ sender[k].phase = "ready" /\ ~SenderDead(k)
  /\ SinkStep(k, [sender[k] EXCEPT !.phase = "flying", !.tries = @ + 1])
  /\ wire' = [wire EXCEPT ![k] = @ \cup {sender[k].tries + 1}]
  /\ UNCHANGED inbox

\* The endpoint takes a request off the wire, perhaps long after its sender
\* gave up on it.
Accept(k) ==
  /\ \E a \in wire[k] :
       /\ wire' = [wire EXCEPT ![k] = @ \ {a}]
       /\ inbox' = [inbox EXCEPT ![k] = @ \cup {[attempt |-> a, body |-> sender[k].body]}]
  /\ UNCHANGED <<main, collector, llm, report, sender, outcome>>

InFlight(k) == pc = "deliver" /\ sender[k].phase = "flying" /\ ~cancelled

\* A 2xx (or the end of the SMTP dialogue): the endpoint has the request.
Delivered(k) ==
  /\ InFlight(k) /\ \E m \in inbox[k] : m.attempt = sender[k].tries
  /\ SinkStep(k, [sender[k] EXCEPT !.phase = "ok"])
  /\ UNCHANGED <<wire, inbox>>

\* Mutant: one attempt too many.
RetrySend_offByOne(k) ==
  /\ InFlight(k) /\ sender[k].tries <= Sinks[k].attempts
  /\ SinkStep(k, [sender[k] EXCEPT !.phase = "ready"])
  /\ UNCHANGED <<wire, inbox>>

\* A 429, a 5xx or a transport error, with an attempt left.
RetrySend(k) ==
  /\ InFlight(k) /\ sender[k].tries < Sinks[k].attempts
  /\ SinkStep(k, [sender[k] EXCEPT !.phase = "ready"])
  /\ UNCHANGED <<wire, inbox>>

\* Mutant: the status of the answer is not looked at.
Refused_unchecked(k) ==
  /\ InFlight(k)
  /\ SinkStep(k, [sender[k] EXCEPT !.phase = "ok"])
  /\ UNCHANGED <<wire, inbox>>

\* Any other status, or no attempt left.
Refused(k) ==
  /\ InFlight(k)
  /\ SinkStep(k, [sender[k] EXCEPT !.phase = "failed"])
  /\ UNCHANGED <<wire, inbox>>

ExpireSink(k) ==
  /\ pc = "deliver" /\ sender[k].phase \in {"ready", "flying"}
  /\ SinkStep(k, [sender[k] EXCEPT !.phase = "late"])
  /\ UNCHANGED <<wire, inbox>>

Abandon(k) ==
  /\ pc = "deliver" /\ sender[k].phase \in {"ready", "flying", "late"} /\ SenderDead(k)
  /\ SinkStep(k, [sender[k] EXCEPT !.phase = "failed"])
  /\ UNCHANGED <<wire, inbox>>

\* Mutant: the join does not wait for the requests in flight.
AllSettled_started == \A k \in K : sender[k].phase # "idle"

AllSettled == \A k \in K : sender[k].phase \in {"ok", "failed"}

Settle ==
  /\ pc = "deliver" /\ AllSettled
  /\ report' = [report EXCEPT !.sinks = [k \in K |-> sender[k].phase]]
  /\ pc' = "record"
  /\ UNCHANGED <<cancelled, collector, llm, delivery, outcome>>

-----------------------------------------------------------------------------
(* Record, Append and the exit code.                                        *)

Status(st) == IF Partial(st) THEN "partial" ELSE IF st.err # NoLoss THEN "error" ELSE "success"

\* A counter of Record would have to decrease: that of the findings of a source or
\* one of those of the tokens.
Negative == (\E i \in DOMAIN report.findings : report.findings[i].count < 0) \/ report.tokens < 0

Record ==
  /\ pc = "record" /\ ~Negative
  /\ metrics' = [status  |-> [i \in DOMAIN report.stats |-> Status(report.stats[i])],
                 success |-> RunSucceeded(report.stats, report.sinks)]
  /\ pc' = "append"
  /\ UNCHANGED <<cancelled, collector, llm, report, delivery, history, exit>>

\* A counter of the metrics library panics when it is told to decrease, and
\* nothing recovers: the process dies with the status of a Go panic.
Panic ==
  /\ pc = "record" /\ Negative
  /\ pc' = "exited" /\ exit' = 2
  /\ UNCHANGED <<cancelled, collector, llm, report, delivery, metrics, history>>

\* A history that cannot be written is logged and nothing else.
AppendHistory ==
  /\ pc = "append"
  /\ history' \in {"persisted", "memory"}
  /\ pc' = "exiting"
  /\ UNCHANGED <<cancelled, collector, llm, report, delivery, metrics, exit>>

Exit ==
  /\ pc = "exiting"
  /\ pc' = "exited" /\ exit' = (IF metrics.success THEN 0 ELSE 1)
  /\ UNCHANGED <<cancelled, collector, llm, report, delivery, metrics, history>>

\* SIGINT or SIGTERM reaches a `run`.
Cancel ==
  /\ Cancellable /\ ~cancelled /\ pc # "exited"
  /\ cancelled' = TRUE
  /\ UNCHANGED <<pc, collector, llm, report, delivery, outcome>>

Terminating == pc = "exited" /\ UNCHANGED vars

-----------------------------------------------------------------------------
SourceNext(s) == Answer(s) \/ Lose(s) \/ ExpireSource(s) \/ Return(s)

LLMNext == \/ SkipLLM \/ RequestFails \/ Ask \/ Complete \/ RetryLLM \/ LLMFails
           \/ ExpireLLM \/ AbandonLLM

SinkNext(k) == \/ Compose(k) \/ ComposeFails(k) \/ Dial(k) \/ Accept(k) \/ Delivered(k)
               \/ RetrySend(k) \/ Refused(k) \/ ExpireSink(k) \/ Abandon(k)

MainNext == \/ Wait \/ Gather \/ Judge \/ Settle \/ Record \/ Panic \/ AppendHistory \/ Exit

Next ==
  \/ \E s \in S : SourceNext(s)
  \/ \E k \in K : SinkNext(k)
  \/ LLMNext \/ MainNext \/ Cancel \/ Terminating

Spec == Init /\ [][Next]_vars

(***************************************************************************)
(* Fairness.  The process is scheduled and timers fire; no endpoint has to *)
(* answer, so Answer, Complete, LLMFails, Accept, Delivered, RetrySend and *)
(* Refused carry none, and Lose only once the context is over.             *)
(***************************************************************************)
Fairness ==
  /\ \A s \in S : /\ WF_vars(SourceDead(s) /\ Lose(s))
                  /\ WF_vars(Return(s))
                  /\ WF_vars(ExpireSource(s))
  /\ WF_vars(SkipLLM \/ Ask \/ AbandonLLM) /\ WF_vars(ExpireLLM)
  /\ \A k \in K : /\ WF_vars(Compose(k) \/ ComposeFails(k))
                  /\ WF_vars(Dial(k))
                  /\ WF_vars(ExpireSink(k))
                  /\ WF_vars(Abandon(k))
  /\ WF_vars(MainNext)

FairSpec == Spec /\ Fairness

-----------------------------------------------------------------------------
(* Properties.                                                              *)

Collector == [phase : {"running", "late", "returned"}, found : Seq(Finding), lost : Seq(Nat),
              named : SUBSET Nat]
Problem == [source : Nat, kind : {"failed", "partial"}, err : Loss]
Body == [verdict : Severity, marked : BOOLEAN, summary : {"", "text"},
         findings : Seq(Finding), problems : SUBSET Problem]
Sender == [phase : {"idle", "ready", "flying", "late", "ok", "failed"}, tries : Nat, body : Body]
ReportType == [verdict : Severity, summary : {"", "text"}, findings : Seq(Finding),
               stats : Seq(SourceStats), llm : {"off", "ok", "failed"}, tokens : Int,
               sinks : Seq({"ok", "failed"})]
LLMCall == [phase : {"off", "ready", "asking", "late", "done"}, tries : Nat, bounded : BOOLEAN]
Labels == {"collect", "gather", "summarize", "deliver", "record", "append", "exiting", "exited"}

\* Every variable has the type of the value the code keeps.
TypeOK ==
  /\ pc \in Labels
  /\ cancelled \in BOOLEAN
  /\ collector \in [S -> Collector]
  /\ llm \in LLMCall
  /\ report \in ReportType
  /\ sender \in [K -> Sender]
  /\ wire \in [K -> SUBSET Nat]
  /\ inbox \in [K -> SUBSET [attempt : Nat, body : Body]]
  /\ metrics \in [status : Seq({"success", "partial", "error"}), success : BOOLEAN]
  /\ history \in {"none", "memory", "persisted"}
  /\ exit \in {NoExit, 0, 1, 2}

\* The sources that lost queries, read from the goroutines, and whether a problem
\* of a message is the true one of source s.
Lossy == {s \in S : collector[s].lost # <<>>}
Tells(p, s) ==
  /\ p.source = Sources[s].name
  /\ p.kind = IF collector[s].found = <<>> THEN "failed" ELSE "partial"
  /\ p.err.failed = Len(collector[s].lost) /\ p.err.total = Len(Sources[s].queries)
  /\ p.err.named \subseteq LostBy(s)
  /\ Len(collector[s].lost) <= Legible => p.err.named = LostBy(s)

Answers == UNION {{<<s, n>> : n \in DOMAIN collector[s].found} : s \in S}
SomethingAnswered == \E s \in S : collector[s].found # <<>>

\* A run that lost queries never arrives looking complete: whatever the sink,
\* whatever the LLM wrote, every message an endpoint receives names exactly
\* the sources that did not answer in full, each once with the right kind and
\* the number of its lost queries, never says that a query was lost that was
\* answered, and names each lost one unless there are more of them than its error
\* line has room for; the title of a push notification is marked when there is one.
\* It takes the barrier of collect, the slots, SourceProblems and the three
\* ways of building a message to hold (run.go, errors.go, render.go,
\* homeassistant.go).
IncompleteIsNamed ==
  \A k \in K : \A m \in inbox[k] :
    LET problems == m.body.problems
    IN  /\ \A s \in S : ~Pending(s)
        /\ \A s \in Lossy : \E p \in problems : Tells(p, s)
        /\ \A p \in problems : \E s \in Lossy : Tells(p, s)
        /\ \A p, q \in problems : p.source = q.source => p = q
        /\ Sinks[k].kind = "homeassistant" => (m.body.marked <=> Lossy # {})

\* Why IncompleteIsNamed holds: the report is only built from slots that are
\* written, one by one and in order, and never changes its statistics again...
SlotsHold ==
  /\ \A s \in S : collector[s].phase = "returned" => ~Pending(s) /\ Names(s, collector[s].named)
  /\ pc # "collect" => AllReturned
  /\ pc = "collect" => report.stats = <<>>
  /\ pc = "gather" => Len(report.stats) <= Len(Sources)
  /\ pc \notin {"collect", "gather"} => Len(report.stats) = Len(Sources)
  /\ \A i \in DOMAIN report.stats : report.stats[i] = SlotStats(i)

\* ... and what is on a wire or in an inbox was built from that report.
Honest(k) ==
  /\ sender[k].body.problems = SourceProblems(report.stats)
  /\ Sinks[k].kind = "homeassistant" => (sender[k].body.marked <=> sender[k].body.problems # {})

MessagesHold ==
  \A k \in K :
    /\ pc \in {"collect", "gather", "summarize"} => sender[k].phase = "idle"
    /\ sender[k].phase = "idle" => wire[k] = {} /\ inbox[k] = {}
    /\ sender[k].phase \in {"ready", "flying", "late", "ok"} => Honest(k)
    /\ wire[k] # {} => Honest(k)
    /\ \A m \in inbox[k] : m.body = sender[k].body /\ Honest(k)

\* The inductive invariant behind the messages (collect, deliver).
RunInv == TypeOK /\ SlotsHold /\ MessagesHold

\* The verdict of every message received is the worst severity among all the
\* answers of all the sources, and a message without a summary lists each
\* answer exactly once, worst first, in whatever order the sources finished
\* (collect, sortFindings, Verdict).
WorstFirst ==
  \A k \in K : \A m \in inbox[k] :
    LET fs == m.body.findings
    IN  /\ \A a \in Answers : collector[a[1]].found[a[2]].severity <= m.body.verdict
        /\ \/ m.body.verdict = SeverityInfo
           \/ \E a \in Answers : collector[a[1]].found[a[2]].severity = m.body.verdict
        /\ m.body.summary = "" \/ Sinks[k].kind # "homeassistant" =>
             /\ Len(fs) = Cardinality(Answers)
             /\ \A a \in Answers : \E i \in DOMAIN fs : fs[i] = collector[a[1]].found[a[2]]
             /\ \A i, j \in DOMAIN fs : i < j => ~Precedes(fs[j], fs[i])

\* A delivery reported without an error happened, in the report that the
\* history keeps as well as in the metrics: the endpoint has the message
\* (deliver, the Send methods, Record).
DeliveryIsTruthful ==
  \A k \in K : pc \notin {"collect", "gather", "summarize"} =>
    /\ report.sinks # <<>> /\ report.sinks[k] = "ok" => inbox[k] # {}
    /\ metrics.success => inbox[k] # {}

\* Retries never give a reader more copies than the configured attempts: an
\* e-mail comes at most once, a push or a webhook at most twice (httpx.Do).
AtMostAttempts ==
  \A k \in K : Cardinality(inbox[k]) + Cardinality(wire[k]) <= Sinks[k].attempts

\* What Record counts for a source is what the readers were told about it:
\* two switches in two packages that must agree (Record, SourceProblems).
MetricsMatchMessages ==
  \A k \in K, s \in S : \A m \in inbox[k] : metrics.status # <<>> =>
    LET told == {p \in m.body.problems : p.source = Sources[s].name}
    IN  /\ metrics.status[s] = "success" <=> told = {}
        /\ metrics.status[s] = "partial" => \A p \in told : p.kind = "partial"
        /\ metrics.status[s] = "error" => \A p \in told : p.kind = "failed"

\* The exit code, end to end: 0 only if every endpoint has the digest and some
\* query was answered (or none was asked), 1 only if a sink or every source
\* failed, 2 for a negative count of a query or of tokens and nothing else; a
\* failed LLM or history changes nothing (Record, runCmd).
ExitTellsTheTruth ==
  pc = "exited" =>
    /\ exit = 0 => (\A k \in K : inbox[k] # {}) /\ (S # {} => SomethingAnswered)
    /\ exit = 1 => (\E k \in K : sender[k].phase = "failed") \/ (S # {} /\ ~SomethingAnswered)
    /\ exit = 2 <=> \/ \E a \in Answers : collector[a[1]].found[a[2]].count < 0
                    \/ report.tokens < 0

\* Why the last five hold.  An attempt is on its way or received, never both, and
\* a sender stops at the configured number of them ...
SendersHold ==
  \A k \in K :
    LET received == {m.attempt : m \in inbox[k]}
    IN  /\ sender[k].tries <= Sinks[k].attempts
        /\ sender[k].phase = "ready" => sender[k].tries < Sinks[k].attempts
        /\ wire[k] \cup received \subseteq 1 .. sender[k].tries
        /\ wire[k] \cap received = {}
        /\ sender[k].phase = "ok" => inbox[k] # {}

\* ... what it sends is the message of the report, which no longer changes ...
BodiesHold ==
  \A k \in K :
    \/ sender[k].phase \in {"ready", "flying", "late", "ok"}
    \/ wire[k] # {} \/ inbox[k] # {}
    => sender[k].body = Message(Sinks[k].kind, report)

\* ... and holds every answer gathered so far once, in the end worst first ...
Gathered == UNION {{<<s, n>> : n \in DOMAIN collector[s].found} : s \in 1 .. Len(report.stats)}
FindingsHold ==
  LET fs == report.findings
  IN  /\ IsFiniteSet(Gathered) /\ Len(fs) = Cardinality(Gathered)
      /\ {fs[i] : i \in DOMAIN fs} = {collector[a[1]].found[a[2]] : a \in Gathered}
      /\ pc \notin {"collect", "gather"} =>
           /\ \A i, j \in DOMAIN fs : i < j => ~Precedes(fs[j], fs[i])
           /\ report.verdict = Verdict(fs)

\* ... and the metrics and the exit code are computed from the settled report.
NothingCounted == metrics = [status |-> <<>>, success |-> FALSE]
AllCounted ==
  /\ ~Negative
  /\ metrics = [status  |-> [i \in DOMAIN report.stats |-> Status(report.stats[i])],
                success |-> RunSucceeded(report.stats, report.sinks)]
OutcomeHolds ==
  /\ pc \in {"collect", "gather", "summarize", "deliver"} => report.sinks = <<>>
  /\ report.tokens \in TokenCounts \cup {0}
  /\ pc \in {"record", "append", "exiting", "exited"} =>
       AllSettled /\ report.sinks = [k \in K |-> sender[k].phase]
  /\ pc \in {"collect", "gather", "summarize", "deliver", "record"} => NothingCounted
  /\ pc \in {"append", "exiting"} => AllCounted
  /\ pc # "exited" => exit = NoExit
  /\ pc = "exited" => \/ exit = 2 /\ Negative /\ NothingCounted
                      \/ exit = (IF metrics.success THEN 0 ELSE 1) /\ AllCounted

\* The inductive invariant behind the delivery, the metrics and the exit code.
OutcomeInv == RunInv /\ SendersHold /\ BodiesHold /\ FindingsHold /\ OutcomeHolds

\* A request to the LLM that only an answer or a signal can end: llm.timeout is
\* the one timeout that timeoutOr does not replace when it is zero.
LeftToTheLLM == llm.phase = "asking" /\ ~llm.bounded /\ ~cancelled

\* Whatever the endpoints do, even nothing at all, the run ends, unless it waits
\* for good for an LLM without a deadline: no other wait of the run is unbounded
\* (run.go, timeoutOr).
Terminates == <>(pc = "exited") \/ <>[]LeftToTheLLM

\* A signal ends the run although the LLM has no deadline of its own: every
\* context derives from the one the signal cancels (runCmd).
CancelEndsTheRun == cancelled ~> pc = "exited"

-----------------------------------------------------------------------------
(* What the documentation says, where the code does otherwise.              *)

\* cli/build.go, Record: "Success means: at least one source produced findings
\* and every sink delivered", and cli/cli.go keeps exit code 2 for "usage or
\* configuration error": such a run exits with 0.
DeliveredRunSucceeds ==
  pc = "exited" /\ SomethingAnswered /\ (\A k \in K : report.sinks[k] = "ok") => exit = 0

-----------------------------------------------------------------------------
(* The run keeps the promise of DigestPromise.                              *)

\* The loop resolves the queries in their order: the n-th one is open, lost, or
\* answered by the finding that comes after those of the answered ones before.
PlaceOf(s, n) == n - Cardinality({i \in DOMAIN collector[s].lost : collector[s].lost[i] <= n})
FateOf(s, n) ==
  IF n > Resolved(s) THEN [state |-> "open", count |-> 0]
  ELSE IF n \in LostBy(s) THEN [state |-> "lost", count |-> 0]
  ELSE [state |-> "answered", count |-> collector[s].found[PlaceOf(s, n)].count]

TaleOf(m) ==
  [verdict |-> m.body.verdict,
   failed  |-> {p.source : p \in {p \in m.body.problems : p.kind = "failed"}},
   partial |-> {p.source : p \in {p \in m.body.problems : p.kind = "partial"}}]

fates == [q \in UNION {{<<s, n>> : n \in DOMAIN Sources[s].queries} : s \in S} |-> FateOf(q[1], q[2])]
tales == [k \in K |-> {TaleOf(m) : m \in inbox[k]}]

Promise == INSTANCE DigestPromise WITH fate <- fates, told <- tales

\* Every step of the run is a step of the promise or invisible to it, and the
\* promise is kept in the end, whatever the endpoints do, unless the run is left
\* to its LLM (Runner.Run, runCmd).
KeepsPromise == Promise!Safety /\ ([]<>~LeftToTheLLM => Promise!Liveness)

\* Why the safety half holds: no query is resolved twice or skipped, and every
\* finding of a source is the answer to one query, scored by its thresholds.
Won(s) == (1 .. Resolved(s)) \ LostBy(s)
FatesOf(s) ==
  /\ Resolved(s) <= Len(Sources[s].queries)
  /\ LostBy(s) \subseteq 1 .. Resolved(s)
  /\ {PlaceOf(s, n) : n \in Won(s)} = DOMAIN collector[s].found
  /\ \A n \in Won(s) : LET f == collector[s].found[PlaceOf(s, n)]
                       IN  f.severity = Score(f.count, Sources[s].queries[n])
FatesHold == \A s \in S : FatesOf(s)

\* The inductive invariant behind every safety property of a run.
PromiseInv == OutcomeInv /\ FatesHold
=============================================================================
