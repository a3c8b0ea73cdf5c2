------------------------------- MODULE Report -------------------------------
(***************************************************************************)
(* The vocabulary of a digest: severities, findings, the outcome of a      *)
(* source, the report that flows between the stages of a run, and what a   *)
(* reader of one notification is told (internal/digest and the message     *)
(* composition of internal/sink).                                          *)
(*                                                                         *)
(* Names of sources and titles of queries are numbers: the code only       *)
(* compares them, and a number stands for the position of the string in    *)
(* the lexicographic order.                                                *)
(***************************************************************************)
EXTENDS Integers, Sequences, FiniteSets

SeverityInfo == 0
SeverityWarning == 1
SeverityCritical == 2
Severity == SeverityInfo .. SeverityCritical

Finding == [source : Nat, title : Nat, count : Int, severity : Severity]

\* The error of a source: "failed of total queries failed" and a line of their
\* messages, of which the names of only some may be left when it is cut.  A query
\* is its place in the source.
Loss == [failed : Nat, total : Nat, named : SUBSET Nat]
NoLoss == [failed |-> 0, total |-> 0, named |-> {}]

SourceStats == [source : Nat, findings : Nat, err : Loss]

\* A level whose threshold is zero is disabled.
Score(count, t) ==
  IF t.critical > 0 /\ count >= t.critical THEN SeverityCritical
  ELSE IF t.warning > 0 /\ count >= t.warning THEN SeverityWarning
  ELSE SeverityInfo

\* The maximum over the findings, SeverityInfo when there are none.
Verdict(findings) ==
  LET levels == {SeverityInfo} \cup {findings[i].severity : i \in DOMAIN findings}
  IN  CHOOSE v \in levels : \A w \in levels : w <= v

-----------------------------------------------------------------------------
(* sortFindings: critical first, then source, then title, and stable.       *)

Precedes(f, g) ==
  \/ f.severity > g.severity
  \/ f.severity = g.severity /\ f.source < g.source
  \/ f.severity = g.severity /\ f.source = g.source /\ f.title < g.title

\* Position i of fs goes before position j: stability breaks the ties.
Before(fs, i, j) ==
  \/ Precedes(fs[i], fs[j])
  \/ ~Precedes(fs[j], fs[i]) /\ i < j

Rank(fs, i) == Cardinality({j \in DOMAIN fs : Before(fs, j, i)}) + 1

\* Mutant: the findings stay in the order of the configuration.
sortFindings_unsorted(fs) == fs

sortFindings(fs) == [k \in DOMAIN fs |-> fs[CHOOSE i \in DOMAIN fs : Rank(fs, i) = k]]

-----------------------------------------------------------------------------
(* What a source's outcome means, and what a reader is told about it.       *)

\* Mutant: an error alone makes a source partial.
Partial_anyError(st) == st.err # NoLoss

Partial(st) == st.err # NoLoss /\ st.findings > 0

\* One entry per source that did not answer in full, in the order of the
\* configuration, with its error as it is: the "Failed sources" and "Partial
\* sources" lines.
SourceProblems(stats) ==
  { [source |-> stats[i].source,
     kind   |-> IF Partial(stats[i]) THEN "partial" ELSE "failed",
     err    |-> stats[i].err]
    : i \in {i \in DOMAIN stats : stats[i].err # NoLoss} }

(***************************************************************************)
(* Messages.  A message records what its reader can see: the verdict, the  *)
(* PARTIAL mark of the title, whether the summary of the LLM is in it, the *)
(* findings and the problems it lists.                                     *)
(***************************************************************************)
RenderText(r) ==
  [verdict |-> r.verdict, marked |-> FALSE, summary |-> r.summary,
   findings |-> r.findings, problems |-> SourceProblems(r.stats)]

\* The default body of a webhook is the whole report: every row of stats with
\* its error is in it.
ToJSON(r) == RenderText(r)

\* Mutant: the summary is sent without the problems.
NotifyMessage_silent(r) ==
  IF r.summary = "" THEN RenderText(r)
  ELSE [RenderText(r) EXCEPT !.findings = <<>>, !.problems = {}]

\* The summary replaces the rendered digest, and the problems are appended to
\* it; without a summary the rendered digest is the message.
NotifyMessage(r) ==
  LET problems == SourceProblems(r.stats)
      message  == IF r.summary = "" THEN RenderText(r)
                  ELSE [RenderText(r) EXCEPT !.findings = <<>>, !.problems = problems]
  IN  [message EXCEPT !.marked = (problems # {})]

SinkKinds == {"email", "webhook", "homeassistant"}

Message(kind, r) ==
  CASE kind = "email" -> RenderText(r)
    [] kind = "webhook" -> ToJSON(r)
    [] kind = "homeassistant" -> NotifyMessage(r)

-----------------------------------------------------------------------------
\* Mutant: one delivered sink is enough.
RunSucceeded_anySink(stats, sinks) ==
  /\ sinks = <<>> \/ \E k \in DOMAIN sinks : sinks[k] = "ok"
  /\ stats = <<>> \/ \E i \in DOMAIN stats : stats[i].err = NoLoss \/ Partial(stats[i])

\* Mutant: a partial source is a failed one.
RunSucceeded_partialFails(stats, sinks) ==
  LET failed == {i \in DOMAIN stats : stats[i].err # NoLoss}
  IN  /\ \A k \in DOMAIN sinks : sinks[k] = "ok"
      /\ stats = <<>> \/ failed # DOMAIN stats

\* The success rule of a run: every sink delivered and, unless none is
\* configured, some source returned at least a partial answer.
RunSucceeded(stats, sinks) ==
  LET failed == {i \in DOMAIN stats : stats[i].err # NoLoss /\ ~Partial(stats[i])}
  IN  /\ \A k \in DOMAIN sinks : sinks[k] = "ok"
      /\ stats = <<>> \/ failed # DOMAIN stats
=============================================================================
