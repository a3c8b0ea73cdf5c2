------------------------------- MODULE Collect ------------------------------
(***************************************************************************)
(* The inside of a source: Collect and its query loop for Elasticsearch    *)
(* and for Prometheus (internal/source), httpx.Do below it, the checks     *)
(* that turn a response into a count or a loss, and the one-line error     *)
(* that names the losses (internal/source/errors.go).                      *)
(*                                                                         *)
(* A query has a true count, and its endpoint a mood, which says how it    *)
(* treats the request.  The code sees neither of them, only responses.     *)
(***************************************************************************)
EXTENDS Report

CONSTANTS
  Setups,     \* sources to look at: [type, queries, moods, truths, lengths]
  Ceiling,    \* Elasticsearch counts so far unless told to count on (10000)
  MinInt,     \* the least int, what a NaN becomes on some machines
  HeadBytes,  \* length of the `query "name": ` that begins a message
  Timely      \* only a request that hangs outlasts the module timeout

EsForms == {"tracked", "default", "untracked"}
PromForms == {"vector", "matrix", "scalar", "nan", "string"}
Moods == {"good", "busy", "down", "broken", "short", "hangs"}

ASSUME CollectAssumption ==
  /\ \A u \in Setups :
       /\ u.type \in {"elasticsearch", "prometheus"}
       /\ u.queries \in Seq([title : Nat, warning : Nat, critical : Nat,
            form : IF u.type = "elasticsearch" THEN EsForms ELSE PromForms]) \ {<<>>}
       /\ u.moods \subseteq Moods /\ u.truths \subseteq Nat
       /\ \A b \in u.lengths : b \in Nat /\ b >= HeadBytes
  /\ Ceiling \in Nat /\ MinInt \in Int /\ MinInt < 0 /\ Timely \in BOOLEAN
  /\ HeadBytes \in 1 .. 60

VARIABLES
  setup, mood, truth,  \* the source, and the world behind its queries
  phase,               \* next, sending, backoff, returned
  tries,               \* requests of the current query
  over,                \* the context of the source is over
  found,               \* the findings [n, count, severity]
  lost,                \* the failed queries [n, bytes], the length of the message
  err                  \* what QueryErrors made of them

world == <<setup, mood, truth>>
vars == <<world, phase, tries, over, found, lost, err>>

NoError == [failed |-> 0, total |-> 0, bytes |-> 0, named |-> {}]
Queries == DOMAIN setup.queries
Attempts == IF setup.type = "elasticsearch" THEN 2 ELSE 1

Init ==
  /\ setup \in Setups
  /\ mood \in [Queries -> setup.moods] /\ truth \in [Queries -> setup.truths]
  /\ phase = "next" /\ tries = 0 /\ over = FALSE
  /\ found = <<>> /\ lost = <<>> /\ err = NoError

Current == Len(found) + Len(lost) + 1
Query == setup.queries[Current]
Mood == mood[Current]
FailsNow == Mood = "down" \/ (Mood = "busy" /\ tries = 1)

-----------------------------------------------------------------------------
(* The endpoints.  A search that timed out or lost shards answers with what *)
(* it has; hits.total stops at the ceiling, or is absent, when the query    *)
(* did not ask for a full count.                                            *)

Retryable(status) == status = 429 \/ status >= 500
Busy == {429, 503}

Total(form, c) ==
  CASE form = "untracked" -> [value |-> 0, relation |-> "absent"]
    [] form = "default" /\ c > Ceiling -> [value |-> Ceiling, relation |-> "gte"]
    [] OTHER -> [value |-> c, relation |-> "eq"]

Hits(c) == [status |-> 200, decodes |-> TRUE, timedOut |-> FALSE, failed |-> 0,
            total |-> Total(Query.form, c)]
EsError(status) == [Hits(0) EXCEPT !.status = status]

EsReplies ==
  LET c == truth[Current]
  IN  CASE FailsNow -> {EsError(status) : status \in Busy}
        [] Mood = "broken" -> {EsError(400), [Hits(c) EXCEPT !.decodes = FALSE]}
        [] Mood = "short" ->
             {[Hits(part) EXCEPT !.timedOut = TRUE] : part \in 0 .. c}
             \cup {[Hits(part) EXCEPT !.failed = 1] : part \in 0 .. c}
        [] Mood = "hangs" -> {}
        [] OTHER -> {Hits(c)}

\* Samples are floats, counted here in halves; a series of an instant query has
\* one sample, and a range query may return a series without any.
Split(c) == IF c = 0 THEN {<<>>, <<<<0>>>>}
            ELSE {<<<<2 * c>>>>, <<<<2 * c - 1>>, <<1>>>>, <<<<-1>>, <<2 * c + 1>>>>}
Ranged(series) == {[i \in DOMAIN series |-> <<5>> \o series[i]], <<<<>>>> \o series}

Results(c) ==
  CASE Query.form = "vector" -> {[type |-> "vector", nan |-> FALSE, series |-> s] : s \in Split(c)}
    [] Query.form = "matrix" ->
         {[type |-> "matrix", nan |-> FALSE, series |-> s] : s \in UNION {Ranged(t) : t \in Split(c)}}
    [] Query.form = "scalar" -> {[type |-> "scalar", nan |-> FALSE, series |-> <<<<2 * c>>>>]}
    [] Query.form = "nan" -> {[type |-> "vector", nan |-> TRUE, series |-> <<<<0>>>>]}
    [] OTHER -> {[type |-> "string", nan |-> FALSE, series |-> <<>>]}

PromReplies ==
  LET Answers(c, warned) == [error : {FALSE}, warnings : {warned}, value : Results(c)]
      c == truth[Current]
  IN  CASE FailsNow \/ Mood = "broken" -> [error : {TRUE}, warnings : {FALSE}, value : Results(0)]
        [] Mood = "short" -> UNION {Answers(part, TRUE) : part \in 0 .. c}
        [] Mood = "hangs" -> {}
        [] OTHER -> Answers(c, FALSE)

-----------------------------------------------------------------------------
(* How the code reads a response: why it refuses one, and the count of one  *)
(* it takes.                                                                *)

\* Mutant: the partial-failure signals of a 200 are not looked at.
EsRefuses_trusting(r) ==
  IF r.status # 200 THEN "status"
  ELSE IF ~r.decodes THEN "undecodable"
  ELSE "none"

EsRefuses(r) ==
  IF r.status # 200 THEN "status"
  ELSE IF ~r.decodes THEN "undecodable"
  ELSE IF r.timedOut THEN "timeout"
  ELSE IF r.failed > 0 THEN "shards"
  ELSE IF r.total.relation \notin {"absent", "eq"} THEN "bound"
  ELSE "none"

PromRefuses(r) ==
  IF r.error THEN "api" ELSE IF r.warnings THEN "warnings" ELSE "none"

\* What the first n values of g add up to, for each n.
Sums(g) == LET total[n \in 0 .. Len(g)] == IF n = 0 THEN 0 ELSE total[n - 1] + g[n] IN total

\* math.Round of a number of halves: half away from zero.
Round(h) == IF h >= 0 THEN (h + 1) \div 2 ELSE -((1 - h) \div 2)

\* The last samples of all series, added up and rounded once.  What a NaN is as
\* an int depends on the machine.
flatten(v) ==
  LET last == [s \in DOMAIN v.series |->
                 IF v.series[s] = <<>> THEN 0 ELSE v.series[s][Len(v.series[s])]]
  IN  CASE v.type = "string" -> {0}
        [] v.nan -> {MinInt, 0}
        [] OTHER -> {Round(Sums(last)[Len(last)])}

Refuses(r) == IF setup.type = "elasticsearch" THEN EsRefuses(r) ELSE PromRefuses(r)
CountsOf(r) == IF setup.type = "elasticsearch" THEN {r.total.value} ELSE flatten(r.value)

-----------------------------------------------------------------------------
(* QueryErrors.  A length is in bytes; a message is longer than its head.   *)

sep == 3
ellipsis == 3
maxQueryMessage == 200
minQueryMessage == 64
maxQueryErrors == 800

Least(a, b) == IF a < b THEN a ELSE b
Greatest(a, b) == IF a > b THEN a ELSE b

\* What survives of the text within a limit: all of it, or room for the ellipsis
\* is taken from it.
Kept(bytes, limit) == IF bytes <= limit THEN bytes ELSE limit - ellipsis

\* Mutant: every message gets its full length, first come, first served.
Budget_unshared(n) == maxQueryMessage

\* An even share of the line for each of n messages.
Budget(n) ==
  Least(Greatest((maxQueryErrors - (n - 1) * sep) \div n, minQueryMessage), maxQueryMessage)

QueryErrors(total, errs) ==
  LET n == Len(errs)
      excerpts == [i \in 1 .. n |-> Least(errs[i].bytes, Budget(n))]
      Start(i) == Sums(excerpts)[i - 1] + (i - 1) * sep
      line == Start(n) + excerpts[n]
      Named(i) == /\ HeadBytes <= Kept(errs[i].bytes, Budget(n))
                  /\ Start(i) + HeadBytes <= Kept(line, maxQueryErrors)
  IN  IF n = 0 THEN NoError
      ELSE [failed |-> n, total |-> total, bytes |-> Least(line, maxQueryErrors),
            named |-> {errs[i].n : i \in {i \in 1 .. n : Named(i)}}]

-----------------------------------------------------------------------------
(* The loop of Collect.                                                     *)

Begin ==
  /\ phase = "next" /\ Current \in Queries
  /\ phase' = "sending" /\ tries' = 1
  /\ UNCHANGED <<world, over, found, lost, err>>

\* The failures whose message quotes what the other side said.
Quoting == {"transport", "status", "api", "warnings"}
MessageBytes(why) == IF why \in Quoting THEN setup.lengths ELSE {HeadBytes}

\* Mutant: Collect returns at the first failure.
Fail_stops(why) ==
  /\ \E b \in MessageBytes(why) :
       lost' = lost \o [i \in 1 .. Len(setup.queries) - Current + 1 |->
                          [n |-> Current + i - 1, bytes |-> b]]
  /\ phase' = "next" /\ tries' = 0
  /\ UNCHANGED <<world, over, found, err>>

\* The query is lost, and the loop goes on with the next one.
Fail(why) ==
  /\ \E b \in MessageBytes(why) :
       lost' = Append(lost, [n |-> Current, bytes |-> b])
  /\ phase' = "next" /\ tries' = 0
  /\ UNCHANGED <<world, over, found, err>>

\* The body of an Elasticsearch query is a template of the operator.
TemplateFails ==
  /\ phase = "next" /\ Current \in Queries
  /\ setup.type = "elasticsearch" /\ Mood = "broken"
  /\ Fail("template")

BackOff == phase' = "backoff" /\ UNCHANGED <<world, tries, over, found, lost, err>>

\* Mutant: one attempt too many.
TransportFails_again ==
  /\ phase = "sending" /\ ~over /\ FailsNow
  /\ IF tries <= Attempts THEN BackOff ELSE Fail("transport")

\* A transport error that is not the end of the context.
TransportFails ==
  /\ phase = "sending" /\ ~over /\ FailsNow
  /\ IF tries < Attempts THEN BackOff ELSE Fail("transport")

\* A response.  httpx.Do asks once more after a 429 or a 5xx.
Respond ==
  /\ phase = "sending" /\ ~over
  /\ \E r \in IF setup.type = "elasticsearch" THEN EsReplies ELSE PromReplies :
       \/ /\ setup.type = "elasticsearch" /\ Retryable(r.status) /\ tries < Attempts
          /\ BackOff
       \/ /\ setup.type = "elasticsearch" => ~(Retryable(r.status) /\ tries < Attempts)
          /\ Refuses(r) # "none" /\ Fail(Refuses(r))
       \/ /\ Refuses(r) = "none"
          /\ \E c \in CountsOf(r) :
               found' = Append(found, [n |-> Current, count |-> c, severity |-> Score(c, Query)])
          /\ phase' = "next" /\ tries' = 0
          /\ UNCHANGED <<world, over, lost, err>>

Retry ==
  /\ phase = "backoff"
  /\ phase' = "sending" /\ tries' = tries + 1
  /\ UNCHANGED <<world, over, found, lost, err>>

\* Mutant: a request is not bound to the context of the source.
ContextEnds_detached == phase = "backoff" /\ over /\ Fail("context")

\* The context ends the request or the backoff, without another attempt.
ContextEnds == phase \in {"sending", "backoff"} /\ over /\ Fail("context")

\* The one deadline of all the queries of the source.
Expire ==
  /\ phase \in {"sending", "backoff"} /\ ~over
  /\ Timely => phase = "sending" /\ Mood = "hangs"
  /\ over' = TRUE
  /\ UNCHANGED <<world, phase, tries, found, lost, err>>

Return ==
  /\ phase = "next" /\ Current \notin Queries
  /\ phase' = "returned" /\ err' = QueryErrors(Len(setup.queries), lost)
  /\ UNCHANGED <<world, tries, over, found, lost>>

Returned == phase = "returned" /\ UNCHANGED vars

Next == \/ Begin \/ TemplateFails \/ TransportFails \/ Respond \/ Retry
        \/ ContextEnds \/ Expire \/ Return \/ Returned

Spec == Init /\ [][Next]_vars

\* Timers fire and the process runs; no endpoint has to respond.
Fairness ==
  /\ WF_vars(Begin \/ TemplateFails) /\ WF_vars(Retry) /\ WF_vars(Return)
  /\ WF_vars(ContextEnds) /\ WF_vars(Expire)

FairSpec == Spec /\ Fairness

-----------------------------------------------------------------------------
(* Properties.                                                              *)

Losses == {lost[i].n : i \in DOMAIN lost}

\* Every variable has the type of the value the code keeps.
TypeOK ==
  /\ setup \in Setups
  /\ mood \in [Queries -> Moods] /\ truth \in [Queries -> Nat]
  /\ phase \in {"next", "sending", "backoff", "returned"}
  /\ tries \in 0 .. Attempts
  /\ over \in BOOLEAN
  /\ found \in Seq([n : Queries, count : Int, severity : Severity])
  /\ lost \in Seq([n : Queries, bytes : Nat])
  /\ err \in [failed : Nat, total : Nat, bytes : 0 .. maxQueryErrors, named : SUBSET Nat]

\* A count that is reported is the true one: no timeout, lost shard, ceiling,
\* warning or rounding of parts makes a number that is quietly too small.  The
\* exceptions are queries that ask for no total or for no number (run, Collect,
\* flatten).
NeverAnUndercount ==
  \A i \in DOMAIN found :
    LET n == found[i].n
    IN  setup.queries[n].form \notin {"untracked", "nan", "string"} => found[i].count = truth[n]

\* What keeps a query from its count although its endpoint answers in full.
OverTheCeiling(n) == setup.queries[n].form = "default" /\ truth[n] > Ceiling
Healthy(n) ==
  /\ mood[n] = "good" \/ (mood[n] = "busy" /\ setup.type = "elasticsearch")
  /\ ~OverTheCeiling(n)

\* As long as the deadline holds, no query takes its neighbours with it: each
\* one whose endpoint answers in full, at the second attempt at the latest, has
\* its finding, whatever the others do (Collect, httpx.Do).
NeighboursSurvive ==
  phase = "returned" /\ ~over =>
    \A n \in Queries : Healthy(n) => \E i \in DOMAIN found : found[i].n = n

\* The line that goes to a phone never outgrows its limit, and up to eleven
\* failures it names every query that failed, however long the messages are
\* (QueryErrors, "naming every query that failed matters more than quoting any
\* one of them in full").
LossesAreNamed ==
  phase = "returned" =>
    /\ err.bytes <= maxQueryErrors /\ err.failed = Len(lost)
    /\ Len(lost) <= 11 => err.named = Losses

\* The loop settles the queries in turn, has one under way while it waits, and
\* another attempt left while it backs off.
LoopInTurn ==
  /\ Len(found) + Len(lost) <= Len(setup.queries)
  /\ phase \in {"sending", "backoff"} => Current \in Queries /\ tries >= 1
  /\ phase = "backoff" => tries < Attempts
  /\ \A n \in 1 .. Len(found) + Len(lost) : n \in Losses \/ \E i \in DOMAIN found : found[i].n = n

\* A query is lost to its endpoint or to the deadline, with a message that at
\* least has its head.
LossesHaveAReason ==
  \A i \in DOMAIN lost : lost[i].bytes >= HeadBytes /\ (over \/ ~Healthy(lost[i].n))

\* What holds all along, and is enough to see that it keeps holding.
CollectInv ==
  /\ TypeOK /\ LoopInTurn /\ LossesHaveAReason /\ NeverAnUndercount
  /\ phase = "returned" =>
       Current \notin Queries /\ err = QueryErrors(Len(setup.queries), lost)

-----------------------------------------------------------------------------
(* The source is what DigestRun takes it for.                               *)

View == INSTANCE Collector WITH
  Counts <- Int,
  Legible <- 11,
  size <- Len(setup.queries),
  found <- [i \in DOMAIN found |-> found[i].count],
  lost <- [i \in DOMAIN lost |-> lost[i].n],
  failed <- err.failed,
  total <- err.total,
  named <- err.named,
  returned <- phase = "returned"

\* Whatever the endpoints do, even nothing at all, the queries are settled one
\* by one and the source returns, with an error that names every loss up to
\* eleven: it implements the collector of the runner (Collect under the deadline
\* of Runner.collect).
ImplementsCollector == View!Spec

-----------------------------------------------------------------------------
(* What the documentation says, where the code does otherwise.              *)

\* elasticsearch.go: "A count is only reported when the cluster says it is
\* complete".
OnlyCompleteCounts == \A i \in DOMAIN found : found[i].count = truth[found[i].n]

\* errors.go: "one broken query costs its own finding and nothing else".
OneQueryCostsOnlyItself == phase = "returned" => \A n \in Losses : ~Healthy(n)
=============================================================================
