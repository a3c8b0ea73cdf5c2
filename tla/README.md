# Verification of digestron

TLA+ models of digestron, the TLC runs that check them and the theorems that
TLAPS proves about them. Paths are those of the repository.

digestron collects findings from Elasticsearch and Prometheus, ranks them, lets
an LLM summarize them, and delivers the digest to e-mail, webhooks and Home
Assistant. It runs once (`run`) or as a daemon (`serve`).

## Inventory

| component | state | operations | interacts with | what is hard |
|---|---|---|---|---|
| runner (`internal/digest/run.go`) | the report under construction, one slot per source and sink | `Run`: collect, sort, verdict, summarize, deliver | sources, LLM, sinks (calls under a deadline each) | goroutines that finish in any order or late; a report that must be complete when it is read |
| sources (`internal/source/*`) | none between runs | `Collect`: one query after the other, keeping what it got and what it lost; `QueryErrors`: one line about the losses | endpoints, `httpx` | a 200 that is not the whole truth, one deadline for all queries, a line of bounded length that is to name every loss |
| severity, types, rendering (`internal/digest`) | none | `Score`, `Verdict`, `sortFindings`, `Partial`, `SourceProblems`, `RenderText` | everybody | several places must agree on what "partial" means |
| LLM (`internal/llm`), post-processing (`internal/digest/postprocess.go`) | none | `retrier.Complete`, the providers' `Complete` and `Check`, `PostProcess` | backend | which errors to retry, the backoff against the deadline, tokens of failed attempts, texts in which tags, fences and preambles are combined |
| HTTP client (`internal/httpx`) | connection pool | `Do` | every endpoint | a retry of a request that had arrived |
| sinks (`internal/sink/*`) | none | `Send` | endpoints | duplicates, late deliveries, messages that hide losses |
| metrics, success rule (`internal/cli/build.go`) | counters and gauges | `Record` | run and serve | the exit code follows from it; a counter panics on a negative number |
| run command (`internal/cli/run.go`) | context of the command | run, record, append, exit code | signals, CronJob | a signal at any stage |
| serve command (`internal/cli/serve.go`) | scheduler, HTTP server | ticks, startup run, shutdown | store, metrics | overlapping runs, kills, a scheduler that is stuck |
| history store (`internal/store`) | list in memory under a mutex, a JSON file | `Open`, `Append`, `List`, `Get` | runs, web UI, other processes with the file | crashes inside a persist, failing disks, concurrent writers |
| web UI (`internal/web`) | none | two read-only endpoints | store | order, entries that are evicted |
| configuration (`internal/config`), registries, factories | none | `Load`, `Validate`, `Build` and the `New` of every module type | every subcommand calls it first | what is admitted, and what is found only when a module is used |
| `check` command | none | `Build`, then one probe after the other | endpoints | must tell what `run` would do with the same file |
| CronJob (`deploy/cronjob.yaml`) | the job and its failed pods | start, replace, give up at a deadline | exit code of `run` | a window that is pushed again because the exit code said less than what happened |

What makes each correct is listed under "What the runs show"; the hazards that
the properties are for are in `PROJECT.json`, each at its line.

## Modules

| module | models |
|---|---|
| `Report` | pure vocabulary: severities, scoring, verdict, stable sort, what a source's outcome means, what each kind of sink tells its reader, the success rule |
| `DigestRun` | one run, from the goroutines of the sources to the exit code, with deadlines, retries, lost and late requests and signals |
| `DigestPromise` | what a run promises: queries resolved once, one tale told to all, an exit code that follows |
| `Collect` | the inside of a source of either type: the query loop, `httpx.Do` below it, which responses become a count, `QueryErrors` |
| `Collector` | what `DigestRun` assumes of a source; `Collect` implements it |
| `PostProcess` | from the text of a model to the summary, as operators |
| `Completion` | the LLM retrier around a provider, how the providers read answers, and `PostProcess` on the text they return |
| `History` | the store: memory, mutex, every step of a persist, processes that are killed and restarted or share the file |
| `RunLog` | what the store promises: a list, a durable copy that follows in one step, crashes |
| `Serve` | the daemon: ticks, the startup run, shutdown, metrics; extends `History` |
| `Startup` | from a configuration to the modules of a process, as operators |
| `CronJob` | the job of Kubernetes around `run`, and `check` before it; extends `Startup` and `Report` |
| `DigestRunMC`, `CollectMC`, `CompletionMC`, `HistoryMC`, `ServeMC`, `CronJobMC` | instances |
| `DigestRunProofs`, `DigestOutcomeProofs`, `PromiseProofs` | theorems about `Report` and `DigestRun`, each module on top of the one before |
| `HistoryProofs`, `ServeProofs`, `CollectProofs`, `CompletionProofs`, `CronJobProofs` | theorems about the module of that name |

`DigestRun` is the middle of the project. Below it, `Collect` and `Completion`
open up two of its calls; above it, `Serve` and `CronJob` show what happens
when runs follow or overlap each other.

### DigestRun

`pc` is the main goroutine. `collector[s]`, `sender[k]` and `llm` are the
goroutines and calls it waits for; the phase `late` means that the deadline of
their context has passed. `wire[k]` holds requests on their way to a sink and
`inbox[k]` what its endpoint received: `Accept` may take a request off the wire
long after its sender gave up, which is how a retry delivers twice.

| code | actions |
|---|---|
| `Source.Collect`: a query answers, is lost, the deadline passes, the slot is written | `Answer`, `Lose`, `ExpireSource`, `Return` |
| `Runner.collect`: the WaitGroup, the concatenation of the slots | `Wait`, `Gather` |
| sort and verdict | `Judge` |
| `Runner.summarize` and `retrier.Complete` | `SkipLLM`, `RequestFails`, `Ask`, `RetryLLM`, `LLMFails`, `Complete`, `ExpireLLM`, `AbandonLLM` |
| `Runner.deliver` and `Send` | `Compose`, `ComposeFails`, `Dial`, `Accept`, `Delivered`, `RetrySend`, `Refused`, `ExpireSink`, `Abandon`, `Settle` |
| `App.Record`, `Store.Append`, exit | `Record`, `Panic`, `AppendHistory`, `Exit` |
| SIGINT, SIGTERM | `Cancel` |

Names and titles are numbers (the code only compares them), a message is the
record of what its reader can see, and a count is an integer from a small set.
The error of a source is what `QueryErrors` leaves of it: how many of how many
queries failed, which is never cut, and the names that still fit the line. Which
ones these are is open beyond `Legible` losses; `Collect` has the lengths, and
shows that up to eleven losses are all named when the head of each message, with
the name in it, has at most 60 bytes. For longer names nothing is promised, which
is `Legible` = 0. `report.tokens` stands for both token numbers of a completion;
only their sign matters, because `Record` adds them to a counter.
`RequestFails` is the error return of `BuildRequest`, whose random source does
not fail with the Go version of `go.mod`; the control is kept.

### History and Serve

A run is a number, its place in the order of `GeneratedAt`, which is the time it
started. `store[p]` is the `Store` of a process with the holder of the mutex
and the step of the persist it is in. `PersistFails` is any error of
`persist`; `Crash` and `Kill` take the process down with whatever it held.
`Open` may find the file unreadable: `Build` then keeps runs in memory only.

`Serve` replaces the environment of `History` by the daemon: `Tick` in singleton
mode, `StartupRun` outside it, `Deliver`, `Record`, `AppendRun` and `PersistRun`
inside a run, `Signal`, `ShutdownScheduler`, `StopTimeout` and `Return` for the
shutdown, `ListenFails` for a server that cannot listen, `CrashServe` for a kill
or a panic. The shutdown waits for the job of the scheduler as long as the
scheduler's stop timeout allows, and not at all for the startup run. The variable
`cut` is what the properties need: the runs that something other than an orderly
shutdown ended. `bounded` is false in a process whose `llm.timeout` is zero: the
run of a tick has no context to cancel it, so it may then wait for good. The scheduler library is
external: a tick that finds the job running is dropped.

### Collect

A query has a true count, and its endpoint has a mood: it answers (`good`),
is overloaded at the first request only (`busy`) or for good (`down`), rejects the
query or answers with garbage (`broken`), answers with a part (`short`), or never
(`hangs`). The code sees responses only; truth and mood are what the properties
compare its counts with. The form of a query is what the operator wrote: whether
it asks Elasticsearch for a full total, the type of the Prometheus result.
Samples are counted in halves, so that rounding happens after the addition, as in
`flatten`. Lengths of messages are in bytes; `HeadBytes` is the part of a message
that names its query. A message is of the length of its head when the failure
quotes nothing, and of any of the lengths of the instance otherwise.

| code | actions |
|---|---|
| the loop of `Collect`, its templates | `Begin`, `TemplateFails`, `Return` |
| `httpx.Do`: a response, an error, the backoff, the end of the context | `Respond`, `TransportFails`, `Retry`, `ContextEnds` |
| the deadline that `Runner.collect` gives to the source | `Expire` |

The Prometheus client has no `httpx.Do` below it and tries once.

### Completion and PostProcess

An answer is a status and, for a 200, a class of body; each provider reads the
classes as its code does. `used` counts the tokens that bodies state, `returned`
those that reach the Response. `Summarize` takes any text of the instance through
`PostProcess`. There a text is a sequence of tokens, and a tag, a fence or a
preamble counts as one character, which only the cap can tell. A tag that is
formed when the removal of another one joins its two halves is left out.

### Startup and CronJob

A settings block is the set of fields that are given and the set of fields whose
value is malformed. `LookedAt` says which malformed values a factory finds; the
others make the module fail when it is used (`Unusable`), which the exit code has
to tell. A value from the environment or from the file is a sequence of at most
one value, so that the precedence of the layers is a concatenation.

`LoadConfig` is `Load` and `Build` of the command, `CheckBegins`, `Probe` and
`CheckEnds` are `check`. `SourceReturns`, `Deliver`, `Send`, `SendIsCancelled` and
`RecordAndExit` are what is left of a run when its goroutines and wires are left
out: the losses of each source, and for each attempt of a sink whether its
endpoint took the digest and whether the sender knows. `StartJob`, `Deadline`,
`Kill` and `PodEnds` are the controller, which is external and modelled from
`deploy/cronjob.yaml`. A behaviour has one job, for one window.

## What the runs show

| run | bounds | result |
|---|---|---|
| `run_main` | two sources (two queries and one), Home Assistant with two attempts and e-mail, with and without an LLM with two attempts, counts -1, 0 and 4, token numbers -1 and 0, room for one name in the line of errors | every message has how many queries a source lost, no name of an answered one, and all names as long as there is room (`IncompleteIsNamed`), verdict and order are right (`WorstFirst`), a reported delivery happened (`DeliveryIsTruthful`), no more copies than attempts (`AtMostAttempts`), metrics and messages agree (`MetricsMatchMessages`), the exit code is true (`ExitTellsTheTruth`), and the invariant that the proofs use holds (`PromiseInv`) |
| `run_live` | one source with two queries, one webhook, without an LLM and with one that has a deadline or not, counts -1 and 4 | a run ends although nobody answers, or is left to an LLM without a deadline (`Terminates`); a signal ends it in any case (`CancelEndsTheRun`); it implements `DigestPromise` (`KeepsPromise`) |
| `collect` | three Elasticsearch queries in every mood, below and above the ceiling; two Prometheus sources with every type of result; sources of 11 and 13 failing queries | no count is too small (`NeverAnUndercount`), no query costs another one its finding while the deadline holds (`NeighboursSurvive`), the line of errors keeps its limit and names all losses up to eleven (`LossesAreNamed`), and the source is the one that `DigestRun` assumes, its return included (`ImplementsCollector`); `CollectInv` holds |
| `completion` | three attempts, both providers, every class of answer; every text of up to four tokens, nested tags of six, words of seven, a cap of five | only transient errors are retried (`OnlyTransientIsRetried`), the result is the last outcome (`ResultIsTheLastOutcome`), the deadline ends the call (`ReturnsAfterTheDeadline`); closed reasoning has no say in the summary (`ReasoningHasNoSay`), an answer with reasoning before it, a fence around it and a preamble inside comes out bare (`WrappingIsStripped`), the cut of the cap is at a blank, or at the limit when the half before it has none, and the ellipsis comes on top (`CutIsAtABlankOrTheLimit`); `CompletionInv` holds |
| `serve` | three runs, three boots, one kill, limits 0 (the default, which never bites here) and 2, an LLM with and without a deadline | the file is always loadable (`FileIsASnapshot`), a run is in it when its Append returns nil and leaves it only when the list that is renamed is full, at the limit in force, of runs appended later (`AckedSurvives`), memory and file agree (`MemoryIsTheFile`), `RunLog` is implemented (`ImplementsRunLog`); runs of ticks do not overlap (`CronRunsDoNotOverlap`), are listed newest first (`TickedRunsNewestFirst`), never turn the last-run gauge back: while it shows the run of a tick, no later tick has a run that ended, was appended, persisted or killed (`LastRunIsNewest`), and they come to their end at a shutdown (`ShutdownLetsTheJobFinish`); the scheduler's job never stays busy, unless its run is left to an LLM without a deadline (`SchedulerRecovers`); `ServeInv` holds |
| `cronjob` | 36 configurations, valid and not, up to two sources and two sinks, `backoffLimit` 1 | what is admitted is what `DigestRun` covers (`AdmittedConfigsRun`), a complete job delivered (`CompleteMeansDelivered`), copies are bounded and none comes from an invalid configuration (`PushesAreBounded`), `check` tells the fate of the configuration (`CheckTellsTheConfig`), a digest that reached everybody, as far as the senders were told, is not pushed again unless the pod was killed or panicked (`NotPushedAgain`), the job ends (`JobEnds`); `JobInv` holds |

The bounds are the smallest where the interesting cases occur: a source that
answers in part next to one that fails or answers, names that are not in the
order of the configuration, a second attempt racing a late first one; a third
query behind two that succeed, are lost or hang, a count above the ceiling, the
numbers of failures at which the line of errors still holds (11) and no longer
holds (13) every name; a text with a nested tag, a fence and a preamble in
either order, a blank in either half of the cap; three runs against a limit of
two, so that one run is pushed out and no run is by a single newer one, and a
limit that changes across restarts, a startup run beside a tick's run, a persist
cut by a kill at each step; a job whose first pod delivers and fails. Every number above
is a constant of the cfg or a definition of an MC module; no guard of a model
other than those on `MaxRuns`, `MaxCrashes` and `MaxBoots` bounds a behaviour.

### Disagreements with the documentation

| run | what the code does |
|---|---|
| `finding_negative_count` | a negative count kills the process after the delivery, with the status of a usage error |
| `finding_shared_history` | two processes on one file lose persisted runs |
| `finding_overlap` | the startup run overlaps a tick's run; serve.go says never. The web UI may then list the older run above the newer one, although store.go says newest first |
| `finding_undercount` | a custom query that switches the total off reports a complete count of zero, although only counts that the cluster calls complete are to be reported |
| `finding_hanging` | a query that hangs costs every later query of its source its finding, although one broken query is to cost only itself |
| `finding_postprocess` | post-processing is to be the guarantee, and four of its promises are broken by one text: reasoning without a closing tag stays, a fence behind a preamble stays, the text is cut in the middle of a word when its last blank is in the first half of the cap, and the ellipsis comes on top of what config.go and config.example.yaml call a hard cap |

Smaller ones, that no run states but that the models contain:

- `llm.timeout: 0` is a request without a deadline, although httpx says that
  every request has one, and nothing in `Validate` refuses it. `Terminates` and
  `SchedulerRecovers` therefore except `LeftToTheLLM`: in the daemon such a run
  keeps the singleton job, and every later tick with it, for good. The job of
  `CronJob` ends by its own deadline only.
- Tokens of completions that fail are not counted as consumed
  (`ResultIsTheLastOutcome` says so: what is returned is that of a success).
- A negative token number of a provider kills the process like a negative count
  (`ExitTellsTheTruth` has both).
- The startup run may end after the run of a tick that started later, and sets
  the last-run gauge back to its own start, although metrics.go calls it the time
  of the last run. This is the overlap of `finding_overlap` again;
  `LastRunIsNewest` is about ticks.
- Nested think tags take the answer before them along; `ReasoningHasNoSay` is
  about texts whose tags are not nested.
- An empty variable of the environment counts as set when `${...}` is expanded.
  A required setting is then missing and refused; an optional one, like the
  password of Elasticsearch, is empty without a word.
- "Any invalid module fails here" (build.go) holds of what factories look at.
  An e-mail address that does not parse or a URL that does not fails the run
  instead (`Unusable`), with exit code 1, after other sinks got the digest.
- The line of errors names every loss up to eleven of them, whatever their
  messages, when a name with what is before it has at most 60 bytes
  (`LossesAreNamed`); with thirteen, the cut takes the last names. A message of a
  run then still has the number of losses (`IncompleteIsNamed`).
- A digest whose delivery was not confirmed, because the answer was lost, is
  pushed again by a retry or by the next pod (`NotPushedAgain` is about what the
  senders were told).

### Fairness

- `DigestRun`: goroutines are scheduled and timers fire; an endpoint never has to
  answer. Every source and sink has a deadline because `timeoutOr` replaces a
  timeout of zero; a call to the LLM has one unless its timeout is zero.
- `Collect`: the loop runs, backoffs end, the deadline comes and ends a request
  in flight. No endpoint has to respond. That a source returns follows from this
  (`ImplementsCollector`), and is what `DigestRun` takes from it.
- `Completion`: the same, and the transport returns once its context is over.
- `Serve`: a run ends when each of its waits has a deadline, and need not end
  when the LLM has none (`Terminates` with its exception, here the `bounded` in
  `FairServe`); a goroutine that waits for the
  mutex gets it some time (Go's mutex does not starve, hence the strong fairness
  of `AppendRun`), the steps of a persist return.
- `CronJob`: the deadline of the job passes, a pod that ignores its signal is
  killed, the controller sees the end of a pod. The run itself may hang.

Nothing forces a tick, a signal, a kill, a restart or an operator.

## What is proved

The theorems hold for every value of the constants under the named assumptions
of the modules. TLC evaluates each assumption on its instances, and each
inductive invariant is an invariant of a run, or part of one.

| module | theorems |
|---|---|
| `DigestRunProofs` | `TypeCorrect`, `RunInvariant`, `NoSilentGap`, `SortFindingsIsStableSort` |
| `DigestOutcomeProofs` | `OutcomeInvariant`, `MessagesAreWorstFirst`, `DeliveryClaimsAreTrue`, `CopiesAreBounded`, `MetricsAgreeWithMessages`, `ExitCodeIsTruthful` |
| `PromiseProofs` | `PromiseInvariant`, `RunKeepsPromise` |
| `HistoryProofs` | `HistoryInvariant`, `FileIsAlwaysASnapshot`; for one process `OneProcessKeepsItsHistory`, `OneProcessImplementsRunLog` |
| `ServeProofs` | `ServeInvariant`, `TicksDoNotOverlap`, `GaugeIsNewest`, `ShutdownWaits`, `ListIsNewestFirst`, `DaemonKeepsItsHistory`, `DaemonImplementsRunLog` |
| `CollectProofs` | `CollectInvariant`, `CountsAreTrue`, `NeighboursAreIndependent`, `ErrorsNameTheLosses`, `SourceStepsAreACollectors` |
| `CompletionProofs` | `CompletionInvariant`, `OnlyTransientOutcomesAreRetried`, `TheLastOutcomeIsReturned`, `ReasoningIsIgnored`, `WrappedAnswersAreBare`, `TheCutIsAtABlankOrTheLimit` |
| `CronJobProofs` | `JobInvariant`, `CollectingPodsAreConfigured`, `CompleteJobsDelivered`, `EndpointsAreNotFlooded`, `CheckIsARehearsal`, `DeliveredWindowsStayDelivered` |

### The run

Assumed (`SourcesAssumption`, `SinksAssumption`, `LLMAssumption`,
`CountsAssumption`, `LegibleAssumption`): names of sources are unique and a source has at least one
query, which `AdmittedConfigsRun` shows of the configurations that are admitted;
a sink has at least one attempt; counts and token numbers are integers, negative ones included; the
LLM may be there and have a deadline or not; `Legible` is any natural number.

- `NoSilentGap` speaks of inboxes and of what happened in the collectors, two
  ends that no single step relates, so the property is not inductive. `RunInv`
  adds the links between them. `SlotsHold`: the join is passed only when every
  goroutine wrote its slot, and the statistics of the report are those of the
  slots, in order. `MessagesHold`: a message is only composed after the join,
  states the problems of the report, and whatever is on a wire or in an inbox is
  the message of its sender. From these two, `ProblemsAreTrue` derives that the
  problems of the report tell the losses of the collectors: one entry per source
  with losses and no other, with their number, and with all their names up to
  `Legible`. For more losses, or longer names, the theorem claims the number only,
  as the code gives no more.
- `SortFindingsIsStableSort`: for findings of any number, `sortFindings` is a
  permutation, no finding precedes one above it, and equal ones keep their
  order. `BeforeIsTotal`, `RankIsInjective` and `RankIsOnto` give the
  permutation. `VerdictIsMaximum` says that `Verdict` is the worst severity.
- The other properties of `run_main` follow from `OutcomeInv`, which has `RunInv`
  and four more links: `SendersHold` (an attempt is on the wire or received and
  never both; a sender stops at its limit), `BodiesHold` (what is sent is
  computed from the report), `FindingsHold` (the findings gathered are the
  answers of the slots, each once, and sorted after `Judge`), `OutcomeHolds` (what
  the metrics and the exit code were computed from is the settled report).
- `RunKeepsPromise` maps every step of `DigestRun` to a step of `DigestPromise` or
  to a stutter. It needs `FatesHold` in `PromiseInv`: what the mapping says of a
  query is what the collector and the slot say of it.

### The history and the daemon

Assumed (`HistoryAssumption`, `ServeAssumption`): bounds are natural numbers, a
limit is any integer, `Serve` has one process.

- Any number of processes, killed at any step, keep `HistoryInv`: the mutex is held
  from the first step of an Append to its last by the process of the run, whose
  entry is the newest in memory, and what is about to be renamed is the whole of
  that list. `FileIsASnapshot` is part of it.
- `AckedSurvives` fails for two processes (`finding_shared_history`). For one
  process it follows, as a property of the rename, from `AloneHolds`: what is in
  the file is in memory as well, unless the list in memory is full of later runs.
  The same facts give the refinement of `RunLog`, whose persist is the one step
  of the rename.
- `Serve` uses the operations of `History` under its own environment, so its
  theorems rest on the lemmas on `Append`, `Persist` and `Crash` of `HistoryProofs`.
  `JobHolds` says that the run of a tick that is not over is the one the job is
  in and the newest of all; `TicksInOrder` that the runs of ticks are appended in
  the order of their starts. `GaugeIsNewest` rests on the first: a run
  that sets the gauge is the newest of all ticks when it ends, those of earlier
  processes included. The runs of `run_on_start` are excepted by the
  properties themselves (`finding_overlap`).

### Sources and LLM

Assumed (`CollectAssumption`): a source has a query, true counts are natural
numbers, the head of a message that names its query has at most 60 bytes.
(`CompletionAssumption`): a provider is asked at least once, a text is not empty.

- `LoopInTurn` and `LossesHaveAReason` make `NeverAnUndercount` inductive: each
  query is answered with a count of its own response, or lost for its own or the
  deadline's reason. `CountsAreTrue` covers `flatten` for any split of a count
  into samples and series; `ErrorsNameTheLosses` covers messages of any lengths,
  where the arithmetic of the budget is done by the lemmas on `Sums`.
- `SourceStepsAreACollectors` is the safety half of `ImplementsCollector`.
- `LogMatchesTries` in `CompletionInv` relates the outcomes so far to the number
  of requests. `TheCutIsAtABlankOrTheLimit` is about texts and limits of any size
  and rests on `CappedIsAtABlankOrTheLimit` and the lemmas on `TrimSpace` and `lastSpace`.
- `ReasoningIsIgnored`: a text and its answer are compared through the places of
  their characters. `RankType` to `AtTheEnd` say what `At` makes of a set of
  places, and `AfterLastCloseOfPlaces` that the second pass is a choice among the
  places the first one kept. In a text whose tags are not nested (`Flat`),
  `OpenedAfter` and `OrphansTip` show that what both keep is what no part up to a
  later place, with more closing tags than opening ones, takes away: the
  definition of `Answer` (`PassesLeaveTheAnswer`). An answer has no tags
  (`AnswerHasNoTags`), and the passes leave a text without tags alone
  (`NothingToStrip`).
- `WrappedAnswersAreBare` follows an answer of any length out of its wrapping:
  `ReasoningGoes` is an instance of `PassesLeaveTheAnswer`, `FenceGoes` removes the
  fence with its language tag, `PreambleGoes` the preamble. Between them the text
  is trimmed several times; `BlanksAroundGo`, `TrimmedOnce`, `TrimmedTail` and
  `TrimmedFront` say that this is the same as once at the end.

### Configuration and job

Assumed (`CronJobAssumption`): `BackoffLimit` is a natural number, modules and
queries are lists. Configurations are otherwise arbitrary, invalid ones included.

- `BuiltMeansAdmitted` says what `Builds` gives: unique names, valid settings,
  titles and timeouts. `BuildsWithAndWithoutLLM` is all that `check` and `run`
  can disagree on.
- `JobInv` has three parts. `AttemptsAddUp`: what an endpoint took is at most the
  attempts of the ended pods and of the present one. `PodIsHonest`: a pod that
  collects was built, its losses include those that are certain, and its code is
  what `RunSucceeded` says; a pod of the past that reached everybody and could
  say so never had a configuration that builds, so there is none.
  `CheckIsHonest`: what `check` says follows from `Builds`.
- `SuccessIsServedAndDelivered` translates the rule on statistics
  (`RunSucceeded`) into sinks and sources, and gives `CompleteJobsDelivered`.

### Only model-checked

- Liveness: `Terminates`, `CancelEndsTheRun`, `ReturnsAfterTheDeadline`,
  `SchedulerRecovers`, `JobEnds`, and the liveness halves of `KeepsPromise` and
  `ImplementsCollector`. Fairness and ENABLED are out of the prover's reach.
- The disagreements above, each a counterexample on an instance.

## Not modelled

- The web UI: two pages that read `List` and `Get`, whose order and content
  `Serve` checks. It keeps no state. (It counts a source that is partial as
  failed.)
- Wording, layout and encoding of messages, prompts and query bodies; custom
  templates of Home Assistant, which replace the default message together with
  the lines on problems.
- Parsing of YAML and flags, weak typing of settings, redaction, usage texts,
  logging, build information.
- Details of findings: buckets, samples per series, links; histograms and labels
  of metrics.
- Connection pools, TLS, and what a probe of `check` asks its endpoint: a probe
  succeeds or fails.
- The loss of a file's content by a machine that loses power after the rename
  (nothing is synced to the disk): `Crash` is the end of a process.
- Two windows of a CronJob next to each other: `concurrencyPolicy: Forbid` is
  what `JobEnds` is about.

## Plan

What is left: `Delivery`, that is `httpx.Do` with its statuses below `Send`, as an
implementation of the sender of `DigestRun`, as `Collect` is one of its collector.

The order of what exists was: the run, because every other part serves it; the
store and the daemon that share state between runs; the LLM call; then the
inside of the sources, post-processing, and the way from a configuration to a
job of Kubernetes.
