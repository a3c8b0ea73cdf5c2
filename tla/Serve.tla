-------------------------------- MODULE Serve -------------------------------
(***************************************************************************)
(* The daemon (internal/cli/serve.go): a scheduler whose job runs the      *)
(* digest on every tick, a goroutine that runs it once at start, the       *)
(* metrics and the history they share, and the shutdown.  It composes the  *)
(* Store of History; the run itself is DigestRun, seen here only at the    *)
(* points where runs meet: its start, its delivery, Record, Append.        *)
(***************************************************************************)
EXTENDS History

CONSTANTS
  Server,        \* the process
  RunOnStart,    \* schedule.run_on_start
  LLMDeadlines,  \* may the wait for the LLM be bounded: TRUE, FALSE for an
                 \* llm.timeout of zero, which Validate lets pass, or both
  MaxBoots       \* bound: times the process is started

ASSUME ServeAssumption ==
  /\ Procs = {Server} /\ RunOnStart \in BOOLEAN /\ MaxBoots \in Nat
  /\ LLMDeadlines \subseteq BOOLEAN

VARIABLES
  life,     \* where serveCmd is
  boots,
  startup,  \* the goroutine of run_on_start
  cron,     \* the run the scheduler's job is in, NoRun between ticks
  ticked,   \* the runs started by ticks
  told,     \* the runs whose digest went to the sinks
  lastRun,  \* digestron_last_run_timestamp_seconds
  cut,      \* the runs that something other than an orderly shutdown cut off
  bounded   \* every wait of a run of this process has a deadline, the LLM's included

serveVars == <<life, boots, startup, cron, ticked, told, lastRun, cut, bounded>>
allVars == <<vars, serveVars>>

InitServe ==
  /\ Init
  /\ life = "down" /\ boots = 0
  /\ startup = "none" /\ cron = NoRun /\ ticked = {} /\ told = {} /\ lastRun = NoRun /\ cut = {}
  /\ bounded = TRUE

-----------------------------------------------------------------------------
\* Build, then the scheduler and the goroutine of run_on_start are started.
Boot ==
  /\ life = "down" /\ boots < MaxBoots
  /\ Open(Server)
  /\ life' = "serving" /\ boots' = boots + 1
  /\ startup' = IF RunOnStart THEN "due" ELSE "none"
  /\ bounded' \in LLMDeadlines
  /\ UNCHANGED <<cron, ticked, told, lastRun, cut>>

StartupRun ==
  /\ life # "down" /\ startup = "due"
  /\ \E r \in Runs : Start(Server, r)
  /\ startup' = "started"
  /\ UNCHANGED <<life, boots, cron, ticked, told, lastRun, cut, bounded>>

\* Mutant: no singleton mode.
Tick_stacking ==
  /\ life \in {"serving", "stopping"}
  /\ \E r \in Runs : Start(Server, r) /\ cron' = r /\ ticked' = ticked \cup {r}
  /\ UNCHANGED <<life, boots, startup, told, lastRun, cut, bounded>>

\* A tick of the schedule, until the scheduler is shut down.  In singleton mode
\* a tick that finds the job still running is dropped.
Tick ==
  /\ life \in {"serving", "stopping"} /\ cron = NoRun
  /\ \E r \in Runs : Start(Server, r) /\ cron' = r /\ ticked' = ticked \cup {r}
  /\ UNCHANGED <<life, boots, startup, told, lastRun, cut, bounded>>

\* Runner.Run returns, if it does: no signal cancels it, its context is
\* context.Background().
Deliver(r) ==
  /\ run[r].stage = "running" /\ r \notin told
  /\ told' = told \cup {r}
  /\ UNCHANGED <<vars, life, boots, startup, cron, ticked, lastRun, cut, bounded>>

Record(r) ==
  /\ r \in told /\ Finish(Server, r)
  /\ lastRun' = r
  /\ UNCHANGED <<life, boots, startup, cron, ticked, told, cut, bounded>>

AppendRun(r) == BeginAppend(Server, r) /\ UNCHANGED serveVars

PersistRun == Persist(Server) /\ UNCHANGED serveVars

\* runOnce returns to the scheduler.
JobDone ==
  /\ cron # NoRun /\ run[cron].stage \in {"persisted", "memory"}
  /\ cron' = NoRun
  /\ UNCHANGED <<vars, life, boots, startup, ticked, told, lastRun, cut, bounded>>

\* SIGINT or SIGTERM.
Signal ==
  /\ life = "serving" /\ life' = "stopping"
  /\ UNCHANGED <<vars, boots, startup, cron, ticked, told, lastRun, cut, bounded>>

\* Mutant: the scheduler is stopped without waiting for its job.
ShutdownScheduler_hasty ==
  /\ life = "stopping" /\ life' = "draining"
  /\ UNCHANGED <<vars, boots, startup, cron, ticked, told, lastRun, cut, bounded>>

\* scheduler.Shutdown waits for the job...
ShutdownScheduler ==
  /\ life = "stopping" /\ cron = NoRun /\ life' = "draining"
  /\ UNCHANGED <<vars, boots, startup, cron, ticked, told, lastRun, cut, bounded>>

\* ... but not longer than its stop timeout.
StopTimeout ==
  /\ life = "stopping" /\ cron # NoRun /\ life' = "draining"
  /\ cut' = cut \cup {cron}
  /\ UNCHANGED <<vars, boots, startup, cron, ticked, told, lastRun, bounded>>

\* The process is gone, and so is every goroutine and every metric.
Gone ==
  /\ life' = "down"
  /\ startup' = "none" /\ cron' = NoRun /\ lastRun' = NoRun
  /\ UNCHANGED <<boots, ticked, told, bounded>>

\* server.Shutdown returned: serveCmd returns, whatever else still runs.
Return == life = "draining" /\ Kill(Server) /\ UNCHANGED <<crashes, cut>> /\ Gone

Underway == {r \in Runs : InProgress(r)}

\* ListenAndServe failed: serveCmd returns at once.
ListenFails ==
  /\ life = "serving" /\ Kill(Server) /\ UNCHANGED crashes
  /\ cut' = cut \cup Underway
  /\ Gone

\* Killed, out of memory, or a panic in a run.
CrashServe ==
  /\ life # "down" /\ Crash(Server)
  /\ cut' = cut \cup Underway
  /\ Gone

\* The bounds are used up.
Idle ==
  /\ \/ (\A r \in Runs : run[r].stage # "new" /\ ~InProgress(r)) /\ cron = NoRun
     \/ life = "down" /\ boots = MaxBoots
  /\ UNCHANGED allVars

RunNext == StartupRun \/ (\E r \in Runs : Deliver(r) \/ Record(r) \/ AppendRun(r)) \/ PersistRun

NextServe ==
  \/ Boot \/ Tick \/ RunNext \/ JobDone
  \/ Signal \/ ShutdownScheduler \/ StopTimeout \/ Return \/ ListenFails \/ CrashServe \/ Idle

SpecServe == InitServe /\ [][NextServe]_allVars

\* Goroutines are scheduled, and a run whose every wait has a deadline ends, while
\* one that waits for an LLM without a deadline need not (Terminates and
\* LeftToTheLLM of DigestRun).  The mutex does not starve a goroutine.
FairServe ==
  /\ SpecServe
  /\ \A r \in Runs : WF_allVars(bounded /\ Deliver(r)) /\ WF_allVars(Record(r)) /\ SF_allVars(AppendRun(r))
  /\ WF_allVars(PersistRun) /\ WF_allVars(JobDone)

-----------------------------------------------------------------------------
(* Properties.                                                              *)

\* Every variable has the type of the value the code keeps.
ServeTypeOK ==
  /\ TypeOK
  /\ life \in {"down", "serving", "stopping", "draining"}
  /\ boots \in 0 .. MaxBoots
  /\ startup \in {"none", "due", "started"}
  /\ cron \in Runs \cup {NoRun} /\ lastRun \in Runs \cup {NoRun}
  /\ ticked \subseteq Runs /\ told \subseteq Runs /\ cut \subseteq Runs
  /\ bounded \in BOOLEAN

\* Two runs started by ticks are never in progress together, whatever holds the
\* first one up: its sinks, the mutex of the history, a failing disk (serve.go,
\* WithSingletonMode).
CronRunsDoNotOverlap == \A r, q \in ticked : InProgress(r) /\ InProgress(q) => r = q

\* The web UI lists the runs of ticks newest first, across kills, shutdowns and
\* restarts: a run is listed by its start and appended at its end, and only the
\* singleton mode makes the two orders agree (store.go, List).
TickedRunsNewestFirst ==
  store[Server].holder = NoRun =>
    LET list == List(Server)
    IN  \A i, j \in DOMAIN list :
          i < j /\ {list[i], list[j]} \subseteq ticked => list[i] > list[j]

\* The timestamp of the last run is the time a run started, set when it ends: when
\* it is that of a tick, no tick after it has a run that ended in any way, was
\* appended, persisted or killed, in this process or in an earlier one.  So ticks
\* alone never turn the gauge back (Record, serve.go, WithSingletonMode).
LastRunIsNewest ==
  lastRun \in ticked => \A r \in ticked : r <= lastRun \/ run[r].stage = "running"

\* An orderly shutdown lets the run of a tick come to its end, history included,
\* unless it outlasts the stop timeout; nothing of the kind is true of the startup
\* run, which is cut whatever it had delivered (serveCmd, scheduler.Shutdown).
ShutdownLetsTheJobFinish == \A r \in ticked : run[r].stage = "killed" => r \in cut

\* Why the last four hold.  The run of a tick that is not over is the one the
\* job is in, the newest of them all, and it is given up by a shutdown only after
\* the stop timeout.
JobHolds ==
  /\ \A r \in ticked : run[r].stage # "new" /\ (InProgress(r) => r = cron)
  /\ cron # NoRun => cron \in ticked /\ \A r \in ticked : r <= cron
  /\ lastRun # NoRun => run[lastRun].stage # "new"
  /\ LastRunIsNewest
  /\ life = "draining" => cron = NoRun \/ cron \in cut
  /\ ShutdownLetsTheJobFinish

\* The runs of ticks are appended in the order of their starts.
TicksInOrder ==
  \A i, j \in DOMAIN appended :
    i < j /\ {appended[i], appended[j]} \subseteq ticked => appended[i] < appended[j]

\* The inductive invariant of the daemon.
ServeInv == ServeTypeOK /\ AloneInv /\ JobHolds /\ TicksInOrder

\* The job waits for an LLM that only has to answer when it likes.
LeftToTheLLM == cron # NoRun /\ run[cron].stage = "running" /\ cron \notin told /\ ~bounded

\* A tick is never held up for good: the run in the scheduler's way leaves it,
\* and the history gives its mutex back even when the disk fails, unless the run
\* waits for good for an LLM without a deadline, as no later tick gets it out of
\* there (runOnce, Append, summarize).
SchedulerRecovers == (cron # NoRun ~> cron = NoRun) \/ <>[]LeftToTheLLM

-----------------------------------------------------------------------------
(* What the documentation says, where the code does otherwise.              *)

\* serve.go: "Never two overlapping runs: a slow LLM must not stack digests."
NeverTwoOverlappingRuns == \A r, q \in Runs : InProgress(r) /\ InProgress(q) => r = q
=============================================================================
