----------------------------- MODULE ServeProofs ----------------------------
(***************************************************************************)
(* Theorems about Serve, for every limit and every number of runs, boots   *)
(* and crashes, with or without a run at start.                            *)
(***************************************************************************)
EXTENDS Serve, HistoryProofs

-----------------------------------------------------------------------------
(* The history under the daemon.                                            *)

\* A step of the daemon is one of its history, or leaves that alone.
LEMMA ServeStep ==
  ASSUME NextServe \/ UNCHANGED allVars
  PROVE  /\ \/ Open(Server) \/ Persist(Server) \/ Kill(Server)
            \/ \E r \in Runs : Start(Server, r) \/ Finish(Server, r) \/ BeginAppend(Server, r)
            \/ UNCHANGED <<run, store, file, appended, acked>>
         /\ crashes' = crashes \/ crashes' = crashes + 1
<1> DEFINE Said ==
      /\ \/ Open(Server) \/ Persist(Server) \/ Kill(Server)
         \/ \E r \in Runs : Start(Server, r) \/ Finish(Server, r) \/ BeginAppend(Server, r)
         \/ UNCHANGED <<run, store, file, appended, acked>>
      /\ crashes' = crashes \/ crashes' = crashes + 1
<1>1. CASE Boot
  BY <1>1, Zenon DEF Boot, Open
<1>2. CASE StartupRun
  BY <1>2, Zenon DEF StartupRun, Start
<1>3. CASE Tick
  BY <1>3, Zenon DEF Tick, Start
<1>4. ASSUME NEW r \in Runs, Deliver(r) \/ Record(r) \/ AppendRun(r)
      PROVE  Said
  <2>1. CASE Deliver(r)
    BY <2>1, Zenon DEF Deliver, vars
  <2>2. CASE Record(r)
    BY <2>2, Zenon DEF Record, Finish
  <2>3. CASE AppendRun(r)
    BY <2>3, Zenon DEF AppendRun, BeginAppend
  <2> QED
    BY <1>4, <2>1, <2>2, <2>3
<1>5. CASE PersistRun
  BY <1>5, Zenon DEF PersistRun, Persist, Marshal, CreateTemp, Write, Step, Rename, PersistFails
<1>6. CASE JobDone \/ Signal \/ ShutdownScheduler \/ StopTimeout
  <2>1. UNCHANGED vars
    BY <1>6, Zenon DEF JobDone, Signal, ShutdownScheduler, StopTimeout
  <2> QED
    BY <2>1, Zenon DEF vars
<1>7. CASE Return \/ ListenFails
  BY <1>7, Zenon DEF Return, ListenFails
<1>8. CASE CrashServe
  BY <1>8, Zenon DEF CrashServe, Crash
<1>9. CASE Idle \/ UNCHANGED allVars
  <2>1. UNCHANGED vars
    BY <1>9, Zenon DEF Idle, allVars
  <2> QED
    BY <2>1, Zenon DEF vars
<1> QED
  BY <1>1, <1>2, <1>3, <1>4, <1>5, <1>6, <1>7, <1>8, <1>9, Zenon DEF NextServe, RunNext

\* The steps of the daemon are steps of a store that one process uses.
LEMMA AloneServe ==
  ASSUME AloneInv, NextServe \/ UNCHANGED allVars
  PROVE  AloneInv'
<1>1. crashes' \in Nat
  <2>1. crashes \in Nat
    BY DEF AloneInv, HistoryInv, TypeOK
  <2> QED
    BY <2>1, ServeStep
<1> QED
  BY <1>1, ServeStep, ServeAssumption, AloneStep, Zenon

-----------------------------------------------------------------------------
(* The job of the scheduler.                                                *)

\* The daemon starts without a run or a tick.
LEMMA ServeInit == InitServe => ServeInv
<1> SUFFICES ASSUME InitServe PROVE ServeInv
  OBVIOUS
<1> USE DEF InitServe
<1>1. AloneInv /\ TypeOK
  BY AloneInit DEF AloneInv, HistoryInv
<1>2. ServeTypeOK
  BY <1>1, ServeAssumption DEF ServeTypeOK
<1>3. JobHolds
  BY ServeAssumption DEF JobHolds, LastRunIsNewest, ShutdownLetsTheJobFinish
<1>4. TicksInOrder
  BY EmptySeq DEF Init, TicksInOrder
<1> QED
  BY <1>1, <1>2, <1>3, <1>4 DEF ServeInv

\* Every step of the daemon keeps the types.
LEMMA ServeTypeNext ==
  ASSUME ServeInv, NextServe \/ UNCHANGED allVars
  PROVE  ServeTypeOK'
<1>1. ServeTypeOK /\ TypeOK'
  BY AloneServe DEF ServeInv, AloneInv, HistoryInv
<1>2. boots \in Nat /\ MaxBoots \in Nat /\ boots <= MaxBoots
  BY <1>1, ServeAssumption DEF ServeTypeOK
<1>3. Underway \subseteq Runs
  BY DEF Underway
<1> DEFINE Said == /\ life' \in {"down", "serving", "stopping", "draining"}
                   /\ boots' \in 0 .. MaxBoots
                   /\ startup' \in {"none", "due", "started"}
                   /\ cron' \in Runs \cup {NoRun} /\ lastRun' \in Runs \cup {NoRun}
                   /\ ticked' \subseteq Runs /\ told' \subseteq Runs /\ cut' \subseteq Runs
                   /\ bounded' \in BOOLEAN
<1> USE <1>1 DEF ServeTypeOK
<1>4. CASE Boot
  BY <1>2, <1>4, ServeAssumption DEF Boot
<1>5. CASE StartupRun \/ Tick
  BY <1>5 DEF StartupRun, Tick
<1>6. ASSUME NEW r \in Runs, Deliver(r) \/ Record(r) \/ AppendRun(r)
      PROVE  Said
  BY <1>6 DEF Deliver, Record, AppendRun, serveVars
<1>7. CASE PersistRun \/ Idle \/ UNCHANGED allVars
  <2>1. UNCHANGED serveVars
    BY <1>7 DEF PersistRun, Idle, allVars
  <2> QED
    BY <2>1 DEF serveVars
<1>8. CASE JobDone \/ Signal \/ ShutdownScheduler \/ StopTimeout
  BY <1>8 DEF JobDone, Signal, ShutdownScheduler, StopTimeout
<1>9. CASE Return \/ ListenFails \/ CrashServe
  BY <1>3, <1>9 DEF Return, ListenFails, CrashServe, Gone
<1>10. Said
  BY <1>4, <1>5, <1>6, <1>7, <1>8, <1>9 DEF NextServe, RunNext
<1> QED
  BY <1>1, <1>10

\* What JobHolds says of runs in progress, in the terms its steps need.
LEMMA RunFacts ==
  ASSUME ServeInv
  PROVE  /\ run \in [Runs -> RunType] /\ RunsHold /\ JobHolds /\ ticked \subseteq Runs
         /\ cron \in Runs \cup {NoRun} /\ lastRun \in Runs \cup {NoRun}
         /\ \A r \in Runs : r \in Int /\ r # NoRun
         /\ \A r \in Runs : run[r].stage # "new" => run[r].proc = Server
         /\ appended \in Seq(Runs)
<1>1. /\ run \in [Runs -> RunType] /\ RunsHold /\ JobHolds /\ ticked \subseteq Runs
      /\ cron \in Runs \cup {NoRun} /\ lastRun \in Runs \cup {NoRun} /\ appended \in Seq(Runs)
  BY DEF ServeInv, ServeTypeOK, AloneInv, HistoryInv, TypeOK
<1>2. \A r \in Runs : r \in Int /\ r # NoRun
  BY HistoryAssumption DEF Runs, NoRun
<1>3. \A r \in Runs : run[r].stage # "new" => run[r].proc = Server
  BY <1>1, ServeAssumption DEF RunsHold
<1> QED
  BY <1>1, <1>2, <1>3

\* Where the stages of runs go in one step.
LEMMA StartEffect ==
  ASSUME ServeInv, NEW r \in Runs, Start(Server, r)
  PROVE  /\ run[r].stage = "new" /\ run'[r].stage = "running"
         /\ \A q \in Runs : q # r => run'[q] = run[q]
         /\ \A q \in Runs : q < r => run[q].stage # "new"
         /\ UNCHANGED appended
BY RunFacts DEF Start

\* What the end of a run changes of the runs.
LEMMA FinishEffect ==
  ASSUME ServeInv, NEW r \in Runs, Finish(Server, r)
  PROVE  /\ run[r].stage = "running" /\ run'[r].stage = "finished"
         /\ \A q \in Runs : q # r => run'[q] = run[q]
         /\ UNCHANGED appended
<1>1. run[r] \in RunType /\ run' = [run EXCEPT ![r].stage = "finished"] /\ run[r].stage = "running"
      /\ UNCHANGED appended
  BY RunFacts DEF Finish
<1>2. run'[r] = [run[r] EXCEPT !.stage = "finished"] /\ \A q \in Runs : q # r => run'[q] = run[q]
  BY <1>1, RunFacts
<1>3. run'[r].stage = "finished"
  BY <1>1, <1>2 DEF RunType
<1> QED
  BY <1>1, <1>2, <1>3

\* What the first step of Append changes of the runs.
LEMMA AppendEffect ==
  ASSUME ServeInv, NEW r \in Runs, BeginAppend(Server, r)
  PROVE  /\ run[r].stage = "finished" /\ run'[r].stage \in {"appending", "memory"}
         /\ \A q \in Runs : q # r => run'[q] = run[q]
         /\ appended' = Append(appended, r)
<1> DEFINE stage == IF store[Server].disk THEN "appending" ELSE "memory"
<1>1. /\ run[r] \in RunType /\ run' = [run EXCEPT ![r].stage = stage] /\ run[r].stage = "finished"
      /\ appended' = Append(appended, r)
  BY RunFacts DEF BeginAppend
<1>2. stage \in {"appending", "memory"}
  OBVIOUS
<1> HIDE DEF stage
<1>3. run'[r] = [run[r] EXCEPT !.stage = stage] /\ \A q \in Runs : q # r => run'[q] = run[q]
  BY <1>1, RunFacts
<1>4. run'[r].stage = stage
  BY <1>1, <1>3 DEF RunType
<1> QED
  BY <1>1, <1>2, <1>3, <1>4

\* What the other steps of Append change of the runs: at most the one that
\* appends.
LEMMA PersistEffect ==
  ASSUME ServeInv, Persist(Server)
  PROVE  /\ \/ UNCHANGED run
            \/ \E r \in Runs :
                 /\ run[r].stage = "appending" /\ run'[r].stage \in {"persisted", "memory"}
                 /\ \A q \in Runs : q # r => run'[q] = run[q]
         /\ UNCHANGED appended
<1>1. CASE Marshal(Server) \/ CreateTemp(Server) \/ Write(Server)
  BY <1>1 DEF Marshal, CreateTemp, Write, Step
<1>2. CASE Rename(Server) \/ PersistFails(Server)
  <2> DEFINE r == store[Server].holder
  <2>1. store[Server].stage # "idle" /\ UNCHANGED appended
    BY <1>2 DEF Rename, PersistFails
  <2>2. HistoryInv /\ Server \in Procs
    BY ServeAssumption DEF ServeInv, AloneInv
  <2>3. r \in Runs /\ run[r].stage = "appending"
    <3>1. r \in Runs /\ run[r] = [stage |-> "appending", proc |-> Server]
      BY <2>1, <2>2, HolderHolds, Zenon
    <3> QED
      BY <3>1
  <2>4. PICK stage \in {"persisted", "memory"} : run' = [run EXCEPT ![r].stage = stage]
    BY <1>2 DEF Rename, PersistFails
  <2> HIDE DEF r
  <2>5. run'[r] = [run[r] EXCEPT !.stage = stage] /\ \A q \in Runs : q # r => run'[q] = run[q]
    BY <2>3, <2>4, RunFacts
  <2>6. run[r] \in RunType
    BY <2>3, RunFacts
  <2>7. run'[r].stage = stage
    BY <2>5, <2>6 DEF RunType
  <2> QED
    BY <2>1, <2>3, <2>5, <2>7
<1> QED
  BY <1>1, <1>2 DEF Persist

\* A kill ends the runs in progress and no other.
LEMMA KillEffect ==
  ASSUME ServeInv, Kill(Server)
  PROVE  /\ \A r \in Runs : IF InProgress(r) THEN run'[r].stage = "killed" ELSE run'[r] = run[r]
         /\ UNCHANGED appended
<1>1. /\ run' = [r \in Runs |->
               IF run[r].proc = Server /\ run[r].stage \in {"running", "finished", "appending"}
               THEN [run[r] EXCEPT !.stage = "killed"] ELSE run[r]]
      /\ UNCHANGED appended
  BY DEF Kill
<1>2. ASSUME NEW r \in Runs
      PROVE  IF InProgress(r) THEN run'[r].stage = "killed" ELSE run'[r] = run[r]
  <2> DEFINE x == [run[r] EXCEPT !.stage = "killed"]
  <2>1. run[r] \in RunType
    BY RunFacts
  <2>2. x.stage = "killed"
    BY <2>1 DEF RunType
  <2>3. run'[r] = IF run[r].proc = Server /\ InProgress(r) THEN x ELSE run[r]
    BY <1>1 DEF InProgress
  <2>4. InProgress(r) => run[r].proc = Server
    BY RunFacts DEF InProgress
  <2> HIDE DEF x
  <2> QED
    BY <2>2, <2>3, <2>4
<1> QED
  BY <1>1, <1>2

\* A step that starts no run of a tick, records none, ends none and keeps the job.
LEMMA JobKept ==
  ASSUME ServeInv, UNCHANGED <<ticked, cron, lastRun>>, cut \subseteq cut',
         life' = "draining" => life = "draining" \/ cron = NoRun \/ cron \in cut',
         \A r \in Runs :
           /\ run[r].stage # "new" => run'[r].stage # "new"
           /\ InProgress(r)' => InProgress(r) \/ r \notin ticked
           /\ run[r].stage = "running" => run'[r].stage = "running"
           /\ run'[r].stage = "killed" => run[r].stage = "killed"
  PROVE  JobHolds'
<1>1. /\ JobHolds /\ ticked \subseteq Runs /\ cron \in Runs \cup {NoRun} /\ lastRun \in Runs \cup {NoRun}
  BY RunFacts
<1>2. \A r \in ticked : run'[r].stage # "new" /\ (InProgress(r)' => r = cron)
  BY <1>1 DEF JobHolds
<1>3. cron # NoRun => cron \in ticked /\ \A r \in ticked : r <= cron
  BY <1>1 DEF JobHolds
<1>4. lastRun # NoRun => run'[lastRun].stage # "new"
  BY <1>1 DEF JobHolds
<1>5. lastRun \in ticked => \A r \in ticked : r <= lastRun \/ run'[r].stage = "running"
  BY <1>1 DEF JobHolds, LastRunIsNewest
<1>6. life' = "draining" => cron = NoRun \/ cron \in cut'
  BY <1>1 DEF JobHolds
<1>7. \A r \in ticked : run'[r].stage = "killed" => r \in cut'
  BY <1>1 DEF JobHolds, ShutdownLetsTheJobFinish
<1> QED
  BY <1>2, <1>3, <1>4, <1>5, <1>6, <1>7 DEF JobHolds, LastRunIsNewest, ShutdownLetsTheJobFinish

\* A tick starts a job only when the last one is over, with the newest run of
\* all.
LEMMA TickJob ==
  ASSUME ServeInv, Tick
  PROVE  JobHolds'
<1>1. PICK r \in Runs : Start(Server, r) /\ cron' = r /\ ticked' = ticked \cup {r}
  BY DEF Tick
<1>2. life' # "draining" /\ cron = NoRun /\ UNCHANGED <<lastRun, cut>>
  BY DEF Tick
<1>3. /\ run[r].stage = "new" /\ run'[r].stage = "running"
      /\ \A q \in Runs : q # r => run'[q] = run[q]
      /\ \A q \in Runs : q < r => run[q].stage # "new"
  BY <1>1, StartEffect
<1>4. JobHolds /\ RunsHold /\ ticked \subseteq Runs /\ lastRun \in Runs \cup {NoRun} /\ \A q \in Runs : q \in Int /\ q # NoRun
  BY RunFacts
<1>5. \A q \in ticked : q \in Runs /\ q # r /\ run[q].stage # "new" /\ ~InProgress(q) /\ run'[q] = run[q]
  BY <1>2, <1>3, <1>4 DEF JobHolds
<1>6. \A q \in ticked : q <= r
  BY <1>3, <1>4, <1>5 DEF RunsHold
<1>7. \A q \in ticked' : run'[q].stage # "new" /\ (InProgress(q)' => q = cron')
  BY <1>1, <1>3, <1>5 DEF InProgress
<1>8. cron' \in ticked' /\ \A q \in ticked' : q <= cron'
  BY <1>1, <1>4, <1>6
<1>9. lastRun' # NoRun => run'[lastRun'].stage # "new"
  BY <1>2, <1>3, <1>4 DEF JobHolds
<1>10. lastRun' \in ticked' => \A q \in ticked' : q <= lastRun' \/ run'[q].stage = "running"
  <2>1. lastRun # r
    BY <1>3, <1>4 DEF JobHolds
  <2>2. lastRun \in ticked => \A q \in ticked : q <= lastRun \/ run[q].stage = "running"
    BY <1>4 DEF JobHolds, LastRunIsNewest
  <2> QED
    BY <1>1, <1>2, <1>3, <1>5, <2>1, <2>2
<1>11. \A q \in ticked' : run'[q].stage = "killed" => q \in cut'
  BY <1>1, <1>2, <1>3, <1>4, <1>5 DEF JobHolds, ShutdownLetsTheJobFinish
<1> QED
  BY <1>2, <1>7, <1>8, <1>9, <1>10, <1>11 DEF JobHolds, LastRunIsNewest, ShutdownLetsTheJobFinish

\* Recording a run sets the gauge to it, and touches no tick.
LEMMA RecordJob ==
  ASSUME ServeInv, NEW r \in Runs, Record(r)
  PROVE  JobHolds'
<1>1. Finish(Server, r) /\ lastRun' = r /\ UNCHANGED <<life, cron, ticked, cut>>
  BY DEF Record
<1>2. /\ run[r].stage = "running" /\ run'[r].stage = "finished"
      /\ \A q \in Runs : q # r => run'[q] = run[q]
  BY <1>1, FinishEffect
<1>3. JobHolds /\ ticked \subseteq Runs /\ cron \in Runs \cup {NoRun} /\ lastRun \in Runs \cup {NoRun}
  BY RunFacts
<1>4. \A q \in ticked : run'[q].stage # "new" /\ (InProgress(q)' => q = cron)
  BY <1>2, <1>3 DEF JobHolds, InProgress
<1>5. r \in ticked => r = cron /\ cron # NoRun /\ \A q \in ticked : q <= r
  <2>1. r # NoRun
    BY RunFacts
  <2> QED
    BY <1>2, <1>3, <2>1 DEF JobHolds, InProgress
<1>6. \A q \in ticked : run'[q].stage = "killed" => q \in cut
  BY <1>2, <1>3 DEF JobHolds, ShutdownLetsTheJobFinish
<1>7. /\ cron # NoRun => cron \in ticked /\ \A q \in ticked : q <= cron
      /\ life = "draining" => cron = NoRun \/ cron \in cut
  BY <1>3 DEF JobHolds
<1>8. lastRun' # NoRun => run'[lastRun'].stage # "new"
  BY <1>1, <1>2
<1> QED
  BY <1>1, <1>4, <1>5, <1>6, <1>7, <1>8 DEF JobHolds, LastRunIsNewest, ShutdownLetsTheJobFinish

\* A job is over when its run is appended.
LEMMA JobDoneJob ==
  ASSUME ServeInv, JobDone
  PROVE  JobHolds'
<1>1. /\ cron # NoRun /\ run[cron].stage \in {"persisted", "memory"} /\ cron' = NoRun
      /\ UNCHANGED <<run, life, ticked, lastRun, cut>>
  BY DEF JobDone, vars
<1>2. JobHolds
  BY RunFacts
<1>3. \A r \in ticked : run[r].stage # "new" /\ ~InProgress(r)
  BY <1>1, <1>2 DEF JobHolds, InProgress
<1> QED
  BY <1>1, <1>2, <1>3 DEF JobHolds, LastRunIsNewest, ShutdownLetsTheJobFinish, InProgress

\* The process is gone: what its death cut off is among the runs in cut.
LEMMA GoneJob ==
  ASSUME ServeInv, Kill(Server), Gone, cut \subseteq cut',
         \A r \in ticked : InProgress(r) => r \in cut'
  PROVE  JobHolds'
<1>1. life' = "down" /\ cron' = NoRun /\ lastRun' = NoRun /\ ticked' = ticked
  BY DEF Gone
<1>2. \A r \in Runs : IF InProgress(r) THEN run'[r].stage = "killed" ELSE run'[r] = run[r]
  BY KillEffect
<1>3. JobHolds /\ ticked \subseteq Runs
  BY RunFacts
<1>4. \A r \in ticked : run'[r].stage # "new" /\ ~InProgress(r)'
  BY <1>2, <1>3 DEF JobHolds, InProgress
<1>5. \A r \in ticked : run'[r].stage = "killed" => r \in cut'
  BY <1>2, <1>3 DEF JobHolds, ShutdownLetsTheJobFinish
<1>6. NoRun \notin ticked
  BY <1>3, RunFacts
<1> QED
  BY <1>1, <1>4, <1>5, <1>6 DEF JobHolds, LastRunIsNewest, ShutdownLetsTheJobFinish

\* Every step keeps what holds of the job.
LEMMA JobNext ==
  ASSUME ServeInv, NextServe \/ UNCHANGED allVars
  PROVE  JobHolds'
<1>1. JobHolds /\ ticked \subseteq Runs
  BY RunFacts
<1>2. CASE Boot
  <2>1. UNCHANGED <<run, cron, ticked, lastRun, cut>> /\ life' # "draining"
    BY <1>2 DEF Boot, Open
  <2> QED
    BY <2>1, JobKept DEF InProgress
<1>3. CASE StartupRun
  <2>1. PICK r \in Runs : Start(Server, r)
    BY <1>3 DEF StartupRun
  <2>2. UNCHANGED <<life, cron, ticked, lastRun, cut>>
    BY <1>3 DEF StartupRun
  <2>3. /\ run[r].stage = "new" /\ run'[r].stage = "running"
        /\ \A q \in Runs : q # r => run'[q] = run[q]
    BY <2>1, StartEffect
  <2>4. r \notin ticked
    BY <1>1, <2>3 DEF JobHolds
  <2> QED
    BY <2>2, <2>3, <2>4, JobKept DEF InProgress
<1>4. CASE Tick
  BY <1>4, TickJob
<1>5. ASSUME NEW r \in Runs, Deliver(r) PROVE JobHolds'
  <2>1. UNCHANGED <<run, life, cron, ticked, lastRun, cut>>
    BY <1>5 DEF Deliver, vars
  <2> QED
    BY <2>1, JobKept DEF InProgress
<1>6. ASSUME NEW r \in Runs, Record(r) PROVE JobHolds'
  BY <1>6, RecordJob
<1>7. ASSUME NEW r \in Runs, AppendRun(r) PROVE JobHolds'
  <2>1. BeginAppend(Server, r) /\ UNCHANGED <<life, cron, ticked, lastRun, cut>>
    BY <1>7 DEF AppendRun, serveVars
  <2>2. /\ run[r].stage = "finished" /\ run'[r].stage \in {"appending", "memory"}
        /\ \A q \in Runs : q # r => run'[q] = run[q]
    BY <2>1, AppendEffect
  <2> QED
    BY <2>1, <2>2, JobKept DEF InProgress
<1>8. CASE PersistRun
  <2>1. Persist(Server) /\ UNCHANGED <<life, cron, ticked, lastRun, cut>>
    BY <1>8 DEF PersistRun, serveVars
  <2>2. CASE UNCHANGED run
    BY <2>1, <2>2, JobKept DEF InProgress
  <2>3. ASSUME NEW r \in Runs, run[r].stage = "appending", run'[r].stage \in {"persisted", "memory"},
               \A q \in Runs : q # r => run'[q] = run[q]
        PROVE  JobHolds'
    BY <2>1, <2>3, JobKept DEF InProgress
  <2> QED
    BY <2>1, <2>2, <2>3, PersistEffect
<1>9. CASE JobDone
  BY <1>9, JobDoneJob
<1>10. CASE Signal \/ ShutdownScheduler \/ StopTimeout
  <2>1. UNCHANGED <<run, cron, ticked, lastRun>> /\ cut \subseteq cut'
        /\ (life' = "draining" => cron = NoRun \/ cron \in cut')
    BY <1>10 DEF Signal, ShutdownScheduler, StopTimeout, vars
  <2> QED
    BY <2>1, JobKept DEF InProgress
<1>11. CASE Return
  <2>1. Kill(Server) /\ Gone /\ cut' = cut /\ life = "draining"
    BY <1>11 DEF Return
  <2>2. \A r \in ticked : InProgress(r) => r \in cut'
    <3>1. \A r \in ticked : InProgress(r) => r = cron /\ r # NoRun
      BY <1>1, RunFacts DEF JobHolds
    <3> QED
      BY <1>1, <2>1, <3>1 DEF JobHolds
  <2> QED
    BY <2>1, <2>2, GoneJob
<1>12. CASE ListenFails \/ CrashServe
  <2>1. Kill(Server) /\ Gone /\ cut' = cut \cup Underway
    BY <1>12 DEF ListenFails, CrashServe, Crash
  <2>2. \A r \in ticked : InProgress(r) => r \in cut'
    BY <1>1, <2>1 DEF Underway
  <2> QED
    BY <2>1, <2>2, GoneJob
<1>13. CASE Idle \/ UNCHANGED allVars
  <2>1. UNCHANGED <<run, life, cron, ticked, lastRun, cut>>
    BY <1>13 DEF Idle, allVars, vars, serveVars
  <2> QED
    BY <2>1, JobKept DEF InProgress
<1> QED
  BY <1>2, <1>3, <1>4, <1>5, <1>6, <1>7, <1>8, <1>9, <1>10, <1>11, <1>12, <1>13, Zenon
     DEF NextServe, RunNext

\* A run of a tick that is appended is the newest of them.
LEMMA TicksNext ==
  ASSUME ServeInv, NextServe \/ UNCHANGED allVars
  PROVE  TicksInOrder'
<1>1. /\ JobHolds /\ RunsHold /\ ticked \subseteq Runs /\ appended \in Seq(Runs) /\ TicksInOrder
      /\ \A r \in Runs : r \in Int
  BY RunFacts DEF ServeInv
<1>2. DOMAIN appended = 1 .. Len(appended) /\ Len(appended) \in Nat
  BY <1>1, LenProperties
<1>3. CASE UNCHANGED <<appended, ticked>>
  BY <1>1, <1>3 DEF TicksInOrder
<1>4. CASE Tick
  <2>1. PICK r \in Runs : Start(Server, r) /\ ticked' = ticked \cup {r}
    BY <1>4 DEF Tick
  <2>2. run[r].stage = "new" /\ appended' = appended
    BY <2>1, StartEffect
  <2>3. \A i \in DOMAIN appended : appended[i] # r
    <3>1. \A i \in DOMAIN appended : appended[i] \in Elements(appended)
      BY DEF Elements
    <3>2. \A q \in Elements(appended) : run[q].stage # "new"
      BY <1>1 DEF RunsHold
    <3> QED
      BY <2>2, <3>1, <3>2
  <2> QED
    BY <1>1, <2>1, <2>2, <2>3 DEF TicksInOrder
<1>5. ASSUME NEW r \in Runs, AppendRun(r) PROVE TicksInOrder'
  <2> DEFINE n == Len(appended)
  <2>1. BeginAppend(Server, r) /\ ticked' = ticked
    BY <1>5 DEF AppendRun, serveVars
  <2>2. run[r].stage = "finished" /\ appended' = Append(appended, r)
    BY <2>1, AppendEffect
  <2>3. /\ appended' \in Seq(Runs) /\ Len(appended') = n + 1
        /\ (\A i \in 1 .. n : appended'[i] = appended[i]) /\ appended'[n + 1] = r
    BY <1>1, <2>2, AppendProperties
  <2>4. DOMAIN appended' = 1 .. n + 1
    BY <2>3, LenProperties
  <2>5. \A i \in 1 .. n : appended[i] # r /\ appended[i] \in Runs
    <3>1. \A i \in 1 .. n : appended[i] \in Elements(appended)
      BY <1>2 DEF Elements
    <3>2. \A q \in Elements(appended) : run[q].stage # "finished"
      BY <1>1 DEF RunsHold
    <3>3. \A i \in 1 .. n : appended[i] \in Runs
      BY <1>1, ElementOfSeq
    <3> QED
      BY <2>2, <3>1, <3>2, <3>3
  <2>6. r \in ticked => r = cron /\ cron # NoRun /\ \A q \in ticked : q <= r
    <3>1. InProgress(r) /\ r # NoRun
      BY <2>2, RunFacts DEF InProgress
    <3> QED
      BY <1>1, <3>1 DEF JobHolds
  <2>7. ASSUME NEW i \in 1 .. n + 1, NEW j \in 1 .. n + 1, i < j,
               appended'[i] \in ticked, appended'[j] \in ticked
        PROVE  appended'[i] < appended'[j]
    <3>1. i \in 1 .. n
      BY <1>2, <2>7
    <3>2. CASE j = n + 1
      <4>1. /\ appended'[i] = appended[i] /\ appended[i] # r /\ appended[i] \in Runs
            /\ appended'[j] = r
        BY <2>3, <2>5, <3>1, <3>2
      <4>2. appended[i] <= r
        BY <2>6, <2>7, <4>1
      <4> QED
        BY <1>1, <4>1, <4>2
    <3>3. CASE j \in 1 .. n
      BY <1>1, <1>2, <2>3, <2>7, <3>1, <3>3 DEF TicksInOrder
    <3> QED
      BY <1>2, <3>2, <3>3
  <2> QED
    BY <2>1, <2>4, <2>7 DEF TicksInOrder
<1>6. CASE Boot \/ StartupRun \/ PersistRun
  <2>1. ticked' = ticked
    BY <1>6 DEF Boot, StartupRun, PersistRun, serveVars
  <2>2. appended' = appended
    BY <1>6, StartEffect, PersistEffect DEF Boot, Open, StartupRun, PersistRun
  <2> QED
    BY <1>3, <2>1, <2>2
<1>7. ASSUME NEW r \in Runs, Deliver(r) \/ Record(r) PROVE TicksInOrder'
  BY <1>3, <1>7, FinishEffect DEF Deliver, Record, vars
<1>8. CASE JobDone \/ Signal \/ ShutdownScheduler \/ StopTimeout
  BY <1>3, <1>8 DEF JobDone, Signal, ShutdownScheduler, StopTimeout, vars
<1>9. CASE Return \/ ListenFails \/ CrashServe
  <2>1. Kill(Server) /\ ticked' = ticked
    BY <1>9 DEF Return, ListenFails, CrashServe, Crash, Gone
  <2> QED
    BY <1>3, <2>1, KillEffect
<1>10. CASE Idle \/ UNCHANGED allVars
  BY <1>3, <1>10 DEF Idle, allVars, vars, serveVars
<1> QED
  BY <1>4, <1>5, <1>6, <1>7, <1>8, <1>9, <1>10, Zenon DEF NextServe, RunNext

-----------------------------------------------------------------------------
(* Theorems.                                                                *)

\* The daemon: every boot, tick, signal, shutdown, failure and kill keeps what
\* ServeInv says of the job, the runs of ticks and the history (serve.go).
THEOREM ServeInvariant == SpecServe => []ServeInv
<1>1. ServeInv /\ [NextServe]_allVars => ServeInv'
  <2> SUFFICES ASSUME ServeInv, [NextServe]_allVars PROVE ServeInv'
    OBVIOUS
  <2>1. NextServe \/ UNCHANGED allVars
    OBVIOUS
  <2>2. AloneInv'
    BY <2>1, AloneServe DEF ServeInv
  <2> QED
    BY <2>1, <2>2, ServeTypeNext, JobNext, TicksNext DEF ServeInv
<1> QED
  BY <1>1, ServeInit, PTL DEF SpecServe

\* Two runs started by ticks are never in progress together, whatever holds the
\* first one up (WithSingletonMode).
THEOREM TicksDoNotOverlap == SpecServe => []CronRunsDoNotOverlap
<1>1. ServeInv => CronRunsDoNotOverlap
  BY DEF ServeInv, JobHolds, CronRunsDoNotOverlap
<1> QED
  BY <1>1, ServeInvariant, PTL

\* Ticks alone never turn the gauge back: while it shows the run of a tick, no
\* later tick, of this process or an earlier one, has a run that got further than
\* its delivery, ended, in the history or killed.  A run sets the gauge to its own
\* start when it ends, so this rests on the order the singleton mode gives them
\* (Record, WithSingletonMode); the startup run is outside of it.
THEOREM GaugeIsNewest == SpecServe => []LastRunIsNewest
<1>1. ServeInv => LastRunIsNewest
  BY DEF ServeInv, JobHolds
<1> QED
  BY <1>1, ServeInvariant, PTL

\* An orderly shutdown cuts no run of a tick, unless the run outlasts the stop
\* timeout of the scheduler (scheduler.Shutdown in serveCmd).
THEOREM ShutdownWaits == SpecServe => []ShutdownLetsTheJobFinish
<1>1. ServeInv => ShutdownLetsTheJobFinish
  BY DEF ServeInv, JobHolds
<1> QED
  BY <1>1, ServeInvariant, PTL

\* The web UI lists the runs of ticks newest first, though a run is stamped when
\* it starts and listed when it ends (List).
THEOREM ListIsNewestFirst == SpecServe => []TickedRunsNewestFirst
<1>1. ServeInv => TickedRunsNewestFirst
  <2> SUFFICES ASSUME ServeInv PROVE TickedRunsNewestFirst
    OBVIOUS
  <2> DEFINE s == store[Server].entries
             n == Len(s)
             list == List(Server)
  <2>1. /\ HistoryInv /\ TicksInOrder /\ Server \in Procs /\ OnceEach(appended)
        /\ appended \in Seq(Runs)
    BY ServeAssumption DEF ServeInv, AloneInv, HistoryInv, RunsHold, TypeOK
  <2>2. store[Server] \in StoreType /\ InOrder(s, appended)
    BY <2>1 DEF HistoryInv, TypeOK, StoreHolds
  <2>3. s \in Seq(Runs)
    BY <2>2 DEF StoreType
  <2>4. n \in Nat /\ DOMAIN s = 1 .. n
    BY <2>3, LenProperties
  <2>5. list = [i \in 1 .. n |-> s[n - i + 1]]
    BY DEF List
  <2> HIDE DEF s, n, list
  <2>6. /\ \A i \in 1 .. n : s[i] \in Elements(appended)
        /\ \A i, j \in 1 .. n : i < j => Place(appended, s[i]) < Place(appended, s[j])
    BY <2>2, <2>4 DEF InOrder, Elements
  <2>7. \A r \in Elements(appended) : Place(appended, r) \in DOMAIN appended
                                      /\ appended[Place(appended, r)] = r
    BY <2>1, PlaceOfEntry
  <2>8. ASSUME NEW i \in 1 .. n, NEW j \in 1 .. n, i < j, s[i] \in ticked, s[j] \in ticked
        PROVE  s[i] < s[j]
    BY <2>1, <2>6, <2>7, <2>8 DEF TicksInOrder
  <2>9. ASSUME NEW i \in 1 .. n, NEW j \in 1 .. n, i < j, list[i] \in ticked, list[j] \in ticked
        PROVE  list[i] > list[j]
    <3>1. n - i + 1 \in 1 .. n /\ n - j + 1 \in 1 .. n /\ n - j + 1 < n - i + 1
      BY <2>4, <2>9
    <3>2. list[i] = s[n - i + 1] /\ list[j] = s[n - j + 1]
      BY <2>5
    <3>3. s[n - j + 1] < s[n - i + 1]
      BY <2>8, <2>9, <3>1, <3>2
    <3> QED
      BY <3>2, <3>3
  <2>10. DOMAIN list = 1 .. n
    BY <2>5
  <2> QED
    BY <2>9, <2>10 DEF TickedRunsNewestFirst, list
<1> QED
  BY <1>1, ServeInvariant, PTL

\* Under the daemon the file can be loaded at every moment, a run is in it when its
\* Append returns nil and leaves it only for a full list of newer ones, and after
\* an Append that was persisted the web UI shows what a restart would (Open,
\* Append, persist, with Persist cut off by StopTimeout, Return, ListenFails,
\* CrashServe).
THEOREM DaemonKeepsItsHistory ==
  SpecServe => AckedSurvives /\ [](FileIsASnapshot /\ MemoryIsTheFile)
<1>1. ServeInv => FileIsASnapshot /\ MemoryIsTheFile
  BY AloneMeans DEF ServeInv
<1>2. ServeInv /\ [NextServe]_allVars => [LosesNoRun]_vars
  <2> SUFFICES ASSUME ServeInv, [NextServe]_allVars PROVE LosesNoRun
    OBVIOUS
  <2>1. AloneInv /\ Procs = {Server}
    BY ServeAssumption DEF ServeInv
  <2>2. NextServe \/ UNCHANGED allVars
    OBVIOUS
  <2>3. \/ Open(Server) \/ Persist(Server) \/ Kill(Server)
        \/ \E r \in Runs : Start(Server, r) \/ Finish(Server, r) \/ BeginAppend(Server, r)
        \/ UNCHANGED <<run, store, file, appended, acked>>
    BY <2>2, ServeStep, Zenon
  <2> QED
    BY <2>1, <2>3, AckedStep, Zenon
<1> QED
  BY <1>1, <1>2, ServeInvariant, PTL DEF SpecServe, AckedSurvives

\* Under the daemon the store implements the history of RunLog: every step of a
\* boot, an Append or a death is one of its steps or invisible to it.
THEOREM DaemonImplementsRunLog == SpecServe => ImplementsRunLog
<1>1. InitServe => Log!Init
  BY LogInit, ServeAssumption DEF InitServe
<1>2. ServeInv /\ [NextServe]_allVars => [Log!Next]_(Log!vars)
  <2> SUFFICES ASSUME ServeInv, [NextServe]_allVars PROVE [Log!Next]_(Log!vars)
    OBVIOUS
  <2>1. HistoryInv /\ Procs = {Server}
    BY ServeAssumption DEF ServeInv, AloneInv
  <2>2. NextServe \/ UNCHANGED allVars
    OBVIOUS
  <2>3. \/ Open(Server) \/ Persist(Server) \/ Kill(Server)
        \/ \E r \in Runs : Start(Server, r) \/ Finish(Server, r) \/ BeginAppend(Server, r)
        \/ UNCHANGED <<run, store, file, appended, acked>>
    BY <2>2, ServeStep, Zenon
  <2> QED
    BY <2>1, <2>3, LogStep, Zenon
<1> QED
  BY <1>1, <1>2, ServeInvariant, PTL DEF SpecServe, ImplementsRunLog, Log!Spec

=============================================================================
