------------------------------- MODULE History ------------------------------
(***************************************************************************)
(* The history of runs (internal/store): a list in the memory of a         *)
(* process, guarded by a mutex, and a JSON file that every Append replaces *)
(* through a temporary file and a rename.  Processes start, load the file, *)
(* append the reports of their runs, and are killed at any point; several  *)
(* of them may be configured with the same file.                           *)
(*                                                                         *)
(* A run is a number: its place in the order of GeneratedAt.               *)
(***************************************************************************)
EXTENDS Integers, Sequences, FiniteSets

CONSTANTS
  Procs,        \* the processes that are configured with the file
  Persistent,   \* history.path is not empty
  Keeps,        \* values of history.keep that a process may start with
  MaxRuns,      \* bound: runs
  MaxCrashes    \* bound: processes killed

ASSUME HistoryAssumption ==
  /\ Persistent \in BOOLEAN
  /\ Keeps \subseteq Int /\ Keeps # {}
  /\ MaxRuns \in Nat /\ MaxCrashes \in Nat

NoRun == 0
Runs == 1 .. MaxRuns
DefaultKeep == 200

\* Mutant: a limit of zero is taken as it is.
Keep_raw(k) == k

Keep(k) == IF k <= 0 THEN DefaultKeep ELSE k

VARIABLES
  run,      \* per run: [stage, proc]
  store,    \* per process: its Store and the progress of the Append in it
  file,     \* the history file [whole, entries]; missing is an empty list
  appended, \* every run appended so far, in that order
  acked,    \* runs whose Append returned nil after persisting
  crashes

vars == <<run, store, file, appended, acked, crashes>>

NoFile == [whole |-> TRUE, entries |-> <<>>]
Closed == [up |-> FALSE, disk |-> FALSE, keep |-> DefaultKeep, entries |-> <<>>,
           holder |-> NoRun, stage |-> "idle", raw |-> <<>>, temp |-> "none"]

Init ==
  /\ run = [r \in Runs |-> [stage |-> "new", proc |-> "none"]]
  /\ store = [p \in Procs |-> Closed]
  /\ file = NoFile
  /\ appended = <<>> /\ acked = {} /\ crashes = 0

-----------------------------------------------------------------------------
\* Mutant: the oldest entries are kept.
truncate_oldest(s, keep) == IF Len(s) > keep THEN SubSeq(s, 1, keep) ELSE s

\* The newest keep entries; the list is oldest first.
truncate(s, keep) == IF Len(s) > keep THEN SubSeq(s, Len(s) - keep + 1, Len(s)) ELSE s

\* Newest first.
List(p) ==
  LET s == store[p].entries
  IN  [i \in 1 .. Len(s) |-> s[Len(s) - i + 1]]

\* Mutant: the list that was loaded is not cut.
Open_untruncated(p) ==
  /\ ~store[p].up
  /\ \E k \in Keeps :
       LET fresh == [Closed EXCEPT !.up = TRUE, !.keep = Keep(k)]
       IN  \/ /\ Persistent /\ file.whole
              /\ store' = [store EXCEPT ![p] = [fresh EXCEPT
                   !.disk = TRUE, !.entries = file.entries]]
           \/ store' = [store EXCEPT ![p] = fresh]
  /\ UNCHANGED <<run, file, appended, acked, crashes>>

\* Mutant: the path is kept when the file cannot be read, and the next Append
\* replaces it.
Open_overwriting(p) ==
  /\ ~store[p].up
  /\ \E k \in Keeps :
       LET fresh == [Closed EXCEPT !.up = TRUE, !.keep = Keep(k), !.disk = Persistent]
       IN  \/ /\ Persistent /\ file.whole
              /\ store' = [store EXCEPT ![p] = [fresh EXCEPT
                   !.entries = truncate(file.entries, Keep(k))]]
           \/ store' = [store EXCEPT ![p] = fresh]
  /\ UNCHANGED <<run, file, appended, acked, crashes>>

\* A file that is missing is an empty history; one that cannot be read or
\* decoded makes Build fall back on a store without a path.
Open(p) ==
  /\ ~store[p].up
  /\ \E k \in Keeps :
       LET fresh == [Closed EXCEPT !.up = TRUE, !.keep = Keep(k)]
       IN  \/ /\ Persistent /\ file.whole
              /\ store' = [store EXCEPT ![p] = [fresh EXCEPT
                   !.disk = TRUE, !.entries = truncate(file.entries, Keep(k))]]
           \/ store' = [store EXCEPT ![p] = fresh]
  /\ UNCHANGED <<run, file, appended, acked, crashes>>

\* A run starts: Report.GeneratedAt is the time of this step.
Start(p, r) ==
  /\ store[p].up
  /\ run[r].stage = "new" /\ \A q \in Runs : q < r => run[q].stage # "new"
  /\ run' = [run EXCEPT ![r] = [stage |-> "running", proc |-> p]]
  /\ UNCHANGED <<store, file, appended, acked, crashes>>

\* The report of the run is complete and recorded.
Finish(p, r) ==
  /\ run[r] = [stage |-> "running", proc |-> p]
  /\ run' = [run EXCEPT ![r].stage = "finished"]
  /\ UNCHANGED <<store, file, appended, acked, crashes>>

-----------------------------------------------------------------------------
(* Append, under the mutex from its first step to its last.  A temporary    *)
(* file that a crash or a failed rename leaves behind is never read again.  *)

\* The mutex is taken, the entry is added and the list is cut; without a path
\* that is all.
BeginAppend(p, r) ==
  /\ run[r] = [stage |-> "finished", proc |-> p]
  /\ store[p].holder = NoRun
  /\ LET list == truncate(Append(store[p].entries, r), store[p].keep)
     IN  store' = [store EXCEPT ![p] =
           IF store[p].disk
           THEN [@ EXCEPT !.entries = list, !.holder = r, !.stage = "marshal"]
           ELSE [@ EXCEPT !.entries = list]]
  /\ run' = [run EXCEPT ![r].stage = IF store[p].disk THEN "appending" ELSE "memory"]
  /\ appended' = Append(appended, r)
  /\ UNCHANGED <<file, acked, crashes>>

Step(p, from, next) ==
  /\ store[p].stage = from
  /\ store' = [store EXCEPT ![p] = next]
  /\ UNCHANGED <<run, file, appended, acked, crashes>>

Marshal(p) == Step(p, "marshal", [store[p] EXCEPT !.stage = "create", !.raw = store[p].entries])

CreateTemp(p) == Step(p, "create", [store[p] EXCEPT !.stage = "write", !.temp = "empty"])

\* Mutant: a short write is not noticed.
Write_unchecked(p) ==
  Step(p, "write", [store[p] EXCEPT !.stage = "rename", !.temp = "empty"])

\* Write and Close: both errors are looked at.
Write(p) == Step(p, "write", [store[p] EXCEPT !.stage = "rename", !.temp = "whole"])

\* What leaves the mutex behind, whatever the result.
Released(p) == [store[p] EXCEPT !.holder = NoRun, !.stage = "idle", !.temp = "none", !.raw = <<>>]

\* The rename replaces the file, whatever it holds by now.
Rename(p) ==
  /\ store[p].stage = "rename"
  /\ file' = [whole |-> store[p].temp = "whole", entries |-> store[p].raw]
  /\ store' = [store EXCEPT ![p] = Released(p)]
  /\ run' = [run EXCEPT ![store[p].holder].stage = "persisted"]
  /\ acked' = acked \cup {store[p].holder}
  /\ UNCHANGED <<appended, crashes>>

\* Mutant: an early return leaves the mutex locked.
PersistFails_locked(p) ==
  /\ store[p].stage \in {"marshal", "create", "write", "rename"}
  /\ store' = [store EXCEPT ![p] = [Released(p) EXCEPT !.holder = store[p].holder]]
  /\ run' = [run EXCEPT ![store[p].holder].stage = "memory"]
  /\ UNCHANGED <<file, appended, acked, crashes>>

\* Any step of persist fails: the caller gets the error, the entry stays in
\* memory, the file stays as it was.
PersistFails(p) ==
  /\ store[p].stage \in {"marshal", "create", "write", "rename"}
  /\ store' = [store EXCEPT ![p] = Released(p)]
  /\ run' = [run EXCEPT ![store[p].holder].stage = "memory"]
  /\ UNCHANGED <<file, appended, acked, crashes>>

\* The process ends: its memory is gone and so are the runs it was in.
Kill(p) ==
  /\ store' = [store EXCEPT ![p] = Closed]
  /\ run' = [r \in Runs |->
               IF run[r].proc = p /\ run[r].stage \in {"running", "finished", "appending"}
               THEN [run[r] EXCEPT !.stage = "killed"] ELSE run[r]]
  /\ UNCHANGED <<file, appended, acked>>

Crash(p) ==
  /\ store[p].up /\ crashes < MaxCrashes
  /\ Kill(p)
  /\ crashes' = crashes + 1

-----------------------------------------------------------------------------
Persist(p) == Marshal(p) \/ CreateTemp(p) \/ Write(p) \/ Rename(p) \/ PersistFails(p)

InProgress(r) == run[r].stage \in {"running", "finished", "appending"}

\* Every run of the bound is over.
Exhausted ==
  /\ \A r \in Runs : run[r].stage # "new" /\ ~InProgress(r)
  /\ UNCHANGED vars

Next ==
  \/ \E p \in Procs :
       \/ Open(p) \/ Persist(p) \/ Crash(p)
       \/ \E r \in Runs : Start(p, r) \/ Finish(p, r) \/ BeginAppend(p, r)
  \/ Exhausted

Spec == Init /\ [][Next]_vars

-----------------------------------------------------------------------------
(* Properties.                                                              *)

StoreType ==
  [up : BOOLEAN, disk : BOOLEAN, keep : Nat \ {0}, entries : Seq(Runs), holder : Runs \cup {NoRun},
   stage : {"idle", "marshal", "create", "write", "rename"}, raw : Seq(Runs),
   temp : {"none", "empty", "whole"}]
RunType ==
  [stage : {"new", "running", "finished", "appending", "persisted", "memory", "killed"},
   proc : Procs \cup {"none"}]

\* Every variable has the type of the value the code keeps.
TypeOK ==
  /\ run \in [Runs -> RunType]
  /\ store \in [Procs -> StoreType]
  /\ file \in [whole : BOOLEAN, entries : Seq(Runs)]
  /\ appended \in Seq(Runs)
  /\ acked \subseteq Runs
  /\ crashes \in Nat

Elements(s) == {s[i] : i \in DOMAIN s}

\* Where the list of all appends, a, has run r.
Place(a, r) == CHOOSE i \in DOMAIN a : a[i] = r

OnceEach(a) == \A i, j \in DOMAIN a : a[i] = a[j] => i = j

\* A list of appended runs, each once, in the order of their Appends.
InOrder(s, a) ==
  /\ Elements(s) \subseteq Elements(a)
  /\ \A i, j \in DOMAIN s : i < j => Place(a, s[i]) < Place(a, s[j])

\* The list s is full with runs that a, the list of all appends, has after r,
\* which is what leaves no room for r.
MadeRoom(s, a, keep, r) ==
  Len(s) = keep /\ \A q \in Elements(s) : Place(a, q) > Place(a, r)

\* The file can be loaded at every moment, whatever step of a persist failed
\* or was cut by a crash, and lists runs of the history once each in the order
\* they were appended (Open, Append, persist).
FileIsASnapshot == file.whole /\ InOrder(file.entries, appended)

\* The runs a step acknowledges are in the file, and those that leave it do so for
\* a full list of newer ones, at the limit of the process that writes it.
LosesNoRun ==
  /\ acked' \ acked \subseteq Elements(file'.entries)
  /\ \A r \in Elements(file.entries) \ Elements(file'.entries) :
       \E p \in Procs :
         store[p].stage = "rename" /\ MadeRoom(file'.entries, appended, store[p].keep, r)

\* A run is in the file when its Append returns without an error, and no run that
\* is in it ever leaves it except for a full list of newer ones that are in it
\* now: no update of another run is lost, and no failed persist, crash or restart
\* with other settings takes a run away (store.go, "every finished Report, capped
\* at a configurable count").
AckedSurvives == [][LosesNoRun]_vars

\* Between two Appends, a process whose last one was persisted shows exactly
\* what a restart would show, runs included whose own persist had failed.
MemoryIsTheFile ==
  \A p \in Procs :
    LET s == store[p]
    IN  s.disk /\ s.holder = NoRun /\ s.entries # <<>> /\ s.entries[Len(s.entries)] \in acked
          => s.entries = truncate(file.entries, s.keep)

\* Why they hold.  The mutex is held from the first step of an Append to its
\* last, by the process of the run, whose entry is the newest in memory; what is
\* about to be renamed is the whole of that list ...
StoreHolds(p) ==
  LET s == store[p]
  IN  /\ s.up \/ s = Closed
      /\ s.holder = NoRun <=> s.stage = "idle"
      /\ s.holder # NoRun =>
           /\ s.up /\ s.disk /\ run[s.holder] = [stage |-> "appending", proc |-> p]
           /\ s.entries # <<>> /\ s.entries[Len(s.entries)] = s.holder
      /\ s.stage \in {"create", "write", "rename"} => s.raw = s.entries
      /\ s.stage = "rename" => s.temp = "whole"
      /\ s.up => s.keep \in {Keep(k) : k \in Keeps} /\ Len(s.entries) <= s.keep
      /\ InOrder(s.entries, appended)

\* ... a run is appended once, after it started in its turn ...
RunsHold ==
  /\ \A q, r \in Runs : q < r /\ run[r].stage # "new" => run[q].stage # "new"
  /\ \A r \in Runs : run[r].stage # "new" => run[r].proc \in Procs
  /\ \A r \in Runs : InProgress(r) => store[run[r].proc].up
  /\ \A r \in Elements(appended) : run[r].stage \in {"appending", "persisted", "memory", "killed"}
  /\ OnceEach(appended)
  /\ \A r \in acked : r \in Elements(appended) /\ run[r].stage = "persisted"

\* The inductive invariant of any number of processes.
HistoryInv == TypeOK /\ RunsHold /\ FileIsASnapshot /\ \A p \in Procs : StoreHolds(p)

\* ... and a process that has the file for itself has the file in memory, as far as
\* its limit lets it.
AloneHolds(p) ==
  LET s == store[p]
  IN  s.disk =>
        /\ \A r \in Elements(file.entries) :
             r \in Elements(s.entries) \/ MadeRoom(s.entries, appended, s.keep, r)
        /\ s.entries # <<>> /\ s.entries[Len(s.entries)] \in acked
             => s.entries = truncate(file.entries, s.keep)

\* The inductive invariant of a single process.
AloneInv == HistoryInv /\ \A p \in Procs : AloneHolds(p)

-----------------------------------------------------------------------------
(* One process with its file keeps the promise of RunLog.                   *)

Only == CHOOSE p \in Procs : TRUE

Log == INSTANCE RunLog WITH
  Keeps <- {Keep(k) : k \in Keeps} \cup {DefaultKeep},
  open <- store[Only].up,
  keep <- store[Only].keep,
  shown <- store[Only].entries,
  durable <- file.entries,
  promised <- acked

\* Every step of Open, Append and a crash is a step of the abstract history or
\* invisible to it: the file moves to the list of the memory in one step.
ImplementsRunLog == Log!Spec
=============================================================================
