------------------------------- MODULE RunLog -------------------------------
(***************************************************************************)
(* What a history promises, without files, temporary files or a mutex: a   *)
(* list of the last runs that readers see, a durable copy of it that moves *)
(* to the list in one step, a set of runs that were promised to be         *)
(* durable, and a crash that leaves the durable copy alone.                *)
(***************************************************************************)
EXTENDS Integers, Sequences

CONSTANTS Runs, Keeps

VARIABLES
  open,      \* a process serves the history
  keep,      \* how many runs it keeps
  shown,     \* the runs it shows, oldest first
  durable,   \* the runs the next process starts from
  promised   \* the runs whose Append was answered without an error

vars == <<open, keep, shown, durable, promised>>

Newest(s, n) == SubSeq(s, IF Len(s) > n THEN Len(s) - n + 1 ELSE 1, Len(s))

Init ==
  /\ open = FALSE /\ keep \in Keeps
  /\ shown = <<>> /\ durable = <<>> /\ promised = {}

\* A process may also start without the durable copy, and never touches it then.
Load ==
  /\ ~open /\ open' = TRUE
  /\ keep' \in Keeps
  /\ shown' = Newest(durable, keep') \/ shown' = <<>>
  /\ UNCHANGED <<durable, promised>>

Add(r) ==
  /\ open
  /\ shown' = Newest(Append(shown, r), keep)
  /\ UNCHANGED <<open, keep, durable, promised>>

\* The last run shown is promised in the step that makes the list durable.
Sync ==
  /\ open /\ shown # <<>>
  /\ durable' = shown
  /\ promised' = promised \cup {shown[Len(shown)]}
  /\ UNCHANGED <<open, keep, shown>>

Crash ==
  /\ open /\ open' = FALSE
  /\ keep' \in Keeps /\ shown' = <<>>
  /\ UNCHANGED <<durable, promised>>

Next == Load \/ (\E r \in Runs : Add(r)) \/ Sync \/ Crash

Spec == Init /\ [][Next]_vars
=============================================================================
