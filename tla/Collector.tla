------------------------------ MODULE Collector -----------------------------
(***************************************************************************)
(* What a run assumes of a source, whatever its type: the view DigestRun   *)
(* has of one goroutine of collect.  The queries are settled one by one in *)
(* their order, each with a count or as lost, and then the source returns, *)
(* with an error that says how many were lost and which, as far as there   *)
(* is room.                                                                *)
(***************************************************************************)
EXTENDS Integers, Sequences

CONSTANTS Counts, Legible

VARIABLES
  size,      \* how many queries the source has
  found,     \* the counts of the answered queries, in order
  lost,      \* the places of the lost queries, in order
  failed, total, named,  \* the error: so many of so many, and these by name
  returned

error == <<failed, total, named>>
vars == <<size, found, lost, error, returned>>

Settled == Len(found) + Len(lost)

Init ==
  /\ size \in Nat /\ size > 0
  /\ found = <<>> /\ lost = <<>> /\ returned = FALSE
  /\ failed = 0 /\ total = 0 /\ named = {}

Answer ==
  /\ Settled < size
  /\ Len(found') = Len(found) + 1 /\ SubSeq(found', 1, Len(found)) = found
  /\ found'[Len(found')] \in Counts
  /\ UNCHANGED <<size, lost, error, returned>>

Lose ==
  /\ Settled < size
  /\ lost' = Append(lost, Settled + 1)
  /\ UNCHANGED <<size, found, error, returned>>

Return ==
  /\ Settled = size /\ ~returned /\ returned' = TRUE
  /\ failed' = Len(lost) /\ total' = (IF lost = <<>> THEN 0 ELSE size)
  /\ LET all == {lost[i] : i \in DOMAIN lost}
     IN  named' \subseteq all /\ (Len(lost) <= Legible => named' = all)
  /\ UNCHANGED <<size, found, lost>>

Next == Answer \/ Lose \/ Return

\* The runner waits for every source, so a source has to return.
Spec == Init /\ [][Next]_vars /\ <>returned
=============================================================================
