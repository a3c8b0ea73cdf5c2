---------------------------- MODULE DigestPromise ---------------------------
(***************************************************************************)
(* What one run promises, without goroutines, contexts or retries: every   *)
(* configured query is resolved once, answered or lost; then endpoints are *)
(* told the verdict and which sources fell short, all of them the same     *)
(* tale and only once nothing is open; and the exit code is 0 only when    *)
(* every endpoint was told something.                                      *)
(***************************************************************************)
EXTENDS Report

CONSTANTS Sources, Sinks, Counts, TokenCounts

VARIABLES
  fate,   \* per source and query: open, answered with a count, or lost
  told,   \* per sink: the tales its endpoint has received
  exit

vars == <<fate, told, exit>>

S == DOMAIN Sources
K == DOMAIN Sinks
NoExit == -1
Queries == UNION {{<<s, n>> : n \in DOMAIN Sources[s].queries} : s \in S}

Init ==
  /\ fate = [q \in Queries |-> [state |-> "open", count |-> 0]]
  /\ told = [k \in K |-> {}]
  /\ exit = NoExit

Closed == \A q \in Queries : fate[q].state # "open"
Answered == {q \in Queries : fate[q].state = "answered"}
Lost(s) == {q \in Queries : q[1] = s /\ fate[q].state = "lost"}
SeverityOf(q) == Score(fate[q].count, Sources[q[1]].queries[q[2]])

\* What a reader learns: the worst severity among the answers, the sources
\* that answered nothing and those that answered in part.
Tale ==
  [verdict |-> CHOOSE v \in Severity :
                 /\ \A q \in Answered : SeverityOf(q) <= v
                 /\ v = SeverityInfo \/ \E q \in Answered : SeverityOf(q) = v,
   failed  |-> {Sources[s].name : s \in {s \in S : Lost(s) # {} /\ \A q \in Answered : q[1] # s}},
   partial |-> {Sources[s].name : s \in {s \in S : Lost(s) # {} /\ \E q \in Answered : q[1] = s}}]

Resolve(q) ==
  /\ fate[q].state = "open"
  /\ \/ \E c \in Counts : fate' = [fate EXCEPT ![q] = [state |-> "answered", count |-> c]]
     \/ fate' = [fate EXCEPT ![q] = [state |-> "lost", count |-> 0]]
  /\ UNCHANGED <<told, exit>>

\* A request may reach its endpoint even after the run is over.
Tell(k) ==
  /\ Closed
  /\ told' = [told EXCEPT ![k] = {Tale}]
  /\ UNCHANGED <<fate, exit>>

Finish ==
  /\ Closed /\ exit = NoExit
  /\ exit' \in 0 .. 2
  /\ (\E q \in Answered : fate[q].count < 0) => exit' = 2
  /\ exit' = 2 => (\E q \in Answered : fate[q].count < 0) \/ (\E n \in TokenCounts : n < 0)
  /\ exit' = 0 => (\A k \in K : told[k] # {}) /\ (S # {} => Answered # {})
  /\ UNCHANGED <<fate, told>>

Next == (\E q \in Queries : Resolve(q)) \/ (\E k \in K : Tell(k)) \/ Finish

Safety == Init /\ [][Next]_vars

\* The queries are all resolved and the run ends.
Liveness == WF_vars((\E q \in Queries : Resolve(q)) \/ Finish)

Spec == Safety /\ Liveness
=============================================================================
