------------------------------ MODULE CollectMC -----------------------------
(* Instances of Collect for TLC. *)
EXTENDS Collect

Ask(form) == [title |-> 1, warning |-> 2, critical |-> 3, form |-> form]
Source(type, forms, moods, truths, lengths) ==
  [type |-> type, queries |-> [i \in DOMAIN forms |-> Ask(forms[i])],
   moods |-> moods, truths |-> truths, lengths |-> lengths]

\* Two Elasticsearch queries below and above the ceiling and a third one to be
\* taken along; two Prometheus sources with every type of result; and a source
\* whose every query fails, with more of them than the line of errors can hold.
Mixed == Source("elasticsearch", <<"tracked", "default", "tracked">>, Moods, {0, 3}, {64})
Instant == Source("prometheus", <<"vector", "scalar", "nan">>, Moods, {0, 2}, {64})
Ranges == Source("prometheus", <<"matrix", "string">>, Moods, {0, 1}, {64})
AllDown(n) == Source("elasticsearch", [i \in 1 .. n |-> "tracked"], {"down"}, {0}, {64, 560})

AllSetups == {Mixed, Instant, Ranges} \cup {AllDown(n) : n \in {11, 13}}
Uncounted == {Source("elasticsearch", <<"tracked", "untracked">>, {"good"}, {0, 3}, {64})}
Hanging == {Source("elasticsearch", <<"tracked", "tracked">>, {"good", "hangs"}, {0, 3}, {64})}

LeastInt == -1000
=============================================================================
