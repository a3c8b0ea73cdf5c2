---------------------------- MODULE CompletionMC ----------------------------
(* Instances of Completion for TLC. *)
EXTENDS Completion

\* Every text of up to four tokens, and longer ones: of words, for the cap, and
\* of nested tags.
Short == UNION {[1 .. n -> Tokens] : n \in 1 .. 4}
Words == [1 .. 7 -> {Letter, Space}]
Nested == [1 .. 6 -> {Letter, Open, Close}]
Many == Short \cup Words \cup Nested
\* A model that announces a summary, fences it, and reaches the token limit while
\* it still thinks, in a long word.  It breaks every clause of SummaryIsAsDocumented.
Unruly == {<<Preamble, Space, Fence, Newline, Open>> \o [i \in 1 .. 7 |-> Letter]}
=============================================================================
