----------------------------- MODULE DigestRunMC ----------------------------
(* Instances of DigestRun for TLC. *)
EXTENDS DigestRun

Q(title, warning, critical) == [title |-> title, warning |-> warning, critical |-> critical]

\* A source of two queries and one of a single query; the names are not in the
\* order of the configuration, so sorting has something to do.
TwoSources == << [name |-> 2, queries |-> <<Q(1, 2, 4), Q(2, 0, 0)>>],
                 [name |-> 1, queries |-> <<Q(1, 2, 0)>>] >>
OneSource == << [name |-> 1, queries |-> <<Q(1, 2, 4), Q(2, 2, 0)>>] >>

Notify == [kind |-> "homeassistant", attempts |-> 2]
Mail == [kind |-> "email", attempts |-> 1]
Hook == [kind |-> "webhook", attempts |-> 2]

OneSink == <<Notify>>
OneHook == <<Hook>>
TwoSinks == <<Notify, Mail>>

Calm == {0, 4}
Signed == {-1, 4}
Wide == {-1, 0, 4}

\* The token counts of a completion.
Usual == {0}
AnyTokens == {-1, 0}
=============================================================================
