----------------------------- MODULE Completion -----------------------------
(***************************************************************************)
(* One completion: the retrier (internal/llm/retry.go) around a provider   *)
(* (internal/llm/ollama, internal/llm/openai), which maps what the backend *)
(* does onto the sentinel errors of internal/llm/errors.go.  DigestRun     *)
(* sees only its attempts and its result.  A text becomes the summary of   *)
(* the report by PostProcess.                                              *)
(***************************************************************************)
EXTENDS PostProcess

CONSTANTS
  Providers,  \* the values of llm.type
  Attempts,   \* llm.retries
  Deadline,   \* the context has one, or is cancelled some day
  Texts,      \* what a model may write
  MaxChars    \* llm.max_chars

ASSUME CompletionAssumption ==
  /\ Providers \subseteq {"ollama", "openai-compatible"}
  /\ Attempts \in Nat \ {0}
  /\ Deadline \in BOOLEAN
  /\ Texts \subseteq Seq(Tokens) \ {<<>>} /\ MaxChars \in Int

(***************************************************************************)
(* What a backend may answer: a status, and for a 200 what is in the body. *)
(* "cut" is a text that stopped at the token limit, "budget" an answer     *)
(* without text because of it.  A body that decodes states the tokens that *)
(* were used.                                                              *)
(***************************************************************************)
Bodies == {"text", "cut", "budget", "empty", "nochoices", "error", "undecodable"}
Replies == [status : {400, 401, 403, 429, 500, 503}, body : {"error"}]
           \cup [status : {200}, body : Bodies]

Usage(reply) == IF reply.status = 200 /\ reply.body \in {"text", "cut", "budget", "empty"} THEN 1 ELSE 0

OK == "ok"
ErrRateLimited == "ratelimited"
ErrUnavailable == "unavailable"
ErrAuth == "auth"
ErrTruncated == "truncated"
ErrEmpty == "empty"
ErrOther == "other"
ErrContext == "context"
Errors == {ErrRateLimited, ErrUnavailable, ErrAuth, ErrTruncated, ErrEmpty, ErrOther, ErrContext}

VARIABLES
  provider,  \* the provider of this process
  phase,     \* ready, asking, waiting (backoff), returned, summarized
  tries,     \* attempts begun
  over,      \* the context is over
  log,       \* the outcome of every request, in order
  result,    \* what Complete returned
  used,      \* tokens the backend stated, over all requests
  returned,  \* tokens in the Response
  text,      \* the text of the Response
  summary    \* the summary of the report

post == <<text, summary>>
vars == <<provider, phase, tries, over, log, result, used, returned, post>>

Init ==
  /\ provider \in Providers
  /\ phase = "ready" /\ tries = 0 /\ over = FALSE
  /\ log = <<>> /\ result = "none" /\ used = 0 /\ returned = 0
  /\ text = <<>> /\ summary = <<>>

-----------------------------------------------------------------------------
StatusError(status) ==
  CASE status = 429 -> ErrRateLimited
    [] status \in {401, 403} -> ErrAuth
    [] status >= 500 -> ErrUnavailable
    [] OTHER -> ErrOther

\* Mutant: an answer without text is an answer.
BodyOutcome_any(body) == IF body = "undecodable" THEN ErrOther ELSE OK

\* The error field is only looked at by the client of Ollama, and a text that
\* was cut is a text.
BodyOutcome(body) ==
  CASE body = "undecodable" -> ErrOther
    [] body = "error" -> IF provider = "ollama" THEN ErrOther ELSE ErrEmpty
    [] body = "budget" -> ErrTruncated
    [] body \in {"empty", "nochoices"} -> ErrEmpty
    [] body \in {"text", "cut"} -> OK

Outcome(reply) == IF reply.status # 200 THEN StatusError(reply.status) ELSE BodyOutcome(reply.body)

\* Mutant: everything but a success is worth a retry.
Transient_all(outcome) == outcome # OK

Transient(outcome) == outcome \in {ErrRateLimited, ErrUnavailable}

\* Mutant: the budget of attempts counts retries.
LastAttempt_retries == tries > Attempts

LastAttempt == tries >= Attempts

\* The retrier looks at the outcome of the attempt.
Settle(outcome, tokens) ==
  /\ log' = Append(log, outcome)
  /\ used' = used + tokens
  /\ IF Transient(outcome) /\ ~LastAttempt
     THEN phase' = "waiting" /\ UNCHANGED <<result, returned>>
     ELSE /\ phase' = "returned" /\ result' = outcome
          /\ returned' = IF outcome = OK THEN tokens ELSE 0

Ask ==
  /\ phase = "ready"
  /\ phase' = "asking" /\ tries' = tries + 1
  /\ UNCHANGED <<provider, over, log, result, used, returned, post>>

\* A request whose body cannot be built fails before it is sent.
BuildFails ==
  /\ phase = "asking" /\ Settle(ErrOther, 0)
  /\ UNCHANGED <<provider, tries, over, post>>

\* A late answer is one that the client no longer reads.
Reply ==
  /\ phase = "asking" /\ ~over
  /\ \E reply \in Replies : Settle(Outcome(reply), Usage(reply))
  /\ UNCHANGED <<provider, tries, over, post>>

\* Mutant: the request is built without the context.
TransportFails_deaf ==
  /\ phase = "asking" /\ ~over /\ Settle(ErrUnavailable, 0)
  /\ UNCHANGED <<provider, tries, over, post>>

\* Refused, reset, or the context is over: all of them are ErrUnavailable.
TransportFails ==
  /\ phase = "asking" /\ Settle(ErrUnavailable, 0)
  /\ UNCHANGED <<provider, tries, over, post>>

\* The backoff ends; when the context is over as well, select may take either.
Backoff ==
  /\ phase = "waiting" /\ phase' = "ready"
  /\ UNCHANGED <<provider, tries, over, log, result, used, returned, post>>

GiveUp ==
  /\ phase = "waiting" /\ over
  /\ phase' = "returned" /\ result' = ErrContext
  /\ UNCHANGED <<provider, tries, over, log, used, returned, post>>

Expire ==
  /\ Deadline /\ ~over /\ over' = TRUE
  /\ UNCHANGED <<provider, phase, tries, log, result, used, returned, post>>

\* The runner makes the text its summary; without one it sends the raw digest.
Summarize ==
  /\ phase = "returned" /\ result = OK
  /\ \E t \in Texts : text' = t /\ summary' = Summary(t, MaxChars)
  /\ phase' = "summarized"
  /\ UNCHANGED <<provider, tries, over, log, result, used, returned>>

Done ==
  /\ phase = "summarized" \/ (phase = "returned" /\ result # OK)
  /\ UNCHANGED vars

Next == \/ Ask \/ BuildFails \/ Reply \/ TransportFails \/ Backoff \/ GiveUp \/ Expire
        \/ Summarize \/ Done

Spec == Init /\ [][Next]_vars

\* Timers fire and the process runs; the transport comes back for certain only
\* when the context of the request is over.
Fairness ==
  /\ WF_vars(Ask) /\ WF_vars(Expire)
  /\ WF_vars(over /\ TransportFails)
  /\ WF_vars(Backoff \/ GiveUp)

FairSpec == Spec /\ Fairness

-----------------------------------------------------------------------------
(* Properties.                                                              *)

\* Every variable has the type of the value the code keeps.
TypeOK ==
  /\ provider \in Providers
  /\ phase \in {"ready", "asking", "waiting", "returned", "summarized"}
  /\ tries \in 0 .. Attempts
  /\ over \in BOOLEAN
  /\ log \in Seq({OK} \cup Errors)
  /\ result \in {OK, "none"} \cup Errors
  /\ used \in Nat /\ returned \in Nat
  /\ text \in Seq(Tokens) /\ summary \in Seq(Tokens \cup {Ellipsis})

\* Only rate limits and unavailability lead to another request, whichever
\* provider is configured and however the answers are mixed (WithRetry: "auth
\* failures, truncation and empty responses fail fast").
OnlyTransientIsRetried ==
  \A i \in 1 .. tries - 1 : log[i] \in {ErrRateLimited, ErrUnavailable}

\* The result is the outcome of the last request, or the context's error after
\* a request that could have been retried; a success is the only result that
\* carries tokens, and comes from an answer with a text (Complete).
ResultIsTheLastOutcome ==
  phase \in {"returned", "summarized"} =>
    /\ result = log[Len(log)] \/ (result = ErrContext /\ over /\ Transient(log[Len(log)]))
    /\ result # OK => returned = 0
    /\ result = OK => returned = 1 /\ used = 1

\* The log has the outcome of every request but the one that is out, and the
\* budget of attempts is not used up while another one is to come.
LogMatchesTries ==
  /\ Len(log) = IF phase = "asking" THEN tries - 1 ELSE tries
  /\ phase # "ready" => tries >= 1
  /\ phase \in {"ready", "waiting"} => tries < Attempts

\* What holds all along, and is enough to see that it keeps holding: until
\* Complete returns, every outcome was worth a retry and cost no tokens.
CompletionInv ==
  /\ TypeOK /\ LogMatchesTries /\ ResultIsTheLastOutcome
  /\ \A i \in DOMAIN log :
       Transient(log[i]) \/ (i = Len(log) /\ phase \in {"returned", "summarized"})
  /\ phase \in {"ready", "asking", "waiting"} => used = 0 /\ returned = 0
  /\ phase = "summarized" => text \in Texts /\ summary = Summary(text, MaxChars)

\* Whatever the backend does, Complete returns once its context is over.
ReturnsAfterTheDeadline == over ~> phase \in {"returned", "summarized"}

\* As long as every opening tag is closed before the next one, the reasoning has
\* no say in the summary, wherever it stands and whether or not it was opened at
\* all: the summary is that of the tokens no closing tag belongs to (thinkRe,
\* LastIndex).  Nested tags take the answer before them along.
Surplus(s, i, j) == Cardinality({k \in i .. j : s[k] = Close}) - Cardinality({k \in i .. j : s[k] = Open})
Flat(s) ==
  \A i \in DOMAIN s : s[i] = Open =>
    \E j \in i + 1 .. Len(s) : s[j] = Close /\ \A k \in i + 1 .. j - 1 : s[k] # Open
Answer(s) ==
  At(s, {i \in DOMAIN s : /\ s[i] \notin {Open, Close}
                          /\ \A j \in i .. Len(s) : Surplus(s, i, j) <= 0})
ReasoningHasNoSay ==
  phase = "summarized" /\ Flat(text) => summary = Summary(Answer(text), MaxChars)

\* An answer that is wrapped in what models put around one, in the order they do
\* it, comes out bare (PostProcess, "this code is the actual guarantee").
Wrapped(reasoning, fence, preamble, answer) ==
  LET said == preamble \o answer
  IN  reasoning \o (IF fence = <<>> THEN said ELSE fence \o <<Newline>> \o said \o <<Newline, Fence>>)
Bare(s) == s # <<>> /\ \A i \in DOMAIN s : s[i] \in {Letter, Space}
WrappingIsStripped ==
  phase = "summarized" =>
    \A reasoning \in {<<>>, <<Close>>, <<Letter, Close, Newline>>, <<Open, Letter, Close>>},
       fence \in {<<>>, <<Fence>>, <<Fence, Letter>>}, preamble \in {<<>>, <<Preamble, Space>>} :
      Bare(text) => Summary(Wrapped(reasoning, fence, preamble, text), MaxChars) = summary

\* A summary that is capped is a beginning of the clean text, of at most MaxChars
\* characters, and an ellipsis on top.  It ends before a blank, or in the middle
\* of a word at the limit when the second half up to there has no blank
\* (PostProcess).
CutIsAtABlankOrTheLimit ==
  phase = "summarized" /\ summary # Clean(text) =>
    LET clean == Clean(text)
    IN  \E k \in 0 .. MaxChars :
          /\ k < Len(clean) /\ summary = SubSeq(clean, 1, k) \o <<Ellipsis>>
          /\ \/ clean[k + 1] \in Blank
             \/ /\ k = MaxChars
                /\ \A i \in MaxChars \div 2 + 2 .. MaxChars : clean[i] \notin Blank

-----------------------------------------------------------------------------
(* What the documentation says, where the code does otherwise.              *)

\* postprocess.go: "this code is the actual guarantee: reasoning tags (...), code
\* fences and preambles are stripped, and the result is capped at maxChars on a
\* word boundary"; config.go, of max_chars: "hard cap on the summary".
SummaryIsAsDocumented ==
  phase = "summarized" =>
    /\ \A i \in DOMAIN summary : summary[i] \notin {Open, Close}
    /\ summary # <<>> => Head(summary) \notin {Fence, Preamble}
    /\ MaxChars > 0 => Len(summary) <= MaxChars
    /\ summary # Clean(text) => Clean(text)[Len(summary)] \in Blank
=============================================================================
