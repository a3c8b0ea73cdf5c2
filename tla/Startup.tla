------------------------------ MODULE Startup -------------------------------
(***************************************************************************)
(* From the configuration to the modules of a process: Load and Validate   *)
(* (internal/config), the factories of sources, sinks and LLMs behind      *)
(* their registries, and Build (internal/cli/build.go), which every        *)
(* subcommand calls first.                                                 *)
(*                                                                         *)
(* A settings block is the set of its fields that are given, and the set   *)
(* of those whose value is malformed.  A malformed value that no factory   *)
(* looks at is found when the module is used.  The settings of the         *)
(* environment and of the file are sequences of at most one value.         *)
(***************************************************************************)
EXTENDS Integers, Sequences, FiniteSets

SourceTypes == {"elasticsearch", "prometheus"}
SinkTypes == {"email", "homeassistant", "webhook"}
LLMTypes == {"ollama", "openai-compatible", "noop"}
defaultModuleTimeout == 30

\* The environment comes after the file, the file after the defaults.
Setting(env, file, default) == Head(env \o file \o <<default>>)

Effective(c) ==
  [level |-> Setting(c.env.level, c.level, "info"),
   window |-> Setting(c.env.window, c.window, 60),
   llm |-> Setting(c.env.llm, c.llm, "noop")]

\* Only the variables of the file count, and an empty one is set.
ExpandFails(c) == \E v \in c.references : c.variables[v] = "unset"

\* A field whose value is a reference to an empty variable is not given.
Given(c, m) ==
  m.given \ {f \in DOMAIN m.secrets : c.variables[m.secrets[f]] = "empty"}

\* Mutant: names are not compared.
validateModules_names(modules) ==
  \A i \in DOMAIN modules : modules[i].name # "" /\ modules[i].type # ""

validateModules(modules) ==
  /\ \A i \in DOMAIN modules : modules[i].name # "" /\ modules[i].type # ""
  /\ \A i, j \in DOMAIN modules : modules[i].name = modules[j].name => i = j

Validate(c) ==
  LET e == Effective(c)
  IN  /\ e.level \in {"debug", "info", "warn", "error"}
      /\ e.window > 0
      /\ c.timezone \in {"", "known"}
      /\ e.llm # ""
      /\ validateModules(c.sources) /\ validateModules(c.sinks)

Load(c) == c.file = "readable" /\ ~ExpandFails(c) /\ c.parses /\ Validate(c)

-----------------------------------------------------------------------------
(* The factories.                                                           *)

Required(type) ==
  CASE type \in {"elasticsearch", "prometheus", "webhook"} -> {"url"}
    [] type = "email" -> {"host", "from", "to"}
    [] type = "homeassistant" -> {"url", "token", "service"}
    [] type = "ollama" -> {"model"}
    [] type = "openai-compatible" -> {"url", "model"}
    [] type = "noop" -> {}

\* The malformed values that a factory finds: what it decodes, enumerates or
\* parses.  The noop LLM does not even decode its settings.
LookedAt(type) ==
  CASE type = "prometheus" -> {"settings", "url"}
    [] type = "email" -> {"settings", "tls", "subject"}
    [] type = "homeassistant" -> {"settings", "template"}
    [] type = "webhook" -> {"settings", "method", "body"}
    [] type = "noop" -> {}
    [] OTHER -> {"settings"}

\* A query of Elasticsearch is a preset or a body with a name, whose template
\* must parse, and takes the thresholds of its configuration over a preset's.
Resolvable(q) ==
  /\ CASE q.preset # "" -> q.preset = "known"
       [] q.preset = "" /\ q.body # "" -> q.name # ""
       [] OTHER -> FALSE
  /\ q.preset = "" => q.body # "unparsable"

Resolve(q) ==
  [title |-> IF q.name # "" THEN q.name ELSE q.preset,
   severity |-> IF q.severity = "none" /\ q.preset # "" THEN "preset" ELSE q.severity,
   executes |-> q.preset # "" \/ q.body = "executes"]

\* A query of Prometheus.
Askable(q) == q.name # "" /\ q.query # "" /\ (q.range => q.step > 0)

QueriesAreValid(m) ==
  /\ m.queries # <<>>
  /\ \A i \in DOMAIN m.queries :
       IF m.type = "elasticsearch" THEN Resolvable(m.queries[i]) ELSE Askable(m.queries[i])

SettingsAreValid(c, m) ==
  /\ Required(m.type) \subseteq Given(c, m)
  /\ m.malformed \cap LookedAt(m.type) = {}

\* Registry lookups come first, then the factory.
BuildsSource(c, m) == m.type \in SourceTypes /\ SettingsAreValid(c, m) /\ QueriesAreValid(m)
BuildsSink(c, m) == m.type \in SinkTypes /\ SettingsAreValid(c, m)
BuildsLLM(c) ==
  LET type == Effective(c).llm
  IN  type \in LLMTypes /\ SettingsAreValid(c, [c.client EXCEPT !.type = type])

\* Mutant: a module that cannot be built is logged and left out.
Builds_lenient(c, noLLM) == Load(c) /\ (noLLM \/ BuildsLLM(c))

\* Build succeeds; the history falls back to memory.
Builds(c, noLLM) ==
  /\ Load(c)
  /\ \A i \in DOMAIN c.sources : BuildsSource(c, c.sources[i])
  /\ \A k \in DOMAIN c.sinks : BuildsSink(c, c.sinks[k])
  /\ noLLM \/ BuildsLLM(c)

timeoutOr(d) == IF d > 0 THEN d ELSE defaultModuleTimeout

\* What is malformed and was not looked at fails the module when it is used.
Unusable(m) == m.malformed # {}
QueriesLostForCertain(m) ==
  IF Unusable(m) THEN DOMAIN m.queries
  ELSE {i \in DOMAIN m.queries :
          m.type = "elasticsearch" /\ ~Resolve(m.queries[i]).executes}
=============================================================================
