----------------------------- MODULE CronJobMC ------------------------------
(* Instances of CronJob for TLC: a configuration, and what can be wrong. *)
EXTENDS CronJob, TLC

Preset == [preset |-> "known", name |-> "", body |-> "", severity |-> "none"]
Custom(body) == [preset |-> "", name |-> "mine", body |-> body, severity |-> "own"]
Promql == [name |-> "rate", query |-> "q", range |-> FALSE, step |-> 0]

Module(name, type, given) ==
  [name |-> name, type |-> type, timeout |-> 0, given |-> given, malformed |-> {}, secrets |-> <<>>]
Source(name, type, queries) == Module(name, type, {"url"}) @@ [queries |-> queries]

Es == Source("es", "elasticsearch", <<Preset, Custom("executes")>>)
Prom == Source("prom", "prometheus", <<Promql>>)
Phone == [Module("phone", "homeassistant", {"url", "token", "service"})
            EXCEPT !.secrets = [token |-> "HA_TOKEN"]]
Mail == Module("mail", "email", {"host", "from", "to"})
Hook == Module("hook", "webhook", {"url"})

Good ==
  [file |-> "readable", references |-> {"HA_TOKEN"}, variables |-> [HA_TOKEN |-> "set"],
   parses |-> TRUE, noLLM |-> FALSE, env |-> [level |-> <<>>, window |-> <<>>, llm |-> <<>>],
   level |-> <<>>, window |-> <<60>>, llm |-> <<"ollama">>, timezone |-> "known",
   client |-> Module("llm", "", {"model"}), sources |-> <<Es, Prom>>, sinks |-> <<Phone, Hook>>]

With(m, bad) == [m EXCEPT !.malformed = {bad}]

\* What Load refuses.
Invalid ==
  {[Good EXCEPT !.file = "missing"], [Good EXCEPT !.variables["HA_TOKEN"] = "unset"],
   [Good EXCEPT !.parses = FALSE], [Good EXCEPT !.level = <<"loud">>],
   [Good EXCEPT !.window = <<0>>], [Good EXCEPT !.timezone = "unknown"],
   [Good EXCEPT !.env.window = <<-60>>], [Good EXCEPT !.env.llm = <<"">>],
   [Good EXCEPT !.sources[1].name = ""], [Good EXCEPT !.sinks[1].type = ""],
   [Good EXCEPT !.sources[1].name = "prom"], [Good EXCEPT !.sinks[1].name = "hook"]}

\* What a factory refuses.
Broken ==
  {[Good EXCEPT !.variables["HA_TOKEN"] = "empty"], [Good EXCEPT !.sources[1].type = "loki"],
   [Good EXCEPT !.sinks[2].given = {}], [Good EXCEPT !.sinks[2] = With(Hook, "method")],
   [Good EXCEPT !.sinks[2] = With(Mail, "tls")], [Good EXCEPT !.sources[1].queries = <<>>],
   [Good EXCEPT !.sources[1].queries = <<[Preset EXCEPT !.preset = "unknown"]>>],
   [Good EXCEPT !.sources[1].queries = <<Custom("")>>],
   [Good EXCEPT !.sources[1].queries = <<[Custom("executes") EXCEPT !.name = ""]>>],
   [Good EXCEPT !.sources[1].queries = <<Custom("unparsable")>>],
   [Good EXCEPT !.sources[2].queries[1].name = ""], [Good EXCEPT !.sources[2].queries[1].range = TRUE],
   [Good EXCEPT !.llm = <<"gpt">>], [Good EXCEPT !.env.llm = <<"openai-compatible">>]}

\* The job may run without the LLM, and without one that is broken.
WithoutLLM ==
  {[Good EXCEPT !.noLLM = TRUE, !.sinks = <<Phone>>],
   [Good EXCEPT !.noLLM = TRUE, !.llm = <<"gpt">>, !.sources = <<Prom>>, !.sinks = <<Phone>>]}

\* What shows when it is used, and other configurations that run.
Usable ==
  {[Good EXCEPT !.noLLM = TRUE, !.sources = <<Es>>],
   [Good EXCEPT !.sources = <<Prom>>, !.sinks = <<Mail, Phone>>],
   [Good EXCEPT !.noLLM = TRUE, !.sinks = <<With(Mail, "from"), Hook>>],
   [Good EXCEPT !.sources[1].queries = <<Custom("fails")>>, !.sinks = <<Phone>>],
   [Good EXCEPT !.sources = <<With(Es, "url")>>, !.sinks = <<Phone>>],
   [Good EXCEPT !.sources = <<>>, !.sinks = <<Hook>>], [Good EXCEPT !.sinks = <<>>],
   [Good EXCEPT !.env.llm = <<"noop">>, !.sinks = <<Hook>>]}

AllConfigs == Invalid \cup Broken \cup Usable \cup WithoutLLM
=============================================================================
