--------------------------- MODULE TargetTemplates ---------------------------
(***************************************************************************)
(* TargetFuzzer for targets whose files maxfuzz-tools new has written: the *)
(* two programs meet in the names of the variables.                        *)
(***************************************************************************)
EXTENDS TargetFuzzer, Templates

CONSTANT Template    \* target -> what templates.New has made for it

ASSUME TemplateAssumption ==
  Template \in [Target -> {New(l, a) : l \in SupportedLanguages, a \in BOOLEAN}]

\* BlankFuzzer has no variables and no build steps of its own.
EnvironmentFile(t) == GenerateEnvironment(Template[t], <<>>)
BuildSteps(t)      == GenerateBuildSteps(Template[t], <<>>)

\* What is set in a target's containers, if the command got as far as its file.
WrittenEnvironment(t) ==
  IF "environment" \in NewFuzzer(Template[t].Language, "ubuntu:xenial")
  THEN Variables(EnvironmentFile(t))
  ELSE {}

ASSUME EnvironmentAssumption ==
  \A t \in Target : Environment[t] = WrittenEnvironment(t)

\* fuzzServices: targets are registered in the language of their files.
ASSUME ConstructorAssumption ==
  \A s \in Supervisor :
    LET language == Template[TargetOf[s]].Language
    IN \/ s \in AFL /\ language \in {"c", "c++"}
       \/ s \notin AFL /\ language = "go"

-----------------------------------------------------------------------------
\* What maxfuzz-tools writes for a target is what the daemon that fuzzes it needs:
\* every variable of its fuzz command is set in the environment that Serve has
\* read, a line uses only what lines before it set, and build_steps, which the
\* buildbox runs, only what the environment sets (templates.go:47-108,
\* fuzzer_methods.go:97-142).
TemplatesFitDaemon ==
  \A s \in Supervisor :
    env[s] # None =>
      /\ HasCommand(s)
      /\ SetBeforeUse(EnvironmentFile(env[s]))
      /\ \A i \in DOMAIN BuildSteps(env[s]) :
           BuildSteps(env[s])[i].uses \subseteq Environment[env[s]]
=============================================================================
