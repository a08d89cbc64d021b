------------------------------ MODULE Templates ------------------------------
(***************************************************************************)
(* maxfuzz-tools new: the files of a new fuzzer, as pkg/templates and      *)
(* newFuzzer of cmd/maxfuzz-tools write them.  The daemon parses the       *)
(* environment, and its containers run build_steps with it.                *)
(*                                                                         *)
(* An environment is the sequence of its export lines, build steps are the *)
(* sequence of their blocks; of each line or block there is what it sets   *)
(* or does, and the variables it uses.                                     *)
(***************************************************************************)
EXTENDS Integers, Sequences

SupportedLanguages == {"c", "c++", "go", "ruby", "python"}
SupportedBases     == {"ubuntu:xenial"}

Export(name, uses) == [sets |-> name, uses |-> uses]
Block(does, uses)  == [does |-> does, uses |-> uses]

\* templates.New.
New(language, asan) ==
  [Language |-> language, ASAN |-> asan /\ language # "go"]

EnvironmentPrefix == <<Export("BUILD_FILES", {}), Export("FUZZER_NAME", {})>>

EnvironmentAsanBlock ==
  <<Export("AFL_USE_ASAN", {}), Export("ASAN_OPTIONS", {}),
    Export("ASAN_SYMBOLIZER_PATH", {})>>

\* Mutant of EnvironmentSettings: Go has the settings of the others.
AFLSettings(language) ==
  <<Export("AFL_FUZZ", {}), Export("AFL_BINARY", {}),
    Export("AFL_MEMORY_LIMIT", {}), Export("AFL_OPTIONS", {})>>

\* The lines for Python have another path of the same variable.
EnvironmentSettings(language) ==
  IF language = "go"
  THEN <<Export("GO_FUZZ_ZIP", {"BUILD_FILES"})>>
  ELSE <<Export("AFL_FUZZ", {}), Export("AFL_BINARY", {}),
         Export("AFL_MEMORY_LIMIT", {}), Export("AFL_OPTIONS", {})>>

\* Mutant of GenerateEnvironment: the settings are an alternative to ASAN's.
EnvironmentOrAsan(t, custom) ==
  EnvironmentPrefix
    \o <<Export("CORPUS", {})>>
    \o (IF t.ASAN THEN EnvironmentAsanBlock ELSE EnvironmentSettings(t.Language))
    \o custom

GenerateEnvironment(t, custom) ==
  EnvironmentPrefix
    \o (IF t.ASAN THEN EnvironmentAsanBlock ELSE <<>>)
    \o <<Export("CORPUS", {})>>
    \o EnvironmentSettings(t.Language)
    \o custom

GenerateBuildSteps(t, custom) ==
  IF t.Language = "go"
  THEN <<>>
  ELSE <<Block("copy corpus", {"CORPUS"})>>
         \o (IF t.ASAN THEN <<Block("get symbolizer", {})>> ELSE <<>>)
         \o <<Block("change directory", {"BUILD_FILES"})>>
         \o custom

\* newFuzzer: the files there are when it returns.  The directory is made before
\* the arguments are looked at.
NewFuzzer(language, base) ==
  {"dir"} \cup IF language \in SupportedLanguages /\ base \in SupportedBases
               THEN {"build_steps", "environment", "corpus"}
               ELSE {}

\* What gotenv.Parse makes of an environment: the variables it sets.
Variables(environment) == {environment[i].sets : i \in DOMAIN environment}

\* A line expands only what lines before it have set.
SetBeforeUse(environment) ==
  \A i \in DOMAIN environment :
    environment[i].uses \subseteq Variables(SubSeq(environment, 1, i - 1))
=============================================================================
