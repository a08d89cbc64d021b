------------------------ MODULE TargetTemplatesProofs ------------------------
(***************************************************************************)
(* Theorems about TargetTemplates: the files that maxfuzz-tools writes, in *)
(* every language and with or without ASAN, suit the daemon.               *)
(***************************************************************************)
EXTENDS TargetTemplates, TargetDirectoryProofs

\* The variables that the generator knows, and its lines.
Variable == {"BUILD_FILES", "FUZZER_NAME", "AFL_USE_ASAN", "ASAN_OPTIONS",
             "ASAN_SYMBOLIZER_PATH", "CORPUS", "GO_FUZZ_ZIP", "AFL_FUZZ",
             "AFL_BINARY", "AFL_MEMORY_LIMIT", "AFL_OPTIONS"}

Line == [sets : Variable, uses : SUBSET Variable]

\* Each part of an environment is a sequence of lines.
LEMMA VariablesConcat ==
  ASSUME NEW e \in Seq(Line), NEW f \in Seq(Line)
  PROVE  /\ e \o f \in Seq(Line)
         /\ Variables(e \o f) = Variables(e) \cup Variables(f)
<1>1. /\ e \o f \in Seq(Line)
      /\ Len(e \o f) = Len(e) + Len(f)
      /\ \A i \in 1 .. Len(e) : (e \o f)[i] = e[i]
      /\ \A i \in 1 .. Len(f) : (e \o f)[Len(e) + i] = f[i]
      /\ Len(e) \in Nat /\ Len(f) \in Nat
      /\ DOMAIN e = 1 .. Len(e) /\ DOMAIN f = 1 .. Len(f)
      /\ DOMAIN (e \o f) = 1 .. Len(e) + Len(f)
  OBVIOUS
<1>2. Variables(e) \cup Variables(f) \subseteq Variables(e \o f)
  <2>1. ASSUME NEW i \in DOMAIN e PROVE e[i].sets \in Variables(e \o f)
    BY <1>1, <2>1 DEF Variables
  <2>2. ASSUME NEW i \in DOMAIN f PROVE f[i].sets \in Variables(e \o f)
    <3>1. Len(e) + i \in DOMAIN (e \o f) /\ (e \o f)[Len(e) + i] = f[i]
      BY <1>1, <2>2
    <3>2. QED
      BY <3>1 DEF Variables
  <2>3. QED
    BY <2>1, <2>2 DEF Variables
<1>3. Variables(e \o f) \subseteq Variables(e) \cup Variables(f)
  <2> SUFFICES ASSUME NEW i \in DOMAIN (e \o f)
               PROVE  (e \o f)[i].sets \in Variables(e) \cup Variables(f)
    BY DEF Variables
  <2>1. CASE i \in 1 .. Len(e)
    BY <1>1, <2>1 DEF Variables
  <2>2. CASE i - Len(e) \in 1 .. Len(f)
    <3>1. (e \o f)[i] = f[i - Len(e)]
      BY <1>1, <2>2
    <3>2. QED
      BY <1>1, <2>2, <3>1 DEF Variables
  <2>3. QED
    BY <1>1, <2>1, <2>2
<1>4. QED
  BY <1>1, <1>2, <1>3

\* What a line may use is what is set by those before it.
LEMMA VariablesBefore ==
  ASSUME NEW e \in Seq(Line), NEW i \in DOMAIN e
  PROVE  Variables(SubSeq(e, 1, i - 1)) = {e[j].sets : j \in 1 .. i - 1}
<1>1. /\ i \in 1 .. Len(e) /\ Len(e) \in Nat
      /\ DOMAIN SubSeq(e, 1, i - 1) = 1 .. i - 1
      /\ \A j \in 1 .. i - 1 : SubSeq(e, 1, i - 1)[j] = e[j]
  OBVIOUS
<1>2. QED
  BY <1>1 DEF Variables

LEMMA SetBeforeUseConcat ==
  ASSUME NEW e \in Seq(Line), NEW f \in Seq(Line), SetBeforeUse(e),
         \A i \in DOMAIN f : f[i].uses \subseteq Variables(e)
  PROVE  SetBeforeUse(e \o f)
<1>1. /\ e \o f \in Seq(Line)
      /\ \A i \in 1 .. Len(e) : (e \o f)[i] = e[i]
      /\ \A i \in 1 .. Len(f) : (e \o f)[Len(e) + i] = f[i]
      /\ Len(e) \in Nat /\ Len(f) \in Nat
      /\ DOMAIN e = 1 .. Len(e) /\ DOMAIN f = 1 .. Len(f)
      /\ DOMAIN (e \o f) = 1 .. Len(e) + Len(f)
  OBVIOUS
<1> SUFFICES ASSUME NEW i \in DOMAIN (e \o f)
             PROVE  (e \o f)[i].uses \subseteq {(e \o f)[j].sets : j \in 1 .. i - 1}
  BY <1>1, VariablesBefore DEF SetBeforeUse
<1>2. CASE i \in DOMAIN e
  <2>1. e[i].uses \subseteq {e[j].sets : j \in 1 .. i - 1}
    BY <1>2, VariablesBefore DEF SetBeforeUse
  <2>2. \A j \in 1 .. i - 1 : (e \o f)[j] = e[j]
    BY <1>1, <1>2
  <2>3. QED
    BY <1>1, <1>2, <2>1, <2>2
<1>3. CASE i \notin DOMAIN e
  <2>1. i - Len(e) \in DOMAIN f /\ (e \o f)[i] = f[i - Len(e)]
    BY <1>1, <1>3
  <2>2. (e \o f)[i].uses \subseteq {e[j].sets : j \in 1 .. Len(e)}
    BY <1>1, <2>1 DEF Variables
  <2>3. \A j \in 1 .. Len(e) : j \in 1 .. i - 1 /\ (e \o f)[j] = e[j]
    BY <1>1, <1>3
  <2>4. QED
    BY <2>2, <2>3
<1>4. QED
  BY <1>2, <1>3

-----------------------------------------------------------------------------
(* The generated files. *)

LEMMA PlainExport ==
  ASSUME NEW name \in Variable
  PROVE  /\ Export(name, {}) \in Line
         /\ Export(name, {}).sets = name
         /\ Export(name, {}).uses = {}
  BY DEF Export, Line

LEMMA OneLine ==
  ASSUME NEW a \in Line
  PROVE  /\ <<a>> \in Seq(Line)
         /\ Variables(<<a>>) = {a.sets}
         /\ \A i \in DOMAIN <<a>> : <<a>>[i].uses = a.uses
<1>1. DOMAIN <<a>> = {1} /\ <<a>>[1] = a
  OBVIOUS
<1>2. <<a>> \in Seq(Line)
  OBVIOUS
<1>3. QED
  BY <1>1, <1>2 DEF Variables

LEMMA TwoLines ==
  ASSUME NEW a \in Line, NEW b \in Line
  PROVE  /\ <<a, b>> \in Seq(Line)
         /\ Variables(<<a, b>>) = {a.sets, b.sets}
         /\ \A i \in DOMAIN <<a, b>> : <<a, b>>[i].uses \in {a.uses, b.uses}
<1>1. DOMAIN <<a, b>> = {1, 2} /\ <<a, b>>[1] = a /\ <<a, b>>[2] = b
  OBVIOUS
<1>2. <<a, b>> \in Seq(Line)
  OBVIOUS
<1>3. QED
  BY <1>1, <1>2 DEF Variables

LEMMA ThreeLines ==
  ASSUME NEW a \in Line, NEW b \in Line, NEW c \in Line
  PROVE  /\ <<a, b, c>> \in Seq(Line)
         /\ \A i \in DOMAIN <<a, b, c>> :
              <<a, b, c>>[i].uses \in {a.uses, b.uses, c.uses}
  OBVIOUS

LEMMA FourLines ==
  ASSUME NEW a \in Line, NEW b \in Line, NEW c \in Line, NEW d \in Line
  PROVE  /\ <<a, b, c, d>> \in Seq(Line)
         /\ Variables(<<a, b, c, d>>) = {a.sets, b.sets, c.sets, d.sets}
         /\ \A i \in DOMAIN <<a, b, c, d>> :
              <<a, b, c, d>>[i].uses \in {a.uses, b.uses, c.uses, d.uses}
<1>1. /\ DOMAIN <<a, b, c, d>> = {1, 2, 3, 4}
      /\ <<a, b, c, d>>[1] = a /\ <<a, b, c, d>>[2] = b
      /\ <<a, b, c, d>>[3] = c /\ <<a, b, c, d>>[4] = d
  OBVIOUS
<1>2. <<a, b, c, d>> \in Seq(Line)
  OBVIOUS
<1>3. QED
  BY <1>1, <1>2 DEF Variables

\* A sequence of lines that use nothing.
Plain(e) == e \in Seq(Line) /\ \A i \in DOMAIN e : e[i].uses = {}

LEMMA PlainParts ==
  /\ Plain(EnvironmentPrefix)
  /\ Variables(EnvironmentPrefix) = {"BUILD_FILES", "FUZZER_NAME"}
  /\ Plain(EnvironmentAsanBlock)
  /\ Plain(<<Export("CORPUS", {})>>)
  /\ Variables(<<Export("CORPUS", {})>>) = {"CORPUS"}
  /\ Plain(<<>>)
<1>1. /\ Plain(EnvironmentPrefix)
      /\ Variables(EnvironmentPrefix) = {"BUILD_FILES", "FUZZER_NAME"}
  <2> DEFINE a == Export("BUILD_FILES", {})
             b == Export("FUZZER_NAME", {})
  <2>1. EnvironmentPrefix = <<a, b>>
    BY DEF EnvironmentPrefix
  <2>2. /\ a \in Line /\ a.sets = "BUILD_FILES" /\ a.uses = {}
        /\ b \in Line /\ b.sets = "FUZZER_NAME" /\ b.uses = {}
    BY PlainExport DEF Variable
  <2> HIDE DEF a, b
  <2>3. QED
    BY <2>1, <2>2, TwoLines DEF Plain
<1>2. Plain(EnvironmentAsanBlock)
  <2> DEFINE a == Export("AFL_USE_ASAN", {})
             b == Export("ASAN_OPTIONS", {})
             c == Export("ASAN_SYMBOLIZER_PATH", {})
  <2>1. EnvironmentAsanBlock = <<a, b, c>>
    BY DEF EnvironmentAsanBlock
  <2>2. /\ a \in Line /\ a.uses = {}
        /\ b \in Line /\ b.uses = {}
        /\ c \in Line /\ c.uses = {}
    BY PlainExport DEF Variable
  <2> HIDE DEF a, b, c
  <2>3. QED
    BY <2>1, <2>2, ThreeLines DEF Plain
<1>3. /\ Plain(<<Export("CORPUS", {})>>)
      /\ Variables(<<Export("CORPUS", {})>>) = {"CORPUS"}
  <2> DEFINE a == Export("CORPUS", {})
  <2>1. a \in Line /\ a.sets = "CORPUS" /\ a.uses = {}
    BY PlainExport DEF Variable
  <2> HIDE DEF a
  <2>2. Plain(<<a>>) /\ Variables(<<a>>) = {"CORPUS"}
    BY <2>1, OneLine DEF Plain
  <2>3. QED
    BY <2>2 DEF a
<1>4. Plain(<<>>)
  BY DEF Plain
<1>5. QED
  BY <1>1, <1>2, <1>3, <1>4

\* Only the line for Go uses a variable, of the prefix.
LEMMA Settings ==
  ASSUME NEW l
  PROVE  LET e == EnvironmentSettings(l)
         IN /\ e \in Seq(Line)
            /\ \A i \in DOMAIN e : e[i].uses \subseteq {"BUILD_FILES"}
            /\ (IF l = "go" THEN GofuzzNeeds ELSE AFLNeeds) \subseteq Variables(e)
<1>1. CASE l = "go"
  <2> DEFINE a == Export("GO_FUZZ_ZIP", {"BUILD_FILES"})
  <2>1. EnvironmentSettings(l) = <<a>>
    BY <1>1 DEF EnvironmentSettings
  <2>2. a \in Line /\ a.sets = "GO_FUZZ_ZIP" /\ a.uses = {"BUILD_FILES"}
    BY DEF Export, Line, Variable
  <2> HIDE DEF a
  <2>3. QED
    BY <1>1, <2>1, <2>2, OneLine DEF GofuzzNeeds
<1>2. CASE l # "go"
  <2> DEFINE a == Export("AFL_FUZZ", {})
             b == Export("AFL_BINARY", {})
             c == Export("AFL_MEMORY_LIMIT", {})
             d == Export("AFL_OPTIONS", {})
  <2>1. EnvironmentSettings(l) = <<a, b, c, d>>
    BY <1>2 DEF EnvironmentSettings
  <2>2. /\ a \in Line /\ a.sets = "AFL_FUZZ" /\ a.uses = {}
        /\ b \in Line /\ b.sets = "AFL_BINARY" /\ b.uses = {}
        /\ c \in Line /\ c.sets = "AFL_MEMORY_LIMIT" /\ c.uses = {}
        /\ d \in Line /\ d.uses = {}
    BY PlainExport DEF Variable
  <2> HIDE DEF a, b, c, d
  <2>3. QED
    BY <1>2, <2>1, <2>2, FourLines DEF AFLNeeds
<1>3. QED
  BY <1>1, <1>2

LEMMA PlainConcat ==
  ASSUME NEW e \in Seq(Line), SetBeforeUse(e), NEW f, Plain(f)
  PROVE  /\ e \o f \in Seq(Line)
         /\ SetBeforeUse(e \o f)
         /\ Variables(e) \cup Variables(f) \subseteq Variables(e \o f)
  BY VariablesConcat, SetBeforeUseConcat DEF Plain

\* An environment sets what it uses, what build_steps uses and what the command of
\* its language needs.
LEMMA EnvironmentFits ==
  ASSUME NEW t
  PROVE  LET e == GenerateEnvironment(t, <<>>)
         IN /\ SetBeforeUse(e)
            /\ {"BUILD_FILES", "CORPUS"} \subseteq Variables(e)
            /\ (IF t.Language = "go" THEN GofuzzNeeds ELSE AFLNeeds)
                 \subseteq Variables(e)
<1> DEFINE asan == IF t.ASAN THEN EnvironmentAsanBlock ELSE <<>>
           settings == EnvironmentSettings(t.Language)
           e0 == EnvironmentPrefix
           e1 == e0 \o asan
           e2 == e1 \o <<Export("CORPUS", {})>>
           e3 == e2 \o settings
           e4 == e3 \o <<>>
<1>0. e0 \in Seq(Line) /\ SetBeforeUse(e0) /\ "BUILD_FILES" \in Variables(e0)
  BY PlainParts DEF Plain, SetBeforeUse
<1>1. e1 \in Seq(Line) /\ SetBeforeUse(e1) /\ "BUILD_FILES" \in Variables(e1)
  BY <1>0, PlainParts, PlainConcat
<1>2. /\ e2 \in Seq(Line) /\ SetBeforeUse(e2)
      /\ {"BUILD_FILES", "CORPUS"} \subseteq Variables(e2)
  BY <1>1, PlainParts, PlainConcat
<1>3. /\ e3 \in Seq(Line) /\ SetBeforeUse(e3)
      /\ Variables(e3) = Variables(e2) \cup Variables(settings)
  <2>1. /\ settings \in Seq(Line)
        /\ \A i \in DOMAIN settings : settings[i].uses \subseteq {"BUILD_FILES"}
    BY Settings
  <2> HIDE DEF settings, e2
  <2>2. \A i \in DOMAIN settings : settings[i].uses \subseteq Variables(e2)
    BY <1>2, <2>1
  <2>3. QED
    BY <1>2, <2>1, <2>2, SetBeforeUseConcat, VariablesConcat
<1>4. e4 = e3
  BY <1>3
<1>5. GenerateEnvironment(t, <<>>) = e4
  BY DEF GenerateEnvironment
<1>6. QED
  BY <1>2, <1>3, <1>4, <1>5, Settings

LEMMA UsesConcat ==
  ASSUME NEW S, NEW V, NEW e \in Seq(S), NEW f \in Seq(S),
         \A i \in DOMAIN e : e[i].uses \subseteq V,
         \A i \in DOMAIN f : f[i].uses \subseteq V
  PROVE  /\ e \o f \in Seq(S)
         /\ \A i \in DOMAIN (e \o f) : (e \o f)[i].uses \subseteq V
<1>1. /\ e \o f \in Seq(S)
      /\ \A i \in 1 .. Len(e) : (e \o f)[i] = e[i]
      /\ \A i \in 1 .. Len(f) : (e \o f)[Len(e) + i] = f[i]
      /\ Len(e) \in Nat /\ Len(f) \in Nat
      /\ DOMAIN e = 1 .. Len(e) /\ DOMAIN f = 1 .. Len(f)
      /\ DOMAIN (e \o f) = 1 .. Len(e) + Len(f)
  OBVIOUS
<1> SUFFICES ASSUME NEW i \in DOMAIN (e \o f) PROVE (e \o f)[i].uses \subseteq V
  BY <1>1
<1>2. CASE i \in DOMAIN e
  BY <1>1, <1>2
<1>3. CASE i \notin DOMAIN e
  <2>1. i - Len(e) \in DOMAIN f /\ (e \o f)[i] = f[i - Len(e)]
    BY <1>1, <1>3
  <2>2. QED
    BY <2>1
<1>4. QED
  BY <1>2, <1>3

\* build_steps uses two variables.
LEMMA BuildStepsFit ==
  ASSUME NEW t
  PROVE  LET steps == GenerateBuildSteps(t, <<>>)
         IN \A i \in DOMAIN steps : steps[i].uses \subseteq {"BUILD_FILES", "CORPUS"}
<1> DEFINE a == Block("copy corpus", {"CORPUS"})
           b == Block("get symbolizer", {})
           c == Block("change directory", {"BUILD_FILES"})
           S == {a, b, c}
           V == {"BUILD_FILES", "CORPUS"}
           asan == IF t.ASAN THEN <<b>> ELSE <<>>
           steps == ((<<a>> \o asan) \o <<c>>) \o <<>>
<1>1. CASE t.Language = "go"
  BY <1>1 DEF GenerateBuildSteps
<1>2. CASE t.Language # "go"
  <2>1. a.uses = {"CORPUS"} /\ b.uses = {} /\ c.uses = {"BUILD_FILES"}
    BY DEF Block
  <2>2. GenerateBuildSteps(t, <<>>) = steps
    BY <1>2 DEF GenerateBuildSteps
  <2> HIDE DEF a, b, c
  <2>3. ASSUME NEW x \in S
        PROVE  /\ <<x>> \in Seq(S)
               /\ \A i \in DOMAIN <<x>> : <<x>>[i].uses \subseteq V
    BY <2>1, <2>3
  <2>4. /\ asan \in Seq(S)
        /\ \A i \in DOMAIN asan : asan[i].uses \subseteq V
    <3>1. CASE t.ASAN
      BY <2>3, <3>1
    <3>2. CASE ~t.ASAN
      BY <3>2
    <3>3. QED
      BY <3>1, <3>2
  <2> HIDE DEF asan, V
  <2>5. /\ <<a>> \o asan \in Seq(S)
        /\ \A i \in DOMAIN (<<a>> \o asan) : (<<a>> \o asan)[i].uses \subseteq V
    BY <2>3, <2>4, UsesConcat
  <2> DEFINE e == <<a>> \o asan
  <2> HIDE DEF e
  <2>6. /\ e \o <<c>> \in Seq(S)
        /\ \A i \in DOMAIN (e \o <<c>>) : (e \o <<c>>)[i].uses \subseteq V
    BY <2>3, <2>5, UsesConcat DEF e
  <2>7. (e \o <<c>>) \o <<>> = e \o <<c>>
    BY <2>6
  <2>8. QED
    BY <2>2, <2>6, <2>7 DEF e, V
<1>3. QED
  BY <1>1, <1>2

-----------------------------------------------------------------------------
(* The files and the daemon. *)

LEMMA WrittenForAll ==
  ASSUME NEW t \in Target
  PROVE  Environment[t] = Variables(EnvironmentFile(t))
<1>1. Template[t].Language \in SupportedLanguages
  BY TemplateAssumption DEF New
<1>2. QED
  BY <1>1, EnvironmentAssumption DEF WrittenEnvironment, NewFuzzer, SupportedBases

\* Serve has read the environment of its own target, as long as no directory has
\* the files of another.
OwnEnvironment == \A s \in Supervisor : env[s] \in {None, TargetOf[s]}

LEMMA EnvironmentKept ==
  ASSUME TypeInv, OwnContext, OwnEnvironment, [Next]_vars
  PROVE  OwnEnvironment'
<1>t. env \in [Supervisor -> Target \cup {None}]
  BY DEF TypeInv, OwnTypeOK
<1>1. CASE Elsewhere
  BY <1>1, ElsewhereEnv DEF OwnEnvironment
<1>2. ASSUME NEW s \in Supervisor, RunFuzzer(s) \/ LoseSight(s)
      PROVE  OwnEnvironment'
  <2>1. CASE ReadEnvironment(s)
    BY <1>t, <2>1, SupervisorAssumption DEF ReadEnvironment, OwnContext, OwnEnvironment
  <2>2. CASE ~ReadEnvironment(s)
    <3>1. env' = env
      BY <1>2, <2>2
      DEF RunFuzzer, LoseSight, FuzzerServe, fuzzerVars, setup, AssignSoln, ReturnSoln,
          SetupClean, GetTarget, OpenTarget, RemoveWorking, CheckBackup, GetBackup,
          FillBackup, OpenBackup, RemoveBackup, KillOldBoxes, CreateBuildBox, StopBuild,
          BuildFails, CommitBuild, Deploy, InspectFuzzer, FuzzerGone, InspectFails,
          KillFuzzer
    <3>2. QED
      BY <3>1 DEF OwnEnvironment
  <2>3. QED
    BY <2>1, <2>2
<1>3. QED
  BY <1>1, <1>2, NextParts

\* Whatever the languages of the targets, and with or without ASAN, the daemon finds
\* what it needs in the files that maxfuzz-tools has written, as long as every
\* target is set up with its own.
THEOREM TemplatesFit == Spec /\ []OwnContext => []TemplatesFitDaemon
<1>1. Init => OwnEnvironment
  BY DEF Init, FuzzerInit, OwnEnvironment
<1>2. TypeInv /\ OwnEnvironment => TemplatesFitDaemon
  <2> SUFFICES ASSUME TypeInv, OwnEnvironment, NEW s \in Supervisor, env[s] # None
               PROVE  /\ HasCommand(s)
                      /\ SetBeforeUse(EnvironmentFile(env[s]))
                      /\ \A i \in DOMAIN BuildSteps(env[s]) :
                           BuildSteps(env[s])[i].uses \subseteq Environment[env[s]]
    BY DEF TemplatesFitDaemon
  <2> DEFINE t == TargetOf[s]
  <2>1. env[s] = t /\ t \in Target
    BY SupervisorAssumption DEF OwnEnvironment
  <2>2. s \in AFL <=> Template[t].Language # "go"
    BY ConstructorAssumption
  <2>3. HasCommand(s)
    BY <2>1, <2>2, WrittenForAll, EnvironmentFits DEF HasCommand, EnvironmentFile
  <2>4. SetBeforeUse(EnvironmentFile(t))
    BY EnvironmentFits DEF EnvironmentFile
  <2>5. ASSUME NEW i \in DOMAIN BuildSteps(t)
        PROVE  BuildSteps(t)[i].uses \subseteq Environment[t]
    <3>1. BuildSteps(t)[i].uses \subseteq {"BUILD_FILES", "CORPUS"}
      BY BuildStepsFit DEF BuildSteps
    <3>2. {"BUILD_FILES", "CORPUS"} \subseteq Environment[t]
      BY <2>1, WrittenForAll, EnvironmentFits DEF EnvironmentFile
    <3>3. QED
      BY <3>1, <3>2
  <2>6. QED
    BY <2>1, <2>3, <2>4, <2>5
<1>3. QED
  BY <1>1, <1>2, EnvironmentKept, TypesAlways, PTL DEF Spec

\* In particular when supervisors do not overlap.
THEOREM TemplatesFitApart == Spec /\ []Apart => []TemplatesFitDaemon
  BY TemplatesFit, ContextsOwn, PTL

=============================================================================
