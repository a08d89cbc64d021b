------------------------------ MODULE MCTarget ------------------------------
(***************************************************************************)
(* TargetTemplates for TLC: supervisors made one after the other for one   *)
(* target, or for two targets at a time.                                   *)
(***************************************************************************)
EXTENDS TargetTemplates, TLC

MCLanguage == [afl |-> "c", vulnerable |-> "c++", gofuzz |-> "go"]

\* The targets in C are fuzzed with ASAN.
MCTemplate == [t \in Target |-> New(MCLanguage[t], MCLanguage[t] = "c")]

MCEnvironment == [t \in Target |-> WrittenEnvironment(t)]

AflTarget  == [s \in Supervisor |-> "afl"]
GoTarget   == [s \in Supervisor |-> "gofuzz"]
TwoTargets == "first" :> "afl" @@ "second" :> "vulnerable"
=============================================================================
