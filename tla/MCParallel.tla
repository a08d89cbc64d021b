----------------------------- MODULE MCParallel -----------------------------
(***************************************************************************)
(* ParallelFuzz for TLC.  Targets are the names of the languages' sample   *)
(* targets; rubyfuzz is in a language that only maxfuzz-tools knows.       *)
(***************************************************************************)
EXTENDS ParallelFuzz, TLC

MCLanguage == [afl |-> "c", gofuzz |-> "go", rubyfuzz |-> "ruby"]

Requesters == Permutations(Handler)
=============================================================================
