------------------------------ MODULE MCRobin ------------------------------
(***************************************************************************)
(* RoundRobin for TLC.  Targets are the names of the languages' sample     *)
(* targets; rubyfuzz is in a language without a constructor.               *)
(***************************************************************************)
EXTENDS RoundRobin, TLC

MCLanguage == [afl |-> "c", gofuzz |-> "go", vulnerable |-> "c++",
               rubyfuzz |-> "ruby"]

Requesters == Permutations(Handler)
=============================================================================
