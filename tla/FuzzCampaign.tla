---------------------------- MODULE FuzzCampaign ----------------------------
(***************************************************************************)
(* What the daemon promises its clients, without locks, channels or        *)
(* goroutines: a target is registered, its fuzzer starts; a target is      *)
(* unregistered, its fuzzer stops, and only then is the request answered   *)
(* and the next one taken.                                                 *)
(***************************************************************************)

CONSTANTS
  Target,      \* the targets clients use
  CanFuzz      \* those in a language the daemon fuzzes

VARIABLES
  registered,  \* the targets the daemon has accepted
  fuzzed,      \* the targets with a running fuzzer
  leaving      \* the target being unregistered, if any, as a set

vars == <<registered, fuzzed, leaving>>

Init ==
  /\ registered = {}
  /\ fuzzed = {}
  /\ leaving = {}

\* No fuzzer of an earlier registration of t is left.
Register(t) ==
  /\ leaving = {}
  /\ t \notin registered \cup fuzzed
  /\ registered' = registered \cup {t}
  /\ UNCHANGED <<fuzzed, leaving>>

\* The start may lag behind the answer, even behind an unregistration.
Start(t) ==
  /\ t \in (registered \cup leaving) \cap CanFuzz
  /\ t \notin fuzzed
  /\ fuzzed' = fuzzed \cup {t}
  /\ UNCHANGED <<registered, leaving>>

Unregister(t) ==
  /\ leaving = {}
  /\ t \in registered
  /\ registered' = registered \ {t}
  /\ leaving' = {t}
  /\ UNCHANGED fuzzed

\* Only the target being unregistered loses its fuzzer.
Stop ==
  /\ leaving \cap fuzzed # {}
  /\ fuzzed' = fuzzed \ leaving
  /\ UNCHANGED <<registered, leaving>>

Finish ==
  /\ leaving # {}
  /\ leaving \cap fuzzed = {}
  /\ leaving' = {}
  /\ UNCHANGED <<registered, fuzzed>>

Next ==
  \/ \E t \in Target : Register(t) \/ Start(t) \/ Unregister(t)
  \/ Stop
  \/ Finish

Spec == Init /\ [][Next]_vars
=============================================================================
