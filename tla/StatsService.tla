---------------------------- MODULE StatsService ----------------------------
(***************************************************************************)
(* AFLStatsService.Serve and GofuzzStatsService.Serve of                   *)
(* internal/supervisor: the first reads fuzzer_stats of the sync directory *)
(* every minute, the second what a go-fuzz sends that listens on statsPort *)
(* of the host, whoever started it.  Both send a stat on statsChan, where  *)
(* watchStats receives when it does not wait for targetsLock.              *)
(***************************************************************************)
EXTENDS FuzzerService

CONSTANT Uptime   \* the seconds a go-fuzz may have been running

ASSUME UptimeAssumption == Uptime \subseteq Nat

VARIABLE stat   \* supervisor -> the one whose go-fuzz sent what its service has

Stats(s) == <<s, "stats">>

-----------------------------------------------------------------------------
(* The uptime that go-fuzz prints, and what Serve makes of it.  A text is a    *)
(* function from the units it has to their numbers.                            *)

FmtDuration(d) ==
  CASE d >= 3600 -> [h |-> d \div 3600, m |-> (d % 3600) \div 60]
    [] d >= 60 /\ d < 3600 -> [m |-> d \div 60, s |-> d % 60]
    [] OTHER -> [s |-> d]

\* Mutant of SecsRunning: minutes are looked for first.
SecsWithoutHours(text) ==
  IF "m" \in DOMAIN text
  THEN text.m * 60 + (IF "s" \in DOMAIN text THEN text.s ELSE 0)
  ELSE text.s

SecsRunning(text) ==
  CASE "h" \in DOMAIN text -> text.h * 3600 + text.m * 60
    [] "h" \notin DOMAIN text /\ "m" \in DOMAIN text -> text.s + text.m * 60
    [] OTHER -> text.s

-----------------------------------------------------------------------------
StatsInit == stat = [s \in Supervisor |-> None]

\* AFLStatsService waits for fuzzer_stats without a look at its stop channel;
\* GofuzzStatsService starts to listen at once.
StartStats(s) ==
  /\ At(Stats(s), "init")
  /\ s \in AFL => syncDir[TargetOf[s]] = "session"
  /\ Goto(Stats(s), "watch")
  /\ UNCHANGED <<held, files, stat>>

\* A tick: Serve returns when the file is gone, and panics or returns when AFL is
\* just writing it.
ReadStats(s) ==
  LET t     == TargetOf[s]
      there == syncDir[t] = "session"
  IN /\ s \in AFL
     /\ At(Stats(s), "watch")
     /\ \/ there /\ Goto(Stats(s), "send")
        \/ /\ ~there \/ mounted[t]
           /\ Return(Stats(s))
     /\ UNCHANGED <<held, files, stat>>

\* sse.Notify has an event from the go-fuzz that is on the port, and tries to hand
\* it to Serve even when that go-fuzz is gone.
Notify(s) ==
  /\ s \notin AFL
  /\ At(Stats(s), "watch")
  /\ stat[s] = None
  /\ \E t \in Target :
       /\ fuzzerBox[t] # None
       /\ port[fuzzerBox[t]] = port[s]
       /\ stat' = [stat EXCEPT ![s] = fuzzerBox[t]]
  /\ UNCHANGED <<suture, held, files>>

\* Serve takes the event, which may be cut off.
ReceiveEvent(s) ==
  /\ At(Stats(s), "watch")
  /\ stat[s] # None
  /\ \/ Goto(Stats(s), "send") /\ UNCHANGED stat
     \/ Return(Stats(s)) /\ stat' = [stat EXCEPT ![s] = None]
  /\ UNCHANGED <<held, files>>

\* watchStats receives.
SendStat(s) ==
  /\ At(Stats(s), "send")
  /\ Goto(Stats(s), "watch")
  /\ stat' = [stat EXCEPT ![s] = None]
  /\ UNCHANGED <<held, files>>

\* Mutant of StopStats: the select is left, but not the loop around it.
StopBreaks(s) ==
  /\ At(Stats(s), "watch")
  /\ TakeStop(Stats(s), "watch")
  /\ stat' = [stat EXCEPT ![s] = None]
  /\ UNCHANGED <<held, files>>

StopStats(s) ==
  /\ At(Stats(s), "watch")
  /\ TakeStop(Stats(s), "ended")
  /\ stat' = [stat EXCEPT ![s] = None]
  /\ UNCHANGED <<held, files>>

StatsServe(s) == StartStats(s) \/ ReceiveEvent(s) \/ SendStat(s) \/ StopStats(s)

\* What a minute, or a go-fuzz, may bring.
StatsTick(s) == ReadStats(s) \/ Notify(s)

StatsLocation == {"down", "init", "watch", "send", "ended"}

StatsTypeOK ==
  /\ \A s \in Supervisor : pc[Stats(s)] \in StatsLocation
  /\ stat \in [Supervisor -> Supervisor \cup {None}]
=============================================================================
