--------------------------- MODULE TargetServices ---------------------------
(***************************************************************************)
(* What the services that fuzz a target have in common.                    *)
(*                                                                         *)
(* NewCFuzzer and NewGoFuzzer put a fuzzer, a backup, a crash and a        *)
(* statistics service into a suture supervisor; FuzzerService,             *)
(* BackupService, CrashService and StatsService model their Serve methods, *)
(* TargetFuzzer composes them.  This module has suture, the ports of the   *)
(* host, storage.Init and the files that the services share.               *)
(*                                                                         *)
(* A target that is unregistered and registered again gets a new           *)
(* supervisor.  Services of the old one may still be running: they stop    *)
(* only where they select on their stop channel, and Supervisor.Stop does  *)
(* not wait for longer than its Timeout.                                   *)
(*                                                                         *)
(* When the daemon ends, in the middle of whatever it does, its goroutines *)
(* and variables are gone; files and containers stay for the next daemon,  *)
(* which starts with no target registered.                                 *)
(***************************************************************************)
EXTENDS Integers

CONSTANTS
  Target,       \* the UniqueIDs of the targets
  Supervisor,   \* the supervisors made by NewCFuzzer or NewGoFuzzer
  TargetOf,     \* the target each of them is for
  AFL,          \* those made by NewCFuzzer
  Roles,        \* the services that run, to look at some of them alone
  HostPort,     \* the ports from 8090 on that getAvailablePort can reach
  Failing,      \* what may fail: "build", "exit" (of the fuzzer), docker calls that
                \* "create", "inspect" or "remove", "write" (of a file)
  Crashes       \* BOOLEAN: the daemon may end and be started again

Role    == {"fuzzer", "backup", "crash", "stats"}
Service == Supervisor \X Role

None   == "none"
NoPort == 0      \* NewCFuzzer takes no port

ASSUME NoneAssumption == None \notin Target \cup Supervisor

ASSUME SupervisorAssumption ==
  /\ TargetOf \in [Supervisor -> Target]
  /\ AFL \subseteq Supervisor
  /\ Roles \subseteq Role
  /\ Crashes \in BOOLEAN

ASSUME FailingAssumption ==
  Failing \subseteq {"build", "exit", "create", "inspect", "remove", "write"}

ASSUME PortAssumption == HostPort \subseteq Nat \ {NoPort}

VARIABLES
  ctl,        \* supervisor -> down, up, stopping, stopped, or lost: its
              \* daemon has ended
  pc,         \* service -> where its Serve is
  stop,       \* service -> its Stop is blocked in s.stop <- true
  taken,      \* the ports that availableHostPorts has as not available
  port,       \* supervisor -> the statsPort that NewGoFuzzer gave it
  soln,       \* storage.soln, the handler made last, shared by all
  handler,    \* service -> the handler storage.Init has returned
  targetDir,  \* target -> the target whose files were unzipped there
  working,    \* working_target.zip: absent, partial, or some target's zip
  syncDir,    \* target -> is there an AFL session in its sync directory
  syncZip,    \* target -> backup.zip in its sync directory
  stored,     \* target -> backup.zip in its crash storage
  crash,      \* target -> is there a crash file in its sync directory
  watched     \* supervisor -> its watch is on a directory that exists

suture    == <<ctl, pc, stop>>
ports     == <<taken, port>>
setupVars == <<targetDir, working>>
syncVars  == <<syncDir, syncZip, crash, watched>>
storage   == <<soln, handler>>
held      == <<ports, storage>>   \* by package variables and by services
files     == <<setupVars, syncVars, stored>>
baseVars  == <<suture, held, files>>

\* What a sync directory or a backup holds.  A zip is partial when it is cut
\* off, torn when Zip.Make has failed.
Content == {None, "partial", "torn", "empty", "session"}

ServicesInit ==
  /\ ctl = [s \in Supervisor |-> "down"]
  /\ pc = [v \in Service |-> "down"]
  /\ stop = [v \in Service |-> FALSE]
  /\ taken = {}
  /\ port = [s \in Supervisor |-> NoPort]
  /\ soln = None
  /\ handler = [v \in Service |-> None]
  /\ targetDir = [t \in Target |-> None]
  /\ working = None
  /\ syncDir = [t \in Target |-> "empty"]
  /\ syncZip = [t \in Target |-> None]
  /\ stored = [t \in Target |-> None]
  /\ crash = [t \in Target |-> FALSE]
  /\ watched = [s \in Supervisor |-> FALSE]

At(v, l)   == pc[v] = l
Goto(v, l) == pc' = [pc EXCEPT ![v] = l] /\ UNCHANGED <<ctl, stop>>

\* Serve returns, or panics: suture treats both alike.
Return(v) == Goto(v, "ended")

\* A select takes the value that Stop is sending, and Serve goes on at l.
TakeStop(v, l) ==
  /\ stop[v]
  /\ stop' = [stop EXCEPT ![v] = FALSE]
  /\ pc' = [pc EXCEPT ![v] = l]
  /\ UNCHANGED ctl

-----------------------------------------------------------------------------
(* getAvailablePort: the first port that is not taken.  Nothing calls          *)
(* unregisterPort.                                                             *)

TakePort(s) ==
  \E p \in HostPort :
    /\ p \notin taken
    /\ \A q \in HostPort : q < p => q \in taken
    /\ taken' = taken \cup {p}
    /\ port' = [port EXCEPT ![s] = p]

-----------------------------------------------------------------------------
(* suture *)

\* NewCFuzzer or NewGoFuzzer, and ServeBackground: the daemon has started no other
\* supervisor for the target that it has not stopped.
ServeBackground(s) ==
  /\ ctl[s] = "down"
  /\ \A r \in Supervisor :
       TargetOf[r] = TargetOf[s] => ctl[r] \in {"down", "stopped", "lost"}
  /\ ctl' = [ctl EXCEPT ![s] = "up"]
  /\ pc' = [v \in Service |-> IF v \in {s} \X Roles THEN "init" ELSE pc[v]]
  /\ IF s \in AFL THEN UNCHANGED ports ELSE TakePort(s)
  /\ UNCHANGED <<stop, storage, files>>

\* Mutant of Restart: nothing is started again before it is to stop.
RestartLate(v) ==
  /\ ctl[v[1]] = "stopping"
  /\ At(v, "ended")
  /\ Goto(v, "init")
  /\ UNCHANGED <<held, files>>

\* A service whose Serve has returned is started again, at once or after
\* FailureBackoff.
Restart(v) ==
  /\ ctl[v[1]] = "up"
  /\ At(v, "ended")
  /\ Goto(v, "init")
  /\ UNCHANGED <<held, files>>

\* Supervisor.Stop calls Stop of every service in a goroutine of its own ...
StopServices(s) ==
  /\ ctl[s] = "up"
  /\ ctl' = [ctl EXCEPT ![s] = "stopping"]
  /\ stop' = [v \in Service |-> v \in {s} \X Roles \/ stop[v]]
  /\ UNCHANGED <<pc, held, files>>

\* Mutant of StopReturns: the port is given back.
StopGivesPortBack(s) ==
  /\ ctl[s] = "stopping"
  /\ ctl' = [ctl EXCEPT ![s] = "stopped"]
  /\ taken' = taken \ {port[s]}
  /\ UNCHANGED <<pc, stop, port, storage, files>>

\* ... and returns when all of them have returned or Timeout is over.
StopReturns(s) ==
  /\ ctl[s] = "stopping"
  /\ ctl' = [ctl EXCEPT ![s] = "stopped"]
  /\ UNCHANGED <<pc, stop, held, files>>

\* The daemon ends and is started again: main makes its maps and
\* getAvailablePort its own.  The port of a lost container stays bound.
RestartDaemon ==
  /\ Crashes
  /\ \E s \in Supervisor : ctl[s] \notin {"down", "lost"}
  /\ ctl' = [s \in Supervisor |-> IF ctl[s] = "down" THEN "down" ELSE "lost"]
  /\ pc' = [v \in Service |-> "down"]
  /\ stop' = [v \in Service |-> FALSE]
  /\ taken' = {}
  /\ soln' = None
  /\ handler' = [v \in Service |-> None]
  /\ watched' = [s \in Supervisor |-> FALSE]
  /\ UNCHANGED <<port, setupVars, syncDir, syncZip, crash, stored>>

-----------------------------------------------------------------------------
(* storage.Init: the new handler goes through the package variable soln. *)

AssignSoln(v) ==
  /\ At(v, "init")
  /\ soln' = TargetOf[v[1]]
  /\ Goto(v, "soln")
  /\ UNCHANGED <<ports, handler, files>>

\* return soln, nil; Serve goes on at l.
ReturnSoln(v, l) ==
  /\ At(v, "soln")
  /\ handler' = [handler EXCEPT ![v] = soln]
  /\ Goto(v, l)
  /\ UNCHANGED <<ports, soln, files>>

\* Where any Serve can be.
Location == {"down", "init", "soln", "clean", "getTarget", "fill", "unzip",
             "remove", "exists", "getBackup", "fillBackup", "unzipBackup",
             "removeBackup", "environment", "kill", "create", "building",
             "deploy", "state", "watch", "wait", "found", "zip", "read",
             "copy", "send", "ended"}

ServicesTypeOK ==
  /\ pc \in [Service -> Location]
  /\ ctl \in [Supervisor -> {"down", "up", "stopping", "stopped", "lost"}]
  /\ stop \in [Service -> BOOLEAN]
  /\ taken \subseteq HostPort
  /\ port \in [Supervisor -> HostPort \cup {NoPort}]
  /\ soln \in Target \cup {None}
  /\ handler \in [Service -> Target \cup {None}]
  /\ targetDir \in [Target -> Target \cup {None}]
  /\ working \in Target \cup {None, "partial"}
  /\ syncDir \in [Target -> {"empty", "session"}]
  /\ syncZip \in [Target -> Content]
  /\ stored \in [Target -> Content]
  /\ crash \in [Target -> BOOLEAN]
  /\ watched \in [Supervisor -> BOOLEAN]
=============================================================================
