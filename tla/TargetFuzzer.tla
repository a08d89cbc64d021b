---------------------------- MODULE TargetFuzzer ----------------------------
(***************************************************************************)
(* The services of the targets' supervisors together: the fuzzer, backup,  *)
(* crash and statistics services of every supervisor the daemon makes, the *)
(* containers and the files they share, and the end of the daemon, which   *)
(* leaves containers and files behind.                                     *)
(***************************************************************************)
EXTENDS StatsService, BackupService, CrashService

CONSTANT BackupTicks    \* BOOLEAN: ten minutes pass

ASSUME BackupTicksAssumption == BackupTicks \in BOOLEAN

serviceVars == <<data, crashVars, stat>>   \* but for those of the fuzzer
vars        == <<baseVars, fuzzerVars, serviceVars>>

Init == ServicesInit /\ FuzzerInit /\ BackupInit /\ CrashInit /\ StatsInit

Suture(s) ==
  /\ \/ ServeBackground(s)
     \/ StopServices(s)
     \/ StopReturns(s)
     \/ \E r \in Role : Restart(<<s, r>>)
  /\ UNCHANGED <<fuzzerVars, serviceVars>>

RunFuzzer(s)     == FuzzerServe(s) /\ UNCHANGED serviceVars
LoseSight(s)     == InspectFails(s) /\ UNCHANGED serviceVars
RunBackup(s)     == BackupServe(s) /\ UNCHANGED <<fuzzerVars, crashVars, stat>>
RunCrash(s)      == CrashServe(s) /\ UNCHANGED <<fuzzerVars, data, stat>>
RunStats(s)      == StatsServe(s) /\ UNCHANGED <<fuzzerVars, data, crashVars>>
TakeBackup(s)    == BackupTicks /\ MakeZip(s) /\ UNCHANGED <<fuzzerVars, crashVars, stat>>
TakeStats(s)     == StatsTick(s) /\ UNCHANGED <<fuzzerVars, data, crashVars>>
RunContainers(t) == Containers(t) /\ UNCHANGED serviceVars
LoseFuzzer(t)    == FuzzerExits(t) /\ UNCHANGED serviceVars

\* A fuzzer that runs on the present sync directory finds a crash.
FuzzerFindsCrash(t) ==
  /\ CanFuzz(t)
  /\ mounted[t]
  /\ FindCrash(t)
  /\ UNCHANGED <<fuzzerVars, data, stat>>

\* With the daemon goes what its services had in hand.
CrashDaemon ==
  /\ RestartDaemon
  /\ LoseSetup
  /\ data' = [s \in Supervisor |-> None]
  /\ event' = [s \in Supervisor |-> FALSE]
  /\ stat' = [s \in Supervisor |-> None]
  /\ UNCHANGED saved

Next ==
  \/ \E s \in Supervisor : \/ Suture(s)
                           \/ RunFuzzer(s)
                           \/ LoseSight(s)
                           \/ RunBackup(s)
                           \/ RunCrash(s)
                           \/ RunStats(s)
                           \/ TakeBackup(s)
                           \/ TakeStats(s)
  \/ \E t \in Target : RunContainers(t) \/ LoseFuzzer(t) \/ FuzzerFindsCrash(t)
  \/ CrashDaemon

Spec == Init /\ [][Next]_vars

\* Goroutines are scheduled, suture restarts and times out, containers run, and
\* watchStats receives (no request holds targetsLock for ever).  Nobody has to
\* register or unregister, nor does a fuzzer have to exit or to report, nor docker to
\* fail.
FairSpec ==
  /\ Spec
  /\ \A s \in Supervisor :
       /\ WF_vars(RunFuzzer(s))
       /\ WF_vars(RunBackup(s))
       /\ WF_vars(RunCrash(s))
       /\ WF_vars(RunStats(s))
       /\ WF_vars(StopReturns(s) /\ UNCHANGED <<fuzzerVars, serviceVars>>)
       /\ \A r \in Role :
            WF_vars(Restart(<<s, r>>) /\ UNCHANGED <<fuzzerVars, serviceVars>>)
  /\ \A t \in Target : WF_vars(RunContainers(t))

-----------------------------------------------------------------------------
(* Properties *)

\* The daemon that made supervisor s has ended, or it is the present one.
Lost(s) == ctl[s] = "lost"
Live(s) == ctl[s] \in {"up", "stopping", "stopped"}

\* Variables hold values of their types.
TypeOK ==
  /\ ServicesTypeOK
  /\ FuzzerTypeOK
  /\ BackupTypeOK
  /\ CrashTypeOK
  /\ StatsTypeOK

\* A container never runs without the Serve that made it being there to stop
\* it, though a stop may find Serve anywhere, Supervisor.Stop does not wait, and
\* the target's next supervisor kills and makes containers of the same names.
\* Serve gives up a container only when docker has failed to show it or to end it,
\* and a daemon that ended has left its containers alone
\* (c_fuzzer_service.go:106-143, docker.go:191-313).
ContainersAttended ==
  \A t \in Target :
    /\ fuzzerBox[t] # None => \/ Lost(fuzzerBox[t])
                              \/ pc[Fuzzer(fuzzerBox[t])] \in {"state", "watch"}
                              \/ <<t, "fuzzer">> \in refused
    /\ buildBox[t] # None /\ buildEnd[t] = "running"
         => \/ Lost(buildBox[t])
            \/ At(Fuzzer(buildBox[t]), "building")
            \/ <<t, "build">> \in refused

\* What a daemon left running is gone when its successor builds the target, or docker
\* has failed to remove it; and even then no fuzzer is started beside it, on the
\* same directories, nor is it taken for the new one (docker.go:78-81, 98-106,
\* 191-200, 249-252).
OrphansRemoved ==
  \A s \in Supervisor, t \in Target :
    t = TargetOf[s] =>
      /\ fuzzerBox[t] # None /\ Lost(fuzzerBox[t]) =>
           /\ pc[Fuzzer(s)] \notin {"state", "watch"}
           /\ pc[Fuzzer(s)] \in {"create", "building", "deploy"}
                => <<t, "old">> \in refused
      /\ buildBox[t] # None /\ Lost(buildBox[t]) =>
           /\ pc[Fuzzer(s)] \notin {"building", "deploy", "state", "watch"}
           /\ At(Fuzzer(s), "create") => <<t, "old">> \in refused

\* Two supervisors of a daemon never have the same port, even when the first was
\* stopped long ago: it may still be about to start a container that binds it
\* (go_fuzzer_service.go:32-45, 132).
PortsDistinct ==
  \A s, r \in Supervisor :
    s # r /\ Live(s) /\ Live(r) => port[s] = NoPort \/ port[s] # port[r]

\* A go-fuzz service reports the figures of its own fuzzer, or of one that an
\* earlier daemon has left on the port, never of another of its time
\* (gofuzz_stats_service.go:50-116, go_fuzzer_service.go:117).
StatsOfOwnFuzzer ==
  \A s \in Supervisor : stat[s] # None => stat[s] = s \/ Lost(stat[s])

\* The time that a go-fuzz service divides the executions by: it never exceeds the
\* time the fuzzer has run, is less than a minute short of it, exact in the first
\* hour, and zero only in the first second (gofuzz_stats_service.go:72-114).
RateOverUptime ==
  \A s \in Supervisor, d \in Uptime :
    At(Stats(s), "send") =>
      LET secs == SecsRunning(FmtDuration(d))
      IN /\ d - 60 < secs /\ secs <= d
         /\ d < 3600 \/ secs = 0 => secs = d

\* A service that has taken its stop request never runs again, whatever it was
\* doing, and suture does not bring it back; one that had returned before leaves
\* the request pending for ever (backup_service.go:45-47, afl_crash_service.go:91-92,
\* gofuzz_stats_service.go:60-61, c_fuzzer_service.go:121-128).
StoppedForGood ==
  \A s \in Supervisor, r \in Roles :
    ctl[s] \in {"stopping", "stopped"} /\ ~stop[<<s, r>>]
      => At(<<s, r>>, "ended")

\* No backup.zip stays in the sync directory of a running fuzzer, to be packed into
\* the next backup, once the backup service is done with it, but what a failed
\* Zip.Make has left: not when the backup cannot be stored, and not when the set-up
\* of the fuzzer puts its own there while a backup is made (fuzzer_methods.go:74-90,
\* backup_service.go:49-64, local.go:96-102).  This is for supervisors that do not
\* overlap.
NoBackupInside ==
  \A s \in Supervisor :
    /\ pc[Fuzzer(s)] \in {"state", "watch"}
    /\ pc[Backup(s)] \notin {"zip", "read", "copy"}
    => syncZip[TargetOf[s]] \in {None, "torn"}

\* The directories of a running fuzzer are not removed under it: initialFuzzerSetup
\* runs again only after the container is gone, or docker has failed to show it or to
\* end it (fuzzer_methods.go:35-39 against c_fuzzer_service.go:111-143).  This is for
\* supervisors of a target that do not overlap, and not for what a daemon that ended
\* has left running.
FuzzerKeepsDirectories ==
  \A t \in Target :
    fuzzerBox[t] # None =>
      \/ Lost(fuzzerBox[t])
      \/ <<t, "fuzzer">> \in refused
      \/ targetDir[t] # None /\ mounted[t]

\* Only another supervisor of the target, in its initialFuzzerSetup, takes the target's
\* files or the sync directory from a running fuzzer.  Its own Serve, which suture
\* may start again at any time, does so only after docker has failed to show the
\* container (fuzzer_methods.go:35-39, 74-76, c_fuzzer_service.go:111-134).
OnlyOthersRemove ==
  [][\A t \in Target :
       LET s == fuzzerBox[t]
       IN /\ s # None /\ ~Lost(s) /\ targetDir[t] # None /\ mounted[t]
          /\ <<t, "fuzzer">> \notin refused
          /\ ~(targetDir'[t] # None /\ mounted'[t])
          => \E r \in Supervisor \ {s} : /\ TargetOf[r] = t
                                         /\ pc[Fuzzer(r)] \in {"clean", "exists"}]_vars

\* A fuzzer service whose supervisor is to stop ends for good, and so does its
\* container, wherever in Serve the stop finds it, unless the daemon ends first or
\* docker has failed to show the container or to end it (docker.go:266-288,
\* c_fuzzer_service.go:111-143).
StopEndsFuzzing ==
  \A s \in Supervisor :
    ctl[s] = "stopping" ~> \/ Lost(s)
                           \/ [](/\ At(Fuzzer(s), "ended")
                                 /\ \/ fuzzerBox[TargetOf[s]] # s
                                    \/ <<TargetOf[s], "fuzzer">> \in refused)

\* Docker fails to show a container to Serve, to commit or to remove one.
DockerRefuses ==
  \/ refused' \ refused # {}
  \/ \E s \in Supervisor :
       \/ InspectFails(s)
       \/ KillOldBoxes(s) /\ <<TargetOf[s], "old">> \in refused'

\* Once docker does what it is told, a target with a supervisor is fuzzed in the end,
\* although calls have failed before, the services of the supervisor before it may
\* kill its containers and remove its directories, and a daemon that ended has left
\* containers of the same names.  It may be by the fuzzer of the supervisor before,
\* which docker failed to end and which is taken for the new one
\* (c_fuzzer_service.go:100-143, suture's restarts).
SupervisedIsFuzzed ==
  <>[][~DockerRefuses]_vars =>
    \A s \in Supervisor :
      ctl[s] = "up" ~> \/ ctl[s] # "up"
                       \/ fuzzerBox[TargetOf[s]] = s
                       \/ <<TargetOf[s], "fuzzer">> \in refused

\* fuzzer_methods.go:123: AFL is made to resume when it has a session to resume.
ResumeHasSession ==
  \A s \in Supervisor :
    At(Fuzzer(s), "state") /\ resume[s] => syncDir[TargetOf[s]] = "session"

\* fuzzer_methods.go:41: what is uncompressed is the fuzzer context of the target.
\* It need not be when supervisors overlap.
OwnContext ==
  \A t \in Target : targetDir[t] \in {None, t}

\* afl_crash_service.go:70: it watches the crash directories.
CrashesWatched ==
  \A s \in Supervisor :
    At(Crash(s), "watch") /\ ctl[s] = "up" /\ fuzzerBox[TargetOf[s]] = s
      => watched[s]
=============================================================================
