------------------------ MODULE TargetDirectoryProofs ------------------------
(***************************************************************************)
(* Theorems about the directories of TargetFuzzer: who removes them, that  *)
(* a running fuzzer keeps its own, that no backup is left in them, and     *)
(* that a target is set up with its own files.  All but the first need     *)
(* supervisors that do not overlap, which is what Supervisor.Stop is to    *)
(* bring about.                                                            *)
(***************************************************************************)
EXTENDS TargetRestartProofs

\* The fuzzer service of s will not run again.
Finished(s) == ctl[s] # "up" /\ pc[Fuzzer(s)] \in {"down", "ended"}

\* No service of s works on directories or goes through storage.Init again.
Gone(s) ==
  /\ Finished(s)
  /\ pc[Backup(s)] \in {"down", "ended"}
  /\ pc[Crash(s)] \notin {"init", "soln"}

\* The supervisors of a target do not overlap: Supervisor.Stop has not given up on
\* the fuzzer service of one before the next is started.
TargetApart ==
  \A s, r \in Supervisor :
    TargetOf[s] = TargetOf[r] => s = r \/ Finished(s) \/ Finished(r)

\* No two supervisors overlap, as under round robin when no stop times out.
Apart == \A s, r \in Supervisor : s = r \/ Gone(s) \/ Gone(r)

-----------------------------------------------------------------------------
(* Steps of anything but a fuzzer's Serve. *)

Elsewhere ==
  \/ UNCHANGED vars
  \/ \E s \in Supervisor : \/ Suture(s) \/ RunBackup(s) \/ RunCrash(s)
                           \/ RunStats(s) \/ TakeBackup(s) \/ TakeStats(s)
  \/ \E t \in Target : RunContainers(t) \/ LoseFuzzer(t) \/ FuzzerFindsCrash(t)
  \/ CrashDaemon

\* Suture starts services that have returned, it does not move them.
LEMMA SutureMoves ==
  ASSUME TypeInv, NEW s \in Supervisor, Suture(s), NEW v \in Service
  PROVE  pc'[v] = pc[v] \/ (pc[v] \in {"down", "ended"} /\ pc'[v] = "init")
<1>1. ASSUME NEW r \in Role, Restart(<<s, r>>)
      PROVE  pc'[v] = pc[v] \/ (pc[v] = "ended" /\ pc'[v] = "init")
  BY <1>1 DEF Restart, Goto, At, TypeInv, SutureTypeOK
<1>2. ASSUME ServeBackground(s)
      PROVE  pc'[v] = pc[v] \/ (pc[v] = "down" /\ pc'[v] = "init")
  BY <1>2 DEF ServeBackground, TypeInv, SutureTypeOK, DownIsDown, At
<1>3. QED
  BY <1>1, <1>2 DEF Suture, StopServices, StopReturns

LEMMA ElsewhereMoves ==
  ASSUME TypeInv, Elsewhere, NEW s \in Supervisor
  PROVE  pc'[Fuzzer(s)] = pc[Fuzzer(s)] \/ pc'[Fuzzer(s)] \in {"init", "down"}
<1>v. Fuzzer(s) \in Service
  BY ServiceOfRole
<1>1. CASE UNCHANGED vars
  BY <1>1 DEF vars, baseVars, suture
<1>2. ASSUME NEW r \in Supervisor, Suture(r)
      PROVE  pc'[Fuzzer(s)] = pc[Fuzzer(s)] \/ pc'[Fuzzer(s)] = "init"
  BY <1>2, <1>v, SutureMoves
<1>3. ASSUME NEW r \in Supervisor,
             \/ RunBackup(r) \/ RunCrash(r) \/ RunStats(r)
             \/ TakeBackup(r) \/ TakeStats(r)
      PROVE  pc'[Fuzzer(s)] = pc[Fuzzer(s)]
  BY <1>3, <1>v, OtherServe, ServiceOfRole
  DEF StepsOf, RunBackup, RunCrash, RunStats, TakeBackup, TakeStats, suture
<1>4. ASSUME NEW t \in Target,
             RunContainers(t) \/ LoseFuzzer(t) \/ FuzzerFindsCrash(t)
      PROVE  pc'[Fuzzer(s)] = pc[Fuzzer(s)]
  BY <1>4 DEF RunContainers, LoseFuzzer, Containers, BuildEnds, WriteSession,
              ResumeFails, FuzzerExits, RemoveFuzzerBox,
              FuzzerFindsCrash, FindCrash, baseVars, suture
<1>5. CASE CrashDaemon
  BY <1>5, <1>v DEF CrashDaemon, RestartDaemon
<1>6. QED
  BY <1>1, <1>2, <1>3, <1>4, <1>5 DEF Elsewhere

LEMMA ElsewhereFrame ==
  ASSUME Elsewhere
  PROVE  UNCHANGED <<setupVars, mounted>>
<1> USE DEF files, setupVars, fuzzerVars, boxes, held
<1>1. CASE UNCHANGED vars
  BY <1>1 DEF vars, baseVars
<1>2. ASSUME NEW r \in Supervisor, Suture(r) PROVE UNCHANGED <<setupVars, mounted>>
  BY <1>2 DEF Suture, ServeBackground, StopServices, StopReturns, Restart
<1>3. ASSUME NEW r \in Supervisor, RunBackup(r) \/ TakeBackup(r)
      PROVE  UNCHANGED <<setupVars, mounted>>
  BY <1>3 DEF RunBackup, TakeBackup, BackupServe, MakeZip, AssignSoln, ReturnSoln,
              FillZip, ReadZip, WriteBackup, StopBackup, Return
<1>4. ASSUME NEW r \in Supervisor, RunCrash(r) \/ RunStats(r) \/ TakeStats(r)
      PROVE  UNCHANGED <<setupVars, mounted>>
  BY <1>4 DEF RunCrash, CrashServe, AssignSoln, ReturnSoln, FindDirectories,
              WatchCrashes, SaveCrash, StopCrash, RunStats, TakeStats, StatsServe, StatsTick, StartStats,
              ReceiveEvent, SendStat, StopStats, ReadStats, Notify
<1>5. ASSUME NEW t \in Target,
             RunContainers(t) \/ LoseFuzzer(t) \/ FuzzerFindsCrash(t)
      PROVE  UNCHANGED <<setupVars, mounted>>
  BY <1>5 DEF RunContainers, LoseFuzzer, Containers, BuildEnds, WriteSession,
              ResumeFails, FuzzerExits, RemoveFuzzerBox,
              FuzzerFindsCrash, FindCrash, baseVars
<1>6. CASE CrashDaemon
  BY <1>6 DEF CrashDaemon, RestartDaemon, LoseSetup
<1>7. QED
  BY <1>1, <1>2, <1>3, <1>4, <1>5, <1>6 DEF Elsewhere

LEMMA NextParts ==
  [Next]_vars => Elsewhere \/ \E s \in Supervisor : RunFuzzer(s) \/ LoseSight(s)
  BY DEF Next, Elsewhere

-----------------------------------------------------------------------------
(* Directories are removed by a Serve in its initialFuzzerSetup only. *)

\* Where Serve removes the directories of its target, or one of them.
Removing == {"clean", "exists"}

\* A step of a Serve that removes no directory may still put files into that of its
\* target, and it may start a fuzzer on its sync directory.
LEMMA FuzzerFrame ==
  ASSUME TypeInv, NEW s \in Supervisor, FuzzerServe(s) \/ InspectFails(s),
         NEW t \in Target
  PROVE  \/ /\ targetDir[t] # None => targetDir'[t] # None
            /\ mounted[t] => mounted'[t]
         \/ t = TargetOf[s] /\ pc[Fuzzer(s)] \in Removing
<1> USE DEF files, setupVars, fuzzerVars, boxes, held
<1>t. /\ targetDir \in [Target -> Target \cup {None}]
      /\ mounted \in [Target -> BOOLEAN]
  BY DEF TypeInv, FilesTypeOK, OwnTypeOK
<1>1. CASE SetupClean(s)
  BY <1>1, <1>t DEF SetupClean, Step, At, Removing
<1>2. CASE CheckBackup(s)
  BY <1>2, <1>t DEF CheckBackup, Step, At, Removing
<1>3. CASE OpenTarget(s)
  BY <1>3, <1>t, NoneAssumption DEF OpenTarget
<1>4. CASE Deploy(s)
  BY <1>4, <1>t DEF Deploy
<1>5. ASSUME ~SetupClean(s), ~CheckBackup(s), ~OpenTarget(s), ~Deploy(s)
      PROVE  UNCHANGED <<targetDir, mounted>>
  BY <1>5 DEF FuzzerServe, AssignSoln, ReturnSoln, GetTarget, RemoveWorking,
     GetBackup, FillBackup, OpenBackup, RemoveBackup, ReadEnvironment, KillOldBoxes,
     CreateBuildBox, StopBuild, BuildFails, CommitBuild, InspectFuzzer, FuzzerGone,
     KillFuzzer, InspectFails
<1>6. QED
  BY <1>1, <1>2, <1>3, <1>4, <1>5

\* A fuzzer loses its directories only to another supervisor of its target: its own
\* Serve does not come to initialFuzzerSetup before the container is gone, or docker
\* has failed it about the container.
THEOREM OthersRemove == Spec => OnlyOthersRemove
<1> DEFINE Loses(t) ==
      LET s == fuzzerBox[t]
      IN /\ s # None /\ ~Lost(s) /\ targetDir[t] # None /\ mounted[t]
         /\ <<t, "fuzzer">> \notin refused
         /\ ~(targetDir'[t] # None /\ mounted'[t])
           Taker(t) ==
      \E r \in Supervisor \ {fuzzerBox[t]} :
        TargetOf[r] = t /\ pc[Fuzzer(r)] \in Removing
<1>1. ASSUME TypeInv, ContainersAttended, [Next]_vars, NEW t \in Target, Loses(t)
      PROVE  Taker(t)
  <2>1. ASSUME NEW r \in Supervisor, RunFuzzer(r) \/ LoseSight(r) PROVE Taker(t)
    <3>1. TargetOf[r] = t /\ pc[Fuzzer(r)] \in Removing
      BY <1>1, <2>1, FuzzerFrame DEF RunFuzzer, LoseSight
    <3>2. fuzzerBox[t] # r
      BY <1>1, <3>1 DEF ContainersAttended, Removing
    <3>3. QED
      BY <3>1, <3>2
  <2>2. CASE Elsewhere
    BY <1>1, <2>2, ElsewhereFrame DEF setupVars
  <2>3. QED
    BY <1>1, <2>1, <2>2, NextParts
<1>2. TypeInv /\ ContainersAttended /\ [Next]_vars
        => [\A t \in Target : Loses(t) => Taker(t)]_vars
  BY <1>1
<1>3. [\A t \in Target : Loses(t) => Taker(t)]_vars
        <=> [\A t \in Target :
               LET s == fuzzerBox[t]
               IN /\ s # None /\ ~Lost(s) /\ targetDir[t] # None /\ mounted[t]
                  /\ <<t, "fuzzer">> \notin refused
                  /\ ~(targetDir'[t] # None /\ mounted'[t])
                  => \E r \in Supervisor \ {s} :
                       /\ TargetOf[r] = t
                       /\ pc[Fuzzer(r)] \in {"clean", "exists"}]_vars
  BY DEF Removing
<1> HIDE DEF Loses, Taker
<1>4. QED
  BY <1>2, <1>3, TypesAlways, Attended, PTL DEF Spec, OnlyOthersRemove

-----------------------------------------------------------------------------
(* A running fuzzer keeps its directories. *)

\* Where Serve is from the unpacking of the target on.
Unpacked == {"remove", "exists", "getBackup", "fillBackup", "unzipBackup",
             "removeBackup", "environment", "kill", "create", "building",
             "deploy", "state", "watch"}

\* What the set-up has made is there, and so is the sync directory of the container.
HasDirectories(s) ==
  /\ pc[Fuzzer(s)] \in Unpacked => targetDir[TargetOf[s]] # None
  /\ pc[Fuzzer(s)] \in {"state", "watch"} => mounted[TargetOf[s]]

\* Serve comes to each place after the step that the place needs.
LEMMA FuzzerSetsUp ==
  ASSUME TypeInv, NEW s \in Supervisor, HasDirectories(s),
         FuzzerServe(s) \/ InspectFails(s)
  PROVE  HasDirectories(s)'
<1> DEFINE t == TargetOf[s]
<1>t. /\ t \in Target
      /\ targetDir \in [Target -> Target \cup {None}]
      /\ mounted \in [Target -> BOOLEAN]
  BY SupervisorAssumption DEF TypeInv, FilesTypeOK, OwnTypeOK
<1>o. ASSUME NEW l, Goto(Fuzzer(s), l) \/ TakeStop(Fuzzer(s), l)
      PROVE  pc'[Fuzzer(s)] = l
  BY <1>o, ServiceOfRole DEF TypeInv, SutureTypeOK, Goto, TakeStop
<1> USE <1>t, <1>o DEF HasDirectories, Unpacked, files, setupVars, fuzzerVars, boxes,
        held, At, Step, StepIf
<1>1. CASE AssignSoln(Fuzzer(s)) \/ ReturnSoln(Fuzzer(s), "clean")
  BY <1>1 DEF AssignSoln, ReturnSoln
<1>2. CASE SetupClean(s) \/ GetTarget(s)
  BY <1>2 DEF SetupClean, GetTarget
<1>3. CASE OpenTarget(s)
  BY <1>3, NoneAssumption DEF OpenTarget
<1>4. CASE RemoveWorking(s) \/ CheckBackup(s)
  BY <1>4 DEF RemoveWorking, CheckBackup
<1>5. CASE \/ GetBackup(s) \/ FillBackup(s) \/ OpenBackup(s) \/ RemoveBackup(s)
           \/ ReadEnvironment(s)
  BY <1>5 DEF GetBackup, FillBackup, OpenBackup, RemoveBackup, ReadEnvironment
<1>6. CASE KillOldBoxes(s) \/ CreateBuildBox(s) \/ StopBuild(s) \/ BuildFails(s)
  BY <1>6 DEF KillOldBoxes, CreateBuildBox, StopBuild, BuildFails
<1>7. CASE CommitBuild(s) \/ Deploy(s)
  BY <1>7 DEF CommitBuild, Deploy
<1>8. CASE InspectFuzzer(s) \/ FuzzerGone(s) \/ KillFuzzer(s) \/ InspectFails(s)
  BY <1>8 DEF InspectFuzzer, FuzzerGone, KillFuzzer, InspectFails
<1>9. QED
  BY <1>1, <1>2, <1>3, <1>4, <1>5, <1>6, <1>7, <1>8 DEF FuzzerServe

LEMMA DirectoriesKept ==
  ASSUME TypeInv, TargetApart, [Next]_vars, NEW s \in Supervisor, HasDirectories(s)
  PROVE  HasDirectories(s)'
<1> DEFINE t == TargetOf[s]
<1>t. t \in Target
  BY SupervisorAssumption
<1>1. CASE RunFuzzer(s) \/ LoseSight(s)
  BY <1>1, FuzzerSetsUp DEF RunFuzzer, LoseSight
<1>2. ASSUME NEW r \in Supervisor, r # s, RunFuzzer(r) \/ LoseSight(r)
      PROVE  HasDirectories(s)'
  <2>1. pc'[Fuzzer(s)] = pc[Fuzzer(s)] /\ pc[Fuzzer(r)] \notin {"down", "ended"}
    BY <1>2, FuzzerSteps, ServiceOfRole DEF RunFuzzer, LoseSight, StepsOf
  <2>2. CASE TargetOf[r] = t
    BY <1>2, <2>1, <2>2 DEF TargetApart, Finished, HasDirectories, Unpacked
  <2>3. CASE TargetOf[r] # t
    <3>1. /\ targetDir[t] # None => targetDir'[t] # None
          /\ mounted[t] => mounted'[t]
      BY <1>t, <1>2, <2>3, FuzzerFrame DEF RunFuzzer, LoseSight
    <3>2. QED
      BY <2>1, <3>1 DEF HasDirectories
  <2>4. QED
    BY <2>2, <2>3
<1>3. CASE Elsewhere
  BY <1>3, ElsewhereMoves, ElsewhereFrame
  DEF HasDirectories, setupVars, Unpacked
<1>4. QED
  BY <1>1, <1>2, <1>3, NextParts

\* A fuzzer of this daemon runs on the target's files and on the present sync
\* directory, as long as no supervisor of its target overlaps with the next and docker
\* has not failed to show the fuzzer or to end it; other targets may be set up, and
\* the daemon may end, at any time.
THEOREM KeepsDirectories == Spec /\ []TargetApart => []FuzzerKeepsDirectories
<1> DEFINE Inv == TypeInv /\ \A s \in Supervisor : HasDirectories(s)
<1>1. Init => Inv
  <2>1. Init => \A s \in Supervisor : HasDirectories(s)
    BY ServiceOfRole DEF Init, ServicesInit, HasDirectories, Unpacked
  <2>2. QED
    BY <2>1, InitTypes
<1>2. Inv /\ TargetApart /\ [Next]_vars => Inv'
  BY NextTypes, DirectoriesKept
<1>3. Inv /\ AttendedInv => FuzzerKeepsDirectories
  <2> SUFFICES ASSUME Inv, AttendedInv, NEW t \in Target, fuzzerBox[t] # None,
                      ~Lost(fuzzerBox[t]), <<t, "fuzzer">> \notin refused
               PROVE  targetDir[t] # None /\ mounted[t]
    BY DEF FuzzerKeepsDirectories
  <2>1. /\ fuzzerBox[t] \in Supervisor /\ TargetOf[fuzzerBox[t]] = t
        /\ pc[Fuzzer(fuzzerBox[t])] \in {"state", "watch"}
    BY DEF TypeInv, OwnTypeOK, AttendedInv, BoxesOfTarget, ContainersAttended
  <2>2. QED
    BY <2>1 DEF HasDirectories, Unpacked
<1>4. QED
  BY <1>1, <1>2, <1>3, AttendedAlways, PTL DEF Spec

-----------------------------------------------------------------------------
(* Supervisors that do not overlap get handlers of their own. *)

\* The statistics services do without a handler.
OwnHandlers ==
  \A v \in Service :
    v[2] # "stats" =>
      /\ At(v, "soln") => soln = TargetOf[v[1]]
      /\ pc[v] \notin Early => handler[v] = TargetOf[v[1]]

\* Handlers are as they were, and services past storage.Init work on or return.
HandlersStay ==
  /\ UNCHANGED storage
  /\ \A v \in Service :
       v[2] # "stats" =>
         \/ pc'[v] = pc[v]
         \/ pc[v] \in {"down", "ended"} /\ pc'[v] = "init"
         \/ pc'[v] = "ended"
         \/ pc[v] \notin Early /\ pc'[v] \notin {"init", "soln"}

LEMMA FuzzerHandles ==
  ASSUME TypeInv, NEW s \in Supervisor, FuzzerServe(s) \/ InspectFails(s)
  PROVE  \/ AssignSoln(Fuzzer(s))
         \/ ReturnSoln(Fuzzer(s), "clean")
         \/ HandlersStay
<1>v. /\ Fuzzer(s) \in Service
      /\ pc \in [Service -> Location]
  BY ServiceOfRole DEF TypeInv, SutureTypeOK
<1>o. ASSUME NEW l, Goto(Fuzzer(s), l) \/ TakeStop(Fuzzer(s), l),
             l \notin {"init", "soln"}, pc[Fuzzer(s)] \notin Early, UNCHANGED held
      PROVE  HandlersStay
  BY <1>o, <1>v DEF Goto, TakeStop, HandlersStay, held, storage
<1> USE <1>v, <1>o DEF At, Step, StepIf, Early
<1>2. CASE SetupClean(s) \/ GetTarget(s)
  BY <1>2 DEF SetupClean, GetTarget
<1>3. CASE OpenTarget(s)
  BY <1>3 DEF OpenTarget
<1>4. CASE RemoveWorking(s) \/ CheckBackup(s)
  BY <1>4 DEF RemoveWorking, CheckBackup
<1>5. CASE GetBackup(s) \/ RemoveBackup(s) \/ ReadEnvironment(s)
  BY <1>5 DEF GetBackup, RemoveBackup, ReadEnvironment
<1>5f. CASE FillBackup(s)
  <2>1. PICK l \in {"unzipBackup", "ended"} : Goto(Fuzzer(s), l)
    BY <1>5f DEF FillBackup
  <2>2. QED
    BY <1>5f, <2>1 DEF FillBackup
<1>5o. CASE OpenBackup(s)
  <2>1. PICK l \in {"removeBackup", "ended"} : Goto(Fuzzer(s), l)
    BY <1>5o DEF OpenBackup
  <2>2. QED
    BY <1>5o, <2>1 DEF OpenBackup
<1>6. CASE KillOldBoxes(s) \/ CreateBuildBox(s) \/ StopBuild(s) \/ BuildFails(s)
  BY <1>6 DEF KillOldBoxes, CreateBuildBox, StopBuild, BuildFails
<1>7. CASE CommitBuild(s) \/ Deploy(s)
  BY <1>7 DEF CommitBuild, Deploy
<1>8. CASE InspectFuzzer(s) \/ FuzzerGone(s) \/ KillFuzzer(s) \/ InspectFails(s)
  BY <1>8 DEF InspectFuzzer, FuzzerGone, KillFuzzer, InspectFails
<1>9. QED
  BY <1>2, <1>3, <1>4, <1>5, <1>5f, <1>5o, <1>6, <1>7, <1>8 DEF FuzzerServe

LEMMA BackupHandles ==
  ASSUME TypeInv, NEW s \in Supervisor, BackupServe(s) \/ MakeZip(s)
  PROVE  \/ AssignSoln(Backup(s))
         \/ ReturnSoln(Backup(s), "wait")
         \/ HandlersStay
<1>v. /\ Backup(s) \in Service
      /\ pc \in [Service -> Location]
  BY ServiceOfRole DEF TypeInv, SutureTypeOK
<1>o. ASSUME NEW l, Goto(Backup(s), l) \/ TakeStop(Backup(s), l),
             l \notin {"init", "soln"}, pc[Backup(s)] \notin Early, UNCHANGED held
      PROVE  HandlersStay
  BY <1>o, <1>v DEF Goto, TakeStop, HandlersStay, held, storage
<1> USE <1>v, <1>o DEF At, Early
<1>1. CASE MakeZip(s)
  BY <1>1 DEF MakeZip
<1>1f. CASE FillZip(s)
  <2>1. PICK l \in {"read", "ended"} : Goto(Backup(s), l)
    BY <1>1f DEF FillZip
  <2>2. QED
    BY <1>1f, <2>1 DEF FillZip
<1>2. CASE ReadZip(s) \/ WriteBackup(s)
  BY <1>2 DEF ReadZip, Return, WriteBackup
<1>3. CASE StopBackup(s)
  BY <1>3 DEF StopBackup
<1>4. QED
  BY <1>1, <1>1f, <1>2, <1>3 DEF BackupServe

LEMMA CrashHandles ==
  ASSUME TypeInv, NEW s \in Supervisor, CrashServe(s)
  PROVE  \/ AssignSoln(Crash(s))
         \/ ReturnSoln(Crash(s), "wait")
         \/ HandlersStay
<1>v. /\ Crash(s) \in Service
      /\ pc \in [Service -> Location]
  BY ServiceOfRole DEF TypeInv, SutureTypeOK
<1>o. ASSUME NEW l, Goto(Crash(s), l) \/ TakeStop(Crash(s), l),
             l \notin {"init", "soln"}, pc[Crash(s)] \notin Early, UNCHANGED held
      PROVE  HandlersStay
  BY <1>o, <1>v DEF Goto, TakeStop, HandlersStay, held, storage
<1> USE <1>v, <1>o DEF At, Early
<1>1. CASE FindDirectories(s) \/ WatchCrashes(s)
  BY <1>1 DEF FindDirectories, WatchCrashes
<1>2. CASE SaveCrash(s)
  BY <1>2 DEF SaveCrash, HandlersStay, suture, held, storage
<1>3. CASE StopCrash(s)
  BY <1>3 DEF StopCrash
<1>4. QED
  BY <1>1, <1>2, <1>3 DEF CrashServe

LEMMA NextHandles ==
  ASSUME TypeInv, [Next]_vars
  PROVE  \/ \E v \in Service : /\ v[2] # "stats"
                               /\ \/ AssignSoln(v)
                                  \/ \E l \in {"clean", "wait"} : ReturnSoln(v, l)
         \/ HandlersStay
         \/ CrashDaemon
<1> USE DEF held, storage
<1>1. CASE UNCHANGED vars
  BY <1>1 DEF vars, baseVars, suture, HandlersStay
<1>2. ASSUME NEW s \in Supervisor, Suture(s) PROVE HandlersStay
  BY <1>2, SutureMoves
  DEF HandlersStay, Suture, ServeBackground, StopServices, StopReturns, Restart
<1>3. ASSUME NEW s \in Supervisor,
             \/ RunFuzzer(s) \/ LoseSight(s)
             \/ RunBackup(s) \/ RunCrash(s) \/ TakeBackup(s)
      PROVE  \/ HandlersStay
             \/ \E v \in {Fuzzer(s), Backup(s), Crash(s)} :
                  AssignSoln(v) \/ ReturnSoln(v, "clean") \/ ReturnSoln(v, "wait")
  BY <1>3, FuzzerHandles, BackupHandles, CrashHandles
  DEF RunFuzzer, LoseSight, RunBackup, RunCrash, TakeBackup
<1>4. ASSUME NEW s \in Supervisor, RunStats(s) \/ TakeStats(s) PROVE HandlersStay
  <2>1. UNCHANGED storage
    BY <1>4 DEF RunStats, TakeStats, StatsServe, StatsTick, StartStats,
                ReceiveEvent, SendStat, StopStats, ReadStats, Notify
  <2>2. StepsOf(Stats(s)) \/ UNCHANGED suture
    BY <1>4, OtherServe DEF RunStats, TakeStats
  <2>3. QED
    BY <2>1, <2>2, ServiceOfRole DEF HandlersStay, StepsOf, suture
<1>5. ASSUME NEW t \in Target,
             RunContainers(t) \/ LoseFuzzer(t) \/ FuzzerFindsCrash(t)
      PROVE  HandlersStay
  BY <1>5 DEF RunContainers, LoseFuzzer, Containers, BuildEnds, WriteSession,
              ResumeFails, FuzzerExits, RemoveFuzzerBox,
              FuzzerFindsCrash, FindCrash, baseVars, suture, HandlersStay
<1>6. QED
  BY <1>1, <1>2, <1>3, <1>4, <1>5, ServiceOfRole DEF Next

\* A service at work belongs to the one supervisor that is not gone.
LEMMA OneAtWork ==
  ASSUME Apart, NEW v \in Service, v[2] # "stats", pc[v] \in {"init", "soln"},
         NEW u \in Service, u[2] # "stats", pc[u] \in {"init", "soln"}
  PROVE  u[1] = v[1]
  BY ServiceOfRole DEF Apart, Gone, Finished

LEMMA HandlersKept ==
  ASSUME TypeInv, Apart, OwnHandlers, [Next]_vars
  PROVE  OwnHandlers'
<1>t. /\ pc \in [Service -> Location]
      /\ handler \in [Service -> Target \cup {None}]
  BY DEF TypeInv, SutureTypeOK, FilesTypeOK
<1>1. ASSUME NEW v \in Service, v[2] # "stats", AssignSoln(v)
      PROVE  OwnHandlers'
  <2>1. /\ pc[v] = "init" /\ soln' = TargetOf[v[1]] /\ handler' = handler
        /\ pc' = [pc EXCEPT ![v] = "soln"]
    BY <1>1 DEF AssignSoln, At, Goto
  <2>2. \A u \in Service : u[2] # "stats" /\ pc[u] = "soln" => u[1] = v[1]
    BY <1>1, <2>1, OneAtWork
  <2>3. QED
    BY <2>1, <2>2, <1>t DEF OwnHandlers, At, Early
<1>2. ASSUME NEW v \in Service, v[2] # "stats", NEW l \in {"clean", "wait"},
             ReturnSoln(v, l)
      PROVE  OwnHandlers'
  <2>1. /\ pc[v] = "soln" /\ soln' = soln
        /\ handler' = [handler EXCEPT ![v] = soln]
        /\ pc' = [pc EXCEPT ![v] = l]
    BY <1>2 DEF ReturnSoln, At, Goto
  <2>2. soln = TargetOf[v[1]]
    BY <1>2, <2>1 DEF OwnHandlers, At
  <2>3. QED
    BY <2>1, <2>2, <1>t DEF OwnHandlers, At, Early
<1>3. CASE HandlersStay
  BY <1>3 DEF HandlersStay, OwnHandlers, storage, At, Early
<1>4. CASE CrashDaemon
  BY <1>4 DEF CrashDaemon, RestartDaemon, OwnHandlers, At, Early
<1>5. QED
  BY <1>1, <1>2, <1>3, <1>4, NextHandles

-----------------------------------------------------------------------------
(* Supervisors that do not overlap set their targets up with their own files. *)

\* The working zip is the target's when it is opened, if it is there, and the
\* directory of a target has nothing but its own files.
OwnFiles(s) ==
  /\ At(Fuzzer(s), "unzip") => working \in {None, TargetOf[s]}
  /\ env[s] \in {None, TargetOf[s]}

ContextInv == OwnContext /\ \A s \in Supervisor : OwnFiles(s)

LEMMA ElsewhereEnv ==
  ASSUME Elsewhere, NEW s \in Supervisor
  PROVE  env'[s] \in {env[s], None}
<1> USE DEF setup, fuzzerVars
<1>1. CASE UNCHANGED vars
  BY <1>1 DEF vars
<1>2. ASSUME NEW r \in Supervisor,
             \/ Suture(r) \/ RunBackup(r) \/ RunCrash(r) \/ RunStats(r)
             \/ TakeBackup(r) \/ TakeStats(r)
      PROVE  env' = env
  BY <1>2 DEF Suture, RunBackup, RunCrash, RunStats, TakeBackup, TakeStats
<1>3. ASSUME NEW t \in Target,
             RunContainers(t) \/ LoseFuzzer(t) \/ FuzzerFindsCrash(t)
      PROVE  env' = env
  BY <1>3 DEF RunContainers, LoseFuzzer, Containers, BuildEnds, WriteSession,
              ResumeFails, FuzzerExits, RemoveFuzzerBox, FuzzerFindsCrash
<1>4. CASE CrashDaemon
  BY <1>4 DEF CrashDaemon, LoseSetup
<1>5. QED
  BY <1>1, <1>2, <1>3, <1>4 DEF Elsewhere

\* A fuzzer at work belongs to the one supervisor that is not gone.
LEMMA OtherIsGone ==
  ASSUME Apart, NEW s \in Supervisor, NEW r \in Supervisor, r # s,
         \/ pc[Fuzzer(r)] \notin {"down", "ended"}
         \/ pc[Backup(r)] \notin {"down", "ended"}
  PROVE  pc[Fuzzer(s)] \in {"down", "ended"} /\ pc[Backup(s)] \in {"down", "ended"}
  BY DEF Apart, Gone, Finished

LEMMA FuzzerContext ==
  ASSUME TypeInv, Apart, OwnHandlers, ContextInv, NEW s \in Supervisor,
         FuzzerServe(s) \/ InspectFails(s)
  PROVE  ContextInv'
<1> DEFINE t == TargetOf[s]
<1>t. /\ t \in Target /\ Fuzzer(s) \in Service /\ Fuzzer(s)[2] # "stats"
      /\ Fuzzer(s)[1] = s
      /\ pc \in [Service -> Location]
      /\ targetDir \in [Target -> Target \cup {None}]
      /\ env \in [Supervisor -> Target \cup {None}]
  BY SupervisorAssumption, ServiceOfRole DEF TypeInv, SutureTypeOK, FilesTypeOK, OwnTypeOK
<1>h. pc[Fuzzer(s)] \notin Early => Handler(s) = t
  BY <1>t DEF OwnHandlers, Handler
<1>o. \A r \in Supervisor \ {s} : pc'[Fuzzer(r)] \in {"down", "ended"}
  BY FuzzerSteps, OtherIsGone, ServiceOfRole DEF StepsOf
<1>m. ASSUME NEW l, Goto(Fuzzer(s), l) \/ TakeStop(Fuzzer(s), l)
      PROVE  pc'[Fuzzer(s)] = l
  BY <1>m, <1>t DEF Goto, TakeStop
<1>e. ASSUME env' = env, At(Fuzzer(s), "unzip")' => working' \in {None, t},
             \A u \in Target : targetDir'[u] \in {None, u}
      PROVE  ContextInv'
  BY <1>e, <1>o DEF ContextInv, OwnFiles, OwnContext, At
<1> USE <1>t, <1>m DEF ContextInv, OwnContext, files, setupVars, fuzzerVars, setup, held,
        At, Step, StepIf
<1>1. CASE (AssignSoln(Fuzzer(s)) \/ ReturnSoln(Fuzzer(s), "clean")) /\ UNCHANGED fuzzerVars
  BY <1>1, <1>e DEF AssignSoln, ReturnSoln
<1>2. CASE SetupClean(s)
  BY <1>2, <1>e DEF SetupClean
<1>3. CASE GetTarget(s)
  BY <1>3, <1>e, <1>h DEF GetTarget, Early
<1>4. CASE OpenTarget(s)
  BY <1>4, <1>e DEF OpenTarget, OwnFiles
<1>5. CASE RemoveWorking(s) \/ CheckBackup(s)
  BY <1>5, <1>e DEF RemoveWorking, CheckBackup
<1>6. CASE GetBackup(s) \/ FillBackup(s) \/ OpenBackup(s) \/ RemoveBackup(s)
  BY <1>6, <1>e DEF GetBackup, FillBackup, OpenBackup, RemoveBackup
<1>7. CASE ReadEnvironment(s)
  BY <1>7, <1>o DEF ReadEnvironment, OwnFiles
<1>8. CASE KillOldBoxes(s) \/ CreateBuildBox(s) \/ StopBuild(s) \/ BuildFails(s)
  BY <1>8, <1>e DEF KillOldBoxes, CreateBuildBox, StopBuild, BuildFails
<1>9. CASE \/ CommitBuild(s) \/ Deploy(s) \/ InspectFuzzer(s) \/ FuzzerGone(s)
           \/ InspectFails(s) \/ KillFuzzer(s)
  BY <1>9, <1>e DEF CommitBuild, Deploy, InspectFuzzer, FuzzerGone, InspectFails,
                    KillFuzzer
<1>10. QED
  BY <1>1, <1>2, <1>3, <1>4, <1>5, <1>6, <1>7, <1>8, <1>9 DEF FuzzerServe

LEMMA ContextKept ==
  ASSUME TypeInv, Apart, OwnHandlers, ContextInv, [Next]_vars
  PROVE  ContextInv'
<1>1. ASSUME NEW s \in Supervisor, RunFuzzer(s) \/ LoseSight(s) PROVE ContextInv'
  BY <1>1, FuzzerContext DEF RunFuzzer, LoseSight
<1>2. CASE Elsewhere
  <2>1. ASSUME NEW s \in Supervisor PROVE OwnFiles(s)'
    BY <1>2, ElsewhereMoves, ElsewhereFrame, ElsewhereEnv
    DEF OwnFiles, ContextInv, At, setupVars
  <2>2. QED
    BY <1>2, <2>1, ElsewhereFrame DEF ContextInv, OwnContext, setupVars
<1>3. QED
  BY <1>1, <1>2, NextParts

-----------------------------------------------------------------------------
(* No backup is left in the directory of a running fuzzer. *)

\* From the removal of the directories to the next, Serve puts no zip into the sync
\* directory but the one it unpacks and removes.
Cleaned == (Unpacked \cup {"getTarget", "fill", "unzip"})
             \ {"fillBackup", "unzipBackup", "removeBackup"}

\* Where BackupService.Serve has a backup at hand.
Zipping == {"zip", "read", "copy"}

\* A zip that lies there is one that the backup service is about to copy and remove,
\* but for one it has failed to make.
ZipGoes(s) ==
  /\ pc[Fuzzer(s)] \in Cleaned
  /\ syncZip[TargetOf[s]] \notin {None, "torn"}
  => pc[Backup(s)] \in Zipping

\* Steps that leave the zip and the backup service alone.
ZipFrame(s) ==
  /\ pc'[Backup(s)] = pc[Backup(s)]
  /\ syncZip'[TargetOf[s]] = syncZip[TargetOf[s]]

LEMMA FuzzerZips ==
  ASSUME TypeInv, OwnHandlers, NEW s \in Supervisor, ZipGoes(s),
         FuzzerServe(s) \/ InspectFails(s)
  PROVE  ZipGoes(s)'
<1> DEFINE t == TargetOf[s]
<1>t. /\ t \in Target /\ Fuzzer(s) \in Service /\ Fuzzer(s)[2] # "stats"
      /\ Fuzzer(s)[1] = s
      /\ pc \in [Service -> Location]
      /\ syncZip \in [Target -> Content]
      /\ syncDir \in [Target -> {"empty", "session"}]
  BY SupervisorAssumption, ServiceOfRole DEF TypeInv, SutureTypeOK, FilesTypeOK
<1>h. pc[Fuzzer(s)] \notin Early => Handler(s) = t
  BY <1>t DEF OwnHandlers, Handler
<1>b. pc'[Backup(s)] = pc[Backup(s)]
  BY FuzzerSteps, ServiceOfRole DEF StepsOf
<1>m. ASSUME NEW l, Goto(Fuzzer(s), l) \/ TakeStop(Fuzzer(s), l)
      PROVE  pc'[Fuzzer(s)] = l
  BY <1>m, <1>t DEF Goto, TakeStop
\* The zip stays as it is.
<1>k. ASSUME UNCHANGED syncZip, NEW l, pc'[Fuzzer(s)] = l,
             l \in Cleaned => pc[Fuzzer(s)] \in Cleaned
      PROVE  ZipGoes(s)'
  BY <1>k, <1>b DEF ZipGoes
<1> USE <1>t, <1>m DEF files, setupVars, syncVars, fuzzerVars, setup, held, At, Step,
        StepIf, Cleaned, Unpacked
<1>1. CASE AssignSoln(Fuzzer(s)) \/ ReturnSoln(Fuzzer(s), "clean")
  BY <1>1, <1>k DEF AssignSoln, ReturnSoln
<1>2. CASE SetupClean(s)
  BY <1>2 DEF SetupClean, ZipGoes
<1>3. CASE GetTarget(s) \/ OpenTarget(s) \/ RemoveWorking(s)
  BY <1>3, <1>k DEF GetTarget, OpenTarget, RemoveWorking
<1>4. CASE CheckBackup(s)
  BY <1>4, <1>k DEF CheckBackup
<1>5. CASE GetBackup(s) \/ FillBackup(s)
  BY <1>5 DEF GetBackup, FillBackup, ZipGoes
<1>6. CASE OpenBackup(s)
  BY <1>6, <1>k DEF OpenBackup
<1>6r. CASE RemoveBackup(s)
  <2>1. Handler(s) = t
    BY <1>6r, <1>h DEF RemoveBackup, Early
  <2>2. syncZip'[t] = None
    BY <1>6r, <2>1 DEF RemoveBackup
  <2>3. QED
    BY <2>2 DEF ZipGoes
<1>7. CASE ReadEnvironment(s) \/ KillOldBoxes(s) \/ CreateBuildBox(s)
  BY <1>7, <1>k DEF ReadEnvironment, KillOldBoxes, CreateBuildBox
<1>8. CASE StopBuild(s) \/ BuildFails(s) \/ CommitBuild(s)
  BY <1>8, <1>k DEF StopBuild, BuildFails, CommitBuild
<1>9. CASE \/ Deploy(s) \/ InspectFuzzer(s) \/ FuzzerGone(s) \/ InspectFails(s)
           \/ KillFuzzer(s)
  BY <1>9, <1>k DEF Deploy, InspectFuzzer, FuzzerGone, InspectFails, KillFuzzer
<1>10. QED
  BY <1>1, <1>2, <1>3, <1>4, <1>5, <1>6, <1>6r, <1>7, <1>8, <1>9 DEF FuzzerServe

\* A zip that could be made is removed when it is copied, whether or not the copy is
\* complete.
LEMMA BackupZips ==
  ASSUME TypeInv, OwnHandlers, NEW s \in Supervisor, ZipGoes(s),
         BackupServe(s) \/ MakeZip(s)
  PROVE  ZipGoes(s)'
<1> DEFINE t == TargetOf[s]
           h == handler[Backup(s)]
<1>t. /\ t \in Target /\ Backup(s) \in Service /\ Backup(s)[2] # "stats"
      /\ Backup(s)[1] = s
      /\ pc \in [Service -> Location]
      /\ syncZip \in [Target -> Content]
      /\ syncDir \in [Target -> {"empty", "session"}]
      /\ data \in [Supervisor -> Content]
  BY SupervisorAssumption, ServiceOfRole
  DEF TypeInv, SutureTypeOK, FilesTypeOK, OwnTypeOK
<1>h. pc[Backup(s)] \notin Early => h = t
  BY <1>t DEF OwnHandlers
<1>f. pc'[Fuzzer(s)] = pc[Fuzzer(s)]
  BY OtherServe, ServiceOfRole DEF StepsOf
<1>m. ASSUME NEW l, Goto(Backup(s), l) \/ TakeStop(Backup(s), l)
      PROVE  pc'[Backup(s)] = l
  BY <1>m, <1>t DEF Goto, TakeStop
<1> USE <1>t, <1>f, <1>m DEF files, setupVars, syncVars, held, At, Early, ZipGoes,
        Zipping
<1>1. CASE (AssignSoln(Backup(s)) \/ ReturnSoln(Backup(s), "wait"))
  BY <1>1 DEF AssignSoln, ReturnSoln
<1>2. CASE MakeZip(s)
  BY <1>2 DEF MakeZip
<1>3. CASE FillZip(s)
  BY <1>3, <1>h DEF FillZip
<1>4. CASE ReadZip(s)
  BY <1>4, <1>h DEF ReadZip, Return
<1>5. CASE WriteBackup(s)
  BY <1>5, <1>h DEF WriteBackup, Return
<1>6. CASE StopBackup(s)
  BY <1>6 DEF StopBackup
<1>7. QED
  BY <1>1, <1>2, <1>3, <1>4, <1>5, <1>6 DEF BackupServe

LEMMA ZipFrames ==
  ASSUME TypeInv, NEW s \in Supervisor,
         \/ \E r \in Supervisor : RunCrash(r) \/ RunStats(r) \/ TakeStats(r)
         \/ \E t \in Target : RunContainers(t) \/ LoseFuzzer(t) \/ FuzzerFindsCrash(t)
         \/ UNCHANGED vars
  PROVE  ZipFrame(s) /\ pc'[Fuzzer(s)] = pc[Fuzzer(s)]
<1>t. /\ TargetOf[s] \in Target
      /\ syncDir \in [Target -> {"empty", "session"}]
  BY SupervisorAssumption DEF TypeInv, FilesTypeOK
<1> USE DEF files, setupVars, syncVars, fuzzerVars, boxes, held, ZipFrame
<1>1. ASSUME NEW r \in Supervisor, RunCrash(r) \/ RunStats(r) \/ TakeStats(r)
      PROVE  ZipFrame(s) /\ pc'[Fuzzer(s)] = pc[Fuzzer(s)]
  <2>1. pc'[Fuzzer(s)] = pc[Fuzzer(s)] /\ pc'[Backup(s)] = pc[Backup(s)]
    BY <1>1, OtherServe, ServiceOfRole
    DEF StepsOf, RunCrash, RunStats, TakeStats, suture
  <2>2. UNCHANGED syncZip
    BY <1>1 DEF RunCrash, CrashServe, AssignSoln, ReturnSoln, FindDirectories,
                WatchCrashes, SaveCrash, StopCrash, RunStats, TakeStats, StatsServe, StatsTick, StartStats,
                ReceiveEvent, SendStat, StopStats, ReadStats, Notify
  <2>3. QED
    BY <2>1, <2>2
<1>2. ASSUME NEW t \in Target,
             RunContainers(t) \/ LoseFuzzer(t) \/ FuzzerFindsCrash(t)
      PROVE  ZipFrame(s) /\ pc'[Fuzzer(s)] = pc[Fuzzer(s)]
  BY <1>2, <1>t DEF RunContainers, LoseFuzzer, Containers, BuildEnds, WriteSession,
              ResumeFails, FuzzerExits, RemoveFuzzerBox, serviceVars,
              FuzzerFindsCrash, FindCrash, baseVars, suture
<1>3. CASE UNCHANGED vars
  BY <1>3 DEF vars, baseVars, suture, serviceVars
<1>4. QED
  BY <1>1, <1>2, <1>3

LEMMA ZipKept ==
  ASSUME TypeInv, Apart, OwnHandlers, [Next]_vars, NEW s \in Supervisor, ZipGoes(s)
  PROVE  ZipGoes(s)'
<1>1. ASSUME pc[Fuzzer(s)] \in {"down", "ended"}, pc'[Fuzzer(s)] = pc[Fuzzer(s)]
      PROVE  ZipGoes(s)'
  BY <1>1 DEF ZipGoes, Cleaned, Unpacked
<1>2. ASSUME NEW r \in Supervisor, RunFuzzer(r) \/ LoseSight(r) PROVE ZipGoes(s)'
  <2>1. CASE r = s
    BY <1>2, <2>1, FuzzerZips DEF RunFuzzer, LoseSight
  <2>2. CASE r # s
    BY <1>1, <1>2, <2>2, FuzzerSteps, OtherIsGone, ServiceOfRole
    DEF RunFuzzer, LoseSight, StepsOf
  <2>3. QED
    BY <2>1, <2>2
<1>3. ASSUME NEW r \in Supervisor, RunBackup(r) \/ TakeBackup(r) PROVE ZipGoes(s)'
  <2>1. CASE r = s
    BY <1>3, <2>1, BackupZips DEF RunBackup, TakeBackup
  <2>2. CASE r # s
    BY <1>1, <1>3, <2>2, OtherServe, OtherIsGone, ServiceOfRole
    DEF RunBackup, TakeBackup, StepsOf
  <2>3. QED
    BY <2>1, <2>2
<1>4. ASSUME NEW r \in Supervisor, Suture(r) PROVE ZipGoes(s)'
  <2>1. UNCHANGED syncZip
    BY <1>4 DEF Suture, ServeBackground, StopServices, StopReturns, Restart, files,
                syncVars
  <2>2. /\ pc'[Fuzzer(s)] \in {pc[Fuzzer(s)], "init"}
        /\ \/ pc'[Backup(s)] = pc[Backup(s)]
           \/ pc[Backup(s)] \in {"down", "ended"}
    BY <1>4, SutureMoves, ServiceOfRole
  <2>3. QED
    BY <2>1, <2>2 DEF ZipGoes, Cleaned, Unpacked, Zipping
<1>5. CASE CrashDaemon
  BY <1>5, ServiceOfRole DEF CrashDaemon, RestartDaemon, ZipGoes, Cleaned, Unpacked
<1>6. CASE \/ \E r \in Supervisor : RunCrash(r) \/ RunStats(r) \/ TakeStats(r)
           \/ \E t \in Target : RunContainers(t) \/ LoseFuzzer(t) \/ FuzzerFindsCrash(t)
           \/ UNCHANGED vars
  <2>1. ZipFrame(s) /\ pc'[Fuzzer(s)] = pc[Fuzzer(s)]
    BY <1>6, ZipFrames
  <2>2. QED
    BY <2>1 DEF ZipFrame, ZipGoes
<1>7. QED
  BY <1>2, <1>3, <1>4, <1>5, <1>6 DEF Next

-----------------------------------------------------------------------------
(* What supervisors that do not overlap can count on. *)

ApartInv ==
  /\ TypeInv
  /\ OwnHandlers
  /\ ContextInv
  /\ \A s \in Supervisor : ZipGoes(s)

LEMMA ApartAlways == Spec /\ []Apart => []ApartInv
<1>1. Init => ApartInv
  <2>1. Init => OwnHandlers
    BY DEF Init, ServicesInit, OwnHandlers, At, Early
  <2>2. Init => ContextInv
    BY ServiceOfRole DEF Init, ServicesInit, FuzzerInit, ContextInv, OwnContext, OwnFiles, At
  <2>3. Init => \A s \in Supervisor : ZipGoes(s)
    BY SupervisorAssumption, ServiceOfRole
    DEF Init, ServicesInit, ZipGoes, Cleaned, Unpacked
  <2>4. QED
    BY <2>1, <2>2, <2>3, InitTypes DEF ApartInv
<1>2. ApartInv /\ Apart /\ [Next]_vars => ApartInv'
  BY NextTypes, HandlersKept, ContextKept, ZipKept DEF ApartInv
<1>3. QED
  BY <1>1, <1>2, PTL DEF Spec

\* A zip in the sync directory of a running fuzzer is one that the backup service is
\* going to remove, or that it has failed to make: no whole backup gets into the next.
THEOREM NoZipLeft == Spec /\ []Apart => []NoBackupInside
<1>1. ApartInv => NoBackupInside
  BY DEF ApartInv, ZipGoes, NoBackupInside, Cleaned, Unpacked, Zipping
<1>2. QED
  BY <1>1, ApartAlways, PTL

\* A target is set up with its own files, which supervisors that overlap do not
\* guarantee: they share the working zip and the storage handler.
THEOREM ContextsOwn == Spec /\ []Apart => []OwnContext
<1>1. ApartInv => OwnContext
  BY DEF ApartInv, ContextInv
<1>2. QED
  BY <1>1, ApartAlways, PTL

-----------------------------------------------------------------------------
(* Supervisors do not overlap as long as every stop ends in time. *)

\* Supervisor.Stop returns because the services have ended, not because suture's
\* Timeout is over.  The crash service may still be waiting for the crash
\* directories: it does not look at its stop channel there.
StopEnds(s) == ctl[s] = "stopping" /\ ctl'[s] = "stopped" => Gone(s)

\* The same of the fuzzer service alone.
FuzzerStopEnds(s) == ctl[s] = "stopping" /\ ctl'[s] = "stopped" => Finished(s)

\* The loop of the robin strategy starts a supervisor when the one before has been
\* stopped (OneSupervisor of RoundRobin).
StartsAlone(s) ==
  ctl[s] = "down" /\ ctl'[s] = "up"
    => \A r \in Supervisor \ {s} : ctl[r] \notin {"up", "stopping"}

InTime        == \A s \in Supervisor : StopEnds(s)
FuzzersInTime == \A s \in Supervisor : FuzzerStopEnds(s)
OneByOne      == \A s \in Supervisor : StartsAlone(s)

\* How the state of a supervisor changes.
LEMMA ControlSteps ==
  ASSUME TypeInv, [Next]_vars, NEW s \in Supervisor
  PROVE  \/ ctl'[s] = ctl[s]
         \/ /\ ctl[s] = "down" /\ ctl'[s] = "up"
            /\ \A r \in Supervisor \ {s} :
                 /\ TargetOf[r] = TargetOf[s] => ctl[r] \in {"down", "stopped", "lost"}
                 /\ ctl'[r] = ctl[r]
         \/ ctl[s] = "up" /\ ctl'[s] = "stopping"
         \/ ctl[s] = "stopping" /\ ctl'[s] = "stopped"
         \/ ctl'[s] = "lost" /\ \A r \in Supervisor : ctl'[r] \in {"down", "lost"}
<1>t. ctl \in [Supervisor -> {"down", "up", "stopping", "stopped", "lost"}]
  BY DEF TypeInv, SutureTypeOK
<1>1. CASE UNCHANGED suture
  BY <1>1 DEF suture
<1>2. ASSUME NEW v \in Service, StepsOf(v) PROVE ctl' = ctl
  BY <1>2 DEF StepsOf
<1>3. ASSUME NEW r \in Supervisor, ServeBackground(r)
      PROVE  /\ ctl[r] = "down" /\ ctl' = [ctl EXCEPT ![r] = "up"]
             /\ \A q \in Supervisor :
                  TargetOf[q] = TargetOf[r] => ctl[q] \in {"down", "stopped", "lost"}
  BY <1>3 DEF ServeBackground
<1>4. ASSUME NEW r \in Supervisor,
             StopServices(r) \/ StopReturns(r) \/ (\E a \in Role : Restart(<<r, a>>))
      PROVE  \/ ctl' = ctl
             \/ ctl[r] = "up" /\ ctl' = [ctl EXCEPT ![r] = "stopping"]
             \/ ctl[r] = "stopping" /\ ctl' = [ctl EXCEPT ![r] = "stopped"]
  BY <1>4 DEF StopServices, StopReturns, Restart, Goto
<1>5. CASE CrashDaemon
  BY <1>5, <1>t DEF CrashDaemon, RestartDaemon
<1>6. QED
  BY <1>1, <1>2, <1>3, <1>4, <1>5, <1>t, NextSteps DEF SutureStep, Suture

LEMMA FinishedStays ==
  ASSUME TypeInv, [Next]_vars, NEW s \in Supervisor, Finished(s),
         ctl[s] # "down", ctl'[s] # "up"
  PROVE  Finished(s)'
<1>v. Fuzzer(s) \in Service /\ Fuzzer(s)[1] = s
  BY ServiceOfRole
<1>1. CASE UNCHANGED suture
  BY <1>1 DEF suture, Finished
<1>2. ASSUME NEW v \in Service, StepsOf(v) PROVE Finished(s)'
  BY <1>2, <1>v DEF StepsOf, Finished
<1>3. ASSUME NEW r \in Supervisor, Suture(r) PROVE Finished(s)'
  <2>1. pc'[Fuzzer(s)] = pc[Fuzzer(s)]
    BY <1>3, <1>v DEF Suture, ServeBackground, StopServices, StopReturns, Restart, Goto,
       Finished, Service, TypeInv, SutureTypeOK
  <2>2. QED
    BY <2>1 DEF Finished
<1>4. CASE CrashDaemon
  BY <1>4, <1>v DEF CrashDaemon, RestartDaemon, Finished
<1>5. QED
  BY <1>1, <1>2, <1>3, <1>4, NextSteps DEF SutureStep

LEMMA GoneStays ==
  ASSUME TypeInv, [Next]_vars, NEW s \in Supervisor, Gone(s),
         ctl[s] # "down", ctl'[s] # "up"
  PROVE  Gone(s)'
<1>v. /\ Backup(s) \in Service /\ Backup(s)[1] = s
      /\ Crash(s) \in Service /\ Crash(s)[1] = s /\ Crash(s)[2] # "stats"
      /\ pc \in [Service -> Location]
  BY ServiceOfRole DEF TypeInv, SutureTypeOK
<1>f. Finished(s)'
  BY FinishedStays DEF Gone
<1> SUFFICES /\ pc'[Backup(s)] \in {"down", "ended"}
             /\ pc'[Crash(s)] \notin {"init", "soln"}
  BY <1>f DEF Gone
<1>1. CASE UNCHANGED suture
  BY <1>1 DEF suture, Gone
<1>2. ASSUME NEW v \in Service, StepsOf(v)
      PROVE  /\ pc'[Backup(s)] \in {"down", "ended"}
             /\ pc'[Crash(s)] \notin {"init", "soln"}
  <2>1. pc'[Backup(s)] \in {"down", "ended"}
    BY <1>2, <1>v DEF StepsOf, Gone
  <2>2. CASE v # Crash(s)
    BY <1>2, <1>v, <2>1, <2>2 DEF StepsOf, Gone
  <2>3. CASE v = Crash(s)
    <3>1. pc[v] \notin {"down", "ended", "init", "soln"} /\ v[2] # "stats"
      BY <1>2, <1>v, <2>3 DEF StepsOf, Gone
    <3>2. ASSUME NEW u \in Service,
                 AssignSoln(u) \/ \E l \in {"clean", "wait"} : ReturnSoln(u, l)
          PROVE  pc'[v] = pc[v]
      BY <1>v, <3>1, <3>2 DEF AssignSoln, ReturnSoln, Goto, At
    <3>3. CASE HandlersStay
      BY <1>v, <2>1, <2>3, <3>1, <3>3 DEF HandlersStay
    <3>4. CASE CrashDaemon
      BY <1>v, <2>1, <3>4 DEF CrashDaemon, RestartDaemon
    <3>5. QED
      BY <2>1, <2>3, <3>1, <3>2, <3>3, <3>4, NextHandles
  <2>4. QED
    BY <2>2, <2>3
<1>3. ASSUME NEW r \in Supervisor, Suture(r)
      PROVE  pc'[Backup(s)] = pc[Backup(s)] /\ pc'[Crash(s)] = pc[Crash(s)]
  BY <1>3, <1>v DEF Suture, ServeBackground, StopServices, StopReturns, Restart, Goto,
     Gone, Finished, Service, TypeInv, SutureTypeOK
<1>4. CASE CrashDaemon
  BY <1>4, <1>v DEF CrashDaemon, RestartDaemon
<1>5. QED
  BY <1>1, <1>2, <1>3, <1>4, NextSteps DEF SutureStep, Gone

\* Of a supervisor that is not up or being stopped nothing is at work.
StoppedGone     == \A s \in Supervisor : ctl[s] = "stopped" => Gone(s)
StoppedFinished == \A s \in Supervisor : ctl[s] = "stopped" => Finished(s)

OneUp ==
  \A s, r \in Supervisor :
    ctl[s] \in {"up", "stopping"} /\ ctl[r] \in {"up", "stopping"} => s = r

OneUpOfTarget ==
  \A s, r \in Supervisor :
    /\ TargetOf[s] = TargetOf[r]
    /\ ctl[s] \in {"up", "stopping"} /\ ctl[r] \in {"up", "stopping"}
    => s = r

\* No two supervisors of a target are ever up: that is ServeBackground's guard.
LEMMA OneUpOfTargetKept == TypeInv /\ OneUpOfTarget /\ [Next]_vars => OneUpOfTarget'
<1> SUFFICES ASSUME TypeInv, OneUpOfTarget, [Next]_vars, NEW s \in Supervisor,
                    NEW r \in Supervisor, s # r, TargetOf[s] = TargetOf[r],
                    ctl'[s] \in {"up", "stopping"}, ctl'[r] \in {"up", "stopping"}
             PROVE  FALSE
  BY DEF OneUpOfTarget
<1>1. QED
  BY ControlSteps DEF OneUpOfTarget

LEMMA OneUpKept == TypeInv /\ OneUp /\ OneByOne /\ [Next]_vars => OneUp'
<1> SUFFICES ASSUME TypeInv, OneUp, OneByOne, [Next]_vars, NEW s \in Supervisor,
                    NEW r \in Supervisor, s # r,
                    ctl'[s] \in {"up", "stopping"}, ctl'[r] \in {"up", "stopping"}
             PROVE  FALSE
  BY DEF OneUp
<1>1. QED
  BY ControlSteps DEF OneUp, OneByOne, StartsAlone

LEMMA NotUpGone ==
  ASSUME TypeInv, NEW s \in Supervisor, ctl[s] \notin {"up", "stopping"}
  PROVE  /\ StoppedGone => Gone(s)
         /\ StoppedFinished => Finished(s)
<1>1. CASE ctl[s] = "stopped"
  BY <1>1 DEF StoppedGone, StoppedFinished
<1>2. CASE ctl[s] \in {"down", "lost"}
  BY <1>2, ServiceOfRole DEF TypeInv, DownIsDown, At, Gone, Finished
<1>3. QED
  BY <1>1, <1>2 DEF TypeInv, SutureTypeOK

\* If every Stop returns when its services have ended, not when it times out, and
\* supervisors are started one at a time, then none overlaps with another.
THEOREM StopsKeepApart == Spec /\ [][InTime /\ OneByOne]_vars => []Apart
<1>1. Init => OneUp /\ StoppedGone
  BY DEF Init, ServicesInit, OneUp, StoppedGone
<1>2. ASSUME TypeInv, StoppedGone, InTime, [Next]_vars PROVE StoppedGone'
  <2> SUFFICES ASSUME NEW s \in Supervisor, ctl'[s] = "stopped" PROVE Gone(s)'
    BY DEF StoppedGone
  <2>1. ctl[s] \in {"stopping", "stopped"}
    BY <1>2, ControlSteps
  <2>2. Gone(s)
    BY <1>2, <2>1 DEF StoppedGone, InTime, StopEnds
  <2>3. QED
    BY <1>2, <2>1, <2>2, GoneStays
<1>3. ASSUME UNCHANGED vars PROVE InTime /\ OneByOne
  BY <1>3 DEF vars, baseVars, suture, InTime, OneByOne, StopEnds, StartsAlone
<1>4. TypeInv /\ OneUp /\ StoppedGone => Apart
  BY NotUpGone DEF Apart, OneUp
<1>5. TypeInv /\ OneUp /\ StoppedGone /\ [Next]_vars /\ [InTime /\ OneByOne]_vars
        => OneUp' /\ StoppedGone'
  BY <1>2, <1>3, OneUpKept
<1>6. QED
  BY <1>1, <1>4, <1>5, TypesAlways, PTL DEF Spec

\* For the supervisors of one target their fuzzer services are enough: others may
\* be up, and the daemon itself never starts two of a target at a time.
THEOREM StopsKeepTargetApart == Spec /\ [][FuzzersInTime]_vars => []TargetApart
<1>1. Init => OneUpOfTarget /\ StoppedFinished
  BY DEF Init, ServicesInit, OneUpOfTarget, StoppedFinished
<1>2. ASSUME TypeInv, StoppedFinished, FuzzersInTime, [Next]_vars PROVE StoppedFinished'
  <2> SUFFICES ASSUME NEW s \in Supervisor, ctl'[s] = "stopped" PROVE Finished(s)'
    BY DEF StoppedFinished
  <2>1. ctl[s] \in {"stopping", "stopped"}
    BY <1>2, ControlSteps
  <2>2. Finished(s)
    BY <1>2, <2>1 DEF StoppedFinished, FuzzersInTime, FuzzerStopEnds
  <2>3. QED
    BY <1>2, <2>1, <2>2, FinishedStays
<1>3. ASSUME UNCHANGED vars PROVE FuzzersInTime
  BY <1>3 DEF vars, baseVars, suture, FuzzersInTime, FuzzerStopEnds
<1>4. TypeInv /\ OneUpOfTarget /\ StoppedFinished => TargetApart
  BY NotUpGone DEF TargetApart, OneUpOfTarget
<1>5. TypeInv /\ OneUpOfTarget /\ StoppedFinished /\ [Next]_vars /\ [FuzzersInTime]_vars
        => OneUpOfTarget' /\ StoppedFinished'
  BY <1>2, <1>3, OneUpOfTargetKept
<1>6. QED
  BY <1>1, <1>4, <1>5, TypesAlways, PTL DEF Spec

=============================================================================
