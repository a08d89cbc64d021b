------------------------- MODULE TargetFuzzerProofs -------------------------
(***************************************************************************)
(* Theorems about TargetFuzzer for every set of targets and supervisors,   *)
(* whichever services run, whatever fails and however often the daemon     *)
(* ends: its types, and that no container is left without the Serve that   *)
(* made it, unless docker refused.  TargetRestartProofs goes on from here. *)
(***************************************************************************)
EXTENDS TargetFuzzer, TLAPS

\* A Serve is only at work for a supervisor that this daemon has started.
DownIsDown ==
  \A v \in Service : ctl[v[1]] \in {"down", "lost"} => At(v, "down")

LEMMA ServiceOfRole ==
  /\ \A s \in Supervisor :
       /\ Fuzzer(s) \in Service /\ Fuzzer(s)[1] = s /\ Fuzzer(s)[2] # "stats"
       /\ Backup(s) \in Service /\ Backup(s)[1] = s /\ Backup(s)[2] # "stats"
       /\ Crash(s) \in Service /\ Crash(s)[1] = s /\ Crash(s)[2] # "stats"
       /\ Stats(s) \in Service /\ Stats(s)[1] = s /\ Stats(s)[2] = "stats"
  /\ \A s, r \in Supervisor : /\ Fuzzer(s) = Fuzzer(r) <=> s = r
                              /\ Backup(s) = Backup(r) <=> s = r
                              /\ Crash(s) = Crash(r) <=> s = r
                              /\ Stats(s) = Stats(r) <=> s = r
                              /\ Fuzzer(s) # Backup(r) /\ Fuzzer(s) # Crash(r)
                              /\ Fuzzer(s) # Stats(r) /\ Backup(s) # Crash(r)
                              /\ Backup(s) # Stats(r) /\ Crash(s) # Stats(r)
  /\ \A v \in Service : \E s \in Supervisor :
       v = Fuzzer(s) \/ v = Backup(s) \/ v = Crash(s) \/ v = Stats(s)
  BY DEF Service, Role, Fuzzer, Backup, Crash, Stats

\* What suture's variables hold.
SutureTypeOK ==
  /\ pc \in [Service -> Location]
  /\ ctl \in [Supervisor -> {"down", "up", "stopping", "stopped", "lost"}]
  /\ stop \in [Service -> BOOLEAN]
  /\ \A s \in Supervisor : /\ pc[Fuzzer(s)] \in FuzzerLocation
                           /\ pc[Backup(s)] \in BackupLocation
                           /\ pc[Crash(s)] \in CrashLocation
                           /\ pc[Stats(s)] \in StatsLocation

\* The rest of the types.
FilesTypeOK ==
  /\ taken \subseteq HostPort
  /\ port \in [Supervisor -> HostPort \cup {NoPort}]
  /\ soln \in Target \cup {None}
  /\ handler \in [Service -> Target \cup {None}]
  /\ targetDir \in [Target -> Target \cup {None}]
  /\ working \in Target \cup {None, "partial"}
  /\ syncDir \in [Target -> {"empty", "session"}]
  /\ syncZip \in [Target -> Content]
  /\ stored \in [Target -> Content]
  /\ crash \in [Target -> BOOLEAN]
  /\ watched \in [Supervisor -> BOOLEAN]

OwnTypeOK ==
  /\ resume \in [Supervisor -> BOOLEAN]
  /\ fetched \in [Supervisor -> Content]
  /\ env \in [Supervisor -> Target \cup {None}]
  /\ buildBox \in [Target -> Supervisor \cup {None}]
  /\ buildEnd \in [Target -> {"running", "built", "failed"}]
  /\ fuzzerBox \in [Target -> Supervisor \cup {None}]
  /\ mounted \in [Target -> BOOLEAN]
  /\ refused \subseteq Target \X {"build", "fuzzer", "old"}
  /\ data \in [Supervisor -> Content]
  /\ event \in [Supervisor -> BOOLEAN]
  /\ saved \in [Target -> BOOLEAN]
  /\ stat \in [Supervisor -> Supervisor \cup {None}]

\* A service that has gone through storage.Init has a handler.  The statistics
\* services do without.
Early == {"down", "init", "soln", "ended"}

HandlerInv ==
  \A v \in Service :
    /\ At(v, "soln") => soln \in Target
    /\ pc[v] \notin Early /\ v[2] # "stats" => handler[v] \in Target

\* The type invariant, made inductive.
TypeInv == SutureTypeOK /\ FilesTypeOK /\ OwnTypeOK /\ HandlerInv /\ DownIsDown

LEMMA TypeOKParts == TypeOK <=> SutureTypeOK /\ FilesTypeOK /\ OwnTypeOK
  BY DEF TypeOK, SutureTypeOK, FilesTypeOK, OwnTypeOK, ServicesTypeOK,
     FuzzerTypeOK, BackupTypeOK, CrashTypeOK, StatsTypeOK

LEMMA InitTypeOK == Init => TypeOK /\ DownIsDown /\ ContainersAttended
<1> SUFFICES ASSUME Init PROVE TypeOK /\ DownIsDown /\ ContainersAttended
  OBVIOUS
<1> USE DEF Init, ServicesInit, FuzzerInit, BackupInit, CrashInit, StatsInit
<1>1. ServicesTypeOK
  BY DEF ServicesTypeOK, Location, Content
<1>2. FuzzerTypeOK
  BY ServiceOfRole DEF FuzzerTypeOK, FuzzerLocation, Location, Content
<1>3. BackupTypeOK
  BY ServiceOfRole DEF BackupTypeOK, BackupLocation, Content
<1>4. CrashTypeOK
  BY ServiceOfRole DEF CrashTypeOK, CrashLocation
<1>5. StatsTypeOK
  BY ServiceOfRole DEF StatsTypeOK, StatsLocation
<1>6. DownIsDown /\ ContainersAttended
  BY ServiceOfRole DEF DownIsDown, At, ContainersAttended
<1>7. QED
  BY <1>1, <1>2, <1>3, <1>4, <1>5, <1>6 DEF TypeOK

-----------------------------------------------------------------------------
(* A service moves. *)

LEMMA Moves ==
  ASSUME SutureTypeOK, NEW v \in Service, NEW l \in Location,
         Goto(v, l) \/ TakeStop(v, l)
  PROVE  /\ pc' \in [Service -> Location]
         /\ pc'[v] = l
         /\ \A u \in Service \ {v} : pc'[u] = pc[u]
         /\ ctl' = ctl
         /\ stop' \in [Service -> BOOLEAN]
  BY DEF SutureTypeOK, Goto, TakeStop

LEMMA FuzzerMoves ==
  ASSUME SutureTypeOK, NEW s \in Supervisor, NEW l \in FuzzerLocation,
         Goto(Fuzzer(s), l) \/ TakeStop(Fuzzer(s), l)
  PROVE  SutureTypeOK'
<1>1. l \in Location /\ Fuzzer(s) \in Service
  BY ServiceOfRole DEF FuzzerLocation
<1>2. QED
  BY <1>1, Moves, ServiceOfRole DEF SutureTypeOK

LEMMA BackupMoves ==
  ASSUME SutureTypeOK, NEW s \in Supervisor, NEW l \in BackupLocation,
         Goto(Backup(s), l) \/ TakeStop(Backup(s), l)
  PROVE  SutureTypeOK'
<1>1. l \in Location /\ Backup(s) \in Service
  BY ServiceOfRole DEF BackupLocation, Location
<1>2. QED
  BY <1>1, Moves, ServiceOfRole DEF SutureTypeOK

LEMMA CrashMoves ==
  ASSUME SutureTypeOK, NEW s \in Supervisor, NEW l \in CrashLocation,
         Goto(Crash(s), l) \/ TakeStop(Crash(s), l)
  PROVE  SutureTypeOK'
<1>1. l \in Location /\ Crash(s) \in Service
  BY ServiceOfRole DEF CrashLocation, Location
<1>2. QED
  BY <1>1, Moves, ServiceOfRole DEF SutureTypeOK

LEMMA StatsMoves ==
  ASSUME SutureTypeOK, NEW s \in Supervisor, NEW l \in StatsLocation,
         Goto(Stats(s), l) \/ TakeStop(Stats(s), l)
  PROVE  SutureTypeOK'
<1>1. l \in Location /\ Stats(s) \in Service
  BY ServiceOfRole DEF StatsLocation, Location
<1>2. QED
  BY <1>1, Moves, ServiceOfRole DEF SutureTypeOK

-----------------------------------------------------------------------------
\* What docker has refused stays on record as long as the container is there.
LEMMA Refusing ==
  ASSUME NEW left, Refuse(left), NEW t
  PROVE  /\ <<t, "fuzzer">> \in refused \cup left /\ fuzzerBox'[t] # None
              => <<t, "fuzzer">> \in refused'
         /\ <<t, "build">> \in refused \cup left /\ buildBox'[t] # None
              => <<t, "build">> \in refused'
         /\ <<t, "old">> \in refused \cup left
            /\ (buildBox'[t] # None \/ fuzzerBox'[t] # None)
              => <<t, "old">> \in refused'
  BY DEF Refuse

LEMMA RefusingTypes ==
  ASSUME NEW t \in Target, NEW left, Refuse(left),
         refused \subseteq Target \X {"build", "fuzzer", "old"},
         left \subseteq {<<t, "build">>, <<t, "fuzzer">>, <<t, "old">>}
  PROVE  refused' \subseteq Target \X {"build", "fuzzer", "old"}
  BY DEF Refuse

-----------------------------------------------------------------------------
\* A service past storage.Init goes on in its Serve.
Works(v, l) ==
  /\ Goto(v, l) \/ TakeStop(v, l)
  /\ pc[v] \notin Early
  /\ l \notin {"down", "soln"}
  /\ UNCHANGED held

LEMMA WorksKeeps ==
  ASSUME TypeInv, NEW v \in Service, NEW l \in Location, Works(v, l)
  PROVE  HandlerInv' /\ DownIsDown'
<1>1. /\ pc'[v] = l
      /\ \A u \in Service \ {v} : pc'[u] = pc[u]
      /\ ctl' = ctl /\ handler' = handler /\ soln' = soln
  BY Moves DEF TypeInv, Works, held, ports, storage
<1>2. HandlerInv'
  BY <1>1 DEF TypeInv, HandlerInv, At, Works
<1>3. DownIsDown'
  BY <1>1, ServiceOfRole DEF TypeInv, DownIsDown, At, Works, Early
<1>4. QED
  BY <1>2, <1>3

LEMMA FuzzerWorks ==
  ASSUME TypeInv, NEW s \in Supervisor, NEW l \in FuzzerLocation,
         Works(Fuzzer(s), l)
  PROVE  SutureTypeOK' /\ HandlerInv' /\ DownIsDown'
  BY WorksKeeps, FuzzerMoves, ServiceOfRole DEF TypeInv, Works, FuzzerLocation

\* storage.Init keeps the types as well.
LEMMA AssignKeeps ==
  ASSUME TypeInv, NEW v \in Service, AssignSoln(v)
  PROVE  FilesTypeOK' /\ HandlerInv' /\ DownIsDown'
<1>t. TargetOf[v[1]] \in Target
  BY SupervisorAssumption DEF Service
<1>1. /\ pc[v] = "init" /\ pc'[v] = "soln"
      /\ \A u \in Service \ {v} : pc'[u] = pc[u]
      /\ ctl' = ctl /\ handler' = handler /\ soln' \in Target
  BY <1>t, Moves DEF TypeInv, AssignSoln, At, Location
<1>2. FilesTypeOK'
  BY <1>1 DEF TypeInv, FilesTypeOK, AssignSoln, files, setupVars, syncVars, ports
<1>3. HandlerInv'
  BY <1>1 DEF TypeInv, HandlerInv, At, Early
<1>4. DownIsDown'
  BY <1>1, ServiceOfRole DEF TypeInv, DownIsDown, At
<1>5. QED
  BY <1>2, <1>3, <1>4

LEMMA ReturnKeeps ==
  ASSUME TypeInv, NEW v \in Service, NEW l \in Location \ {"down", "soln"},
         ReturnSoln(v, l)
  PROVE  FilesTypeOK' /\ HandlerInv' /\ DownIsDown'
<1>1. /\ pc[v] = "soln" /\ pc'[v] = l
      /\ \A u \in Service \ {v} : pc'[u] = pc[u]
      /\ ctl' = ctl /\ soln' = soln
  BY Moves DEF TypeInv, ReturnSoln, At
<1>2. /\ soln \in Target
      /\ handler' = [handler EXCEPT ![v] = soln]
      /\ handler \in [Service -> Target \cup {None}]
  BY <1>1 DEF TypeInv, HandlerInv, At, ReturnSoln, FilesTypeOK
<1>3. FilesTypeOK'
  BY <1>1, <1>2 DEF TypeInv, FilesTypeOK, ReturnSoln, files, setupVars, syncVars,
                       ports
<1>4. HandlerInv'
  BY <1>1, <1>2 DEF TypeInv, HandlerInv, At
<1>5. DownIsDown'
  BY <1>1, ServiceOfRole DEF TypeInv, DownIsDown, At
<1>6. QED
  BY <1>3, <1>4, <1>5

LEMMA FuzzerTypes ==
  ASSUME TypeInv, NEW s \in Supervisor, FuzzerServe(s) \/ InspectFails(s),
         UNCHANGED serviceVars
  PROVE  TypeInv'
<1> DEFINE t == TargetOf[s]
<1> USE DEF boxes, setup, fuzzerVars, files, setupVars, syncVars, serviceVars, crashVars,
        held, ports, storage
<1>t. t \in Target
  BY SupervisorAssumption
<1>h. pc[Fuzzer(s)] \notin Early => Handler(s) \in Target
  BY ServiceOfRole DEF TypeInv, HandlerInv, Handler
<1>1. CASE SetupClean(s)
  <2>1. Works(Fuzzer(s), "getTarget")
    BY <1>1 DEF SetupClean, Step, At, Works, Early
  <2>2. FilesTypeOK'
    BY <1>1, <1>t DEF SetupClean, TypeInv, FilesTypeOK, Content
  <2>3. OwnTypeOK'
    BY <1>1, <1>t DEF SetupClean, TypeInv, OwnTypeOK
  <2>4. QED
    BY <2>1, <2>2, <2>3, FuzzerWorks DEF TypeInv, FuzzerLocation, Location
<1>2. CASE GetTarget(s)
  <2>1. \/ Works(Fuzzer(s), "fill") \/ Works(Fuzzer(s), "unzip")
        \/ Works(Fuzzer(s), "ended")
    BY <1>2 DEF GetTarget, Step, At, Works, Early
  <2>2. FilesTypeOK'
    BY <1>2, <1>h DEF GetTarget, Step, At, TypeInv, FilesTypeOK, Early
  <2>3. OwnTypeOK'
    BY <1>2 DEF GetTarget, TypeInv, OwnTypeOK
  <2>4. QED
    BY <2>1, <2>2, <2>3, FuzzerWorks DEF TypeInv, FuzzerLocation, Location
<1>3. CASE OpenTarget(s)
  <2>1. Works(Fuzzer(s), "remove") \/ Works(Fuzzer(s), "ended")
    BY <1>3 DEF OpenTarget, StepIf, Step, At, Works, Early
  <2>2. FilesTypeOK'
    BY <1>3, <1>t DEF OpenTarget, TypeInv, FilesTypeOK
  <2>3. OwnTypeOK'
    BY <1>3 DEF OpenTarget, TypeInv, OwnTypeOK
  <2>4. QED
    BY <2>1, <2>2, <2>3, FuzzerWorks DEF TypeInv, FuzzerLocation, Location
<1>4. CASE RemoveWorking(s)
  <2>1. Works(Fuzzer(s), "exists") \/ Works(Fuzzer(s), "ended")
    BY <1>4 DEF RemoveWorking, StepIf, Step, At, Works, Early
  <2>2. FilesTypeOK'
    BY <1>4 DEF RemoveWorking, TypeInv, FilesTypeOK
  <2>3. OwnTypeOK'
    BY <1>4 DEF RemoveWorking, TypeInv, OwnTypeOK
  <2>4. QED
    BY <2>1, <2>2, <2>3, FuzzerWorks DEF TypeInv, FuzzerLocation, Location
<1>5. CASE CheckBackup(s)
  <2>1. \/ Works(Fuzzer(s), "environment")
        \/ Works(Fuzzer(s), "getBackup")
        \/ Works(Fuzzer(s), "ended")
    BY <1>5 DEF CheckBackup, Step, At, Works, Early
  <2>2. FilesTypeOK'
    BY <1>5, <1>t DEF CheckBackup, TypeInv, FilesTypeOK
  <2>3. resume' \in [Supervisor -> BOOLEAN] /\ mounted' \in [Target -> BOOLEAN]
    BY <1>5, <1>t DEF CheckBackup, TypeInv, OwnTypeOK
  <2>4. OwnTypeOK'
    BY <1>5, <2>3 DEF CheckBackup, TypeInv, OwnTypeOK
  <2>5. QED
    BY <2>1, <2>2, <2>4, FuzzerWorks DEF TypeInv, FuzzerLocation, Location
<1>6. CASE GetBackup(s)
  <2>1. Works(Fuzzer(s), "fillBackup")
    BY <1>6 DEF GetBackup, Step, At, Works, Early
  <2>2. Handler(s) \in Target
    BY <1>6, <1>h DEF GetBackup, Step, At, Early
  <2>3. FilesTypeOK'
    BY <1>6, <2>2 DEF GetBackup, TypeInv, FilesTypeOK, Content
  <2>4. fetched' \in [Supervisor -> Content]
    BY <1>6, <2>2 DEF GetBackup, TypeInv, FilesTypeOK, OwnTypeOK
  <2>5. OwnTypeOK'
    BY <1>6, <2>4 DEF GetBackup, TypeInv, OwnTypeOK
  <2>6. QED
    BY <2>1, <2>3, <2>5, FuzzerWorks DEF TypeInv, FuzzerLocation, Location
<1>6f. CASE FillBackup(s)
  <2>1. Works(Fuzzer(s), "unzipBackup") \/ Works(Fuzzer(s), "ended")
    BY <1>6f DEF FillBackup, StepIf, Step, At, Works, Early
  <2>2. Handler(s) \in Target /\ fetched[s] \in Content
    BY <1>6f, <1>h DEF FillBackup, StepIf, Step, At, Early, TypeInv, OwnTypeOK
  <2>3. syncZip' \in [Target -> Content]
    BY <1>6f, <2>2 DEF FillBackup, TypeInv, FilesTypeOK, Content
  <2>4. FilesTypeOK'
    BY <1>6f, <2>3 DEF FillBackup, TypeInv, FilesTypeOK
  <2>5. OwnTypeOK'
    BY <1>6f DEF FillBackup, TypeInv, OwnTypeOK, Content
  <2>6. QED
    BY <2>1, <2>4, <2>5, FuzzerWorks DEF TypeInv, FuzzerLocation, Location
<1>7. CASE OpenBackup(s)
  <2>1. Works(Fuzzer(s), "removeBackup") \/ Works(Fuzzer(s), "ended")
    BY <1>7 DEF OpenBackup, At, Works, Early
  <2>2. syncDir' \in [Target -> {"empty", "session"}]
    BY <1>7, <1>t DEF OpenBackup, TypeInv, FilesTypeOK
  <2>3. FilesTypeOK'
    BY <1>7, <2>2 DEF OpenBackup, TypeInv, FilesTypeOK
  <2>4. OwnTypeOK'
    BY <1>7 DEF OpenBackup, TypeInv, OwnTypeOK
  <2>5. QED
    BY <2>1, <2>3, <2>4, FuzzerWorks DEF TypeInv, FuzzerLocation, Location
<1>7r. CASE RemoveBackup(s)
  <2>1. Works(Fuzzer(s), "environment") \/ Works(Fuzzer(s), "ended")
    BY <1>7r DEF RemoveBackup, StepIf, Step, At, Works, Early
  <2>2. syncZip' \in [Target -> Content]
    BY <1>7r DEF RemoveBackup, TypeInv, FilesTypeOK, Content
  <2>3. FilesTypeOK'
    BY <1>7r, <2>2 DEF RemoveBackup, TypeInv, FilesTypeOK
  <2>4. OwnTypeOK'
    BY <1>7r DEF RemoveBackup, TypeInv, OwnTypeOK
  <2>5. QED
    BY <2>1, <2>3, <2>4, FuzzerWorks DEF TypeInv, FuzzerLocation, Location
<1>8. ASSUME UNCHANGED <<held, files>>, NEW l \in FuzzerLocation,
             Works(Fuzzer(s), l), OwnTypeOK'
      PROVE  TypeInv'
  <2>1. FilesTypeOK'
    BY <1>8 DEF TypeInv, FilesTypeOK
  <2>2. QED
    BY <1>8, <2>1, FuzzerWorks DEF TypeInv
<1> USE DEF FuzzerLocation, Location, Step, At, Works, Early
<1>8e. CASE ReadEnvironment(s)
  <2>1. OwnTypeOK'
    BY <1>8e, <1>t DEF ReadEnvironment, TypeInv, FilesTypeOK, OwnTypeOK
  <2>2. QED
    BY <1>8, <1>8e, <2>1 DEF ReadEnvironment, StepIf
<1>r. ASSUME NEW left, Refuse(left),
             left \subseteq {<<t, "build">>, <<t, "fuzzer">>, <<t, "old">>}
      PROVE  refused' \subseteq Target \X {"build", "fuzzer", "old"}
  BY <1>r, <1>t, RefusingTypes DEF TypeInv, OwnTypeOK
<1>9. CASE KillOldBoxes(s)
  <2>1. OwnTypeOK'
    BY <1>9, <1>r DEF KillOldBoxes, RemoveBuildBox, RemoveFuzzer, TypeInv, OwnTypeOK
  <2>2. QED
    BY <1>8, <1>9, <2>1 DEF KillOldBoxes
<1>10. CASE CreateBuildBox(s)
  <2>1. OwnTypeOK'
    BY <1>10, <1>t DEF CreateBuildBox, TypeInv, OwnTypeOK
  <2>2. QED
    BY <1>8, <1>10, <2>1 DEF CreateBuildBox
<1>11. CASE StopBuild(s)
  <2>1. OwnTypeOK'
    BY <1>11, <1>r DEF StopBuild, RemoveBuildBox, TypeInv, OwnTypeOK
  <2>2. QED
    BY <1>8, <1>11, <2>1 DEF StopBuild
<1>12. CASE BuildFails(s) \/ InspectFuzzer(s) \/ FuzzerGone(s)
  <2>1. OwnTypeOK'
    BY <1>12 DEF BuildFails, InspectFuzzer, FuzzerGone, TypeInv, OwnTypeOK
  <2>2. QED
    BY <1>8, <1>12, <2>1 DEF BuildFails, InspectFuzzer, FuzzerGone
<1>13. CASE CommitBuild(s)
  <2>1. OwnTypeOK'
    BY <1>13, <1>r DEF CommitBuild, TypeInv, OwnTypeOK
  <2>2. QED
    BY <1>8, <1>13, <2>1 DEF CommitBuild, StepIf
<1>14. CASE Deploy(s)
  <2>1. OwnTypeOK'
    BY <1>14, <1>t DEF Deploy, TypeInv, OwnTypeOK
  <2>2. QED
    BY <1>8, <1>14, <2>1 DEF Deploy
<1>16. CASE InspectFails(s)
  <2>1. OwnTypeOK'
    BY <1>16, <1>r DEF InspectFails, TypeInv, OwnTypeOK
  <2>2. QED
    BY <1>8, <1>16, <2>1 DEF InspectFails
<1>17. CASE KillFuzzer(s)
  <2>1. OwnTypeOK'
    BY <1>17, <1>r DEF KillFuzzer, RemoveFuzzer, TypeInv, OwnTypeOK
  <2>2. QED
    BY <1>8, <1>17, <2>1 DEF KillFuzzer
<1>18. CASE AssignSoln(Fuzzer(s)) /\ UNCHANGED fuzzerVars
  <2>1. Goto(Fuzzer(s), "soln") /\ Fuzzer(s) \in Service
    BY <1>18, ServiceOfRole DEF AssignSoln
  <2>2. OwnTypeOK'
    BY <1>18 DEF TypeInv, OwnTypeOK
  <2>3. SutureTypeOK'
    BY <2>1, FuzzerMoves DEF TypeInv
  <2>4. QED
    BY <1>18, <2>1, <2>2, <2>3, AssignKeeps DEF TypeInv
<1>19. CASE ReturnSoln(Fuzzer(s), "clean") /\ UNCHANGED fuzzerVars
  <2>1. Goto(Fuzzer(s), "clean") /\ Fuzzer(s) \in Service
    BY <1>19, ServiceOfRole DEF ReturnSoln
  <2>2. OwnTypeOK'
    BY <1>19 DEF TypeInv, OwnTypeOK
  <2>3. SutureTypeOK'
    BY <2>1, FuzzerMoves DEF TypeInv
  <2>4. QED
    BY <1>19, <2>1, <2>2, <2>3, ReturnKeeps DEF TypeInv
<1>20. QED
  BY <1>1, <1>2, <1>3, <1>4, <1>5, <1>6, <1>7, <1>9, <1>10, <1>11, <1>12, <1>13,
     <1>14, <1>16, <1>17, <1>18, <1>19, <1>6f, <1>7r, <1>8e DEF FuzzerServe

LEMMA BackupTypes ==
  ASSUME TypeInv, NEW s \in Supervisor, BackupServe(s) \/ MakeZip(s),
         UNCHANGED <<fuzzerVars, crashVars, stat>>
  PROVE  TypeInv'
<1> DEFINE v == Backup(s)
           h == handler[v]
<1> USE DEF boxes, setup, fuzzerVars, files, setupVars, syncVars, serviceVars, crashVars,
        held, ports, storage
<1>v. v \in Service /\ TargetOf[s] \in Target
  BY ServiceOfRole, SupervisorAssumption
<1>h. pc[v] \notin Early => h \in Target
  BY <1>v, ServiceOfRole DEF TypeInv, HandlerInv
<1>w. ASSUME NEW l \in BackupLocation, Works(v, l), FilesTypeOK', OwnTypeOK'
      PROVE  TypeInv'
  <2>1. l \in Location
    BY DEF BackupLocation, Location
  <2>2. HandlerInv' /\ DownIsDown'
    BY <1>v, <1>w, <2>1, WorksKeeps
  <2>3. SutureTypeOK'
    BY <1>w, BackupMoves DEF Works, TypeInv
  <2>4. QED
    BY <1>w, <2>2, <2>3 DEF TypeInv
<1>1. CASE MakeZip(s)
  <2>1. Works(v, "zip")
    BY <1>1 DEF MakeZip, At, Works, Early
  <2>2. syncZip' \in [Target -> Content]
    BY <1>1 DEF MakeZip, TypeInv, FilesTypeOK, Content
  <2>3. FilesTypeOK'
    BY <1>1, <2>2 DEF MakeZip, TypeInv, FilesTypeOK
  <2>4. data' \in [Supervisor -> Content]
    BY <1>1, <1>v DEF MakeZip, TypeInv, FilesTypeOK, OwnTypeOK, Content
  <2>5. OwnTypeOK'
    BY <1>1, <2>4 DEF TypeInv, OwnTypeOK
  <2>6. QED
    BY <1>w, <2>1, <2>3, <2>5 DEF BackupLocation
<1>1f. CASE FillZip(s)
  <2>1. Works(v, "read") \/ Works(v, "ended")
    BY <1>1f DEF FillZip, At, Works, Early
  <2>2. h \in Target /\ data[s] \in Content
    BY <1>1f, <1>h DEF FillZip, At, Early, TypeInv, OwnTypeOK
  <2>3. syncZip' \in [Target -> Content]
    BY <1>1f, <2>2 DEF FillZip, TypeInv, FilesTypeOK, Content
  <2>4. FilesTypeOK'
    BY <1>1f, <2>3 DEF FillZip, TypeInv, FilesTypeOK
  <2>5. OwnTypeOK'
    BY <1>1f DEF FillZip, TypeInv, OwnTypeOK, Content
  <2>6. QED
    BY <1>w, <2>1, <2>4, <2>5 DEF BackupLocation
<1>2. CASE ReadZip(s)
  <2>1. Works(v, "ended") \/ Works(v, "copy")
    BY <1>2 DEF ReadZip, Return, At, Works, Early
  <2>2. h \in Target /\ syncZip[h] \in Content
    BY <1>2, <1>h DEF ReadZip, At, Early, TypeInv, FilesTypeOK
  <2>3. stored' \in [Target -> Content]
    BY <1>2, <2>2 DEF ReadZip, TypeInv, FilesTypeOK, Content
  <2>4. data' \in [Supervisor -> Content]
    BY <1>2, <2>2 DEF ReadZip, TypeInv, OwnTypeOK
  <2>5. FilesTypeOK'
    BY <1>2, <2>3 DEF ReadZip, TypeInv, FilesTypeOK
  <2>6. OwnTypeOK'
    BY <2>4 DEF TypeInv, OwnTypeOK
  <2>7. QED
    BY <1>w, <2>1, <2>5, <2>6 DEF BackupLocation
<1>3. CASE WriteBackup(s)
  <2>1. Works(v, "wait") \/ Works(v, "ended")
    BY <1>3 DEF WriteBackup, Return, At, Works, Early
  <2>2. h \in Target /\ data[s] \in Content
    BY <1>3, <1>h DEF WriteBackup, At, Early, TypeInv, OwnTypeOK
  <2>3. stored' \in [Target -> Content] /\ syncZip' \in [Target -> Content]
    BY <1>3, <2>2 DEF WriteBackup, TypeInv, FilesTypeOK, Content
  <2>4. FilesTypeOK'
    BY <1>3, <2>3 DEF WriteBackup, TypeInv, FilesTypeOK
  <2>5. OwnTypeOK'
    BY <1>3 DEF WriteBackup, TypeInv, OwnTypeOK, Content
  <2>6. QED
    BY <1>w, <2>1, <2>4, <2>5 DEF BackupLocation
<1>4. CASE StopBackup(s)
  <2>1. Works(v, "ended")
    BY <1>4 DEF StopBackup, At, Works, Early
  <2>2. FilesTypeOK' /\ OwnTypeOK'
    BY <1>4 DEF StopBackup, TypeInv, FilesTypeOK, OwnTypeOK
  <2>3. QED
    BY <1>w, <2>1, <2>2 DEF BackupLocation
<1>5. CASE AssignSoln(v) /\ UNCHANGED data
  <2>1. Goto(v, "soln") /\ OwnTypeOK'
    BY <1>5 DEF AssignSoln, TypeInv, OwnTypeOK
  <2>2. SutureTypeOK'
    BY <2>1, BackupMoves DEF TypeInv, BackupLocation
  <2>3. QED
    BY <1>5, <1>v, <2>1, <2>2, AssignKeeps DEF TypeInv
<1>6. CASE ReturnSoln(v, "wait") /\ UNCHANGED data
  <2>1. Goto(v, "wait") /\ OwnTypeOK'
    BY <1>6 DEF ReturnSoln, TypeInv, OwnTypeOK
  <2>2. SutureTypeOK'
    BY <2>1, BackupMoves DEF TypeInv, BackupLocation
  <2>3. FilesTypeOK' /\ HandlerInv' /\ DownIsDown'
    BY <1>6, <1>v, ReturnKeeps DEF Location
  <2>4. QED
    BY <2>1, <2>2, <2>3 DEF TypeInv
<1>7. QED
  BY <1>1, <1>2, <1>3, <1>4, <1>5, <1>6, <1>1f DEF BackupServe

LEMMA CrashTypes ==
  ASSUME TypeInv, NEW s \in Supervisor, CrashServe(s),
         UNCHANGED <<fuzzerVars, data, stat>>
  PROVE  TypeInv'
<1> DEFINE v == Crash(s)
<1> USE DEF boxes, setup, fuzzerVars, files, setupVars, syncVars, serviceVars, crashVars,
        held, ports, storage
<1>v. v \in Service /\ TargetOf[s] \in Target
  BY ServiceOfRole, SupervisorAssumption
<1>w. ASSUME NEW l \in CrashLocation, Works(v, l), FilesTypeOK', OwnTypeOK'
      PROVE  TypeInv'
  <2>1. l \in Location
    BY DEF CrashLocation, Location
  <2>2. HandlerInv' /\ DownIsDown'
    BY <1>v, <1>w, <2>1, WorksKeeps
  <2>3. SutureTypeOK'
    BY <1>w, CrashMoves DEF Works, TypeInv
  <2>4. QED
    BY <1>w, <2>2, <2>3 DEF TypeInv
<1>1. CASE FindDirectories(s) \/ WatchCrashes(s)
  <2>1. Works(v, "found") \/ Works(v, "watch") \/ Works(v, "ended")
    BY <1>1 DEF FindDirectories, WatchCrashes, At, Works, Early
  <2>2. FilesTypeOK' /\ OwnTypeOK'
    BY <1>1 DEF FindDirectories, WatchCrashes, TypeInv, FilesTypeOK, OwnTypeOK
  <2>3. QED
    BY <1>w, <2>1, <2>2 DEF CrashLocation
<1>2. CASE SaveCrash(s)
  <2>1. handler[v] \in Target
    BY <1>2, <1>v, ServiceOfRole DEF SaveCrash, At, Early, TypeInv, HandlerInv
  <2>2. OwnTypeOK'
    BY <1>2, <1>v, <2>1 DEF SaveCrash, TypeInv, OwnTypeOK, FilesTypeOK
  <2>3. QED
    BY <1>2, <2>2 DEF SaveCrash, TypeInv, SutureTypeOK, FilesTypeOK, HandlerInv,
                      DownIsDown, At, suture
<1>3. CASE StopCrash(s)
  <2>1. Works(v, "ended")
    BY <1>3 DEF StopCrash, At, Works, Early
  <2>2. FilesTypeOK' /\ OwnTypeOK'
    BY <1>3 DEF StopCrash, TypeInv, FilesTypeOK, OwnTypeOK
  <2>3. QED
    BY <1>w, <2>1, <2>2 DEF CrashLocation
<1>4. CASE AssignSoln(v) /\ UNCHANGED crashVars
  <2>1. Goto(v, "soln") /\ OwnTypeOK'
    BY <1>4 DEF AssignSoln, TypeInv, OwnTypeOK
  <2>2. SutureTypeOK'
    BY <2>1, CrashMoves DEF TypeInv, CrashLocation
  <2>3. QED
    BY <1>4, <1>v, <2>1, <2>2, AssignKeeps DEF TypeInv
<1>5. CASE ReturnSoln(v, "wait") /\ UNCHANGED crashVars
  <2>1. Goto(v, "wait") /\ OwnTypeOK'
    BY <1>5 DEF ReturnSoln, TypeInv, OwnTypeOK
  <2>2. SutureTypeOK'
    BY <2>1, CrashMoves DEF TypeInv, CrashLocation
  <2>3. FilesTypeOK' /\ HandlerInv' /\ DownIsDown'
    BY <1>5, <1>v, ReturnKeeps DEF Location
  <2>4. QED
    BY <2>1, <2>2, <2>3 DEF TypeInv
<1>6. QED
  BY <1>1, <1>2, <1>3, <1>4, <1>5 DEF CrashServe

LEMMA StatsTypes ==
  ASSUME TypeInv, NEW s \in Supervisor, StatsServe(s) \/ StatsTick(s),
         UNCHANGED <<fuzzerVars, data, crashVars>>
  PROVE  TypeInv'
<1> DEFINE v == Stats(s)
<1> USE DEF boxes, setup, fuzzerVars, files, setupVars, syncVars, crashVars,
        held, ports, storage
<1>v. v \in Service
  BY ServiceOfRole
<1>f. FilesTypeOK'
  BY DEF StatsServe, StatsTick, StartStats, ReceiveEvent, SendStat, StopStats,
         ReadStats, Notify, TypeInv, FilesTypeOK
<1>o. OwnTypeOK'
  BY DEF StatsServe, StatsTick, StartStats, ReceiveEvent, SendStat, StopStats,
         ReadStats, Notify, TypeInv, OwnTypeOK
<1>w. ASSUME NEW l \in StatsLocation, Works(v, l)
      PROVE  TypeInv'
  <2>1. l \in Location
    BY DEF StatsLocation, Location
  <2>2. HandlerInv' /\ DownIsDown'
    BY <1>v, <1>w, <2>1, WorksKeeps
  <2>3. SutureTypeOK'
    BY <1>w, StatsMoves DEF Works, TypeInv
  <2>4. QED
    BY <1>f, <1>o, <2>2, <2>3 DEF TypeInv
<1>1. CASE StartStats(s)
  <2>1. /\ pc[v] = "init" /\ pc'[v] = "watch"
        /\ \A u \in Service \ {v} : pc'[u] = pc[u]
        /\ ctl' = ctl /\ handler' = handler /\ soln' = soln
    BY <1>1, <1>v DEF StartStats, At, Goto, TypeInv, SutureTypeOK
  <2>2. SutureTypeOK'
    BY <1>1, StatsMoves DEF StartStats, StatsLocation, TypeInv
  <2>3. HandlerInv' /\ DownIsDown'
    BY <2>1, ServiceOfRole DEF TypeInv, HandlerInv, DownIsDown, At
  <2>4. QED
    BY <1>f, <1>o, <2>2, <2>3 DEF TypeInv
<1>2. CASE ReceiveEvent(s) \/ ReadStats(s)
  <2>1. Works(v, "send") \/ Works(v, "ended")
    BY <1>2 DEF ReceiveEvent, ReadStats, Return, At, Works, Early
  <2>2. QED
    BY <1>w, <2>1 DEF StatsLocation
<1>3. CASE SendStat(s)
  <2>1. Works(v, "watch")
    BY <1>3 DEF SendStat, At, Works, Early
  <2>2. QED
    BY <1>w, <2>1 DEF StatsLocation
<1>4. CASE StopStats(s)
  <2>1. Works(v, "ended")
    BY <1>4 DEF StopStats, At, Works, Early
  <2>2. QED
    BY <1>w, <2>1 DEF StatsLocation
<1>5. CASE Notify(s)
  BY <1>5, <1>f, <1>o DEF Notify, TypeInv, SutureTypeOK, HandlerInv, DownIsDown,
                          At, suture
<1>6. QED
  BY <1>1, <1>2, <1>3, <1>4, <1>5 DEF StatsServe, StatsTick

LEMMA SutureTypes ==
  ASSUME TypeInv, NEW s \in Supervisor, Suture(s)
  PROVE  TypeInv'
<1> USE DEF boxes, setup, fuzzerVars, files, setupVars, syncVars, serviceVars,
        crashVars, held, ports, storage
<1>1. OwnTypeOK' /\ handler' = handler /\ soln' = soln
  BY DEF Suture, ServeBackground, StopServices, StopReturns, Restart, TypeInv,
         OwnTypeOK
<1>p. taken' \subseteq HostPort /\ port' \in [Supervisor -> HostPort \cup {NoPort}]
  BY DEF Suture, ServeBackground, StopServices, StopReturns, Restart, TypeInv,
         FilesTypeOK, TakePort
<1>f. FilesTypeOK'
  BY <1>p DEF Suture, ServeBackground, StopServices, StopReturns, Restart, TypeInv,
              FilesTypeOK
<1>2. CASE ServeBackground(s)
  <2>1. /\ ctl' = [ctl EXCEPT ![s] = "up"]
        /\ pc' \in [Service -> Location] /\ stop' = stop
        /\ \A v \in Service : pc'[v] = pc[v] \/ (pc'[v] = "init" /\ v[1] = s)
    BY <1>2 DEF ServeBackground, TypeInv, SutureTypeOK, Location
  <2>2. SutureTypeOK'
    BY <2>1, ServiceOfRole DEF TypeInv, SutureTypeOK, FuzzerLocation, Location,
                               BackupLocation, CrashLocation, StatsLocation
  <2>3. HandlerInv'
    BY <1>1, <2>1 DEF TypeInv, HandlerInv, At, Early
  <2>4. DownIsDown'
    BY <2>1 DEF TypeInv, SutureTypeOK, DownIsDown, At, Service
  <2>5. QED
    BY <1>1, <1>f, <2>2, <2>3, <2>4 DEF TypeInv
<1>3. CASE StopServices(s) \/ StopReturns(s)
  <2>1. /\ pc' = pc
        /\ stop' \in [Service -> BOOLEAN]
        /\ \E c \in {"stopping", "stopped"} : ctl' = [ctl EXCEPT ![s] = c]
    BY <1>3 DEF StopServices, StopReturns, TypeInv, SutureTypeOK
  <2>2. SutureTypeOK' /\ DownIsDown'
    BY <2>1 DEF TypeInv, SutureTypeOK, DownIsDown, At, Service
  <2>3. HandlerInv'
    BY <1>1, <2>1 DEF TypeInv, HandlerInv, At
  <2>4. QED
    BY <1>1, <1>f, <2>2, <2>3 DEF TypeInv
<1>4. ASSUME NEW r \in Role, Restart(<<s, r>>)
      PROVE  TypeInv'
  <2> DEFINE v == <<s, r>>
  <2>1. v \in Service
    BY DEF Service
  <2>2. /\ pc[v] = "ended" /\ pc'[v] = "init" /\ ctl' = ctl
        /\ pc' \in [Service -> Location] /\ stop' \in [Service -> BOOLEAN]
        /\ \A u \in Service \ {v} : pc'[u] = pc[u]
    BY <1>4, <2>1, Moves DEF Restart, At, TypeInv, Location
  <2>2a. \A u \in Service : pc'[u] = pc[u] \/ pc'[u] = "init"
    BY <2>2
  <2>3. SutureTypeOK'
    BY <2>2, <2>2a, ServiceOfRole
    DEF TypeInv, SutureTypeOK, FuzzerLocation, Location, BackupLocation,
        CrashLocation, StatsLocation
  <2>4. HandlerInv'
    BY <1>1, <2>2 DEF TypeInv, HandlerInv, At, Early
  <2>5. DownIsDown'
    BY <2>2 DEF TypeInv, DownIsDown, At
  <2>6. QED
    BY <1>1, <1>f, <2>3, <2>4, <2>5 DEF TypeInv
<1>5. QED
  BY <1>2, <1>3, <1>4 DEF Suture

LEMMA ContainerTypes ==
  ASSUME TypeInv, NEW t \in Target, RunContainers(t) \/ LoseFuzzer(t) \/ FuzzerFindsCrash(t)
  PROVE  TypeInv'
<1> USE DEF boxes, setup, fuzzerVars, files, setupVars, syncVars, serviceVars,
        crashVars, held, ports, storage
<1>1. UNCHANGED <<suture, held>>
  BY DEF RunContainers, LoseFuzzer, Containers, BuildEnds, WriteSession,
         ResumeFails, FuzzerExits, RemoveFuzzerBox,
         FuzzerFindsCrash, FindCrash, baseVars
<1>2. SutureTypeOK' /\ HandlerInv' /\ DownIsDown'
  BY <1>1 DEF TypeInv, SutureTypeOK, HandlerInv, DownIsDown, At, suture
<1>3. FilesTypeOK'
  BY <1>1 DEF RunContainers, LoseFuzzer, Containers, BuildEnds, WriteSession,
              ResumeFails, FuzzerExits, RemoveFuzzerBox,
              FuzzerFindsCrash, FindCrash, baseVars, TypeInv, FilesTypeOK
<1>4. OwnTypeOK'
  <2>1. refused' \subseteq Target \X {"build", "fuzzer", "old"}
    BY RefusingTypes
    DEF RunContainers, LoseFuzzer, Containers, BuildEnds, WriteSession,
        ResumeFails, FuzzerExits, RemoveFuzzerBox,
        FuzzerFindsCrash, FindCrash, TypeInv, OwnTypeOK
  <2>2. QED
    BY <2>1
    DEF RunContainers, LoseFuzzer, Containers, BuildEnds, WriteSession,
        ResumeFails, FuzzerExits, RemoveFuzzerBox,
        FuzzerFindsCrash, FindCrash, TypeInv, OwnTypeOK
<1>5. QED
  BY <1>2, <1>3, <1>4 DEF TypeInv

LEMMA DaemonTypes == TypeInv /\ CrashDaemon => TypeInv'
<1> SUFFICES ASSUME TypeInv, CrashDaemon PROVE TypeInv'
  OBVIOUS
<1> USE DEF CrashDaemon, RestartDaemon, LoseSetup, boxes, setupVars
<1>1. pc' = [v \in Service |-> "down"]
  OBVIOUS
<1>2. SutureTypeOK'
  BY <1>1, ServiceOfRole DEF TypeInv, SutureTypeOK, FuzzerLocation, Location,
                             BackupLocation, CrashLocation, StatsLocation
<1>3. FilesTypeOK' /\ OwnTypeOK'
  BY DEF TypeInv, FilesTypeOK, OwnTypeOK, Content
<1>4. HandlerInv' /\ DownIsDown'
  BY <1>1 DEF HandlerInv, DownIsDown, At, Early
<1>5. QED
  BY <1>2, <1>3, <1>4 DEF TypeInv

LEMMA NextTypes == TypeInv /\ [Next]_vars => TypeInv'
<1> SUFFICES ASSUME TypeInv, [Next]_vars PROVE TypeInv'
  OBVIOUS
<1>1. CASE UNCHANGED vars
  <2> USE <1>1 DEF vars, baseVars, suture, held, ports, storage, files, setupVars,
              syncVars, fuzzerVars, setup, boxes, serviceVars, crashVars
  <2>1. SutureTypeOK' /\ HandlerInv' /\ DownIsDown'
    BY DEF TypeInv, SutureTypeOK, HandlerInv, DownIsDown, At
  <2>2. FilesTypeOK' /\ OwnTypeOK'
    BY DEF TypeInv, FilesTypeOK, OwnTypeOK
  <2>3. QED
    BY <2>1, <2>2 DEF TypeInv
<1>2. CASE Next
  BY <1>2, FuzzerTypes, BackupTypes, CrashTypes, StatsTypes, SutureTypes,
     ContainerTypes, DaemonTypes
  DEF Next, RunFuzzer, LoseSight, RunBackup, RunCrash, RunStats, TakeBackup, TakeStats
<1>3. QED
  BY <1>1, <1>2

LEMMA InitTypes == Init => TypeInv
<1>1. Init => HandlerInv
  BY DEF Init, ServicesInit, HandlerInv, At, Early
<1>2. QED
  BY <1>1, InitTypeOK, TypeOKParts DEF TypeInv

LEMMA TypesAlways == Spec => []TypeInv
  BY InitTypes, NextTypes, PTL DEF Spec

\* Variables always hold values of their types; in particular a Serve uses a
\* storage handler only after storage.Init has returned one.
THEOREM TypeCorrect == Spec => []TypeOK
<1>1. TypeInv => TypeOK
  BY TypeOKParts DEF TypeInv
<1>2. QED
  BY <1>1, TypesAlways, PTL

-----------------------------------------------------------------------------
(* A step of a Serve moves that service alone, and it goes on or takes its stop *)
(* request.                                                                     *)

StepsOf(v) ==
  /\ pc[v] \notin {"down", "ended"}
  /\ ctl' = ctl
  /\ \A u \in Service \ {v} : pc'[u] = pc[u] /\ stop'[u] = stop[u]
  /\ stop'[v] = stop[v] \/ pc'[v] = "ended"

LEMMA ServiceStep ==
  ASSUME TypeInv, NEW v \in Service, NEW l, pc[v] \notin {"down", "ended"},
         Goto(v, l) \/ TakeStop(v, "ended")
  PROVE  StepsOf(v)
  BY DEF StepsOf, TypeInv, SutureTypeOK, Goto, TakeStop

LEMMA FuzzerSteps ==
  ASSUME TypeInv, NEW s \in Supervisor, FuzzerServe(s) \/ InspectFails(s)
  PROVE  StepsOf(Fuzzer(s))
<1>v. Fuzzer(s) \in Service
  BY ServiceOfRole
<1> USE DEF Step, At
<1>1. CASE AssignSoln(Fuzzer(s))
  BY <1>1, <1>v, ServiceStep DEF AssignSoln
<1>2. CASE ReturnSoln(Fuzzer(s), "clean")
  BY <1>2, <1>v, ServiceStep DEF ReturnSoln
<1>3. CASE SetupClean(s)
  BY <1>3, <1>v, ServiceStep DEF SetupClean
<1>4. CASE GetTarget(s)
  BY <1>4, <1>v, ServiceStep DEF GetTarget
<1>5. CASE OpenTarget(s)
  BY <1>5, <1>v, ServiceStep DEF OpenTarget, StepIf
<1>6. CASE RemoveWorking(s)
  BY <1>6, <1>v, ServiceStep DEF RemoveWorking, StepIf
<1>7. CASE CheckBackup(s)
  BY <1>7, <1>v, ServiceStep DEF CheckBackup
<1>8. CASE GetBackup(s)
  BY <1>8, <1>v, ServiceStep DEF GetBackup
<1>9. CASE FillBackup(s)
  BY <1>9, <1>v, ServiceStep DEF FillBackup, StepIf
<1>10. CASE OpenBackup(s) \/ RemoveBackup(s)
  BY <1>10, <1>v, ServiceStep DEF OpenBackup, RemoveBackup, StepIf
<1>11. CASE ReadEnvironment(s)
  BY <1>11, <1>v, ServiceStep DEF ReadEnvironment, StepIf
<1>12. CASE KillOldBoxes(s)
  BY <1>12, <1>v, ServiceStep DEF KillOldBoxes
<1>13. CASE CreateBuildBox(s)
  BY <1>13, <1>v, ServiceStep DEF CreateBuildBox
<1>14. CASE StopBuild(s)
  BY <1>14, <1>v, ServiceStep DEF StopBuild
<1>15. CASE BuildFails(s)
  BY <1>15, <1>v, ServiceStep DEF BuildFails
<1>16. CASE CommitBuild(s)
  BY <1>16, <1>v, ServiceStep DEF CommitBuild, StepIf
<1>17. CASE Deploy(s)
  BY <1>17, <1>v, ServiceStep DEF Deploy
<1>18. CASE InspectFuzzer(s)
  BY <1>18, <1>v, ServiceStep DEF InspectFuzzer
<1>19. CASE FuzzerGone(s) \/ InspectFails(s)
  BY <1>19, <1>v, ServiceStep DEF FuzzerGone, InspectFails
<1>20. CASE KillFuzzer(s)
  BY <1>20, <1>v, ServiceStep DEF KillFuzzer
<1>21. QED
  BY <1>1, <1>2, <1>3, <1>4, <1>5, <1>6, <1>7, <1>8, <1>9, <1>10, <1>11,
     <1>12, <1>13, <1>14, <1>15, <1>16, <1>17, <1>18, <1>19, <1>20
  DEF FuzzerServe

LEMMA OtherServe ==
  ASSUME TypeInv, NEW s \in Supervisor
  PROVE  /\ BackupServe(s) \/ MakeZip(s) => StepsOf(Backup(s))
         /\ CrashServe(s) => StepsOf(Crash(s)) \/ UNCHANGED suture
         /\ StatsServe(s) \/ StatsTick(s) => StepsOf(Stats(s)) \/ UNCHANGED suture
<1>v. Backup(s) \in Service /\ Crash(s) \in Service /\ Stats(s) \in Service
  BY ServiceOfRole
<1> USE <1>v, ServiceStep DEF At, Return, AssignSoln, ReturnSoln
<1>1. BackupServe(s) \/ MakeZip(s) => StepsOf(Backup(s))
  BY DEF BackupServe, MakeZip, FillZip, ReadZip, WriteBackup, StopBackup
<1>2. CrashServe(s) => StepsOf(Crash(s)) \/ UNCHANGED suture
  BY DEF CrashServe, FindDirectories, WatchCrashes, SaveCrash, StopCrash
<1>3. StatsServe(s) \/ StatsTick(s) => StepsOf(Stats(s)) \/ UNCHANGED suture
  BY DEF StatsServe, StatsTick, StartStats, ReceiveEvent, SendStat, StopStats,
         ReadStats, Notify
<1>4. QED
  BY <1>1, <1>2, <1>3

-----------------------------------------------------------------------------
(* Containers are attended. *)

\* Containers have the names of the targets of their supervisors, which were started.
BoxesOfTarget ==
  \A t \in Target :
    /\ fuzzerBox[t] # None => TargetOf[fuzzerBox[t]] = t /\ ctl[fuzzerBox[t]] # "down"
    /\ buildBox[t] # None => TargetOf[buildBox[t]] = t /\ ctl[buildBox[t]] # "down"

AttendedInv == BoxesOfTarget /\ ContainersAttended

\* Where a fuzzer's Serve may have a container.
Attending == {"building", "state", "watch"}

LEMMA OtherStep ==
  ASSUME TypeInv, AttendedInv,
         UNCHANGED <<buildBox, buildEnd, fuzzerBox, refused>>,
         \A r \in Supervisor : /\ ctl[r] # "down" => ctl'[r] # "down"
                               /\ Lost(r) => Lost(r)'
                               /\ \/ pc'[Fuzzer(r)] = pc[Fuzzer(r)]
                                  \/ pc[Fuzzer(r)] \notin Attending
  PROVE  AttendedInv'
  BY DEF AttendedInv, BoxesOfTarget, ContainersAttended, TypeInv, OwnTypeOK, At,
         Attending

\* Containers go, or docker refuses, and a Serve leaves only what is on record.
LEMMA RefusedStep ==
  ASSUME TypeInv, AttendedInv, NEW left, Refuse(left),
         \A t \in Target :
           /\ fuzzerBox'[t] = fuzzerBox[t] \/ fuzzerBox'[t] = None
           /\ \/ buildBox'[t] = None
              \/ /\ buildBox'[t] = buildBox[t]
                 /\ buildEnd'[t] = "running" => buildEnd[t] = "running",
         \A r \in Supervisor :
           /\ ctl'[r] = ctl[r]
           /\ \/ pc'[Fuzzer(r)] = pc[Fuzzer(r)]
              \/ /\ \/ pc[Fuzzer(r)] \notin {"state", "watch"}
                    \/ fuzzerBox'[TargetOf[r]] # r
                    \/ <<TargetOf[r], "fuzzer">> \in left
                 /\ \/ pc[Fuzzer(r)] # "building"
                    \/ buildBox'[TargetOf[r]] # r
                    \/ <<TargetOf[r], "build">> \in left
  PROVE  AttendedInv'
<1>1. BoxesOfTarget'
  <2> SUFFICES ASSUME NEW t \in Target, NEW box \in {fuzzerBox'[t], buildBox'[t]},
                      box # None
               PROVE  TargetOf[box] = t /\ ctl'[box] # "down"
    BY DEF BoxesOfTarget
  <2>1. box \in {fuzzerBox[t], buildBox[t]}
    OBVIOUS
  <2>2. box \in Supervisor /\ TargetOf[box] = t /\ ctl[box] # "down"
    BY <2>1 DEF TypeInv, OwnTypeOK, AttendedInv, BoxesOfTarget
  <2>3. QED
    BY <2>2
<1>2. ASSUME NEW t \in Target, fuzzerBox'[t] # None
      PROVE  \/ Lost(fuzzerBox[t])'
             \/ pc'[Fuzzer(fuzzerBox[t])] \in {"state", "watch"}
             \/ <<t, "fuzzer">> \in refused'
  <2>1. /\ fuzzerBox'[t] = fuzzerBox[t] /\ fuzzerBox[t] \in Supervisor
        /\ TargetOf[fuzzerBox[t]] = t
    BY <1>2 DEF TypeInv, OwnTypeOK, AttendedInv, BoxesOfTarget
  <2>2. \/ Lost(fuzzerBox[t])
        \/ pc[Fuzzer(fuzzerBox[t])] \in {"state", "watch"}
        \/ <<t, "fuzzer">> \in refused
    BY <1>2, <2>1 DEF AttendedInv, ContainersAttended
  <2>3. <<t, "fuzzer">> \in refused \cup left => <<t, "fuzzer">> \in refused'
    BY <1>2, Refusing
  <2>4. QED
    BY <2>1, <2>2, <2>3 DEF Lost
<1>3. ASSUME NEW t \in Target, buildBox'[t] # None, buildEnd'[t] = "running"
      PROVE  \/ Lost(buildBox[t])'
             \/ pc'[Fuzzer(buildBox[t])] = "building"
             \/ <<t, "build">> \in refused'
  <2>1. /\ buildBox'[t] = buildBox[t] /\ buildBox[t] \in Supervisor
        /\ TargetOf[buildBox[t]] = t /\ buildEnd[t] = "running"
    BY <1>3 DEF TypeInv, OwnTypeOK, AttendedInv, BoxesOfTarget
  <2>2. \/ Lost(buildBox[t])
        \/ pc[Fuzzer(buildBox[t])] = "building"
        \/ <<t, "build">> \in refused
    BY <1>3, <2>1 DEF AttendedInv, ContainersAttended, At
  <2>3. <<t, "build">> \in refused \cup left => <<t, "build">> \in refused'
    BY <1>3, Refusing
  <2>4. QED
    BY <2>1, <2>2, <2>3 DEF Lost
<1>4. \A t \in Target : /\ fuzzerBox'[t] # None => fuzzerBox'[t] = fuzzerBox[t]
                        /\ buildBox'[t] # None => buildBox'[t] = buildBox[t]
  OBVIOUS
<1>5. ContainersAttended'
  BY <1>2, <1>3, <1>4 DEF ContainersAttended, At, Lost
<1>6. QED
  BY <1>1, <1>5 DEF AttendedInv

LEMMA FuzzerAttends ==
  ASSUME TypeInv, AttendedInv, NEW s \in Supervisor,
         FuzzerServe(s) \/ InspectFails(s)
  PROVE  AttendedInv'
<1> DEFINE t == TargetOf[s]
<1> USE DEF boxes, setup, fuzzerVars
<1>t. t \in Target /\ s # None
  BY SupervisorAssumption, NoneAssumption
<1>o. ASSUME NEW l, Goto(Fuzzer(s), l) \/ TakeStop(Fuzzer(s), l)
      PROVE  /\ \A r \in Supervisor \ {s} : pc'[Fuzzer(r)] = pc[Fuzzer(r)]
             /\ pc'[Fuzzer(s)] = l
             /\ \A r \in Supervisor : ctl'[r] = ctl[r] /\ (Lost(r)' <=> Lost(r))
  BY <1>o, ServiceOfRole DEF TypeInv, SutureTypeOK, Goto, TakeStop, Lost
<1>1. ASSUME UNCHANGED <<buildBox, buildEnd, fuzzerBox, refused>>,
             pc[Fuzzer(s)] \notin Attending,
             NEW l, Goto(Fuzzer(s), l)
      PROVE  AttendedInv'
  BY <1>1, <1>o, OtherStep
<1>2. CASE AssignSoln(Fuzzer(s)) /\ UNCHANGED fuzzerVars
  BY <1>1, <1>2 DEF AssignSoln, At, Attending
<1>3. CASE ReturnSoln(Fuzzer(s), "clean") /\ UNCHANGED fuzzerVars
  BY <1>1, <1>3 DEF ReturnSoln, At, Attending
<1>4. CASE SetupClean(s)
  BY <1>1, <1>4 DEF SetupClean, Step, At, Attending
<1>5. CASE GetTarget(s)
  BY <1>1, <1>5 DEF GetTarget, Step, At, Attending
<1>6. CASE OpenTarget(s)
  BY <1>1, <1>6 DEF OpenTarget, StepIf, Step, At, Attending
<1>7. CASE RemoveWorking(s)
  BY <1>1, <1>7 DEF RemoveWorking, StepIf, Step, At, Attending
<1>8. CASE CheckBackup(s)
  BY <1>1, <1>8 DEF CheckBackup, Step, At, Attending
<1>9. CASE GetBackup(s)
  BY <1>1, <1>9 DEF GetBackup, Step, At, Attending
<1>6f. CASE FillBackup(s)
  BY <1>1, <1>6f DEF FillBackup, StepIf, Step, At, Attending
<1>10. CASE OpenBackup(s) \/ RemoveBackup(s)
  BY <1>1, <1>10 DEF OpenBackup, RemoveBackup, StepIf, Step, At, Attending
<1>10e. CASE ReadEnvironment(s)
  BY <1>1, <1>10e DEF ReadEnvironment, StepIf, Step, At, Attending
<1>r. ASSUME NEW left, Refuse(left), NEW l, Goto(Fuzzer(s), l) \/ TakeStop(Fuzzer(s), l),
             \A x \in Target :
               /\ fuzzerBox'[x] = fuzzerBox[x] \/ fuzzerBox'[x] = None
               /\ \/ buildBox'[x] = None
                  \/ /\ buildBox'[x] = buildBox[x]
                     /\ buildEnd'[x] = "running" => buildEnd[x] = "running",
             \/ pc[Fuzzer(s)] \notin {"state", "watch"} \/ fuzzerBox'[t] # s
             \/ <<t, "fuzzer">> \in left,
             \/ pc[Fuzzer(s)] # "building" \/ buildBox'[t] # s
             \/ <<t, "build">> \in left
      PROVE  AttendedInv'
  BY <1>r, <1>o, RefusedStep
<1>d. pc[Fuzzer(s)] # "down" => ctl[s] # "down"
  BY ServiceOfRole DEF TypeInv, DownIsDown, At
<1>b. /\ buildBox \in [Target -> Supervisor \cup {None}]
      /\ buildEnd \in [Target -> {"running", "built", "failed"}]
      /\ fuzzerBox \in [Target -> Supervisor \cup {None}]
  BY DEF TypeInv, OwnTypeOK
<1>11. CASE KillOldBoxes(s)
  BY <1>11, <1>r, <1>b, <1>t
  DEF At, KillOldBoxes, RemoveBuildBox, RemoveFuzzer, Step
<1>12. CASE CreateBuildBox(s)
  BY <1>12, <1>o, <1>d, <1>t
  DEF CreateBuildBox, Step, TypeInv, OwnTypeOK, AttendedInv, BoxesOfTarget,
      ContainersAttended, At
<1>13. CASE StopBuild(s)
  BY <1>13, <1>r, <1>b, <1>t DEF At, StopBuild, RemoveBuildBox
<1>14. CASE BuildFails(s)
  BY <1>14, <1>o, <1>d, <1>t
  DEF BuildFails, Step, TypeInv, OwnTypeOK, AttendedInv, BoxesOfTarget,
      ContainersAttended, At
<1>15. CASE CommitBuild(s)
  BY <1>15, <1>r, <1>b, <1>t DEF At, CommitBuild, StepIf, Step
<1>16. CASE Deploy(s)
  BY <1>16, <1>o, <1>d, <1>t
  DEF Deploy, Step, TypeInv, OwnTypeOK, AttendedInv, BoxesOfTarget,
      ContainersAttended, At
<1>17. CASE InspectFuzzer(s)
  BY <1>17, <1>o, <1>d, <1>t
  DEF InspectFuzzer, Step, TypeInv, OwnTypeOK, AttendedInv, BoxesOfTarget,
      ContainersAttended, At
<1>18. CASE FuzzerGone(s)
  BY <1>18, <1>o, <1>d, <1>t
  DEF FuzzerGone, Step, TypeInv, OwnTypeOK, AttendedInv, BoxesOfTarget,
      ContainersAttended, At
<1>19. CASE InspectFails(s)
  BY <1>19, <1>r, <1>b, <1>t DEF At, InspectFails, Step
<1>20. CASE KillFuzzer(s)
  BY <1>20, <1>r, <1>b, <1>t DEF At, KillFuzzer, RemoveFuzzer
<1>21. QED
  BY <1>2, <1>3, <1>4, <1>5, <1>6, <1>7, <1>8, <1>9, <1>10, <1>11, <1>12, <1>13,
     <1>14, <1>15, <1>16, <1>17, <1>18, <1>19, <1>20, <1>6f, <1>10e
  DEF FuzzerServe

LEMMA SutureAttends ==
  ASSUME TypeInv, AttendedInv, NEW s \in Supervisor, Suture(s)
  PROVE  AttendedInv'
<1>1. UNCHANGED <<buildBox, buildEnd, fuzzerBox, refused>>
  BY DEF Suture, fuzzerVars, setup, boxes
<1>2. CASE ServeBackground(s)
  <2>1. At(Fuzzer(s), "down")
    BY <1>2, ServiceOfRole DEF ServeBackground, TypeInv, DownIsDown
  <2>2. \A r \in Supervisor \ {s} : pc'[Fuzzer(r)] = pc[Fuzzer(r)]
    BY <1>2, ServiceOfRole DEF ServeBackground, Fuzzer
  <2>3. \A r \in Supervisor : /\ ctl[r] # "down" => ctl'[r] # "down"
                              /\ Lost(r) => Lost(r)'
    BY <1>2 DEF ServeBackground, Lost, TypeInv, SutureTypeOK
  <2>4. QED
    BY <1>1, <2>1, <2>2, <2>3, OtherStep DEF At, Attending
<1>3. CASE StopServices(s) \/ StopReturns(s)
  <2>1. \A r \in Supervisor : /\ ctl[r] # "down" => ctl'[r] # "down"
                              /\ Lost(r) => Lost(r)'
    BY <1>3 DEF StopServices, StopReturns, Lost, TypeInv, SutureTypeOK
  <2>2. QED
    BY <1>1, <1>3, <2>1, OtherStep DEF StopServices, StopReturns
<1>4. ASSUME NEW r \in Role, Restart(<<s, r>>) PROVE AttendedInv'
  <2>1. /\ pc[<<s, r>>] = "ended" /\ ctl' = ctl
        /\ \A v \in Service \ {<<s, r>>} : pc'[v] = pc[v]
    BY <1>4 DEF Restart, Goto, At, TypeInv, SutureTypeOK, Service
  <2>2. QED
    BY <1>1, <2>1, ServiceOfRole, OtherStep DEF Attending, Lost
<1>5. QED
  BY <1>2, <1>3, <1>4 DEF Suture

LEMMA ServiceAttends ==
  ASSUME TypeInv, AttendedInv, NEW s \in Supervisor,
         RunBackup(s) \/ RunCrash(s) \/ RunStats(s) \/ TakeBackup(s) \/ TakeStats(s)
  PROVE  AttendedInv'
<1>1. UNCHANGED <<buildBox, buildEnd, fuzzerBox, refused>>
  BY DEF RunBackup, RunCrash, RunStats, TakeBackup, TakeStats, fuzzerVars, setup,
         boxes
<1>2. /\ ctl' = ctl
      /\ \A r \in Supervisor : pc'[Fuzzer(r)] = pc[Fuzzer(r)]
  BY OtherServe, ServiceOfRole
  DEF StepsOf, RunBackup, RunCrash, RunStats, TakeBackup, TakeStats, suture
<1>3. QED
  BY <1>1, <1>2, OtherStep DEF Lost

LEMMA ContainerAttends ==
  ASSUME TypeInv, AttendedInv, NEW t \in Target,
         RunContainers(t) \/ LoseFuzzer(t) \/ FuzzerFindsCrash(t)
  PROVE  AttendedInv'
<1> USE DEF RunContainers, LoseFuzzer, Containers, fuzzerVars, setup, boxes
<1>1. CASE BuildEnds(t)
  BY <1>1 DEF BuildEnds, baseVars, suture, Lost, AttendedInv, BoxesOfTarget,
              ContainersAttended, At, TypeInv, OwnTypeOK
<1>2. CASE RemoveFuzzerBox(t)
  <2>1. /\ Refuse({}) /\ UNCHANGED <<suture, buildBox, buildEnd>>
        /\ \A x \in Target : fuzzerBox'[x] = fuzzerBox[x] \/ fuzzerBox'[x] = None
    BY <1>2 DEF RemoveFuzzerBox, baseVars, TypeInv, OwnTypeOK
  <2>2. QED
    BY <2>1, RefusedStep DEF suture, Lost
<1>3. CASE WriteSession(t) \/ FuzzerFindsCrash(t)
  BY <1>3, OtherStep DEF WriteSession, FuzzerFindsCrash, FindCrash, suture, Lost
<1>4. QED
  BY <1>1, <1>2, <1>3 DEF ResumeFails, FuzzerExits

LEMMA DaemonAttends ==
  ASSUME TypeInv, AttendedInv, CrashDaemon
  PROVE  AttendedInv'
<1> USE DEF CrashDaemon, RestartDaemon, LoseSetup, boxes
<1>1. UNCHANGED <<buildBox, buildEnd, fuzzerBox>>
  OBVIOUS
<1>2. \A r \in Supervisor : ctl[r] # "down" => ctl'[r] # "down" /\ Lost(r)'
  BY DEF Lost
<1>3. QED
  BY <1>1, <1>2 DEF AttendedInv, BoxesOfTarget, ContainersAttended, TypeInv,
                    OwnTypeOK

LEMMA AttendedKept == TypeInv /\ AttendedInv /\ [Next]_vars => AttendedInv'
<1> SUFFICES ASSUME TypeInv, AttendedInv, [Next]_vars PROVE AttendedInv'
  OBVIOUS
<1>1. CASE UNCHANGED vars
  BY <1>1, OtherStep DEF vars, baseVars, suture, fuzzerVars, setup, boxes, Lost
<1>2. CASE Next
  BY <1>2, FuzzerAttends, SutureAttends, ServiceAttends, ContainerAttends,
     DaemonAttends
  DEF Next, RunFuzzer, LoseSight
<1>3. QED
  BY <1>1, <1>2

LEMMA AttendedAlways == Spec => []AttendedInv
<1>1. Init => AttendedInv
  BY InitTypeOK DEF Init, FuzzerInit, BoxesOfTarget, AttendedInv
<1>2. QED
  BY <1>1, AttendedKept, InitTypes, NextTypes, PTL DEF Spec

\* No container is left without the Serve that made it, whatever supervisors overlap
\* on a target, wherever a stop finds them and whatever fails, unless it was docker
\* that failed Serve about that very container, or the daemon has ended.
THEOREM Attended == Spec => []ContainersAttended
<1>1. AttendedInv => ContainersAttended
  BY DEF AttendedInv
<1>2. QED
  BY <1>1, AttendedAlways, PTL
=============================================================================
