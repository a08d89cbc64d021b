------------------------ MODULE TargetRestartProofs ------------------------
(***************************************************************************)
(* More theorems about TargetFuzzer, for every set of targets and          *)
(* supervisors, whichever services run, whatever fails and however often   *)
(* the daemon ends: a service that has stopped stays stopped, no fuzzer    *)
(* runs beside one of an earlier daemon, supervisors have ports of their   *)
(* own and report the figures of their own fuzzer, over the right time.    *)
(***************************************************************************)
EXTENDS TargetFuzzerProofs

\* Every step moves one service, or starts, stops or ends a supervisor.
SutureStep ==
  \/ UNCHANGED suture
  \/ \E v \in Service : StepsOf(v)
  \/ \E s \in Supervisor : Suture(s)
  \/ CrashDaemon

LEMMA NextSteps == TypeInv /\ [Next]_vars => SutureStep
<1> SUFFICES ASSUME TypeInv, [Next]_vars PROVE SutureStep
  OBVIOUS
<1>1. CASE UNCHANGED vars
  BY <1>1 DEF SutureStep, vars, baseVars
<1>2. ASSUME NEW s \in Supervisor, RunFuzzer(s) \/ LoseSight(s) PROVE SutureStep
  BY <1>2, FuzzerSteps, ServiceOfRole DEF SutureStep, RunFuzzer, LoseSight
<1>3. ASSUME NEW s \in Supervisor,
             \/ RunBackup(s) \/ RunCrash(s) \/ RunStats(s)
             \/ TakeBackup(s) \/ TakeStats(s)
      PROVE  SutureStep
  BY <1>3, OtherServe, ServiceOfRole
  DEF SutureStep, RunBackup, RunCrash, RunStats, TakeBackup, TakeStats
<1>4. ASSUME NEW t \in Target,
             RunContainers(t) \/ LoseFuzzer(t) \/ FuzzerFindsCrash(t)
      PROVE  SutureStep
  BY <1>4 DEF SutureStep, RunContainers, LoseFuzzer, Containers, BuildEnds,
              WriteSession, ResumeFails, FuzzerExits, RemoveFuzzerBox,
              FuzzerFindsCrash, FindCrash, baseVars
<1>5. QED
  BY <1>1, <1>2, <1>3, <1>4 DEF Next, SutureStep

\* A service that has taken its stop request never runs again.
LEMMA StopsKept == TypeInv /\ StoppedForGood /\ SutureStep => StoppedForGood'
<1> SUFFICES ASSUME TypeInv, StoppedForGood, SutureStep,
                    NEW s \in Supervisor, NEW r \in Roles,
                    ctl'[s] \in {"stopping", "stopped"}, ~stop'[<<s, r>>]
             PROVE  pc'[<<s, r>>] = "ended"
  BY DEF StoppedForGood, At
<1> DEFINE u == <<s, r>>
<1>u. u \in Service
  BY SupervisorAssumption DEF Service
<1>h. ctl[s] \in {"stopping", "stopped"} /\ ~stop[u] => pc[u] = "ended"
  BY DEF StoppedForGood, At
<1>1. CASE UNCHANGED suture
  BY <1>1, <1>h DEF suture
<1>2. ASSUME NEW v \in Service, StepsOf(v) PROVE pc'[u] = "ended"
  BY <1>2, <1>h, <1>u DEF StepsOf
<1>3. ASSUME NEW q \in Supervisor, Suture(q) PROVE pc'[u] = "ended"
  <2>1. CASE ServeBackground(q)
    BY <2>1, <1>h, <1>u DEF ServeBackground, TypeInv, SutureTypeOK
  <2>2. CASE StopServices(q)
    BY <2>2, <1>h, <1>u DEF StopServices, TypeInv, SutureTypeOK
  <2>3. CASE StopReturns(q)
    BY <2>3, <1>h DEF StopReturns, TypeInv, SutureTypeOK
  <2>4. ASSUME NEW x \in Role, Restart(<<q, x>>) PROVE pc'[u] = "ended"
    <3>1. ctl' = ctl /\ stop' = stop /\ ctl[q] = "up"
      BY <2>4 DEF Restart, Goto
    <3>2. u # <<q, x>>
      BY <3>1
    <3>3. QED
      BY <2>4, <3>1, <3>2, <1>h, <1>u DEF Restart, Goto, TypeInv, SutureTypeOK
  <2>5. QED
    BY <1>3, <2>1, <2>2, <2>3, <2>4 DEF Suture
<1>4. CASE CrashDaemon
  BY <1>4 DEF CrashDaemon, RestartDaemon
<1>5. QED
  BY <1>1, <1>2, <1>3, <1>4 DEF SutureStep

\* Whatever a service is doing when it is to stop, once it has taken the request
\* suture does not bring it back.
THEOREM Stopped == Spec => []StoppedForGood
<1>1. Init => StoppedForGood
  BY DEF Init, ServicesInit, StoppedForGood
<1>2. TypeInv /\ StoppedForGood /\ [Next]_vars => StoppedForGood'
  BY StopsKept, NextSteps
<1>3. QED
  BY <1>1, <1>2, TypesAlways, PTL DEF Spec

\* Nothing of a supervisor runs any more once its fuzzer service has taken the stop,
\* but what docker has failed to show or to end.
NothingLeftRunning ==
  \A s \in Supervisor, t \in Target :
    /\ "fuzzer" \in Roles
    /\ ctl[s] \in {"stopping", "stopped"}
    /\ ~stop[Fuzzer(s)]
    => /\ fuzzerBox[t] = s => <<t, "fuzzer">> \in refused
       /\ buildBox[t] = s /\ buildEnd[t] = "running" => <<t, "build">> \in refused

\* From the moment the fuzzer service takes its stop request, neither its fuzzer nor
\* its build is running, and none is ever started again, wherever in Serve the stop
\* has found it, unless docker failed Serve about that very container: a failed Kill
\* is only logged (c_fuzzer_service.go:106-143, docker.go:266-288).
THEOREM StopClearsContainers == Spec => []NothingLeftRunning
<1>1. StoppedForGood /\ ContainersAttended => NothingLeftRunning
  <2> SUFFICES ASSUME StoppedForGood, ContainersAttended,
                      NEW s \in Supervisor, NEW t \in Target,
                      "fuzzer" \in Roles, ctl[s] \in {"stopping", "stopped"},
                      ~stop[Fuzzer(s)]
               PROVE  /\ fuzzerBox[t] = s => <<t, "fuzzer">> \in refused
                      /\ buildBox[t] = s /\ buildEnd[t] = "running"
                           => <<t, "build">> \in refused
    BY DEF NothingLeftRunning
  <2>1. pc[Fuzzer(s)] = "ended" /\ ~Lost(s)
    BY DEF StoppedForGood, At, Fuzzer, Lost
  <2>2. s # None
    BY NoneAssumption
  <2>3. QED
    BY <2>1, <2>2 DEF ContainersAttended, At
<1>2. QED
  BY <1>1, Stopped, Attended, PTL

-----------------------------------------------------------------------------
(* Orphans. *)

\* Where Serve is once it has killed the old containers.
Owning == {"create", "building", "deploy", "state", "watch"}

\* A service at work is that of a supervisor of this daemon.
LEMMA WorksForLive ==
  ASSUME TypeInv, NEW v \in Service, pc[v] # "down"
  PROVE  ctl[v[1]] \in {"up", "stopping", "stopped"}
  BY DEF TypeInv, SutureTypeOK, DownIsDown, At, Service

\* What OrphansRemoved says of one supervisor.
OrphanFree(s) ==
  LET t == TargetOf[s]
  IN /\ fuzzerBox[t] # None /\ Lost(fuzzerBox[t]) =>
          /\ pc[Fuzzer(s)] \notin {"state", "watch"}
          /\ pc[Fuzzer(s)] \in {"create", "building", "deploy"}
               => <<t, "old">> \in refused
     /\ buildBox[t] # None /\ Lost(buildBox[t]) =>
          /\ pc[Fuzzer(s)] \notin {"building", "deploy", "state", "watch"}
          /\ At(Fuzzer(s), "create") => <<t, "old">> \in refused

LEMMA OrphansOfEach == OrphansRemoved <=> \A s \in Supervisor : OrphanFree(s)
  BY SupervisorAssumption DEF OrphansRemoved, OrphanFree

\* Steps that make no container but for live supervisors, and leave on record what
\* docker refused: nothing changes for a Serve that does not get further.
BoxesGo ==
  /\ \A r \in Supervisor : Lost(r)' => Lost(r)
  /\ \A t \in Target :
       /\ \/ buildBox'[t] = buildBox[t] \/ buildBox'[t] = None
          \/ ~Lost(buildBox[t])'
       /\ \/ fuzzerBox'[t] = fuzzerBox[t] \/ fuzzerBox'[t] = None
          \/ ~Lost(fuzzerBox[t])'
       /\ <<t, "old">> \in refused /\ (buildBox'[t] # None \/ fuzzerBox'[t] # None)
            => <<t, "old">> \in refused'

LEMMA OrphanStep ==
  ASSUME TypeInv, NEW r \in Supervisor, OrphanFree(r), BoxesGo,
         \/ pc'[Fuzzer(r)] = pc[Fuzzer(r)]
         \/ pc'[Fuzzer(r)] \notin Owning
  PROVE  OrphanFree(r)'
<1> DEFINE t == TargetOf[r]
<1>t. /\ t \in Target
      /\ buildBox[t] \in Supervisor \cup {None}
      /\ fuzzerBox[t] \in Supervisor \cup {None}
  BY SupervisorAssumption DEF TypeInv, OwnTypeOK
<1>1. fuzzerBox'[t] # None /\ Lost(fuzzerBox[t])'
        => fuzzerBox[t] # None /\ Lost(fuzzerBox[t])
  BY <1>t DEF BoxesGo, Lost
<1>2. buildBox'[t] # None /\ Lost(buildBox[t])'
        => buildBox[t] # None /\ Lost(buildBox[t])
  BY <1>t DEF BoxesGo, Lost
<1>3. <<t, "old">> \in refused /\ (buildBox'[t] # None \/ fuzzerBox'[t] # None)
        => <<t, "old">> \in refused'
  BY <1>t DEF BoxesGo
<1>4. QED
  BY <1>1, <1>2, <1>3 DEF OrphanFree, Owning, At

LEMMA FuzzerOrphans ==
  ASSUME TypeInv, OrphansRemoved, NEW s \in Supervisor,
         FuzzerServe(s) \/ InspectFails(s)
  PROVE  OrphansRemoved'
<1> DEFINE t == TargetOf[s]
<1> USE DEF boxes, setup, fuzzerVars
<1>t. t \in Target /\ s # None
  BY SupervisorAssumption, NoneAssumption
<1>b. /\ buildBox \in [Target -> Supervisor \cup {None}]
      /\ fuzzerBox \in [Target -> Supervisor \cup {None}]
  BY DEF TypeInv, OwnTypeOK
<1>s. /\ ctl' = ctl
      /\ \A r \in Supervisor \ {s} : pc'[Fuzzer(r)] = pc[Fuzzer(r)]
      /\ ~Lost(s)
  BY FuzzerSteps, ServiceOfRole, WorksForLive DEF StepsOf, Lost
<1>o. ASSUME NEW l, Goto(Fuzzer(s), l) \/ TakeStop(Fuzzer(s), l)
      PROVE  pc'[Fuzzer(s)] = l
  BY <1>o, ServiceOfRole DEF TypeInv, SutureTypeOK, Goto, TakeStop
<1>f. \A r \in Supervisor : OrphanFree(r)
  BY OrphansOfEach
<1>1. ASSUME BoxesGo, OrphanFree(s)' PROVE OrphansRemoved'
  <2>1. \A r \in Supervisor \ {s} : OrphanFree(r)'
    BY <1>1, <1>f, <1>s, OrphanStep
  <2>2. (\A r \in Supervisor : OrphanFree(r)') => OrphansRemoved'
    BY SupervisorAssumption DEF OrphansRemoved, OrphanFree
  <2>3. QED
    BY <1>1, <2>1, <2>2
<1>2. ASSUME BoxesGo, NEW l, Goto(Fuzzer(s), l) \/ TakeStop(Fuzzer(s), l), l \notin Owning
      PROVE  OrphansRemoved'
  BY <1>1, <1>2, <1>o, <1>f, OrphanStep
<1>3. UNCHANGED <<buildBox, fuzzerBox, refused>> => BoxesGo
  BY <1>s DEF BoxesGo, Lost
<1>4. ASSUME NEW left, Refuse(left),
             \A x \in Target : /\ buildBox'[x] \in {buildBox[x], None}
                               /\ fuzzerBox'[x] \in {fuzzerBox[x], None}
      PROVE  BoxesGo
  BY <1>4, <1>s, Refusing DEF BoxesGo, Lost
<1> USE DEF Step, StepIf, At, Owning
<1>5. CASE AssignSoln(Fuzzer(s)) /\ UNCHANGED fuzzerVars
  BY <1>2, <1>3, <1>5 DEF AssignSoln
<1>6. CASE ReturnSoln(Fuzzer(s), "clean") /\ UNCHANGED fuzzerVars
  BY <1>2, <1>3, <1>6 DEF ReturnSoln
<1>7. CASE SetupClean(s) \/ GetTarget(s)
  BY <1>2, <1>3, <1>7 DEF SetupClean, GetTarget
<1>8. CASE OpenTarget(s) \/ RemoveWorking(s)
  BY <1>2, <1>3, <1>8 DEF OpenTarget, RemoveWorking
<1>9. CASE CheckBackup(s)
  BY <1>2, <1>3, <1>9 DEF CheckBackup
<1>10. CASE GetBackup(s) \/ FillBackup(s)
  BY <1>2, <1>3, <1>10 DEF GetBackup, FillBackup
<1>11. CASE OpenBackup(s) \/ RemoveBackup(s) \/ ReadEnvironment(s)
  BY <1>2, <1>3, <1>11 DEF OpenBackup, RemoveBackup, ReadEnvironment
<1>12. CASE KillOldBoxes(s)
  <2>1. BoxesGo
    BY <1>4, <1>12, <1>b DEF KillOldBoxes, RemoveBuildBox, RemoveFuzzer
  <2>2. /\ pc'[Fuzzer(s)] = "create"
        /\ buildBox'[t] # None \/ fuzzerBox'[t] # None => <<t, "old">> \in refused'
    BY <1>12, <1>o, Refusing DEF KillOldBoxes
  <2>3. OrphanFree(s)'
    BY <2>2 DEF OrphanFree
  <2>4. QED
    BY <1>1, <2>1, <2>3
<1>13. CASE CreateBuildBox(s)
  <2>1. /\ pc[Fuzzer(s)] = "create" /\ UNCHANGED <<fuzzerBox, refused>>
        /\ \A x \in Target : buildBox'[x] = buildBox[x] \/ buildBox'[x] = s
        /\ \/ pc'[Fuzzer(s)] = "ended"
           \/ pc'[Fuzzer(s)] = "building" /\ buildBox'[t] = s
    BY <1>13, <1>o, <1>b, <1>t DEF CreateBuildBox
  <2>2. BoxesGo
    BY <2>1, <1>s DEF BoxesGo, Lost
  <2>3. OrphanFree(s)'
    BY <2>1, <1>f, <1>s, <1>b, <1>t DEF OrphanFree, Lost
  <2>4. QED
    BY <1>1, <2>2, <2>3
<1>14. CASE StopBuild(s)
  <2>1. BoxesGo
    BY <1>4, <1>14, <1>b DEF StopBuild, RemoveBuildBox
  <2>2. QED
    BY <1>2, <1>14, <2>1 DEF StopBuild
<1>15. CASE BuildFails(s) \/ FuzzerGone(s)
  BY <1>2, <1>3, <1>15 DEF BuildFails, FuzzerGone
<1>16. CASE CommitBuild(s)
  <2>1. BoxesGo
    BY <1>4, <1>16, <1>b DEF CommitBuild
  <2>2. /\ pc[Fuzzer(s)] = "building" /\ fuzzerBox' = fuzzerBox
        /\ \/ pc'[Fuzzer(s)] = "ended"
           \/ pc'[Fuzzer(s)] = "deploy" /\ buildBox'[t] = None
    BY <1>16, <1>o, <1>b, <1>t DEF CommitBuild
  <2>3. fuzzerBox[t] # None /\ <<t, "old">> \in refused => <<t, "old">> \in refused'
    BY <2>1, <2>2, <1>t DEF BoxesGo
  <2>4. OrphanFree(s)'
    BY <2>2, <2>3, <1>f, <1>s, <1>b, <1>t DEF OrphanFree, Lost
  <2>5. QED
    BY <1>1, <2>1, <2>4
<1>17. CASE Deploy(s)
  <2>1. /\ pc[Fuzzer(s)] = "deploy" /\ UNCHANGED <<buildBox, refused>>
        /\ \A x \in Target : fuzzerBox'[x] = fuzzerBox[x] \/ fuzzerBox'[x] = s
        /\ \/ pc'[Fuzzer(s)] = "ended"
           \/ pc'[Fuzzer(s)] = "state" /\ fuzzerBox'[t] = s
    BY <1>17, <1>o, <1>b, <1>t DEF Deploy
  <2>2. BoxesGo
    BY <2>1, <1>s DEF BoxesGo, Lost
  <2>3. OrphanFree(s)'
    BY <2>1, <1>f, <1>s, <1>b, <1>t DEF OrphanFree, Lost
  <2>4. QED
    BY <1>1, <2>2, <2>3
<1>18. CASE InspectFuzzer(s)
  <2>1. /\ pc[Fuzzer(s)] = "state" /\ pc'[Fuzzer(s)] = "watch"
        /\ UNCHANGED <<buildBox, fuzzerBox, refused>>
    BY <1>18, <1>o DEF InspectFuzzer
  <2>2. OrphanFree(s)'
    BY <2>1, <1>f, <1>s DEF OrphanFree, Lost
  <2>3. QED
    BY <1>1, <1>3, <2>1, <2>2
<1>19. CASE InspectFails(s)
  <2>1. BoxesGo
    BY <1>4, <1>19 DEF InspectFails
  <2>2. QED
    BY <1>2, <1>19, <2>1 DEF InspectFails
<1>20. CASE KillFuzzer(s)
  <2>1. BoxesGo
    BY <1>4, <1>20, <1>b DEF KillFuzzer, RemoveFuzzer
  <2>2. QED
    BY <1>2, <1>20, <2>1 DEF KillFuzzer
<1>21. QED
  BY <1>5, <1>6, <1>7, <1>8, <1>9, <1>10, <1>11, <1>12, <1>13, <1>14, <1>15, <1>16,
     <1>17, <1>18, <1>19, <1>20 DEF FuzzerServe

\* Nobody but Serve of the fuzzer makes containers, and only the end of the daemon
\* loses them.
LEMMA OrphansKept == TypeInv /\ OrphansRemoved /\ [Next]_vars => OrphansRemoved'
<1> SUFFICES ASSUME TypeInv, OrphansRemoved, [Next]_vars PROVE OrphansRemoved'
  OBVIOUS
<1>b. /\ buildBox \in [Target -> Supervisor \cup {None}]
      /\ fuzzerBox \in [Target -> Supervisor \cup {None}]
  BY DEF TypeInv, OwnTypeOK
<1>1. ASSUME BoxesGo,
             \A r \in Supervisor : \/ pc'[Fuzzer(r)] = pc[Fuzzer(r)]
                                   \/ pc'[Fuzzer(r)] \notin Owning
      PROVE  OrphansRemoved'
  <2>1. \A r \in Supervisor : OrphanFree(r)'
    BY <1>1, OrphansOfEach, OrphanStep
  <2>2. QED
    BY <2>1, SupervisorAssumption DEF OrphansRemoved, OrphanFree
<1>g. UNCHANGED <<buildBox, fuzzerBox, refused>>
      /\ (\A r \in Supervisor : Lost(r)' => Lost(r)) => BoxesGo
  BY DEF BoxesGo, Lost
<1>2. CASE UNCHANGED vars
  BY <1>1, <1>2, <1>g DEF vars, baseVars, suture, fuzzerVars, boxes, Lost
<1>3. ASSUME NEW s \in Supervisor, Suture(s) PROVE OrphansRemoved'
  <2>a. \A v \in Service : pc'[v] = pc[v] \/ pc'[v] = "init"
    BY <1>3
    DEF Suture, ServeBackground, StopServices, StopReturns, Restart, Goto,
        TypeInv, SutureTypeOK
  <2>1. \A r \in Supervisor : \/ pc'[Fuzzer(r)] = pc[Fuzzer(r)]
                              \/ pc'[Fuzzer(r)] \notin Owning
    BY <2>a, ServiceOfRole DEF Owning
  <2>2. \A r \in Supervisor : Lost(r)' => Lost(r)
    BY <1>3 DEF Suture, ServeBackground, StopServices, StopReturns, Restart, Goto,
                Lost, TypeInv, SutureTypeOK
  <2>3. UNCHANGED <<buildBox, fuzzerBox, refused>>
    BY <1>3 DEF Suture, fuzzerVars, boxes
  <2>4. QED
    BY <1>1, <1>g, <2>1, <2>2, <2>3
<1>4. ASSUME NEW s \in Supervisor, RunFuzzer(s) \/ LoseSight(s) PROVE OrphansRemoved'
  BY <1>4, FuzzerOrphans DEF RunFuzzer, LoseSight
<1>5. ASSUME NEW s \in Supervisor,
             \/ RunBackup(s) \/ RunCrash(s) \/ RunStats(s)
             \/ TakeBackup(s) \/ TakeStats(s)
      PROVE  OrphansRemoved'
  <2>1. /\ ctl' = ctl
        /\ \A r \in Supervisor : pc'[Fuzzer(r)] = pc[Fuzzer(r)]
    BY <1>5, OtherServe, ServiceOfRole
    DEF StepsOf, RunBackup, RunCrash, RunStats, TakeBackup, TakeStats, suture
  <2>2. UNCHANGED <<buildBox, fuzzerBox, refused>>
    BY <1>5 DEF RunBackup, RunCrash, RunStats, TakeBackup, TakeStats, fuzzerVars,
                boxes
  <2>3. QED
    BY <1>1, <1>g, <2>1, <2>2 DEF Lost
<1>6. ASSUME NEW t \in Target,
             RunContainers(t) \/ LoseFuzzer(t) \/ FuzzerFindsCrash(t)
      PROVE  OrphansRemoved'
  <2>1. UNCHANGED suture
    BY <1>6 DEF RunContainers, LoseFuzzer, Containers, BuildEnds, WriteSession,
                ResumeFails, FuzzerExits, RemoveFuzzerBox, FuzzerFindsCrash,
                FindCrash, baseVars
  <2>2. \/ UNCHANGED <<buildBox, fuzzerBox, refused>>
        \/ RemoveFuzzerBox(t)
    BY <1>6 DEF RunContainers, LoseFuzzer, Containers, BuildEnds, WriteSession,
                ResumeFails, FuzzerExits, FuzzerFindsCrash, FindCrash, fuzzerVars,
                boxes
  <2>3. BoxesGo
    <3>1. CASE RemoveFuzzerBox(t)
      BY <1>b, <2>1, <3>1, Refusing DEF RemoveFuzzerBox, BoxesGo, suture, Lost
    <3>2. QED
      BY <1>g, <2>1, <2>2, <3>1 DEF suture, Lost
  <2>4. QED
    BY <1>1, <2>1, <2>3 DEF suture
<1>7. CASE CrashDaemon
  BY <1>7, ServiceOfRole DEF CrashDaemon, RestartDaemon, OrphansRemoved, At
<1>8. QED
  BY <1>2, <1>3, <1>4, <1>5, <1>6, <1>7 DEF Next

\* However often the daemon ends, and however its services overlap afterwards, a
\* target is not built beside a container that an earlier daemon has left, unless
\* docker refused to remove it; and then no fuzzer is started beside it.
THEOREM NoOrphans == Spec => []OrphansRemoved
<1>1. Init => OrphansRemoved
  BY SupervisorAssumption DEF Init, FuzzerInit, OrphansRemoved
<1>2. QED
  BY <1>1, OrphansKept, TypesAlways, PTL DEF Spec

-----------------------------------------------------------------------------
(* Ports. *)

\* Every port that a supervisor of this daemon has is taken.
PortInv ==
  /\ PortsDistinct
  /\ \A s \in Supervisor :
       /\ ctl[s] = "down" => port[s] = NoPort
       /\ Live(s) /\ s \in AFL => port[s] = NoPort
       /\ Live(s) /\ s \notin AFL => port[s] \in taken

LEMMA LiveStep ==
  ASSUME TypeInv, SutureStep, NEW s \in Supervisor
  PROVE  /\ Lost(s) => Lost(s)'
         /\ ctl'[s] = "down" => ctl[s] = "down"
         /\ Live(s)' => Live(s) \/ ServeBackground(s)
<1> USE DEF Lost, Live, TypeInv, SutureTypeOK
<1>1. CASE UNCHANGED suture
  BY <1>1 DEF suture
<1>2. ASSUME NEW v \in Service, StepsOf(v)
      PROVE  ctl' = ctl
  BY <1>2 DEF StepsOf
<1>3. ASSUME NEW r \in Supervisor, Suture(r)
      PROVE  /\ Lost(s) => Lost(s)'
             /\ ctl'[s] = "down" => ctl[s] = "down"
             /\ Live(s)' => Live(s) \/ ServeBackground(s)
  BY <1>3 DEF Suture, ServeBackground, StopServices, StopReturns, Restart, Goto
<1>4. CASE CrashDaemon
  BY <1>4 DEF CrashDaemon, RestartDaemon
<1>5. QED
  BY <1>1, <1>2, <1>3, <1>4 DEF SutureStep

\* Only NewGoFuzzer and the end of the daemon change ports.
LEMMA PortsFrame ==
  ASSUME [Next]_vars
  PROVE  UNCHANGED ports \/ CrashDaemon \/ \E s \in Supervisor : ServeBackground(s)
<1> USE DEF held
<1>1. CASE UNCHANGED vars
  BY <1>1 DEF vars, baseVars
<1>2. ASSUME NEW s \in Supervisor, Suture(s), ~ServeBackground(s)
      PROVE  UNCHANGED ports
  BY <1>2 DEF Suture, StopServices, StopReturns, Restart
<1>3. ASSUME NEW s \in Supervisor, RunFuzzer(s) \/ LoseSight(s) PROVE UNCHANGED ports
  BY <1>3 DEF RunFuzzer, LoseSight, FuzzerServe, AssignSoln, ReturnSoln, SetupClean, GetTarget,
     OpenTarget, RemoveWorking, CheckBackup, GetBackup, FillBackup, OpenBackup,
     RemoveBackup, ReadEnvironment, KillOldBoxes, CreateBuildBox, StopBuild, BuildFails,
     CommitBuild, Deploy, InspectFuzzer, FuzzerGone, InspectFails, KillFuzzer
<1>4. ASSUME NEW s \in Supervisor, RunBackup(s) \/ TakeBackup(s) PROVE UNCHANGED ports
  BY <1>4 DEF RunBackup, TakeBackup, BackupServe, AssignSoln, ReturnSoln, MakeZip,
     FillZip, ReadZip, WriteBackup, StopBackup
<1>5. ASSUME NEW s \in Supervisor, RunCrash(s) PROVE UNCHANGED ports
  BY <1>5 DEF RunCrash, CrashServe, AssignSoln, ReturnSoln, FindDirectories, WatchCrashes,
     SaveCrash, StopCrash
<1>6. ASSUME NEW s \in Supervisor, RunStats(s) \/ TakeStats(s) PROVE UNCHANGED ports
  BY <1>6 DEF RunStats, TakeStats, StatsServe, StatsTick, StartStats, ReceiveEvent,
     SendStat, StopStats, ReadStats, Notify
<1>7. ASSUME NEW t \in Target,
             RunContainers(t) \/ LoseFuzzer(t) \/ FuzzerFindsCrash(t)
      PROVE  UNCHANGED ports
  BY <1>7 DEF RunContainers, LoseFuzzer, Containers, BuildEnds, WriteSession,
     ResumeFails, FuzzerExits, RemoveFuzzerBox, FuzzerFindsCrash, FindCrash, baseVars
<1>8. QED
  BY <1>1, <1>2, <1>3, <1>4, <1>5, <1>6, <1>7 DEF Next

LEMMA PortsKept == TypeInv /\ PortInv /\ [Next]_vars => PortInv'
<1> SUFFICES ASSUME TypeInv, PortInv, [Next]_vars PROVE PortInv'
  OBVIOUS
<1>s. SutureStep
  BY NextSteps
<1>n. NoPort \notin taken
  BY PortAssumption DEF TypeInv, FilesTypeOK
<1>1. CASE CrashDaemon
  BY <1>1 DEF CrashDaemon, RestartDaemon, PortInv, PortsDistinct, Live, TypeInv,
              SutureTypeOK
<1>2. ASSUME NEW s \in Supervisor, ServeBackground(s) PROVE PortInv'
  <2>1. /\ ctl' = [ctl EXCEPT ![s] = "up"] /\ ctl[s] = "down" /\ port[s] = NoPort
        /\ ctl \in [Supervisor -> {"down", "up", "stopping", "stopped", "lost"}]
        /\ port \in [Supervisor -> HostPort \cup {NoPort}]
    BY <1>2 DEF ServeBackground, PortInv, TypeInv, SutureTypeOK, FilesTypeOK
  <2>2. CASE s \in AFL
    <3>1. UNCHANGED ports
      BY <1>2, <2>2 DEF ServeBackground
    <3>2. QED
      BY <2>1, <2>2, <3>1 DEF PortInv, PortsDistinct, Live, ports
  <2>3. CASE s \notin AFL
    <3>1. PICK p \in HostPort : /\ p \notin taken /\ taken' = taken \cup {p}
                               /\ port' = [port EXCEPT ![s] = p]
      BY <1>2, <2>3 DEF ServeBackground, TakePort
    <3>2. ASSUME NEW r \in Supervisor, r # s
          PROVE  /\ port'[r] = port[r] /\ ctl'[r] = ctl[r]
                 /\ Live(r)' <=> Live(r)
                 /\ Live(r) => port[r] = NoPort \/ port[r] # p
      <4>1. port'[r] = port[r] /\ ctl'[r] = ctl[r]
        BY <2>1, <3>1, <3>2
      <4>2. Live(r)' <=> Live(r)
        BY <4>1 DEF Live
      <4>3. Live(r) => port[r] = NoPort \/ port[r] # p
        BY <3>1 DEF PortInv
      <4>4. QED
        BY <4>1, <4>2, <4>3
    <3>3. /\ port'[s] = p /\ ctl'[s] = "up" /\ p # NoPort
          /\ p \in taken' /\ \A q \in taken : q \in taken'
      BY <2>1, <3>1, PortAssumption
    <3>4. PortsDistinct'
      <4> SUFFICES ASSUME NEW x \in Supervisor, NEW y \in Supervisor, x # y,
                          Live(x)', Live(y)'
                   PROVE  port'[x] = NoPort \/ port'[x] # port'[y]
        BY DEF PortsDistinct
      <4>1. CASE x = s
        BY <4>1, <3>2, <3>3
      <4>2. CASE y = s
        BY <4>2, <3>2, <3>3
      <4>3. CASE x # s /\ y # s
        BY <4>3, <3>2 DEF PortInv, PortsDistinct
      <4>4. QED
        BY <4>1, <4>2, <4>3
    <3>5. ASSUME NEW r \in Supervisor
          PROVE  /\ ctl'[r] = "down" => port'[r] = NoPort
                 /\ Live(r)' /\ r \in AFL => port'[r] = NoPort
                 /\ Live(r)' /\ r \notin AFL => port'[r] \in taken'
      <4>1. CASE r = s
        BY <4>1, <2>3, <3>3
      <4>2. CASE r # s
        BY <4>2, <3>2, <3>3 DEF PortInv
      <4>3. QED
        BY <4>1, <4>2
    <3>6. QED
      BY <3>4, <3>5 DEF PortInv
  <2>4. QED
    BY <2>2, <2>3
<1>3. CASE UNCHANGED ports /\ \A s \in Supervisor : ~ServeBackground(s)
  <2>1. \A s \in Supervisor : /\ Lost(s) => Lost(s)'
                              /\ ctl'[s] = "down" => ctl[s] = "down"
                              /\ Live(s)' => Live(s)
    BY <1>3, <1>s, LiveStep
  <2>2. PortsDistinct'
    BY <1>3, <2>1 DEF PortInv, PortsDistinct, ports
  <2>3. QED
    BY <1>3, <2>1, <2>2 DEF PortInv, ports
<1>4. QED
  BY <1>1, <1>2, <1>3, PortsFrame

LEMMA PortsAlways == Spec => []PortInv
<1>1. Init => PortInv
  BY DEF Init, ServicesInit, PortInv, PortsDistinct, Live
<1>2. QED
  BY <1>1, PortsKept, TypesAlways, PTL DEF Spec

\* No two supervisors of a daemon ever have the same port.
THEOREM DistinctPorts == Spec => []PortsDistinct
<1>1. PortInv => PortsDistinct
  BY DEF PortInv
<1>2. QED
  BY <1>1, PortsAlways, PTL

-----------------------------------------------------------------------------
(* Statistics. *)

\* Figures are only replaced by those of a Notify.
LEMMA StatFrame ==
  ASSUME TypeInv, [Next]_vars, NEW s \in Supervisor
  PROVE  stat'[s] \in {stat[s], None} \/ Notify(s)
<1>t. stat \in [Supervisor -> Supervisor \cup {None}]
  BY DEF TypeInv, OwnTypeOK
<1>1. CASE UNCHANGED stat
  BY <1>1
<1>2. CASE UNCHANGED vars
  BY <1>2 DEF vars, serviceVars
<1>3. ASSUME NEW r \in Supervisor, RunStats(r) \/ TakeStats(r)
      PROVE  stat'[s] \in {stat[s], None} \/ Notify(s)
  <2>1. CASE Notify(r)
    BY <1>t, <2>1 DEF Notify
  <2>2. CASE ~Notify(r)
    BY <1>t, <1>3, <2>2 DEF RunStats, TakeStats, StatsServe, StatsTick,
       StartStats, ReceiveEvent, SendStat, StopStats, ReadStats
  <2>3. QED
    BY <2>1, <2>2
<1>4. ASSUME NEW r \in Supervisor,
             \/ Suture(r) \/ RunFuzzer(r) \/ LoseSight(r) \/ RunBackup(r)
             \/ RunCrash(r) \/ TakeBackup(r)
      PROVE  UNCHANGED stat
  BY <1>4 DEF Suture, RunFuzzer, LoseSight, RunBackup, RunCrash, TakeBackup, serviceVars
<1>5. ASSUME NEW t \in Target,
             RunContainers(t) \/ LoseFuzzer(t) \/ FuzzerFindsCrash(t)
      PROVE  UNCHANGED stat
  BY <1>5 DEF RunContainers, LoseFuzzer, FuzzerFindsCrash, serviceVars
<1>6. CASE CrashDaemon
  BY <1>6 DEF CrashDaemon
<1>7. QED
  BY <1>1, <1>2, <1>3, <1>4, <1>5, <1>6 DEF Next

\* What listens on the port of a supervisor at work is its own, or was left there.
LEMMA NotifyOwn ==
  ASSUME TypeInv, PortInv, AttendedInv, NEW s \in Supervisor, Notify(s)
  PROVE  stat'[s] = s \/ (stat'[s] \in Supervisor /\ Lost(stat'[s]))
<1>1. PICK t \in Target : /\ fuzzerBox[t] # None
                         /\ port[fuzzerBox[t]] = port[s]
                         /\ stat'[s] = fuzzerBox[t]
  BY DEF Notify, TypeInv, OwnTypeOK
<1> DEFINE b == fuzzerBox[t]
<1>2. b \in Supervisor /\ ctl[b] # "down"
  BY <1>1 DEF TypeInv, OwnTypeOK, AttendedInv, BoxesOfTarget
<1>3. Live(b) \/ Lost(b)
  BY <1>2 DEF TypeInv, SutureTypeOK, Live, Lost
<1>4. Live(s)
  BY WorksForLive, ServiceOfRole DEF Notify, At, Live
<1>5. port[s] # NoPort
  BY <1>4, PortAssumption DEF PortInv, Notify, TypeInv, FilesTypeOK
<1>6. ASSUME b # s, Live(b) PROVE FALSE
  BY <1>1, <1>2, <1>4, <1>5, <1>6 DEF PortInv, PortsDistinct
<1>7. QED
  BY <1>1, <1>2, <1>3, <1>6

\* A supervisor never reports the figures of another supervisor of its daemon,
\* whatever ports have been taken, given up and bound before.
THEOREM OwnStats == Spec => []StatsOfOwnFuzzer
<1>1. Init => StatsOfOwnFuzzer
  BY DEF Init, StatsInit, StatsOfOwnFuzzer
<1>2. ASSUME TypeInv, PortInv, AttendedInv, StatsOfOwnFuzzer, [Next]_vars
      PROVE  StatsOfOwnFuzzer'
  <2> SUFFICES ASSUME NEW s \in Supervisor, stat'[s] # None
               PROVE  stat'[s] = s \/ Lost(stat[s])'
    BY DEF StatsOfOwnFuzzer
  <2>1. \A r \in Supervisor : Lost(r) => Lost(r)'
    BY <1>2, NextSteps, LiveStep
  <2>2. stat'[s] = s \/ (stat'[s] \in Supervisor /\ Lost(stat'[s]))
    <3>1. CASE stat'[s] = stat[s]
      BY <1>2, <3>1 DEF StatsOfOwnFuzzer, TypeInv, OwnTypeOK
    <3>2. QED
      BY <1>2, <3>1, StatFrame, NotifyOwn
  <2>3. QED
    BY <2>1, <2>2 DEF Lost
<1>3. QED
  BY <1>1, <1>2, AttendedAlways, PortsAlways, TypesAlways, PTL DEF Spec

-----------------------------------------------------------------------------
(* The uptime. *)

\* The minutes and seconds that are read are those that were printed, but for the
\* seconds of an uptime of an hour or more.
LEMMA SecsOfUptime ==
  ASSUME NEW d \in Nat
  PROVE  LET secs == SecsRunning(FmtDuration(d))
         IN /\ d - 60 < secs /\ secs <= d
            /\ d < 3600 \/ secs = 0 => secs = d
<1> DEFINE secs == SecsRunning(FmtDuration(d))
<1>1. CASE d < 60
  <2>1. FmtDuration(d) = [s |-> d]
    BY <1>1 DEF FmtDuration
  <2>2. secs = d
    BY <2>1 DEF SecsRunning
  <2>3. QED
    BY <1>1, <2>2
<1>2. CASE d >= 60 /\ d < 3600
  <2>1. FmtDuration(d) = [m |-> d \div 60, s |-> d % 60]
    BY <1>2 DEF FmtDuration
  <2>2. secs = (d % 60) + (d \div 60) * 60
    BY <2>1 DEF SecsRunning
  <2>3. secs = d
    BY <2>2
  <2>4. QED
    BY <2>3
<1>3. CASE d >= 3600
  <2>1. FmtDuration(d) = [h |-> d \div 3600, m |-> (d % 3600) \div 60]
    BY <1>3 DEF FmtDuration
  <2>2. secs = (d \div 3600) * 3600 + ((d % 3600) \div 60) * 60
    BY <2>1 DEF SecsRunning
  <2>3. /\ d = (d \div 3600) * 3600 + (d % 3600) /\ d % 3600 \in 0 .. 3599
        /\ d \div 3600 >= 1
    BY <1>3
  <2> DEFINE r == d % 3600
  <2> HIDE DEF r
  <2>4. r = (r \div 60) * 60 + (r % 60) /\ r % 60 \in 0 .. 59 /\ r \div 60 \in Nat
    BY <2>3 DEF r
  <2>5. QED
    BY <1>3, <2>2, <2>3, <2>4 DEF r
<1>4. QED
  BY <1>1, <1>2, <1>3

\* The rate that is reported is over the time the fuzzer has run, for every uptime.
THEOREM RightUptime == Spec => []RateOverUptime
<1>1. RateOverUptime
  BY SecsOfUptime, UptimeAssumption DEF RateOverUptime
<1>2. QED
  BY <1>1, PTL

=============================================================================
