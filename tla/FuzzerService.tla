---------------------------- MODULE FuzzerService ----------------------------
(***************************************************************************)
(* CFuzzerService.Serve and GoFuzzerService.Serve of internal/supervisor,  *)
(* with initialFuzzerSetup, and the docker client calls they make through  *)
(* internal/docker.                                                        *)
(*                                                                         *)
(* Containers have the names <target>_buildbox and <target>_fuzzer, so     *)
(* there is at most one of each for a target, and a call that goes by name *)
(* may hit the container of another supervisor.                            *)
(***************************************************************************)
EXTENDS TargetServices

CONSTANT Environment   \* target -> the variables that its environment file exports

VARIABLES
  resume,     \* supervisor -> the fuzzer is to go on from a backup
  fetched,    \* supervisor -> what GetBackup has read
  env,        \* supervisor -> the target whose environment file it has read
  buildBox,   \* target -> the supervisor whose buildbox exists
  buildEnd,   \* target -> "running", or how its buildbox ended
  fuzzerBox,  \* target -> the supervisor whose fuzzer container runs
  mounted,    \* target -> that container has the present sync directory
  refused     \* history: a target's "build" or "fuzzer" container that its Serve gave
              \* up when docker failed to show, commit or end it, and "old" if docker
              \* failed to end containers from before; no step reads this

boxes      == <<buildBox, buildEnd, fuzzerBox, mounted, refused>>
setup      == <<resume, fetched, env>>
fuzzerVars == <<setup, boxes>>

FuzzerInit ==
  /\ resume = [s \in Supervisor |-> FALSE]
  /\ fetched = [s \in Supervisor |-> None]
  /\ env = [s \in Supervisor |-> None]
  /\ buildBox = [t \in Target |-> None]
  /\ buildEnd = [t \in Target |-> "running"]
  /\ fuzzerBox = [t \in Target |-> None]
  /\ mounted = [t \in Target |-> FALSE]
  /\ refused = {}

Fuzzer(s) == <<s, "fuzzer">>
Handler(s) == handler[Fuzzer(s)]

\* One step of Serve: from one location to the next, or it returns.
Step(s, from, to) == At(Fuzzer(s), from) /\ Goto(Fuzzer(s), to)

StepIf(s, from, to, ok) == Step(s, from, IF ok THEN to ELSE "ended")

-----------------------------------------------------------------------------
(* initialFuzzerSetup *)

\* Both directories are removed and made again.  A container keeps the removed
\* directory, a watch on it is gone.
SetupClean(s) ==
  LET t == TargetOf[s]
  IN /\ Step(s, "clean", "getTarget")
     /\ targetDir' = [targetDir EXCEPT ![t] = None]
     /\ syncDir' = [syncDir EXCEPT ![t] = "empty"]
     /\ syncZip' = [syncZip EXCEPT ![t] = None]
     /\ crash' = [crash EXCEPT ![t] = FALSE]
     /\ watched' = [r \in Supervisor |-> TargetOf[r] # t /\ watched[r]]
     /\ mounted' = [mounted EXCEPT ![t] = FALSE]
     /\ UNCHANGED <<held, working, stored, setup, buildBox, buildEnd,
                    fuzzerBox, refused>>

\* GetTarget: WriteFile truncates working_target.zip, then fills it, if nobody has
\* removed it.
GetTarget(s) ==
  /\ \/ Step(s, "getTarget", "fill") /\ working' = "partial"
     \/ /\ Step(s, "fill", "unzip")
        /\ working' = IF working = None THEN None ELSE Handler(s)
     \/ "write" \in Failing /\ Step(s, "fill", "ended") /\ UNCHANGED working
  /\ UNCHANGED <<held, targetDir, syncVars, stored, fuzzerVars>>

OpenTarget(s) ==
  /\ StepIf(s, "unzip", "remove", working \in Target)
  /\ targetDir' = IF working \in Target
                  THEN [targetDir EXCEPT ![TargetOf[s]] = working]
                  ELSE targetDir
  /\ UNCHANGED <<held, working, syncVars, stored, fuzzerVars>>

RemoveWorking(s) ==
  /\ StepIf(s, "remove", "exists", working # None)
  /\ working' = None
  /\ UNCHANGED <<held, targetDir, syncVars, stored, fuzzerVars>>

\* BackupExists, and os.Remove of a sync directory, which has to be empty.
CheckBackup(s) ==
  LET t == TargetOf[s]
      exists == stored[Handler(s)] # None
      empty  == syncDir[t] = "empty" /\ syncZip[t] = None
  IN /\ Step(s, "exists", IF ~exists THEN "environment"
                          ELSE IF empty THEN "getBackup" ELSE "ended")
     /\ resume' = [resume EXCEPT ![s] = exists /\ s \in AFL]
     /\ watched' = [r \in Supervisor |->
                      watched[r] /\ ~(exists /\ empty /\ TargetOf[r] = t)]
     /\ mounted' = [mounted EXCEPT ![t] = @ /\ ~(exists /\ empty)]
     /\ UNCHANGED <<held, setupVars, syncDir, syncZip, crash, stored,
                    fetched, env, buildBox, buildEnd, fuzzerBox, refused>>

\* GetBackup: the backup is read, and WriteFile truncates backup.zip of the sync
\* directory ...
GetBackup(s) ==
  /\ Step(s, "getBackup", "fillBackup")
  /\ fetched' = [fetched EXCEPT ![s] = stored[Handler(s)]]
  /\ syncZip' = [syncZip EXCEPT ![Handler(s)] = "partial"]
  /\ UNCHANGED <<held, setupVars, syncDir, crash, watched, stored,
                 resume, env, boxes>>

\* ... and fills it, if nobody has removed it.
FillBackup(s) ==
  /\ \E ok \in IF "write" \in Failing THEN BOOLEAN ELSE {TRUE} :
       /\ StepIf(s, "fillBackup", "unzipBackup", ok)
       /\ syncZip' = [syncZip EXCEPT ![Handler(s)] =
                        IF ok /\ @ # None THEN fetched[s] ELSE @]
  /\ fetched' = [fetched EXCEPT ![s] = None]
  /\ UNCHANGED <<held, setupVars, syncDir, crash, watched, stored,
                 resume, env, boxes>>

\* Mutant of OpenBackup: what the zip has is taken without opening it.
OpenAnyBackup(s) ==
  LET zip == syncZip[Handler(s)]
  IN /\ StepIf(s, "unzipBackup", "environment", zip # None)
     /\ syncDir' = IF zip # None THEN [syncDir EXCEPT ![TargetOf[s]] = zip]
                   ELSE syncDir
     /\ UNCHANGED <<held, setupVars, syncZip, crash, watched, stored, fuzzerVars>>

\* What a zip may give when it is opened.  One that is cut off has no directory at
\* its end and does not open; of a torn one everything is possible.
Opened(zip) ==
  CASE zip \in {"empty", "session"} -> {zip}
    [] zip = "torn"                 -> {None, "empty", "session"}
    [] OTHER                        -> {None}

OpenBackup(s) ==
  /\ At(Fuzzer(s), "unzipBackup")
  /\ \E dir \in Opened(syncZip[Handler(s)]) :
       /\ Goto(Fuzzer(s), IF dir # None THEN "removeBackup" ELSE "ended")
       /\ syncDir' = IF dir = "session"
                     THEN [syncDir EXCEPT ![TargetOf[s]] = dir] ELSE syncDir
  /\ UNCHANGED <<held, setupVars, syncZip, crash, watched, stored, fuzzerVars>>

RemoveBackup(s) ==
  LET h == Handler(s)
  IN /\ StepIf(s, "removeBackup", "environment", syncZip[h] # None)
     /\ syncZip' = [syncZip EXCEPT ![h] = None]
     /\ UNCHANGED <<held, setupVars, syncDir, crash, watched, stored, fuzzerVars>>

\* gotenv.Parse of the environment file, whosever files are there.
ReadEnvironment(s) ==
  LET dir == targetDir[TargetOf[s]]
  IN /\ StepIf(s, "environment", "kill", dir # None)
     /\ env' = [env EXCEPT ![s] = dir]
     /\ UNCHANGED <<held, files, resume, fetched, boxes>>

-----------------------------------------------------------------------------
(* docker.CreateFuzzer *)

\* Docker refuses to do something about containers; those that are gone are forgotten.
Refuse(left) ==
  refused' = {c \in refused \cup left : \/ c[2] # "fuzzer" /\ buildBox'[c[1]] # None
                                        \/ c[2] # "build" /\ fuzzerBox'[c[1]] # None}

\* StopContainer and RemoveContainer.  A buildbox that was not removed may have been
\* stopped.
RemoveBuildBox(t) ==
  \/ /\ buildBox' = [buildBox EXCEPT ![t] = None]
     /\ buildEnd' = [buildEnd EXCEPT ![t] = "running"]
  \/ /\ "remove" \in Failing
     /\ UNCHANGED buildBox
     /\ \/ UNCHANGED buildEnd
        \/ /\ buildBox[t] # None /\ buildEnd[t] = "running"
           /\ buildEnd' = [buildEnd EXCEPT ![t] = "failed"]

\* Docker removes the container of a fuzzer when it has stopped (AutoRemove).
RemoveFuzzer(t) ==
  \/ fuzzerBox' = [fuzzerBox EXCEPT ![t] = None]
  \/ "remove" \in Failing /\ UNCHANGED fuzzerBox

\* Mutant of KillOldBoxes: the fuzzer's container is not among the old ones.
KillOldBuildBox(s) ==
  /\ Step(s, "kill", "create")
  /\ RemoveBuildBox(TargetOf[s])
  /\ UNCHANGED <<held, files, setup, fuzzerBox, mounted>>
  /\ Refuse(IF buildBox'[TargetOf[s]] = None THEN {} ELSE {<<TargetOf[s], "old">>})

\* Old containers are stopped and removed, by name, and errors ignored.
KillOldBoxes(s) ==
  LET t == TargetOf[s]
  IN /\ Step(s, "kill", "create")
     /\ RemoveBuildBox(t)
     /\ RemoveFuzzer(t)
     /\ Refuse({<<t, "old">>})
     /\ UNCHANGED <<held, files, setup, mounted>>

\* The environment file has to be there, and the name to be free.  A container that
\* could not be started keeps the name.
CreateBuildBox(s) ==
  LET t == TargetOf[s]
      free == targetDir[t] # None /\ buildBox[t] = None
  IN /\ \/ /\ free
           /\ buildBox' = [buildBox EXCEPT ![t] = s]
           /\ \/ /\ Step(s, "create", "building")
                 /\ buildEnd' = [buildEnd EXCEPT ![t] = "running"]
              \/ /\ "create" \in Failing
                 /\ Step(s, "create", "ended")
                 /\ buildEnd' = [buildEnd EXCEPT ![t] = "failed"]
        \/ /\ ~free \/ "create" \in Failing
           /\ Step(s, "create", "ended")
           /\ UNCHANGED <<buildBox, buildEnd>>
     /\ UNCHANGED <<held, files, setup, fuzzerBox, mounted, refused>>

\* Mutant of StopBuild: the buildbox is left.
StopBuildLeaves(s) ==
  /\ At(Fuzzer(s), "building")
  /\ TakeStop(Fuzzer(s), "ended")
  /\ UNCHANGED <<held, files, fuzzerVars>>

\* The stop request: the buildbox is removed, by name; Serve returns, whether or not
\* it is gone.
StopBuild(s) ==
  LET t == TargetOf[s]
  IN /\ At(Fuzzer(s), "building")
     /\ TakeStop(Fuzzer(s), "ended")
     /\ RemoveBuildBox(t)
     /\ UNCHANGED <<held, files, setup, fuzzerBox, mounted>>
     /\ Refuse(IF buildBox[t] = s THEN {<<t, "build">>} ELSE {})

\* A tick inspects the buildbox by its id.  One that failed is left.
BuildFails(s) ==
  LET t == TargetOf[s]
  IN /\ buildBox[t] # s \/ buildEnd[t] = "failed"
     /\ Step(s, "building", "ended")
     /\ UNCHANGED <<held, files, fuzzerVars>>

\* setupAFLCmd and setupGofuzzCommand.
AFLNeeds    == {"AFL_FUZZ", "AFL_MEMORY_LIMIT", "AFL_BINARY"}
GofuzzNeeds == {"GO_FUZZ_ZIP"}

HasCommand(s) ==
  /\ env[s] \in Target
  /\ (IF s \in AFL THEN AFLNeeds ELSE GofuzzNeeds) \subseteq Environment[env[s]]

\* A build that has ended is committed to an image, and the buildbox removed; if
\* docker fails in either, it is left.  Then the command is set up.
CommitBuild(s) ==
  LET t == TargetOf[s]
  IN /\ buildBox[t] = s /\ buildEnd[t] = "built"
     /\ \/ /\ StepIf(s, "building", "deploy", HasCommand(s))
           /\ buildBox' = [buildBox EXCEPT ![t] = None]
           /\ buildEnd' = [buildEnd EXCEPT ![t] = "running"]
           /\ UNCHANGED fuzzerBox
           /\ Refuse({})
        \/ /\ {"create", "remove"} \cap Failing # {}
           /\ Step(s, "building", "ended")
           /\ UNCHANGED <<buildBox, buildEnd, fuzzerBox>>
           /\ Refuse({<<t, "build">>})
     /\ UNCHANGED <<held, files, setup, mounted>>

-----------------------------------------------------------------------------
(* FuzzClusterConfiguration.Deploy, FuzzCluster.State and Kill *)

\* Some container has the port of the host that is to be bound.
PortInUse(s) ==
  /\ s \notin AFL
  /\ \E t \in Target : fuzzerBox[t] # None /\ port[fuzzerBox[t]] = port[s]

Deploy(s) ==
  LET t == TargetOf[s]
  IN /\ \/ /\ fuzzerBox[t] = None
           /\ ~PortInUse(s)
           /\ Step(s, "deploy", "state")
           /\ fuzzerBox' = [fuzzerBox EXCEPT ![t] = s]
           /\ mounted' = [mounted EXCEPT ![t] = TRUE]
        \/ /\ \/ fuzzerBox[t] # None
              \/ PortInUse(s)
              \/ "create" \in Failing
           /\ Step(s, "deploy", "ended")
           /\ UNCHANGED <<fuzzerBox, mounted>>
     /\ UNCHANGED <<held, files, setup, buildBox, buildEnd, refused>>

\* State goes by name, so any supervisor's container will do.
InspectFuzzer(s) ==
  /\ fuzzerBox[TargetOf[s]] # None
  /\ Step(s, "state", "watch")
  /\ UNCHANGED <<held, files, fuzzerVars>>

\* Mutant of FuzzerGone: the container's state is not looked at.
FuzzerGivesUp(s) ==
  /\ Step(s, "state", "ended") \/ Step(s, "watch", "ended")
  /\ UNCHANGED <<held, files, fuzzerVars>>

\* The first State call or that of a tick finds that the container has stopped.
FuzzerGone(s) ==
  /\ fuzzerBox[TargetOf[s]] = None
  /\ Step(s, "state", "ended") \/ Step(s, "watch", "ended")
  /\ UNCHANGED <<held, files, fuzzerVars>>

\* Docker fails to show a container that is there, and Serve returns.
InspectFails(s) ==
  LET t == TargetOf[s]
  IN /\ "inspect" \in Failing
     /\ UNCHANGED <<held, files, setup, buildBox, buildEnd, fuzzerBox, mounted>>
     /\ \/ /\ buildBox[t] = s
           /\ Step(s, "building", "ended")
           /\ Refuse({<<t, "build">>})
        \/ /\ fuzzerBox[t] # None
           /\ Step(s, "state", "ended") \/ Step(s, "watch", "ended")
           /\ Refuse(IF fuzzerBox[t] = s THEN {<<t, "fuzzer">>} ELSE {})

\* Mutant of KillFuzzer: the container is left.
KillNothing(s) ==
  /\ At(Fuzzer(s), "watch")
  /\ TakeStop(Fuzzer(s), "ended")
  /\ UNCHANGED <<held, files, fuzzerVars>>

\* Kill goes by name, too, and Serve returns whether or not it has failed.
KillFuzzer(s) ==
  LET t == TargetOf[s]
  IN /\ At(Fuzzer(s), "watch")
     /\ TakeStop(Fuzzer(s), "ended")
     /\ RemoveFuzzer(t)
     /\ UNCHANGED <<held, files, setup, buildBox, buildEnd, mounted>>
     /\ Refuse(IF fuzzerBox[t] = s THEN {<<t, "fuzzer">>} ELSE {})

FuzzerServe(s) ==
  \/ AssignSoln(Fuzzer(s)) /\ UNCHANGED fuzzerVars
  \/ ReturnSoln(Fuzzer(s), "clean") /\ UNCHANGED fuzzerVars
  \/ SetupClean(s)
  \/ GetTarget(s)
  \/ OpenTarget(s)
  \/ RemoveWorking(s)
  \/ CheckBackup(s)
  \/ GetBackup(s)
  \/ FillBackup(s)
  \/ OpenBackup(s)
  \/ RemoveBackup(s)
  \/ ReadEnvironment(s)
  \/ KillOldBoxes(s)
  \/ CreateBuildBox(s)
  \/ StopBuild(s)
  \/ BuildFails(s)
  \/ CommitBuild(s)
  \/ Deploy(s)
  \/ InspectFuzzer(s)
  \/ FuzzerGone(s)
  \/ KillFuzzer(s)

-----------------------------------------------------------------------------
(* The containers run build_steps and the fuzzer by themselves. *)

BuildEnds(t) ==
  /\ buildBox[t] # None
  /\ buildEnd[t] = "running"
  /\ \/ targetDir[t] # None /\ buildEnd' = [buildEnd EXCEPT ![t] = "built"]
     \/ /\ targetDir[t] = None \/ "build" \in Failing
        /\ buildEnd' = [buildEnd EXCEPT ![t] = "failed"]
  /\ UNCHANGED <<baseVars, setup, buildBox, fuzzerBox, mounted, refused>>

\* AFL that was told to resume looks for the session to resume.
CanFuzz(t) ==
  fuzzerBox[t] # None /\ (resume[fuzzerBox[t]] => syncDir[t] = "session")

WriteSession(t) ==
  /\ CanFuzz(t)
  /\ mounted[t]
  /\ syncDir[t] = "empty"
  /\ syncDir' = [syncDir EXCEPT ![t] = "session"]
  /\ UNCHANGED <<suture, held, setupVars, syncZip, crash, watched, stored,
                 fuzzerVars>>

\* The container exits, and docker removes it (AutoRemove).
RemoveFuzzerBox(t) ==
  /\ fuzzerBox[t] # None
  /\ fuzzerBox' = [fuzzerBox EXCEPT ![t] = None]
  /\ UNCHANGED <<baseVars, setup, buildBox, buildEnd, mounted>>
  /\ Refuse({})

ResumeFails(t) == ~CanFuzz(t) /\ RemoveFuzzerBox(t)
FuzzerExits(t) == "exit" \in Failing /\ RemoveFuzzerBox(t)

\* What the containers do in the end, and what they may do at any time.
Containers(t) == BuildEnds(t) \/ WriteSession(t) \/ ResumeFails(t)

\* What ends with the daemon.
LoseSetup ==
  /\ fetched' = [s \in Supervisor |-> None]
  /\ env' = [s \in Supervisor |-> None]
  /\ refused' = {}
  /\ UNCHANGED <<resume, buildBox, buildEnd, fuzzerBox, mounted>>

FuzzerLocation == Location \ {"wait", "found", "zip", "read", "copy", "send"}

FuzzerTypeOK ==
  /\ \A s \in Supervisor : pc[Fuzzer(s)] \in FuzzerLocation
  /\ resume \in [Supervisor -> BOOLEAN]
  /\ fetched \in [Supervisor -> Content]
  /\ env \in [Supervisor -> Target \cup {None}]
  /\ buildBox \in [Target -> Supervisor \cup {None}]
  /\ buildEnd \in [Target -> {"running", "built", "failed"}]
  /\ fuzzerBox \in [Target -> Supervisor \cup {None}]
  /\ mounted \in [Target -> BOOLEAN]
  /\ refused \subseteq Target \X {"build", "fuzzer", "old"}
=============================================================================
