---------------------------- MODULE CrashService ----------------------------
(***************************************************************************)
(* AFLCrashService.Serve and GofuzzCrashService.Serve of                   *)
(* internal/supervisor: they wait for the crash directories, watch them    *)
(* with fsnotify and save every file that is created there.                *)
(***************************************************************************)
EXTENDS TargetServices

VARIABLES
  event,   \* supervisor -> a create event is in the watcher's channel
  saved    \* target -> a crash is in its crash storage

crashVars == <<event, saved>>

CrashInit ==
  /\ event = [s \in Supervisor |-> FALSE]
  /\ saved = [t \in Target |-> FALSE]

Crash(s) == <<s, "crash">>

\* The busy loop sees the directories; stop requests are not read before.
\* GofuzzCrashService waits for FuzzerOutputDirectory, which is a path of the
\* fuzzer's container that the daemon does not have.
FindDirectories(s) ==
  /\ s \in AFL
  /\ At(Crash(s), "wait")
  /\ syncDir[TargetOf[s]] = "session"
  /\ Goto(Crash(s), "found")
  /\ UNCHANGED <<held, files, crashVars>>

\* Watch is called, and panics if the directories are gone.
WatchCrashes(s) ==
  LET there == syncDir[TargetOf[s]] = "session"
  IN /\ At(Crash(s), "found")
     /\ Goto(Crash(s), IF there THEN "watch" ELSE "ended")
     /\ watched' = [watched EXCEPT ![s] = there]
     /\ UNCHANGED <<held, setupVars, syncDir, syncZip, crash, stored, crashVars>>

\* SavePayload copies the file, if it is still there.
SaveCrash(s) ==
  /\ At(Crash(s), "watch")
  /\ event[s]
  /\ event' = [event EXCEPT ![s] = FALSE]
  /\ saved' = [saved EXCEPT ![handler[Crash(s)]] = @ \/ crash[TargetOf[s]]]
  /\ UNCHANGED <<suture, held, files>>

StopCrash(s) ==
  /\ At(Crash(s), "watch")
  /\ TakeStop(Crash(s), "ended")
  /\ watched' = [watched EXCEPT ![s] = FALSE]
  /\ event' = [event EXCEPT ![s] = FALSE]
  /\ UNCHANGED <<held, setupVars, syncDir, syncZip, crash, stored, saved>>

CrashServe(s) ==
  \/ AssignSoln(Crash(s)) /\ UNCHANGED crashVars
  \/ ReturnSoln(Crash(s), "wait") /\ UNCHANGED crashVars
  \/ FindDirectories(s)
  \/ WatchCrashes(s)
  \/ SaveCrash(s)
  \/ StopCrash(s)

\* AFL writes a crash into the sync directory; inotify tells every watch.
FindCrash(t) ==
  /\ syncDir[t] = "session"
  /\ ~crash[t]
  /\ crash' = [crash EXCEPT ![t] = TRUE]
  /\ event' = [s \in Supervisor |-> event[s] \/ (TargetOf[s] = t /\ watched[s])]
  /\ UNCHANGED <<suture, held, setupVars, syncDir, syncZip, watched, stored,
                 saved>>

CrashLocation == {"down", "init", "soln", "wait", "found", "watch", "ended"}

CrashTypeOK ==
  /\ \A s \in Supervisor : pc[Crash(s)] \in CrashLocation
  /\ event \in [Supervisor -> BOOLEAN]
  /\ saved \in [Target -> BOOLEAN]
=============================================================================
