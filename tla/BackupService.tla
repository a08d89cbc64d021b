---------------------------- MODULE BackupService ----------------------------
(***************************************************************************)
(* BackupService.Serve of internal/supervisor, with MakeBackup of          *)
(* internal/storage: every ten minutes the sync directory is zipped and    *)
(* the zip is copied to the crash storage, whatever the fuzzer is doing.   *)
(***************************************************************************)
EXTENDS TargetServices

VARIABLE data   \* supervisor -> what Glob or MakeBackup has read

BackupInit == data = [s \in Supervisor |-> None]

Backup(s) == <<s, "backup">>

\* A tick: Glob, and archiver.Zip.Make truncates backup.zip of the sync
\* directory ...
MakeZip(s) ==
  /\ At(Backup(s), "wait")
  /\ Goto(Backup(s), "zip")
  /\ data' = [data EXCEPT ![s] = syncDir[TargetOf[s]]]
  /\ syncZip' = [syncZip EXCEPT ![handler[Backup(s)]] = "partial"]
  /\ UNCHANGED <<held, setupVars, syncDir, crash, watched, stored>>

\* ... and fills it, if nobody has removed it (a file in its place counts as the
\* same).  It fails when the session that Glob has found is gone, and may fail at
\* any file; Serve returns and leaves the zip as it is.
FillZip(s) ==
  LET h     == handler[Backup(s)]
      there == data[s] = "empty" \/ syncDir[TargetOf[s]] = "session"
  IN /\ At(Backup(s), "zip")
     /\ \E ok \in (IF there THEN {TRUE} ELSE {})
                  \cup (IF there /\ "write" \notin Failing THEN {} ELSE {FALSE}) :
          /\ Goto(Backup(s), IF ok THEN "read" ELSE "ended")
          /\ syncZip' = [syncZip EXCEPT ![h] =
                           IF @ = None THEN None ELSE IF ok THEN data[s] ELSE "torn"]
     /\ data' = [data EXCEPT ![s] = None]
     /\ UNCHANGED <<held, setupVars, syncDir, crash, watched, stored>>

\* filesystemSync: the zip is read, and the destination truncated.
ReadZip(s) ==
  LET h == handler[Backup(s)]
  IN /\ At(Backup(s), "read")
     /\ IF syncZip[h] = None
        THEN /\ Return(Backup(s))
             /\ UNCHANGED <<stored, data>>
        ELSE /\ Goto(Backup(s), "copy")
             /\ stored' = [stored EXCEPT ![h] = "partial"]
             /\ data' = [data EXCEPT ![s] = syncZip[h]]
     /\ UNCHANGED <<held, setupVars, syncVars>>

\* Mutant of WriteBackup: the zip is left.
WriteBackupOnly(s) ==
  LET h == handler[Backup(s)]
  IN /\ At(Backup(s), "copy")
     /\ Goto(Backup(s), "wait")
     /\ stored' = [stored EXCEPT ![h] = data[s]]
     /\ data' = [data EXCEPT ![s] = None]
     /\ UNCHANGED <<held, setupVars, syncVars>>

\* The destination is filled, or not to its end, and the zip removed.
WriteBackup(s) ==
  LET h == handler[Backup(s)]
  IN /\ At(Backup(s), "copy")
     /\ \/ /\ Goto(Backup(s), "wait")
           /\ stored' = [stored EXCEPT ![h] = data[s]]
        \/ /\ "write" \in Failing
           /\ Return(Backup(s))
           /\ stored' = [stored EXCEPT ![h] = "partial"]
     /\ syncZip' = [syncZip EXCEPT ![h] = None]
     /\ data' = [data EXCEPT ![s] = None]
     /\ UNCHANGED <<held, setupVars, syncDir, crash, watched>>

StopBackup(s) ==
  /\ At(Backup(s), "wait")
  /\ TakeStop(Backup(s), "ended")
  /\ UNCHANGED <<held, files, data>>

BackupServe(s) ==
  \/ AssignSoln(Backup(s)) /\ UNCHANGED data
  \/ ReturnSoln(Backup(s), "wait") /\ UNCHANGED data
  \/ FillZip(s)
  \/ ReadZip(s)
  \/ WriteBackup(s)
  \/ StopBackup(s)

BackupLocation == {"down", "init", "soln", "wait", "zip", "read", "copy",
                   "ended"}

BackupTypeOK ==
  /\ \A s \in Supervisor : pc[Backup(s)] \in BackupLocation
  /\ data \in [Supervisor -> Content]
=============================================================================
