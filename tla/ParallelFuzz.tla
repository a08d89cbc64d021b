---------------------------- MODULE ParallelFuzz ----------------------------
(***************************************************************************)
(* The daemon under the parallel strategy: the registry of TargetRegistry  *)
(* composed with fuzzParallel of cmd/maxfuzz/fuzz.go, which runs one       *)
(* supervisor per target and owns the map parallelFuzzers.  The handlers   *)
(* send to it with targetsLock held, so a slow Supervisor.Stop holds up    *)
(* every other request and watchStats.                                     *)
(***************************************************************************)
EXTENDS TargetRegistry

ASSUME ParallelAssumption == fuzzStrategy = "parallel"

VARIABLES
  fpc,              \* where the loop is
  ftarget,          \* the target it has received
  parallelFuzzers   \* the targets with a running supervisor

loopVars == <<fpc, ftarget, parallelFuzzers>>
vars     == <<registryVars, loopVars>>

\* The model starts once fuzzParallel has made its channels.
Init ==
  /\ RegistryInit
  /\ fpc = "select"
  /\ ftarget = NoTarget
  /\ parallelFuzzers = {}

-----------------------------------------------------------------------------
\* <-parallelAddChan: the handler and the loop meet.
ReceiveAdd(h) ==
  /\ fpc = "select"
  /\ hpc[h] = "sendAdd"
  /\ fpc' = "adding"
  /\ ftarget' = htarget[h]
  /\ Goto(h, "unlock")
  /\ UNCHANGED <<mapVars, targetsLock, currentTarget, statVars,
                 parallelFuzzers>>

\* A language without a constructor is logged and skipped.
StartFuzzer ==
  /\ fpc = "adding"
  /\ parallelFuzzers' = IF Fuzzable(ftarget)
                        THEN parallelFuzzers \cup {ftarget}
                        ELSE parallelFuzzers
  /\ fpc' = "select"
  /\ ftarget' = NoTarget
  /\ UNCHANGED registryVars

\* Mutant of ReceiveStop: one stop is taken for both sends.
ReceiveOneStop(h) ==
  /\ fpc = "select"
  /\ hpc[h] = "sendStop"
  /\ Goto(h, "unlock")
  /\ IF htarget[h] \in parallelFuzzers
     THEN fpc' = "stopping" /\ ftarget' = htarget[h]
     ELSE UNCHANGED <<fpc, ftarget>>
  /\ UNCHANGED <<mapVars, targetsLock, currentTarget, statVars,
                 parallelFuzzers>>

\* <-stopChan: the first send is removeTarget's, the second interruptTarget's,
\* which finds no fuzzer left and is logged as "Can't stop target".
ReceiveStop(h) ==
  /\ fpc = "select"
  /\ \/ hpc[h] = "sendStop" /\ Goto(h, "sendInterrupt")
     \/ hpc[h] = "sendInterrupt" /\ Goto(h, "unlock")
  /\ IF htarget[h] \in parallelFuzzers
     THEN fpc' = "stopping" /\ ftarget' = htarget[h]
     ELSE UNCHANGED <<fpc, ftarget>>
  /\ UNCHANGED <<mapVars, targetsLock, currentTarget, statVars,
                 parallelFuzzers>>

\* Mutant of StopFuzzer: parallelFuzzers keeps the stopped supervisor.
StopKeepsFuzzer ==
  /\ fpc = "stopping"
  /\ ftarget \notin sending
  /\ fpc' = "select"
  /\ ftarget' = NoTarget
  /\ UNCHANGED <<registryVars, parallelFuzzers>>

\* sup.Stop returns when every service has taken its stop request ...
StopFuzzer ==
  /\ fpc = "stopping"
  /\ ftarget \notin sending
  /\ parallelFuzzers' = parallelFuzzers \ {ftarget}
  /\ fpc' = "select"
  /\ ftarget' = NoTarget
  /\ UNCHANGED registryVars

\* Mutant of StopTimeout: Stop waits for every service.
StopWithoutTimeout == StopFuzzer

\* ... or when suture's Timeout runs out, and a stats service blocked in its
\* send stays behind: watchStats is waiting for the lock the remover holds.
StopTimeout ==
  /\ fpc = "stopping"
  /\ sending' = sending \ {ftarget}
  /\ leftSending' = leftSending \cup (sending \cap {ftarget})
  /\ parallelFuzzers' = parallelFuzzers \ {ftarget}
  /\ fpc' = "select"
  /\ ftarget' = NoTarget
  /\ UNCHANGED <<mapVars, targetsLock, currentTarget, handlerVars, wstat>>

FuzzerTick == \E t \in parallelFuzzers : StatsTick(t) /\ UNCHANGED loopVars

LoopStep ==
  \/ StartFuzzer
  \/ StopFuzzer
  \/ StopTimeout
  \/ \E h \in Handler : ReceiveAdd(h) \/ ReceiveStop(h)

RegistryStep ==
  \/ \E h \in Handler : NewRequest(h) \/ HandlerStep(h)
  \/ ReceiveStat
  \/ StoreStat

Next ==
  \/ RegistryStep /\ UNCHANGED loopVars
  \/ LoopStep
  \/ FuzzerTick

Spec == Init /\ [][Next]_vars

\* Goroutines that wait for the mutex get it in the end (its starvation
\* mode); every other step is just scheduled.  suture's timer runs, so a Stop
\* that cannot complete times out.  Clients need not send, nor stats tick.
FairSpec ==
  /\ Spec
  /\ \A h \in Handler : SF_vars(AcquireLock(h) /\ UNCHANGED loopVars)
  /\ \A h \in Handler : WF_vars(HandlerStep(h) /\ UNCHANGED loopVars)
  /\ WF_vars(ReceiveStat /\ UNCHANGED loopVars)
  /\ SF_vars(StoreStat /\ UNCHANGED loopVars)
  /\ WF_vars(LoopStep)

-----------------------------------------------------------------------------
(* Properties *)

\* Variables hold values of their types (all of main.go's and fuzz.go's maps
\* and the locations of the goroutines).
TypeOK ==
  /\ RegistryTypeOK
  /\ fpc \in {"select", "adding", "stopping"}
  /\ ftarget \in Target \cup {NoTarget}
  /\ parallelFuzzers \subseteq Target

\* Whenever no handler is in its critical section and the loop waits in its
\* select, exactly the registered targets with a supported language are being
\* fuzzed: no interleaving of requests loses a start or leaves an orphan
\* (main.go:34-79 against fuzz.go:128-154).
FuzzersMatchTargets ==
  targetsLock = Nobody /\ fpc = "select"
    => parallelFuzzers = {t \in targets : Fuzzable(t)}

\* The lock is not released, so no request is answered, while a supervisor is
\* being stopped, and the target being stopped is already unregistered: a
\* re-registration never meets its own old fuzzer (fuzz.go:142-150).
StopOnlyUnregistered ==
  fpc = "stopping" => ftarget \notin targets /\ targetsLock # Nobody

\* Every request is answered, although handlers wait for the loop with the
\* lock held and a fuzzer being stopped may be waiting for watchStats, which
\* waits for the lock (fuzz.go:101-110, 149; supervisor.go:19-30).
EveryRequestAnswered == \A h \in Handler : hpc[h] # "idle" ~> hpc[h] = "idle"

\* A registered target with a supported language is fuzzed or unregistered.
RegisteredIsFuzzed ==
  \A t \in Target : Fuzzable(t) /\ t \in targets
                      ~> t \in parallelFuzzers \/ t \notin targets

\* The daemon implements FuzzCampaign: what a client sees of locks, channels
\* and the loop is one registration, start, unregistration or stop at a time.
Leaving == {htarget[h] : h \in {g \in Handler :
                                  hpc[g] \in {"sendStop", "sendInterrupt"}}}

Campaign == INSTANCE FuzzCampaign
              WITH CanFuzz    <- {t \in Target : Fuzzable(t)},
                   registered <- targets,
                   fuzzed     <- parallelFuzzers,
                   leaving    <- Leaving

ImplementsCampaign == Campaign!Spec
=============================================================================
