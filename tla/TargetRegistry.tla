--------------------------- MODULE TargetRegistry ---------------------------
(***************************************************************************)
(* The target registry of the maxfuzz daemon: the maps of                  *)
(* cmd/maxfuzz/main.go, the RWMutex that guards them, the HTTP handlers    *)
(* that register and unregister targets, and the watchStats goroutine of   *)
(* cmd/maxfuzz/fuzz.go.                                                    *)
(*                                                                         *)
(* The fuzzing loop that the handlers talk to over parallelAddChan and     *)
(* stopChan is not here: ParallelFuzz and RoundRobin each extend this      *)
(* module with the loop of one strategy.  A send on an unbuffered channel  *)
(* is a handler parked at a send location; the loop's receive moves it on. *)
(* A critical section that only reads, or that ends in an early return, is *)
(* one step: nothing in it blocks.                                         *)
(***************************************************************************)
EXTENDS Integers

CONSTANTS
  Target,         \* the UniqueIDs that clients use
  Language,       \* the Language field of each target
  Handler,        \* the HTTP requests in progress at one time
  Requests,       \* which endpoints the clients call
  fuzzStrategy    \* "robin" or "parallel" (main.go panics on any other)

\* The languages fuzzServices has a constructor for.
FuzzServices == {"c", "c++", "go"}

NoTarget    == ""                \* Go's zero value of a string
NotSelected == "+NOT_SELECTED+"  \* nextTarget's sentinel
Nobody      == "nobody"          \* the lock is free, or only briefly shared
FuzzLoop    == "fuzzloop"        \* nextTarget holds the read lock

ASSUME TargetAssumption ==
  {NoTarget, NotSelected} \cap Target = {}

ASSUME HandlerAssumption ==
  {Nobody, FuzzLoop} \cap Handler = {}

ASSUME StrategyAssumption ==
  /\ fuzzStrategy \in {"robin", "parallel"}
  /\ Requests \subseteq {"register", "unregister", "read"}

VARIABLES
  targets,        \* the keys of targets
  targetsTimer,   \* target -> when its last turn ended
  targetStats,    \* the keys of targetStats, which /status reports
  targetsLock,    \* who holds targetsLock beyond one step
  currentTarget,  \* the target the round-robin loop is on
  hpc,            \* handler -> where it is
  htarget,        \* handler -> the target of its request
  wstat,          \* the target whose stat watchStats has received
  sending,        \* running fuzzers whose stats service is in its send
  leftSending     \* the same for fuzzers given up on by Supervisor.Stop

mapVars      == <<targets, targetsTimer, targetStats>>
handlerVars  == <<hpc, htarget>>
statVars     == <<wstat, sending, leftSending>>
registryVars == <<mapVars, targetsLock, currentTarget, handlerVars, statVars>>

\* The locations of a handler, the ones where it holds targetsLock apart.
InCriticalSection == {"addMaps", "sendAdd", "removeMaps", "interrupt",
                      "sendStop", "sendInterrupt", "unlock"}
Location == {"idle", "addLock", "removeLock", "readLock"} \cup InCriticalSection

\* Where the maps are being written.
WritingMaps == \E h \in Handler : hpc[h] \in {"addMaps", "removeMaps"}

RegistryInit ==
  /\ targets = {}
  /\ targetsTimer = [t \in {} |-> 0]
  /\ targetStats = {}
  /\ targetsLock = Nobody
  /\ currentTarget = NoTarget
  /\ hpc = [h \in Handler |-> "idle"]
  /\ htarget = [h \in Handler |-> NoTarget]
  /\ wstat = NoTarget
  /\ sending = {}
  /\ leftSending = {}

Goto(h, l) == hpc' = [hpc EXCEPT ![h] = l] /\ UNCHANGED htarget

\* The handler takes up a request about t, or answers the one it has.
Begin(h, l, t) ==
  /\ hpc' = [hpc EXCEPT ![h] = l]
  /\ htarget' = [htarget EXCEPT ![h] = t]

Answer(h) == Begin(h, "idle", NoTarget)

-----------------------------------------------------------------------------
(* POST /registerTarget *)

RegisterTarget(h, t) ==
  /\ "register" \in Requests
  /\ hpc[h] = "idle"
  /\ Begin(h, "addLock", t)
  /\ UNCHANGED <<mapVars, targetsLock, currentTarget, statVars>>

\* targetsLock.Lock and the early return for a target that exists.
AddLock(h) ==
  /\ hpc[h] = "addLock"
  /\ targetsLock = Nobody
  /\ IF htarget[h] \in targets
     THEN /\ Answer(h)
          /\ UNCHANGED targetsLock
     ELSE /\ Goto(h, "addMaps")
          /\ targetsLock' = h
  /\ UNCHANGED <<mapVars, currentTarget, statVars>>

\* Mutants of AddMaps: no entry in targetStats; no send to the loop.
AddMapsWithoutStats(h) ==
  /\ hpc[h] = "addMaps"
  /\ targets' = targets \cup {htarget[h]}
  /\ Goto(h, "sendAdd")
  /\ UNCHANGED <<targetsTimer, targetStats, targetsLock, currentTarget,
                 statVars>>

AddMapsWithoutSend(h) ==
  /\ hpc[h] = "addMaps"
  /\ targets' = targets \cup {htarget[h]}
  /\ targetStats' = targetStats \cup {htarget[h]}
  /\ Goto(h, "unlock")
  /\ UNCHANGED <<targetsTimer, targetsLock, currentTarget, statVars>>

\* The writes.  A parallel handler then blocks on parallelAddChan with the
\* lock held.
AddMaps(h) ==
  /\ hpc[h] = "addMaps"
  /\ targets' = targets \cup {htarget[h]}
  /\ targetStats' = targetStats \cup {htarget[h]}
  /\ IF fuzzStrategy = "robin"
     THEN /\ targetsTimer' = [t \in DOMAIN targetsTimer \cup {htarget[h]} |->
                                IF t = htarget[h] THEN 0 ELSE targetsTimer[t]]
          /\ Goto(h, "unlock")
     ELSE /\ UNCHANGED targetsTimer
          /\ Goto(h, "sendAdd")
  /\ UNCHANGED <<targetsLock, currentTarget, statVars>>

-----------------------------------------------------------------------------
(* POST /unregisterTarget *)

UnregisterTarget(h, t) ==
  /\ "unregister" \in Requests
  /\ hpc[h] = "idle"
  /\ Begin(h, "removeLock", t)
  /\ UNCHANGED <<mapVars, targetsLock, currentTarget, statVars>>

RemoveLock(h) ==
  /\ hpc[h] = "removeLock"
  /\ targetsLock = Nobody
  /\ IF htarget[h] \notin targets
     THEN /\ Answer(h)
          /\ UNCHANGED targetsLock
     ELSE /\ Goto(h, "removeMaps")
          /\ targetsLock' = h
  /\ UNCHANGED <<mapVars, currentTarget, statVars>>

\* Mutant of RemoveMaps: the lock is released before the sends.
RemoveMapsUnlocking(h) ==
  /\ hpc[h] = "removeMaps"
  /\ targets' = targets \ {htarget[h]}
  /\ targetStats' = targetStats \ {htarget[h]}
  /\ Goto(h, "sendStop")
  /\ targetsLock' = Nobody
  /\ UNCHANGED <<targetsTimer, currentTarget, statVars>>

\* The deletes.  A parallel handler then blocks on stopChan twice, once in
\* removeTarget and once in interruptTarget, with the lock held.
RemoveMaps(h) ==
  /\ hpc[h] = "removeMaps"
  /\ targets' = targets \ {htarget[h]}
  /\ targetStats' = targetStats \ {htarget[h]}
  /\ IF fuzzStrategy = "robin"
     THEN /\ targetsTimer' = [t \in DOMAIN targetsTimer \ {htarget[h]} |->
                                targetsTimer[t]]
          /\ Goto(h, "interrupt")
     ELSE /\ UNCHANGED targetsTimer
          /\ Goto(h, "sendStop")
  /\ UNCHANGED <<targetsLock, currentTarget, statVars>>

\* Mutant of InterruptTarget: the loop is never told.
InterruptNothing(h) ==
  /\ hpc[h] = "interrupt"
  /\ Goto(h, "unlock")
  /\ UNCHANGED <<mapVars, targetsLock, currentTarget, statVars>>

\* interruptTarget under round robin: it reads currentTarget, which the loop
\* writes without the lock.
InterruptTarget(h) ==
  /\ hpc[h] = "interrupt"
  /\ Goto(h, IF htarget[h] = currentTarget THEN "sendInterrupt" ELSE "unlock")
  /\ UNCHANGED <<mapVars, targetsLock, currentTarget, statVars>>

Unlock(h) ==
  /\ hpc[h] = "unlock"
  /\ Answer(h)
  /\ targetsLock' = Nobody
  /\ UNCHANGED <<mapVars, currentTarget, statVars>>

-----------------------------------------------------------------------------
(* GET /targets and GET /status: a read lock around a copy of a map. *)

ReadRequest(h) ==
  /\ "read" \in Requests
  /\ hpc[h] = "idle"
  /\ Goto(h, "readLock")
  /\ UNCHANGED <<mapVars, targetsLock, currentTarget, statVars>>

ReadTargets(h) ==
  /\ hpc[h] = "readLock"
  /\ targetsLock \in {Nobody, FuzzLoop}
  /\ Answer(h)
  /\ UNCHANGED <<mapVars, targetsLock, currentTarget, statVars>>

-----------------------------------------------------------------------------
(* Statistics: a running fuzzer's stats service sends on statsChan, which  *)
(* is unbuffered; watchStats receives, then takes the lock to store.       *)

StatsTick(t) ==
  /\ t \notin sending
  /\ sending' = sending \cup {t}
  /\ UNCHANGED <<mapVars, targetsLock, currentTarget, handlerVars, wstat,
                 leftSending>>

\* A left-behind sender that gets rid of its stat finds its stop request and
\* a late tick both ready, and select takes either.
ReceiveStat ==
  /\ wstat = NoTarget
  /\ \/ \E t \in sending :
          /\ wstat' = t
          /\ sending' = sending \ {t}
          /\ UNCHANGED leftSending
     \/ \E t \in leftSending :
          /\ wstat' = t
          /\ leftSending' \in {leftSending, leftSending \ {t}}
          /\ UNCHANGED sending
  /\ UNCHANGED <<mapVars, targetsLock, currentTarget, handlerVars>>

\* Mutant of StoreStat: it does not wait for a stat.
StoreAnyStat ==
  /\ targetsLock = Nobody
  /\ targetStats' = targetStats \cup {wstat}
  /\ wstat' = NoTarget
  /\ UNCHANGED <<targets, targetsTimer, targetsLock, currentTarget,
                 handlerVars, sending, leftSending>>

StoreStat ==
  /\ wstat # NoTarget
  /\ targetsLock = Nobody
  /\ targetStats' = targetStats \cup {wstat}
  /\ wstat' = NoTarget
  /\ UNCHANGED <<targets, targetsTimer, targetsLock, currentTarget,
                 handlerVars, sending, leftSending>>

-----------------------------------------------------------------------------
\* A client sends a request.
NewRequest(h) ==
  \/ \E t \in Target : RegisterTarget(h, t) \/ UnregisterTarget(h, t)
  \/ ReadRequest(h)

\* A request moves on by itself.
HandlerStep(h) ==
  \/ AddLock(h)
  \/ AddMaps(h)
  \/ RemoveLock(h)
  \/ RemoveMaps(h)
  \/ InterruptTarget(h)
  \/ Unlock(h)
  \/ ReadTargets(h)

\* A request that waits for targetsLock gets it.
AcquireLock(h) == AddLock(h) \/ RemoveLock(h) \/ ReadTargets(h)

-----------------------------------------------------------------------------
Fuzzable(t) == Language[t] \in FuzzServices

RegistryTypeOK ==
  /\ targets \subseteq Target
  /\ targetsTimer \in [DOMAIN targetsTimer -> Nat]
  /\ DOMAIN targetsTimer \subseteq Target
  /\ targetStats \subseteq Target
  /\ targetsLock \in Handler \cup {Nobody, FuzzLoop}
  /\ currentTarget \in Target \cup {NoTarget, NotSelected}
  /\ hpc \in [Handler -> Location]
  /\ htarget \in [Handler -> Target \cup {NoTarget}]
  /\ wstat \in Target \cup {NoTarget}
  /\ sending \subseteq Target
  /\ leftSending \subseteq Target

\* The handler in the critical section, and no other, holds targetsLock.
LockHeld ==
  \A h \in Handler : hpc[h] \in InCriticalSection <=> targetsLock = h

\* A request to register or unregister is about a target.
RequestHasTarget ==
  \A h \in Handler :
    hpc[h] \notin {"idle", "readLock"} <=> htarget[h] \in Target

\* A late stat can bring an entry of targetStats back, but never costs a
\* registered target its entry (main.go:42-47, 67-68 against fuzz.go:105-107).
StatsCoverTargets == targets \subseteq targetStats
=============================================================================
