----------------------------- MODULE RoundRobin -----------------------------
(***************************************************************************)
(* The daemon under the robin strategy: the registry of TargetRegistry     *)
(* composed with fuzzRoundRobin and nextTarget of cmd/maxfuzz/fuzz.go,     *)
(* which give the registered targets turns of fuzzInterval seconds.  The   *)
(* loop reads the maps partly under targetsLock and partly without it, and *)
(* a handler that removes the current target waits for the loop's select   *)
(* with the lock held.                                                     *)
(*                                                                         *)
(* The loop runs outside any recover: its panic ends the process.          *)
(***************************************************************************)
EXTENDS TargetRegistry

CONSTANT MaxTime    \* the latest time; as many targets can have a timer

ASSUME RobinAssumption == fuzzStrategy = "robin"

ASSUME TimeAssumption == MaxTime \in Nat

VARIABLES
  fpc,        \* where the loop is
  cycleEnd,   \* nextTarget was called when a turn ended (fuzz.go:196)
  selected,   \* nextTarget's selectedTarget, then its result
  metric,     \* nextTarget's metric
  visited,    \* the targets nextTarget's range has been over
  skip,       \* skipFuzzerStartup
  fuzzing,    \* the target of the running supervisor
  alive       \* the process has not crashed

callVars == <<cycleEnd, selected, metric, visited>>
loopVars == <<fpc, callVars, skip, fuzzing, alive>>
vars     == <<registryVars, loopVars>>

Init ==
  /\ RegistryInit
  /\ fpc = "count"
  /\ cycleEnd = FALSE
  /\ selected = NoTarget
  /\ metric = 0
  /\ visited = {}
  /\ skip = FALSE
  /\ fuzzing = NoTarget
  /\ alive = TRUE

-----------------------------------------------------------------------------
\* targetCount, under the read lock; with no target the loop sleeps and counts
\* again.
CountTargets ==
  /\ fpc = "count"
  /\ targetsLock = Nobody
  /\ targets # {}
  /\ fpc' = IF skip THEN "select" ELSE "next"
  /\ skip' = FALSE
  /\ UNCHANGED <<registryVars, callVars, fuzzing, alive>>

\* nextTarget's test for an empty map, without the lock.
CallNextTarget ==
  /\ fpc = "next"
  /\ IF targets = {}
     THEN fpc' = "return" /\ selected' = NoTarget
     ELSE fpc' = "rlock" /\ UNCHANGED selected
  /\ UNCHANGED <<registryVars, cycleEnd, metric, visited, skip,
                 fuzzing, alive>>

\* RLock, then either the only target or the start of the range.
RLockTargets ==
  /\ fpc = "rlock"
  /\ targetsLock = Nobody
  /\ \/ /\ \E t \in Target : targets = {t} /\ selected' = t
        /\ fpc' = "return"
        /\ UNCHANGED targetsLock
     \/ /\ \A t \in Target : targets # {t}
        /\ selected' = NotSelected
        /\ fpc' = "range"
        /\ targetsLock' = FuzzLoop
  /\ UNCHANGED <<mapVars, currentTarget, handlerVars, statVars, cycleEnd,
                 metric, visited, skip, fuzzing, alive>>

\* Mutants of RangeTimer: metric is not brought up to date; the previous
\* target is not passed over.
RangeKeepsMetric(k) ==
  /\ fpc = "range"
  /\ k \in DOMAIN targetsTimer \ visited
  /\ visited' = visited \cup {k}
  /\ IF selected = NotSelected
     THEN selected' = k /\ metric' = targetsTimer[k]
     ELSE /\ selected' = IF targetsTimer[k] < metric /\ k # currentTarget
                         THEN k ELSE selected
          /\ UNCHANGED metric
  /\ UNCHANGED <<registryVars, fpc, cycleEnd, skip, fuzzing, alive>>

RangeFromPrevious(k) ==
  /\ fpc = "range"
  /\ k \in DOMAIN targetsTimer \ visited
  /\ visited' = visited \cup {k}
  /\ IF selected = NotSelected \/ targetsTimer[k] < metric
     THEN selected' = k /\ metric' = targetsTimer[k]
     ELSE UNCHANGED <<selected, metric>>
  /\ UNCHANGED <<registryVars, fpc, cycleEnd, skip, fuzzing, alive>>

\* One turn of the range over targetsTimer, whose order Go leaves open.
RangeTimer(k) ==
  /\ fpc = "range"
  /\ k \in DOMAIN targetsTimer \ visited
  /\ visited' = visited \cup {k}
  /\ IF \/ selected = NotSelected
        \/ targetsTimer[k] < metric /\ k # currentTarget
     THEN selected' = k /\ metric' = targetsTimer[k]
     ELSE UNCHANGED <<selected, metric>>
  /\ UNCHANGED <<registryVars, fpc, cycleEnd, skip, fuzzing, alive>>

RUnlockTargets ==
  /\ fpc = "range"
  /\ visited = DOMAIN targetsTimer
  /\ targetsLock' = Nobody
  /\ metric' = 0
  /\ visited' = {}
  /\ fpc' = "return"
  /\ UNCHANGED <<mapVars, currentTarget, handlerVars, statVars, cycleEnd,
                 selected, skip, fuzzing, alive>>

-----------------------------------------------------------------------------
\* currentTarget = nextTarget()
SetCurrentTarget ==
  /\ fpc = "return"
  /\ ~cycleEnd
  /\ currentTarget' = selected
  /\ selected' = NoTarget
  /\ fpc' = "lookup"
  /\ UNCHANGED <<mapVars, targetsLock, handlerVars, statVars, cycleEnd,
                 metric, visited, skip, fuzzing, alive>>

\* targets[currentTarget].Language, without the lock: for a key that is gone
\* the lookup gives a nil *Target.
LookupLanguage ==
  /\ fpc = "lookup"
  /\ IF currentTarget \in targets
     THEN /\ fpc' = IF Fuzzable(currentTarget) THEN "start" ELSE "count"
          /\ UNCHANGED alive
     ELSE /\ alive' = FALSE
          /\ UNCHANGED fpc
  /\ UNCHANGED <<registryVars, callVars, skip, fuzzing>>

\* The second lookup, for the constructor, and ServeBackground.
StartFuzzer ==
  /\ fpc = "start"
  /\ IF currentTarget \in targets
     THEN /\ fpc' = "select"
          /\ fuzzing' = currentTarget
          /\ UNCHANGED alive
     ELSE /\ alive' = FALSE
          /\ UNCHANGED <<fpc, fuzzing>>
  /\ UNCHANGED <<registryVars, callVars, skip>>

\* <-timer.C
TimerFires ==
  /\ fpc = "select"
  /\ fpc' = "stamp"
  /\ UNCHANGED <<registryVars, callVars, skip, fuzzing, alive>>

\* time.Now() is later than every stamp so far, and timers are only compared
\* with one another and with the 0 of a target that had no turn: the model
\* keeps their order and not their values.
StampedLast(timer, t) ==
  LET others == DOMAIN timer \ {t}
  IN /\ timer[t] > 0
     /\ \A u \in others : /\ timer[u] < timer[t]
                          /\ timer[u] = 0 <=> targetsTimer[u] = 0
     /\ \A u, v \in others : timer[u] < timer[v]
                                 <=> targetsTimer[u] < targetsTimer[v]

\* Mutants of StampTarget: the write is not under the lock; there is no write.
StampUnlocked ==
  /\ fpc = "stamp"
  /\ \E timer \in [DOMAIN targetsTimer \cup {currentTarget} -> 0 .. MaxTime] :
       /\ StampedLast(timer, currentTarget)
       /\ targetsTimer' = timer
  /\ cycleEnd' = TRUE
  /\ fpc' = "next"
  /\ UNCHANGED <<targets, targetStats, targetsLock, currentTarget,
                 handlerVars, statVars, selected, metric, visited, skip,
                 fuzzing, alive>>

StampNothing ==
  /\ fpc = "stamp"
  /\ targetsLock = Nobody
  /\ cycleEnd' = TRUE
  /\ fpc' = "next"
  /\ UNCHANGED <<registryVars, selected, metric, visited, skip, fuzzing, alive>>

\* The turn's end is written under the lock; then nextTarget is called to see
\* whether the same target is to go on.
StampTarget ==
  /\ fpc = "stamp"
  /\ targetsLock = Nobody
  /\ \E timer \in [DOMAIN targetsTimer \cup {currentTarget} -> 0 .. MaxTime] :
       /\ StampedLast(timer, currentTarget)
       /\ targetsTimer' = timer
  /\ cycleEnd' = TRUE
  /\ fpc' = "next"
  /\ UNCHANGED <<targets, targetStats, targetsLock, currentTarget,
                 handlerVars, statVars, selected, metric, visited, skip,
                 fuzzing, alive>>

\* Mutant of EndCycle: the supervisor of the turn that is over is not stopped.
EndCycleOnly ==
  /\ fpc = "return"
  /\ cycleEnd
  /\ fpc' = "count"
  /\ skip' = (selected = currentTarget)
  /\ selected' = NoTarget
  /\ cycleEnd' = FALSE
  /\ UNCHANGED <<registryVars, metric, visited, fuzzing, alive>>

EndCycle ==
  /\ fpc = "return"
  /\ cycleEnd
  /\ IF selected = currentTarget
     THEN fpc' = "count" /\ skip' = TRUE
     ELSE fpc' = "kill" /\ UNCHANGED skip
  /\ selected' = NoTarget
  /\ cycleEnd' = FALSE
  /\ UNCHANGED <<registryVars, metric, visited, fuzzing, alive>>

\* <-stopChan, whose value is ignored.
ReceiveStop(h) ==
  /\ fpc = "select"
  /\ hpc[h] = "sendInterrupt"
  /\ Goto(h, "unlock")
  /\ fpc' = "kill"
  /\ UNCHANGED <<mapVars, targetsLock, currentTarget, statVars, callVars, skip,
                 fuzzing, alive>>

\* fuzzerSupervisor.Stop: it returns when the services have stopped or when
\* suture's Timeout runs out, leaving a stats service in its send.
StopFuzzer ==
  /\ fpc = "kill"
  /\ sending' = sending \ {fuzzing}
  /\ leftSending' = leftSending \cup (sending \cap {fuzzing})
  /\ fuzzing' = NoTarget
  /\ fpc' = "count"
  /\ UNCHANGED <<mapVars, targetsLock, currentTarget, handlerVars, wstat,
                 callVars, skip, alive>>

\* The Go runtime ends the process when it sees a map read by one goroutine
\* while another writes it: the log line of fuzz.go:173 and the lookups of
\* fuzz.go:176 and 182 against a handler in its critical section.
ConcurrentMapAccess ==
  /\ \/ fpc = "next" /\ ~cycleEnd
     \/ fpc \in {"lookup", "start"}
  /\ WritingMaps
  /\ alive' = FALSE
  /\ UNCHANGED <<registryVars, fpc, callVars, skip, fuzzing>>

-----------------------------------------------------------------------------
FuzzerTick ==
  /\ fuzzing # NoTarget
  /\ StatsTick(fuzzing)
  /\ UNCHANGED loopVars

\* The loop's waits for targetsLock.
AcquireByLoop == CountTargets \/ RLockTargets \/ StampTarget

LoopStep ==
  \/ CountTargets
  \/ CallNextTarget
  \/ RLockTargets
  \/ \E k \in Target : RangeTimer(k)
  \/ RUnlockTargets
  \/ SetCurrentTarget
  \/ LookupLanguage
  \/ StartFuzzer
  \/ TimerFires
  \/ StampTarget
  \/ EndCycle
  \/ \E h \in Handler : ReceiveStop(h)
  \/ StopFuzzer
  \/ ConcurrentMapAccess

RegistryStep ==
  \/ \E h \in Handler : NewRequest(h) \/ HandlerStep(h)
  \/ ReceiveStat
  \/ StoreStat

Next ==
  /\ alive
  /\ \/ RegistryStep /\ UNCHANGED loopVars
     \/ LoopStep
     \/ FuzzerTick

Spec == Init /\ [][Next]_vars

\* As under the parallel strategy; and every order of a range over a map comes
\* up again and again, so every target is the first of some range.
FairSpec ==
  /\ Spec
  /\ \A h \in Handler : SF_vars(alive /\ AcquireLock(h) /\ UNCHANGED loopVars)
  /\ \A h \in Handler : WF_vars(alive /\ HandlerStep(h) /\ UNCHANGED loopVars)
  /\ WF_vars(alive /\ ReceiveStat /\ UNCHANGED loopVars)
  /\ SF_vars(alive /\ StoreStat /\ UNCHANGED loopVars)
  /\ WF_vars(alive /\ LoopStep)
  /\ SF_vars(alive /\ AcquireByLoop)
  /\ \A k \in Target : SF_vars(alive /\ visited = {} /\ RangeTimer(k))

-----------------------------------------------------------------------------
(* Properties *)

LoopTypeOK ==
  /\ fpc \in {"count", "next", "rlock", "range", "return", "lookup", "start",
              "select", "stamp", "kill"}
  /\ cycleEnd \in BOOLEAN
  /\ selected \in Target \cup {NoTarget, NotSelected}
  /\ metric \in Nat
  /\ visited \subseteq Target
  /\ skip \in BOOLEAN
  /\ fuzzing \in Target \cup {NoTarget}
  /\ alive \in BOOLEAN

\* Variables hold values of their types; the process's state is main.go's maps
\* and fuzz.go's currentTarget with the locals of its loop.
TypeOK == RegistryTypeOK /\ LoopTypeOK

\* The write targetsTimer[currentTarget] of the loop (fuzz.go:194) never brings
\* back the timer of a target that removeTarget deleted (main.go:67-71), which
\* nextTarget would go on selecting: the two maps have the same keys.
TimerMatchesTargets == DOMAIN targetsTimer = targets

\* A turn is only waited for while its target is registered, unless its
\* remover is on the way to interrupt it (fuzz.go:191 against main.go:60-78):
\* no removal slips past the unlocked assignment of currentTarget.
RunningTargetRegistered ==
  fpc = "select" =>
    \/ fuzzing \in targets
    \/ \E h \in Handler : /\ hpc[h] \in {"interrupt", "sendInterrupt"}
                          /\ htarget[h] = fuzzing

\* Whatever order the range over the map takes, nextTarget's result has waited
\* as long as every target but the previous one (fuzz.go:54-66).
LongestWaitingFirst ==
  fpc = "range" /\ visited = targets /\ targets # {} =>
    /\ selected \in targets
    /\ \A t \in targets \ {currentTarget} :
         targetsTimer[selected] <= targetsTimer[t]

\* A target whose turn has ended is not given the next one while another
\* target is registered (fuzz.go:192-201).
NoSecondTurn ==
  fpc = "range" /\ cycleEnd /\ visited = targets /\ targets # {currentTarget}
    => selected # currentTarget

\* The variable of the running supervisor is not overwritten while it runs: nobody
\* could stop that fuzzer any more.  The loop skips the start when the same target
\* goes on, and every other way back leads through Stop (fuzz.go:171-189, 197-214).
OneSupervisor == fpc = "start" => fuzzing = NoTarget

\* As long as clients only register, every registered target with a supported
\* language gets its turn, again and again, even beside a target that can never be
\* fuzzed, unless an unlocked read of a map ends the process.
EveryTargetGetsATurn ==
  \A t \in Target : Fuzzable(t) /\ t \in targets ~> fuzzing = t \/ ~alive

\* fuzz.go:172: the "next" target comes from the list of targets.
NextTargetIsListed == fpc = "lookup" => currentTarget \in targets

\* fuzz.go:203: a stop is taken to be about the current target.
StopIsForCurrent ==
  [][\A h \in Handler : ReceiveStop(h) => htarget[h] = currentTarget]_vars

\* fuzz.go:203: a removal makes the loop pick a new target; it does not stop it.
RemovalLetsLoopGoOn ==
  ~ /\ \E h \in Handler : hpc[h] = "sendInterrupt"
    /\ fpc \in {"count", "rlock", "stamp"}
=============================================================================
