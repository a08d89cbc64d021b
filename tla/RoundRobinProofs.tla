-------------------------- MODULE RoundRobinProofs --------------------------
(***************************************************************************)
(* Theorems about RoundRobin for every set of targets and handlers and     *)
(* every assignment of languages: its types, that the timers have the keys *)
(* of the registry, that a running turn cannot miss the removal of its     *)
(* target, and that nextTarget hands out the turns in order of waiting     *)
(* whatever the order of its range.                                        *)
(***************************************************************************)
EXTENDS RoundRobin, TargetRegistryProofs

\* A call of nextTarget is in progress.
Calling == fpc \in {"next", "rlock", "range", "return"}

\* The turn of currentTarget has begun and not been ended.
Running ==
  \/ fpc \in {"select", "stamp"}
  \/ Calling /\ cycleEnd
  \/ fpc = "count" /\ skip

\* What the loop's location says of its locals.
ControlInv ==
  /\ cycleEnd => Calling
  /\ skip => fpc = "count"
  /\ Running \/ fpc = "start" => currentTarget \in Target
  /\ fpc # "range" => visited = {}

\* TypeOK is inductive with that and with what requests are about.
TypeInv ==
  /\ RegistryTypeOK
  /\ RequestHasTarget
  /\ LoopTypeOK
  /\ ControlInv

\* The mutex: handlers hold it in their critical sections, and the loop during
\* the range of nextTarget.
LockInv ==
  /\ LockHeld
  /\ targetsLock = FuzzLoop <=> fpc = "range"

\* A handler writes a target into the maps only when it is not there.
HandlerInv ==
  \A h \in Handler : hpc[h] = "addMaps" => htarget[h] \notin targets

\* The running turn is its target's, and a remover of that target cannot have
\* got past its interrupt.
RunningInv ==
  Running =>
    /\ fuzzing = currentTarget
    /\ \/ currentTarget \in targets
       \/ At(currentTarget, "interrupt")
       \/ At(currentTarget, "sendInterrupt")

\* nextTarget's loop invariant: of the targets it has been over, the selected
\* one has waited longest, the previous target left aside.
RangeInv ==
  fpc = "range" =>
    /\ visited \subseteq targets
    /\ visited = {} => selected = NotSelected
    /\ visited # {} =>
         /\ selected \in visited
         /\ metric = targetsTimer[selected]
         /\ \A t \in visited \ {currentTarget} : metric <= targetsTimer[t]

\* When a turn ends, no other target has as late a timer.
CycleInv ==
  cycleEnd /\ currentTarget \in targets =>
    /\ targetsTimer[currentTarget] > 0
    /\ \A t \in targets \ {currentTarget} :
         targetsTimer[t] < targetsTimer[currentTarget]

Inv ==
  /\ LockInv
  /\ HandlerInv
  /\ TimerMatchesTargets
  /\ RunningInv
  /\ RangeInv
  /\ CycleInv

-----------------------------------------------------------------------------
(* Types *)

LEMMA TimesAreNat == 0 .. MaxTime \subseteq Nat
  BY TimeAssumption

LEMMA TypeInvInit == Init => TypeInv
<1>1. Init => RegistryTypeOK /\ RequestHasTarget
  BY TargetAssumption DEF Init, RegistryInit, RegistryTypeOK, RequestHasTarget,
     Location, NoTarget
<1>2. Init => LoopTypeOK
  <2>1. Init => fpc = "count" /\ cycleEnd = FALSE /\ skip = FALSE /\ alive = TRUE
    BY DEF Init
  <2>2. Init => /\ selected \in Target \cup {NoTarget, NotSelected}
                /\ metric \in Nat
                /\ visited \subseteq Target
                /\ fuzzing \in Target \cup {NoTarget}
    BY DEF Init
  <2>3. QED
    BY <2>1, <2>2 DEF LoopTypeOK
<1>3. Init => ControlInv
  BY DEF Init, ControlInv, Running, Calling
<1>4. QED
  BY <1>1, <1>2, <1>3 DEF TypeInv

\* Statistics and the loop, few of whose steps write the registry.
LEMMA RegistryTypesLoop ==
  ASSUME TypeInv,
         \/ (ReceiveStat \/ StoreStat) /\ UNCHANGED loopVars
         \/ LoopStep
         \/ FuzzerTick
         \/ UNCHANGED vars
  PROVE  RegistryTypeOK' /\ RequestHasTarget'
<1> USE TargetAssumption, TimeAssumption
    DEF TypeInv, RegistryTypeOK, RequestHasTarget, Location, InCriticalSection,
        mapVars, statVars, handlerVars, NoTarget
<1>1. CASE ReceiveStat /\ UNCHANGED loopVars
  BY <1>1 DEF ReceiveStat
<1>2. CASE StoreStat /\ UNCHANGED loopVars
  BY <1>2 DEF StoreStat
<1>3. CASE FuzzerTick
  BY <1>3 DEF FuzzerTick, StatsTick, LoopTypeOK
<1>4. CASE RLockTargets \/ RUnlockTargets
  BY <1>4 DEF RLockTargets, RUnlockTargets
<1>5. CASE SetCurrentTarget
  BY <1>5 DEF SetCurrentTarget, LoopTypeOK
<1>6. CASE StampTarget
  <2>1. currentTarget \in Target
    BY <1>6 DEF StampTarget, ControlInv, Running
  <2>2. PICK timer \in [DOMAIN targetsTimer \cup {currentTarget} -> 0 .. MaxTime] :
          targetsTimer' = timer
    BY <1>6 DEF StampTarget
  <2>3. 0 .. MaxTime \subseteq Nat
    BY TimesAreNat
  <2>4. targetsTimer' \in [DOMAIN targetsTimer' -> Nat]
    BY <2>2, <2>3
  <2>5. DOMAIN targetsTimer' \subseteq Target
    BY <2>1, <2>2
  <2>6. QED
    BY <2>4, <2>5, <1>6 DEF StampTarget
<1>7. ASSUME NEW h \in Handler, ReceiveStop(h)
      PROVE  RegistryTypeOK' /\ RequestHasTarget'
  BY <1>7 DEF ReceiveStop, Goto
<1>8. CASE StopFuzzer
  BY <1>8 DEF StopFuzzer
<1>9. CASE \/ CountTargets \/ CallNextTarget \/ EndCycle \/ LookupLanguage
           \/ StartFuzzer \/ TimerFires \/ ConcurrentMapAccess
           \/ \E k \in Target : RangeTimer(k)
           \/ UNCHANGED vars
  <2>1. UNCHANGED registryVars
    BY <1>9 DEF CountTargets, CallNextTarget, EndCycle, LookupLanguage,
       StartFuzzer, TimerFires, ConcurrentMapAccess, RangeTimer, vars
  <2>2. QED
    BY <2>1 DEF registryVars
<1>10. QED
  BY <1>1, <1>2, <1>3, <1>4, <1>5, <1>6, <1>7, <1>8, <1>9 DEF LoopStep

\* The loop's locals.
LEMMA LoopTypes ==
  ASSUME TypeInv, LoopStep \/ UNCHANGED <<loopVars, currentTarget>>
  PROVE  LoopTypeOK' /\ ControlInv'
<1>1. LoopTypeOK'
  <2> USE DEF TypeInv, RegistryTypeOK, LoopTypeOK, callVars
  <2>1. CASE CountTargets \/ CallNextTarget \/ SetCurrentTarget \/ EndCycle
    BY <2>1 DEF CountTargets, CallNextTarget, SetCurrentTarget, EndCycle
  <2>2. CASE RLockTargets \/ RUnlockTargets
    BY <2>2 DEF RLockTargets, RUnlockTargets
  <2>3. ASSUME NEW k \in Target, RangeTimer(k)
        PROVE  LoopTypeOK'
    BY <2>3 DEF RangeTimer
  <2>4. CASE LookupLanguage \/ StartFuzzer \/ StampTarget
    BY <2>4 DEF LookupLanguage, StartFuzzer, StampTarget, ControlInv
  <2>5. CASE TimerFires \/ ConcurrentMapAccess \/ StopFuzzer
    BY <2>5 DEF TimerFires, ConcurrentMapAccess, StopFuzzer
  <2>6. CASE \E h \in Handler : ReceiveStop(h)
    BY <2>6 DEF ReceiveStop
  <2>7. CASE UNCHANGED loopVars
    BY <2>7 DEF loopVars
  <2>8. QED
    BY <2>1, <2>2, <2>3, <2>4, <2>5, <2>6, <2>7 DEF LoopStep
<1>2. ControlInv'
  <2> USE DEF TypeInv, RegistryTypeOK, LoopTypeOK, ControlInv, Running, Calling,
              callVars, registryVars
  <2>1. CASE CountTargets \/ CallNextTarget
    BY <2>1 DEF CountTargets, CallNextTarget
  <2>2. CASE SetCurrentTarget \/ EndCycle
    BY <2>2 DEF SetCurrentTarget, EndCycle
  <2>3. CASE RLockTargets \/ RUnlockTargets
    BY <2>3 DEF RLockTargets, RUnlockTargets
  <2>4. CASE \E k \in Target : RangeTimer(k)
    BY <2>4 DEF RangeTimer
  <2>5. CASE LookupLanguage \/ StartFuzzer
    BY <2>5 DEF LookupLanguage, StartFuzzer
  <2>6. CASE StampTarget
    BY <2>6 DEF StampTarget
  <2>7. CASE TimerFires \/ ConcurrentMapAccess \/ StopFuzzer
    BY <2>7 DEF TimerFires, ConcurrentMapAccess, StopFuzzer
  <2>8. CASE \E h \in Handler : ReceiveStop(h)
    BY <2>8 DEF ReceiveStop
  <2>9. CASE UNCHANGED <<loopVars, currentTarget>>
    BY <2>9 DEF loopVars
  <2>10. QED
    BY <2>1, <2>2, <2>3, <2>4, <2>5, <2>6, <2>7, <2>8, <2>9 DEF LoopStep
<1>3. QED
  BY <1>1, <1>2

\* Only the loop assigns its locals and currentTarget.
LEMMA RegistryFrame ==
  ASSUME \/ RegistryStep /\ UNCHANGED loopVars
         \/ FuzzerTick
         \/ UNCHANGED vars
  PROVE  UNCHANGED <<loopVars, currentTarget>>
  BY DEF RegistryStep, NewRequest, HandlerStep, RegisterTarget,
     UnregisterTarget, ReadRequest, AddLock, AddMaps, RemoveLock, RemoveMaps,
     InterruptTarget, Unlock, ReadTargets, ReceiveStat, StoreStat, FuzzerTick,
     StatsTick, vars, registryVars

LEMMA TypeInvStep == TypeInv /\ [Next]_vars => TypeInv'
<1>1. TypeInv /\ [Next]_vars => RegistryTypeOK' /\ RequestHasTarget'
  BY RegistryTypesHandler, RegistryTypesLoop DEF Next, RegistryStep, TypeInv
<1>2. TypeInv /\ [Next]_vars => LoopTypeOK' /\ ControlInv'
  <2>1. [Next]_vars => LoopStep \/ UNCHANGED <<loopVars, currentTarget>>
    BY RegistryFrame DEF Next
  <2>2. QED
    BY <2>1, LoopTypes
<1>3. QED
  BY <1>1, <1>2 DEF TypeInv

\* Every variable of the daemon keeps to its type.
THEOREM TypeCorrect == Spec => []TypeOK
<1>1. TypeInv => TypeOK
  BY DEF TypeInv, TypeOK
<1>2. QED
  BY <1>1, TypeInvInit, TypeInvStep, PTL DEF Spec

-----------------------------------------------------------------------------
(* The mutex *)

LEMMA LockInvStep ==
  ASSUME TypeInv, LockInv, [Next]_vars
  PROVE  LockInv'
<1> USE HandlerAssumption, RobinAssumption
    DEF TypeInv, LoopTypeOK, RegistryTypeOK, LockInv, LockHeld, Location,
        InCriticalSection, Begin, Answer, Goto, loopVars, callVars, mapVars,
        statVars, handlerVars, registryVars, Nobody, FuzzLoop
<1>1. ASSUME NEW h \in Handler, NewRequest(h), UNCHANGED loopVars
      PROVE  LockInv'
  BY <1>1 DEF NewRequest, RegisterTarget, UnregisterTarget, ReadRequest
<1>2. ASSUME NEW h \in Handler, AddLock(h) \/ RemoveLock(h), UNCHANGED loopVars
      PROVE  LockInv'
  BY <1>2 DEF AddLock, RemoveLock
<1>3. ASSUME NEW h \in Handler, UNCHANGED loopVars,
             AddMaps(h) \/ RemoveMaps(h) \/ InterruptTarget(h)
      PROVE  LockInv'
  BY <1>3 DEF AddMaps, RemoveMaps, InterruptTarget
<1>4. ASSUME NEW h \in Handler, Unlock(h) \/ ReadTargets(h), UNCHANGED loopVars
      PROVE  LockInv'
  BY <1>4 DEF Unlock, ReadTargets
<1>5. CASE ((ReceiveStat \/ StoreStat) /\ UNCHANGED loopVars) \/ FuzzerTick
  BY <1>5 DEF ReceiveStat, StoreStat, FuzzerTick, StatsTick
<1>6. CASE RLockTargets \/ RUnlockTargets
  BY <1>6 DEF RLockTargets, RUnlockTargets
<1>7. CASE CountTargets \/ CallNextTarget \/ SetCurrentTarget \/ EndCycle
  BY <1>7 DEF CountTargets, CallNextTarget, SetCurrentTarget, EndCycle
<1>8. CASE LookupLanguage \/ StartFuzzer \/ TimerFires \/ ConcurrentMapAccess
  BY <1>8 DEF LookupLanguage, StartFuzzer, TimerFires, ConcurrentMapAccess
<1>9. CASE StampTarget \/ StopFuzzer \/ \E k \in Target : RangeTimer(k)
  BY <1>9 DEF StampTarget, StopFuzzer, RangeTimer
<1>10. ASSUME NEW h \in Handler, ReceiveStop(h)
       PROVE  LockInv'
  BY <1>10 DEF ReceiveStop
<1>11. CASE UNCHANGED vars
  BY <1>11 DEF vars
<1>12. QED
  BY <1>1, <1>2, <1>3, <1>4, <1>5, <1>6, <1>7, <1>8, <1>9, <1>10, <1>11
     DEF Next, RegistryStep, LoopStep, HandlerStep

-----------------------------------------------------------------------------
(* The invariant *)

LEMMA InvInit == Init => Inv
<1>1. Init => LockInv /\ HandlerInv
  BY HandlerAssumption DEF Init, RegistryInit, LockInv, LockHeld, HandlerInv,
     InCriticalSection, Nobody, FuzzLoop
<1>2. Init => TimerMatchesTargets
  BY DEF Init, RegistryInit, TimerMatchesTargets
<1>3. Init => ~Running /\ fpc # "range" /\ ~cycleEnd
  BY DEF Init, Running, Calling
<1>4. QED
  BY <1>1, <1>2, <1>3 DEF Inv, RunningInv, RangeInv, CycleInv

\* A step of a handler that stays outside its critical section.
LEMMA InvOutside ==
  ASSUME TypeInv, Inv, LockInv', UNCHANGED <<mapVars, currentTarget, loopVars>>,
         NEW h \in Handler,
         \A g \in Handler \ {h} : hpc'[g] = hpc[g] /\ htarget'[g] = htarget[g],
         hpc[h] \notin InCriticalSection, hpc'[h] \notin InCriticalSection
  PROVE  Inv'
<1> USE DEF InCriticalSection, loopVars, callVars, mapVars
<1>1. \A t : \A l \in InCriticalSection : At(t, l)' <=> At(t, l)
  BY AtOutside
<1>2. HandlerInv' /\ TimerMatchesTargets'
  BY DEF Inv, HandlerInv, TimerMatchesTargets
<1>3. RunningInv'
  BY <1>1 DEF Inv, RunningInv, Running, Calling
<1>4. RangeInv'
  BY DEF Inv, RangeInv
<1>5. CycleInv'
  BY DEF Inv, CycleInv
<1>6. QED
  BY <1>2, <1>3, <1>4, <1>5 DEF Inv

\* A step inside, or into, a handler's critical section: the loop is in no
\* range, and every other handler is outside.
LEMMA InvInside ==
  ASSUME Inv, LockInv', UNCHANGED loopVars,
         NEW h \in Handler,
         \A g \in Handler \ {h} : hpc'[g] = hpc[g] /\ htarget'[g] = htarget[g],
         targetsLock = h \/ targetsLock' = h,
         hpc'[h] = "addMaps" => htarget'[h] \notin targets'
  PROVE  RangeInv' /\ HandlerInv'
<1>1. fpc # "range" /\ fpc' = fpc
  BY HandlerAssumption DEF Inv, LockInv, loopVars
<1>2. \A g \in Handler \ {h} : hpc'[g] # "addMaps"
  BY DEF Inv, LockInv, LockHeld, InCriticalSection
<1>3. QED
  BY <1>1, <1>2 DEF RangeInv, HandlerInv

LEMMA InvHandler ==
  ASSUME TypeInv, Inv, LockInv', UNCHANGED loopVars,
         NEW h \in Handler, NewRequest(h) \/ HandlerStep(h)
  PROVE  Inv'
<1> USE DEF InCriticalSection
<1>h. /\ hpc \in [Handler -> Location]
      /\ htarget \in [Handler -> Target \cup {NoTarget}]
      /\ RegistryTypeOK
      /\ RequestHasTarget
  BY DEF TypeInv, RegistryTypeOK
<1>i. HandlerInv /\ RunningInv /\ CycleInv /\ LockInv /\ LockHeld /\ LockHeld'
      /\ TimerMatchesTargets
  BY DEF Inv, LockInv
<1>m. \A g \in Handler \ {h} : hpc'[g] = hpc[g] /\ htarget'[g] = htarget[g]
  BY <1>h, HandlerMoves
<1>r. (Running' <=> Running) /\ UNCHANGED <<fpc, cycleEnd, fuzzing>>
  BY DEF Running, Calling, loopVars, callVars
<1>c. cycleEnd => Running
  BY DEF TypeInv, ControlInv, Running
<1>1. CASE \/ NewRequest(h) \/ ReadTargets(h)
           \/ AddLock(h) /\ htarget[h] \in targets
           \/ RemoveLock(h) /\ htarget[h] \notin targets
  <2>1. /\ hpc[h] \notin InCriticalSection
        /\ hpc'[h] \notin InCriticalSection
        /\ UNCHANGED <<mapVars, currentTarget>>
    BY <1>1, <1>h DEF NewRequest, RegisterTarget, UnregisterTarget, ReadRequest,
       ReadTargets, AddLock, RemoveLock, Answer, Begin, Goto
  <2>2. QED
    BY <2>1, <1>m, InvOutside
<1>2. CASE \/ AddLock(h) /\ htarget[h] \notin targets
           \/ RemoveLock(h) /\ htarget[h] \in targets
  <2>1. /\ hpc'[h] = "addMaps" => htarget[h] \notin targets
        /\ UNCHANGED <<mapVars, htarget, currentTarget>>
        /\ targetsLock = Nobody
        /\ targetsLock' = h
    BY <1>2, <1>h DEF AddLock, RemoveLock, Goto
  <2>2. \A t : ~At(t, "interrupt") /\ ~At(t, "sendInterrupt")
    BY <2>1, <1>i, AtNobody
  <2>3. RangeInv' /\ HandlerInv'
    BY <2>1, <1>m, InvInside DEF mapVars
  <2>4. RunningInv'
    BY <2>1, <2>2, <1>i, <1>r DEF RunningInv, mapVars
  <2>5. CycleInv' /\ TimerMatchesTargets'
    BY <2>1, <1>i, <1>r DEF CycleInv, TimerMatchesTargets, mapVars
  <2>6. QED
    BY <2>3, <2>4, <2>5 DEF Inv
<1>3. CASE AddMaps(h)
  <2>1. /\ hpc[h] = "addMaps"
        /\ hpc'[h] = "unlock"
        /\ UNCHANGED <<currentTarget, targetsLock>>
        /\ targets' = targets \cup {htarget[h]}
        /\ targetsTimer' = [t \in DOMAIN targetsTimer \cup {htarget[h]} |->
                              IF t = htarget[h] THEN 0 ELSE targetsTimer[t]]
    BY <1>3, <1>h, RobinAssumption DEF AddMaps, Goto
  <2>2. targetsLock = h /\ targetsLock' = h
    BY <2>1, <1>i DEF LockHeld
  <2>3. \A t : ~At(t, "interrupt") /\ ~At(t, "sendInterrupt")
    BY <2>1, <2>2, <1>i, AtHolder
  <2>4. RangeInv' /\ HandlerInv'
    BY <2>1, <2>2, <1>m, InvInside
  <2>5. Running => fuzzing = currentTarget /\ currentTarget \in targets
    BY <2>3, <1>i DEF RunningInv
  <2>6. RunningInv'
    BY <2>1, <2>5, <1>r DEF RunningInv
  <2>7. TimerMatchesTargets'
    BY <2>1, <1>i DEF TimerMatchesTargets
  <2>8. CycleInv'
    <3> SUFFICES ASSUME cycleEnd
                 PROVE  /\ targetsTimer'[currentTarget] > 0
                        /\ \A t \in targets' \ {currentTarget} :
                             targetsTimer'[t] < targetsTimer'[currentTarget]
      BY <2>1, <1>r DEF CycleInv
    <3>1. currentTarget \in targets /\ htarget[h] \notin targets
      BY <2>1, <2>5, <1>c, <1>i DEF HandlerInv
    <3>2. targetsTimer'[currentTarget] = targetsTimer[currentTarget]
      BY <2>1, <3>1, <1>i DEF TimerMatchesTargets
    <3>3. /\ targetsTimer[currentTarget] > 0
          /\ \A t \in targets \ {currentTarget} :
               targetsTimer[t] < targetsTimer[currentTarget]
      BY <3>1, <1>i DEF CycleInv
    <3>4. \A t \in targets' : targetsTimer'[t] = IF t = htarget[h]
                                               THEN 0 ELSE targetsTimer[t]
      BY <2>1, <1>i DEF TimerMatchesTargets
    <3>5. targetsTimer[currentTarget] \in Nat
      BY <3>1, <1>h, <1>i DEF RegistryTypeOK, TimerMatchesTargets
    <3>6. QED
      BY <2>1, <3>1, <3>2, <3>3, <3>4, <3>5
  <2>9. QED
    BY <2>4, <2>6, <2>7, <2>8 DEF Inv
<1>4. CASE RemoveMaps(h)
  <2>1. /\ hpc[h] = "removeMaps"
        /\ hpc'[h] = "interrupt"
        /\ UNCHANGED <<currentTarget, targetsLock, htarget>>
        /\ targets' = targets \ {htarget[h]}
        /\ targetsTimer' = [t \in DOMAIN targetsTimer \ {htarget[h]} |->
                              targetsTimer[t]]
    BY <1>4, <1>h, RobinAssumption DEF RemoveMaps, Goto
  <2>2. targetsLock = h /\ targetsLock' = h
    BY <2>1, <1>i DEF LockHeld
  <2>3. \A t : ~At(t, "interrupt") /\ ~At(t, "sendInterrupt")
    BY <2>1, <2>2, <1>i, AtHolder
  <2>4. At(htarget[h], "interrupt")'
    BY <2>1 DEF At
  <2>5. RangeInv' /\ HandlerInv'
    BY <2>1, <2>2, <1>m, InvInside
  <2>6. RunningInv'
    BY <2>1, <2>3, <2>4, <1>i, <1>r DEF RunningInv
  <2>7. TimerMatchesTargets'
    BY <2>1, <1>i DEF TimerMatchesTargets
  <2>8. CycleInv'
    BY <2>1, <1>i, <1>r DEF CycleInv, TimerMatchesTargets
  <2>9. QED
    BY <2>5, <2>6, <2>7, <2>8 DEF Inv
<1>5. CASE InterruptTarget(h)
  <2>1. /\ hpc[h] = "interrupt"
        /\ hpc'[h] = IF htarget[h] = currentTarget
                     THEN "sendInterrupt" ELSE "unlock"
        /\ UNCHANGED <<mapVars, currentTarget, targetsLock, htarget>>
    BY <1>5, <1>h DEF InterruptTarget, Goto
  <2>2. targetsLock = h /\ targetsLock' = h
    BY <2>1, <1>i DEF LockHeld
  <2>3. \A t : /\ At(t, "interrupt") => t = htarget[h]
              /\ ~At(t, "sendInterrupt")
    BY <2>1, <2>2, <1>i, AtHolder
  <2>4. htarget[h] = currentTarget => At(currentTarget, "sendInterrupt")'
    BY <2>1 DEF At
  <2>5. RangeInv' /\ HandlerInv'
    BY <2>1, <2>2, <1>m, InvInside
  <2>6. RunningInv'
    BY <2>1, <2>3, <2>4, <1>i, <1>r DEF RunningInv, mapVars
  <2>7. CycleInv' /\ TimerMatchesTargets'
    BY <2>1, <1>i, <1>r DEF CycleInv, TimerMatchesTargets, mapVars
  <2>8. QED
    BY <2>5, <2>6, <2>7 DEF Inv
<1>6. CASE Unlock(h)
  <2>1. /\ hpc[h] = "unlock"
        /\ hpc'[h] = "idle"
        /\ UNCHANGED <<mapVars, currentTarget>>
    BY <1>6, <1>h DEF Unlock, Answer, Begin
  <2>2. targetsLock = h
    BY <2>1, <1>i DEF LockHeld
  <2>3. \A t : ~At(t, "interrupt") /\ ~At(t, "sendInterrupt")
    BY <2>1, <2>2, <1>i, AtHolder
  <2>4. RangeInv' /\ HandlerInv'
    BY <2>1, <2>2, <1>m, InvInside
  <2>5. RunningInv'
    BY <2>1, <2>3, <1>i, <1>r DEF RunningInv, mapVars
  <2>6. CycleInv' /\ TimerMatchesTargets'
    BY <2>1, <1>i, <1>r DEF CycleInv, TimerMatchesTargets, mapVars
  <2>7. QED
    BY <2>4, <2>5, <2>6 DEF Inv
<1>7. QED
  BY <1>1, <1>2, <1>3, <1>4, <1>5, <1>6 DEF HandlerStep

\* A step that leaves the registry's part of the invariant alone: only the
\* loop's locals matter.
LEMMA InvLocal ==
  ASSUME Inv, LockInv', UNCHANGED <<targets, targetsTimer, hpc, htarget>>,
         RunningInv', RangeInv', CycleInv'
  PROVE  Inv'
<1>1. HandlerInv'
  BY DEF Inv, HandlerInv
<1>2. TimerMatchesTargets'
  BY DEF Inv, TimerMatchesTargets
<1>3. QED
  BY <1>1, <1>2 DEF Inv

\* One turn of nextTarget's range.
LEMMA RangeStep ==
  ASSUME TypeInv, Inv, NEW k \in Target, RangeTimer(k)
  PROVE  RangeInv'
<1>1. /\ fpc = "range"
      /\ k \in targets \ visited
      /\ visited' = visited \cup {k}
      /\ UNCHANGED <<targets, targetsTimer, currentTarget, fpc>>
      /\ IF selected = NotSelected \/ (targetsTimer[k] < metric /\ k # currentTarget)
         THEN selected' = k /\ metric' = targetsTimer[k]
         ELSE UNCHANGED <<selected, metric>>
  BY DEF RangeTimer, Inv, TimerMatchesTargets, registryVars, mapVars
<1>2. /\ visited \subseteq targets
      /\ visited = {} => selected = NotSelected
      /\ visited # {} =>
           /\ selected \in visited
           /\ metric = targetsTimer[selected]
           /\ \A t \in visited \ {currentTarget} : metric <= targetsTimer[t]
  BY <1>1 DEF Inv, RangeInv
<1>3. /\ targets \subseteq Target
      /\ \A t \in targets : targetsTimer[t] \in Nat
  BY DEF TypeInv, RegistryTypeOK, Inv, TimerMatchesTargets
<1>4. CASE visited = {}
  BY <1>1, <1>2, <1>3, <1>4 DEF RangeInv
<1>5. CASE visited # {}
  <2>1. selected \in targets /\ selected # NotSelected
    BY <1>2, <1>3, <1>5, TargetAssumption
  <2>2. CASE targetsTimer[k] < metric /\ k # currentTarget
    <3>1. metric \in Nat /\ targetsTimer[k] \in Nat
      BY <1>1, <1>2, <1>3, <1>5, <2>1
    <3>2. \A t \in visited' \ {currentTarget} : targetsTimer[k] <= targetsTimer[t]
      BY <1>1, <1>2, <1>3, <1>5, <2>2, <3>1
    <3>3. QED
      BY <1>1, <1>2, <2>2, <3>2 DEF RangeInv
  <2>3. CASE ~(targetsTimer[k] < metric /\ k # currentTarget)
    <3>1. metric \in Nat /\ targetsTimer[k] \in Nat
      BY <1>1, <1>2, <1>3, <1>5, <2>1
    <3>2. UNCHANGED <<selected, metric>>
      BY <1>1, <2>1, <2>3
    <3>3. \A t \in visited' \ {currentTarget} : metric <= targetsTimer[t]
      BY <1>1, <1>2, <1>3, <1>5, <2>3, <3>1
    <3>4. QED
      BY <1>1, <1>2, <1>5, <3>2, <3>3 DEF RangeInv
  <2>4. QED
    BY <2>2, <2>3
<1>6. QED
  BY <1>4, <1>5

\* Statistics and the loop.
LEMMA InvLoop ==
  ASSUME TypeInv, Inv, LockInv',
         \/ (ReceiveStat \/ StoreStat) /\ UNCHANGED loopVars
         \/ LoopStep
         \/ FuzzerTick
         \/ UNCHANGED vars
  PROVE  Inv'
<1> USE DEF Calling, mapVars, handlerVars, callVars, registryVars
<1>i. /\ RunningInv /\ RangeInv /\ CycleInv /\ LockInv /\ LockHeld
      /\ TimerMatchesTargets /\ ControlInv
  BY DEF Inv, LockInv, TypeInv
<1>1. CASE \/ (ReceiveStat \/ StoreStat) /\ UNCHANGED loopVars
           \/ FuzzerTick
           \/ ConcurrentMapAccess
           \/ UNCHANGED vars
  <2>1. UNCHANGED <<targets, targetsTimer, hpc, htarget, currentTarget, fpc,
                    cycleEnd, selected, metric, visited, skip, fuzzing>>
    BY <1>1 DEF ReceiveStat, StoreStat, FuzzerTick, StatsTick,
       ConcurrentMapAccess, loopVars, vars
  <2>2. RunningInv'
    BY <2>1, <1>i DEF RunningInv, Running, At
  <2>3. RangeInv' /\ CycleInv'
    BY <2>1, <1>i DEF RangeInv, CycleInv
  <2>4. QED
    BY <2>1, <2>2, <2>3, InvLocal
\* These begin or end no turn, or begin one for a target they have found.
<1>2. CASE CountTargets \/ CallNextTarget \/ EndCycle \/ TimerFires
  <2>1. /\ UNCHANGED <<targets, targetsTimer, hpc, htarget, currentTarget, fuzzing>>
        /\ Running' => Running
        /\ fpc' # "range"
        /\ cycleEnd' => cycleEnd
    BY <1>2, <1>i DEF CountTargets, CallNextTarget, EndCycle, TimerFires, Running,
       ControlInv
  <2>2. RunningInv' /\ RangeInv' /\ CycleInv'
    BY <2>1, <1>i DEF RunningInv, RangeInv, CycleInv, At
  <2>3. QED
    BY <2>1, <2>2, InvLocal
<1>3. CASE RLockTargets
  <2>1. /\ UNCHANGED <<targets, targetsTimer, hpc, htarget, currentTarget, fuzzing>>
        /\ Running' => Running
        /\ fpc' = "range" => selected' = NotSelected /\ visited' = {}
        /\ cycleEnd' => cycleEnd
    BY <1>3, <1>i DEF RLockTargets, Running, ControlInv
  <2>2. RunningInv' /\ RangeInv' /\ CycleInv'
    BY <2>1, <1>i DEF RunningInv, RangeInv, CycleInv, At
  <2>3. QED
    BY <2>1, <2>2, InvLocal
<1>4. ASSUME NEW k \in Target, RangeTimer(k)
      PROVE  Inv'
  <2>1. /\ UNCHANGED <<targets, targetsTimer, hpc, htarget, currentTarget, fuzzing>>
        /\ Running' => Running
        /\ cycleEnd' => cycleEnd
    BY <1>4 DEF RangeTimer, Running
  <2>2. RunningInv' /\ CycleInv'
    BY <2>1, <1>i DEF RunningInv, CycleInv, At
  <2>3. QED
    BY <2>1, <2>2, <1>4, RangeStep, InvLocal
<1>5. CASE RUnlockTargets
  <2>1. /\ UNCHANGED <<targets, targetsTimer, hpc, htarget, currentTarget, fuzzing>>
        /\ Running' => Running
        /\ fpc' # "range"
        /\ cycleEnd' => cycleEnd
    BY <1>5 DEF RUnlockTargets, Running
  <2>2. RunningInv' /\ RangeInv' /\ CycleInv'
    BY <2>1, <1>i DEF RunningInv, RangeInv, CycleInv, At
  <2>3. QED
    BY <2>1, <2>2, InvLocal
<1>6. CASE SetCurrentTarget \/ LookupLanguage \/ StopFuzzer
  <2>1. /\ UNCHANGED <<targets, targetsTimer, hpc, htarget>>
        /\ ~Running'
        /\ fpc' # "range"
        /\ ~cycleEnd'
    BY <1>6, <1>i DEF SetCurrentTarget, LookupLanguage, StopFuzzer, Running,
       ControlInv
  <2>2. RunningInv' /\ RangeInv' /\ CycleInv'
    BY <2>1 DEF RunningInv, RangeInv, CycleInv
  <2>3. QED
    BY <2>1, <2>2, InvLocal
<1>7. CASE StartFuzzer
  <2>1. /\ UNCHANGED <<targets, targetsTimer, hpc, htarget, currentTarget>>
        /\ Running' => currentTarget \in targets /\ fuzzing' = currentTarget
        /\ fpc' # "range"
        /\ ~cycleEnd'
    BY <1>7, <1>i DEF StartFuzzer, Running, ControlInv
  <2>2. RunningInv' /\ RangeInv' /\ CycleInv'
    BY <2>1 DEF RunningInv, RangeInv, CycleInv
  <2>3. QED
    BY <2>1, <2>2, InvLocal
<1>8. CASE StampTarget
  <2>1. /\ UNCHANGED <<targets, hpc, htarget, currentTarget, fuzzing>>
        /\ fpc = "stamp"
        /\ fpc' = "next"
        /\ targetsLock = Nobody
    BY <1>8 DEF StampTarget
  <2>2. fuzzing = currentTarget /\ currentTarget \in targets
    BY <2>1, <1>i, AtNobody DEF RunningInv, Running, InCriticalSection
  <2>3. PICK timer \in [DOMAIN targetsTimer \cup {currentTarget} -> 0 .. MaxTime] :
          StampedLast(timer, currentTarget) /\ targetsTimer' = timer
    BY <1>8 DEF StampTarget
  <2>4. DOMAIN targetsTimer' = targets
    BY <2>2, <2>3, <1>i DEF TimerMatchesTargets
  <2>5. TimerMatchesTargets' /\ HandlerInv'
    BY <2>1, <2>4 DEF TimerMatchesTargets, HandlerInv, Inv
  <2>6. RunningInv' /\ RangeInv'
    BY <2>1, <2>2 DEF RunningInv, RangeInv
  <2>7. CycleInv'
    BY <2>1, <2>3, <2>4 DEF CycleInv, StampedLast
  <2>8. QED
    BY <2>5, <2>6, <2>7 DEF Inv
<1>9. ASSUME NEW h \in Handler, ReceiveStop(h)
      PROVE  Inv'
  <2>1. /\ UNCHANGED <<targets, targetsTimer, currentTarget, cycleEnd, skip>>
        /\ fpc = "select"
        /\ fpc' = "kill"
        /\ htarget' = htarget
        /\ hpc' = [hpc EXCEPT ![h] = "unlock"]
    BY <1>9 DEF ReceiveStop, Goto
  <2>2. RunningInv' /\ RangeInv' /\ CycleInv'
    BY <2>1, <1>i DEF RunningInv, RangeInv, CycleInv, Running, ControlInv
  <2>3. HandlerInv' /\ TimerMatchesTargets'
    BY <2>1 DEF HandlerInv, TimerMatchesTargets, Inv, TypeInv, RegistryTypeOK
  <2>4. QED
    BY <2>2, <2>3 DEF Inv
<1>10. QED
  BY <1>1, <1>2, <1>3, <1>4, <1>5, <1>6, <1>7, <1>8, <1>9 DEF LoopStep

LEMMA InvStep == TypeInv /\ Inv /\ [Next]_vars => Inv'
  BY LockInvStep, InvHandler, InvLoop DEF Next, RegistryStep, Inv

LEMMA InvHolds == Spec => [](TypeInv /\ Inv)
  BY TypeInvInit, TypeInvStep, InvInit, InvStep, PTL DEF Spec

-----------------------------------------------------------------------------
(* The theorems *)

\* The loop's unlocked currentTarget never makes it write the timer of a target
\* that is gone: targets and targetsTimer keep the same keys.
THEOREM TimersMatch == Spec => []TimerMatchesTargets
<1>1. Inv => TimerMatchesTargets
  BY DEF Inv
<1>2. QED
  BY <1>1, InvHolds, PTL

\* While a turn is waited for, its target is registered or its remover is
\* about to interrupt the turn.
THEOREM RunningRegistered == Spec => []RunningTargetRegistered
<1>1. Inv => RunningTargetRegistered
  BY DEF Inv, RunningInv, Running, RunningTargetRegistered, At
<1>2. QED
  BY <1>1, InvHolds, PTL

\* nextTarget picks a target that has waited longest, in every range order.
THEOREM LongestFirst == Spec => []LongestWaitingFirst
<1>1. Inv => LongestWaitingFirst
  BY DEF Inv, RangeInv, LongestWaitingFirst
<1>2. QED
  BY <1>1, InvHolds, PTL

\* A turn that has ended goes to another target if there is one.
THEOREM NoImmediateRepeat == Spec => []NoSecondTurn
<1>1. TypeInv /\ Inv => NoSecondTurn
  <2> SUFFICES ASSUME TypeInv, Inv, fpc = "range", cycleEnd, visited = targets,
                      targets # {currentTarget}, selected = currentTarget
               PROVE  FALSE
    BY DEF NoSecondTurn
  <2>1. currentTarget \in Target
    BY DEF TypeInv, ControlInv, Running, Calling
  <2>2. visited # {}
    BY <2>1, TargetAssumption DEF Inv, RangeInv
  <2>3. /\ currentTarget \in targets
        /\ \A t \in targets \ {currentTarget} :
             targetsTimer[currentTarget] <= targetsTimer[t]
    BY <2>2 DEF Inv, RangeInv
  <2>4. PICK t \in targets \ {currentTarget} : TRUE
    BY <2>3
  <2>5. targetsTimer[t] < targetsTimer[currentTarget]
    BY <2>3, <2>4 DEF Inv, CycleInv
  <2>6. targetsTimer[t] \in Nat /\ targetsTimer[currentTarget] \in Nat
    BY <2>3, <2>4 DEF TypeInv, RegistryTypeOK, Inv, TimerMatchesTargets
  <2>7. QED
    BY <2>3, <2>4, <2>5, <2>6
<1>2. QED
  BY <1>1, InvHolds, PTL
\* There is a supervisor exactly from its start to its stop.
SupervisorInv == fuzzing # NoTarget <=> Running \/ fpc = "kill"

LEMMA SupervisorStep ==
  ASSUME TypeInv, SupervisorInv, [Next]_vars
  PROVE  SupervisorInv'
<1> USE DEF SupervisorInv, Running, Calling, loopVars, callVars
<1>1. CASE UNCHANGED loopVars
  BY <1>1
<1>2. CASE FuzzerTick
  BY <1>2 DEF FuzzerTick
<1>3. CASE CountTargets \/ CallNextTarget \/ RLockTargets \/ RUnlockTargets
  BY <1>3 DEF CountTargets, CallNextTarget, RLockTargets, RUnlockTargets,
              TypeInv, ControlInv
<1>4. ASSUME NEW k \in Target, RangeTimer(k) PROVE SupervisorInv'
  BY <1>4 DEF RangeTimer
<1>5. CASE SetCurrentTarget \/ LookupLanguage
  BY <1>5 DEF SetCurrentTarget, LookupLanguage, TypeInv, ControlInv
<1>6. CASE StartFuzzer
  <2>1. currentTarget # NoTarget
    BY <1>6, TargetAssumption DEF StartFuzzer, TypeInv, ControlInv
  <2>2. QED
    BY <1>6, <2>1 DEF StartFuzzer, TypeInv, ControlInv
<1>7. CASE TimerFires \/ StampTarget \/ EndCycle
  BY <1>7 DEF TimerFires, StampTarget, EndCycle, TypeInv, ControlInv
<1>8. ASSUME NEW h \in Handler, ReceiveStop(h) PROVE SupervisorInv'
  BY <1>8 DEF ReceiveStop, TypeInv, ControlInv
<1>9. CASE StopFuzzer \/ ConcurrentMapAccess
  BY <1>9 DEF StopFuzzer, ConcurrentMapAccess, TypeInv, ControlInv
<1>10. QED
  BY <1>1, <1>2, <1>3, <1>4, <1>5, <1>6, <1>7, <1>8, <1>9
  DEF Next, LoopStep, vars

\* No fuzzer is started while another one runs, so none is left without the
\* supervisor that could stop it.
THEOREM OneAtATime == Spec => []OneSupervisor
<1>1. Init => SupervisorInv
  BY DEF Init, SupervisorInv, Running, Calling
<1>2. TypeInv /\ SupervisorInv => OneSupervisor
  BY DEF TypeInv, ControlInv, SupervisorInv, Running, Calling, OneSupervisor
<1>3. QED
  BY <1>1, <1>2, SupervisorStep, InvHolds, PTL DEF Spec

=============================================================================
