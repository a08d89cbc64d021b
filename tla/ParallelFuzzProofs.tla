------------------------- MODULE ParallelFuzzProofs -------------------------
(***************************************************************************)
(* Theorems about ParallelFuzz for every set of targets and handlers and   *)
(* every assignment of languages: its types, that the running fuzzers      *)
(* always match the registry, and that it implements FuzzCampaign.         *)
(*                                                                         *)
(* FuzzersMatchTargets is about quiet states only.  The invariant behind   *)
(* it, Inv, says what may be running in every state: it follows a request  *)
(* from the write of the maps to the loop's last step for it.              *)
(***************************************************************************)
EXTENDS ParallelFuzz, TargetRegistryProofs

\* The mutex, under this strategy: only handlers hold it, and none is at the
\* location that only round robin uses.
LockInv ==
  /\ LockHeld
  /\ targetsLock # FuzzLoop
  /\ \A h \in Handler : hpc[h] # "interrupt"

\* What a handler in its critical section knows of its target.
HandlerInv ==
  \A h \in Handler :
    /\ hpc[h] \in {"addMaps", "sendStop", "sendInterrupt"}
         => htarget[h] \notin targets
    /\ hpc[h] \in {"sendAdd", "removeMaps"} => htarget[h] \in targets
    /\ hpc[h] = "sendInterrupt" => fpc # "adding"

\* What the loop knows of the target it has received.
LoopInv ==
  /\ fpc = "adding" =>
       /\ ftarget \in targets \/ At(ftarget, "sendStop")
       /\ ~At(ftarget, "sendAdd")
  /\ fpc = "stopping" =>
       /\ ftarget \in parallelFuzzers
       /\ ftarget \notin targets
       /\ At(ftarget, "sendInterrupt")

\* The target is accepted, its add has reached the loop and been dealt with,
\* and its stop has not.
Started(t) ==
  /\ Fuzzable(t)
  /\ \/ t \in targets
     \/ At(t, "sendStop")
     \/ fpc = "stopping" /\ ftarget = t
  /\ ~At(t, "sendAdd")
  /\ ~(fpc = "adding" /\ ftarget = t)

FuzzersInv == \A t \in Target : t \in parallelFuzzers <=> Started(t)

Inv ==
  /\ LockInv
  /\ HandlerInv
  /\ LoopInv
  /\ FuzzersInv

-----------------------------------------------------------------------------
(* Types *)

\* TypeOK is inductive with what a request and the loop are about.
TypeInv ==
  /\ TypeOK
  /\ RequestHasTarget
  /\ fpc = "adding" => ftarget \in Target

LEMMA TypeInvInit == Init => TypeInv
  BY TargetAssumption DEF Init, RegistryInit, TypeInv, TypeOK, RegistryTypeOK,
     RequestHasTarget, Location, InCriticalSection, NoTarget, Nobody

\* The requests and their handlers.
LEMMA TypeInvHandler ==
  ASSUME TypeInv, NEW h \in Handler, NewRequest(h) \/ HandlerStep(h),
         UNCHANGED loopVars
  PROVE  TypeInv'
<1>1. RegistryTypeOK' /\ RequestHasTarget'
  BY RegistryTypesHandler DEF TypeInv, TypeOK
<1>2. QED
  BY <1>1 DEF TypeInv, TypeOK, loopVars

\* Statistics and the loop.
LEMMA TypeInvLoop ==
  ASSUME TypeInv,
         \/ (ReceiveStat \/ StoreStat) /\ UNCHANGED loopVars
         \/ LoopStep
         \/ FuzzerTick
  PROVE  TypeInv'
<1> USE TargetAssumption
    DEF TypeInv, TypeOK, RegistryTypeOK, RequestHasTarget, Location,
        InCriticalSection, Goto, loopVars, mapVars, statVars,
        handlerVars, registryVars, NoTarget
<1>1. CASE ReceiveStat /\ UNCHANGED loopVars
  BY <1>1 DEF ReceiveStat
<1>2. CASE StoreStat /\ UNCHANGED loopVars
  BY <1>2 DEF StoreStat
<1>3. CASE FuzzerTick
  BY <1>3 DEF FuzzerTick, StatsTick
<1>4. CASE StartFuzzer
  BY <1>4 DEF StartFuzzer
<1>5. CASE StopFuzzer \/ StopTimeout
  BY <1>5 DEF StopFuzzer, StopTimeout
<1>6. ASSUME NEW h \in Handler, ReceiveAdd(h)
      PROVE  TypeInv'
  BY <1>6 DEF ReceiveAdd
<1>7. ASSUME NEW h \in Handler, ReceiveStop(h)
      PROVE  TypeInv'
  BY <1>7 DEF ReceiveStop
<1>8. QED
  BY <1>1, <1>2, <1>3, <1>4, <1>5, <1>6, <1>7 DEF LoopStep

LEMMA TypeInvStep == TypeInv /\ [Next]_vars => TypeInv'
<1>1. CASE UNCHANGED vars
  BY <1>1 DEF vars, registryVars, loopVars, mapVars, statVars, handlerVars,
     TypeInv, TypeOK, RegistryTypeOK, RequestHasTarget
<1>2. QED
  BY <1>1, TypeInvHandler, TypeInvLoop DEF Next, RegistryStep

\* Every variable of the daemon keeps to its type.
THEOREM TypeCorrect == Spec => []TypeOK
<1>1. TypeInv => TypeOK
  BY DEF TypeInv
<1>2. QED
  BY <1>1, TypeInvInit, TypeInvStep, PTL DEF Spec

-----------------------------------------------------------------------------
(* The mutex *)

LEMMA LockInvStep ==
  ASSUME TypeInv, LockInv, [Next]_vars
  PROVE  LockInv'
<1> USE HandlerAssumption, ParallelAssumption
    DEF TypeInv, TypeOK, RegistryTypeOK, LockInv, LockHeld, Location,
        InCriticalSection, Begin, Answer, Goto, loopVars, mapVars, statVars,
        handlerVars, registryVars, Nobody, FuzzLoop
<1>1. ASSUME NEW h \in Handler, NewRequest(h)
      PROVE  LockInv'
  BY <1>1 DEF NewRequest, RegisterTarget, UnregisterTarget, ReadRequest
<1>2. ASSUME NEW h \in Handler, AddLock(h) \/ RemoveLock(h)
      PROVE  LockInv'
  BY <1>2 DEF AddLock, RemoveLock
<1>3. ASSUME NEW h \in Handler, AddMaps(h) \/ RemoveMaps(h)
      PROVE  LockInv'
  BY <1>3 DEF AddMaps, RemoveMaps
<1>4. ASSUME NEW h \in Handler, InterruptTarget(h)
      PROVE  LockInv'
  BY <1>4 DEF InterruptTarget
<1>5. ASSUME NEW h \in Handler, Unlock(h) \/ ReadTargets(h)
      PROVE  LockInv'
  BY <1>5 DEF Unlock, ReadTargets
<1>6. CASE ReceiveStat \/ StoreStat \/ FuzzerTick
  BY <1>6 DEF ReceiveStat, StoreStat, FuzzerTick, StatsTick
<1>7. CASE StartFuzzer \/ StopFuzzer \/ StopTimeout
  BY <1>7 DEF StartFuzzer, StopFuzzer, StopTimeout
<1>8. ASSUME NEW h \in Handler, ReceiveAdd(h) \/ ReceiveStop(h)
      PROVE  LockInv'
  BY <1>8 DEF ReceiveAdd, ReceiveStop
<1>9. CASE UNCHANGED vars
  BY <1>9 DEF vars
<1>10. QED
  BY <1>1, <1>2, <1>3, <1>4, <1>5, <1>6, <1>7, <1>8, <1>9
     DEF Next, RegistryStep, LoopStep, HandlerStep

-----------------------------------------------------------------------------
(* The invariant *)

LEMMA InvInit == Init => Inv
  BY HandlerAssumption DEF Init, RegistryInit, Inv, LockInv, LockHeld,
     InCriticalSection, HandlerInv, LoopInv, FuzzersInv, Started, At, Nobody,
     FuzzLoop

\* A step of a handler that stays outside its critical section.
LEMMA InvOutside ==
  ASSUME TypeInv, Inv, LockInv', UNCHANGED <<targets, loopVars>>,
         NEW h \in Handler,
         \A g \in Handler \ {h} : hpc'[g] = hpc[g] /\ htarget'[g] = htarget[g],
         hpc[h] \notin InCriticalSection, hpc'[h] \notin InCriticalSection
  PROVE  Inv'
<1>1. \A t : \A l \in InCriticalSection : At(t, l)' <=> At(t, l)
  BY AtOutside
<1>2. HandlerInv'
  BY DEF Inv, HandlerInv, InCriticalSection, loopVars
<1>3. LoopInv'
  BY <1>1 DEF Inv, LoopInv, InCriticalSection, loopVars
<1>4. FuzzersInv'
  BY <1>1 DEF Inv, FuzzersInv, Started, Fuzzable, InCriticalSection, loopVars
<1>5. QED
  BY <1>2, <1>3, <1>4 DEF Inv

\* The requests and their handlers.
LEMMA InvHandler ==
  ASSUME TypeInv, Inv, LockInv', UNCHANGED loopVars,
         NEW h \in Handler, NewRequest(h) \/ HandlerStep(h)
  PROVE  Inv'
<1> USE DEF InCriticalSection
<1>h. /\ hpc \in [Handler -> Location]
      /\ htarget \in [Handler -> Target \cup {NoTarget}]
  BY DEF TypeInv, TypeOK, RegistryTypeOK
<1>i. HandlerInv /\ LoopInv /\ FuzzersInv /\ LockInv /\ LockHeld /\ LockHeld'
  BY DEF Inv, LockInv
<1>m. \A g \in Handler \ {h} : hpc'[g] = hpc[g] /\ htarget'[g] = htarget[g]
  BY HandlerMoves DEF TypeInv, TypeOK
<1>1. CASE NewRequest(h)
  <2>1. /\ hpc[h] \notin InCriticalSection
        /\ hpc'[h] \notin InCriticalSection
        /\ UNCHANGED targets
    BY <1>1, <1>h DEF NewRequest, RegisterTarget, UnregisterTarget, ReadRequest,
       Begin, Goto, mapVars
  <2>2. QED
    BY <2>1, <1>m, InvOutside
<1>2. CASE ReadTargets(h)
  <2>1. /\ hpc[h] \notin InCriticalSection
        /\ hpc'[h] \notin InCriticalSection
        /\ UNCHANGED targets
    BY <1>2, <1>h DEF ReadTargets, Answer, Begin, mapVars
  <2>2. QED
    BY <2>1, <1>m, InvOutside
<1>3. CASE AddLock(h) /\ htarget[h] \in targets
  <2>1. /\ hpc[h] \notin InCriticalSection
        /\ hpc'[h] \notin InCriticalSection
        /\ UNCHANGED targets
    BY <1>3, <1>h DEF AddLock, Answer, Begin, mapVars
  <2>2. QED
    BY <2>1, <1>m, InvOutside
<1>4. CASE RemoveLock(h) /\ htarget[h] \notin targets
  <2>1. /\ hpc[h] \notin InCriticalSection
        /\ hpc'[h] \notin InCriticalSection
        /\ UNCHANGED targets
    BY <1>4, <1>h DEF RemoveLock, Answer, Begin, mapVars
  <2>2. QED
    BY <2>1, <1>m, InvOutside
<1>5. CASE \/ AddLock(h) /\ htarget[h] \notin targets
           \/ RemoveLock(h) /\ htarget[h] \in targets
  <2>1. /\ \/ hpc'[h] = "addMaps" /\ htarget[h] \notin targets
           \/ hpc'[h] = "removeMaps" /\ htarget[h] \in targets
        /\ UNCHANGED <<targets, htarget>>
        /\ targetsLock = Nobody
        /\ targetsLock' = h
    BY <1>5, <1>h DEF AddLock, RemoveLock, Goto, mapVars
  <2>2. \A t : \A l \in InCriticalSection : ~At(t, l)
    BY <2>1, <1>i, AtNobody
  <2>3. \A t : \A l \in {"sendAdd", "sendStop", "sendInterrupt"} : ~At(t, l)'
    BY <2>1, <1>i, AtHolderNext
  <2>4. HandlerInv'
    BY <2>1, <1>i, <1>m DEF HandlerInv, loopVars
  <2>5. LoopInv'
    BY <2>1, <2>2, <2>3, <1>i DEF LoopInv, loopVars
  <2>6. FuzzersInv'
    BY <2>1, <2>2, <2>3, <1>i DEF FuzzersInv, Started, Fuzzable, loopVars
  <2>7. QED
    BY <2>4, <2>5, <2>6 DEF Inv
<1>6. CASE AddMaps(h)
  <2>1. /\ hpc[h] = "addMaps"
        /\ hpc'[h] = "sendAdd"
        /\ UNCHANGED <<htarget, targetsLock>>
        /\ targets' = targets \cup {htarget[h]}
    BY <1>6, <1>h, ParallelAssumption DEF AddMaps, Goto
  <2>2. targetsLock = h /\ targetsLock' = h
    BY <2>1, <1>i DEF LockHeld
  <2>3. \A t : \A l \in {"sendAdd", "sendStop", "sendInterrupt"} : ~At(t, l)
    BY <2>1, <2>2, <1>i, AtHolder
  <2>4. \A t : \A l \in InCriticalSection :
          At(t, l)' <=> l = "sendAdd" /\ t = htarget[h]
    BY <2>1, <2>2, <1>i, AtHolderNext
  <2>5. HandlerInv'
    BY <2>1, <2>2, <1>i, <1>m DEF HandlerInv, LockHeld, loopVars
  <2>6. LoopInv'
    BY <2>1, <2>3, <2>4, <1>i DEF LoopInv, HandlerInv, loopVars
  <2>7. FuzzersInv'
    <3> SUFFICES ASSUME NEW t \in Target
                 PROVE  t \in parallelFuzzers' <=> Started(t)'
      BY DEF FuzzersInv
    <3>1. fpc # "stopping" /\ htarget[h] \notin targets
      BY <2>1, <2>3, <1>i DEF LoopInv, HandlerInv
    <3>2. CASE t = htarget[h]
      BY <3>1, <3>2, <2>3, <2>4, <1>i DEF FuzzersInv, Started, loopVars
    <3>3. CASE t # htarget[h]
      BY <3>1, <3>3, <2>1, <2>3, <2>4, <1>i
         DEF FuzzersInv, Started, Fuzzable, loopVars
    <3>4. QED
      BY <3>2, <3>3
  <2>8. QED
    BY <2>5, <2>6, <2>7 DEF Inv
<1>7. CASE RemoveMaps(h)
  <2>1. /\ hpc[h] = "removeMaps"
        /\ hpc'[h] = "sendStop"
        /\ UNCHANGED <<htarget, targetsLock>>
        /\ targets' = targets \ {htarget[h]}
    BY <1>7, <1>h, ParallelAssumption DEF RemoveMaps, Goto
  <2>2. targetsLock = h /\ targetsLock' = h
    BY <2>1, <1>i DEF LockHeld
  <2>3. \A t : \A l \in {"sendAdd", "sendStop", "sendInterrupt"} : ~At(t, l)
    BY <2>1, <2>2, <1>i, AtHolder
  <2>4. \A t : \A l \in InCriticalSection :
          At(t, l)' <=> l = "sendStop" /\ t = htarget[h]
    BY <2>1, <2>2, <1>i, AtHolderNext
  <2>5. HandlerInv'
    BY <2>1, <2>2, <1>i, <1>m DEF HandlerInv, LockHeld, loopVars
  <2>6. LoopInv'
    BY <2>1, <2>3, <2>4, <1>i DEF LoopInv, loopVars
  <2>7. FuzzersInv'
    <3> SUFFICES ASSUME NEW t \in Target
                 PROVE  t \in parallelFuzzers' <=> Started(t)'
      BY DEF FuzzersInv
    <3>1. fpc # "stopping" /\ htarget[h] \in targets
      BY <2>1, <2>3, <1>i DEF LoopInv, HandlerInv
    <3>2. QED
      BY <3>1, <2>1, <2>3, <2>4, <1>i
         DEF FuzzersInv, Started, Fuzzable, loopVars
  <2>8. QED
    BY <2>5, <2>6, <2>7 DEF Inv
<1>8. CASE InterruptTarget(h)
  BY <1>8, <1>i DEF InterruptTarget, LockInv
<1>9. CASE Unlock(h)
  <2>1. /\ hpc[h] = "unlock"
        /\ hpc'[h] = "idle"
        /\ UNCHANGED targets
        /\ targetsLock' = Nobody
    BY <1>9, <1>h DEF Unlock, Answer, Begin, mapVars
  <2>2. targetsLock = h
    BY <2>1, <1>i DEF LockHeld
  <2>3. \A t : \A l \in {"sendAdd", "sendStop", "sendInterrupt"} : ~At(t, l)
    BY <2>1, <2>2, <1>i, AtHolder
  <2>4. \A t : \A l \in InCriticalSection : ~At(t, l)'
    BY <2>1, <1>i, AtNobodyNext
  <2>5. HandlerInv'
    BY <2>1, <1>i, <1>m DEF HandlerInv, loopVars
  <2>6. LoopInv'
    BY <2>1, <2>3, <2>4, <1>i DEF LoopInv, loopVars
  <2>7. FuzzersInv'
    BY <2>1, <2>3, <2>4, <1>i DEF FuzzersInv, Started, Fuzzable, loopVars
  <2>8. QED
    BY <2>5, <2>6, <2>7 DEF Inv
<1>10. QED
  BY <1>1, <1>2, <1>3, <1>4, <1>5, <1>6, <1>7, <1>8, <1>9 DEF HandlerStep

\* Statistics and the loop.
LEMMA InvLoop ==
  ASSUME TypeInv, Inv, LockInv',
         \/ (ReceiveStat \/ StoreStat) /\ UNCHANGED loopVars
         \/ LoopStep
         \/ FuzzerTick
         \/ UNCHANGED vars
  PROVE  Inv'
<1> USE DEF InCriticalSection
<1>h. /\ hpc \in [Handler -> Location]
      /\ htarget \in [Handler -> Target \cup {NoTarget}]
  BY DEF TypeInv, TypeOK, RegistryTypeOK
<1>i. HandlerInv /\ LoopInv /\ FuzzersInv /\ LockInv /\ LockHeld /\ LockHeld'
  BY DEF Inv, LockInv
<1>1. CASE \/ (ReceiveStat \/ StoreStat) /\ UNCHANGED loopVars
           \/ FuzzerTick
           \/ UNCHANGED vars
  <2>1. UNCHANGED <<targets, hpc, htarget, fpc, ftarget, parallelFuzzers>>
    BY <1>1 DEF ReceiveStat, StoreStat, FuzzerTick, StatsTick, mapVars,
       handlerVars, loopVars, registryVars, vars
  <2>2. QED
    BY <2>1, <1>i
       DEF Inv, HandlerInv, LoopInv, FuzzersInv, Started, Fuzzable, At
<1>2. CASE StartFuzzer
  <2>1. /\ UNCHANGED <<targets, hpc, htarget>>
        /\ fpc = "adding"
        /\ fpc' = "select"
        /\ parallelFuzzers' = IF Fuzzable(ftarget)
                              THEN parallelFuzzers \cup {ftarget}
                              ELSE parallelFuzzers
    BY <1>2 DEF StartFuzzer, registryVars, mapVars, handlerVars
  <2>2. HandlerInv' /\ LoopInv'
    BY <2>1, <1>i DEF HandlerInv, LoopInv
  <2>3. \A t : \A l : At(t, l)' <=> At(t, l)
    BY <2>1 DEF At
  <2>4. ftarget \in targets \/ At(ftarget, "sendStop")
    BY <2>1, <1>i DEF LoopInv
  <2>5. ~At(ftarget, "sendAdd")
    BY <2>1, <1>i DEF LoopInv
  <2>6. FuzzersInv'
    <3> SUFFICES ASSUME NEW t \in Target
                 PROVE  t \in parallelFuzzers' <=> Started(t)'
      BY DEF FuzzersInv
    <3>1. CASE t = ftarget
      BY <3>1, <2>1, <2>3, <2>4, <2>5, <1>i
         DEF FuzzersInv, Started, Fuzzable
    <3>2. CASE t # ftarget
      BY <3>2, <2>1, <2>3, <1>i DEF FuzzersInv, Started, Fuzzable
    <3>3. QED
      BY <3>1, <3>2
  <2>7. QED
    BY <2>2, <2>6 DEF Inv
<1>3. CASE StopFuzzer \/ StopTimeout
  <2>1. /\ UNCHANGED <<targets, hpc, htarget>>
        /\ fpc = "stopping"
        /\ fpc' = "select"
        /\ parallelFuzzers' = parallelFuzzers \ {ftarget}
    BY <1>3 DEF StopFuzzer, StopTimeout, registryVars, mapVars, handlerVars
  <2>2. HandlerInv' /\ LoopInv'
    BY <2>1, <1>i DEF HandlerInv, LoopInv
  <2>3. \A t : \A l : At(t, l)' <=> At(t, l)
    BY <2>1 DEF At
  <2>4. ftarget \notin targets /\ At(ftarget, "sendInterrupt")
    BY <2>1, <1>i DEF LoopInv
  <2>5. PICK h \in Handler : hpc[h] = "sendInterrupt" /\ htarget[h] = ftarget
    BY <2>4 DEF At
  <2>6. targetsLock = h
    BY <2>5, <1>i DEF LockHeld
  <2>7. \A t : ~At(t, "sendStop")
    BY <2>5, <2>6, <1>i, AtHolder
  <2>8. FuzzersInv'
    BY <2>1, <2>3, <2>4, <2>7, <1>i DEF FuzzersInv, Started, Fuzzable
  <2>9. QED
    BY <2>2, <2>8 DEF Inv
<1>4. ASSUME NEW h \in Handler, ReceiveAdd(h)
      PROVE  Inv'
  <2>1. /\ hpc[h] = "sendAdd"
        /\ hpc'[h] = "unlock"
        /\ UNCHANGED <<targets, htarget, targetsLock, parallelFuzzers>>
        /\ fpc = "select"
        /\ fpc' = "adding"
        /\ ftarget' = htarget[h]
        /\ \A g \in Handler \ {h} : hpc'[g] = hpc[g]
    BY <1>4, <1>h DEF ReceiveAdd, Goto, mapVars
  <2>2. targetsLock = h /\ targetsLock' = h
    BY <2>1, <1>i DEF LockHeld
  <2>3. \A t : \A l \in InCriticalSection :
          At(t, l) <=> l = "sendAdd" /\ t = htarget[h]
    BY <2>1, <2>2, <1>i, AtHolder
  <2>4. \A t : \A l \in {"sendAdd", "sendStop", "sendInterrupt"} : ~At(t, l)'
    BY <2>1, <2>2, <1>i, AtHolderNext
  <2>5. htarget[h] \in targets
    BY <2>1, <1>i DEF HandlerInv
  <2>6. HandlerInv'
    BY <2>1, <2>2, <1>i DEF HandlerInv, LockHeld
  <2>7. LoopInv'
    BY <2>1, <2>4, <2>5 DEF LoopInv
  <2>8. FuzzersInv'
    BY <2>1, <2>3, <2>4, <1>i DEF FuzzersInv, Started, Fuzzable
  <2>9. QED
    BY <2>6, <2>7, <2>8 DEF Inv
<1>5. ASSUME NEW h \in Handler, ReceiveStop(h), hpc[h] = "sendStop"
      PROVE  Inv'
  <2>1. /\ hpc'[h] = "sendInterrupt"
        /\ UNCHANGED <<targets, htarget, targetsLock, parallelFuzzers>>
        /\ fpc = "select"
        /\ IF htarget[h] \in parallelFuzzers
           THEN fpc' = "stopping" /\ ftarget' = htarget[h]
           ELSE fpc' = "select"
        /\ \A g \in Handler \ {h} : hpc'[g] = hpc[g]
    BY <1>5, <1>h DEF ReceiveStop, Goto, mapVars
  <2>2. targetsLock = h /\ targetsLock' = h
    BY <2>1, <1>5, <1>i DEF LockHeld
  <2>3. \A t : \A l \in InCriticalSection :
          At(t, l) <=> l = "sendStop" /\ t = htarget[h]
    BY <2>2, <1>5, <1>i, AtHolder
  <2>4. \A t : \A l \in InCriticalSection :
          At(t, l)' <=> l = "sendInterrupt" /\ t = htarget[h]
    BY <2>1, <2>2, <1>i, AtHolderNext
  <2>5. htarget[h] \notin targets
    BY <1>5, <1>i DEF HandlerInv
  <2>6. HandlerInv'
    BY <2>1, <2>2, <2>5, <1>i DEF HandlerInv, LockHeld
  <2>7. LoopInv'
    BY <2>1, <2>4, <2>5 DEF LoopInv
  <2>8. FuzzersInv'
    BY <2>1, <2>3, <2>4, <2>5, <1>i DEF FuzzersInv, Started, Fuzzable
  <2>9. QED
    BY <2>6, <2>7, <2>8 DEF Inv
<1>6. ASSUME NEW h \in Handler, ReceiveStop(h), hpc[h] = "sendInterrupt"
      PROVE  Inv'
  <2>1. /\ hpc'[h] = "unlock"
        /\ UNCHANGED <<targets, htarget, targetsLock, parallelFuzzers>>
        /\ fpc = "select"
        /\ htarget[h] \notin parallelFuzzers => fpc' = "select"
        /\ \A g \in Handler \ {h} : hpc'[g] = hpc[g]
    BY <1>6, <1>h DEF ReceiveStop, Goto, mapVars
  <2>2. targetsLock = h /\ targetsLock' = h
    BY <2>1, <1>6, <1>i DEF LockHeld
  <2>3. \A t : \A l \in InCriticalSection :
          At(t, l) <=> l = "sendInterrupt" /\ t = htarget[h]
    BY <2>2, <1>6, <1>i, AtHolder
  <2>4. \A t : \A l \in {"sendAdd", "sendStop", "sendInterrupt"} : ~At(t, l)'
    BY <2>1, <2>2, <1>i, AtHolderNext
  <2>5. htarget[h] \notin targets
    BY <1>6, <1>i DEF HandlerInv
  <2>6. fpc' = "select"
    <3>1. htarget[h] \in parallelFuzzers => htarget[h] \in Target
      BY DEF TypeInv, TypeOK
    <3>2. htarget[h] \notin parallelFuzzers
      BY <3>1, <2>1, <2>3, <2>5, <1>i DEF FuzzersInv, Started
    <3>3. QED
      BY <3>2, <2>1
  <2>7. HandlerInv'
    BY <2>1, <2>2, <2>5, <1>i DEF HandlerInv, LockHeld
  <2>8. LoopInv'
    BY <2>6 DEF LoopInv
  <2>9. FuzzersInv'
    BY <2>1, <2>3, <2>4, <2>5, <2>6, <1>i DEF FuzzersInv, Started, Fuzzable
  <2>10. QED
    BY <2>7, <2>8, <2>9 DEF Inv
<1>7. QED
  BY <1>1, <1>2, <1>3, <1>4, <1>5, <1>6 DEF LoopStep, ReceiveStop

LEMMA InvStep == TypeInv /\ Inv /\ [Next]_vars => Inv'
  BY LockInvStep, InvHandler, InvLoop DEF Next, RegistryStep, Inv

LEMMA InvHolds == Spec => [](TypeInv /\ Inv)
  BY TypeInvInit, TypeInvStep, InvInit, InvStep, PTL DEF Spec

-----------------------------------------------------------------------------
(* The theorems *)

\* No interleaving of requests with the loop starts a fuzzer twice, loses a
\* start, or leaves a fuzzer running for an unregistered target.
THEOREM FuzzersMatch == Spec => []FuzzersMatchTargets
<1>1. TypeInv /\ Inv => FuzzersMatchTargets
  <2> SUFFICES ASSUME TypeInv, Inv, targetsLock = Nobody, fpc = "select"
               PROVE  parallelFuzzers = {t \in targets : Fuzzable(t)}
    BY DEF FuzzersMatchTargets
  <2>1. \A t : ~At(t, "sendAdd") /\ ~At(t, "sendStop")
    BY AtNobody DEF Inv, LockInv, InCriticalSection
  <2>2. \A t \in Target : t \in parallelFuzzers <=> t \in targets /\ Fuzzable(t)
    BY <2>1 DEF Inv, FuzzersInv, Started
  <2>3. parallelFuzzers \subseteq Target /\ targets \subseteq Target
    BY DEF TypeInv, TypeOK, RegistryTypeOK
  <2>4. QED
    BY <2>2, <2>3
<1>2. QED
  BY <1>1, InvHolds, PTL

\* While a fuzzer is being stopped its target is unregistered and its remover
\* still holds the lock, so it cannot be registered again before the stop.
THEOREM StopsOnlyUnregistered == Spec => []StopOnlyUnregistered
<1>1. Inv => StopOnlyUnregistered
  <2> SUFFICES ASSUME Inv, fpc = "stopping"
               PROVE  ftarget \notin targets /\ targetsLock # Nobody
    BY DEF StopOnlyUnregistered
  <2>1. ftarget \notin targets /\ At(ftarget, "sendInterrupt")
    BY DEF Inv, LoopInv
  <2>2. targetsLock # Nobody
    BY <2>1, AtNobody DEF Inv, LockInv, InCriticalSection
  <2>3. QED
    BY <2>1, <2>2
<1>2. QED
  BY <1>1, InvHolds, PTL

\* A registered target never loses its entry in targetStats, whatever stats are
\* still under way.
THEOREM StatsCover == Spec => []StatsCoverTargets
<1>1. Init => StatsCoverTargets
  BY DEF Init, RegistryInit, StatsCoverTargets
<1>2. StatsCoverTargets /\ [Next]_vars => StatsCoverTargets'
  <2> SUFFICES ASSUME StatsCoverTargets, [Next]_vars PROVE StatsCoverTargets'
    OBVIOUS
  <2>1. CASE RegistryStep
    BY <2>1, StatsCoverKept DEF RegistryStep
  <2>2. CASE LoopStep \/ FuzzerTick \/ UNCHANGED vars
    <3>1. UNCHANGED mapVars
      BY <2>2 DEF LoopStep, StartFuzzer, StopFuzzer, StopTimeout, ReceiveAdd,
         ReceiveStop, FuzzerTick, StatsTick, vars, registryVars, mapVars
    <3>2. QED
      BY <3>1, StatsCoverKept
  <2>3. QED
    BY <2>1, <2>2 DEF Next
<1>3. QED
  BY <1>1, <1>2, PTL DEF Spec

-----------------------------------------------------------------------------
(* Refinement *)

LEMMA LeavingAt ==
  /\ \A t : t \in Leaving <=> At(t, "sendStop") \/ At(t, "sendInterrupt")
  /\ \A t : t \in Leaving' <=> At(t, "sendStop")' \/ At(t, "sendInterrupt")'
  BY DEF Leaving, At

\* Only the steps below change what a client sees.
LEMMA CampaignStutter ==
  ASSUME UNCHANGED <<targets, parallelFuzzers>>,
         \A t : t \in Leaving' <=> t \in Leaving
  PROVE  UNCHANGED Campaign!vars
<1>1. Leaving' = Leaving
  BY DEF Leaving
<1>2. QED
  BY <1>1 DEF Campaign!vars

LEMMA CampaignHandler ==
  ASSUME TypeInv, Inv, Inv', UNCHANGED loopVars,
         NEW h \in Handler, NewRequest(h) \/ HandlerStep(h)
  PROVE  [Campaign!Next]_(Campaign!vars)
<1> USE DEF InCriticalSection
<1>h. /\ hpc \in [Handler -> Location]
      /\ htarget \in [Handler -> Target \cup {NoTarget}]
      /\ RequestHasTarget
  BY DEF TypeInv, TypeOK, RegistryTypeOK
<1>i. HandlerInv /\ LoopInv /\ FuzzersInv /\ LockHeld /\ LockHeld'
  BY DEF Inv, LockInv
<1>m. \A g \in Handler \ {h} : hpc'[g] = hpc[g] /\ htarget'[g] = htarget[g]
  BY HandlerMoves DEF TypeInv, TypeOK
<1>n. ~InterruptTarget(h)
  BY DEF Inv, LockInv, InterruptTarget
<1>1. CASE AddMaps(h)
  <2>1. /\ hpc[h] = "addMaps"
        /\ hpc'[h] = "sendAdd"
        /\ UNCHANGED <<htarget, targetsLock>>
        /\ targets' = targets \cup {htarget[h]}
    BY <1>1, <1>h, ParallelAssumption DEF AddMaps, Goto
  <2>2. targetsLock = h /\ targetsLock' = h
    BY <2>1, <1>i DEF LockHeld
  <2>3. \A t : \A l \in {"sendAdd", "sendStop", "sendInterrupt"} : ~At(t, l)
    BY <2>1, <2>2, <1>i, AtHolder
  <2>4. \A t : ~At(t, "sendStop")' /\ ~At(t, "sendInterrupt")'
    BY <2>1, <2>2, <1>i, AtHolderNext
  <2>5. Leaving = {} /\ Leaving' = {}
    BY <2>3, <2>4, LeavingAt
  <2>6. htarget[h] \in Target /\ htarget[h] \notin targets
    BY <2>1, <1>h, <1>i DEF RequestHasTarget, HandlerInv
  <2>7. htarget[h] \notin parallelFuzzers
    BY <2>3, <2>6, <1>i DEF FuzzersInv, Started, LoopInv
  <2>8. Campaign!Register(htarget[h])
    BY <2>1, <2>5, <2>6, <2>7 DEF Campaign!Register, loopVars
  <2>9. QED
    BY <2>6, <2>8 DEF Campaign!Next
<1>2. CASE RemoveMaps(h)
  <2>1. /\ hpc[h] = "removeMaps"
        /\ hpc'[h] = "sendStop"
        /\ UNCHANGED <<htarget, targetsLock>>
        /\ targets' = targets \ {htarget[h]}
    BY <1>2, <1>h, ParallelAssumption DEF RemoveMaps, Goto
  <2>2. targetsLock = h /\ targetsLock' = h
    BY <2>1, <1>i DEF LockHeld
  <2>3. \A t : ~At(t, "sendStop") /\ ~At(t, "sendInterrupt")
    BY <2>1, <2>2, <1>i, AtHolder
  <2>4. \A t : \A l \in InCriticalSection :
          At(t, l)' <=> l = "sendStop" /\ t = htarget[h]
    BY <2>1, <2>2, <1>i, AtHolderNext
  <2>5. Leaving = {} /\ Leaving' = {htarget[h]}
    BY <2>3, <2>4, LeavingAt
  <2>6. htarget[h] \in Target /\ htarget[h] \in targets
    BY <2>1, <1>h, <1>i DEF RequestHasTarget, HandlerInv
  <2>7. Campaign!Unregister(htarget[h])
    BY <2>1, <2>5, <2>6 DEF Campaign!Unregister, loopVars
  <2>8. QED
    BY <2>6, <2>7 DEF Campaign!Next
<1>3. CASE ~AddMaps(h) /\ ~RemoveMaps(h)
  <2>1. /\ UNCHANGED <<targets, parallelFuzzers>>
        /\ hpc[h] \notin {"sendStop", "sendInterrupt"}
        /\ hpc'[h] \notin {"sendStop", "sendInterrupt"}
    BY <1>3, <1>h, <1>n
       DEF NewRequest, HandlerStep, RegisterTarget, UnregisterTarget,
           ReadRequest, AddLock, RemoveLock, Unlock, ReadTargets,
           Begin, Answer, Goto, mapVars, loopVars
  <2>2. \A t : t \in Leaving' <=> t \in Leaving
    BY <2>1, <1>m DEF Leaving
  <2>3. QED
    BY <2>1, <2>2, CampaignStutter
<1>4. QED
  BY <1>1, <1>2, <1>3

LEMMA CampaignLoop ==
  ASSUME TypeInv, Inv, Inv',
         \/ (ReceiveStat \/ StoreStat) /\ UNCHANGED loopVars
         \/ LoopStep
         \/ FuzzerTick
         \/ UNCHANGED vars
  PROVE  [Campaign!Next]_(Campaign!vars)
<1> USE DEF InCriticalSection
<1>h. /\ hpc \in [Handler -> Location]
      /\ parallelFuzzers \subseteq Target
      /\ targets \subseteq Target
      /\ RequestHasTarget
      /\ fpc = "adding" => ftarget \in Target
  BY DEF TypeInv, TypeOK, RegistryTypeOK
<1>i. HandlerInv /\ LoopInv /\ FuzzersInv /\ LockHeld /\ LockHeld'
  BY DEF Inv, LockInv
<1>1. CASE \/ (ReceiveStat \/ StoreStat) /\ UNCHANGED loopVars
           \/ FuzzerTick
           \/ UNCHANGED vars
  <2>1. UNCHANGED <<targets, hpc, htarget, parallelFuzzers>>
    BY <1>1 DEF ReceiveStat, StoreStat, FuzzerTick, StatsTick, mapVars,
       handlerVars, loopVars, registryVars, vars
  <2>2. \A t : t \in Leaving' <=> t \in Leaving
    BY <2>1 DEF Leaving
  <2>3. QED
    BY <2>1, <2>2, CampaignStutter
<1>2. CASE StartFuzzer
  <2>1. /\ UNCHANGED <<targets, hpc, htarget>>
        /\ fpc = "adding"
        /\ parallelFuzzers' = IF Fuzzable(ftarget)
                              THEN parallelFuzzers \cup {ftarget}
                              ELSE parallelFuzzers
    BY <1>2 DEF StartFuzzer, registryVars, mapVars, handlerVars
  <2>2. Leaving' = Leaving
    BY <2>1 DEF Leaving
  <2>3. CASE Fuzzable(ftarget)
    <3>1. ftarget \in targets \cup Leaving
      BY <2>1, <1>i, LeavingAt DEF LoopInv
    <3>2. ftarget \in Target /\ ftarget \notin parallelFuzzers
      BY <2>1, <1>h, <1>i DEF FuzzersInv, Started
    <3>3. Campaign!Start(ftarget)
      BY <2>1, <2>2, <2>3, <3>1, <3>2 DEF Campaign!Start
    <3>4. QED
      BY <3>2, <3>3 DEF Campaign!Next
  <2>4. CASE ~Fuzzable(ftarget)
    BY <2>1, <2>2, <2>4, CampaignStutter
  <2>5. QED
    BY <2>3, <2>4
<1>3. CASE StopFuzzer \/ StopTimeout
  <2>1. /\ UNCHANGED <<targets, hpc, htarget>>
        /\ fpc = "stopping"
        /\ parallelFuzzers' = parallelFuzzers \ {ftarget}
    BY <1>3 DEF StopFuzzer, StopTimeout, registryVars, mapVars, handlerVars
  <2>2. Leaving' = Leaving
    BY <2>1 DEF Leaving
  <2>3. ftarget \in parallelFuzzers /\ At(ftarget, "sendInterrupt")
    BY <2>1, <1>i DEF LoopInv
  <2>4. PICK h \in Handler : hpc[h] = "sendInterrupt" /\ htarget[h] = ftarget
    BY <2>3 DEF At
  <2>5. targetsLock = h
    BY <2>4, <1>i DEF LockHeld
  <2>6. Leaving = {ftarget}
    BY <2>4, <2>5, <1>i, AtHolder, LeavingAt
  <2>7. Campaign!Stop
    BY <2>1, <2>2, <2>3, <2>6 DEF Campaign!Stop
  <2>8. QED
    BY <2>7 DEF Campaign!Next
<1>4. ASSUME NEW h \in Handler, ReceiveAdd(h) \/ ReceiveStop(h),
             hpc[h] # "sendInterrupt"
      PROVE  [Campaign!Next]_(Campaign!vars)
  <2>1. /\ UNCHANGED <<targets, htarget, parallelFuzzers>>
        /\ \A g \in Handler : hpc'[g] \in {"sendStop", "sendInterrupt"}
                              <=> hpc[g] \in {"sendStop", "sendInterrupt"}
    BY <1>4, <1>h DEF ReceiveAdd, ReceiveStop, Goto, mapVars
  <2>2. \A t : t \in Leaving' <=> t \in Leaving
    BY <2>1 DEF Leaving
  <2>3. QED
    BY <2>1, <2>2, CampaignStutter
<1>5. ASSUME NEW h \in Handler, ReceiveStop(h), hpc[h] = "sendInterrupt"
      PROVE  [Campaign!Next]_(Campaign!vars)
  <2>1. /\ hpc'[h] = "unlock"
        /\ UNCHANGED <<targets, htarget, targetsLock, parallelFuzzers>>
        /\ fpc = "select"
    BY <1>5, <1>h DEF ReceiveStop, Goto, mapVars
  <2>2. targetsLock = h /\ targetsLock' = h
    BY <2>1, <1>5, <1>i DEF LockHeld
  <2>3. \A t : \A l \in InCriticalSection :
          At(t, l) <=> l = "sendInterrupt" /\ t = htarget[h]
    BY <2>2, <1>5, <1>i, AtHolder
  <2>4. \A t : ~At(t, "sendStop")' /\ ~At(t, "sendInterrupt")'
    BY <2>1, <2>2, <1>i, AtHolderNext
  <2>5. Leaving = {htarget[h]} /\ Leaving' = {}
    BY <2>3, <2>4, LeavingAt
  <2>6. htarget[h] \notin targets
    BY <1>5, <1>i DEF HandlerInv
  <2>7. htarget[h] \notin parallelFuzzers
    BY <2>1, <2>3, <2>6, <1>h, <1>i DEF FuzzersInv, Started
  <2>8. Campaign!Finish
    BY <2>1, <2>5, <2>7 DEF Campaign!Finish
  <2>9. QED
    BY <2>8 DEF Campaign!Next
<1>6. QED
  BY <1>1, <1>2, <1>3, <1>4, <1>5 DEF LoopStep, ReceiveAdd

\* Seen through the registry, the running fuzzers and the target being
\* unregistered, the daemon does nothing that FuzzCampaign does not allow.
THEOREM CampaignImplemented == Spec => ImplementsCampaign
<1>1. Init => Campaign!Init
  BY DEF Init, RegistryInit, Campaign!Init, Leaving
<1>2. TypeInv /\ Inv /\ Inv' /\ [Next]_vars
        => [Campaign!Next]_(Campaign!vars)
  BY CampaignHandler, CampaignLoop DEF Next, RegistryStep
<1>3. QED
  BY <1>1, <1>2, InvHolds, PTL DEF Spec, ImplementsCampaign, Campaign!Spec
=============================================================================
