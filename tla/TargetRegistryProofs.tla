----------------------- MODULE TargetRegistryProofs -----------------------
(***************************************************************************)
(* Lemmas about the handlers of TargetRegistry that the proofs about both  *)
(* strategies rest on: their steps keep the registry's types, a handler    *)
(* moves only itself, and the holder of targetsLock is the only one in a   *)
(* critical section.                                                       *)
(***************************************************************************)
EXTENDS TargetRegistry, TLAPS

\* The handlers' steps keep the registry's types.
LEMMA RegistryTypesHandler ==
  ASSUME RegistryTypeOK, RequestHasTarget,
         NEW h \in Handler, NewRequest(h) \/ HandlerStep(h)
  PROVE  RegistryTypeOK' /\ RequestHasTarget'
<1> USE TargetAssumption
    DEF RegistryTypeOK, RequestHasTarget, Location, InCriticalSection, Begin,
        Answer, Goto, mapVars, statVars, NoTarget
<1>1. ASSUME NEW t \in Target, RegisterTarget(h, t) \/ UnregisterTarget(h, t)
      PROVE  RegistryTypeOK' /\ RequestHasTarget'
  BY <1>1 DEF RegisterTarget, UnregisterTarget
<1>2. CASE ReadRequest(h) \/ ReadTargets(h)
  BY <1>2 DEF ReadRequest, ReadTargets
<1>3. CASE AddLock(h) \/ RemoveLock(h)
  BY <1>3 DEF AddLock, RemoveLock
<1>4. CASE AddMaps(h)
  <2>1. htarget[h] \in Target
    BY <1>4 DEF AddMaps
  <2>2. CASE fuzzStrategy = "robin"
    <3>1. targetsTimer' = [t \in DOMAIN targetsTimer \cup {htarget[h]} |->
                             IF t = htarget[h] THEN 0 ELSE targetsTimer[t]]
      BY <2>2, <1>4 DEF AddMaps
    <3>2. targetsTimer' \in [DOMAIN targetsTimer' -> Nat]
      BY <3>1
    <3>3. DOMAIN targetsTimer' \subseteq Target
      BY <2>1, <3>1
    <3>4. QED
      BY <2>1, <3>2, <3>3, <1>4 DEF AddMaps
  <2>3. CASE fuzzStrategy # "robin"
    BY <2>1, <2>3, <1>4 DEF AddMaps
  <2>4. QED
    BY <2>2, <2>3
<1>5. CASE RemoveMaps(h)
  <2>1. CASE fuzzStrategy = "robin"
    <3>1. targetsTimer' = [t \in DOMAIN targetsTimer \ {htarget[h]} |->
                             targetsTimer[t]]
      BY <2>1, <1>5 DEF RemoveMaps
    <3>2. targetsTimer' \in [DOMAIN targetsTimer' -> Nat]
      BY <3>1
    <3>3. DOMAIN targetsTimer' \subseteq Target
      BY <3>1
    <3>4. QED
      BY <3>2, <3>3, <1>5 DEF RemoveMaps
  <2>2. CASE fuzzStrategy # "robin"
    BY <2>2, <1>5 DEF RemoveMaps
  <2>3. QED
    BY <2>1, <2>2
<1>6. CASE InterruptTarget(h)
  BY <1>6 DEF InterruptTarget
<1>7. CASE Unlock(h)
  BY <1>7 DEF Unlock
<1>8. QED
  BY <1>1, <1>2, <1>3, <1>4, <1>5, <1>6, <1>7 DEF NewRequest, HandlerStep

-----------------------------------------------------------------------------
\* Some handler is at l with a request about t.
At(t, l) == \E h \in Handler : hpc[h] = l /\ htarget[h] = t

\* Where only the holder of the lock can be.
LEMMA AtHolder ==
  ASSUME LockHeld, NEW h \in Handler, targetsLock = h
  PROVE  \A t : \A l \in InCriticalSection :
           At(t, l) <=> hpc[h] = l /\ htarget[h] = t
  BY DEF LockHeld, At

LEMMA AtHolderNext ==
  ASSUME LockHeld', NEW h \in Handler, targetsLock' = h
  PROVE  \A t : \A l \in InCriticalSection :
           At(t, l)' <=> hpc'[h] = l /\ htarget'[h] = t
  BY DEF LockHeld, At, InCriticalSection

LEMMA AtNobody ==
  ASSUME LockHeld, targetsLock = Nobody
  PROVE  \A t : \A l \in InCriticalSection : ~At(t, l)
  BY HandlerAssumption DEF LockHeld, At

LEMMA AtNobodyNext ==
  ASSUME LockHeld', targetsLock' = Nobody
  PROVE  \A t : \A l \in InCriticalSection : ~At(t, l)'
  BY HandlerAssumption DEF LockHeld, At, InCriticalSection

\* A step of a handler outside its critical section.
LEMMA AtOutside ==
  ASSUME NEW h \in Handler,
         \A g \in Handler \ {h} : hpc'[g] = hpc[g] /\ htarget'[g] = htarget[g],
         hpc[h] \notin InCriticalSection, hpc'[h] \notin InCriticalSection
  PROVE  \A t : \A l \in InCriticalSection : At(t, l)' <=> At(t, l)
  BY DEF At, InCriticalSection

LEMMA HandlerMoves ==
  ASSUME RegistryTypeOK, NEW h \in Handler, NewRequest(h) \/ HandlerStep(h)
  PROVE  \A g \in Handler \ {h} : /\ hpc'[g] = hpc[g]
                                  /\ htarget'[g] = htarget[g]
  BY DEF RegistryTypeOK, NewRequest, HandlerStep,
     RegisterTarget, UnregisterTarget, ReadRequest, AddLock, AddMaps,
     RemoveLock, RemoveMaps, InterruptTarget, Unlock, ReadTargets, Begin,
     Answer, Goto

-----------------------------------------------------------------------------
\* targets and targetStats are written together, or targetStats grows.
LEMMA StatsCoverKept ==
  ASSUME StatsCoverTargets,
         \/ \E h \in Handler : NewRequest(h) \/ HandlerStep(h)
         \/ ReceiveStat
         \/ StoreStat
         \/ UNCHANGED mapVars
  PROVE  StatsCoverTargets'
<1> USE DEF StatsCoverTargets, mapVars
<1>1. ASSUME NEW h \in Handler, AddMaps(h) PROVE StatsCoverTargets'
  BY <1>1 DEF AddMaps
<1>2. ASSUME NEW h \in Handler, RemoveMaps(h) PROVE StatsCoverTargets'
  BY <1>2 DEF RemoveMaps
<1>3. CASE StoreStat
  BY <1>3 DEF StoreStat
<1>4. CASE ReceiveStat
  BY <1>4 DEF ReceiveStat
<1>5. ASSUME NEW h \in Handler, NewRequest(h) PROVE UNCHANGED mapVars
  BY <1>5 DEF NewRequest, RegisterTarget, UnregisterTarget, ReadRequest
<1>6. ASSUME NEW h \in Handler,
             \/ AddLock(h) \/ RemoveLock(h) \/ InterruptTarget(h)
             \/ Unlock(h) \/ ReadTargets(h)
      PROVE  UNCHANGED mapVars
  BY <1>6 DEF AddLock, RemoveLock, InterruptTarget, Unlock, ReadTargets
<1>7. QED
  BY <1>1, <1>2, <1>3, <1>4, <1>5, <1>6 DEF HandlerStep
=============================================================================
