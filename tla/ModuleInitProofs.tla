-------------------------- MODULE ModuleInitProofs --------------------------
(***************************************************************************)
(* Theorems about ModuleInit, for any number of threads, ids and failures. *)
(***************************************************************************)
EXTENDS ModuleInit, FiniteSetTheorems, TLAPS

\* What a thread can do, as in Next.
Step(t) ==
    \/ Continue(t) \/ Lock(t) \/ FinLock(t)
    \/ Load(t) \/ GiveId(t) \/ Close(t) \/ Closed(t) \/ Finalize(t)
    \/ OutOfMemory(t) \/ TablesOutOfMemory(t)

----------------------------------------------------------------------------
(* The stages of the initialization.                                       *)

\* The parts of TypeOK that the steps of the initialization and of the mutex
\* rest on.
ControlOK ==
    /\ initStage \in 0..2 /\ mutexReady \in BOOLEAN /\ lockSet \in BOOLEAN
    /\ owner \subseteq Thread /\ depth \in Nat
    /\ pc \in [Thread -> Stages]
    /\ fin \in [Thread -> {"none", "lock", "dec", "unlock"}]

\* One thread at most initializes, while the others have not come further than
\* the race, and none of the stages comes again.
StageInv ==
    /\ \A t, u \in Thread :
            pc[t] \in Initializing /\ pc[u] \in Initializing => t = u
    /\ \A t \in Thread :
          /\ pc[t] \in Initializing => initStage = 1
          /\ pc[t] \in {"point", "publish"} => mutexReady
          /\ pc[t] = "publish" => lockSet
          /\ initStage # 2 => pc[t] \in Before \cup Initializing /\ fin[t] = "none"
    /\ initStage = 2 => mutexReady /\ lockSet

\* Who is in a critical section owns the mutex, once for the load and once for
\* the finalizer that runs inside it; a failed load may own it once more.
LockInv ==
    /\ owner = {} \/ \E t \in Thread : owner = {t}
    /\ owner # {} => depth > 0
    /\ \A t \in Thread :
          /\ InSection(t) => owner = {t}
          /\ pc[t] \in Locked /\ fin[t] \in {"dec", "unlock"} => depth > 1

\* Every step keeps StageInv.
LEMMA StageStep == ControlOK /\ StageInv /\ [Next]_vars => StageInv'
<1> SUFFICES ASSUME ControlOK /\ StageInv, [Next]_vars PROVE StageInv'
  OBVIOUS
<1> USE InitAssumption, AtomicsAssumption DEF ControlOK, StageInv,
        Stages, Initializing, Before, Locked, stage, mutex, ids, count, states, errors
<1>1. CASE UNCHANGED vars
  BY <1>1 DEF vars
<1>2. ASSUME NEW t \in Thread, Step(t) PROVE StageInv'
  <2>1. CASE Elect(t)
    BY <2>1 DEF Elect, SetIfEqual, At
  <2>2. CASE InitMutex(t)
    BY <2>2 DEF InitMutex, At
  <2>3. CASE SetPointer(t)
    BY <2>3 DEF SetPointer, At
  <2>4. CASE Publish(t)
    BY <2>4 DEF Publish, At
  <2>5. CASE Poll(t)
    BY <2>5 DEF Poll, At
  <2>6. CASE WaitEnds(t)
    BY <2>6 DEF WaitEnds, At
  <2>7. CASE SeedIds(t)
    BY <2>7 DEF SeedIds, At
  <2>8. CASE CheckRegistry(t)
    BY <2>8 DEF CheckRegistry, At
  <2>9. CASE CountState(t)
    BY <2>9 DEF CountState, At
  <2>10. CASE AttachSentinel(t)
    BY <2>10 DEF AttachSentinel, At
  <2>11. CASE StoreSentinel(t)
    BY <2>11 DEF StoreSentinel, At
  <2>12. CASE Unlock(t)
    BY <2>12 DEF Unlock, Release, At
  <2>13. CASE FinCount(t)
    BY <2>13 DEF FinCount, FinMove
  <2>14. CASE FinUnlock(t)
    BY <2>14 DEF FinUnlock, Release, FinMove
  <2>15. CASE Lock(t)
    BY <2>15 DEF Lock, Acquire, At
  <2>16. CASE FinLock(t)
    BY <2>16 DEF FinLock, Acquire, FinMove
  <2>17. CASE Load(t)
    BY <2>17 DEF Load, At
  <2>18. CASE GiveId(t)
    BY <2>18 DEF GiveId
  <2>19. CASE Close(t)
    BY <2>19 DEF Close, At
  <2>20. CASE Closed(t)
    BY <2>20 DEF Closed, At
  <2>21. CASE Finalize(t)
    BY <2>21 DEF Finalize, IsDue
  <2>22. CASE OutOfMemory(t)
    BY <2>22 DEF OutOfMemory, At
  <2>23. CASE BuildTables(t)
    BY <2>23 DEF BuildTables, At
  <2>24. CASE SetupMeta(t)
    BY <2>24 DEF SetupMeta, At
  <2>25. CASE LoadEnds(t)
    BY <2>25 DEF LoadEnds, At
  <2>26. CASE TablesOutOfMemory(t)
    BY <2>26 DEF TablesOutOfMemory, At
  <2> QED
    BY <1>2, <2>1, <2>2, <2>3, <2>4, <2>5, <2>6, <2>7, <2>8, <2>9,
       <2>10, <2>11, <2>12, <2>13, <2>14, <2>15, <2>16, <2>17, <2>18,
       <2>19, <2>20, <2>21, <2>22, <2>23, <2>24, <2>25, <2>26 DEF Step, Continue
<1> QED
  BY <1>1, <1>2 DEF Next, Step

\* Every step keeps ControlOK.
LEMMA ControlStep ==
    ControlOK /\ StageInv /\ LockInv /\ [Next]_vars => ControlOK'
<1> SUFFICES ASSUME ControlOK /\ StageInv /\ LockInv, [Next]_vars
    PROVE  ControlOK'
  OBVIOUS
<1> USE InitAssumption, AtomicsAssumption DEF ControlOK, StageInv, LockInv,
        InSection,
        Stages, Initializing, Before, Locked, stage, mutex, ids, count, states, errors
<1>1. CASE UNCHANGED vars
  BY <1>1 DEF vars
<1>2. ASSUME NEW t \in Thread, Step(t) PROVE ControlOK'
  <2>1. CASE Elect(t)
    BY <2>1 DEF Elect, SetIfEqual, At
  <2>2. CASE InitMutex(t)
    BY <2>2 DEF InitMutex, At
  <2>3. CASE SetPointer(t)
    BY <2>3 DEF SetPointer, At
  <2>4. CASE Publish(t)
    BY <2>4 DEF Publish, At
  <2>5. CASE Poll(t)
    BY <2>5 DEF Poll, At
  <2>6. CASE WaitEnds(t)
    BY <2>6 DEF WaitEnds, At
  <2>7. CASE SeedIds(t)
    BY <2>7 DEF SeedIds, At
  <2>8. CASE CheckRegistry(t)
    BY <2>8 DEF CheckRegistry, At
  <2>9. CASE CountState(t)
    BY <2>9 DEF CountState, At
  <2>10. CASE AttachSentinel(t)
    BY <2>10 DEF AttachSentinel, At
  <2>11. CASE StoreSentinel(t)
    BY <2>11 DEF StoreSentinel, At
  <2>12. CASE Unlock(t)
    BY <2>12 DEF Unlock, Release, At
  <2>13. CASE FinCount(t)
    BY <2>13 DEF FinCount, FinMove
  <2>14. CASE FinUnlock(t)
    BY <2>14 DEF FinUnlock, Release, FinMove
  <2>15. CASE Lock(t)
    BY <2>15 DEF Lock, Acquire, At
  <2>16. CASE FinLock(t)
    BY <2>16 DEF FinLock, Acquire, FinMove
  <2>17. CASE Load(t)
    BY <2>17 DEF Load, At
  <2>18. CASE GiveId(t)
    BY <2>18 DEF GiveId
  <2>19. CASE Close(t)
    BY <2>19 DEF Close, At
  <2>20. CASE Closed(t)
    BY <2>20 DEF Closed, At
  <2>21. CASE Finalize(t)
    BY <2>21 DEF Finalize, IsDue
  <2>22. CASE OutOfMemory(t)
    BY <2>22 DEF OutOfMemory, At
  <2>23. CASE BuildTables(t)
    BY <2>23 DEF BuildTables, At
  <2>24. CASE SetupMeta(t)
    BY <2>24 DEF SetupMeta, At
  <2>25. CASE LoadEnds(t)
    BY <2>25 DEF LoadEnds, At
  <2>26. CASE TablesOutOfMemory(t)
    BY <2>26 DEF TablesOutOfMemory, At
  <2> QED
    BY <1>2, <2>1, <2>2, <2>3, <2>4, <2>5, <2>6, <2>7, <2>8, <2>9,
       <2>10, <2>11, <2>12, <2>13, <2>14, <2>15, <2>16, <2>17, <2>18,
       <2>19, <2>20, <2>21, <2>22, <2>23, <2>24, <2>25, <2>26 DEF Step, Continue
<1> QED
  BY <1>1, <1>2 DEF Next, Step

\* Every step keeps LockInv.
LEMMA LockStep == ControlOK /\ StageInv /\ LockInv /\ [Next]_vars => LockInv'
<1> SUFFICES ASSUME ControlOK /\ StageInv /\ LockInv, [Next]_vars PROVE LockInv'
  OBVIOUS
<1> USE InitAssumption, AtomicsAssumption DEF ControlOK, StageInv, LockInv,
        InSection,
        Stages, Initializing, Before, Locked, stage, mutex, ids, count, states, errors
<1>1. CASE UNCHANGED vars
  BY <1>1 DEF vars
<1>2. ASSUME NEW t \in Thread, Step(t) PROVE LockInv'
  <2>1. CASE Elect(t)
    BY <2>1 DEF Elect, SetIfEqual, At
  <2>2. CASE InitMutex(t)
    BY <2>2 DEF InitMutex, At
  <2>3. CASE SetPointer(t)
    BY <2>3 DEF SetPointer, At
  <2>4. CASE Publish(t)
    BY <2>4 DEF Publish, At
  <2>5. CASE Poll(t)
    BY <2>5 DEF Poll, At
  <2>6. CASE WaitEnds(t)
    BY <2>6 DEF WaitEnds, At
  <2>7. CASE SeedIds(t)
    BY <2>7 DEF SeedIds, At
  <2>8. CASE CheckRegistry(t)
    BY <2>8 DEF CheckRegistry, At
  <2>9. CASE CountState(t)
    BY <2>9 DEF CountState, At
  <2>10. CASE AttachSentinel(t)
    BY <2>10 DEF AttachSentinel, At
  <2>11. CASE StoreSentinel(t)
    BY <2>11 DEF StoreSentinel, At
  <2>12. CASE Unlock(t)
    BY <2>12 DEF Unlock, Release, At
  <2>13. CASE FinCount(t)
    BY <2>13 DEF FinCount, FinMove
  <2>14. CASE FinUnlock(t)
    BY <2>14 DEF FinUnlock, Release, FinMove
  <2>15. CASE Lock(t)
    BY <2>15 DEF Lock, Acquire, At
  <2>16. CASE FinLock(t)
    BY <2>16 DEF FinLock, Acquire, FinMove
  <2>17. CASE Load(t)
    BY <2>17 DEF Load, At
  <2>18. CASE GiveId(t)
    BY <2>18 DEF GiveId
  <2>19. CASE Close(t)
    BY <2>19 DEF Close, At
  <2>20. CASE Closed(t)
    BY <2>20 DEF Closed, At
  <2>21. CASE Finalize(t)
    BY <2>21 DEF Finalize, IsDue
  <2>22. CASE OutOfMemory(t)
    BY <2>22 DEF OutOfMemory, At
  <2>23. CASE BuildTables(t)
    BY <2>23 DEF BuildTables, At
  <2>24. CASE SetupMeta(t)
    BY <2>24 DEF SetupMeta, At
  <2>25. CASE LoadEnds(t)
    BY <2>25 DEF LoadEnds, At
  <2>26. CASE TablesOutOfMemory(t)
    BY <2>26 DEF TablesOutOfMemory, At
  <2> QED
    BY <1>2, <2>1, <2>2, <2>3, <2>4, <2>5, <2>6, <2>7, <2>8, <2>9,
       <2>10, <2>11, <2>12, <2>13, <2>14, <2>15, <2>16, <2>17, <2>18,
       <2>19, <2>20, <2>21, <2>22, <2>23, <2>24, <2>25, <2>26 DEF Step, Continue
<1> QED
  BY <1>1, <1>2 DEF Next, Step

----------------------------------------------------------------------------
(* The data: types, and the ids.                                           *)

\* The rest of TypeOK.
DataOK ==
    /\ initialized \in BOOLEAN /\ idCounter \in AtomicCounter
    /\ issued \in Seq(AtomicCounter)
    /\ stateCounter \in Int /\ seen \in [Thread -> Int]
    /\ registered \in [Thread -> BOOLEAN] /\ loose \in [Thread -> Nat]
    /\ meta \in [Thread -> {"none", "bare", "spoiled", "full"}]
    /\ abandoned \in [Thread -> Nat] /\ lost \in Nat /\ failures \in Nat

\* Every step keeps DataOK.
LEMMA DataStep == ControlOK /\ DataOK /\ [Next]_vars => DataOK'
<1> SUFFICES ASSUME ControlOK /\ DataOK, [Next]_vars PROVE DataOK'
  OBVIOUS
<1> USE InitAssumption, AtomicsAssumption DEF ControlOK, DataOK,
        AtomicCounter, Incremented,
        stage, mutex, ids, count, states, errors
<1>1. CASE UNCHANGED vars
  BY <1>1 DEF vars
<1>2. ASSUME NEW t \in Thread, Step(t) PROVE DataOK'
  <2>1. CASE Elect(t)
    BY <2>1 DEF Elect, SetIfEqual, At
  <2>2. CASE InitMutex(t)
    BY <2>2 DEF InitMutex, At
  <2>3. CASE SetPointer(t)
    BY <2>3 DEF SetPointer, At
  <2>4. CASE Publish(t)
    BY <2>4 DEF Publish, At
  <2>5. CASE Poll(t)
    BY <2>5 DEF Poll, At
  <2>6. CASE WaitEnds(t)
    BY <2>6 DEF WaitEnds, At
  <2>7. CASE SeedIds(t)
    BY <2>7 DEF SeedIds, At
  <2>8. CASE CheckRegistry(t)
    BY <2>8 DEF CheckRegistry, At
  <2>9. CASE CountState(t)
    BY <2>9 DEF CountState, At
  <2>10. CASE AttachSentinel(t)
    BY <2>10 DEF AttachSentinel, At
  <2>11. CASE StoreSentinel(t)
    BY <2>11 DEF StoreSentinel, At
  <2>12. CASE Unlock(t)
    BY <2>12 DEF Unlock, Release, At
  <2>13. CASE FinCount(t)
    <3>1. stateCounter' \in Int /\ seen' \in [Thread -> Int]
      BY <2>13 DEF FinCount
    <3>2. loose' \in [Thread -> Nat]
      <4>1. CASE loose[t] > 0
        <5>1. loose[t] - 1 \in Nat /\ loose' = [loose EXCEPT ![t] = loose[t] - 1]
          BY <2>13, <4>1 DEF FinCount
        <5> QED
          BY <5>1
      <4>2. CASE ~(loose[t] > 0)
        BY <2>13, <4>2 DEF FinCount
      <4> QED
        BY <4>1, <4>2
    <3>3. registered' \in [Thread -> BOOLEAN]
      BY <2>13 DEF FinCount
    <3> QED
      BY <2>13, <3>1, <3>2, <3>3 DEF FinCount
  <2>14. CASE FinUnlock(t)
    BY <2>14 DEF FinUnlock, Release, FinMove
  <2>15. CASE Lock(t)
    BY <2>15 DEF Lock, Acquire, At
  <2>16. CASE FinLock(t)
    BY <2>16 DEF FinLock, Acquire, FinMove
  <2>17. CASE Load(t)
    BY <2>17 DEF Load, At
  <2>18. CASE GiveId(t)
    BY <2>18 DEF GiveId
  <2>19. CASE Close(t)
    BY <2>19 DEF Close, At
  <2>20. CASE Closed(t)
    BY <2>20 DEF Closed, At
  <2>21. CASE Finalize(t)
    BY <2>21 DEF Finalize, IsDue
  <2>22. CASE OutOfMemory(t)
    BY <2>22 DEF OutOfMemory, At
  <2>23. CASE BuildTables(t)
    BY <2>23 DEF BuildTables, At
  <2>24. CASE SetupMeta(t)
    BY <2>24 DEF SetupMeta, At
  <2>25. CASE LoadEnds(t)
    BY <2>25 DEF LoadEnds, At
  <2>26. CASE TablesOutOfMemory(t)
    BY <2>26 DEF TablesOutOfMemory, At
  <2> QED
    BY <1>2, <2>1, <2>2, <2>3, <2>4, <2>5, <2>6, <2>7, <2>8, <2>9,
       <2>10, <2>11, <2>12, <2>13, <2>14, <2>15, <2>16, <2>17, <2>18,
       <2>19, <2>20, <2>21, <2>22, <2>23, <2>24, <2>25, <2>26 DEF Step, Continue
<1> QED
  BY <1>1, <1>2 DEF Next, Step

\* The first state is well-typed.
LEMMA DataInit == Init => DataOK
<1> SUFFICES ASSUME Init PROVE DataOK
  OBVIOUS
<1> USE InitAssumption, AtomicsAssumption DEF Init
<1>1. initialized \in BOOLEAN /\ registered \in [Thread -> BOOLEAN]
  OBVIOUS
<1>2. idCounter \in AtomicCounter
  BY DEF AtomicCounter
<1>3. issued \in Seq(AtomicCounter)
  OBVIOUS
<1>4. /\ stateCounter \in Int /\ seen \in [Thread -> Int]
      /\ loose \in [Thread -> Nat] /\ failures \in Nat
  OBVIOUS
<1>5. /\ meta \in [Thread -> {"none", "bare", "spoiled", "full"}]
      /\ abandoned \in [Thread -> Nat] /\ lost \in Nat
  OBVIOUS
<1> QED
  BY <1>1, <1>2, <1>3, <1>4, <1>5 DEF DataOK

\* The counter is seeded by the first who comes into the critical section, and
\* by nobody after that.
SeedInv ==
    \A t \in Thread :
        /\ pc[t] = "seed" => ~initialized
        /\ pc[t] \in (Locked \ {"seed"})
                        \cup {"tables", "meta", "functions", "ready"}
              => initialized

\* The ids that were given out are the successors of the seed.
IdsInv ==
    /\ ~initialized => issued = <<>>
    /\ initialized => \E s \in Seed :
          /\ idCounter = s + Len(issued)
          /\ \A k \in 1..Len(issued) : issued[k] = s + k
    /\ Len(issued) <= MaxIds

\* Every step keeps SeedInv.
LEMMA SeedStep == ControlOK /\ LockInv /\ SeedInv /\ [Next]_vars => SeedInv'
<1> SUFFICES ASSUME ControlOK /\ LockInv /\ SeedInv, [Next]_vars PROVE SeedInv'
  OBVIOUS
<1> USE InitAssumption, AtomicsAssumption DEF ControlOK, LockInv, SeedInv,
        InSection,
        Locked, stage, mutex, ids, count, states, errors
<1>1. CASE UNCHANGED vars
  BY <1>1 DEF vars
<1>2. ASSUME NEW t \in Thread, Step(t) PROVE SeedInv'
  <2>1. CASE Elect(t)
    BY <2>1 DEF Elect, SetIfEqual, At
  <2>2. CASE InitMutex(t)
    BY <2>2 DEF InitMutex, At
  <2>3. CASE SetPointer(t)
    BY <2>3 DEF SetPointer, At
  <2>4. CASE Publish(t)
    BY <2>4 DEF Publish, At
  <2>5. CASE Poll(t)
    BY <2>5 DEF Poll, At
  <2>6. CASE WaitEnds(t)
    BY <2>6 DEF WaitEnds, At
  <2>7. CASE SeedIds(t)
    BY <2>7 DEF SeedIds, At
  <2>8. CASE CheckRegistry(t)
    BY <2>8 DEF CheckRegistry, At
  <2>9. CASE CountState(t)
    BY <2>9 DEF CountState, At
  <2>10. CASE AttachSentinel(t)
    BY <2>10 DEF AttachSentinel, At
  <2>11. CASE StoreSentinel(t)
    BY <2>11 DEF StoreSentinel, At
  <2>12. CASE Unlock(t)
    BY <2>12 DEF Unlock, Release, At
  <2>13. CASE FinCount(t)
    BY <2>13 DEF FinCount, FinMove
  <2>14. CASE FinUnlock(t)
    BY <2>14 DEF FinUnlock, Release, FinMove
  <2>15. CASE Lock(t)
    BY <2>15 DEF Lock, Acquire, At
  <2>16. CASE FinLock(t)
    BY <2>16 DEF FinLock, Acquire, FinMove
  <2>17. CASE Load(t)
    BY <2>17 DEF Load, At
  <2>18. CASE GiveId(t)
    BY <2>18 DEF GiveId
  <2>19. CASE Close(t)
    BY <2>19 DEF Close, At
  <2>20. CASE Closed(t)
    BY <2>20 DEF Closed, At
  <2>21. CASE Finalize(t)
    BY <2>21 DEF Finalize, IsDue
  <2>22. CASE OutOfMemory(t)
    BY <2>22 DEF OutOfMemory, At
  <2>23. CASE BuildTables(t)
    BY <2>23 DEF BuildTables, At
  <2>24. CASE SetupMeta(t)
    BY <2>24 DEF SetupMeta, At
  <2>25. CASE LoadEnds(t)
    BY <2>25 DEF LoadEnds, At
  <2>26. CASE TablesOutOfMemory(t)
    BY <2>26 DEF TablesOutOfMemory, At
  <2> QED
    BY <1>2, <2>1, <2>2, <2>3, <2>4, <2>5, <2>6, <2>7, <2>8, <2>9,
       <2>10, <2>11, <2>12, <2>13, <2>14, <2>15, <2>16, <2>17, <2>18,
       <2>19, <2>20, <2>21, <2>22, <2>23, <2>24, <2>25, <2>26 DEF Step, Continue
<1> QED
  BY <1>1, <1>2 DEF Next, Step

\* The counter does not get to its end.
NoWrap == \A s \in Seed : s + MaxIds <= MaxInt

\* Every step keeps IdsInv.
LEMMA IdsStep ==
    ASSUME NoWrap
    PROVE  ControlOK /\ DataOK /\ SeedInv /\ IdsInv /\ [Next]_vars => IdsInv'
<1> SUFFICES ASSUME ControlOK /\ DataOK /\ SeedInv /\ IdsInv, [Next]_vars
    PROVE  IdsInv'
  OBVIOUS
<1> USE InitAssumption, AtomicsAssumption DEF ControlOK, DataOK, SeedInv,
        IdsInv,
        Locked, stage, mutex, ids, count, states, errors
<1>1. CASE UNCHANGED vars
  BY <1>1 DEF vars
<1>2. ASSUME NEW t \in Thread, Step(t) PROVE IdsInv'
  <2>1. CASE Elect(t)
    BY <2>1 DEF Elect, SetIfEqual, At
  <2>2. CASE InitMutex(t)
    BY <2>2 DEF InitMutex, At
  <2>3. CASE SetPointer(t)
    BY <2>3 DEF SetPointer, At
  <2>4. CASE Publish(t)
    BY <2>4 DEF Publish, At
  <2>5. CASE Poll(t)
    BY <2>5 DEF Poll, At
  <2>6. CASE WaitEnds(t)
    BY <2>6 DEF WaitEnds, At
  <2>7. CASE SeedIds(t)
    <3>1. ~initialized /\ initialized' /\ idCounter' \in Seed /\ issued' = issued
      BY <2>7 DEF SeedIds, At
    <3>2. issued' = <<>> /\ Len(issued') = 0
      BY <3>1
    <3>3. idCounter' \in Nat
      BY <3>1
    <3> QED
      BY <3>1, <3>2, <3>3
  <2>8. CASE CheckRegistry(t)
    BY <2>8 DEF CheckRegistry, At
  <2>9. CASE CountState(t)
    BY <2>9 DEF CountState, At
  <2>10. CASE AttachSentinel(t)
    BY <2>10 DEF AttachSentinel, At
  <2>11. CASE StoreSentinel(t)
    BY <2>11 DEF StoreSentinel, At
  <2>12. CASE Unlock(t)
    BY <2>12 DEF Unlock, Release, At
  <2>13. CASE FinCount(t)
    BY <2>13 DEF FinCount, FinMove
  <2>14. CASE FinUnlock(t)
    BY <2>14 DEF FinUnlock, Release, FinMove
  <2>15. CASE Lock(t)
    BY <2>15 DEF Lock, Acquire, At
  <2>16. CASE FinLock(t)
    BY <2>16 DEF FinLock, Acquire, FinMove
  <2>17. CASE Load(t)
    BY <2>17 DEF Load, At
  <2>18. CASE GiveId(t)
    <3>1. initialized /\ initialized' = initialized /\ Len(issued) < MaxIds
      BY <2>18 DEF GiveId
    <3>2. PICK s \in Seed : /\ idCounter = s + Len(issued)
                            /\ \A k \in 1..Len(issued) : issued[k] = s + k
      BY <3>1
    <3>3. s \in Nat /\ Len(issued) \in Nat /\ s + MaxIds <= MaxInt
      BY DEF NoWrap
    <3>4. idCounter' = s + Len(issued) + 1
      BY <2>18, <3>1, <3>2, <3>3 DEF GiveId, Incremented
    <3>5. issued' = Append(issued, s + Len(issued) + 1)
      BY <2>18, <3>4 DEF GiveId
    <3>6. Len(issued') = Len(issued) + 1
      BY <3>5
    <3>7. ASSUME NEW k \in 1..Len(issued') PROVE issued'[k] = s + k
      <4>1. CASE k \in 1..Len(issued)
        BY <4>1, <3>2, <3>5
      <4>2. CASE k = Len(issued) + 1
        BY <4>2, <3>3, <3>5
      <4> QED
        BY <4>1, <4>2, <3>3, <3>6
    <3> QED
      BY <3>1, <3>3, <3>4, <3>6, <3>7
  <2>19. CASE Close(t)
    BY <2>19 DEF Close, At
  <2>20. CASE Closed(t)
    BY <2>20 DEF Closed, At
  <2>21. CASE Finalize(t)
    BY <2>21 DEF Finalize, IsDue
  <2>22. CASE OutOfMemory(t)
    BY <2>22 DEF OutOfMemory, At
  <2>23. CASE BuildTables(t)
    BY <2>23 DEF BuildTables, At
  <2>24. CASE SetupMeta(t)
    BY <2>24 DEF SetupMeta, At
  <2>25. CASE LoadEnds(t)
    BY <2>25 DEF LoadEnds, At
  <2>26. CASE TablesOutOfMemory(t)
    BY <2>26 DEF TablesOutOfMemory, At
  <2> QED
    BY <1>2, <2>1, <2>2, <2>3, <2>4, <2>5, <2>6, <2>7, <2>8, <2>9,
       <2>10, <2>11, <2>12, <2>13, <2>14, <2>15, <2>16, <2>17, <2>18,
       <2>19, <2>20, <2>21, <2>22, <2>23, <2>24, <2>25, <2>26 DEF Step, Continue
<1> QED
  BY <1>1, <1>2 DEF Next, Step

----------------------------------------------------------------------------
(* The levels of the mutex.                                                *)

\* The inductive invariant behind the mutex.
ControlInv == ControlOK /\ StageInv /\ LockInv

\* Its levels: nobody owns a mutex that is not locked, and no load
\* gets as far as to fail under the mutex before it is initialized.
LevelsInv ==
    /\ MutexIsGivenBack
    /\ owner = {} => depth = 0
    /\ initStage # 2 => \A t \in Thread : abandoned[t] = 0

\* A thread holds one level for the load and one for the finalizer it is in.
LEMMA LevelsNat == ASSUME DataOK, NEW t \in Thread PROVE Levels(t) \in Nat
<1>1. abandoned[t] \in Nat
  BY DEF DataOK
<1> QED
  BY <1>1 DEF Levels

\* Levels may change hands between the load in progress and what is abandoned.
LEMMA LevelsKept ==
    ASSUME LevelsInv, UNCHANGED mutex,
           \A r \in Thread : Levels(r)' = Levels(r),
           initStage' # 2 => initStage # 2 /\ UNCHANGED abandoned
    PROVE  LevelsInv'
  BY DEF LevelsInv, MutexIsGivenBack, mutex

\* The mutex is entered, once more or by a thread that has not been inside.
LEMMA LevelsUp ==
    ASSUME LevelsInv, DataOK, NEW t \in Thread, Acquire(t),
           Levels(t)' = Levels(t) + 1,
           \A r \in Thread \ {t} : Levels(r)' = Levels(r),
           UNCHANGED <<initStage, abandoned>>
    PROVE  LevelsInv'
<1>1. owner' = {t} /\ depth' = depth + 1 /\ owner \subseteq {t}
  BY DEF Acquire
<1>2. \A r \in Thread : Levels(r) \in Nat
  BY LevelsNat
<1>3. depth = Levels(t)
  <2>1. CASE owner = {}
    BY <1>2, <2>1 DEF LevelsInv, MutexIsGivenBack
  <2>2. CASE owner = {t}
    BY <1>2, <2>2 DEF LevelsInv, MutexIsGivenBack
  <2> QED
    BY <1>1, <2>1, <2>2
<1>4. ASSUME NEW r \in Thread \ {t} PROVE Levels(r) = 0
  BY <1>1, <1>2 DEF LevelsInv, MutexIsGivenBack
<1>5. MutexIsGivenBack'
  BY <1>1, <1>2, <1>3, <1>4 DEF MutexIsGivenBack
<1> QED
  BY <1>1, <1>5 DEF LevelsInv

\* The mutex is left by one level.
LEMMA LevelsDown ==
    ASSUME LevelsInv, DataOK, NEW t \in Thread, Release(t),
           Levels(t)' = Levels(t) - 1,
           \A r \in Thread \ {t} : Levels(r)' = Levels(r),
           UNCHANGED <<initStage, abandoned>>
    PROVE  LevelsInv'
<1>1. /\ owner = {t} /\ depth' = depth - 1
      /\ owner' = IF depth = 1 THEN {} ELSE {t}
  BY DEF Release
<1>2. \A r \in Thread : Levels(r) \in Nat
  BY LevelsNat
<1>3. depth = Levels(t) /\ Levels(t) > 0
  BY <1>1, <1>2 DEF LevelsInv, MutexIsGivenBack
<1>4. ASSUME NEW r \in Thread \ {t} PROVE Levels(r) = 0
  BY <1>1, <1>2 DEF LevelsInv, MutexIsGivenBack
<1>5. MutexIsGivenBack'
  BY <1>1, <1>2, <1>3, <1>4 DEF MutexIsGivenBack
<1>6. owner' = {} => depth' = 0
  BY <1>1
<1> QED
  BY <1>5, <1>6 DEF LevelsInv

\* Every step keeps LevelsInv.
LEMMA LevelsStep == ControlInv /\ DataOK /\ LevelsInv /\ [Next]_vars => LevelsInv'
<1> SUFFICES ASSUME ControlInv /\ DataOK /\ LevelsInv, [Next]_vars
    PROVE  LevelsInv'
  OBVIOUS
<1> USE DEF ControlInv, ControlOK, DataOK, Locked, stage, mutex, ids, count,
        states, errors
<1>1. CASE UNCHANGED vars
  BY <1>1, LevelsKept DEF vars, Levels
<1>2. ASSUME NEW t \in Thread, Step(t) PROVE LevelsInv'
  <2>1. CASE InitMutex(t)
    <3>1. initStage # 2 /\ owner' = {} /\ depth' = 0
      BY <2>1 DEF InitMutex, At, StageInv, Initializing
    <3>2. ASSUME NEW r \in Thread PROVE Levels(r)' = 0
      <4>1. pc[r] \notin Locked /\ fin[r] = "none" /\ abandoned[r] = 0
        BY <3>1 DEF StageInv, Initializing, Before, LevelsInv
      <4>2. pc'[r] \notin Locked /\ UNCHANGED <<fin, abandoned>>
        BY <2>1, <4>1 DEF InitMutex, At
      <4> QED
        BY <4>1, <4>2 DEF Levels
    <3>3. MutexIsGivenBack'
      BY <3>1, <3>2 DEF MutexIsGivenBack
    <3> QED
      BY <2>1, <3>1, <3>3 DEF InitMutex, LevelsInv
  <2>2. CASE Lock(t)
    <3>1. Levels(t)' = Levels(t) + 1
      BY <2>2 DEF Lock, At, Levels
    <3>2. \A r \in Thread \ {t} : Levels(r)' = Levels(r)
      BY <2>2 DEF Lock, At, Levels
    <3> QED
      BY <2>2, <3>1, <3>2, LevelsUp DEF Lock
  <2>3. CASE FinLock(t)
    <3>1. Levels(t)' = Levels(t) + 1
      BY <2>3 DEF FinLock, FinMove, Levels
    <3>2. \A r \in Thread \ {t} : Levels(r)' = Levels(r)
      BY <2>3 DEF FinLock, FinMove, Levels
    <3> QED
      BY <2>3, <3>1, <3>2, LevelsUp DEF FinLock
  <2>4. CASE Unlock(t)
    <3>1. Levels(t)' = Levels(t) - 1
      BY <2>4 DEF Unlock, At, Levels
    <3>2. \A r \in Thread \ {t} : Levels(r)' = Levels(r)
      BY <2>4 DEF Unlock, At, Levels
    <3> QED
      BY <2>4, <3>1, <3>2, LevelsDown DEF Unlock
  <2>5. CASE FinUnlock(t)
    <3>1. Levels(t)' = Levels(t) - 1
      BY <2>5 DEF FinUnlock, FinMove, Levels
    <3>2. \A r \in Thread \ {t} : Levels(r)' = Levels(r)
      BY <2>5 DEF FinUnlock, FinMove, Levels
    <3> QED
      BY <2>5, <3>1, <3>2, LevelsDown DEF FinUnlock
  <2>6. CASE OutOfMemory(t)
    <3>1. Levels(t)' = Levels(t)
      BY <2>6 DEF OutOfMemory, At, Levels
    <3>2. \A r \in Thread : Levels(r)' = Levels(r)
      BY <2>6, <3>1 DEF OutOfMemory, At, Levels
    <3>3. initStage = 2
      BY <2>6 DEF OutOfMemory, At, StageInv, Before, Initializing
    <3> QED
      BY <2>6, <3>2, <3>3, LevelsKept DEF OutOfMemory
  <2>7. CASE Elect(t)
    <3>1. \A r \in Thread : Levels(r)' = Levels(r)
      BY <2>7 DEF Elect, SetIfEqual, At, Levels
    <3> QED
      BY <2>7, <3>1, LevelsKept DEF Elect, SetIfEqual, At
  <2>8. CASE SetPointer(t)
    <3>1. \A r \in Thread : Levels(r)' = Levels(r)
      BY <2>8 DEF SetPointer, At, Levels
    <3> QED
      BY <2>8, <3>1, LevelsKept DEF SetPointer, At
  <2>9. CASE Publish(t)
    <3>1. \A r \in Thread : Levels(r)' = Levels(r)
      BY <2>9 DEF Publish, At, Levels
    <3> QED
      BY <2>9, <3>1, LevelsKept DEF Publish, At
  <2>10. CASE Poll(t)
    <3>1. \A r \in Thread : Levels(r)' = Levels(r)
      BY <2>10 DEF Poll, At, Levels
    <3> QED
      BY <2>10, <3>1, LevelsKept DEF Poll, At
  <2>11. CASE WaitEnds(t)
    <3>1. \A r \in Thread : Levels(r)' = Levels(r)
      BY <2>11 DEF WaitEnds, At, Levels
    <3> QED
      BY <2>11, <3>1, LevelsKept DEF WaitEnds, At
  <2>12. CASE SeedIds(t)
    <3>1. \A r \in Thread : Levels(r)' = Levels(r)
      BY <2>12 DEF SeedIds, At, Levels
    <3> QED
      BY <2>12, <3>1, LevelsKept DEF SeedIds, At
  <2>13. CASE CheckRegistry(t)
    <3>1. \A r \in Thread : Levels(r)' = Levels(r)
      BY <2>13 DEF CheckRegistry, At, Levels
    <3> QED
      BY <2>13, <3>1, LevelsKept DEF CheckRegistry, At
  <2>14. CASE CountState(t)
    <3>1. \A r \in Thread : Levels(r)' = Levels(r)
      BY <2>14 DEF CountState, At, Levels
    <3> QED
      BY <2>14, <3>1, LevelsKept DEF CountState, At
  <2>15. CASE AttachSentinel(t)
    <3>1. \A r \in Thread : Levels(r)' = Levels(r)
      BY <2>15 DEF AttachSentinel, At, Levels
    <3> QED
      BY <2>15, <3>1, LevelsKept DEF AttachSentinel, At
  <2>16. CASE StoreSentinel(t)
    <3>1. \A r \in Thread : Levels(r)' = Levels(r)
      BY <2>16 DEF StoreSentinel, At, Levels
    <3> QED
      BY <2>16, <3>1, LevelsKept DEF StoreSentinel, At
  <2>17. CASE FinCount(t)
    <3>1. \A r \in Thread : Levels(r)' = Levels(r)
      BY <2>17 DEF FinCount, FinMove, Levels
    <3> QED
      BY <2>17, <3>1, LevelsKept DEF FinCount, FinMove
  <2>18. CASE Load(t)
    <3>1. \A r \in Thread : Levels(r)' = Levels(r)
      BY <2>18 DEF Load, At, Levels
    <3> QED
      BY <2>18, <3>1, LevelsKept DEF Load, At
  <2>19. CASE GiveId(t)
    <3>1. \A r \in Thread : Levels(r)' = Levels(r)
      BY <2>19 DEF GiveId, Levels
    <3> QED
      BY <2>19, <3>1, LevelsKept DEF GiveId
  <2>20. CASE Close(t)
    <3>1. \A r \in Thread : Levels(r)' = Levels(r)
      BY <2>20 DEF Close, At, Levels
    <3> QED
      BY <2>20, <3>1, LevelsKept DEF Close, At
  <2>21. CASE Closed(t)
    <3>1. \A r \in Thread : Levels(r)' = Levels(r)
      BY <2>21 DEF Closed, At, Levels
    <3> QED
      BY <2>21, <3>1, LevelsKept DEF Closed, At
  <2>22. CASE Finalize(t)
    <3>1. \A r \in Thread : Levels(r)' = Levels(r)
      BY <2>22 DEF Finalize, IsDue, Levels
    <3> QED
      BY <2>22, <3>1, LevelsKept DEF Finalize, IsDue
  <2>23. CASE BuildTables(t)
    <3>1. \A r \in Thread : Levels(r)' = Levels(r)
      BY <2>23 DEF BuildTables, At, Levels
    <3> QED
      BY <2>23, <3>1, LevelsKept DEF BuildTables, At
  <2>24. CASE SetupMeta(t)
    <3>1. \A r \in Thread : Levels(r)' = Levels(r)
      BY <2>24 DEF SetupMeta, At, Levels
    <3> QED
      BY <2>24, <3>1, LevelsKept DEF SetupMeta, At
  <2>25. CASE LoadEnds(t)
    <3>1. \A r \in Thread : Levels(r)' = Levels(r)
      BY <2>25 DEF LoadEnds, At, Levels
    <3> QED
      BY <2>25, <3>1, LevelsKept DEF LoadEnds, At
  <2>26. CASE TablesOutOfMemory(t)
    <3>1. \A r \in Thread : Levels(r)' = Levels(r)
      BY <2>26 DEF TablesOutOfMemory, At, Levels
    <3> QED
      BY <2>26, <3>1, LevelsKept DEF TablesOutOfMemory, At
  <2> QED
    BY <1>2, <2>1, <2>2, <2>3, <2>4, <2>5, <2>6, <2>7, <2>8,
       <2>9, <2>10, <2>11, <2>12, <2>13, <2>14, <2>15, <2>16, <2>17,
       <2>18, <2>19, <2>20, <2>21, <2>22, <2>23, <2>24, <2>25, <2>26 DEF Step, Continue
<1> QED
  BY <1>1, <1>2 DEF Next, Step

----------------------------------------------------------------------------
(* Theorems.                                                               *)

\* The conjunction is inductive.
LEMMA ControlInvariant == Spec => []ControlInv
<1>1. ASSUME Init PROVE ControlInv
  <2>1. ControlOK
    <3>1. pc \in [Thread -> Stages]
      BY <1>1 DEF Init, Stages
    <3>2. fin \in [Thread -> {"none", "lock", "dec", "unlock"}]
      BY <1>1 DEF Init
    <3>3. mutexReady \in BOOLEAN /\ lockSet \in BOOLEAN
      BY <1>1 DEF Init
    <3>4. initStage \in 0..2 /\ owner \subseteq Thread /\ depth \in Nat
      BY <1>1 DEF Init
    <3> QED
      BY <3>1, <3>2, <3>3, <3>4 DEF ControlOK
  <2>2. StageInv
    BY <1>1 DEF Init, StageInv, Initializing, Before
  <2>3. LockInv
    BY <1>1 DEF Init, LockInv, InSection, Locked
  <2> QED
    BY <2>1, <2>2, <2>3 DEF ControlInv
<1>2. ControlInv /\ [Next]_vars => ControlInv'
  BY ControlStep, StageStep, LockStep DEF ControlInv
<1> QED
  BY <1>1, <1>2, PTL DEF Spec

\* Whoever has passed the initialization finds the mutex ready and nobody who
\* is still about to initialize it.
THEOREM StableMutex == Spec => []MutexIsStable
<1>1. ControlInv => MutexIsStable
  BY DEF ControlInv, StageInv, MutexIsStable, ControlOK
<1> QED
  BY <1>1, ControlInvariant, PTL

\* Loads and finalizers, also those of a state that has failed to load, never
\* are in their critical sections at once.
THEOREM Exclusion == Spec => []MutualExclusion
<1>1. ControlInv => MutualExclusion
  BY DEF ControlInv, LockInv, MutualExclusion
<1> QED
  BY <1>1, ControlInvariant, PTL

\* Whoever is not inside the mutex has given back every level it took, but for
\* those that loads have left locked when Lua ran out of memory in there.
THEOREM GivenBack == Spec => []MutexIsGivenBack
<1> DEFINE Inv == DataOK /\ LevelsInv
<1>1. Init => Inv
  <2>1. Init => LevelsInv
    BY DEF Init, LevelsInv, MutexIsGivenBack, Levels, Locked
  <2> QED
    BY <2>1, DataInit
<1>2. ControlInv /\ Inv /\ [Next]_vars => Inv'
  BY DataStep, LevelsStep DEF ControlInv
<1>3. Inv => MutexIsGivenBack
  BY DEF LevelsInv
<1> QED
  BY <1>1, <1>2, <1>3, ControlInvariant, PTL DEF Spec

\* No id is given out twice, as long as the counter does not get to its end: it
\* is seeded once, before the first id is taken from it, and then only incremented.
THEOREM UniqueIds == ASSUME NoWrap PROVE Spec => []IdsAreUnique
<1> DEFINE IdInv == DataOK /\ SeedInv /\ IdsInv
<1>1. Init => IdInv
  <2>1. Init => DataOK
    BY DataInit
  <2>2. Init => SeedInv
    BY DEF Init, SeedInv, Locked
  <2>3. Init => IdsInv
    BY InitAssumption DEF Init, IdsInv
  <2> QED
    BY <2>1, <2>2, <2>3
<1>2. ControlInv /\ IdInv /\ [Next]_vars => IdInv'
  BY NoWrap, DataStep, SeedStep, IdsStep DEF ControlInv
<1>3. IdInv => IdsAreUnique
  <2> SUFFICES ASSUME IdInv, NEW i \in 1..Len(issued), NEW j \in 1..Len(issued),
                      issued[i] = issued[j]
               PROVE  i = j
    BY DEF IdsAreUnique
  <2>1. initialized
    BY DEF DataOK, IdsInv
  <2>2. PICK s \in Seed : \A k \in 1..Len(issued) : issued[k] = s + k
    BY <2>1 DEF IdsInv
  <2>3. s \in Nat /\ i \in Nat /\ j \in Nat
    BY InitAssumption, AtomicsAssumption DEF DataOK
  <2> QED
    BY <2>2, <2>3
<1> QED
  BY <1>1, <1>2, <1>3, ControlInvariant, PTL DEF Spec

----------------------------------------------------------------------------
(* The states that are counted.                                            *)

\* A load reads the counter when its state has no sentinel in the registry, and
\* nobody writes the counter before the load or the finalizer that has read it
\* does.  A finalizer runs for a sentinel that is there, and that is not the one
\* that the load it interrupts has just made.
SentinelsInv ==
    \A t \in Thread :
        /\ fin[t] # "none" =>
              pc[t] \in {"ready", "raised", "attach", "store", "closing",
                         "tables", "meta", "functions"}
        /\ pc[t] = "count" \/ fin[t] = "dec" => seen[t] = stateCounter
        /\ pc[t] \in {"count", "attach", "store"} => ~registered[t]
        /\ pc[t] = "store" => loose[t] > 0
        /\ fin[t] \in {"lock", "dec"} =>
              \/ loose[t] > IF pc[t] = "store" THEN 1 ELSE 0
              \/ pc[t] = "closing" /\ registered[t]

\* What the counter has counted and not uncounted: 0 stands for the sentinel in
\* the registry, also before it is made, k > 0 for a loose one.
Counted ==
    {x \in Thread \X Nat :
        IF x[2] = 0 THEN registered[x[1]] \/ pc[x[1]] = "attach"
                    ELSE x[2] <= loose[x[1]]}

\* The invariant from which StateCount follows.
CountedInv ==
    IsFiniteSet(Counted) /\ stateCounter = Cardinality(Counted) + lost

\* What is read of the counter is not negative either.
SeenInv == seen \in [Thread -> Nat]

\* Every step keeps SentinelsInv.
LEMMA SentinelsStep ==
    ControlInv /\ DataOK /\ SentinelsInv /\ [Next]_vars => SentinelsInv'
<1> SUFFICES ASSUME ControlInv /\ DataOK /\ SentinelsInv, [Next]_vars
    PROVE  SentinelsInv'
  OBVIOUS
<1> USE InitAssumption, AtomicsAssumption DEF ControlInv, ControlOK, LockInv,
        InSection, Locked, DataOK, SentinelsInv, stage, mutex, ids, count,
        states, errors
<1>1. CASE UNCHANGED vars
  BY <1>1 DEF vars
<1>2. ASSUME NEW t \in Thread, Step(t) PROVE SentinelsInv'
  <2>1. CASE Elect(t)
    BY <2>1 DEF Elect, SetIfEqual, At
  <2>2. CASE InitMutex(t)
    BY <2>2 DEF InitMutex, At
  <2>3. CASE SetPointer(t)
    BY <2>3 DEF SetPointer, At
  <2>4. CASE Publish(t)
    BY <2>4 DEF Publish, At
  <2>5. CASE Poll(t)
    BY <2>5 DEF Poll, At
  <2>6. CASE WaitEnds(t)
    BY <2>6 DEF WaitEnds, At
  <2>7. CASE SeedIds(t)
    BY <2>7 DEF SeedIds, At
  <2>8. CASE CheckRegistry(t)
    BY <2>8 DEF CheckRegistry, At
  <2>9. CASE CountState(t)
    BY <2>9 DEF CountState, At
  <2>10. CASE AttachSentinel(t)
    BY <2>10 DEF AttachSentinel, At
  <2>11. CASE StoreSentinel(t)
    BY <2>11 DEF StoreSentinel, At
  <2>12. CASE Unlock(t)
    BY <2>12 DEF Unlock, Release, At
  <2>13. CASE FinCount(t)
    <3>1. ASSUME NEW r \in Thread \ {t}
          PROVE  pc'[r] # "count" /\ fin'[r] # "dec"
      BY <2>13 DEF FinCount, FinMove
    <3>2. \A r \in Thread \ {t} : /\ UNCHANGED <<pc[r], fin[r], seen[r]>>
                                  /\ UNCHANGED <<registered[r], loose[r]>>
      BY <2>13 DEF FinCount, FinMove
    <3>3. /\ pc'[t] = pc[t] /\ pc[t] # "count" /\ fin'[t] = "unlock"
          /\ registered'[t] => registered[t]
      BY <2>13 DEF FinCount, FinMove
    <3>4. pc[t] = "store" => loose'[t] > 0
      BY <2>13 DEF FinCount, FinMove
    <3>5. \A r \in Thread : fin'[r] # "none" => fin[r] # "none"
      BY <2>13 DEF FinCount, FinMove
    <3> QED
      BY <3>1, <3>2, <3>3, <3>4, <3>5
  <2>14. CASE FinUnlock(t)
    BY <2>14 DEF FinUnlock, Release, FinMove
  <2>15. CASE Lock(t)
    BY <2>15 DEF Lock, Acquire, At
  <2>16. CASE FinLock(t)
    BY <2>16 DEF FinLock, Acquire, FinMove
  <2>17. CASE Load(t)
    BY <2>17 DEF Load, At
  <2>18. CASE GiveId(t)
    BY <2>18 DEF GiveId
  <2>19. CASE Close(t)
    BY <2>19 DEF Close, At
  <2>20. CASE Closed(t)
    BY <2>20 DEF Closed, At
  <2>21. CASE Finalize(t)
    BY <2>21 DEF Finalize, IsDue
  <2>22. CASE OutOfMemory(t)
    BY <2>22 DEF OutOfMemory, At
  <2>23. CASE BuildTables(t)
    BY <2>23 DEF BuildTables, At
  <2>24. CASE SetupMeta(t)
    BY <2>24 DEF SetupMeta, At
  <2>25. CASE LoadEnds(t)
    BY <2>25 DEF LoadEnds, At
  <2>26. CASE TablesOutOfMemory(t)
    BY <2>26 DEF TablesOutOfMemory, At
  <2> QED
    BY <1>2, <2>1, <2>2, <2>3, <2>4, <2>5, <2>6, <2>7, <2>8, <2>9,
       <2>10, <2>11, <2>12, <2>13, <2>14, <2>15, <2>16, <2>17, <2>18,
       <2>19, <2>20, <2>21, <2>22, <2>23, <2>24, <2>25, <2>26 DEF Step, Continue
<1> QED
  BY <1>1, <1>2 DEF Next, Step

\* A new element is counted.
LEMMA CountedMore ==
    ASSUME CountedInv, DataOK, NEW x, x \notin Counted,
           Counted' = Counted \cup {x}, stateCounter' = stateCounter + 1,
           lost' = lost
    PROVE  CountedInv'
<1>1. IsFiniteSet(Counted') /\ Cardinality(Counted') = Cardinality(Counted) + 1
  BY FS_AddElement DEF CountedInv
<1>2. Cardinality(Counted) \in Nat
  BY FS_CardinalityType DEF CountedInv
<1> QED
  BY <1>1, <1>2 DEF CountedInv, DataOK

\* One that was counted goes, and is uncounted or lost.
LEMMA CountedLess ==
    ASSUME CountedInv, DataOK, NEW x \in Counted, Counted' = Counted \ {x},
           stateCounter' - lost' = stateCounter - lost - 1,
           stateCounter' \in Int, lost' \in Nat
    PROVE  CountedInv'
<1>1. IsFiniteSet(Counted') /\ Cardinality(Counted') = Cardinality(Counted) - 1
  BY FS_RemoveElement DEF CountedInv
<1>2. Cardinality(Counted) \in Nat
  BY FS_CardinalityType DEF CountedInv
<1> QED
  BY <1>1, <1>2 DEF CountedInv, DataOK

\* One takes the place of another.
LEMMA CountedMoved ==
    ASSUME CountedInv, DataOK, NEW x \in Counted, NEW y, y \notin Counted,
           Counted' = (Counted \ {x}) \cup {y}, stateCounter' = stateCounter,
           lost' = lost
    PROVE  CountedInv'
<1> DEFINE Rest == Counted \ {x}
<1>1. IsFiniteSet(Rest) /\ Cardinality(Rest) = Cardinality(Counted) - 1
  BY FS_RemoveElement DEF CountedInv
<1>2. y \notin Rest
  OBVIOUS
<1>3. IsFiniteSet(Counted') /\ Cardinality(Counted') = Cardinality(Rest) + 1
  BY <1>1, <1>2, FS_AddElement
<1>4. Cardinality(Counted) \in Nat
  BY FS_CardinalityType DEF CountedInv
<1> QED
  BY <1>1, <1>3, <1>4 DEF CountedInv, DataOK

\* Every step keeps CountedInv.
LEMMA CountedStep ==
    ControlInv /\ DataOK /\ SentinelsInv /\ CountedInv /\ [Next]_vars
        => CountedInv'
<1> SUFFICES ASSUME ControlInv /\ DataOK /\ SentinelsInv /\ CountedInv,
                    [Next]_vars
    PROVE  CountedInv'
  OBVIOUS
<1> USE DEF ControlInv, ControlOK, DataOK, CountedInv, Counted, stage, mutex,
        ids, count, states, errors
<1>1. CASE UNCHANGED vars
  BY <1>1 DEF vars
<1>2. ASSUME NEW t \in Thread, Step(t) PROVE CountedInv'
  <2>1. CASE Elect(t)
    BY <2>1 DEF Elect, SetIfEqual, At
  <2>2. CASE InitMutex(t)
    BY <2>2 DEF InitMutex, At
  <2>3. CASE SetPointer(t)
    BY <2>3 DEF SetPointer, At
  <2>4. CASE Publish(t)
    BY <2>4 DEF Publish, At
  <2>5. CASE Poll(t)
    BY <2>5 DEF Poll, At
  <2>6. CASE WaitEnds(t)
    BY <2>6 DEF WaitEnds, At
  <2>7. CASE SeedIds(t)
    BY <2>7 DEF SeedIds, At
  <2>8. CASE CheckRegistry(t)
    BY <2>8 DEF CheckRegistry, At
  <2>9. CASE CountState(t)
    <3> DEFINE x == <<t, 0>>
    <3>1. x \notin Counted
      BY <2>9 DEF CountState, At, SentinelsInv
    <3>2. Counted' = Counted \cup {x}
      <4> SUFFICES ASSUME NEW r \in Thread, NEW k \in Nat
                   PROVE  <<r, k>> \in Counted' <=> <<r, k>> \in Counted \/ <<r, k>> = x
        BY DEF Counted
      <4> QED
        BY <2>9 DEF Counted, SentinelsInv, CountState, At
    <3>3. stateCounter' = stateCounter + 1 /\ lost' = lost
      BY <2>9 DEF CountState, At, SentinelsInv
    <3> QED
      BY <3>1, <3>2, <3>3, CountedMore
  <2>10. CASE AttachSentinel(t)
    <3> DEFINE x == <<t, 0>>
               y == <<t, loose[t] + 1>>
    <3>1. x \in Counted /\ y \notin Counted
      BY <2>10 DEF AttachSentinel, At
    <3>2. Counted' = (Counted \ {x}) \cup {y}
      <4> SUFFICES ASSUME NEW r \in Thread, NEW k \in Nat
                   PROVE  <<r, k>> \in Counted' <=>
                          \/ <<r, k>> \in Counted /\ <<r, k>> # x
                          \/ <<r, k>> = y
        BY DEF Counted
      <4> QED
        BY <2>10 DEF Counted, SentinelsInv, AttachSentinel, At
    <3>3. stateCounter' = stateCounter /\ lost' = lost
      BY <2>10 DEF AttachSentinel
    <3> QED
      BY <3>1, <3>2, <3>3, CountedMoved
  <2>11. CASE StoreSentinel(t)
    <3> DEFINE x == <<t, loose[t]>>
               y == <<t, 0>>
    <3>1. x \in Counted /\ y \notin Counted
      BY <2>11 DEF StoreSentinel, At, SentinelsInv
    <3>2. Counted' = (Counted \ {x}) \cup {y}
      <4> SUFFICES ASSUME NEW r \in Thread, NEW k \in Nat
                   PROVE  <<r, k>> \in Counted' <=>
                          \/ <<r, k>> \in Counted /\ <<r, k>> # x
                          \/ <<r, k>> = y
        BY DEF Counted
      <4> QED
        BY <2>11 DEF Counted, SentinelsInv, StoreSentinel, At
    <3>3. stateCounter' = stateCounter /\ lost' = lost
      BY <2>11 DEF StoreSentinel
    <3> QED
      BY <3>1, <3>2, <3>3, CountedMoved
  <2>12. CASE Unlock(t)
    BY <2>12 DEF Unlock, Release, At
  <2>13. CASE FinCount(t)
    <3> DEFINE x == <<t, loose[t]>>
    <3>1. x \in Counted
      BY <2>13 DEF FinCount, FinMove, SentinelsInv
    <3>2. Counted' = Counted \ {x}
      <4>1. CASE loose[t] > 0
        BY <2>13, <4>1 DEF FinCount
      <4>2. CASE loose[t] = 0
        <5>1. registered[t] /\ pc[t] = "closing"
          <6>1. fin[t] = "dec" /\ ~(loose[t] > 0) /\ ~(loose[t] > 1)
            BY <2>13, <4>2 DEF FinCount, FinMove
          <6> HIDE <4>2
          <6> QED
            BY <6>1 DEF SentinelsInv
        <5>2. /\ registered' = [registered EXCEPT ![t] = FALSE]
              /\ UNCHANGED <<loose, pc>>
          BY <2>13, <4>2 DEF FinCount
        <5>3. ~registered'[t] /\ \A r \in Thread \ {t} : UNCHANGED registered[r]
          BY <5>2
        <5> QED
          BY <4>2, <5>1, <5>2, <5>3
      <4> QED
        BY <4>1, <4>2
    <3>3. stateCounter' = stateCounter - 1 /\ lost' = lost
      BY <2>13 DEF FinCount, FinMove, SentinelsInv
    <3>4. /\ stateCounter' - lost' = stateCounter - lost - 1
          /\ stateCounter' \in Int /\ lost' \in Nat
      BY <3>3
    <3> HIDE DEF x, Counted, CountedInv
    <3> QED
      BY <3>1, <3>2, <3>4, CountedLess DEF CountedInv
  <2>14. CASE FinUnlock(t)
    BY <2>14 DEF FinUnlock, Release, FinMove
  <2>15. CASE Lock(t)
    BY <2>15 DEF Lock, Acquire, At
  <2>16. CASE FinLock(t)
    BY <2>16 DEF FinLock, Acquire, FinMove
  <2>17. CASE Load(t)
    <3>1. UNCHANGED Counted
      BY <2>17 DEF Load, At
    <3> QED
      BY <2>17, <3>1 DEF Load
  <2>18. CASE GiveId(t)
    BY <2>18 DEF GiveId
  <2>19. CASE Close(t)
    <3>1. UNCHANGED Counted
      BY <2>19 DEF Close, At
    <3> QED
      BY <2>19, <3>1 DEF Close
  <2>20. CASE Closed(t)
    BY <2>20 DEF Closed, At
  <2>21. CASE Finalize(t)
    BY <2>21 DEF Finalize, IsDue
  <2>22. CASE OutOfMemory(t)
    <3>1. CASE pc[t] = "attach"
      <4> DEFINE x == <<t, 0>>
      <4>1. x \in Counted
        BY <3>1
      <4>2. Counted' = Counted \ {x}
        BY <2>22, <3>1 DEF OutOfMemory, At, SentinelsInv
      <4>3. stateCounter' = stateCounter /\ lost' = lost + 1
        BY <2>22, <3>1 DEF OutOfMemory
      <4>4. /\ stateCounter' - lost' = stateCounter - lost - 1
            /\ stateCounter' \in Int /\ lost' \in Nat
        BY <4>3
      <4> HIDE DEF x, Counted, CountedInv
      <4> QED
        BY <4>1, <4>2, <4>4, CountedLess DEF CountedInv
    <3>2. CASE pc[t] # "attach"
      <4>1. UNCHANGED <<stateCounter, lost, Counted>>
        BY <2>22, <3>2 DEF OutOfMemory, At
      <4> QED
        BY <4>1
    <3> QED
      BY <3>1, <3>2
  <2>23. CASE BuildTables(t)
    <3>1. UNCHANGED Counted
      BY <2>23 DEF BuildTables, At
    <3> QED
      BY <2>23, <3>1 DEF BuildTables
  <2>24. CASE SetupMeta(t)
    <3>1. UNCHANGED Counted
      BY <2>24 DEF SetupMeta, At
    <3> QED
      BY <2>24, <3>1 DEF SetupMeta
  <2>25. CASE LoadEnds(t)
    <3>1. UNCHANGED Counted
      BY <2>25 DEF LoadEnds, At
    <3> QED
      BY <2>25, <3>1 DEF LoadEnds
  <2>26. CASE TablesOutOfMemory(t)
    <3>1. UNCHANGED Counted
      BY <2>26 DEF TablesOutOfMemory, At
    <3> QED
      BY <2>26, <3>1 DEF TablesOutOfMemory
  <2> QED
    BY <1>2, <2>1, <2>2, <2>3, <2>4, <2>5, <2>6, <2>7, <2>8, <2>9,
       <2>10, <2>11, <2>12, <2>13, <2>14, <2>15, <2>16, <2>17, <2>18,
       <2>19, <2>20, <2>21, <2>22, <2>23, <2>24, <2>25, <2>26 DEF Step, Continue
<1> QED
  BY <1>1, <1>2 DEF Next, Step

\* Every step keeps SeenInv.
LEMMA SeenStep ==
    ControlOK /\ DataOK /\ CountedInv /\ SeenInv /\ [Next]_vars => SeenInv'
<1> SUFFICES ASSUME ControlOK /\ DataOK /\ CountedInv /\ SeenInv, [Next]_vars
    PROVE  SeenInv'
  OBVIOUS
<1> USE DEF SeenInv, stage, mutex, ids, count, states, errors
<1>0. stateCounter \in Nat
  <2>1. Cardinality(Counted) \in Nat /\ lost \in Nat
    BY FS_CardinalityType DEF CountedInv, DataOK
  <2> QED
    BY <2>1 DEF CountedInv
<1>1. CASE UNCHANGED seen
  BY <1>1
<1>2. ASSUME NEW t \in Thread, Step(t), ~UNCHANGED seen PROVE SeenInv'
  <2>1. CASE CheckRegistry(t)
    BY <1>0, <2>1 DEF CheckRegistry
  <2>2. CASE CountState(t)
    BY <2>2 DEF CountState
  <2>3. CASE FinLock(t)
    BY <1>0, <2>3 DEF FinLock
  <2>4. CASE FinCount(t)
    BY <2>4 DEF FinCount
  <2> QED
    BY <1>2, <2>1, <2>2, <2>3, <2>4 DEF Step, Continue, Elect, InitMutex,
       SetPointer, Publish, Poll, WaitEnds, SeedIds, AttachSentinel,
       StoreSentinel, Unlock, BuildTables, SetupMeta, LoadEnds, FinUnlock,
       Lock, Load, GiveId, Close, Closed, Finalize, OutOfMemory,
       TablesOutOfMemory
<1> QED
  BY <1>1, <1>2 DEF Next, Step, vars

\* The inductive invariant behind the counter.
CountInv == DataOK /\ SentinelsInv /\ CountedInv /\ SeenInv

\* The conjunction is inductive.
LEMMA CountInvariant == Spec => []CountInv
<1>1. Init => CountInv
  <2> SUFFICES ASSUME Init PROVE CountInv
    OBVIOUS
  <2>1. DataOK
    BY DataInit
  <2>2. SentinelsInv /\ SeenInv
    BY DEF Init, SentinelsInv, SeenInv
  <2>3. Counted = {}
    BY DEF Init, Counted
  <2>4. CountedInv
    BY <2>3, FS_EmptySet DEF Init, CountedInv
  <2> QED
    BY <2>1, <2>2, <2>4 DEF CountInv
<1>2. ControlInv /\ CountInv /\ [Next]_vars => CountInv'
  BY DataStep, SentinelsStep, CountedStep, SeenStep DEF ControlInv, CountInv
<1> QED
  BY <1>1, <1>2, ControlInvariant, PTL DEF Spec

\* The counter is the number of sentinels that will still be finalized, the one
\* about to be made included, and of the loads that have failed before theirs
\* was complete.
THEOREM StatesCounted == Spec => []StateCount
<1>1. CountInv => StateCount
  <2> SUFFICES ASSUME CountInv PROVE StateCount
    OBVIOUS
  <2>1. loose \in [Thread -> Nat]
    BY DEF CountInv, DataOK
  <2>2. Sentinels = Counted
    <3>1. ASSUME NEW t \in Thread, NEW k \in Nat
          PROVE  <<t, k>> \in Sentinels <=> <<t, k>> \in Counted
      BY <2>1 DEF Sentinels, Counted
    <3>2. Sentinels \subseteq Thread \X Nat /\ Counted \subseteq Thread \X Nat
      BY <2>1 DEF Sentinels, Counted
    <3> QED
      BY <3>1, <3>2
  <2> QED
    BY <2>2 DEF CountInv, CountedInv, StateCount
<1> QED
  BY <1>1, CountInvariant, PTL

\* Every variable of ModuleInit keeps its type: ids stay in the width of an
\* AtomicCounter, and the counter of states is never negative.
THEOREM TypeCorrect == Spec => []TypeOK
<1>1. ControlInv /\ CountInv => TypeOK
  <2> SUFFICES ASSUME ControlInv, CountInv PROVE TypeOK
    OBVIOUS
  <2>1. Cardinality(Counted) \in Nat /\ lost \in Nat
    BY FS_CardinalityType DEF CountInv, CountedInv, DataOK
  <2>2. stateCounter \in Nat
    BY <2>1 DEF CountInv, CountedInv
  <2> QED
    BY <2>2 DEF ControlInv, ControlOK, CountInv, DataOK, SeenInv, TypeOK
<1> QED
  BY <1>1, ControlInvariant, CountInvariant, PTL
----------------------------------------------------------------------------
(* The metatable of the interruptibles.                                    *)

\* A bare metatable is the work of a load that is still at it, and a load that
\* has come past that point has seen one that is not bare.
MetaInv ==
    \A t \in Thread :
        /\ pc[t] = "meta" <=> meta[t] = "bare"
        /\ pc[t] \in {"functions", "ready"} => meta[t] \in {"full", "spoiled"}

\* Every step keeps MetaInv.
LEMMA MetaStep == ControlOK /\ DataOK /\ MetaInv /\ [Next]_vars => MetaInv'
<1> SUFFICES ASSUME ControlOK /\ DataOK /\ MetaInv, [Next]_vars
    PROVE  MetaInv'
  OBVIOUS
<1> USE DEF ControlOK, DataOK, MetaInv, stage, mutex, ids, count, states, errors
<1>1. CASE UNCHANGED vars
  BY <1>1 DEF vars
<1>2. ASSUME NEW t \in Thread, Step(t) PROVE MetaInv'
  <2>1. CASE Elect(t)
    BY <2>1 DEF Elect, At
  <2>2. CASE InitMutex(t)
    BY <2>2 DEF InitMutex, At
  <2>3. CASE SetPointer(t)
    BY <2>3 DEF SetPointer, At
  <2>4. CASE Publish(t)
    BY <2>4 DEF Publish, At
  <2>5. CASE Poll(t)
    BY <2>5 DEF Poll, At
  <2>6. CASE WaitEnds(t)
    BY <2>6 DEF WaitEnds, At
  <2>7. CASE SeedIds(t)
    BY <2>7 DEF SeedIds, At
  <2>8. CASE CheckRegistry(t)
    BY <2>8 DEF CheckRegistry, At
  <2>9. CASE CountState(t)
    BY <2>9 DEF CountState, At
  <2>10. CASE AttachSentinel(t)
    BY <2>10 DEF AttachSentinel, At
  <2>11. CASE StoreSentinel(t)
    BY <2>11 DEF StoreSentinel, At
  <2>12. CASE Unlock(t)
    BY <2>12 DEF Unlock, At
  <2>13. CASE BuildTables(t)
    BY <2>13 DEF BuildTables, At
  <2>14. CASE SetupMeta(t)
    BY <2>14 DEF SetupMeta, At
  <2>15. CASE LoadEnds(t)
    BY <2>15 DEF LoadEnds, At
  <2>16. CASE FinCount(t)
    BY <2>16 DEF FinCount, FinMove
  <2>17. CASE FinUnlock(t)
    BY <2>17 DEF FinUnlock, FinMove
  <2>18. CASE Lock(t)
    BY <2>18 DEF Lock, At
  <2>19. CASE FinLock(t)
    BY <2>19 DEF FinLock, FinMove
  <2>20. CASE Load(t)
    BY <2>20 DEF Load, At
  <2>21. CASE GiveId(t)
    BY <2>21 DEF GiveId
  <2>22. CASE Close(t)
    BY <2>22 DEF Close, At
  <2>23. CASE Closed(t)
    BY <2>23 DEF Closed, At
  <2>24. CASE Finalize(t)
    BY <2>24 DEF Finalize
  <2>25. CASE OutOfMemory(t)
    BY <2>25 DEF OutOfMemory, At
  <2>26. CASE TablesOutOfMemory(t)
    BY <2>26 DEF TablesOutOfMemory, At
  <2> QED
    BY <1>2, <2>1, <2>2, <2>3, <2>4, <2>5, <2>6, <2>7, <2>8, <2>9,
       <2>10, <2>11, <2>12, <2>13, <2>14, <2>15, <2>16, <2>17, <2>18,
       <2>19, <2>20, <2>21, <2>22, <2>23, <2>24, <2>25, <2>26 DEF Step, Continue
<1> QED
  BY <1>1, <1>2 DEF Next, Step

\* A state in which a load has succeeded finalizes its interruptibles, unless
\* an earlier load has failed in the middle of setupInterruptibleMeta.
THEOREM Complete == Spec => []LoadedCollects
<1> DEFINE Inv == DataOK /\ MetaInv
<1>1. Init => Inv
  <2>1. Init => MetaInv
    BY DEF Init, MetaInv
  <2> QED
    BY <2>1, DataInit
<1>2. ControlInv /\ Inv /\ [Next]_vars => Inv'
  BY DataStep, MetaStep DEF ControlInv
<1>3. Inv => LoadedCollects
  BY DEF MetaInv, LoadedCollects
<1> QED
  BY <1>1, <1>2, <1>3, ControlInvariant, PTL DEF Spec
=============================================================================
