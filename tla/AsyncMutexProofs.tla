-------------------------- MODULE AsyncMutexProofs --------------------------
(***************************************************************************)
(* Theorems about AsyncMutex, for any finite set of threads, any depth of  *)
(* recursion and every backend.                                            *)
(***************************************************************************)
EXTENDS AsyncMutex, FiniteSetTheorems, TLAPS

----------------------------------------------------------------------------
(* The mutex is kept.                                                      *)

\* The parts of TypeOK that do not count.
ControlOK ==
    /\ backend \in Backends
    /\ owner \subseteq Thread /\ depth \in Nat
    /\ event \in BOOLEAN
    /\ pc \in [Thread -> {"running", "notify", "set", "waiting", "woken"}]
    /\ timed \in [Thread -> BOOLEAN]
    /\ held \in [Thread -> 0..MaxDepth]

\* Levels of the mutex that t has and has not left for a wait.
Levels(t) == IF pc[t] \in {"waiting", "woken"} THEN held[t] - 1 ELSE held[t]

\* A thread has the mutex as often as its levels say, or not at all, and one
\* that waits will come back to it.
LevelsInv ==
    /\ \A t \in Thread :
          /\ Levels(t) >= 0
          /\ Levels(t) > 0 => owner = {t} /\ depth = Levels(t)
          /\ Levels(t) = 0 => t \notin owner
    /\ owner = {} => depth = 0

\* Every step keeps ControlOK.
LEMMA ControlStep == ControlOK /\ LevelsInv /\ [Next]_vars => ControlOK'
<1> SUFFICES ASSUME ControlOK /\ LevelsInv, [Next]_vars PROVE ControlOK'
  OBVIOUS
<1> USE AsyncMutexAssumption DEF ControlOK, LevelsInv, Levels, mutex
<1>1. CASE UNCHANGED vars
  BY <1>1 DEF vars
<1>2. ASSUME NEW t \in Thread, WakeByEvent(t) PROVE ControlOK'
  BY <1>2 DEF WakeByEvent, Go
<1>3. ASSUME NEW t \in Thread, TimeOut(t) PROVE ControlOK'
  BY <1>3 DEF TimeOut, Go
<1>4. ASSUME NEW t \in Thread, Signal(t) PROVE ControlOK'
  BY <1>4 DEF Signal
<1>5. ASSUME NEW t \in Thread, TestCounter(t) PROVE ControlOK'
  BY <1>5 DEF TestCounter, Go
<1>6. ASSUME NEW t \in Thread, SetEvent(t) PROVE ControlOK'
  BY <1>6 DEF SetEvent, Go
<1>7. ASSUME NEW t \in Thread, ReturnFromWait(t) PROVE ControlOK'
  BY <1>7 DEF ReturnFromWait, Go, Free, Up
<1>8. ASSUME NEW t \in Thread, WakeSpuriously(t) PROVE ControlOK'
  BY <1>8 DEF WakeSpuriously, Go
<1>9. ASSUME NEW t \in Thread, Lock(t) PROVE ControlOK'
  BY <1>9 DEF Lock, Free, Up, Hold
<1>10. ASSUME NEW t \in Thread, TryLock(t) PROVE ControlOK'
  BY <1>10 DEF TryLock, Free, Up, Hold
<1>11. ASSUME NEW t \in Thread, Unlock(t) PROVE ControlOK'
  BY <1>11 DEF Unlock, Down, Hold
<1>12. ASSUME NEW t \in Thread, Wait(t) PROVE ControlOK'
  BY <1>12 DEF Wait, BeginWait, Go, Down
<1>13. ASSUME NEW t \in Thread, WaitMillis(t) PROVE ControlOK'
  BY <1>13 DEF WaitMillis, BeginWait, Go, Down
<1>14. ASSUME NEW t \in Thread, Notify(t) PROVE ControlOK'
  BY <1>14 DEF Notify, Go
<1> QED
  BY <1>1, <1>2, <1>3, <1>4, <1>5, <1>6, <1>7, <1>8, <1>9, <1>10, <1>11,
     <1>12, <1>13, <1>14 DEF Next, Continue

\* Every step keeps LevelsInv.
LEMMA LevelsStep == ControlOK /\ LevelsInv /\ [Next]_vars => LevelsInv'
<1> SUFFICES ASSUME ControlOK /\ LevelsInv, [Next]_vars PROVE LevelsInv'
  OBVIOUS
<1> USE AsyncMutexAssumption DEF ControlOK, LevelsInv, Levels, mutex
<1>1. CASE UNCHANGED vars
  BY <1>1 DEF vars
<1>2. ASSUME NEW t \in Thread, WakeByEvent(t) PROVE LevelsInv'
  BY <1>2 DEF WakeByEvent, Go
<1>3. ASSUME NEW t \in Thread, TimeOut(t) PROVE LevelsInv'
  BY <1>3 DEF TimeOut, Go
<1>4. ASSUME NEW t \in Thread, Signal(t) PROVE LevelsInv'
  BY <1>4 DEF Signal
<1>5. ASSUME NEW t \in Thread, TestCounter(t) PROVE LevelsInv'
  BY <1>5 DEF TestCounter, Go
<1>6. ASSUME NEW t \in Thread, SetEvent(t) PROVE LevelsInv'
  BY <1>6 DEF SetEvent, Go
<1>7. ASSUME NEW t \in Thread, ReturnFromWait(t) PROVE LevelsInv'
  BY <1>7 DEF ReturnFromWait, Go, Free, Up
<1>8. ASSUME NEW t \in Thread, WakeSpuriously(t) PROVE LevelsInv'
  BY <1>8 DEF WakeSpuriously, Go
<1>9. ASSUME NEW t \in Thread, Lock(t) PROVE LevelsInv'
  BY <1>9 DEF Lock, Free, Up, Hold
<1>10. ASSUME NEW t \in Thread, TryLock(t) PROVE LevelsInv'
  BY <1>10 DEF TryLock, Free, Up, Hold
<1>11. ASSUME NEW t \in Thread, Unlock(t) PROVE LevelsInv'
  BY <1>11 DEF Unlock, Down, Hold
<1>12. ASSUME NEW t \in Thread, Wait(t) PROVE LevelsInv'
  BY <1>12 DEF Wait, BeginWait, Go, Down
<1>13. ASSUME NEW t \in Thread, WaitMillis(t) PROVE LevelsInv'
  BY <1>13 DEF WaitMillis, BeginWait, Go, Down
<1>14. ASSUME NEW t \in Thread, Notify(t) PROVE LevelsInv'
  BY <1>14 DEF Notify, Go
<1> QED
  BY <1>1, <1>2, <1>3, <1>4, <1>5, <1>6, <1>7, <1>8, <1>9, <1>10, <1>11,
     <1>12, <1>13, <1>14 DEF Next, Continue

----------------------------------------------------------------------------
(* Every waiter is counted.                                                *)

\* A set of threads and one more.
LEMMA OneMore ==
    ASSUME IsFiniteSet(Thread), NEW S \in SUBSET Thread, NEW t \in Thread \ S
    PROVE  Cardinality(S \cup {t}) = Cardinality(S) + 1 /\ Cardinality(S) \in Nat
  BY FS_Subset, FS_AddElement, FS_CardinalityType

\* A set of threads without one of them.
LEMMA OneLess ==
    ASSUME IsFiniteSet(Thread), NEW S \in SUBSET Thread, NEW t \in S
    PROVE  Cardinality(S \ {t}) = Cardinality(S) - 1 /\ Cardinality(S) \in Nat
  BY FS_Subset, FS_RemoveElement, FS_CardinalityType

\* Every step keeps the count.
LEMMA CountStep ==
    ControlOK /\ WaitersAreCounted /\ [Next]_vars => WaitersAreCounted'
<1> SUFFICES ASSUME ControlOK /\ WaitersAreCounted, [Next]_vars
    PROVE  WaitersAreCounted'
  OBVIOUS
<1> USE AsyncMutexAssumption DEF ControlOK, WaitersAreCounted, mutex
<1>1. CASE UNCHANGED vars
  BY <1>1 DEF vars, Awaiting
<1>2. ASSUME NEW t \in Thread, WakeByEvent(t) PROVE WaitersAreCounted'
  <2>1. Awaiting' = Awaiting
    BY <1>2 DEF WakeByEvent, Go, Awaiting
  <2> QED
    BY <1>2, <2>1 DEF WakeByEvent, Go
<1>3. ASSUME NEW t \in Thread, TimeOut(t) PROVE WaitersAreCounted'
  <2>1. Awaiting' = Awaiting
    BY <1>3 DEF TimeOut, Go, Awaiting
  <2> QED
    BY <1>3, <2>1 DEF TimeOut, Go
<1>4. ASSUME NEW t \in Thread, Signal(t) PROVE WaitersAreCounted'
  <2>1. Awaiting' = Awaiting
    BY <1>4 DEF Signal, Awaiting
  <2> QED
    BY <1>4, <2>1 DEF Signal
<1>5. ASSUME NEW t \in Thread, TestCounter(t) PROVE WaitersAreCounted'
  <2>1. Awaiting' = Awaiting
    BY <1>5 DEF TestCounter, Go, Awaiting
  <2> QED
    BY <1>5, <2>1 DEF TestCounter, Go
<1>6. ASSUME NEW t \in Thread, SetEvent(t) PROVE WaitersAreCounted'
  <2>1. Awaiting' = Awaiting
    BY <1>6 DEF SetEvent, Go, Awaiting
  <2> QED
    BY <1>6, <2>1 DEF SetEvent, Go
<1>7. ASSUME NEW t \in Thread, ReturnFromWait(t) PROVE WaitersAreCounted'
  <2>1. t \in Awaiting /\ Awaiting' = Awaiting \ {t}
    BY <1>7 DEF ReturnFromWait, Go, Free, Up, Awaiting
  <2>2. Awaiting \in SUBSET Thread /\ Awaiting' \in SUBSET Thread
    BY DEF Awaiting
  <2>3. Cardinality(Awaiting') = Cardinality(Awaiting) - 1
    BY <2>1, <2>2, OneLess
  <2> QED
    BY <1>7, <2>3 DEF ReturnFromWait, Go, Free, Up
<1>8. ASSUME NEW t \in Thread, WakeSpuriously(t) PROVE WaitersAreCounted'
  <2>1. Awaiting' = Awaiting
    BY <1>8 DEF WakeSpuriously, Go, Awaiting
  <2> QED
    BY <1>8, <2>1 DEF WakeSpuriously, Go
<1>9. ASSUME NEW t \in Thread, Lock(t) PROVE WaitersAreCounted'
  <2>1. Awaiting' = Awaiting
    BY <1>9 DEF Lock, Free, Up, Hold, Awaiting
  <2> QED
    BY <1>9, <2>1 DEF Lock, Free, Up, Hold
<1>10. ASSUME NEW t \in Thread, TryLock(t) PROVE WaitersAreCounted'
  <2>1. Awaiting' = Awaiting
    BY <1>10 DEF TryLock, Free, Up, Hold, Awaiting
  <2> QED
    BY <1>10, <2>1 DEF TryLock, Free, Up, Hold
<1>11. ASSUME NEW t \in Thread, Unlock(t) PROVE WaitersAreCounted'
  <2>1. Awaiting' = Awaiting
    BY <1>11 DEF Unlock, Down, Hold, Awaiting
  <2> QED
    BY <1>11, <2>1 DEF Unlock, Down, Hold
<1>12. ASSUME NEW t \in Thread, Wait(t) PROVE WaitersAreCounted'
  <2>1. t \notin Awaiting /\ Awaiting' = Awaiting \cup {t}
    BY <1>12 DEF Wait, BeginWait, Go, Down, Awaiting
  <2>2. Awaiting \in SUBSET Thread /\ Awaiting' \in SUBSET Thread
    BY DEF Awaiting
  <2>3. Cardinality(Awaiting') = Cardinality(Awaiting) + 1
    BY <2>1, <2>2, OneMore
  <2> QED
    BY <1>12, <2>3 DEF Wait, BeginWait, Go, Down
<1>13. ASSUME NEW t \in Thread, WaitMillis(t) PROVE WaitersAreCounted'
  <2>1. t \notin Awaiting /\ Awaiting' = Awaiting \cup {t}
    BY <1>13 DEF WaitMillis, BeginWait, Go, Down, Awaiting
  <2>2. Awaiting \in SUBSET Thread /\ Awaiting' \in SUBSET Thread
    BY DEF Awaiting
  <2>3. Cardinality(Awaiting') = Cardinality(Awaiting) + 1
    BY <2>1, <2>2, OneMore
  <2> QED
    BY <1>13, <2>3 DEF WaitMillis, BeginWait, Go, Down
<1>14. ASSUME NEW t \in Thread, Notify(t) PROVE WaitersAreCounted'
  <2>1. Awaiting' = Awaiting
    BY <1>14 DEF Notify, Go, Awaiting
  <2> QED
    BY <1>14, <2>1 DEF Notify, Go
<1> QED
  BY <1>1, <1>2, <1>3, <1>4, <1>5, <1>6, <1>7, <1>8, <1>9, <1>10, <1>11,
     <1>12, <1>13, <1>14 DEF Next, Continue

----------------------------------------------------------------------------
(* Theorems.                                                               *)

\* All of it.
MutexInv == ControlOK /\ LevelsInv /\ WaitersAreCounted

\* The conjunction is inductive.
LEMMA MutexInvariant == Spec => []MutexInv
<1>1. ASSUME Init PROVE MutexInv
  <2>1. ControlOK
    <3>1. event \in BOOLEAN /\ timed \in [Thread -> BOOLEAN]
      BY <1>1 DEF Init
    <3>2. pc \in [Thread -> {"running", "notify", "set", "waiting", "woken"}]
      BY <1>1 DEF Init
    <3>3. depth \in Nat /\ held \in [Thread -> 0..MaxDepth]
      BY <1>1, AsyncMutexAssumption DEF Init
    <3> QED
      BY <1>1, <3>1, <3>2, <3>3 DEF Init, ControlOK
  <2>2. LevelsInv
    BY <1>1 DEF Init, LevelsInv, Levels
  <2>3. WaitersAreCounted
    <3>1. Awaiting = {}
      BY <1>1 DEF Init, Awaiting
    <3> QED
      BY <1>1, <3>1, FS_EmptySet DEF Init, WaitersAreCounted
  <2> QED
    BY <2>1, <2>2, <2>3 DEF MutexInv
<1>2. MutexInv /\ [Next]_vars => MutexInv'
  BY ControlStep, LevelsStep, CountStep DEF MutexInv
<1> QED
  BY <1>1, <1>2, PTL DEF Spec

\* What the code of a thread believes to hold is what the mutex says, however
\* often it has waited and whoever was in the mutex meanwhile.
THEOREM LockKept == Spec => []LockIsKept
<1>1. MutexInv => LockIsKept
  BY DEF MutexInv, ControlOK, LevelsInv, Levels, LockIsKept, Awaiting
<1> QED
  BY <1>1, MutexInvariant, PTL

\* The event backend counts exactly the threads that wait or come back from it.
THEOREM WaitersCounted == Spec => []WaitersAreCounted
<1>1. MutexInv => WaitersAreCounted
  BY DEF MutexInv
<1> QED
  BY <1>1, MutexInvariant, PTL

\* Every variable of AsyncMutex keeps its type.
THEOREM TypeCorrect == Spec => []TypeOK
<1>1. MutexInv => waitingCounter \in 0..Cardinality(Thread)
  <2> SUFFICES ASSUME MutexInv PROVE waitingCounter \in 0..Cardinality(Thread)
    OBVIOUS
  <2>1. /\ Cardinality(Awaiting) \in Nat /\ Cardinality(Thread) \in Nat
        /\ Cardinality(Awaiting) <= Cardinality(Thread)
    BY AsyncMutexAssumption, FS_Subset, FS_CardinalityType DEF Awaiting
  <2> QED
    BY <2>1 DEF MutexInv, WaitersAreCounted
<1>2. MutexInv => TypeOK
  BY <1>1 DEF MutexInv, ControlOK, TypeOK
<1> QED
  BY <1>2, MutexInvariant, PTL
=============================================================================
