----------------------------- MODULE LockProofs -----------------------------
(***************************************************************************)
(* Theorems about the Lock of a record and what it protects: the pointer   *)
(* L2 between its test and its use, and the Lock itself when the record    *)
(* is freed.                                                               *)
(***************************************************************************)
EXTENDS InterruptibleProofs

----------------------------------------------------------------------------
(* The Lock of a record.                                                   *)

\* Inside a critical section of the Lock of obj[t].
InLock == {"interrupt_read", "interrupt_hook", "interrupt_unlock",
           "guard_clear", "main_clear"}

\* The Lock of a live record says who is inside.
LockInv ==
    \A t \in Thread, i \in Intr : alloc[i] = "live" =>
        (lock[i] = t <=> obj[t] = i /\ pc[t] \in InLock)

\* Every step keeps LockInv.
LEMMA LockStep == TypeOK /\ PointersInv /\ LockInv /\ [Next]_vars => LockInv'
<1> SUFFICES ASSUME TypeOK, PointersInv, LockInv, [Next]_vars PROVE LockInv'
  OBVIOUS
<1> USE ConstantsAssumption DEF PointersInv, LockInv, InLock,
        TypeOK,
        Points, Touches, heap, udata, states, locals, Goto, Begin, Return
<1>1. CASE UNCHANGED vars
  BY <1>1 DEF vars
<1>2. CASE Done
  BY <1>2 DEF Done, vars
<1>3. ASSUME NEW t \in Thread, Call(t) PROVE LockInv'
  <2>1. ASSUME NEW s \in LState, NEW u \in Udata,
               NEW i \in Intr, AssureCreated(t, s, u, i)
        PROVE  LockInv'
    BY <2>1 DEF AssureCreated, CreateRecord, InitLock, SetupGuard, RunsLua,
       HasRecord
  <2>2. ASSUME NEW i \in Intr, InterruptById(t, i) PROVE LockInv'
    BY <2>2 DEF InterruptById, RunsLua
  <2>3. ASSUME NEW i \in Intr, NEW u \in Udata,
               OpenById(t, i, u)
        PROVE  LockInv'
    BY <2>3 DEF OpenById, RunsLua
  <2>4. ASSUME NEW u \in Udata, InterruptByUdata(t, u) PROVE LockInv'
    BY <2>4 DEF InterruptByUdata, RunsLua, IsHandle
  <2>5. ASSUME NEW s \in LState, NEW u \in Udata,
               NEW i \in Intr, AssureFails(t, s, u, i)
        PROVE  LockInv'
    BY <2>5 DEF AssureFails, CreateRecord, InitLock, RunsLua
  <2> QED
    BY <1>3, <2>1, <2>2, <2>3, <2>4, <2>5 DEF Call
<1>4. ASSUME NEW t \in Thread, Continue(t) PROVE LockInv'
  <2>1. CASE LockGlobal(t, "register_lock", "register")
    BY <2>1 DEF LockGlobal
  <2>2. CASE LockGlobal(t, "find_lock", "find")
    BY <2>2 DEF LockGlobal
  <2>3. CASE LockGlobal(t, "open_lock", "open")
    BY <2>3 DEF LockGlobal
  <2>4. CASE LockGlobal(t, "free_lock", "free")
    BY <2>4 DEF LockGlobal
  <2>5. CASE LockIntr(t, "interrupt_lock", "interrupt_read")
    BY <2>5 DEF LockIntr
  <2>6. CASE LockIntr(t, "guard_lock", "guard_clear")
    BY <2>6 DEF LockIntr
  <2>7. CASE LockIntr(t, "main_lock", "main_clear")
    BY <2>7 DEF LockIntr
  <2>8. CASE Register(t)
    BY <2>8 DEF Register
  <2>9. CASE RegisterOutOfMemory(t)
    BY <2>9 DEF RegisterOutOfMemory
  <2>10. CASE FindFails(t)
    BY <2>10 DEF FindFails
  <2>11. CASE Find(t)
    BY <2>11 DEF Find
  <2>12. CASE Open(t)
    BY <2>12 DEF Open
  <2>13. CASE ReadL2(t)
    BY <2>13 DEF ReadL2
  <2>14. CASE SetHook(t)
    BY <2>14 DEF SetHook
  <2>15. CASE UnlockIntr(t)
    BY <2>15 DEF UnlockIntr
  <2>16. CASE InterruptDec(t)
    BY <2>16 DEF InterruptDec
  <2>17. CASE GuardClear(t)
    BY <2>17 DEF GuardClear
  <2>18. CASE ReleaseDec(t)
    BY <2>18 DEF ReleaseDec, Forget
  <2>19. CASE MainClear(t)
    BY <2>19 DEF MainClear, Forget
  <2>20. CASE Free(t)
    BY <2>20 DEF Free, Forget
  <2> QED
    BY <1>4, <2>1, <2>2, <2>3, <2>4, <2>5, <2>6, <2>7, <2>8, <2>9, <2>10,
       <2>11, <2>12, <2>13, <2>14, <2>15, <2>16, <2>17, <2>18, <2>19, <2>20
       DEF Continue
<1>5. ASSUME NEW t \in Thread, Finalize(t) PROVE LockInv'
  <2>1. ASSUME NEW u \in Udata, GuardRelease(t, u) PROVE LockInv'
    BY <2>1 DEF GuardRelease
  <2>2. ASSUME NEW u \in Udata, Release(t, u) PROVE LockInv'
    BY <2>2 DEF Release
  <2> QED
    BY <1>5, <2>1, <2>2 DEF Finalize
<1>6. ASSUME NEW t \in Thread, Universe(t) PROVE LockInv'
  <2>1. ASSUME NEW s \in LState, NewCoroutine(t, s) PROVE LockInv'
    BY <2>1 DEF NewCoroutine, RunsLua
  <2>2. ASSUME NEW s \in LState, CollectCoroutine(t, s) PROVE LockInv'
    BY <2>2 DEF CollectCoroutine, Queue, RunsLua
  <2>3. ASSUME NEW s \in LState, Resurrect(t, s) PROVE LockInv'
    BY <2>3 DEF Resurrect, RunsLua
  <2>4. ASSUME NEW s \in LState, FreeCoroutine(t, s) PROVE LockInv'
    BY <2>4 DEF FreeCoroutine, RunsLua
  <2>5. ASSUME NEW u \in Udata, CollectUdata(t, u) PROVE LockInv'
    BY <2>5 DEF CollectUdata, IsAnchored, Queue, RunsLua
  <2>6. CASE CloseUniverse(t)
    BY <2>6 DEF CloseUniverse, Queue, RunsLua
  <2> QED
    BY <1>6, <2>1, <2>2, <2>3, <2>4, <2>5, <2>6 DEF Universe
<1>7. ASSUME NEW t \in Thread, Closed(t) PROVE LockInv'
  BY <1>7 DEF Closed
<1> QED
  BY <1>1, <1>2, <1>3, <1>4, <1>5, <1>6, <1>7 DEF Next, Step

----------------------------------------------------------------------------
(* Registration.                                                           *)

\* Between the creation of a record and its registration.
Registering(t) == pc[t] \in {"register_lock", "register"}

\* A record that is being registered cannot be found, its only userdata is no
\* handle, and threads that look for it have not found it.
RegisterInv ==
    /\ \A i \in bucket : alloc[i] # "none"
    /\ \A t \in Thread : Registering(t) =>
          /\ obj[t] \notin bucket
          /\ guard[cur[t]] # "none" \/ isMainGuard[cur[t]]
          /\ \A u \in Udata : interruptible[u] = obj[t] => u = cur[t]
          /\ \A r \in Thread \ {t} : obj[r] = obj[t] =>
                pc[r] \in {"find_lock", "find", "open_lock", "open"}

\* The userdata of a main state, and only that one, is its own guard.
LEMMA MainGuard ==
    ASSUME TypeOK, NEW t \in Thread, NEW s \in LState, NEW u \in Udata,
           NEW i \in Intr, CreateRecord(t, s, u, i)
    PROVE  isMainGuard'[u] <=> s = Main[t]
  BY DEF TypeOK, CreateRecord

\* Every step keeps RegisterInv.
LEMMA RegisterStep ==
    TypeOK /\ LocalsInv /\ PointersInv /\ RegisterInv /\ [Next]_vars
        => RegisterInv'
<1> SUFFICES ASSUME TypeOK, LocalsInv, PointersInv, RegisterInv, [Next]_vars
             PROVE  RegisterInv'
  OBVIOUS
<1> USE ConstantsAssumption DEF LocalsInv, PointersInv, RegisterInv,
        Registering,
        TypeOK, Points, Touches, heap, udata, states,
        locals, Goto, Begin, Return
<1>1. CASE UNCHANGED vars
  BY <1>1 DEF vars
<1>2. CASE Done
  BY <1>2 DEF Done, vars
<1>3. ASSUME NEW t \in Thread, Call(t) PROVE RegisterInv'
  <2>1. ASSUME NEW s \in LState, NEW u \in Udata,
               NEW i \in Intr, AssureCreated(t, s, u, i)
        PROVE  RegisterInv'
    <3> USE <2>1 DEF AssureCreated, CreateRecord, SetupGuard, RunsLua
    <3>1. \A j \in bucket' : alloc'[j] # "none"
      OBVIOUS
    <3>2. /\ i \notin bucket' /\ obj'[t] = i /\ cur'[t] = u
      OBVIOUS
    <3>5. guard'[u] # "none" \/ isMainGuard'[u]
      <4>1. s = Main[t] => isMainGuard'[u]
        BY MainGuard
      <4>2. s # Main[t] => guard'[u] = "live"
        OBVIOUS
      <4> QED
        BY <4>1, <4>2
    <3>3. /\ \A v \in Udata : interruptible'[v] = i => v = u
          /\ \A r \in Thread \ {t} : obj'[r] # i
      OBVIOUS
    <3>4. ASSUME NEW r \in Thread \ {t}, Registering(r)'
          PROVE  /\ obj'[r] \notin bucket'
                 /\ guard'[cur'[r]] # "none" \/ isMainGuard'[cur'[r]]
                 /\ \A v \in Udata : interruptible'[v] = obj'[r] => v = cur'[r]
                 /\ \A q \in Thread \ {r} : obj'[q] = obj'[r] =>
                       pc'[q] \in {"find_lock", "find", "open_lock", "open"}
      <4>1. Registering(r) /\ cur[r] # u /\ obj[r] # i /\ UNCHANGED <<bucket>>
        BY <3>4
      <4>2. /\ obj'[r] = obj[r] /\ cur'[r] = cur[r] /\ cur[r] # NULL
            /\ guard'[cur[r]] = guard[cur[r]]
            /\ isMainGuard'[cur[r]] = isMainGuard[cur[r]]
        BY <3>4, <4>1
      <4> QED
        BY <3>4, <4>1, <4>2
    <3> QED
      BY <3>1, <3>2, <3>3, <3>4, <3>5
  <2>2. ASSUME NEW i \in Intr, InterruptById(t, i) PROVE RegisterInv'
    BY <2>2 DEF InterruptById, RunsLua
  <2>3. ASSUME NEW i \in Intr, NEW u \in Udata,
               OpenById(t, i, u)
        PROVE  RegisterInv'
    BY <2>3 DEF OpenById, RunsLua
  <2>4. ASSUME NEW u \in Udata, InterruptByUdata(t, u) PROVE RegisterInv'
    BY <2>4 DEF InterruptByUdata, RunsLua, IsHandle
  <2>5. ASSUME NEW s \in LState, NEW u \in Udata,
               NEW i \in Intr, AssureFails(t, s, u, i)
        PROVE  RegisterInv'
    BY <2>5 DEF AssureFails, CreateRecord, InitLock, RunsLua
  <2> QED
    BY <1>3, <2>1, <2>2, <2>3, <2>4, <2>5 DEF Call
<1>4. ASSUME NEW t \in Thread, Continue(t) PROVE RegisterInv'
  <2>1. CASE LockGlobal(t, "register_lock", "register")
    BY <2>1 DEF LockGlobal
  <2>2. CASE LockGlobal(t, "find_lock", "find")
    BY <2>2 DEF LockGlobal
  <2>3. CASE LockGlobal(t, "open_lock", "open")
    BY <2>3 DEF LockGlobal
  <2>4. CASE LockGlobal(t, "free_lock", "free")
    BY <2>4 DEF LockGlobal
  <2>5. CASE LockIntr(t, "interrupt_lock", "interrupt_read")
    BY <2>5 DEF LockIntr
  <2>6. CASE LockIntr(t, "guard_lock", "guard_clear")
    BY <2>6 DEF LockIntr
  <2>7. CASE LockIntr(t, "main_lock", "main_clear")
    BY <2>7 DEF LockIntr
  <2>8. CASE Register(t)
    BY <2>8 DEF Register
  <2>9. CASE RegisterOutOfMemory(t)
    BY <2>9 DEF RegisterOutOfMemory
  <2>10. CASE FindFails(t)
    BY <2>10 DEF FindFails
  <2>11. CASE Find(t)
    BY <2>11 DEF Find
  <2>12. CASE Open(t)
    BY <2>12 DEF Open
  <2>13. CASE ReadL2(t)
    BY <2>13 DEF ReadL2
  <2>14. CASE SetHook(t)
    BY <2>14 DEF SetHook
  <2>15. CASE UnlockIntr(t)
    <3>1. ASSUME NEW r \in Thread, Registering(r)'
          PROVE  /\ Registering(r) /\ r # t
                 /\ obj'[r] = obj[r] /\ cur'[r] = cur[r]
      BY <2>15, <3>1 DEF UnlockIntr
    <3>2. ASSUME NEW r \in Thread, NEW q \in Thread \ {r}, Registering(r)',
                 obj'[q] = obj'[r]
          PROVE  pc'[q] \in {"find_lock", "find", "open_lock", "open"}
      <4>1. q # t
        BY <2>15, <3>1, <3>2 DEF UnlockIntr
      <4>2. obj'[q] = obj[q] /\ pc'[q] = pc[q]
        BY <2>15, <4>1 DEF UnlockIntr
      <4>3. Registering(r) /\ obj[q] = obj[r]
        BY <3>1, <3>2, <4>2
      <4>4. pc[q] \in {"find_lock", "find", "open_lock", "open"}
        BY <4>3
      <4> QED
        BY <4>2, <4>4
    <3>3. UNCHANGED <<alloc, bucket, guard, isMainGuard, interruptible>>
      BY <2>15 DEF UnlockIntr
    <3> QED
      BY <3>1, <3>2, <3>3
  <2>16. CASE InterruptDec(t)
    BY <2>16 DEF InterruptDec
  <2>17. CASE GuardClear(t)
    BY <2>17 DEF GuardClear
  <2>18. CASE ReleaseDec(t)
    BY <2>18 DEF ReleaseDec, Forget
  <2>19. CASE MainClear(t)
    BY <2>19 DEF MainClear, Forget
  <2>20. CASE Free(t)
    BY <2>20 DEF Free, Forget
  <2> QED
    BY <1>4, <2>1, <2>2, <2>3, <2>4, <2>5, <2>6, <2>7, <2>8, <2>9, <2>10,
       <2>11, <2>12, <2>13, <2>14, <2>15, <2>16, <2>17, <2>18, <2>19, <2>20
       DEF Continue
<1>5. ASSUME NEW t \in Thread, Finalize(t) PROVE RegisterInv'
  <2>1. ASSUME NEW u \in Udata, GuardRelease(t, u) PROVE RegisterInv'
    BY <2>1 DEF GuardRelease
  <2>2. ASSUME NEW u \in Udata, Release(t, u) PROVE RegisterInv'
    BY <2>2 DEF Release
  <2> QED
    BY <1>5, <2>1, <2>2 DEF Finalize
<1>6. ASSUME NEW t \in Thread, Universe(t) PROVE RegisterInv'
  <2>1. ASSUME NEW s \in LState, NewCoroutine(t, s) PROVE RegisterInv'
    BY <2>1 DEF NewCoroutine, RunsLua
  <2>2. ASSUME NEW s \in LState, CollectCoroutine(t, s) PROVE RegisterInv'
    BY <2>2 DEF CollectCoroutine, Queue, RunsLua
  <2>3. ASSUME NEW s \in LState, Resurrect(t, s) PROVE RegisterInv'
    BY <2>3 DEF Resurrect, RunsLua
  <2>4. ASSUME NEW s \in LState, FreeCoroutine(t, s) PROVE RegisterInv'
    BY <2>4 DEF FreeCoroutine, RunsLua
  <2>5. ASSUME NEW u \in Udata, CollectUdata(t, u) PROVE RegisterInv'
    BY <2>5 DEF CollectUdata, IsAnchored, Queue, RunsLua
  <2>6. CASE CloseUniverse(t)
    BY <2>6 DEF CloseUniverse, Queue, RunsLua
  <2> QED
    BY <1>6, <2>1, <2>2, <2>3, <2>4, <2>5, <2>6 DEF Universe
<1>7. ASSUME NEW t \in Thread, Closed(t) PROVE RegisterInv'
  BY <1>7 DEF Closed
<1> QED
  BY <1>1, <1>2, <1>3, <1>4, <1>5, <1>6, <1>7 DEF Next, Step

----------------------------------------------------------------------------
(* The pointer L2 between its test and its use.                            *)

\* Every step keeps TestedL2IsCurrent: L2 is written by a registration, whose
\* record nobody works on, and under the record's Lock, which the thread has
\* before its call of lua_sethook.
LEMMA TestedStep ==
    TypeOK /\ LocalsInv /\ PointersInv /\ LockInv /\ RegisterInv /\
    TestedL2IsCurrent /\ [Next]_vars
        => TestedL2IsCurrent'
<1> SUFFICES ASSUME TypeOK, LocalsInv, PointersInv, LockInv, RegisterInv,
                    TestedL2IsCurrent, [Next]_vars
             PROVE  TestedL2IsCurrent'
  OBVIOUS
<1> USE ConstantsAssumption DEF LocalsInv, PointersInv, TestedL2IsCurrent,
        Accessible,
        TypeOK, Points, Touches, heap, udata, states,
        locals, Goto, Begin, Return
<1>1. CASE UNCHANGED vars
  BY <1>1 DEF vars
<1>2. CASE Done
  BY <1>2 DEF Done, vars
<1>3. ASSUME NEW t \in Thread, Call(t) PROVE TestedL2IsCurrent'
  <2>1. ASSUME NEW s \in LState, NEW u \in Udata,
               NEW i \in Intr, AssureCreated(t, s, u, i)
        PROVE  TestedL2IsCurrent'
    BY <2>1 DEF AssureCreated, CreateRecord, InitLock, SetupGuard, RunsLua,
       HasRecord
  <2>2. ASSUME NEW i \in Intr, InterruptById(t, i) PROVE TestedL2IsCurrent'
    BY <2>2 DEF InterruptById, RunsLua
  <2>3. ASSUME NEW i \in Intr, NEW u \in Udata,
               OpenById(t, i, u)
        PROVE  TestedL2IsCurrent'
    BY <2>3 DEF OpenById, RunsLua
  <2>4. ASSUME NEW u \in Udata, InterruptByUdata(t, u)
        PROVE  TestedL2IsCurrent'
    BY <2>4 DEF InterruptByUdata, RunsLua, IsHandle
  <2>5. ASSUME NEW s \in LState, NEW u \in Udata,
               NEW i \in Intr, AssureFails(t, s, u, i)
        PROVE  TestedL2IsCurrent'
    BY <2>5 DEF AssureFails, CreateRecord, InitLock, RunsLua
  <2> QED
    BY <1>3, <2>1, <2>2, <2>3, <2>4, <2>5 DEF Call
<1>4. ASSUME NEW t \in Thread, Continue(t) PROVE TestedL2IsCurrent'
  <2>1. CASE LockGlobal(t, "register_lock", "register")
    BY <2>1 DEF LockGlobal
  <2>2. CASE LockGlobal(t, "find_lock", "find")
    BY <2>2 DEF LockGlobal
  <2>3. CASE LockGlobal(t, "open_lock", "open")
    BY <2>3 DEF LockGlobal
  <2>4. CASE LockGlobal(t, "free_lock", "free")
    BY <2>4 DEF LockGlobal
  <2>5. CASE LockIntr(t, "interrupt_lock", "interrupt_read")
    BY <2>5 DEF LockIntr
  <2>6. CASE LockIntr(t, "guard_lock", "guard_clear")
    BY <2>6 DEF LockIntr
  <2>7. CASE LockIntr(t, "main_lock", "main_clear")
    BY <2>7 DEF LockIntr
  <2>8. CASE Register(t)
    BY <2>8 DEF Register, RegisterInv, Registering
  <2>9. CASE RegisterOutOfMemory(t)
    BY <2>9 DEF RegisterOutOfMemory
  <2>10. CASE FindFails(t)
    BY <2>10 DEF FindFails
  <2>11. CASE Find(t)
    BY <2>11 DEF Find
  <2>12. CASE Open(t)
    BY <2>12 DEF Open
  <2>13. CASE ReadL2(t)
    BY <2>13 DEF ReadL2
  <2>14. CASE SetHook(t)
    BY <2>14 DEF SetHook
  <2>15. CASE UnlockIntr(t)
    BY <2>15 DEF UnlockIntr
  <2>16. CASE InterruptDec(t)
    BY <2>16 DEF InterruptDec
  <2>17. CASE GuardClear(t)
    BY <2>17 DEF GuardClear, LockInv, InLock
  <2>18. CASE ReleaseDec(t)
    BY <2>18 DEF ReleaseDec, Forget
  <2>19. CASE MainClear(t)
    BY <2>19 DEF MainClear, Forget, LockInv, InLock
  <2>20. CASE Free(t)
    BY <2>20 DEF Free, Forget
  <2> QED
    BY <1>4, <2>1, <2>2, <2>3, <2>4, <2>5, <2>6, <2>7, <2>8, <2>9, <2>10,
       <2>11, <2>12, <2>13, <2>14, <2>15, <2>16, <2>17, <2>18, <2>19, <2>20
       DEF Continue
<1>5. ASSUME NEW t \in Thread, Finalize(t) PROVE TestedL2IsCurrent'
  <2>1. ASSUME NEW u \in Udata, GuardRelease(t, u) PROVE TestedL2IsCurrent'
    BY <2>1 DEF GuardRelease
  <2>2. ASSUME NEW u \in Udata, Release(t, u) PROVE TestedL2IsCurrent'
    BY <2>2 DEF Release
  <2> QED
    BY <1>5, <2>1, <2>2 DEF Finalize
<1>6. ASSUME NEW t \in Thread, Universe(t) PROVE TestedL2IsCurrent'
  <2>1. ASSUME NEW s \in LState, NewCoroutine(t, s) PROVE TestedL2IsCurrent'
    BY <2>1 DEF NewCoroutine, RunsLua
  <2>2. ASSUME NEW s \in LState, CollectCoroutine(t, s)
        PROVE  TestedL2IsCurrent'
    BY <2>2 DEF CollectCoroutine, Queue, RunsLua
  <2>3. ASSUME NEW s \in LState, Resurrect(t, s) PROVE TestedL2IsCurrent'
    BY <2>3 DEF Resurrect, RunsLua
  <2>4. ASSUME NEW s \in LState, FreeCoroutine(t, s) PROVE TestedL2IsCurrent'
    BY <2>4 DEF FreeCoroutine, RunsLua
  <2>5. ASSUME NEW u \in Udata, CollectUdata(t, u) PROVE TestedL2IsCurrent'
    BY <2>5 DEF CollectUdata, IsAnchored, Queue, RunsLua
  <2>6. CASE CloseUniverse(t)
    BY <2>6 DEF CloseUniverse, Queue, RunsLua
  <2> QED
    BY <1>6, <2>1, <2>2, <2>3, <2>4, <2>5, <2>6 DEF Universe
<1>7. ASSUME NEW t \in Thread, Closed(t) PROVE TestedL2IsCurrent'
  BY <1>7 DEF Closed
<1> QED
  BY <1>1, <1>2, <1>3, <1>4, <1>5, <1>6, <1>7 DEF Next, Step

\* The inductive invariant.
RecordInv ==
    CountInv /\ LockInv /\ RegisterInv /\ TestedL2IsCurrent

\* It is an invariant.
LEMMA RecordInvariant == Spec => []RecordInv
<1>1. Init => RecordInv
  <2>1. Init => CountInv
    BY CountInit
  <2> QED
    BY <2>1, ConstantsAssumption
       DEF Init, RecordInv, LockInv, InLock, RegisterInv, Registering,
           TestedL2IsCurrent
<1>2. RecordInv /\ [Next]_vars => RecordInv'
  BY TypeStep, ShapeStep, CountStep, LockStep, RegisterStep, TestedStep
     DEF RecordInv, CountInv
<1> QED
  BY <1>1, <1>2, PTL DEF Spec

\* The L2 that mtint_interrupt has tested under the record's Lock is the
\* record's L2 until lua_sethook has used it: nobody writes it in between,
\* neither a finalizer nor a registration.
THEOREM TestedStays == Spec => []TestedL2IsCurrent
<1>1. RecordInv => TestedL2IsCurrent
  BY DEF RecordInv
<1> QED
  BY <1>1, RecordInvariant, PTL

\* Kept out of the two windows, the Lock of a record is destroyed only when no
\* thread has it: whoever is inside has a reference, and there is none left.
THEOREM NoLockLost == SerialSpec => []NoLockedDestroy
<1>1. RecordInv /\ SerialInv => NoLockedDestroy
  <2> SUFFICES ASSUME RecordInv, SerialInv, NEW t \in Thread,
                      pc[t] = "free", Accessible(t)
               PROVE  lock[obj[t]] = NULL
    BY DEF NoLockedDestroy
  <2> PICK i \in Intr : i = obj[t]
    BY DEF Accessible
  <2> SUFFICES ASSUME NEW r \in Thread, lock[i] = r PROVE FALSE
    BY DEF SerialInv, CountInv, TypeOK
  <2>1. obj[r] = i /\ pc[r] \in InLock /\ r # t
    BY DEF RecordInv, LockInv, Accessible, InLock
  <2>2. Refs(i) = {} /\ used[i] = 0
    BY ZeroIsUnreferenced DEF SerialInv, LiveInv, Accessible, FreeWindow
  <2>3. CASE cur[r] = NULL
    BY <2>1, <2>2, <2>3
       DEF InLock, Refs, CallRefs, InCallById, SerialInv, CountInv, LocalsInv
  <2>4. CASE cur[r] # NULL
    <3> PICK u \in Udata : u = cur[r]
      BY <2>4 DEF SerialInv, CountInv, TypeOK
    <3>1. interruptible[u] = i /\ home[u] = r
      BY <2>1, <2>4 DEF InLock, SerialInv, CountInv, LocalsInv
    <3>2. Dropped(u)
      BY <2>2, <3>1 DEF Refs, UdataRefs
    <3>3. ClearWindow(r)
      BY <2>1, <3>1, <3>2 DEF Dropped, FreeWindow, InLock
    <3> QED
      BY <2>1, <2>2, <3>3 DEF SerialInv, WindowsRespected
  <2> QED
    BY <2>3, <2>4
<1>2. SerialSpec => Spec
  BY SerialIsSpec
<1> QED
  BY <1>1, <1>2, RecordInvariant, SerialInvariant, PTL
=============================================================================
