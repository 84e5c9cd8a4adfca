------------------------ MODULE InterruptibleProofs ------------------------
(***************************************************************************)
(* Theorems about Interruptible, for any number of threads, states,        *)
(* records and userdata.                                                   *)
(***************************************************************************)
EXTENDS Interruptible, FiniteSetTheorems, TLAPS

----------------------------------------------------------------------------
(* What the C functions can rely on.                                       *)

\* A function works on the record of its userdata, which is of the universe
\* of its own thread; mtint.interruptible has yet to fill its userdata in.
LocalsInv ==
    \A t \in Thread :
        /\ (pc[t] \in {"idle", "find_lock", "find", "interrupt_dec"}
               => cur[t] = NULL)
        /\ (pc[t] \in {"register_lock", "register", "open_lock", "open",
                       "guard_lock", "guard_clear", "release_dec",
                       "main_lock", "main_clear"} => cur[t] # NULL)
        /\ cur[t] # NULL =>
               /\ home[cur[t]] = t
               /\ interruptible[cur[t]] =
                      IF pc[t] \in {"open_lock", "open"} THEN NULL ELSE obj[t]

\* Userdata that do not exist belong to nobody, and pointers only ever lead
\* to records that were allocated.
PointersInv ==
    /\ \A u \in Udata :
          /\ ud[u] = "none" => home[u] = NULL
          /\ home[u] = NULL => interruptible[u] = NULL
          /\ interruptible[u] # NULL => alloc[interruptible[u]] # "none"
    /\ \A t \in Thread : obj[t] # NULL => alloc[obj[t]] # "none"

\* The inductive invariant behind UsedCountsRefs.
CountInv == TypeOK /\ LocalsInv /\ PointersInv /\ UsedCountsRefs

----------------------------------------------------------------------------
(* Type correctness.                                                       *)

\* Every step keeps the types.
LEMMA TypeStep == TypeOK /\ [Next]_vars => TypeOK'
<1> SUFFICES ASSUME TypeOK, [Next]_vars PROVE TypeOK'
  OBVIOUS
<1> USE ConstantsAssumption DEF TypeOK, Points, Touches, heap, udata, states,
        locals, Goto, Begin, Return
<1>1. CASE UNCHANGED vars
  BY <1>1 DEF vars
<1>2. CASE Done
  BY <1>2 DEF Done, vars
<1>3. ASSUME NEW t \in Thread, Call(t) PROVE TypeOK'
  <2>1. ASSUME NEW s \in LState, NEW u \in Udata, NEW i \in Intr,
               AssureCreated(t, s, u, i)
        PROVE TypeOK'
    BY <2>1 DEF AssureCreated, CreateRecord, InitLock, SetupGuard, RunsLua
  <2>2. ASSUME NEW i \in Intr, InterruptById(t, i) PROVE TypeOK'
    BY <2>2 DEF InterruptById
  <2>3. ASSUME NEW i \in Intr, NEW u \in Udata, OpenById(t, i, u) PROVE TypeOK'
    BY <2>3 DEF OpenById
  <2>4. ASSUME NEW u \in Udata, InterruptByUdata(t, u) PROVE TypeOK'
    BY <2>4 DEF InterruptByUdata, IsHandle
  <2>5. ASSUME NEW s \in LState, NEW u \in Udata, NEW i \in Intr,
               AssureFails(t, s, u, i)
        PROVE TypeOK'
    BY <2>5 DEF AssureFails, CreateRecord, InitLock, RunsLua
  <2> QED
    BY <1>3, <2>1, <2>2, <2>3, <2>4, <2>5 DEF Call
<1>4. ASSUME NEW t \in Thread, Continue(t) PROVE TypeOK'
  <2>1. ASSUME NEW from \in Points \ {"idle"}, NEW to \in Points \ {"idle"},
               LockGlobal(t, from, to)
        PROVE TypeOK'
    BY <2>1 DEF LockGlobal
  <2>2. ASSUME NEW from \in Points \ {"idle"}, NEW to \in Points \ {"idle"},
               LockIntr(t, from, to)
        PROVE TypeOK'
    BY <2>2 DEF LockIntr
  <2>3. CASE Register(t)
    BY <2>3 DEF Register, Accessible
  <2>4. CASE RegisterOutOfMemory(t)
    BY <2>4 DEF RegisterOutOfMemory
  <2>5. CASE FindFails(t)
    BY <2>5 DEF FindFails
  <2>6. CASE Find(t)
    BY <2>6 DEF Find
  <2>7. CASE Open(t)
    <3>1. obj[t] \in Intr
      BY <2>7 DEF Open
    <3>2. interruptible' \in [Udata -> Intr \cup {NULL}]
      BY <2>7, <3>1 DEF Open
    <3>3. used' \in [Intr -> Int]
      BY <2>7, <3>1 DEF Open
    <3> QED
      BY <2>7, <3>2, <3>3 DEF Open
  <2>8. CASE ReadL2(t)
    BY <2>8 DEF ReadL2, Accessible
  <2>9. CASE SetHook(t)
    BY <2>9 DEF SetHook
  <2>10. CASE UnlockIntr(t)
    <3>1. lock' \in [Intr -> Thread \cup {NULL}]
      BY <2>10 DEF UnlockIntr
    <3> QED
      BY <2>10, <3>1 DEF UnlockIntr
  <2>11. CASE InterruptDec(t)
    <3>1. used' \in [Intr -> Int]
      BY <2>11 DEF InterruptDec, Accessible
    <3> QED
      BY <2>11, <3>1 DEF InterruptDec
  <2>12. CASE GuardClear(t)
    BY <2>12 DEF GuardClear
  <2>13. CASE ReleaseDec(t)
    <3>1. used' \in [Intr -> Int]
      BY <2>13 DEF ReleaseDec, Accessible
    <3>2. interruptible' \in [Udata -> Intr \cup {NULL}]
      BY <2>13 DEF ReleaseDec, Forget
    <3> QED
      BY <2>13, <3>1, <3>2 DEF ReleaseDec
  <2>14. CASE MainClear(t)
    <3>1. /\ Return(t) /\ pc[t] # "idle"
          /\ interruptible' \in [Udata -> Intr \cup {NULL}]
      BY <2>14 DEF MainClear, Forget
    <3>2. /\ L2' \in [Intr -> LState \cup {NULL}]
          /\ lock' \in [Intr -> Thread \cup {NULL}]
      BY <2>14 DEF MainClear
    <3> QED
      BY <2>14, <3>1, <3>2 DEF MainClear
  <2>15. CASE Free(t)
    BY <2>15 DEF Free, Forget
  <2> QED
    BY <1>4, <2>1, <2>2, <2>3, <2>4, <2>5, <2>6, <2>7, <2>8, <2>9, <2>10,
       <2>11, <2>12, <2>13, <2>14, <2>15 DEF Continue
<1>5. ASSUME NEW t \in Thread, Finalize(t) PROVE TypeOK'
  <2>1. ASSUME NEW u \in Udata, GuardRelease(t, u) PROVE TypeOK'
    BY <2>1 DEF GuardRelease
  <2>2. ASSUME NEW u \in Udata, Release(t, u) PROVE TypeOK'
    BY <2>2 DEF Release
  <2> QED
    BY <1>5, <2>1, <2>2 DEF Finalize
<1>6. ASSUME NEW t \in Thread, Universe(t) PROVE TypeOK'
  <2>1. ASSUME NEW s \in LState, NewCoroutine(t, s) PROVE TypeOK'
    BY <2>1 DEF NewCoroutine
  <2>2. ASSUME NEW s \in LState, CollectCoroutine(t, s) PROVE TypeOK'
    BY <2>2 DEF CollectCoroutine, Queue
  <2>3. ASSUME NEW s \in LState, Resurrect(t, s) PROVE TypeOK'
    BY <2>3 DEF Resurrect
  <2>4. ASSUME NEW s \in LState, FreeCoroutine(t, s) PROVE TypeOK'
    BY <2>4 DEF FreeCoroutine
  <2>5. ASSUME NEW u \in Udata, CollectUdata(t, u) PROVE TypeOK'
    BY <2>5 DEF CollectUdata, IsAnchored, Queue
  <2>6. CASE CloseUniverse(t)
    BY <2>6 DEF CloseUniverse, Queue
  <2> QED
    BY <1>6, <2>1, <2>2, <2>3, <2>4, <2>5, <2>6 DEF Universe
<1>7. ASSUME NEW t \in Thread, Closed(t) PROVE TypeOK'
  BY <1>7 DEF Closed
<1> QED
  BY <1>1, <1>2, <1>3, <1>4, <1>5, <1>6, <1>7 DEF Next, Step

\* Interruptible is type correct: whatever the threads do, every variable has
\* its type and a C function that has begun has a record to work on.
THEOREM TypeCorrect == Spec => []TypeOK
<1>1. Init => TypeOK
  BY ConstantsAssumption DEF Init, TypeOK, Points
<1> QED
  BY <1>1, TypeStep, PTL DEF Spec

----------------------------------------------------------------------------
(* The invariants of locals and pointers.                                  *)

\* Every step keeps them.
LEMMA ShapeStep ==
    TypeOK /\ LocalsInv /\ PointersInv /\ [Next]_vars
        => LocalsInv' /\ PointersInv'
<1> SUFFICES ASSUME TypeOK, LocalsInv, PointersInv, [Next]_vars
             PROVE  LocalsInv' /\ PointersInv'
  OBVIOUS
<1> USE ConstantsAssumption DEF TypeOK, LocalsInv, PointersInv, Points,
        Touches, heap, udata, states, locals, Goto, Begin, Return
<1>1. CASE UNCHANGED vars
  BY <1>1 DEF vars
<1>2. CASE Done
  BY <1>2 DEF Done, vars
<1>3. ASSUME NEW t \in Thread, Call(t) PROVE LocalsInv' /\ PointersInv'
  <2>1. ASSUME NEW s \in LState, NEW u \in Udata, NEW i \in Intr,
               AssureCreated(t, s, u, i)
        PROVE LocalsInv' /\ PointersInv'
    BY <2>1 DEF AssureCreated, CreateRecord, InitLock, SetupGuard, RunsLua
  <2>2. ASSUME NEW i \in Intr, InterruptById(t, i)
        PROVE LocalsInv' /\ PointersInv'
    BY <2>2 DEF InterruptById, RunsLua
  <2>3. ASSUME NEW i \in Intr, NEW u \in Udata, OpenById(t, i, u)
        PROVE LocalsInv' /\ PointersInv'
    BY <2>3 DEF OpenById, RunsLua
  <2>4. ASSUME NEW u \in Udata, InterruptByUdata(t, u)
        PROVE LocalsInv' /\ PointersInv'
    BY <2>4 DEF InterruptByUdata, RunsLua, IsHandle
  <2>5. ASSUME NEW s \in LState, NEW u \in Udata, NEW i \in Intr,
               AssureFails(t, s, u, i)
        PROVE LocalsInv' /\ PointersInv'
    BY <2>5 DEF AssureFails, CreateRecord, InitLock, RunsLua
  <2> QED
    BY <1>3, <2>1, <2>2, <2>3, <2>4, <2>5 DEF Call
<1>4. ASSUME NEW t \in Thread, Continue(t) PROVE LocalsInv' /\ PointersInv'
  <2>1. CASE LockGlobal(t, "register_lock", "register")
    BY <2>1 DEF LockGlobal
  <2>2. CASE LockGlobal(t, "find_lock", "find")
    BY <2>2 DEF LockGlobal
  <2>3. CASE LockGlobal(t, "open_lock", "open")
    BY <2>3 DEF LockGlobal
  <2>4. CASE LockGlobal(t, "free_lock", "free")
    BY <2>4 DEF LockGlobal
  <2>5. CASE LockIntr(t, "interrupt_lock", "interrupt_read")
    BY <2>5 DEF LockIntr
  <2>6. CASE LockIntr(t, "guard_lock", "guard_clear")
    BY <2>6 DEF LockIntr
  <2>7. CASE LockIntr(t, "main_lock", "main_clear")
    BY <2>7 DEF LockIntr
  <2>8. CASE Register(t)
    BY <2>8 DEF Register, Accessible
  <2>9. CASE RegisterOutOfMemory(t)
    BY <2>9 DEF RegisterOutOfMemory
  <2>10. CASE FindFails(t)
    BY <2>10 DEF FindFails
  <2>11. CASE Find(t)
    BY <2>11 DEF Find
  <2>12. CASE Open(t)
    BY <2>12 DEF Open
  <2>13. CASE ReadL2(t)
    BY <2>13 DEF ReadL2
  <2>14. CASE SetHook(t)
    BY <2>14 DEF SetHook
  <2>15. CASE UnlockIntr(t)
    BY <2>15 DEF UnlockIntr
  <2>16. CASE InterruptDec(t)
    BY <2>16 DEF InterruptDec, Accessible
  <2>17. CASE GuardClear(t)
    BY <2>17 DEF GuardClear
  <2>18. CASE ReleaseDec(t)
    BY <2>18 DEF ReleaseDec, Accessible, Forget
  <2>19. CASE MainClear(t)
    BY <2>19 DEF MainClear, Forget
  <2>20. CASE Free(t)
    BY <2>20 DEF Free, Forget, Accessible
  <2> QED
    BY <1>4, <2>1, <2>2, <2>3, <2>4, <2>5, <2>6, <2>7, <2>8, <2>9,
       <2>10, <2>11, <2>12, <2>13, <2>14, <2>15, <2>16, <2>17, <2>18, <2>19,
       <2>20 DEF Continue
<1>5. ASSUME NEW t \in Thread, Finalize(t) PROVE LocalsInv' /\ PointersInv'
  <2>1. ASSUME NEW u \in Udata, GuardRelease(t, u)
        PROVE LocalsInv' /\ PointersInv'
    BY <2>1 DEF GuardRelease
  <2>2. ASSUME NEW u \in Udata, Release(t, u)
        PROVE LocalsInv' /\ PointersInv'
    BY <2>2 DEF Release
  <2> QED
    BY <1>5, <2>1, <2>2 DEF Finalize
<1>6. ASSUME NEW t \in Thread, Universe(t) PROVE LocalsInv' /\ PointersInv'
  <2>1. ASSUME NEW s \in LState, NewCoroutine(t, s)
        PROVE LocalsInv' /\ PointersInv'
    BY <2>1 DEF NewCoroutine
  <2>2. ASSUME NEW s \in LState, CollectCoroutine(t, s)
        PROVE LocalsInv' /\ PointersInv'
    BY <2>2 DEF CollectCoroutine, Queue
  <2>3. ASSUME NEW s \in LState, Resurrect(t, s)
        PROVE LocalsInv' /\ PointersInv'
    BY <2>3 DEF Resurrect
  <2>4. ASSUME NEW s \in LState, FreeCoroutine(t, s)
        PROVE LocalsInv' /\ PointersInv'
    BY <2>4 DEF FreeCoroutine
  <2>5. ASSUME NEW u \in Udata, CollectUdata(t, u)
        PROVE LocalsInv' /\ PointersInv'
    BY <2>5 DEF CollectUdata, IsAnchored, Queue, RunsLua
  <2>6. CASE CloseUniverse(t)
    BY <2>6 DEF CloseUniverse, Queue, RunsLua
  <2> QED
    BY <1>6, <2>1, <2>2, <2>3, <2>4, <2>5, <2>6 DEF Universe
<1>7. ASSUME NEW t \in Thread, Closed(t) PROVE LocalsInv' /\ PointersInv'
  BY <1>7 DEF Closed
<1> QED
  BY <1>1, <1>2, <1>3, <1>4, <1>5, <1>6, <1>7 DEF Next, Step

----------------------------------------------------------------------------
(* The counter of a record counts the references to it.                    *)

\* A record has finitely many references.
LEMMA RefsFinite == ASSUME NEW i \in Intr PROVE IsFiniteSet(Refs(i))
<1>1. IsFiniteSet(CallRefs(i)) /\ IsFiniteSet(UdataRefs(i))
  BY ConstantsAssumption, FS_Subset DEF CallRefs, UdataRefs
<1> QED
  BY <1>1, FS_Union DEF Refs

\* What a step does to references.  It may leave them all alone,
RefsKept ==
    UNCHANGED <<alloc, used>> /\ \A j \in Intr : Refs(j)' = Refs(j)

\* leave those to all records but one alone,
OtherRefsKept(i) == \A j \in Intr \ {i} : Refs(j)' = Refs(j)

\* create record i with one reference,
RefCreated(i, x) ==
    /\ alloc[i] = "none"
    /\ alloc' = [alloc EXCEPT ![i] = "live"]
    /\ used'  = [used EXCEPT ![i] = 1]
    /\ Refs(i)' = {x} /\ OtherRefsKept(i)

\* take a reference to record i, which a thread has found by its id,
RefTaken(i, x) ==
    /\ i \in bucket
    /\ \E t \in Thread : pc[t] \in {"find", "open"} /\ obj[t] = i
    /\ x \notin Refs(i)
    /\ used' = [used EXCEPT ![i] = @ + 1]
    /\ Refs(i)' = Refs(i) \cup {x} /\ OtherRefsKept(i)
    /\ UNCHANGED alloc

\* give one back,
RefDropped(i, x) ==
    /\ alloc[i] = "live"
    /\ x \in Refs(i)
    /\ used' = [used EXCEPT ![i] = @ - 1]
    /\ Refs(i)' = Refs(i) \ {x} /\ OtherRefsKept(i)
    /\ UNCHANGED alloc

\* or free record i.
RefFreed(i) ==
    /\ alloc[i] = "live"
    /\ \E t \in Thread : obj[t] = i /\ FreeWindow(t)
    /\ alloc' = [alloc EXCEPT ![i] = "freed"]
    /\ OtherRefsKept(i) /\ UNCHANGED used

\* Every step does one of these (RefsOfStep).
RefsStep ==
    \/ RefsKept
    \/ \E i \in Intr :
          \/ RefFreed(i)
          \/ \E x \in Thread \cup Udata :
                RefCreated(i, x) \/ RefTaken(i, x) \/ RefDropped(i, x)

\* In all cases the counters stay right.
LEMMA RefsStepCounts ==
    ASSUME TypeOK, UsedCountsRefs, RefsStep PROVE UsedCountsRefs'
<1>1. CASE RefsKept
  BY <1>1 DEF RefsKept, UsedCountsRefs
<1>2. ASSUME NEW i \in Intr, RefFreed(i) PROVE UsedCountsRefs'
  BY <1>2 DEF RefFreed, OtherRefsKept, TypeOK, UsedCountsRefs
<1>3. ASSUME NEW i \in Intr, NEW x \in Thread \cup Udata, RefCreated(i, x)
      PROVE  UsedCountsRefs'
  <2>1. Cardinality({x}) = 1
    BY FS_Singleton
  <2>2. alloc'[i] = "live" => used'[i] = Cardinality(Refs(i)')
    BY <1>3, <2>1 DEF RefCreated, TypeOK
  <2>3. \A j \in Intr \ {i} : alloc'[j] = alloc[j] /\ used'[j] = used[j]
    BY <1>3 DEF RefCreated, TypeOK
  <2> QED
    BY <1>3, <2>2, <2>3 DEF RefCreated, OtherRefsKept, UsedCountsRefs
<1>4. ASSUME NEW i \in Intr, NEW x \in Thread \cup Udata, RefTaken(i, x)
      PROVE  UsedCountsRefs'
  <2>1. Cardinality(Refs(i)') = Cardinality(Refs(i)) + 1
    BY <1>4, RefsFinite, FS_AddElement DEF RefTaken
  <2>2. alloc'[i] = "live" => used'[i] = Cardinality(Refs(i)')
    BY <1>4, <2>1 DEF RefTaken, TypeOK, UsedCountsRefs
  <2>3. \A j \in Intr \ {i} : alloc'[j] = alloc[j] /\ used'[j] = used[j]
    BY <1>4 DEF RefTaken, TypeOK
  <2> QED
    BY <1>4, <2>2, <2>3 DEF RefTaken, OtherRefsKept, UsedCountsRefs
<1>5. ASSUME NEW i \in Intr, NEW x \in Thread \cup Udata, RefDropped(i, x)
      PROVE  UsedCountsRefs'
  <2>1. Cardinality(Refs(i)') = Cardinality(Refs(i)) - 1
    BY <1>5, RefsFinite, FS_RemoveElement DEF RefDropped
  <2>2. alloc'[i] = "live" => used'[i] = Cardinality(Refs(i)')
    BY <1>5, <2>1 DEF RefDropped, TypeOK, UsedCountsRefs
  <2>3. \A j \in Intr \ {i} : alloc'[j] = alloc[j] /\ used'[j] = used[j]
    BY <1>5 DEF RefDropped, TypeOK
  <2> QED
    BY <1>5, <2>2, <2>3 DEF RefDropped, OtherRefsKept, UsedCountsRefs
<1> QED
  BY <1>1, <1>2, <1>3, <1>4, <1>5 DEF RefsStep

\* A new record has one reference, its userdata's.
LEMMA AssureCreatedRefs ==
    ASSUME CountInv, NEW t \in Thread, NEW s \in LState, NEW u \in Udata,
           NEW i \in Intr, AssureCreated(t, s, u, i)
    PROVE  RefsStep
<1>1. Refs(i)' = {u} /\ \A j \in Intr \ {i} : Refs(j)' = Refs(j)
  <2> USE ConstantsAssumption DEF CountInv, TypeOK, LocalsInv, PointersInv,
          AssureCreated, CreateRecord, RunsLua, Goto, Refs, CallRefs,
          UdataRefs, InCallById, Dropped, FreeWindow, ClearWindow
  <2>1. Refs(i)' = {u}
    OBVIOUS
  <2>2. ASSUME NEW j \in Intr \ {i} PROVE Refs(j)' = Refs(j)
    OBVIOUS
  <2> QED
    BY <2>1, <2>2
<1>2. /\ alloc[i] = "none"
      /\ alloc' = [alloc EXCEPT ![i] = "live"]
      /\ used'  = [used EXCEPT ![i] = 1]
  BY DEF AssureCreated, CreateRecord
<1> QED
  BY <1>1, <1>2 DEF RefCreated, OtherRefsKept, RefsStep

\* So has one whose guard could not be set up.
LEMMA AssureFailsRefs ==
    ASSUME CountInv, NEW t \in Thread, NEW s \in LState, NEW u \in Udata,
           NEW i \in Intr, AssureFails(t, s, u, i)
    PROVE  RefsStep
<1>1. Refs(i)' = {u} /\ \A j \in Intr \ {i} : Refs(j)' = Refs(j)
  <2> USE ConstantsAssumption DEF CountInv, TypeOK, LocalsInv, PointersInv,
          AssureFails, CreateRecord, RunsLua, locals, Refs, CallRefs,
          UdataRefs, InCallById, Dropped, FreeWindow, ClearWindow
  <2>1. Refs(i)' = {u}
    OBVIOUS
  <2>2. ASSUME NEW j \in Intr \ {i} PROVE Refs(j)' = Refs(j)
    OBVIOUS
  <2> QED
    BY <2>1, <2>2
<1>2. /\ alloc[i] = "none"
      /\ alloc' = [alloc EXCEPT ![i] = "live"]
      /\ used'  = [used EXCEPT ![i] = 1]
  BY DEF AssureFails, CreateRecord
<1> QED
  BY <1>1, <1>2 DEF RefCreated, OtherRefsKept, RefsStep

\* A call by id that has found its record becomes a reference to it.
LEMMA FindRefs ==
    ASSUME CountInv, NEW t \in Thread, Find(t)
    PROVE  RefsStep
<1> PICK i \in Intr : i = obj[t]
  BY DEF Find, CountInv, TypeOK
<1>1. /\ t \notin Refs(i)
      /\ Refs(i)' = Refs(i) \cup {t}
      /\ \A j \in Intr \ {i} : Refs(j)' = Refs(j)
  <2> USE ConstantsAssumption DEF CountInv, TypeOK, LocalsInv, Find, udata,
          Goto, Refs, CallRefs, UdataRefs, InCallById, Dropped, FreeWindow,
          ClearWindow
  <2>1. t \notin Refs(i)
    OBVIOUS
  <2>2. Refs(i)' = Refs(i) \cup {t}
    BY <2>1
  <2>3. ASSUME NEW j \in Intr \ {i} PROVE Refs(j)' = Refs(j)
    BY <2>1
  <2> QED
    BY <2>1, <2>2, <2>3
<1>2. /\ i \in bucket /\ pc[t] = "find"
      /\ alloc' = alloc /\ used' = [used EXCEPT ![i] = @ + 1]
  BY DEF Find
<1>3. RefTaken(i, t)
  BY <1>1, <1>2 DEF RefTaken, OtherRefsKept
<1> QED
  BY <1>3 DEF RefsStep

\* A userdata that mtint.interruptible fills in becomes a reference.
LEMMA OpenRefs ==
    ASSUME CountInv, NEW t \in Thread, Open(t)
    PROVE  RefsStep
<1> PICK i \in Intr, u \in Udata : i = obj[t] /\ u = cur[t]
  BY ConstantsAssumption DEF CountInv, TypeOK, LocalsInv, Open
<1>1. /\ home[u] = t
      /\ interruptible[u] = NULL /\ pc[t] = "open"
  BY ConstantsAssumption DEF CountInv, TypeOK, LocalsInv, Open
<1>2. /\ pc'[t] = "idle"
      /\ \A r \in Thread \ {t} : /\ pc'[r] = pc[r] /\ obj'[r] = obj[r]
                                 /\ cur'[r] = cur[r]
      /\ home' = home
      /\ interruptible' = [interruptible EXCEPT ![u] = i]
  BY DEF CountInv, TypeOK, Open, Return, Goto
<1>3. ASSUME NEW j \in Intr PROVE CallRefs(j)' = CallRefs(j)
  BY <1>1, <1>2 DEF CallRefs, InCallById
<1>4. ASSUME NEW v \in Udata PROVE Dropped(v)' = Dropped(v)
  BY <1>1, <1>2, ConstantsAssumption
     DEF CountInv, TypeOK, Dropped, FreeWindow, ClearWindow
<1>5. ~Dropped(u)
  BY <1>1 DEF Dropped, FreeWindow, ClearWindow
<1>6. u \notin Refs(i) /\ Refs(i)' = Refs(i) \cup {u}
  <2>1. UdataRefs(i)' = UdataRefs(i) \cup {u}
    BY <1>1, <1>2, <1>4, <1>5, ConstantsAssumption
       DEF UdataRefs, CountInv, TypeOK
  <2>2. u \notin Refs(i)
    BY <1>1, ConstantsAssumption DEF Refs, CallRefs, UdataRefs
  <2> QED
    BY <1>1, <1>3, <2>1, <2>2 DEF Refs
<1>7. ASSUME NEW j \in Intr \ {i} PROVE Refs(j)' = Refs(j)
  <2>1. UdataRefs(j)' = UdataRefs(j)
    BY <1>1, <1>2, <1>4, ConstantsAssumption DEF UdataRefs, CountInv, TypeOK
  <2> QED
    BY <1>3, <2>1 DEF Refs
<1>8. /\ i \in bucket
      /\ alloc' = alloc /\ used' = [used EXCEPT ![i] = @ + 1]
  BY DEF Open
<1>9. RefTaken(i, u)
  BY <1>1, <1>6, <1>7, <1>8 DEF RefTaken, OtherRefsKept
<1> QED
  BY <1>9 DEF RefsStep

\* A call by id gives its reference back.
LEMMA InterruptDecRefs ==
    ASSUME CountInv, NEW t \in Thread, InterruptDec(t)
    PROVE  RefsStep
<1> PICK i \in Intr : i = obj[t]
  BY DEF InterruptDec, Accessible
<1>1. cur[t] = NULL /\ InCallById(t)
  BY DEF CountInv, LocalsInv, InterruptDec, Accessible, InCallById
<1>2. /\ pc'[t] \in {"idle", "free_lock"} /\ cur'[t] = NULL
      /\ \A r \in Thread \ {t} : /\ pc'[r] = pc[r] /\ obj'[r] = obj[r]
                                 /\ cur'[r] = cur[r]
      /\ UNCHANGED <<home, interruptible>>
  BY <1>1 DEF CountInv, TypeOK, InterruptDec, Return, Goto, udata
<1>3. ASSUME NEW j \in Intr PROVE CallRefs(j)' = CallRefs(j) \ {t}
  BY <1>2 DEF CallRefs, InCallById
<1>4. ASSUME NEW j \in Intr PROVE UdataRefs(j)' = UdataRefs(j)
  BY <1>1, <1>2, ConstantsAssumption
     DEF UdataRefs, Dropped, FreeWindow, ClearWindow, CountInv, TypeOK
<1>5. /\ t \in Refs(i)
      /\ \A j \in Intr : t \notin UdataRefs(j)
      /\ \A j \in Intr \ {i} : t \notin CallRefs(j)
  BY <1>1, ConstantsAssumption DEF Refs, CallRefs, UdataRefs
<1>6. /\ Refs(i)' = Refs(i) \ {t}
      /\ \A j \in Intr \ {i} : Refs(j)' = Refs(j)
  BY <1>1, <1>3, <1>4, <1>5 DEF Refs
<1>7. /\ alloc[i] = "live"
      /\ alloc' = alloc /\ used' = [used EXCEPT ![i] = @ - 1]
  BY DEF InterruptDec, Accessible
<1>8. RefDropped(i, t)
  BY <1>5, <1>6, <1>7 DEF RefDropped, OtherRefsKept
<1> QED
  BY <1>8 DEF RefsStep

\* A release drops the reference of its userdata.
LEMMA ReleaseDecRefs ==
    ASSUME CountInv, NEW t \in Thread, ReleaseDec(t)
    PROVE  RefsStep
<1> PICK i \in Intr, u \in Udata : i = obj[t] /\ u = cur[t]
  BY ConstantsAssumption DEF CountInv, TypeOK, LocalsInv, ReleaseDec, Accessible
<1>1. /\ home[u] = t
      /\ interruptible[u] = i /\ pc[t] = "release_dec"
  BY ConstantsAssumption
     DEF CountInv, TypeOK, LocalsInv, ReleaseDec, Accessible
<1>2. /\ pc'[t] \in {"idle", "free_lock", "main_lock"}
      /\ \A r \in Thread \ {t} : /\ pc'[r] = pc[r] /\ obj'[r] = obj[r]
                                 /\ cur'[r] = cur[r]
      /\ home' = home
      /\ \/ /\ pc'[t] # "idle" /\ cur'[t] = u
            /\ interruptible' = interruptible
         \/ /\ pc'[t] = "idle"
            /\ interruptible' = [interruptible EXCEPT ![u] = NULL]
  BY DEF CountInv, TypeOK, ReleaseDec, Return, Goto, Forget
<1>3. ASSUME NEW j \in Intr PROVE CallRefs(j)' = CallRefs(j)
  BY <1>1, <1>2 DEF CallRefs, InCallById
<1>4. ASSUME NEW j \in Intr PROVE UdataRefs(j)' = UdataRefs(j) \ {u}
  <2>1. u \notin UdataRefs(j)'
    BY <1>1, <1>2, ConstantsAssumption
       DEF UdataRefs, Dropped, FreeWindow, ClearWindow, CountInv, TypeOK
  <2>2. ASSUME NEW v \in Udata \ {u}
        PROVE  /\ interruptible'[v] = interruptible[v]
               /\ Dropped(v)' <=> Dropped(v)
    BY <1>1, <1>2, ConstantsAssumption
       DEF Dropped, FreeWindow, ClearWindow, CountInv, TypeOK
  <2> QED
    BY <2>1, <2>2 DEF UdataRefs
<1>5. /\ u \in Refs(i)
      /\ \A j \in Intr : u \notin CallRefs(j)
      /\ \A j \in Intr \ {i} : u \notin UdataRefs(j)
  BY <1>1, ConstantsAssumption
     DEF Refs, CallRefs, UdataRefs, Dropped, FreeWindow, ClearWindow
<1>6. /\ Refs(i)' = Refs(i) \ {u}
      /\ \A j \in Intr \ {i} : Refs(j)' = Refs(j)
  BY <1>1, <1>3, <1>4, <1>5 DEF Refs
<1>7. /\ alloc[i] = "live"
      /\ alloc' = alloc /\ used' = [used EXCEPT ![i] = @ - 1]
  BY DEF ReleaseDec, Accessible
<1>8. RefDropped(i, u)
  BY <1>5, <1>6, <1>7 DEF RefDropped, OtherRefsKept
<1> QED
  BY <1>8 DEF RefsStep

\* Freeing a record leaves the references to the others alone.
LEMMA FreeRefs ==
    ASSUME CountInv, NEW t \in Thread, Free(t)
    PROVE  RefsStep
<1> PICK i \in Intr : i = obj[t]
  BY DEF Free, Accessible
<1>1. ASSUME NEW j \in Intr \ {i} PROVE Refs(j)' = Refs(j)
  BY <1>1, ConstantsAssumption DEF CountInv, TypeOK, LocalsInv, Free,
     Accessible, Forget, Return, Goto, Refs, CallRefs, UdataRefs, InCallById,
     Dropped, FreeWindow, ClearWindow
<1>2. /\ alloc[i] = "live" /\ FreeWindow(t)
      /\ alloc' = [alloc EXCEPT ![i] = "freed"] /\ used' = used
  BY DEF Free, Accessible, FreeWindow
<1>3. RefFreed(i)
  BY <1>1, <1>2 DEF RefFreed, OtherRefsKept
<1> QED
  BY <1>3 DEF RefsStep

\* Every step is of this kind.
LEMMA RefsOfStep == CountInv /\ [Next]_vars => RefsStep
<1> SUFFICES ASSUME CountInv, [Next]_vars PROVE RefsStep
  OBVIOUS
<1> TypeOK /\ LocalsInv /\ PointersInv
  BY DEF CountInv
<1> USE ConstantsAssumption DEF TypeOK, LocalsInv, PointersInv, Points,
        Touches, heap, udata, states, locals, Goto, Begin, Return, Refs,
        CallRefs, UdataRefs, InCallById, Dropped, FreeWindow, ClearWindow
<1>1. CASE UNCHANGED vars
  BY <1>1 DEF vars, RefsStep, RefsKept
<1>2. CASE Done
  BY <1>2 DEF Done, vars, RefsStep, RefsKept
<1>3. ASSUME NEW t \in Thread, Call(t) PROVE RefsStep
  <2>1. ASSUME NEW s \in LState, NEW u \in Udata, NEW i \in Intr,
               AssureCreated(t, s, u, i)
        PROVE RefsStep
    BY <2>1, AssureCreatedRefs
  <2>2. ASSUME NEW i \in Intr, InterruptById(t, i)
        PROVE RefsStep
    <3>1. ASSUME NEW j \in Intr PROVE Refs(j)' = Refs(j)
      BY <2>2 DEF InterruptById, RunsLua
    <3> QED
      BY <2>2, <3>1 DEF RefsStep, RefsKept, InterruptById
  <2>3. ASSUME NEW i \in Intr, NEW u \in Udata, OpenById(t, i, u)
        PROVE RefsStep
    <3>1. ASSUME NEW j \in Intr PROVE Refs(j)' = Refs(j)
      BY <2>3 DEF OpenById, RunsLua
    <3>2. alloc' = alloc /\ used' = used
      BY <2>3 DEF OpenById
    <3> HIDE DEF Refs
    <3> QED
      BY <3>1, <3>2 DEF RefsStep, RefsKept
  <2>4. ASSUME NEW u \in Udata, InterruptByUdata(t, u)
        PROVE RefsStep
    <3>1. ASSUME NEW j \in Intr PROVE Refs(j)' = Refs(j)
      BY <2>4 DEF InterruptByUdata, RunsLua, IsHandle
    <3> QED
      BY <2>4, <3>1 DEF RefsStep, RefsKept, InterruptByUdata
  <2>5. ASSUME NEW s \in LState, NEW u \in Udata, NEW i \in Intr,
               AssureFails(t, s, u, i)
        PROVE RefsStep
    BY <2>5, AssureFailsRefs
  <2> QED
    BY <1>3, <2>1, <2>2, <2>3, <2>4, <2>5 DEF Call
<1>4. ASSUME NEW t \in Thread, Continue(t) PROVE RefsStep
  <2>1. CASE LockGlobal(t, "register_lock", "register")
    <3>1. ASSUME NEW j \in Intr PROVE Refs(j)' = Refs(j)
      BY <2>1 DEF LockGlobal
    <3> QED
      BY <2>1, <3>1 DEF RefsStep, RefsKept, LockGlobal
  <2>2. CASE LockGlobal(t, "find_lock", "find")
    <3>1. ASSUME NEW j \in Intr PROVE Refs(j)' = Refs(j)
      BY <2>2 DEF LockGlobal
    <3> QED
      BY <2>2, <3>1 DEF RefsStep, RefsKept, LockGlobal
  <2>3. CASE LockGlobal(t, "open_lock", "open")
    <3>1. ASSUME NEW j \in Intr PROVE Refs(j)' = Refs(j)
      BY <2>3 DEF LockGlobal
    <3> QED
      BY <2>3, <3>1 DEF RefsStep, RefsKept, LockGlobal
  <2>4. CASE LockGlobal(t, "free_lock", "free")
    <3>1. ASSUME NEW j \in Intr PROVE Refs(j)' = Refs(j)
      BY <2>4 DEF LockGlobal
    <3> QED
      BY <2>4, <3>1 DEF RefsStep, RefsKept, LockGlobal
  <2>5. CASE LockIntr(t, "interrupt_lock", "interrupt_read")
    <3>1. ASSUME NEW j \in Intr PROVE Refs(j)' = Refs(j)
      BY <2>5 DEF LockIntr
    <3> QED
      BY <2>5, <3>1 DEF RefsStep, RefsKept, LockIntr
  <2>6. CASE LockIntr(t, "guard_lock", "guard_clear")
    <3>1. ASSUME NEW j \in Intr PROVE Refs(j)' = Refs(j)
      BY <2>6 DEF LockIntr
    <3> QED
      BY <2>6, <3>1 DEF RefsStep, RefsKept, LockIntr
  <2>7. CASE LockIntr(t, "main_lock", "main_clear")
    <3>1. ASSUME NEW j \in Intr PROVE Refs(j)' = Refs(j)
      BY <2>7 DEF LockIntr
    <3> QED
      BY <2>7, <3>1 DEF RefsStep, RefsKept, LockIntr
  <2>8. CASE Register(t)
    <3>1. ASSUME NEW j \in Intr PROVE Refs(j)' = Refs(j)
      BY <2>8 DEF Register, Accessible
    <3> QED
      BY <2>8, <3>1 DEF RefsStep, RefsKept, Register
  <2>9. CASE RegisterOutOfMemory(t)
    <3>1. ASSUME NEW j \in Intr PROVE Refs(j)' = Refs(j)
      BY <2>9 DEF RegisterOutOfMemory
    <3> QED
      BY <2>9, <3>1 DEF RefsStep, RefsKept, RegisterOutOfMemory
  <2>10. CASE FindFails(t)
    <3>1. ASSUME NEW j \in Intr PROVE Refs(j)' = Refs(j)
      BY <2>10 DEF FindFails
    <3> QED
      BY <2>10, <3>1 DEF RefsStep, RefsKept, FindFails
  <2>11. CASE Find(t)
    BY <2>11, FindRefs
  <2>12. CASE Open(t)
    BY <2>12, OpenRefs
  <2>13. CASE ReadL2(t)
    <3>1. ASSUME NEW j \in Intr PROVE Refs(j)' = Refs(j)
      BY <2>13 DEF ReadL2
    <3>2. alloc' = alloc /\ used' = used
      BY <2>13 DEF ReadL2
    <3> HIDE DEF Refs
    <3> QED
      BY <3>1, <3>2 DEF RefsStep, RefsKept
  <2>14. CASE SetHook(t)
    <3>1. ASSUME NEW j \in Intr PROVE Refs(j)' = Refs(j)
      BY <2>14 DEF SetHook
    <3> QED
      BY <2>14, <3>1 DEF RefsStep, RefsKept, SetHook
  <2>15. CASE UnlockIntr(t)
    <3>1. ASSUME NEW j \in Intr PROVE Refs(j)' = Refs(j)
      BY <2>15 DEF UnlockIntr
    <3> QED
      BY <2>15, <3>1 DEF RefsStep, RefsKept, UnlockIntr
  <2>16. CASE InterruptDec(t)
    BY <2>16, InterruptDecRefs
  <2>17. CASE GuardClear(t)
    <3>1. ASSUME NEW j \in Intr PROVE Refs(j)' = Refs(j)
      BY <2>17 DEF GuardClear
    <3> QED
      BY <2>17, <3>1 DEF RefsStep, RefsKept, GuardClear
  <2>18. CASE ReleaseDec(t)
    BY <2>18, ReleaseDecRefs
  <2>19. CASE MainClear(t)
    <3>1. ASSUME NEW j \in Intr PROVE Refs(j)' = Refs(j)
      BY <2>19 DEF MainClear, Forget
    <3> QED
      BY <2>19, <3>1 DEF RefsStep, RefsKept, MainClear
  <2>20. CASE Free(t)
    BY <2>20, FreeRefs
  <2> QED
    BY <1>4, <2>1, <2>2, <2>3, <2>4, <2>5, <2>6, <2>7, <2>8, <2>9,
       <2>10, <2>11, <2>12, <2>13, <2>14, <2>15, <2>16, <2>17, <2>18, <2>19,
       <2>20 DEF Continue
<1>5. ASSUME NEW t \in Thread, Finalize(t) PROVE RefsStep
  <2>1. ASSUME NEW u \in Udata, GuardRelease(t, u)
        PROVE RefsStep
    <3>1. ASSUME NEW j \in Intr PROVE Refs(j)' = Refs(j)
      BY <2>1 DEF GuardRelease
    <3> QED
      BY <2>1, <3>1 DEF RefsStep, RefsKept, GuardRelease
  <2>2. ASSUME NEW u \in Udata, Release(t, u)
        PROVE RefsStep
    <3>1. ASSUME NEW j \in Intr PROVE Refs(j)' = Refs(j)
      BY <2>2 DEF Release
    <3> QED
      BY <2>2, <3>1 DEF RefsStep, RefsKept, Release
  <2> QED
    BY <1>5, <2>1, <2>2 DEF Finalize
<1>6. ASSUME NEW t \in Thread, Universe(t) PROVE RefsStep
  <2>1. ASSUME NEW s \in LState, NewCoroutine(t, s)
        PROVE RefsStep
    <3>1. ASSUME NEW j \in Intr PROVE Refs(j)' = Refs(j)
      BY <2>1 DEF NewCoroutine
    <3> QED
      BY <2>1, <3>1 DEF RefsStep, RefsKept, NewCoroutine
  <2>2. ASSUME NEW s \in LState, CollectCoroutine(t, s)
        PROVE RefsStep
    <3>1. ASSUME NEW j \in Intr PROVE Refs(j)' = Refs(j)
      BY <2>2 DEF CollectCoroutine, Queue
    <3> QED
      BY <2>2, <3>1 DEF RefsStep, RefsKept, CollectCoroutine
  <2>3. ASSUME NEW s \in LState, Resurrect(t, s)
        PROVE RefsStep
    <3>1. ASSUME NEW j \in Intr PROVE Refs(j)' = Refs(j)
      BY <2>3 DEF Resurrect
    <3> QED
      BY <2>3, <3>1 DEF RefsStep, RefsKept, Resurrect
  <2>4. ASSUME NEW s \in LState, FreeCoroutine(t, s)
        PROVE RefsStep
    <3>1. ASSUME NEW j \in Intr PROVE Refs(j)' = Refs(j)
      BY <2>4 DEF FreeCoroutine
    <3> QED
      BY <2>4, <3>1 DEF RefsStep, RefsKept, FreeCoroutine
  <2>5. ASSUME NEW u \in Udata, CollectUdata(t, u)
        PROVE RefsStep
    <3>1. ASSUME NEW j \in Intr PROVE Refs(j)' = Refs(j)
      BY <2>5 DEF CollectUdata, IsAnchored, Queue, RunsLua
    <3> QED
      BY <2>5, <3>1 DEF RefsStep, RefsKept, CollectUdata
  <2>6. CASE CloseUniverse(t)
    <3>1. ASSUME NEW j \in Intr PROVE Refs(j)' = Refs(j)
      BY <2>6 DEF CloseUniverse, Queue, RunsLua
    <3> QED
      BY <2>6, <3>1 DEF RefsStep, RefsKept, CloseUniverse
  <2> QED
    BY <1>6, <2>1, <2>2, <2>3, <2>4, <2>5, <2>6 DEF Universe
<1>7. ASSUME NEW t \in Thread, Closed(t) PROVE RefsStep
  <2>1. ASSUME NEW j \in Intr PROVE Refs(j)' = Refs(j)
    BY <1>7 DEF Closed
  <2> QED
    BY <1>7, <2>1 DEF RefsStep, RefsKept, Closed
<1> QED
  BY <1>1, <1>2, <1>3, <1>4, <1>5, <1>6, <1>7 DEF Next, Step

\* Every step keeps the counters right.
LEMMA CountStep == CountInv /\ [Next]_vars => UsedCountsRefs'
  BY RefsOfStep, RefsStepCounts DEF CountInv

\* At the beginning there is nothing to count.
LEMMA CountInit == Init => CountInv
  BY ConstantsAssumption
     DEF Init, CountInv, TypeOK, Points, LocalsInv, PointersInv, UsedCountsRefs

\* In every behaviour the counter of a live record is the number of userdata
\* that point to it and of calls by id that work on it.
THEOREM CounterCorrect == Spec => []UsedCountsRefs
<1>1. Init => CountInv
  BY CountInit
<1>2. CountInv /\ [Next]_vars => CountInv'
  BY TypeStep, ShapeStep, CountStep DEF CountInv
<1>3. CountInv => UsedCountsRefs
  BY DEF CountInv
<1> QED
  BY <1>1, <1>2, <1>3, PTL DEF Spec

----------------------------------------------------------------------------
(* Memory safety outside the two windows.                                  *)

\* Userdata, calls by id and the table lead to live records only, and the
\* thread that is to free a record is the only one and the last user.
LiveInv ==
    /\ \A u \in Udata :
          interruptible[u] # NULL => alloc[interruptible[u]] = "live"
    /\ \A i \in bucket : alloc[i] = "live"
    /\ \A t \in Thread : InCallById(t) => alloc[obj[t]] = "live"
    /\ \A t \in Thread : FreeWindow(t) =>
          /\ alloc[obj[t]] = "live" /\ used[obj[t]] = 0
          /\ \A r \in Thread \ {t} : FreeWindow(r) => obj[r] # obj[t]

\* The inductive invariant of SerialSpec.
SerialInv == CountInv /\ WindowsRespected /\ LiveInv

\* A live record whose counter is 0 has no references, and conversely.
LEMMA ZeroIsUnreferenced ==
    ASSUME CountInv, NEW i \in Intr, alloc[i] = "live"
    PROVE  used[i] = 0 <=> Refs(i) = {}
<1>1. used[i] = Cardinality(Refs(i))
  BY DEF CountInv, UsedCountsRefs
<1> QED
  BY <1>1, RefsFinite, FS_EmptySet

\* A call that gives its reference back does not disturb a thread that frees.
LEMMA InterruptDecLive ==
    ASSUME SerialInv, NEW t \in Thread, InterruptDec(t)
    PROVE  LiveInv'
<1> PICK i \in Intr : i = obj[t]
  BY DEF InterruptDec, Accessible
<1>1. used[i] # 0
  <2>1. t \in Refs(i)
    BY DEF SerialInv, CountInv, LocalsInv, InterruptDec, InCallById, Refs,
       CallRefs
  <2> QED
    BY <2>1, ZeroIsUnreferenced DEF SerialInv, InterruptDec, Accessible
<1> QED
  BY <1>1, ConstantsAssumption
     DEF SerialInv, CountInv, TypeOK, LiveInv, InterruptDec, Accessible,
         Return, Goto, InCallById, FreeWindow, udata

\* Nor does a release.
LEMMA ReleaseDecLive ==
    ASSUME SerialInv, NEW t \in Thread, ReleaseDec(t)
    PROVE  LiveInv'
<1> PICK i \in Intr : i = obj[t]
  BY DEF ReleaseDec, Accessible
<1>1. used[i] # 0
  <2>1. cur[t] \in Refs(i)
    BY ConstantsAssumption
       DEF SerialInv, CountInv, TypeOK, LocalsInv, ReleaseDec, Refs,
           UdataRefs, Dropped, FreeWindow, ClearWindow
  <2> QED
    BY <2>1, ZeroIsUnreferenced DEF SerialInv, ReleaseDec, Accessible
<1> QED
  BY <1>1, ConstantsAssumption
     DEF SerialInv, CountInv, TypeOK, LiveInv, ReleaseDec, Accessible, Forget,
         Return, Goto, InCallById, FreeWindow

\* The record that is freed has no user but the thread that frees it.
LEMMA FreeLive ==
    ASSUME SerialInv, NEW t \in Thread, Free(t)
    PROVE  LiveInv'
<1> PICK i \in Intr : i = obj[t]
  BY DEF Free, Accessible
<1>1. Refs(i) = {}
  BY ZeroIsUnreferenced
     DEF SerialInv, LiveInv, Free, Accessible, FreeWindow
<1>2. \A r \in Thread : InCallById(r) => obj[r] # i
  BY <1>1 DEF Refs, CallRefs
<1>3. \A u \in Udata : interruptible[u] = i => cur[t] = u
  <2> SUFFICES ASSUME NEW u \in Udata, interruptible[u] = i PROVE cur[t] = u
    OBVIOUS
  <2>1. Dropped(u)
    BY <1>1 DEF Refs, UdataRefs
  <2>2. PICK r \in Thread :
            cur[r] = u /\ obj[r] = i /\ (FreeWindow(r) \/ ClearWindow(r))
    BY <2>1, ConstantsAssumption
       DEF Dropped, SerialInv, CountInv, TypeOK, LocalsInv, FreeWindow,
           ClearWindow
  <2>3. ~ClearWindow(r)
    BY <2>2 DEF SerialInv, WindowsRespected, LiveInv, Free, FreeWindow
  <2> QED
    BY <2>2, <2>3 DEF SerialInv, LiveInv, Free, FreeWindow
<1>4. ASSUME NEW u \in Udata, interruptible'[u] # NULL
      PROVE  alloc'[interruptible'[u]] = "live"
  <2>1. interruptible'[u] = interruptible[u] /\ interruptible[u] # i
    BY <1>3, <1>4, ConstantsAssumption
       DEF Free, Forget, SerialInv, CountInv, TypeOK
  <2> QED
    BY <1>4, <2>1 DEF Free, SerialInv, CountInv, TypeOK, LiveInv
<1>5. ASSUME NEW r \in Thread, InCallById(r)' \/ FreeWindow(r)'
      PROVE  /\ r # t /\ obj'[r] # i /\ obj'[r] = obj[r]
             /\ alloc'[obj[r]] = alloc[obj[r]]
  BY <1>2, <1>5, ConstantsAssumption
     DEF Free, Return, Goto, SerialInv, CountInv, TypeOK, LiveInv, InCallById,
         FreeWindow
<1> QED
  BY <1>4, <1>5, ConstantsAssumption
     DEF Free, Return, Goto, SerialInv, CountInv, TypeOK, LiveInv, InCallById,
         FreeWindow

\* Every step outside the two windows keeps the invariant.
LEMMA LiveStep == SerialInv /\ [Next]_vars => LiveInv'
<1> SUFFICES ASSUME SerialInv, [Next]_vars PROVE LiveInv'
  OBVIOUS
<1> TypeOK /\ LocalsInv /\ PointersInv /\ WindowsRespected /\ LiveInv
  BY DEF SerialInv, CountInv
<1> USE ConstantsAssumption DEF TypeOK, LocalsInv, PointersInv, LiveInv,
        WindowsRespected, Points, Touches, heap, udata, states, locals, Goto,
        Begin, Return, InCallById, FreeWindow, ClearWindow
<1>1. CASE UNCHANGED vars
  BY <1>1 DEF vars
<1>2. CASE Done
  BY <1>2 DEF Done, vars
<1>3. ASSUME NEW t \in Thread, Call(t) PROVE LiveInv'
  <2>1. ASSUME NEW s \in LState, NEW u \in Udata, NEW i \in Intr,
               AssureCreated(t, s, u, i)
        PROVE LiveInv'
    BY <2>1 DEF AssureCreated, CreateRecord, InitLock, SetupGuard, RunsLua
  <2>2. ASSUME NEW i \in Intr, InterruptById(t, i)
        PROVE LiveInv'
    BY <2>2 DEF InterruptById, RunsLua
  <2>3. ASSUME NEW i \in Intr, NEW u \in Udata, OpenById(t, i, u)
        PROVE LiveInv'
    BY <2>3 DEF OpenById, RunsLua
  <2>4. ASSUME NEW u \in Udata, InterruptByUdata(t, u)
        PROVE LiveInv'
    BY <2>4 DEF InterruptByUdata, RunsLua, IsHandle
  <2>5. ASSUME NEW s \in LState, NEW u \in Udata, NEW i \in Intr,
               AssureFails(t, s, u, i)
        PROVE LiveInv'
    BY <2>5 DEF AssureFails, CreateRecord, InitLock, RunsLua
  <2> QED
    BY <1>3, <2>1, <2>2, <2>3, <2>4, <2>5 DEF Call
<1>4. ASSUME NEW t \in Thread, Continue(t) PROVE LiveInv'
  <2>1. CASE LockGlobal(t, "register_lock", "register")
    BY <2>1 DEF LockGlobal
  <2>2. CASE LockGlobal(t, "find_lock", "find")
    BY <2>2 DEF LockGlobal
  <2>3. CASE LockGlobal(t, "open_lock", "open")
    BY <2>3 DEF LockGlobal
  <2>4. CASE LockGlobal(t, "free_lock", "free")
    BY <2>4 DEF LockGlobal
  <2>5. CASE LockIntr(t, "interrupt_lock", "interrupt_read")
    BY <2>5 DEF LockIntr
  <2>6. CASE LockIntr(t, "guard_lock", "guard_clear")
    BY <2>6 DEF LockIntr
  <2>7. CASE LockIntr(t, "main_lock", "main_clear")
    BY <2>7 DEF LockIntr
  <2>8. CASE Register(t)
    BY <2>8 DEF Register, Accessible
  <2>9. CASE RegisterOutOfMemory(t)
    BY <2>9 DEF RegisterOutOfMemory
  <2>10. CASE FindFails(t)
    BY <2>10 DEF FindFails
  <2>11. CASE Find(t)
    BY <2>11 DEF Find
  <2>12. CASE Open(t)
    BY <2>12 DEF Open
  <2>13. CASE ReadL2(t)
    BY <2>13 DEF ReadL2
  <2>14. CASE SetHook(t)
    BY <2>14 DEF SetHook
  <2>15. CASE UnlockIntr(t)
    BY <2>15 DEF UnlockIntr
  <2>16. CASE InterruptDec(t)
    BY <2>16, InterruptDecLive
  <2>17. CASE GuardClear(t)
    BY <2>17 DEF GuardClear
  <2>18. CASE ReleaseDec(t)
    BY <2>18, ReleaseDecLive
  <2>19. CASE MainClear(t)
    BY <2>19 DEF MainClear, Forget
  <2>20. CASE Free(t)
    BY <2>20, FreeLive
  <2> QED
    BY <1>4, <2>1, <2>2, <2>3, <2>4, <2>5, <2>6, <2>7, <2>8, <2>9,
       <2>10, <2>11, <2>12, <2>13, <2>14, <2>15, <2>16, <2>17, <2>18, <2>19,
       <2>20 DEF Continue
<1>5. ASSUME NEW t \in Thread, Finalize(t) PROVE LiveInv'
  <2>1. ASSUME NEW u \in Udata, GuardRelease(t, u)
        PROVE LiveInv'
    BY <2>1 DEF GuardRelease
  <2>2. ASSUME NEW u \in Udata, Release(t, u)
        PROVE LiveInv'
    BY <2>2 DEF Release
  <2> QED
    BY <1>5, <2>1, <2>2 DEF Finalize
<1>6. ASSUME NEW t \in Thread, Universe(t) PROVE LiveInv'
  <2>1. ASSUME NEW s \in LState, NewCoroutine(t, s)
        PROVE LiveInv'
    BY <2>1 DEF NewCoroutine
  <2>2. ASSUME NEW s \in LState, CollectCoroutine(t, s)
        PROVE LiveInv'
    BY <2>2 DEF CollectCoroutine, Queue
  <2>3. ASSUME NEW s \in LState, Resurrect(t, s)
        PROVE LiveInv'
    BY <2>3 DEF Resurrect
  <2>4. ASSUME NEW s \in LState, FreeCoroutine(t, s)
        PROVE LiveInv'
    BY <2>4 DEF FreeCoroutine
  <2>5. ASSUME NEW u \in Udata, CollectUdata(t, u)
        PROVE LiveInv'
    BY <2>5 DEF CollectUdata, IsAnchored, Queue, RunsLua
  <2>6. CASE CloseUniverse(t)
    BY <2>6 DEF CloseUniverse, Queue, RunsLua
  <2> QED
    BY <1>6, <2>1, <2>2, <2>3, <2>4, <2>5, <2>6 DEF Universe
<1>7. ASSUME NEW t \in Thread, Closed(t) PROVE LiveInv'
  BY <1>7 DEF Closed
<1> QED
  BY <1>1, <1>2, <1>3, <1>4, <1>5, <1>6, <1>7 DEF Next, Step

\* SerialInv is an invariant of SerialSpec.
LEMMA SerialInvariant == SerialSpec => []SerialInv
<1>1. Init => SerialInv
  BY ConstantsAssumption
     DEF Init, SerialInv, CountInv, TypeOK, Points, LocalsInv, PointersInv,
         UsedCountsRefs, WindowsRespected, LiveInv, InCallById, FreeWindow,
         ClearWindow
<1>2. SerialInv /\ [SerialNext]_vars => SerialInv'
  <2> SUFFICES ASSUME SerialInv, [SerialNext]_vars PROVE SerialInv'
    OBVIOUS
  <2>1. [Next]_vars
    BY DEF SerialNext
  <2>2. WindowsRespected'
    <3>1. CASE UNCHANGED vars
      BY <3>1 DEF vars, heap, locals, SerialInv, WindowsRespected, FreeWindow,
         ClearWindow
    <3> QED
      BY <3>1 DEF SerialNext
  <2> QED
    BY <2>1, <2>2, TypeStep, ShapeStep, CountStep, LiveStep
       DEF SerialInv, CountInv
<1> QED
  BY <1>1, <1>2, PTL DEF SerialSpec

\* What holds of Spec holds of SerialSpec.
LEMMA SerialIsSpec == SerialSpec => Spec
<1>1. [SerialNext]_vars => [Next]_vars
  BY DEF SerialNext
<1> QED
  BY <1>1, PTL DEF SerialSpec, Spec

\* Kept out of the two windows, no C function touches a record that has been
\* freed, and none frees a record twice.
THEOREM MemorySafe == SerialSpec => []NoUseAfterFree
<1>1. SerialInv => NoUseAfterFree
  <2> SUFFICES ASSUME SerialInv, NEW t \in Thread, pc[t] \in Touches
               PROVE  Accessible(t)
    BY DEF NoUseAfterFree
  <2>1. obj[t] \in Intr
    BY DEF SerialInv, CountInv, TypeOK, Touches
  <2>2. CASE cur[t] # NULL
    BY <2>1, <2>2, ConstantsAssumption
       DEF SerialInv, CountInv, TypeOK, LocalsInv, LiveInv, Touches, Accessible
  <2>3. CASE cur[t] = NULL
    BY <2>1, <2>3
       DEF SerialInv, CountInv, LocalsInv, LiveInv, Touches, Accessible,
           InCallById, FreeWindow
  <2> QED
    BY <2>2, <2>3
<1> QED
  BY <1>1, SerialInvariant, PTL

\* Kept out of the two windows, a userdata that was not finalized never points
\* to a freed record, so that methods and mtint.id may follow the pointer.
THEOREM UdataSafe == SerialSpec => []UdataPointsToLive
<1>1. SerialInv => UdataPointsToLive
  BY DEF SerialInv, LiveInv, UdataPointsToLive
<1> QED
  BY <1>1, SerialInvariant, PTL
=============================================================================
