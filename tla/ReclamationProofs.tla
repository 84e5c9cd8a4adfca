------------------------- MODULE ReclamationProofs --------------------------
(***************************************************************************)
(* Theorems about the end of a record: the thread that sees the counter    *)
(* come to zero is on its way to MtInterruptible_free, so no record is     *)
(* left behind; and the reference counts implement module Reclamation.     *)
(***************************************************************************)
EXTENDS InterruptibleProofs

----------------------------------------------------------------------------
(* No record is left behind.                                               *)

\* Some thread is on its way to free a live record whose counter is 0.
FreeingInv ==
    \A i \in Intr : alloc[i] = "live" /\ used[i] = 0 =>
        \E t \in Thread : obj[t] = i /\ FreeWindow(t)

\* The counter of a live record is never negative.
LEMMA UsedIsNat ==
    ASSUME CountInv, NEW i \in Intr, alloc[i] = "live"
    PROVE  used[i] \in Nat
<1>1. Cardinality(Refs(i)) \in Nat
  BY RefsFinite, FS_CardinalityType
<1> QED
  BY <1>1 DEF CountInv, UsedCountsRefs

\* Every step keeps FreeingInv: the two decrements go on to free when they take
\* the last reference.
LEMMA FreeingStep == CountInv /\ FreeingInv /\ [Next]_vars => FreeingInv'
<1> SUFFICES ASSUME CountInv, FreeingInv, [Next]_vars PROVE FreeingInv'
  OBVIOUS
<1> TypeOK /\ LocalsInv /\ PointersInv
  BY DEF CountInv
<1> USE ConstantsAssumption DEF FreeingInv, FreeWindow,
        TypeOK,
        Points, Touches, heap, udata, states, locals, Goto, Begin, Return
<1>1. CASE UNCHANGED vars
  BY <1>1 DEF vars
<1>2. CASE Done
  BY <1>2 DEF Done, vars
<1>3. ASSUME NEW t \in Thread, Call(t) PROVE FreeingInv'
  <2>1. ASSUME NEW s \in LState, NEW u \in Udata,
               NEW i \in Intr, AssureCreated(t, s, u, i)
        PROVE  FreeingInv'
    BY <2>1 DEF AssureCreated, CreateRecord, InitLock, SetupGuard, RunsLua,
       HasRecord
  <2>2. ASSUME NEW i \in Intr, InterruptById(t, i) PROVE FreeingInv'
    BY <2>2 DEF InterruptById, RunsLua
  <2>3. ASSUME NEW i \in Intr, NEW u \in Udata,
               OpenById(t, i, u)
        PROVE  FreeingInv'
    BY <2>3 DEF OpenById, RunsLua
  <2>4. ASSUME NEW u \in Udata, InterruptByUdata(t, u) PROVE FreeingInv'
    BY <2>4 DEF InterruptByUdata, RunsLua, IsHandle
  <2>5. ASSUME NEW s \in LState, NEW u \in Udata,
               NEW i \in Intr, AssureFails(t, s, u, i)
        PROVE  FreeingInv'
    BY <2>5 DEF AssureFails, CreateRecord, InitLock, RunsLua
  <2> QED
    BY <1>3, <2>1, <2>2, <2>3, <2>4, <2>5 DEF Call
<1>4. ASSUME NEW t \in Thread, Continue(t) PROVE FreeingInv'
  <2>1. CASE LockGlobal(t, "register_lock", "register")
    BY <2>1 DEF LockGlobal
  <2>2. CASE LockGlobal(t, "find_lock", "find")
    BY <2>2 DEF LockGlobal
  <2>3. CASE LockGlobal(t, "open_lock", "open")
    BY <2>3 DEF LockGlobal
  <2>4. CASE LockGlobal(t, "free_lock", "free")
    BY <2>4 DEF LockGlobal
  <2>5. CASE LockIntr(t, "interrupt_lock", "interrupt_read")
    BY <2>5 DEF LockIntr
  <2>6. CASE LockIntr(t, "guard_lock", "guard_clear")
    BY <2>6 DEF LockIntr
  <2>7. CASE LockIntr(t, "main_lock", "main_clear")
    BY <2>7 DEF LockIntr
  <2>8. CASE Register(t)
    BY <2>8 DEF Register
  <2>9. CASE RegisterOutOfMemory(t)
    BY <2>9 DEF RegisterOutOfMemory
  <2>10. CASE FindFails(t)
    BY <2>10 DEF FindFails
  <2>11. CASE Find(t)
    <3>1. ASSUME NEW i \in Intr, alloc[i] = "live", used'[i] = 0
          PROVE  used[i] = 0
      BY <2>11, <3>1, UsedIsNat DEF Find
    <3>2. ASSUME NEW r \in Thread, FreeWindow(r)
          PROVE  FreeWindow(r)' /\ obj'[r] = obj[r]
      BY <2>11, <3>2 DEF Find
    <3>3. UNCHANGED alloc
      BY <2>11 DEF Find
    <3> QED
      BY <3>1, <3>2, <3>3
  <2>12. CASE Open(t)
    <3>1. ASSUME NEW i \in Intr, alloc[i] = "live", used'[i] = 0
          PROVE  used[i] = 0
      BY <2>12, <3>1, UsedIsNat DEF Open
    <3>2. ASSUME NEW r \in Thread, FreeWindow(r)
          PROVE  FreeWindow(r)' /\ obj'[r] = obj[r]
      BY <2>12, <3>2 DEF Open
    <3>3. UNCHANGED alloc
      BY <2>12 DEF Open
    <3> QED
      BY <3>1, <3>2, <3>3
  <2>13. CASE ReadL2(t)
    BY <2>13 DEF ReadL2
  <2>14. CASE SetHook(t)
    BY <2>14 DEF SetHook
  <2>15. CASE UnlockIntr(t)
    BY <2>15 DEF UnlockIntr
  <2>16. CASE InterruptDec(t)
    <3>1. obj[t] \in Intr /\ used[obj[t]] \in Nat
      BY <2>16, UsedIsNat DEF InterruptDec, Accessible
    <3> QED
      BY <2>16, <3>1 DEF InterruptDec
  <2>17. CASE GuardClear(t)
    BY <2>17 DEF GuardClear
  <2>18. CASE ReleaseDec(t)
    <3>1. obj[t] \in Intr /\ used[obj[t]] \in Nat
      BY <2>18, UsedIsNat DEF ReleaseDec, Accessible
    <3> QED
      BY <2>18, <3>1 DEF ReleaseDec
  <2>19. CASE MainClear(t)
    BY <2>19 DEF MainClear, Forget
  <2>20. CASE Free(t)
    BY <2>20 DEF Free, Forget
  <2> QED
    BY <1>4, <2>1, <2>2, <2>3, <2>4, <2>5, <2>6, <2>7, <2>8, <2>9, <2>10,
       <2>11, <2>12, <2>13, <2>14, <2>15, <2>16, <2>17, <2>18, <2>19, <2>20
       DEF Continue
<1>5. ASSUME NEW t \in Thread, Finalize(t) PROVE FreeingInv'
  <2>1. ASSUME NEW u \in Udata, GuardRelease(t, u) PROVE FreeingInv'
    BY <2>1 DEF GuardRelease
  <2>2. ASSUME NEW u \in Udata, Release(t, u) PROVE FreeingInv'
    BY <2>2 DEF Release
  <2> QED
    BY <1>5, <2>1, <2>2 DEF Finalize
<1>6. ASSUME NEW t \in Thread, Universe(t) PROVE FreeingInv'
  <2>1. ASSUME NEW s \in LState, NewCoroutine(t, s) PROVE FreeingInv'
    BY <2>1 DEF NewCoroutine, RunsLua
  <2>2. ASSUME NEW s \in LState, CollectCoroutine(t, s) PROVE FreeingInv'
    BY <2>2 DEF CollectCoroutine, Queue, RunsLua
  <2>3. ASSUME NEW s \in LState, Resurrect(t, s) PROVE FreeingInv'
    BY <2>3 DEF Resurrect, RunsLua
  <2>4. ASSUME NEW s \in LState, FreeCoroutine(t, s) PROVE FreeingInv'
    BY <2>4 DEF FreeCoroutine, RunsLua
  <2>5. ASSUME NEW u \in Udata, CollectUdata(t, u) PROVE FreeingInv'
    BY <2>5 DEF CollectUdata, IsAnchored, Queue, RunsLua
  <2>6. CASE CloseUniverse(t)
    BY <2>6 DEF CloseUniverse, Queue, RunsLua
  <2> QED
    BY <1>6, <2>1, <2>2, <2>3, <2>4, <2>5, <2>6 DEF Universe
<1>7. ASSUME NEW t \in Thread, Closed(t) PROVE FreeingInv'
  BY <1>7 DEF Closed
<1> QED
  BY <1>1, <1>2, <1>3, <1>4, <1>5, <1>6, <1>7 DEF Next, Step

\* FreeingInv is an invariant.
LEMMA FreeingInvariant == Spec => [](CountInv /\ FreeingInv)
<1>1. Init => CountInv /\ FreeingInv
  <2>1. Init => CountInv
    BY CountInit
  <2> QED
    BY <2>1 DEF Init, FreeingInv
<1>2. CountInv /\ FreeingInv /\ [Next]_vars => (CountInv /\ FreeingInv)'
  BY TypeStep, ShapeStep, CountStep, FreeingStep DEF CountInv
<1> QED
  BY <1>1, <1>2, PTL DEF Spec

\* No record leaks, however increments and decrements interleave: one that
\* nobody refers to is about to be freed.
THEOREM NothingLeaks == Spec => []UnreferencedIsBeingFreed
<1>1. CountInv /\ FreeingInv => UnreferencedIsBeingFreed
  BY ZeroIsUnreferenced DEF FreeingInv, UnreferencedIsBeingFreed
<1> QED
  BY <1>1, FreeingInvariant, PTL

----------------------------------------------------------------------------
(* The refinement of Reclamation.                                          *)

\* At the beginning no record has a holder.
LEMMA ReclamationInit == Init => RC!Init
  BY DEF Init, RC!Init, Holders

\* Every step that respects the windows is a step of Reclamation, or leaves the
\* records and their references alone.
LEMMA ReclamationStep ==
    ASSUME SerialInv, FreeingInv, [Next]_vars
    PROVE  [RC!Next]_(RC!vars)
<1> USE DEF RefsKept, OtherRefsKept, Holders
<1> TypeOK
  BY DEF SerialInv, CountInv
<1>1. RefsStep
  BY RefsOfStep DEF SerialInv
<1>2. CASE RefsKept
  BY <1>2 DEF RC!vars
<1>3. ASSUME NEW i \in Intr, RefFreed(i) PROVE RC!Free(i)
  <2>1. used[i] = 0 /\ Refs(i) = {}
    BY <1>3, ZeroIsUnreferenced DEF RefFreed, SerialInv, LiveInv
  <2>2. Holders' = Holders
    BY <1>3, <2>1 DEF RefFreed, TypeOK
  <2> QED
    BY <1>3, <2>1, <2>2 DEF RC!Free, RefFreed
<1>4. ASSUME NEW i \in Intr, NEW x \in Thread \cup Udata, RefCreated(i, x)
      PROVE  RC!Create(i, x)
  <2>1. /\ alloc[i] = "none" /\ Refs(i)' = {x}
        /\ alloc' = [alloc EXCEPT ![i] = "live"]
    BY <1>4 DEF RefCreated
  <2>2. alloc \in [Intr -> {"none", "live", "freed"}]
    BY DEF TypeOK
  <2>3. Holders' = [Holders EXCEPT ![i] = {x}]
    BY <1>4, <2>1, <2>2 DEF RefCreated
  <2> QED
    BY <2>1, <2>3 DEF RC!Create
<1>5. ASSUME NEW i \in Intr, NEW x \in Thread \cup Udata, RefTaken(i, x)
      PROVE  RC!Join(i, x)
  <2>1. alloc[i] = "live"
    <3>1. i \in bucket
      BY <1>5 DEF RefTaken
    <3> QED
      BY <3>1 DEF SerialInv, LiveInv
  <2>2. Refs(i) # {}
    <3>1. \A t \in Thread : obj[t] = i => ~FreeWindow(t)
      BY <1>5 DEF RefTaken, SerialInv, WindowsRespected
    <3> QED
      BY <2>1, <3>1, ZeroIsUnreferenced DEF SerialInv, FreeingInv
  <2> QED
    BY <1>5, <2>1, <2>2 DEF RC!Join, RefTaken
<1>6. ASSUME NEW i \in Intr, NEW x \in Thread \cup Udata, RefDropped(i, x)
      PROVE  RC!Leave(i, x)
  BY <1>6 DEF RC!Leave, RefDropped
<1> QED
  BY <1>1, <1>2, <1>3, <1>4, <1>5, <1>6 DEF RefsStep, RC!Next

\* Kept out of the two windows, the calls by id and the userdata hold their
\* record as Reclamation says: nobody joins a record that has lost its last
\* holder, and it is freed once, when it has none.
THEOREM Reclaimed == SerialSpec => ImplementsReclamation
<1>1. SerialInv /\ FreeingInv /\ [SerialNext]_vars => [RC!Next]_(RC!vars)
  BY ReclamationStep DEF SerialNext
<1> QED
  BY <1>1, ReclamationInit, SerialIsSpec, SerialInvariant, FreeingInvariant, PTL
     DEF SerialSpec, ImplementsReclamation, RC!Spec
=============================================================================
