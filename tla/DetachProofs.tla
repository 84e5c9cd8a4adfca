---------------------------- MODULE DetachProofs ----------------------------
(***************************************************************************)
(* Theorems about the finalizers of a Lua universe: the pointer L2 of a    *)
(* record is cleared, or the record freed, before Lua frees the state that *)
(* it points to.                                                           *)
(***************************************************************************)
EXTENDS LockProofs

----------------------------------------------------------------------------
(* Userdata and guards.                                                    *)

\* MtInterruptible_release, or the end of a call by id, is at one of these.
Releasing == {"release_dec", "main_lock", "main_clear", "free_lock", "free"}

\* A guard table lives and dies with its userdata, the userdata of a main state
\* has none, and the end of a universe leaves no userdata alive.
GuardsInv ==
    \A u \in Udata :
        /\ ud[u] = "none" => guard[u] = "none"
        /\ guard[u] = "live" => ud[u] = "live"
        /\ guard[u] # "none" => ~isMainGuard[u]
        /\ home[u] # NULL /\ phase[home[u]] # "open" => ud[u] # "live"

\* A userdata is released after its guard.
ReleasingInv ==
    \A t \in Thread : pc[t] \in Releasing /\ cur[t] # NULL =>
        ud[cur[t]] = "done" /\ guard[cur[t]] \in {"none", "done"}

\* Every step keeps GuardsInv.
LEMMA GuardsStep ==
    TypeOK /\ PointersInv /\ GuardsInv /\ [Next]_vars
        => GuardsInv'
<1> SUFFICES ASSUME TypeOK, PointersInv, GuardsInv, [Next]_vars
             PROVE  GuardsInv'
  OBVIOUS
<1> USE ConstantsAssumption DEF PointersInv, GuardsInv,
        TypeOK,
        Points, Touches, heap, udata, states, locals, Goto, Begin, Return
<1>1. CASE UNCHANGED vars
  BY <1>1 DEF vars
<1>2. CASE Done
  BY <1>2 DEF Done, vars
<1>3. ASSUME NEW t \in Thread, Call(t) PROVE GuardsInv'
  <2>1. ASSUME NEW s \in LState, NEW u \in Udata,
               NEW i \in Intr, AssureCreated(t, s, u, i)
        PROVE  GuardsInv'
    <3>1. isMainGuard'[u] <=> s = Main[t]
      BY <2>1, MainGuard DEF AssureCreated
    <3>2. guard'[u] # "none" => s # Main[t]
      BY <2>1 DEF AssureCreated, CreateRecord, SetupGuard
    <3>3. /\ ud'[u] = "live" /\ home'[u] = t /\ phase'[t] = "open"
          /\ \A v \in Udata \ {u} :
                UNCHANGED <<ud[v], guard[v], home[v], isMainGuard[v]>>
          /\ UNCHANGED phase
      BY <2>1 DEF AssureCreated, CreateRecord, RunsLua, SetupGuard
    <3> QED
      BY <3>1, <3>2, <3>3
  <2>2. ASSUME NEW i \in Intr, InterruptById(t, i) PROVE GuardsInv'
    BY <2>2 DEF InterruptById, RunsLua
  <2>3. ASSUME NEW i \in Intr, NEW u \in Udata,
               OpenById(t, i, u)
        PROVE  GuardsInv'
    BY <2>3 DEF OpenById, RunsLua
  <2>4. ASSUME NEW u \in Udata, InterruptByUdata(t, u) PROVE GuardsInv'
    BY <2>4 DEF InterruptByUdata, RunsLua, IsHandle
  <2>5. ASSUME NEW s \in LState, NEW u \in Udata,
               NEW i \in Intr, AssureFails(t, s, u, i)
        PROVE  GuardsInv'
    <3>1. isMainGuard'[u] <=> s = Main[t]
      BY <2>5, MainGuard DEF AssureFails
    <3>2. guard'[u] # "none" => s # Main[t]
      BY <2>5 DEF AssureFails, CreateRecord
    <3>3. /\ ud'[u] = "live" /\ home'[u] = t /\ phase'[t] = "open"
          /\ \A v \in Udata \ {u} :
                UNCHANGED <<ud[v], guard[v], home[v], isMainGuard[v]>>
          /\ UNCHANGED phase
      BY <2>5 DEF AssureFails, CreateRecord, RunsLua
    <3> QED
      BY <3>1, <3>2, <3>3
  <2> QED
    BY <1>3, <2>1, <2>2, <2>3, <2>4, <2>5 DEF Call
<1>4. ASSUME NEW t \in Thread, Continue(t) PROVE GuardsInv'
  <2>1. CASE LockGlobal(t, "register_lock", "register")
    BY <2>1 DEF LockGlobal
  <2>2. CASE LockGlobal(t, "find_lock", "find")
    BY <2>2 DEF LockGlobal
  <2>3. CASE LockGlobal(t, "open_lock", "open")
    BY <2>3 DEF LockGlobal
  <2>4. CASE LockGlobal(t, "free_lock", "free")
    BY <2>4 DEF LockGlobal
  <2>5. CASE LockIntr(t, "interrupt_lock", "interrupt_read")
    BY <2>5 DEF LockIntr
  <2>6. CASE LockIntr(t, "guard_lock", "guard_clear")
    BY <2>6 DEF LockIntr
  <2>7. CASE LockIntr(t, "main_lock", "main_clear")
    BY <2>7 DEF LockIntr
  <2>8. CASE Register(t)
    BY <2>8 DEF Register
  <2>9. CASE RegisterOutOfMemory(t)
    BY <2>9 DEF RegisterOutOfMemory
  <2>10. CASE FindFails(t)
    BY <2>10 DEF FindFails
  <2>11. CASE Find(t)
    BY <2>11 DEF Find
  <2>12. CASE Open(t)
    BY <2>12 DEF Open
  <2>13. CASE ReadL2(t)
    BY <2>13 DEF ReadL2
  <2>14. CASE SetHook(t)
    BY <2>14 DEF SetHook
  <2>15. CASE UnlockIntr(t)
    BY <2>15 DEF UnlockIntr
  <2>16. CASE InterruptDec(t)
    BY <2>16 DEF InterruptDec
  <2>17. CASE GuardClear(t)
    BY <2>17 DEF GuardClear
  <2>18. CASE ReleaseDec(t)
    BY <2>18 DEF ReleaseDec, Forget
  <2>19. CASE MainClear(t)
    BY <2>19 DEF MainClear, Forget
  <2>20. CASE Free(t)
    BY <2>20 DEF Free, Forget
  <2> QED
    BY <1>4, <2>1, <2>2, <2>3, <2>4, <2>5, <2>6, <2>7, <2>8, <2>9, <2>10,
       <2>11, <2>12, <2>13, <2>14, <2>15, <2>16, <2>17, <2>18, <2>19, <2>20
       DEF Continue
<1>5. ASSUME NEW t \in Thread, Finalize(t) PROVE GuardsInv'
  <2>1. ASSUME NEW u \in Udata, GuardRelease(t, u) PROVE GuardsInv'
    BY <2>1 DEF GuardRelease
  <2>2. ASSUME NEW u \in Udata, Release(t, u) PROVE GuardsInv'
    BY <2>2 DEF Release
  <2> QED
    BY <1>5, <2>1, <2>2 DEF Finalize
<1>6. ASSUME NEW t \in Thread, Universe(t) PROVE GuardsInv'
  <2>1. ASSUME NEW s \in LState, NewCoroutine(t, s) PROVE GuardsInv'
    BY <2>1 DEF NewCoroutine, RunsLua
  <2>2. ASSUME NEW s \in LState, CollectCoroutine(t, s) PROVE GuardsInv'
    BY <2>2 DEF CollectCoroutine, Queue, RunsLua
  <2>3. ASSUME NEW s \in LState, Resurrect(t, s) PROVE GuardsInv'
    BY <2>3 DEF Resurrect, RunsLua
  <2>4. ASSUME NEW s \in LState, FreeCoroutine(t, s) PROVE GuardsInv'
    BY <2>4 DEF FreeCoroutine, RunsLua
  <2>5. ASSUME NEW u \in Udata, CollectUdata(t, u) PROVE GuardsInv'
    BY <2>5 DEF CollectUdata, IsAnchored, Queue, RunsLua
  <2>6. CASE CloseUniverse(t)
    BY <2>6 DEF CloseUniverse, Queue, RunsLua
  <2> QED
    BY <1>6, <2>1, <2>2, <2>3, <2>4, <2>5, <2>6 DEF Universe
<1>7. ASSUME NEW t \in Thread, Closed(t) PROVE GuardsInv'
  BY <1>7 DEF Closed
<1> QED
  BY <1>1, <1>2, <1>3, <1>4, <1>5, <1>6, <1>7 DEF Next, Step

\* Every step keeps ReleasingInv.
LEMMA ReleasingStep ==
    TypeOK /\ LocalsInv /\ PointersInv /\ GuardsInv /\ ReleasingInv /\
    [Next]_vars
        => ReleasingInv'
<1> SUFFICES ASSUME TypeOK, LocalsInv, PointersInv, GuardsInv, ReleasingInv,
                    [Next]_vars
             PROVE  ReleasingInv'
  OBVIOUS
<1> USE ConstantsAssumption DEF LocalsInv, PointersInv, GuardsInv,
        ReleasingInv, Releasing,
        TypeOK, Points, Touches, heap,
        udata, states, locals, Goto, Begin, Return
<1>1. CASE UNCHANGED vars
  BY <1>1 DEF vars
<1>2. CASE Done
  BY <1>2 DEF Done, vars
<1>3. ASSUME NEW t \in Thread, Call(t) PROVE ReleasingInv'
  <2>1. ASSUME NEW s \in LState, NEW u \in Udata,
               NEW i \in Intr, AssureCreated(t, s, u, i)
        PROVE  ReleasingInv'
    BY <2>1 DEF AssureCreated, CreateRecord, InitLock, SetupGuard, RunsLua,
       HasRecord
  <2>2. ASSUME NEW i \in Intr, InterruptById(t, i) PROVE ReleasingInv'
    BY <2>2 DEF InterruptById, RunsLua
  <2>3. ASSUME NEW i \in Intr, NEW u \in Udata,
               OpenById(t, i, u)
        PROVE  ReleasingInv'
    BY <2>3 DEF OpenById, RunsLua
  <2>4. ASSUME NEW u \in Udata, InterruptByUdata(t, u) PROVE ReleasingInv'
    BY <2>4 DEF InterruptByUdata, RunsLua, IsHandle
  <2>5. ASSUME NEW s \in LState, NEW u \in Udata,
               NEW i \in Intr, AssureFails(t, s, u, i)
        PROVE  ReleasingInv'
    BY <2>5 DEF AssureFails, CreateRecord, InitLock, RunsLua
  <2> QED
    BY <1>3, <2>1, <2>2, <2>3, <2>4, <2>5 DEF Call
<1>4. ASSUME NEW t \in Thread, Continue(t) PROVE ReleasingInv'
  <2>1. CASE LockGlobal(t, "register_lock", "register")
    BY <2>1 DEF LockGlobal
  <2>2. CASE LockGlobal(t, "find_lock", "find")
    BY <2>2 DEF LockGlobal
  <2>3. CASE LockGlobal(t, "open_lock", "open")
    BY <2>3 DEF LockGlobal
  <2>4. CASE LockGlobal(t, "free_lock", "free")
    BY <2>4 DEF LockGlobal
  <2>5. CASE LockIntr(t, "interrupt_lock", "interrupt_read")
    BY <2>5 DEF LockIntr
  <2>6. CASE LockIntr(t, "guard_lock", "guard_clear")
    BY <2>6 DEF LockIntr
  <2>7. CASE LockIntr(t, "main_lock", "main_clear")
    BY <2>7 DEF LockIntr
  <2>8. CASE Register(t)
    BY <2>8 DEF Register
  <2>9. CASE RegisterOutOfMemory(t)
    BY <2>9 DEF RegisterOutOfMemory
  <2>10. CASE FindFails(t)
    BY <2>10 DEF FindFails
  <2>11. CASE Find(t)
    BY <2>11 DEF Find
  <2>12. CASE Open(t)
    BY <2>12 DEF Open
  <2>13. CASE ReadL2(t)
    BY <2>13 DEF ReadL2
  <2>14. CASE SetHook(t)
    BY <2>14 DEF SetHook
  <2>15. CASE UnlockIntr(t)
    BY <2>15 DEF UnlockIntr
  <2>16. CASE InterruptDec(t)
    BY <2>16 DEF InterruptDec
  <2>17. CASE GuardClear(t)
    BY <2>17 DEF GuardClear
  <2>18. CASE ReleaseDec(t)
    BY <2>18 DEF ReleaseDec, Forget
  <2>19. CASE MainClear(t)
    BY <2>19 DEF MainClear, Forget
  <2>20. CASE Free(t)
    BY <2>20 DEF Free, Forget
  <2> QED
    BY <1>4, <2>1, <2>2, <2>3, <2>4, <2>5, <2>6, <2>7, <2>8, <2>9, <2>10,
       <2>11, <2>12, <2>13, <2>14, <2>15, <2>16, <2>17, <2>18, <2>19, <2>20
       DEF Continue
<1>5. ASSUME NEW t \in Thread, Finalize(t) PROVE ReleasingInv'
  <2>1. ASSUME NEW u \in Udata, GuardRelease(t, u) PROVE ReleasingInv'
    BY <2>1 DEF GuardRelease
  <2>2. ASSUME NEW u \in Udata, Release(t, u) PROVE ReleasingInv'
    BY <2>2 DEF Release
  <2> QED
    BY <1>5, <2>1, <2>2 DEF Finalize
<1>6. ASSUME NEW t \in Thread, Universe(t) PROVE ReleasingInv'
  <2>1. ASSUME NEW s \in LState, NewCoroutine(t, s) PROVE ReleasingInv'
    BY <2>1 DEF NewCoroutine, RunsLua
  <2>2. ASSUME NEW s \in LState, CollectCoroutine(t, s) PROVE ReleasingInv'
    BY <2>2 DEF CollectCoroutine, Queue, RunsLua
  <2>3. ASSUME NEW s \in LState, Resurrect(t, s) PROVE ReleasingInv'
    BY <2>3 DEF Resurrect, RunsLua
  <2>4. ASSUME NEW s \in LState, FreeCoroutine(t, s) PROVE ReleasingInv'
    BY <2>4 DEF FreeCoroutine, RunsLua
  <2>5. ASSUME NEW u \in Udata, CollectUdata(t, u) PROVE ReleasingInv'
    BY <2>5 DEF CollectUdata, IsAnchored, Queue, RunsLua
  <2>6. CASE CloseUniverse(t)
    BY <2>6 DEF CloseUniverse, Queue, RunsLua
  <2> QED
    BY <1>6, <2>1, <2>2, <2>3, <2>4, <2>5, <2>6 DEF Universe
<1>7. ASSUME NEW t \in Thread, Closed(t) PROVE ReleasingInv'
  BY <1>7 DEF Closed
<1> QED
  BY <1>1, <1>2, <1>3, <1>4, <1>5, <1>6, <1>7 DEF Next, Step

----------------------------------------------------------------------------
(* The lookup table.                                                       *)

\* The entry of a state is a userdata of its universe, and a guard of the kind
\* that the state needs; it does not outlive the state.
AnchorInv ==
    \A s \in LState :
        /\ lookup[s] # NULL =>
              /\ home[lookup[s]] = Owner[s]
              /\ lstate[s] \in {"live", "doomed"}
              /\ (isMainGuard[lookup[s]] <=> s = Main[Owner[s]])
        /\ lstate[s] = "doomed" => s # Main[Owner[s]]

\* Every step keeps AnchorInv.
LEMMA AnchorStep ==
    TypeOK /\ PointersInv /\ AnchorInv /\ [Next]_vars
        => AnchorInv'
<1> SUFFICES ASSUME TypeOK, PointersInv, AnchorInv, [Next]_vars
             PROVE  AnchorInv'
  OBVIOUS
<1> USE ConstantsAssumption DEF PointersInv, AnchorInv,
        TypeOK,
        Points, Touches, heap, udata, states, locals, Goto, Begin, Return
<1>1. CASE UNCHANGED vars
  BY <1>1 DEF vars
<1>2. CASE Done
  BY <1>2 DEF Done, vars
<1>3. ASSUME NEW t \in Thread, Call(t) PROVE AnchorInv'
  <2>1. ASSUME NEW s \in LState, NEW u \in Udata,
               NEW i \in Intr, AssureCreated(t, s, u, i)
        PROVE  AnchorInv'
    <3>1. isMainGuard'[u] <=> s = Main[t]
      BY <2>1, MainGuard DEF AssureCreated
    <3>2. /\ Owner[s] = t /\ lstate[s] = "live" /\ UNCHANGED lstate
          /\ lookup'[s] = u /\ home'[u] = t
          /\ \A r \in LState \ {s} : UNCHANGED lookup[r]
      BY <2>1 DEF AssureCreated, CreateRecord, SetupGuard
    <3>3. \A r \in LState \ {s} : lookup[r] # NULL =>
             UNCHANGED <<home[lookup[r]], isMainGuard[lookup[r]]>>
      <4>1. ASSUME NEW r \in LState \ {s}, lookup[r] # NULL
            PROVE  lookup[r] \in Udata \ {u}
        BY <2>1, <4>1 DEF AssureCreated, CreateRecord
      <4>2. ASSUME NEW v \in Udata \ {u}
            PROVE  UNCHANGED <<home[v], isMainGuard[v]>>
        BY <2>1 DEF AssureCreated, CreateRecord
      <4> QED
        BY <3>2, <4>1, <4>2
    <3> QED
      BY <3>1, <3>2, <3>3
  <2>2. ASSUME NEW i \in Intr, InterruptById(t, i) PROVE AnchorInv'
    BY <2>2 DEF InterruptById, RunsLua
  <2>3. ASSUME NEW i \in Intr, NEW u \in Udata,
               OpenById(t, i, u)
        PROVE  AnchorInv'
    BY <2>3 DEF OpenById, RunsLua
  <2>4. ASSUME NEW u \in Udata, InterruptByUdata(t, u) PROVE AnchorInv'
    BY <2>4 DEF InterruptByUdata, RunsLua, IsHandle
  <2>5. ASSUME NEW s \in LState, NEW u \in Udata,
               NEW i \in Intr, AssureFails(t, s, u, i)
        PROVE  AnchorInv'
    BY <2>5 DEF AssureFails, CreateRecord, InitLock, RunsLua
  <2> QED
    BY <1>3, <2>1, <2>2, <2>3, <2>4, <2>5 DEF Call
<1>4. ASSUME NEW t \in Thread, Continue(t) PROVE AnchorInv'
  <2>1. CASE LockGlobal(t, "register_lock", "register")
    BY <2>1 DEF LockGlobal
  <2>2. CASE LockGlobal(t, "find_lock", "find")
    BY <2>2 DEF LockGlobal
  <2>3. CASE LockGlobal(t, "open_lock", "open")
    BY <2>3 DEF LockGlobal
  <2>4. CASE LockGlobal(t, "free_lock", "free")
    BY <2>4 DEF LockGlobal
  <2>5. CASE LockIntr(t, "interrupt_lock", "interrupt_read")
    BY <2>5 DEF LockIntr
  <2>6. CASE LockIntr(t, "guard_lock", "guard_clear")
    BY <2>6 DEF LockIntr
  <2>7. CASE LockIntr(t, "main_lock", "main_clear")
    BY <2>7 DEF LockIntr
  <2>8. CASE Register(t)
    BY <2>8 DEF Register
  <2>9. CASE RegisterOutOfMemory(t)
    BY <2>9 DEF RegisterOutOfMemory
  <2>10. CASE FindFails(t)
    BY <2>10 DEF FindFails
  <2>11. CASE Find(t)
    BY <2>11 DEF Find
  <2>12. CASE Open(t)
    BY <2>12 DEF Open
  <2>13. CASE ReadL2(t)
    BY <2>13 DEF ReadL2
  <2>14. CASE SetHook(t)
    BY <2>14 DEF SetHook
  <2>15. CASE UnlockIntr(t)
    BY <2>15 DEF UnlockIntr
  <2>16. CASE InterruptDec(t)
    BY <2>16 DEF InterruptDec
  <2>17. CASE GuardClear(t)
    BY <2>17 DEF GuardClear
  <2>18. CASE ReleaseDec(t)
    BY <2>18 DEF ReleaseDec, Forget
  <2>19. CASE MainClear(t)
    BY <2>19 DEF MainClear, Forget
  <2>20. CASE Free(t)
    BY <2>20 DEF Free, Forget
  <2> QED
    BY <1>4, <2>1, <2>2, <2>3, <2>4, <2>5, <2>6, <2>7, <2>8, <2>9, <2>10,
       <2>11, <2>12, <2>13, <2>14, <2>15, <2>16, <2>17, <2>18, <2>19, <2>20
       DEF Continue
<1>5. ASSUME NEW t \in Thread, Finalize(t) PROVE AnchorInv'
  <2>1. ASSUME NEW u \in Udata, GuardRelease(t, u) PROVE AnchorInv'
    BY <2>1 DEF GuardRelease
  <2>2. ASSUME NEW u \in Udata, Release(t, u) PROVE AnchorInv'
    BY <2>2 DEF Release
  <2> QED
    BY <1>5, <2>1, <2>2 DEF Finalize
<1>6. ASSUME NEW t \in Thread, Universe(t) PROVE AnchorInv'
  <2>1. ASSUME NEW s \in LState, NewCoroutine(t, s) PROVE AnchorInv'
    BY <2>1 DEF NewCoroutine, RunsLua
  <2>2. ASSUME NEW s \in LState, CollectCoroutine(t, s) PROVE AnchorInv'
    BY <2>2 DEF CollectCoroutine, Queue, RunsLua
  <2>3. ASSUME NEW s \in LState, Resurrect(t, s) PROVE AnchorInv'
    BY <2>3 DEF Resurrect, RunsLua
  <2>4. ASSUME NEW s \in LState, FreeCoroutine(t, s) PROVE AnchorInv'
    BY <2>4 DEF FreeCoroutine, RunsLua
  <2>5. ASSUME NEW u \in Udata, CollectUdata(t, u) PROVE AnchorInv'
    BY <2>5 DEF CollectUdata, IsAnchored, Queue, RunsLua
  <2>6. CASE CloseUniverse(t)
    BY <2>6 DEF CloseUniverse, Queue, RunsLua
  <2> QED
    BY <1>6, <2>1, <2>2, <2>3, <2>4, <2>5, <2>6 DEF Universe
<1>7. ASSUME NEW t \in Thread, Closed(t) PROVE AnchorInv'
  BY <1>7 DEF Closed
<1> QED
  BY <1>1, <1>2, <1>3, <1>4, <1>5, <1>6, <1>7 DEF Next, Step

----------------------------------------------------------------------------
(* Who will clear L2.                                                      *)

\* A finalizer that is still to come, or at work, will detach userdata u.
AwaitsClear(u) ==
    IF isMainGuard[u]
    THEN \/ ud[u] \in {"live", "queued"}
         \/ cur[home[u]] = u /\ pc[home[u]] \in Releasing
    ELSE \/ guard[u] \in {"live", "queued"}
         \/ cur[home[u]] = u /\ pc[home[u]] \in {"guard_lock", "guard_clear"}

\* A registration will leave such a finalizer behind; it and lua_sethook have a
\* state to work on.
RegistersInv ==
    /\ \A t \in Thread : Registering(t) =>
          /\ tgt[t] # NULL /\ lookup[tgt[t]] = cur[t]
          /\ ud[cur[t]] = "live"
          /\ ~isMainGuard[cur[t]] => guard[cur[t]] = "live"
    /\ \A t \in Thread : pc[t] = "interrupt_hook" => tgt[t] # NULL

\* A record with an L2 is the one that the lookup table has for that state, and
\* it awaits its finalizer.
ClearsInv ==
    \A i \in Intr :
        /\ alloc[i] = "none" => L2[i] = NULL
        /\ alloc[i] = "live" /\ L2[i] # NULL =>
              /\ lookup[L2[i]] # NULL
              /\ interruptible[lookup[L2[i]]] = i
              /\ AwaitsClear(lookup[L2[i]])

\* Every step keeps RegistersInv.
LEMMA RegistersStep ==
    TypeOK /\ LocalsInv /\ PointersInv /\ AnchorInv /\ RegistersInv /\
    [Next]_vars
        => RegistersInv'
<1> SUFFICES ASSUME TypeOK, LocalsInv, PointersInv, AnchorInv, RegistersInv,
                    [Next]_vars
             PROVE  RegistersInv'
  OBVIOUS
<1> USE ConstantsAssumption DEF LocalsInv, PointersInv, RegistersInv,
        Registering,
        TypeOK, Points, Touches, heap, udata, states,
        locals, Goto, Begin, Return
<1>1. CASE UNCHANGED vars
  BY <1>1 DEF vars
<1>2. CASE Done
  BY <1>2 DEF Done, vars
<1>3. ASSUME NEW t \in Thread, Call(t) PROVE RegistersInv'
  <2>1. ASSUME NEW s \in LState, NEW u \in Udata,
               NEW i \in Intr, AssureCreated(t, s, u, i)
        PROVE  RegistersInv'
    <3>1. isMainGuard'[u] <=> s = Main[t]
      BY <2>1, MainGuard DEF AssureCreated
    <3>2. /\ Owner[s] = t /\ lookup'[s] = u /\ ud'[u] = "live"
          /\ pc'[t] = "register_lock" /\ tgt'[t] = s /\ cur'[t] = u
          /\ s # Main[t] => guard'[u] = "live"
      BY <2>1 DEF AssureCreated, CreateRecord, SetupGuard
    <3>3. ASSUME NEW r \in Thread \ {t}, cur[r] # NULL
          PROVE  /\ cur[r] # u /\ UNCHANGED <<pc[r], tgt[r], cur[r]>>
                 /\ UNCHANGED <<ud[cur[r]], guard[cur[r]],
                                isMainGuard[cur[r]]>>
      BY <2>1, <3>3 DEF AssureCreated, CreateRecord, SetupGuard
    <3>4. ASSUME NEW r \in Thread \ {t}, Registering(r)
          PROVE  tgt[r] # s /\ UNCHANGED lookup[tgt[r]]
      BY <2>1, <3>2, <3>4 DEF AssureCreated, SetupGuard, AnchorInv
    <3>5. ASSUME NEW r \in Thread \ {t}
          PROVE  UNCHANGED <<pc[r], tgt[r]>>
      BY <2>1 DEF AssureCreated
    <3> QED
      BY <3>1, <3>2, <3>3, <3>4, <3>5
  <2>2. ASSUME NEW i \in Intr, InterruptById(t, i) PROVE RegistersInv'
    BY <2>2 DEF InterruptById, RunsLua
  <2>3. ASSUME NEW i \in Intr, NEW u \in Udata,
               OpenById(t, i, u)
        PROVE  RegistersInv'
    BY <2>3 DEF OpenById, RunsLua
  <2>4. ASSUME NEW u \in Udata, InterruptByUdata(t, u) PROVE RegistersInv'
    BY <2>4 DEF InterruptByUdata, RunsLua, IsHandle
  <2>5. ASSUME NEW s \in LState, NEW u \in Udata,
               NEW i \in Intr, AssureFails(t, s, u, i)
        PROVE  RegistersInv'
    BY <2>5 DEF AssureFails, CreateRecord, InitLock, RunsLua
  <2> QED
    BY <1>3, <2>1, <2>2, <2>3, <2>4, <2>5 DEF Call
<1>4. ASSUME NEW t \in Thread, Continue(t) PROVE RegistersInv'
  <2>1. CASE LockGlobal(t, "register_lock", "register")
    BY <2>1 DEF LockGlobal
  <2>2. CASE LockGlobal(t, "find_lock", "find")
    BY <2>2 DEF LockGlobal
  <2>3. CASE LockGlobal(t, "open_lock", "open")
    BY <2>3 DEF LockGlobal
  <2>4. CASE LockGlobal(t, "free_lock", "free")
    BY <2>4 DEF LockGlobal
  <2>5. CASE LockIntr(t, "interrupt_lock", "interrupt_read")
    BY <2>5 DEF LockIntr
  <2>6. CASE LockIntr(t, "guard_lock", "guard_clear")
    BY <2>6 DEF LockIntr
  <2>7. CASE LockIntr(t, "main_lock", "main_clear")
    BY <2>7 DEF LockIntr
  <2>8. CASE Register(t)
    BY <2>8 DEF Register
  <2>9. CASE RegisterOutOfMemory(t)
    BY <2>9 DEF RegisterOutOfMemory
  <2>10. CASE FindFails(t)
    BY <2>10 DEF FindFails
  <2>11. CASE Find(t)
    BY <2>11 DEF Find
  <2>12. CASE Open(t)
    BY <2>12 DEF Open
  <2>13. CASE ReadL2(t)
    BY <2>13 DEF ReadL2
  <2>14. CASE SetHook(t)
    BY <2>14 DEF SetHook
  <2>15. CASE UnlockIntr(t)
    BY <2>15 DEF UnlockIntr
  <2>16. CASE InterruptDec(t)
    BY <2>16 DEF InterruptDec
  <2>17. CASE GuardClear(t)
    BY <2>17 DEF GuardClear
  <2>18. CASE ReleaseDec(t)
    BY <2>18 DEF ReleaseDec, Forget
  <2>19. CASE MainClear(t)
    BY <2>19 DEF MainClear, Forget
  <2>20. CASE Free(t)
    BY <2>20 DEF Free, Forget
  <2> QED
    BY <1>4, <2>1, <2>2, <2>3, <2>4, <2>5, <2>6, <2>7, <2>8, <2>9, <2>10,
       <2>11, <2>12, <2>13, <2>14, <2>15, <2>16, <2>17, <2>18, <2>19, <2>20
       DEF Continue
<1>5. ASSUME NEW t \in Thread, Finalize(t) PROVE RegistersInv'
  <2>1. ASSUME NEW u \in Udata, GuardRelease(t, u) PROVE RegistersInv'
    BY <2>1 DEF GuardRelease
  <2>2. ASSUME NEW u \in Udata, Release(t, u) PROVE RegistersInv'
    BY <2>2 DEF Release
  <2> QED
    BY <1>5, <2>1, <2>2 DEF Finalize
<1>6. ASSUME NEW t \in Thread, Universe(t) PROVE RegistersInv'
  <2>1. ASSUME NEW s \in LState, NewCoroutine(t, s) PROVE RegistersInv'
    BY <2>1 DEF NewCoroutine, RunsLua
  <2>2. ASSUME NEW s \in LState, CollectCoroutine(t, s) PROVE RegistersInv'
    <3>1. ASSUME NEW r \in Thread, Registering(r)
          PROVE  UNCHANGED <<ud[cur[r]], guard[cur[r]], isMainGuard[cur[r]]>>
      BY <2>2, <3>1 DEF CollectCoroutine, Queue, RunsLua, AnchorInv
    <3>2. UNCHANGED <<lookup, pc, cur, tgt>>
      BY <2>2 DEF CollectCoroutine
    <3>3. ASSUME NEW r \in Thread, Registering(r) PROVE cur[r] \in Udata
      BY <3>3
    <3> QED
      BY <3>1, <3>2, <3>3
  <2>3. ASSUME NEW s \in LState, Resurrect(t, s) PROVE RegistersInv'
    BY <2>3 DEF Resurrect, RunsLua
  <2>4. ASSUME NEW s \in LState, FreeCoroutine(t, s) PROVE RegistersInv'
    <3>1. ASSUME NEW r \in Thread, Registering(r)
          PROVE  tgt[r] # s
      BY <2>4, <3>1 DEF FreeCoroutine, RunsLua, AnchorInv
    <3> QED
      BY <2>4, <3>1 DEF FreeCoroutine
  <2>5. ASSUME NEW u \in Udata, CollectUdata(t, u) PROVE RegistersInv'
    BY <2>5 DEF CollectUdata, IsAnchored, Queue, RunsLua
  <2>6. CASE CloseUniverse(t)
    BY <2>6 DEF CloseUniverse, Queue, RunsLua
  <2> QED
    BY <1>6, <2>1, <2>2, <2>3, <2>4, <2>5, <2>6 DEF Universe
<1>7. ASSUME NEW t \in Thread, Closed(t) PROVE RegistersInv'
  <2>1. ASSUME NEW r \in Thread, Registering(r)
        PROVE  UNCHANGED lookup[tgt[r]]
    BY <1>7, <2>1 DEF Closed, AnchorInv
  <2>2. UNCHANGED <<udata, pc, cur, tgt>>
    BY <1>7 DEF Closed
  <2> QED
    BY <2>1, <2>2
<1> QED
  BY <1>1, <1>2, <1>3, <1>4, <1>5, <1>6, <1>7 DEF Next, Step

\* Every step keeps ClearsInv.
LEMMA ClearsStep ==
    TypeOK /\ LocalsInv /\ PointersInv /\ GuardsInv /\ ReleasingInv /\
    AnchorInv /\ RegistersInv /\ ClearsInv /\ [Next]_vars
        => ClearsInv'
<1> SUFFICES ASSUME TypeOK, LocalsInv, PointersInv, GuardsInv, ReleasingInv,
                    AnchorInv, RegistersInv, ClearsInv, [Next]_vars
             PROVE  ClearsInv'
  OBVIOUS
<1> USE ConstantsAssumption DEF LocalsInv, PointersInv, ClearsInv,
        AwaitsClear, Releasing,
        TypeOK, Points, Touches, heap, udata,
        states, locals, Goto, Begin, Return
<1>1. CASE UNCHANGED vars
  BY <1>1 DEF vars
<1>2. CASE Done
  BY <1>2 DEF Done, vars
<1>3. ASSUME NEW t \in Thread, Call(t) PROVE ClearsInv'
  <2>1. ASSUME NEW s \in LState, NEW u \in Udata,
               NEW i \in Intr, AssureCreated(t, s, u, i)
        PROVE  ClearsInv'
    BY <2>1 DEF AssureCreated, CreateRecord, InitLock, SetupGuard, RunsLua,
       HasRecord
  <2>2. ASSUME NEW i \in Intr, InterruptById(t, i) PROVE ClearsInv'
    BY <2>2 DEF InterruptById, RunsLua
  <2>3. ASSUME NEW i \in Intr, NEW u \in Udata,
               OpenById(t, i, u)
        PROVE  ClearsInv'
    BY <2>3 DEF OpenById, RunsLua
  <2>4. ASSUME NEW u \in Udata, InterruptByUdata(t, u) PROVE ClearsInv'
    BY <2>4 DEF InterruptByUdata, RunsLua, IsHandle
  <2>5. ASSUME NEW s \in LState, NEW u \in Udata,
               NEW i \in Intr, AssureFails(t, s, u, i)
        PROVE  ClearsInv'
    BY <2>5 DEF AssureFails, CreateRecord, InitLock, RunsLua
  <2> QED
    BY <1>3, <2>1, <2>2, <2>3, <2>4, <2>5 DEF Call
<1>4. ASSUME NEW t \in Thread, Continue(t) PROVE ClearsInv'
  <2>1. CASE LockGlobal(t, "register_lock", "register")
    BY <2>1 DEF LockGlobal
  <2>2. CASE LockGlobal(t, "find_lock", "find")
    BY <2>2 DEF LockGlobal
  <2>3. CASE LockGlobal(t, "open_lock", "open")
    BY <2>3 DEF LockGlobal
  <2>4. CASE LockGlobal(t, "free_lock", "free")
    BY <2>4 DEF LockGlobal
  <2>5. CASE LockIntr(t, "interrupt_lock", "interrupt_read")
    BY <2>5 DEF LockIntr
  <2>6. CASE LockIntr(t, "guard_lock", "guard_clear")
    BY <2>6 DEF LockIntr
  <2>7. CASE LockIntr(t, "main_lock", "main_clear")
    BY <2>7 DEF LockIntr
  <2>8. CASE Register(t)
    <3>1. ASSUME NEW u \in Udata PROVE AwaitsClear(u) => AwaitsClear(u)'
      BY <2>8 DEF Register
    <3>2. /\ lookup[tgt[t]] = cur[t] /\ interruptible[cur[t]] = obj[t]
          /\ AwaitsClear(cur[t]) /\ tgt[t] \in LState
      BY <2>8 DEF Register, RegistersInv, Registering
    <3> HIDE DEF AwaitsClear
    <3> QED
      BY <2>8, <3>1, <3>2 DEF Register, Accessible
  <2>9. CASE RegisterOutOfMemory(t)
    BY <2>9 DEF RegisterOutOfMemory
  <2>10. CASE FindFails(t)
    BY <2>10 DEF FindFails
  <2>11. CASE Find(t)
    BY <2>11 DEF Find
  <2>12. CASE Open(t)
    BY <2>12 DEF Open
  <2>13. CASE ReadL2(t)
    BY <2>13 DEF ReadL2
  <2>14. CASE SetHook(t)
    BY <2>14 DEF SetHook
  <2>15. CASE UnlockIntr(t)
    BY <2>15 DEF UnlockIntr
  <2>16. CASE InterruptDec(t)
    BY <2>16 DEF InterruptDec
  <2>17. CASE GuardClear(t)
    BY <2>17 DEF GuardClear
  <2>18. CASE ReleaseDec(t)
    <3>1. ASSUME NEW u \in Udata, home[u] \in Thread
          PROVE  AwaitsClear(u) => AwaitsClear(u)' /\ UNCHANGED interruptible[u]
      <4>1. cur[t] = u /\ ~isMainGuard[u] => ~AwaitsClear(u)
        BY <2>18 DEF ReleaseDec, ReleasingInv
      <4>2. CASE cur[t] # u
        <5>1. UNCHANGED <<ud, guard, home, isMainGuard>>
          BY <2>18 DEF ReleaseDec
        <5>2. UNCHANGED interruptible[u]
          BY <2>18, <4>2 DEF ReleaseDec, Forget
        <5>3. \A r \in Thread \ {t} : UNCHANGED <<cur[r], pc[r]>>
          BY <2>18 DEF ReleaseDec
        <5>4. ASSUME AwaitsClear(u) PROVE AwaitsClear(u)'
          <6>1. CASE isMainGuard[u]
            BY <3>1, <4>2, <5>1, <5>3, <5>4, <6>1
          <6>2. CASE ~isMainGuard[u]
            BY <3>1, <4>2, <5>1, <5>3, <5>4, <6>2
          <6> QED
            BY <6>1, <6>2
        <5> QED
          BY <5>2, <5>4
      <4>3. CASE cur[t] = u /\ isMainGuard[u]
        BY <2>18, <4>3 DEF ReleaseDec
      <4> QED
        BY <4>1, <4>2, <4>3
    <3>2. \A s \in LState : lookup[s] # NULL => home[lookup[s]] \in Thread
      BY DEF AnchorInv
    <3> HIDE DEF AwaitsClear
    <3> QED
      BY <2>18, <3>1, <3>2 DEF ReleaseDec
  <2>19. CASE MainClear(t)
    BY <2>19 DEF MainClear, Forget
  <2>20. CASE Free(t)
    BY <2>20 DEF Free, Forget
  <2> QED
    BY <1>4, <2>1, <2>2, <2>3, <2>4, <2>5, <2>6, <2>7, <2>8, <2>9, <2>10,
       <2>11, <2>12, <2>13, <2>14, <2>15, <2>16, <2>17, <2>18, <2>19, <2>20
       DEF Continue
<1>5. ASSUME NEW t \in Thread, Finalize(t) PROVE ClearsInv'
  <2>1. ASSUME NEW u \in Udata, GuardRelease(t, u) PROVE ClearsInv'
    BY <2>1 DEF GuardRelease
  <2>2. ASSUME NEW u \in Udata, Release(t, u) PROVE ClearsInv'
    BY <2>2 DEF Release
  <2> QED
    BY <1>5, <2>1, <2>2 DEF Finalize
<1>6. ASSUME NEW t \in Thread, Universe(t) PROVE ClearsInv'
  <2>1. ASSUME NEW s \in LState, NewCoroutine(t, s) PROVE ClearsInv'
    BY <2>1 DEF NewCoroutine, RunsLua
  <2>2. ASSUME NEW s \in LState, CollectCoroutine(t, s) PROVE ClearsInv'
    BY <2>2 DEF CollectCoroutine, Queue, RunsLua
  <2>3. ASSUME NEW s \in LState, Resurrect(t, s) PROVE ClearsInv'
    BY <2>3 DEF Resurrect, RunsLua
  <2>4. ASSUME NEW s \in LState, FreeCoroutine(t, s) PROVE ClearsInv'
    <3>1. ASSUME NEW u \in Udata
          PROVE  AwaitsClear(u) => AwaitsClear(u)'
      BY <2>4 DEF FreeCoroutine
    <3>2. lookup[s] # NULL => ~AwaitsClear(lookup[s])
      BY <2>4 DEF FreeCoroutine, RunsLua, AnchorInv, GuardsInv
    <3> HIDE DEF AwaitsClear
    <3> QED
      BY <2>4, <3>1, <3>2 DEF FreeCoroutine
  <2>5. ASSUME NEW u \in Udata, CollectUdata(t, u) PROVE ClearsInv'
    BY <2>5 DEF CollectUdata, IsAnchored, Queue, RunsLua
  <2>6. CASE CloseUniverse(t)
    BY <2>6 DEF CloseUniverse, Queue, RunsLua
  <2> QED
    BY <1>6, <2>1, <2>2, <2>3, <2>4, <2>5, <2>6 DEF Universe
<1>7. ASSUME NEW t \in Thread, Closed(t) PROVE ClearsInv'
  <2>1. ASSUME NEW u \in Udata
        PROVE  AwaitsClear(u) => AwaitsClear(u)'
    BY <1>7 DEF Closed
  <2>2. ASSUME NEW s \in LState, Owner[s] = t, lookup[s] # NULL
        PROVE  ~AwaitsClear(lookup[s])
    <3> PICK u \in Udata : u = lookup[s]
      BY <2>2
    <3>1. home[u] = t /\ pc[t] = "idle" /\ phase[t] = "closing"
      BY <1>7, <2>2 DEF Closed, AnchorInv
    <3>2. ud[u] \notin {"live", "queued"}
      BY <1>7, <3>1 DEF Closed, GuardsInv
    <3>3. guard[u] \notin {"live", "queued"}
      BY <1>7, <3>1, <3>2 DEF Closed, GuardsInv
    <3> QED
      BY <3>1, <3>2, <3>3
  <2> HIDE DEF AwaitsClear
  <2> QED
    BY <1>7, <2>1, <2>2 DEF Closed
<1> QED
  BY <1>1, <1>2, <1>3, <1>4, <1>5, <1>6, <1>7 DEF Next, Step

----------------------------------------------------------------------------
(* Theorems.                                                               *)

\* The inductive invariant.
DetachInv ==
    /\ CountInv
    /\ GuardsInv /\ ReleasingInv /\ AnchorInv /\ RegistersInv /\ ClearsInv

\* It is an invariant.
LEMMA DetachInvariant == Spec => []DetachInv
<1>1. Init => DetachInv
  BY CountInit, ConstantsAssumption
     DEF Init, DetachInv, GuardsInv, ReleasingInv, Releasing, AnchorInv,
         RegistersInv, Registering, ClearsInv
<1>2. DetachInv /\ [Next]_vars => DetachInv'
  BY TypeStep, ShapeStep, CountStep, GuardsStep, ReleasingStep, AnchorStep,
     RegistersStep, ClearsStep DEF DetachInv, CountInv
<1> QED
  BY <1>1, <1>2, PTL DEF Spec

\* L2 never points to a state that Lua has freed, whatever the collector and
\* lua_close do and in which order coroutines come and go.
THEOREM Detached == Spec => []DetachedBeforeFreed
<1>1. DetachInv => DetachedBeforeFreed
  BY DEF DetachInv, CountInv, TypeOK, AnchorInv, ClearsInv,
         DetachedBeforeFreed
<1> QED
  BY <1>1, DetachInvariant, PTL

\* Kept out of the two windows, lua_sethook is never called for a state that was
\* freed, although the state's universe may be closing at the same time.
THEOREM HookSafe == SerialSpec => []HookTargetAlive
<1>1. SerialInv /\ RecordInv /\ DetachInv => HookTargetAlive
  <2> SUFFICES ASSUME SerialInv, RecordInv, DetachInv, NEW t \in Thread,
                      pc[t] = "interrupt_hook"
               PROVE  lstate[tgt[t]] # "freed"
    BY DEF HookTargetAlive
  <2> PICK i \in Intr : i = obj[t]
    BY DEF SerialInv, CountInv, TypeOK
  <2>1. alloc[i] = "live"
    BY ConstantsAssumption
       DEF SerialInv, CountInv, TypeOK, LocalsInv, LiveInv, InCallById
  <2>2. L2[i] = tgt[t]
    BY <2>1 DEF RecordInv, TestedL2IsCurrent, Accessible
  <2> QED
    BY <2>1, <2>2, ConstantsAssumption
       DEF DetachInv, CountInv, TypeOK, AnchorInv, RegistersInv, ClearsInv
<1> QED
  BY <1>1, SerialIsSpec, SerialInvariant, RecordInvariant, DetachInvariant, PTL
=============================================================================
