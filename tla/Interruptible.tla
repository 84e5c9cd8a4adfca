--------------------------- MODULE Interruptible ---------------------------
(***************************************************************************)
(* The life of an MtInterruptible record (src/interruptible.c): who holds  *)
(* it, who may still find it by id, and when its pointer L2 to a lua_State *)
(* may be used.  Several OS threads run the library at once, each inside   *)
(* its own Lua universe (a main state and its coroutines).  A step of the  *)
(* model is one access to memory the threads share: an atomic operation on *)
(* the counter "used", or a critical section of one of the two locks.      *)
(*                                                                         *)
(* A step that would touch freed memory has no defined outcome, so the     *)
(* model gives it no successor: the thread stays in front of the access    *)
(* (see Touches), and safety properties talk about what happens up to it.  *)
(*                                                                         *)
(* The hash table behind findInterruptibleWithId is abstracted to the set  *)
(* of registered records; a record stands for its id.                      *)
(***************************************************************************)
EXTENDS Integers, FiniteSets

CONSTANTS
    Thread,     \* OS threads, each running one Lua universe
    LState,     \* addresses of lua_State: main states and coroutines
    Main,       \* Main[t]: the main state of t's universe
    Owner,      \* Owner[s]: the thread in whose universe s lives
    Intr,       \* MtInterruptible records; each is allocated at most once
    Udata,      \* IntrUserData userdata; each is allocated at most once
    NULL

ASSUME ConstantsAssumption ==
    /\ IsFiniteSet(Thread) /\ IsFiniteSet(Udata)
    /\ Thread \cap Udata = {}
    /\ NULL \notin Thread \cup LState \cup Intr \cup Udata
    /\ Main \in [Thread -> LState]
    /\ Owner \in [LState -> Thread]
    /\ \A t \in Thread : Owner[Main[t]] = t

VARIABLES
    \* the C heap, shared by all threads
    alloc,          \* whether a record is not yet allocated, live or freed
    used,           \* its reference counter
    L2,             \* its lua_State, NULL when there is none any more
    lock,           \* the thread that holds its Lock
    bucket,         \* the records that can be found by id
    globalLock,     \* the thread that holds mtint_global_lock
    \* one Lua universe per thread
    lstate,         \* lua_States: none, live, doomed (unreachable), freed
    lookup,         \* the lookup table: the userdata behind a state's guard
    ud, guard,      \* userdata and coroutine guard: none, live, queued, done
    home,           \* the universe a userdata lives in
    interruptible,  \* IntrUserData.interruptible
    isMainGuard,    \* IntrUserData.isMainGuard
    phase,          \* of a universe: open, closing (lua_close) or closed
    \* the C function each thread is in
    pc,             \* its next access to shared memory
    obj, cur, tgt   \* the record, userdata and lua_State in its locals

heap   == <<alloc, used, L2, lock, bucket>>
udata  == <<ud, guard, home, interruptible, isMainGuard>>
states == <<lstate, lookup, phase>>
locals == <<pc, obj, cur, tgt>>
vars   == <<heap, globalLock, udata, states, locals>>

----------------------------------------------------------------------------
(* The points a C function can be at.                                      *)

\* Next access is to the memory of record obj[t].
Touches == {"register", "interrupt_lock", "interrupt_read",
            "interrupt_unlock", "interrupt_dec", "guard_lock", "guard_clear",
            "release_dec", "main_lock", "main_clear", "free"}

Points == {"idle", "register_lock", "find_lock", "find", "open_lock", "open",
           "interrupt_hook", "free_lock"} \cup Touches

\* A thread that would now access the memory of obj[t] can do so.
Accessible(t) == obj[t] \in Intr /\ alloc[obj[t]] = "live"

Goto(t, point) == pc' = [pc EXCEPT ![t] = point]

Begin(t, point, i, u) ==
    /\ Goto(t, point)
    /\ obj' = [obj EXCEPT ![t] = i]
    /\ cur' = [cur EXCEPT ![t] = u]
    /\ UNCHANGED tgt

Return(t) ==
    /\ Goto(t, "idle")
    /\ obj' = [obj EXCEPT ![t] = NULL]
    /\ cur' = [cur EXCEPT ![t] = NULL]
    /\ tgt' = [tgt EXCEPT ![t] = NULL]

\* Lua code of t's universe is running, outside this library.
RunsLua(t) == pc[t] = "idle" /\ phase[t] = "open"

----------------------------------------------------------------------------
(* Locks: the function waits at "from" and goes on at "to".                *)

\* async_mutex_lock(mtint_global_lock)
LockGlobal(t, from, to) ==
    /\ pc[t] = from
    /\ globalLock = NULL
    /\ globalLock' = t
    /\ Goto(t, to)
    /\ UNCHANGED <<heap, udata, states, obj, cur, tgt>>

\* A mutant: the lock of a record keeps nobody out.
LockIntrShared(t, from, to) ==
    /\ pc[t] = from /\ Accessible(t)
    /\ lock' = [lock EXCEPT ![obj[t]] = t]
    /\ Goto(t, to)
    /\ UNCHANGED <<alloc, used, L2, bucket, globalLock, udata, states,
                   obj, cur, tgt>>

\* async_lock_acquire(&intrp->lock)
LockIntr(t, from, to) ==
    /\ pc[t] = from /\ Accessible(t)
    /\ lock[obj[t]] = NULL
    /\ lock' = [lock EXCEPT ![obj[t]] = t]
    /\ Goto(t, to)
    /\ UNCHANGED <<alloc, used, L2, bucket, globalLock, udata, states,
                   obj, cur, tgt>>

----------------------------------------------------------------------------
(* mtint.id and mtint.sethook: assureCreatedMtInterruptible.               *)

\* The lookup table has a userdata of state s with a record for it.
HasRecord(s) ==
    /\ lookup[s] # NULL
    /\ interruptible[lookup[s]] # NULL
    /\ L2[interruptible[lookup[s]]] = s

\* mtint_async_lock_init
InitLock(i) == lock' = [lock EXCEPT ![i] = NULL]

\* Lua code of thread t asks for the id of its state s, which needs a record:
\* allocate userdata and record.  (With a usable record in the lookup table
\* the call returns its id and changes nothing.)
CreateRecord(t, s, u, i) ==
    /\ RunsLua(t)
    /\ Owner[s] = t /\ lstate[s] = "live"
    /\ ~HasRecord(s)
    /\ ud[u] = "none" /\ alloc[i] = "none"
    /\ alloc'         = [alloc EXCEPT ![i] = "live"]
    /\ used'          = [used EXCEPT ![i] = 1]
    /\ InitLock(i)
    /\ ud'            = [ud EXCEPT ![u] = "live"]
    /\ home'          = [home EXCEPT ![u] = t]
    /\ interruptible' = [interruptible EXCEPT ![u] = i]
    /\ isMainGuard'   = [isMainGuard EXCEPT ![u] = (s = Main[t])]
    /\ UNCHANGED <<L2, bucket, globalLock, lstate, phase>>

\* The userdata of a main state is its own guard, a coroutine gets a guard
\* table that refers to both; the lookup table keeps the guard.
SetupGuard(s, u) ==
    /\ guard'  = IF s = Main[Owner[s]] THEN guard
                                       ELSE [guard EXCEPT ![u] = "live"]
    /\ lookup' = [lookup EXCEPT ![s] = u]

AssureCreated(t, s, u, i) ==
    /\ CreateRecord(t, s, u, i)
    /\ SetupGuard(s, u)
    /\ Goto(t, "register_lock")
    /\ obj' = [obj EXCEPT ![t] = i]
    /\ cur' = [cur EXCEPT ![t] = u]
    /\ tgt' = [tgt EXCEPT ![t] = s]

\* Lua runs out of memory while it sets up the guard: userdata and record are
\* left to the collector, for a coroutine with or without a guard table.
\* (When calloc finds no memory for the record the userdata has none, as one
\* of mtint.interruptible that does not find its id.)
AssureFails(t, s, u, i) ==
    /\ CreateRecord(t, s, u, i)
    /\ guard' \in IF s = Main[t] THEN {guard}
                  ELSE {[guard EXCEPT ![u] = g] : g \in {"live", "done"}}
    /\ UNCHANGED <<lookup, locals>>

\* Inside the global lock: into the table, publish L2.
Register(t) ==
    /\ pc[t] = "register" /\ Accessible(t)
    /\ bucket' = bucket \cup {obj[t]}
    /\ L2' = [L2 EXCEPT ![obj[t]] = tgt[t]]
    /\ globalLock' = NULL
    /\ Return(t)
    /\ UNCHANGED <<alloc, used, lock, udata, states>>

\* There is no table yet and calloc fails: mtint_ERROR_OUT_OF_MEMORY.  The
\* record stays behind, unregistered, in a userdata of the lookup table.
RegisterOutOfMemory(t) ==
    /\ pc[t] = "register"
    /\ bucket = {}
    /\ globalLock' = NULL
    /\ Return(t)
    /\ UNCHANGED <<heap, udata, states>>

----------------------------------------------------------------------------
(* mtint.interrupt(id) and mtint.interruptible(id): look a record up by id. *)

\* The argument is the id of any record that was ever allocated.
InterruptById(t, i) ==
    /\ RunsLua(t) /\ alloc[i] # "none"
    /\ Begin(t, "find_lock", i, NULL)
    /\ UNCHANGED <<heap, globalLock, udata, states>>

\* A mutant: a call with an unknown id looks again until the id is known.
FindRetries(t) ==
    /\ pc[t] \in {"find", "open"}
    /\ obj[t] \notin bucket
    /\ globalLock' = NULL
    /\ Goto(t, IF pc[t] = "find" THEN "find_lock" ELSE "open_lock")
    /\ UNCHANGED <<heap, udata, states, obj, cur, tgt>>

\* mtint_ERROR_UNKNOWN_OBJECT: the id is not in the table.
FindFails(t) ==
    /\ pc[t] \in {"find", "open"}
    /\ obj[t] \notin bucket
    /\ globalLock' = NULL
    /\ Return(t)
    /\ UNCHANGED <<heap, udata, states>>

\* A mutant: no reference for the call.
FindUncounted(t) ==
    /\ pc[t] = "find" /\ obj[t] \in bucket
    /\ globalLock' = NULL
    /\ Goto(t, "interrupt_lock")
    /\ UNCHANGED <<heap, udata, states, obj, cur, tgt>>

\* Mtint_interrupt found the record: the call itself takes a reference.
Find(t) ==
    /\ pc[t] = "find" /\ obj[t] \in bucket
    /\ used' = [used EXCEPT ![obj[t]] = @ + 1]
    /\ globalLock' = NULL
    /\ Goto(t, "interrupt_lock")
    /\ UNCHANGED <<alloc, L2, lock, bucket, udata, states, obj, cur, tgt>>

\* Mtint_interruptible allocates the userdata it is to return beforehand.
OpenById(t, i, u) ==
    /\ RunsLua(t) /\ alloc[i] # "none" /\ ud[u] = "none"
    /\ ud'   = [ud EXCEPT ![u] = "live"]
    /\ home' = [home EXCEPT ![u] = t]
    /\ Begin(t, "open_lock", i, u)
    /\ UNCHANGED <<heap, globalLock, guard, interruptible, isMainGuard, states>>

\* A mutant: no reference for the userdata.
OpenUncounted(t) ==
    /\ pc[t] = "open" /\ obj[t] \in bucket
    /\ interruptible' = [interruptible EXCEPT ![cur[t]] = obj[t]]
    /\ globalLock' = NULL
    /\ Return(t)
    /\ UNCHANGED <<heap, ud, guard, home, isMainGuard, states>>

\* It found the record: the userdata takes a reference.
Open(t) ==
    /\ pc[t] = "open" /\ obj[t] \in bucket
    /\ interruptible' = [interruptible EXCEPT ![cur[t]] = obj[t]]
    /\ used' = [used EXCEPT ![obj[t]] = @ + 1]
    /\ globalLock' = NULL
    /\ Return(t)
    /\ UNCHANGED <<alloc, L2, lock, bucket, ud, guard, home, isMainGuard, states>>

\* A userdata that Lua code can hold: only mtint.interruptible hands one out,
\* and only when it has found the record.
IsHandle(u) == guard[u] = "none" /\ ~isMainGuard[u] /\ interruptible[u] # NULL

\* intr:interrupt() and mtint.interrupt(intr): the userdata's own reference
\* keeps the record.
InterruptByUdata(t, u) ==
    /\ RunsLua(t)
    /\ ud[u] = "live" /\ home[u] = t /\ IsHandle(u)
    /\ Begin(t, "interrupt_lock", interruptible[u], u)
    /\ UNCHANGED <<heap, globalLock, udata, states>>

----------------------------------------------------------------------------
(* mtint_interrupt: reach the other thread's lua_State through L2.         *)

ReadL2(t) ==
    /\ pc[t] = "interrupt_read" /\ Accessible(t)
    /\ IF L2[obj[t]] # NULL
       THEN /\ tgt' = [tgt EXCEPT ![t] = L2[obj[t]]]
            /\ Goto(t, "interrupt_hook")
       ELSE /\ Goto(t, "interrupt_unlock")
            /\ UNCHANGED tgt
    /\ UNCHANGED <<heap, globalLock, udata, states, obj, cur>>

\* lua_sethook(intrp->L2, ...) writes into the lua_State, which must not have
\* been freed; what it writes is the subject of module HookDelivery.
SetHook(t) ==
    /\ pc[t] = "interrupt_hook"
    /\ lstate[tgt[t]] # "freed"
    /\ Goto(t, "interrupt_unlock")
    /\ UNCHANGED <<heap, globalLock, udata, states, obj, cur, tgt>>

UnlockIntr(t) ==
    /\ pc[t] = "interrupt_unlock" /\ Accessible(t)
    /\ lock' = [lock EXCEPT ![obj[t]] = NULL]
    /\ IF cur[t] = NULL
       THEN Goto(t, "interrupt_dec") /\ UNCHANGED <<obj, cur, tgt>>
       ELSE Return(t)
    /\ UNCHANGED <<alloc, used, L2, bucket, globalLock, udata, states>>

\* A mutant: only finalizers free records.
InterruptDecOnly(t) ==
    /\ pc[t] = "interrupt_dec" /\ Accessible(t)
    /\ used' = [used EXCEPT ![obj[t]] = @ - 1]
    /\ Return(t)
    /\ UNCHANGED <<alloc, L2, lock, bucket, globalLock, udata, states>>

\* The call by id gives its reference back; with the last one it frees.
InterruptDec(t) ==
    /\ pc[t] = "interrupt_dec" /\ Accessible(t)
    /\ used' = [used EXCEPT ![obj[t]] = @ - 1]
    /\ IF used[obj[t]] = 1
       THEN Goto(t, "free_lock") /\ UNCHANGED <<obj, cur, tgt>>
       ELSE Return(t)
    /\ UNCHANGED <<alloc, L2, lock, bucket, globalLock, udata, states>>

----------------------------------------------------------------------------
(* Finalizers.  Lua calls them in the reverse order in which the objects   *)
(* got their metatable, so a coroutine's guard before its userdata.        *)

\* GuardCoroutine_release
GuardRelease(t, u) ==
    /\ pc[t] = "idle" /\ home[u] = t /\ guard[u] = "queued"
    /\ guard' = [guard EXCEPT ![u] = "done"]
    /\ IF interruptible[u] # NULL
       THEN Begin(t, "guard_lock", interruptible[u], u)
       ELSE UNCHANGED locals
    /\ UNCHANGED <<heap, globalLock, ud, home, interruptible, isMainGuard, states>>

GuardClear(t) ==
    /\ pc[t] = "guard_clear" /\ Accessible(t)
    /\ L2' = [L2 EXCEPT ![obj[t]] = NULL]
    /\ lock' = [lock EXCEPT ![obj[t]] = NULL]
    /\ Return(t)
    /\ UNCHANGED <<alloc, used, bucket, globalLock, udata, states>>

\* A mutant: a userdata without a record is released like any other.
ReleaseUnchecked(t, u) ==
    /\ pc[t] = "idle" /\ home[u] = t /\ ud[u] = "queued"
    /\ guard[u] # "queued"
    /\ ud' = [ud EXCEPT ![u] = "done"]
    /\ Begin(t, "release_dec", interruptible[u], u)
    /\ UNCHANGED <<heap, globalLock, guard, home, interruptible, isMainGuard, states>>

\* A mutant: the guard's metatable set before the userdata's, so that the
\* userdata is finalized first.
ReleaseBeforeGuard(t, u) ==
    /\ pc[t] = "idle" /\ home[u] = t /\ ud[u] = "queued"
    /\ ud' = [ud EXCEPT ![u] = "done"]
    /\ IF interruptible[u] # NULL
       THEN Begin(t, "release_dec", interruptible[u], u)
       ELSE UNCHANGED locals
    /\ UNCHANGED <<heap, globalLock, guard, home, interruptible, isMainGuard, states>>

\* MtInterruptible_release
Release(t, u) ==
    /\ pc[t] = "idle" /\ home[u] = t /\ ud[u] = "queued"
    /\ guard[u] # "queued"
    /\ ud' = [ud EXCEPT ![u] = "done"]
    /\ IF interruptible[u] # NULL
       THEN Begin(t, "release_dec", interruptible[u], u)
       ELSE UNCHANGED locals
    /\ UNCHANGED <<heap, globalLock, guard, home, interruptible, isMainGuard, states>>

\* udata->interruptible = NULL, at the end of MtInterruptible_release
Forget(u) == interruptible' = [interruptible EXCEPT ![u] = NULL]

\* A mutant: a main state's L2 is left alone when others have the record.
ReleaseKeepsL2(t) ==
    /\ pc[t] = "release_dec" /\ Accessible(t)
    /\ used' = [used EXCEPT ![obj[t]] = @ - 1]
    /\ IF used[obj[t]] = 1
       THEN Goto(t, "free_lock") /\ UNCHANGED <<obj, cur, tgt, interruptible>>
       ELSE Return(t) /\ Forget(cur[t])
    /\ UNCHANGED <<alloc, L2, lock, bucket, globalLock, ud, guard, home,
                   isMainGuard, states>>

\* A mutant: a release waits until the others have dropped the record.
ReleaseWaits(t) ==
    /\ pc[t] = "release_dec" /\ Accessible(t)
    /\ IF used[obj[t]] = 1
       THEN /\ used' = [used EXCEPT ![obj[t]] = 0]
            /\ Goto(t, "free_lock")
       ELSE UNCHANGED <<used, pc>>
    /\ UNCHANGED <<alloc, L2, lock, bucket, globalLock, udata, states,
                   obj, cur, tgt>>

\* atomic_dec(&intrp->used), and the branch on what it returns
ReleaseDec(t) ==
    /\ pc[t] = "release_dec" /\ Accessible(t)
    /\ used' = [used EXCEPT ![obj[t]] = @ - 1]
    /\ IF used[obj[t]] = 1 \/ isMainGuard[cur[t]]
       THEN /\ Goto(t, IF used[obj[t]] = 1 THEN "free_lock" ELSE "main_lock")
            /\ UNCHANGED <<obj, cur, tgt, interruptible>>
       ELSE Return(t) /\ Forget(cur[t])
    /\ UNCHANGED <<alloc, L2, lock, bucket, globalLock, ud, guard, home,
                   isMainGuard, states>>

MainClear(t) ==
    /\ pc[t] = "main_clear" /\ Accessible(t)
    /\ L2' = [L2 EXCEPT ![obj[t]] = NULL]
    /\ lock' = [lock EXCEPT ![obj[t]] = NULL]
    /\ Forget(cur[t])
    /\ Return(t)
    /\ UNCHANGED <<alloc, used, bucket, globalLock, ud, guard, home,
                   isMainGuard, states>>

\* MtInterruptible_free under the global lock, for a release and for a call
\* by id that turned out to hold the last reference.
Free(t) ==
    /\ pc[t] = "free" /\ Accessible(t)
    /\ bucket' = bucket \ {obj[t]}
    /\ alloc' = [alloc EXCEPT ![obj[t]] = "freed"]
    /\ globalLock' = NULL
    /\ IF cur[t] # NULL THEN Forget(cur[t]) ELSE UNCHANGED interruptible
    /\ Return(t)
    /\ UNCHANGED <<used, L2, lock, ud, guard, home, isMainGuard, states>>

----------------------------------------------------------------------------
(* The Lua universe, which the library sees through its finalizers and its *)
(* weak lookup table.                                                      *)

NewCoroutine(t, s) ==
    /\ RunsLua(t) /\ Owner[s] = t /\ lstate[s] = "none"
    /\ lstate' = [lstate EXCEPT ![s] = "live"]
    /\ UNCHANGED <<heap, globalLock, udata, lookup, phase, locals>>

\* The finalizers of userdata u and of the guard made with it become due.
Queue(S) ==
    /\ ud'    = [u \in Udata |-> IF u \in S /\ ud[u] = "live"
                                 THEN "queued" ELSE ud[u]]
    /\ guard' = [u \in Udata |-> IF u \in S /\ guard[u] = "live"
                                 THEN "queued" ELSE guard[u]]
    /\ UNCHANGED <<home, interruptible, isMainGuard>>

\* The collector finds coroutine s unreachable, and with it its guard.
CollectCoroutine(t, s) ==
    /\ RunsLua(t) /\ Owner[s] = t /\ s # Main[t] /\ lstate[s] = "live"
    /\ lstate' = [lstate EXCEPT ![s] = "doomed"]
    /\ Queue({lookup[s]})
    /\ UNCHANGED <<heap, globalLock, lookup, phase, locals>>

\* A finalizer of the program makes s reachable again; its guard's finalizer
\* runs all the same, and the lookup table keeps the entry.
Resurrect(t, s) ==
    /\ RunsLua(t) /\ Owner[s] = t /\ lstate[s] = "doomed"
    /\ lstate' = [lstate EXCEPT ![s] = "live"]
    /\ UNCHANGED <<heap, globalLock, udata, lookup, phase, locals>>

\* The guard refers to its coroutine, so the memory of s goes only after the
\* guard's finalizer was called; the weak key goes with it.
FreeCoroutine(t, s) ==
    /\ RunsLua(t) /\ Owner[s] = t /\ lstate[s] = "doomed"
    /\ lookup[s] # NULL => guard[lookup[s]] = "done"
    /\ lstate' = [lstate EXCEPT ![s] = "freed"]
    /\ lookup' = [lookup EXCEPT ![s] = NULL]
    /\ UNCHANGED <<heap, globalLock, udata, phase, locals>>

\* The lookup table holds u, or the guard that refers to u, as long as the
\* state that is the weak key of the entry is there.
IsAnchored(u) == \E s \in LState : lookup[s] = u

\* A handle the program dropped, a guard replaced in the lookup table, or one
\* that never got there.
CollectUdata(t, u) ==
    /\ RunsLua(t) /\ home[u] = t /\ ud[u] = "live"
    /\ ~IsAnchored(u)
    /\ Queue({u})
    /\ UNCHANGED <<heap, globalLock, states, locals>>

\* lua_close calls every finalizer that is left, then frees all states.
CloseUniverse(t) ==
    /\ RunsLua(t)
    /\ phase' = [phase EXCEPT ![t] = "closing"]
    /\ Queue({u \in Udata : home[u] = t})
    /\ UNCHANGED <<heap, globalLock, lstate, lookup, locals>>

Closed(t) ==
    /\ pc[t] = "idle" /\ phase[t] = "closing"
    /\ \A u \in Udata : home[u] = t => "queued" \notin {ud[u], guard[u]}
    /\ phase'  = [phase EXCEPT ![t] = "closed"]
    /\ lstate' = [s \in LState |-> IF Owner[s] = t THEN "freed" ELSE lstate[s]]
    /\ lookup' = [s \in LState |-> IF Owner[s] = t THEN NULL ELSE lookup[s]]
    /\ UNCHANGED <<heap, globalLock, udata, locals>>

----------------------------------------------------------------------------
(* Specifications.                                                         *)

Init ==
    /\ alloc = [i \in Intr |-> "none"]
    /\ used  = [i \in Intr |-> 0]
    /\ L2    = [i \in Intr |-> NULL]
    /\ lock  = [i \in Intr |-> NULL]
    /\ bucket = {}
    /\ globalLock = NULL
    /\ lstate = [s \in LState |-> IF s = Main[Owner[s]] THEN "live" ELSE "none"]
    /\ lookup = [s \in LState |-> NULL]
    /\ ud     = [u \in Udata |-> "none"]
    /\ guard  = [u \in Udata |-> "none"]
    /\ home   = [u \in Udata |-> NULL]
    /\ interruptible = [u \in Udata |-> NULL]
    /\ isMainGuard   = [u \in Udata |-> FALSE]
    /\ phase  = [t \in Thread |-> "open"]
    /\ pc  = [t \in Thread |-> "idle"]
    /\ obj = [t \in Thread |-> NULL]
    /\ cur = [t \in Thread |-> NULL]
    /\ tgt = [t \in Thread |-> NULL]

\* Lua code of thread t calls into the library.
Call(t) ==
    \/ \E s \in LState, u \in Udata, i \in Intr : \/ AssureCreated(t, s, u, i)
                                                  \/ AssureFails(t, s, u, i)
    \/ \E i \in Intr : InterruptById(t, i)
    \/ \E i \in Intr, u \in Udata : OpenById(t, i, u)
    \/ \E u \in Udata : InterruptByUdata(t, u)

\* The C function thread t is in goes on.
Continue(t) ==
    \/ LockGlobal(t, "register_lock", "register")
    \/ LockGlobal(t, "find_lock", "find")
    \/ LockGlobal(t, "open_lock", "open")
    \/ LockGlobal(t, "free_lock", "free")
    \/ LockIntr(t, "interrupt_lock", "interrupt_read")
    \/ LockIntr(t, "guard_lock", "guard_clear")
    \/ LockIntr(t, "main_lock", "main_clear")
    \/ Register(t) \/ RegisterOutOfMemory(t)
    \/ FindFails(t) \/ Find(t) \/ Open(t)
    \/ ReadL2(t) \/ SetHook(t) \/ UnlockIntr(t) \/ InterruptDec(t)
    \/ GuardClear(t) \/ ReleaseDec(t) \/ MainClear(t) \/ Free(t)

\* Lua calls a finalizer that is due.
Finalize(t) == \E u \in Udata : GuardRelease(t, u) \/ Release(t, u)

\* The program, or the collector, changes what is alive in t's universe.
Universe(t) ==
    \/ \E s \in LState : \/ NewCoroutine(t, s) \/ CollectCoroutine(t, s)
                         \/ Resurrect(t, s) \/ FreeCoroutine(t, s)
    \/ \E u \in Udata : CollectUdata(t, u)
    \/ CloseUniverse(t)

Step(t) == Call(t) \/ Continue(t) \/ Finalize(t) \/ Universe(t) \/ Closed(t)

AllClosed == \A t \in Thread : phase[t] = "closed"

\* All universes have been closed and the program is over.
Done == AllClosed /\ UNCHANGED vars

Next == (\E t \in Thread : Step(t)) \/ Done

Spec == Init /\ [][Next]_vars

(***************************************************************************)
(* MtInterruptible_release and Mtint_interrupt drop a reference with an    *)
(* atomic decrement and only then take a lock.  Two windows open there:    *)
(*   - after the last reference is gone and before the record is freed, it *)
(*     can still be found by id;                                           *)
(*   - after a main state's userdata has dropped its reference and before  *)
(*     it has cleared L2, another thread may drop the last one.            *)
(* SerialSpec keeps the other threads out of both, as would a decrement    *)
(* inside the critical section that follows it.                            *)
(***************************************************************************)
FreeWindow(t)  == pc[t] \in {"free_lock", "free"}
ClearWindow(t) == pc[t] \in {"main_lock", "main_clear"}

WindowsRespected ==
    \A t \in Thread :
        /\ FreeWindow(t) => \A r \in Thread :
                               obj[r] = obj[t] => pc[r] \notin {"find", "open"}
        /\ ClearWindow(t) => used[obj[t]] > 0

SerialNext == Next /\ WindowsRespected'
SerialSpec == Init /\ [][SerialNext]_vars

(***************************************************************************)
(* Fairness: the operating system runs every thread and lets every waiter  *)
(* have a contended lock some time (SF); lua_close calls the finalizers    *)
(* and returns (WF).  Lua programs need not do anything.                   *)
(***************************************************************************)
Fairness ==
    \A t \in Thread :
        /\ SF_vars(Continue(t) /\ WindowsRespected')
        /\ WF_vars(phase[t] = "closing" /\ Finalize(t))
        /\ WF_vars(Closed(t))

FairSpec == SerialSpec /\ Fairness

----------------------------------------------------------------------------
(* Invariants of every behaviour.                                          *)

\* Every variable has its type, and a C function that has begun has a record
\* to work on (the type invariant of this module).
TypeOK ==
    /\ alloc \in [Intr -> {"none", "live", "freed"}]
    /\ used \in [Intr -> Int]
    /\ L2 \in [Intr -> LState \cup {NULL}]
    /\ lock \in [Intr -> Thread \cup {NULL}]
    /\ bucket \in SUBSET Intr
    /\ globalLock \in Thread \cup {NULL}
    /\ lstate \in [LState -> {"none", "live", "doomed", "freed"}]
    /\ lookup \in [LState -> Udata \cup {NULL}]
    /\ ud \in [Udata -> {"none", "live", "queued", "done"}]
    /\ guard \in [Udata -> {"none", "live", "queued", "done"}]
    /\ home \in [Udata -> Thread \cup {NULL}]
    /\ interruptible \in [Udata -> Intr \cup {NULL}]
    /\ isMainGuard \in [Udata -> BOOLEAN]
    /\ phase \in [Thread -> {"open", "closing", "closed"}]
    /\ pc \in [Thread -> Points]
    /\ obj \in [Thread -> Intr \cup {NULL}]
    /\ cur \in [Thread -> Udata \cup {NULL}]
    /\ tgt \in [Thread -> LState \cup {NULL}]
    /\ \A t \in Thread : obj[t] = NULL <=> pc[t] = "idle"

\* A call by id holds its own reference to the record it has found.
InCallById(t) ==
    /\ pc[t] \in {"interrupt_lock", "interrupt_read", "interrupt_hook",
                  "interrupt_unlock", "interrupt_dec"}
    /\ cur[t] = NULL

\* The release of userdata u is past its decrement.
Dropped(u) == /\ home[u] # NULL /\ cur[home[u]] = u
              /\ FreeWindow(home[u]) \/ ClearWindow(home[u])

CallRefs(i)  == {t \in Thread : obj[t] = i /\ InCallById(t)}
UdataRefs(i) == {u \in Udata : interruptible[u] = i /\ ~Dropped(u)}
Refs(i) == CallRefs(i) \cup UdataRefs(i)

\* The counter of a record is the number of userdata that point to it and of
\* calls by id that work on it, whatever the threads' atomic increments and
\* decrements interleave with.
UsedCountsRefs ==
    \A i \in Intr : alloc[i] = "live" => used[i] = Cardinality(Refs(i))

\* No record leaks: one that nobody refers to is about to be freed.
UnreferencedIsBeingFreed ==
    \A i \in Intr : alloc[i] = "live" /\ Refs(i) = {} =>
        \E t \in Thread : obj[t] = i /\ FreeWindow(t)

\* A record's L2 never points to a lua_State that Lua has freed: guard and
\* main userdata clear it, or free the record, before that.
DetachedBeforeFreed ==
    \A i \in Intr :
        alloc[i] = "live" /\ L2[i] # NULL => lstate[L2[i]] # "freed"

\* The L2 that mtint_interrupt has tested under the record's lock is still
\* the record's L2 when lua_sethook uses it.
TestedL2IsCurrent ==
    \A t \in Thread :
        pc[t] = "interrupt_hook" /\ Accessible(t) => L2[obj[t]] = tgt[t]

----------------------------------------------------------------------------
(* Safety of memory, outside the two windows.                              *)

\* No C function touches a record that has been freed (and none frees a
\* record twice).
NoUseAfterFree ==
    \A t \in Thread : pc[t] \in Touches => Accessible(t)

\* A userdata that was not finalized points to a live record, so that
\* assureCreatedMtInterruptible and the methods may follow its pointer.
UdataPointsToLive ==
    \A u \in Udata :
        ud[u] \in {"live", "queued"} /\ interruptible[u] # NULL
            => alloc[interruptible[u]] = "live"

\* lua_sethook is never called for a lua_State that was freed, although the
\* state's universe may be closing or collecting it at the same time.
HookTargetAlive ==
    \A t \in Thread : pc[t] = "interrupt_hook" => lstate[tgt[t]] # "freed"

\* A record's Lock is destroyed only when no thread holds it.
NoLockedDestroy ==
    \A t \in Thread : pc[t] = "free" /\ Accessible(t) => lock[obj[t]] = NULL

----------------------------------------------------------------------------
(* Safety of memory as README.md promises it, windows or not.              *)

\* An interrupt by id whose record is gone reports unknown_object: it never
\* goes on with a record that was freed (README.md, mtint.error.unknown_object).
InterruptReportsGone ==
    \A t \in Thread : InCallById(t) => alloc[obj[t]] = "live"

\* A main state's interruptible can be detached while other threads interrupt
\* it and drop their handles (README.md: "interruptible from concurrently
\* running threads").
DetachReachesRecord ==
    \A t \in Thread : ClearWindow(t) => alloc[obj[t]] = "live"

----------------------------------------------------------------------------
(* Liveness.                                                               *)

\* Every call and every finalizer returns: no thread waits for ever for a
\* lock.
EveryCallReturns == \A t \in Thread : pc[t] # "idle" ~> pc[t] = "idle"

\* lua_close of a universe ends.
CloseEnds == \A t \in Thread : phase[t] = "closing" ~> phase[t] = "closed"

----------------------------------------------------------------------------
(* The reference counts implement the reclamation of shared records.       *)

Holders == [i \in Intr |-> IF alloc[i] = "live" THEN Refs(i) ELSE {}]

RC == INSTANCE Reclamation WITH
        Obj <- Intr, Holder <- Thread \cup Udata, life <- alloc, holders <- Holders

\* Outside the two windows the calls by id and the userdata that refer to a
\* record hold it as Reclamation says: in one step at most one of them comes
\* or goes, none comes back to a record that has lost its last one, and a
\* record is freed once, when it has none.
ImplementsReclamation == RC!Spec

\* A record that has lost its last reference is freed: whoever has found the
\* counter at zero gets to the end of MtInterruptible_free.
RecordsAreReclaimed == RC!Reclaims
=============================================================================
