----------------------------- MODULE ModuleInit -----------------------------
(***************************************************************************)
(* Loading the module (src/main.c): luaopen_mtint and the finalizer of the *)
(* sentinel that it leaves in every Lua state.                             *)
(*                                                                         *)
(* Each thread runs one Lua state.  The first loader of the process wins a *)
(* compare and swap and initializes the global mutex; the losers poll.     *)
(* Then, under the global mutex, the id counter is seeded once and the     *)
(* state is counted once; without it the Lua tables of the module are      *)
(* built.  The mutex is recursive: owner and depth.                        *)
(* Pointers into nowhere: a lock or unlock before mtint_global_lock is set *)
(* is undefined behaviour and has no successor here.                       *)
(***************************************************************************)
EXTENDS Integers, FiniteSets, Sequences, Atomics

CONSTANTS
    Thread,
    Seed,           \* what time and load address may give: 24 bits of an int
    MaxIds,         \* bounds the ids that are given out
    MaxFailures     \* bounds the out of memory errors of Lua

ASSUME InitAssumption ==
    /\ IsFiniteSet(Thread)
    /\ Seed \subseteq 0..MaxInt
    /\ MaxIds \in Nat /\ MaxFailures \in Nat

VARIABLES
    initStage,      \* 0, 1 while the mutex is being initialized, 2
    mutexReady,     \* async_mutex_init(&global_mutex) has run
    lockSet,        \* mtint_global_lock # NULL
    owner, depth,   \* of global_mutex: a set of at most one thread, Nat
    initialized,
    idCounter,      \* mtint_id_counter
    stateCounter,
    pc,             \* of luaopen_mtint, in each thread
    fin,            \* of handleClosingLuaState, while it runs in a thread
    seen,           \* what a thread has read of stateCounter
    registered,     \* the registry of the thread's state has the sentinel
    loose,          \* sentinels of the state that never got that far
    meta,           \* the metatable of the interruptibles in the registry:
                    \* none, bare (without methods and __gc), spoiled (left
                    \* bare by a load that has failed) or full
    issued,         \* the ids that have been given out
    abandoned,      \* levels of the mutex that failed loads have left locked
    lost,           \* failed loads that are counted and have no sentinel
    failures

stage  == <<initStage, mutexReady, lockSet>>
mutex  == <<owner, depth>>
ids    == <<initialized, idCounter, issued>>
count  == <<stateCounter, seen>>
states == <<registered, loose, meta>>
errors == <<abandoned, lost, failures>>
vars   == <<stage, mutex, ids, count, states, errors, pc, fin>>

At(t, from, to) == fin[t] = "none" /\ pc[t] = from /\ pc' = [pc EXCEPT ![t] = to]

\* async_mutex_lock and async_mutex_unlock of the global mutex.
Acquire(t) ==
    /\ lockSet /\ mutexReady
    /\ owner \subseteq {t}
    /\ owner' = {t} /\ depth' = depth + 1

Release(t) ==
    /\ lockSet /\ mutexReady
    /\ owner = {t}
    /\ depth' = depth - 1
    /\ owner' = IF depth = 1 THEN {} ELSE {t}

----------------------------------------------------------------------------
(* luaopen_mtint: the stages of the initialization.                        *)

\* require "mtint", the first one in the state, or one after package.loaded
\* has been cleared, or after an error: atomic_get(&initStage) != 2.
Load(t) ==
    /\ \E from \in {"idle", "ready", "raised"} :
            At(t, from, IF initStage = 2 THEN "lock" ELSE "elect")
    /\ UNCHANGED <<stage, mutex, ids, count, states, errors, fin>>

\* A mutant: the stage counts the loaders, the first of whom wins.
ElectByCounting(t) ==
    /\ At(t, "elect", IF initStage = 0 THEN "init" ELSE "poll")
    /\ initStage' = Incremented(initStage)
    /\ UNCHANGED <<mutexReady, lockSet, mutex, ids, count, states, errors, fin>>

\* A mutant: everyone who comes before the end of it initializes the mutex.
ElectEveryone(t) ==
    /\ At(t, "elect", "init")
    /\ initStage' = SetIfEqual(initStage, 0, 1)
    /\ UNCHANGED <<mutexReady, lockSet, mutex, ids, count, states, errors, fin>>

\* atomic_set_if_equal(&initStage, 0, 1)
Elect(t) ==
    /\ At(t, "elect", IF initStage = 0 THEN "init" ELSE "poll")
    /\ initStage' = SetIfEqual(initStage, 0, 1)
    /\ UNCHANGED <<mutexReady, lockSet, mutex, ids, count, states, errors, fin>>

InitMutex(t) ==
    /\ At(t, "init", "point")
    /\ mutexReady' = TRUE
    /\ owner' = {} /\ depth' = 0
    /\ UNCHANGED <<initStage, lockSet, ids, count, states, errors, fin>>

SetPointer(t) ==
    /\ At(t, "point", "publish")
    /\ lockSet' = TRUE
    /\ UNCHANGED <<initStage, mutexReady, mutex, ids, count, states, errors, fin>>

\* A mutant: the winner leaves the stage at 1.
PublishForgotten(t) ==
    /\ At(t, "publish", "lock")
    /\ UNCHANGED <<stage, mutex, ids, count, states, errors, fin>>

Publish(t) ==
    /\ At(t, "publish", "lock")
    /\ initStage' = 2
    /\ UNCHANGED <<mutexReady, lockSet, mutex, ids, count, states, errors, fin>>

Poll(t) ==
    /\ At(t, "poll", IF initStage = 2 THEN "lock" ELSE "wait")
    /\ UNCHANGED <<stage, mutex, ids, count, states, errors, fin>>

\* async_mutex_wait_millis on a mutex of the thread's own ends after 1 ms.
WaitEnds(t) ==
    /\ At(t, "wait", "poll")
    /\ UNCHANGED <<stage, mutex, ids, count, states, errors, fin>>

----------------------------------------------------------------------------
(* luaopen_mtint: the part under the global mutex.                         *)

Lock(t) ==
    /\ At(t, "lock", IF initialized THEN "registry" ELSE "seed")
    /\ Acquire(t)
    /\ UNCHANGED <<stage, ids, count, states, errors, fin>>

\* A mutant: the id counter is seeded by every load.
SeedIdsAgain(t) ==
    /\ At(t, "seed", "registry")
    /\ idCounter' \in Seed
    /\ UNCHANGED <<initialized, issued, stage, mutex, count, states, errors, fin>>

SeedIds(t) ==
    /\ At(t, "seed", "registry")
    /\ idCounter' \in Seed
    /\ initialized' = TRUE
    /\ UNCHANGED <<issued, stage, mutex, count, states, errors, fin>>

\* A mutant: a load counts its state although it is counted already.
CountEveryLoad(t) ==
    /\ At(t, "registry", IF registered[t] THEN "unlock" ELSE "count")
    /\ seen' = [seen EXCEPT ![t] = IF registered[t] THEN 0 ELSE stateCounter]
    /\ stateCounter' = stateCounter + IF registered[t] THEN 1 ELSE 0
    /\ UNCHANGED <<stage, mutex, ids, states, errors, fin>>

\* A mutant: a load of a state that is known leaves without an unlock.
KnownStateKeepsLock(t) ==
    /\ At(t, "registry", IF registered[t] THEN "tables" ELSE "count")
    /\ seen' = [seen EXCEPT ![t] = IF registered[t] THEN 0 ELSE stateCounter]
    /\ UNCHANGED <<stateCounter, stage, mutex, ids, states, errors, fin>>

\* A mutant: a load of a state that is known unlocks and returns at once.
KnownStateReturns(t) ==
    /\ At(t, "registry", IF registered[t] THEN "ready" ELSE "count")
    /\ IF registered[t] THEN Release(t) ELSE UNCHANGED mutex
    /\ seen' = [seen EXCEPT ![t] = IF registered[t] THEN 0 ELSE stateCounter]
    /\ UNCHANGED <<stateCounter, stage, ids, states, errors, fin>>

\* Is the sentinel in the registry?  If not, stateCounter is read ...
CheckRegistry(t) ==
    /\ At(t, "registry", IF registered[t] THEN "unlock" ELSE "count")
    /\ seen' = [seen EXCEPT ![t] = IF registered[t] THEN 0 ELSE stateCounter]
    /\ UNCHANGED <<stateCounter, stage, mutex, ids, states, errors, fin>>

\* ... and written.
CountState(t) ==
    /\ At(t, "count", "attach")
    /\ stateCounter' = seen[t] + 1
    /\ seen' = [seen EXCEPT ![t] = 0]
    /\ UNCHANGED <<stage, mutex, ids, states, errors, fin>>

\* The sentinel gets its metatable: from now on it will be finalized.
AttachSentinel(t) ==
    /\ At(t, "attach", "store")
    /\ loose' = [loose EXCEPT ![t] = @ + 1]
    /\ UNCHANGED <<registered, meta, stage, mutex, ids, count, errors, fin>>

StoreSentinel(t) ==
    /\ At(t, "store", "unlock")
    /\ loose[t] > 0
    /\ loose' = [loose EXCEPT ![t] = @ - 1]
    /\ registered' = [registered EXCEPT ![t] = TRUE]
    /\ UNCHANGED <<meta, stage, mutex, ids, count, errors, fin>>

Unlock(t) ==
    /\ At(t, "unlock", "tables")
    /\ Release(t)
    /\ UNCHANGED <<stage, ids, count, states, errors, fin>>

\* Lua runs out of memory while it builds the sentinel or stores it in the
\* registry, and leaves luaopen_mtint by an error: with the mutex locked, and
\* if there is no sentinel yet, with a state that nothing will uncount.
OutOfMemory(t) ==
    /\ failures < MaxFailures
    /\ \E from \in {"attach", "store"} : At(t, from, "raised")
    /\ failures' = failures + 1
    /\ abandoned' = [abandoned EXCEPT ![t] = @ + 1]
    /\ lost' = lost + IF pc[t] = "attach" THEN 1 ELSE 0
    /\ UNCHANGED <<stage, mutex, ids, count, states, fin>>

----------------------------------------------------------------------------
(* luaopen_mtint: the tables of the module, in each state for itself.      *)

\* The tables of the module and its errors, and luaL_newmetatable: it puts an
\* empty table into the registry, unless there is one.
BuildTables(t) ==
    /\ At(t, "tables", IF meta[t] = "none" THEN "meta" ELSE "functions")
    /\ meta' = [meta EXCEPT ![t] = IF @ = "none" THEN "bare" ELSE @]
    /\ UNCHANGED <<registered, loose, stage, mutex, ids, count, errors, fin>>

\* setupInterruptibleMeta, for a new metatable only.
SetupMeta(t) ==
    /\ At(t, "meta", "functions")
    /\ meta' = [meta EXCEPT ![t] = "full"]
    /\ UNCHANGED <<registered, loose, stage, mutex, ids, count, errors, fin>>

\* The functions and the names of the errors are in their tables.
LoadEnds(t) ==
    /\ At(t, "functions", "ready")
    /\ UNCHANGED <<stage, mutex, ids, count, states, errors, fin>>

\* Lua runs out of memory meanwhile; what is in the registry stays there, and
\* later loads take a metatable that setupInterruptibleMeta has not filled.
TablesOutOfMemory(t) ==
    /\ failures < MaxFailures
    /\ \E from \in {"tables", "meta", "functions"} : At(t, from, "raised")
    /\ failures' = failures + 1
    /\ meta' = [meta EXCEPT ![t] = IF pc[t] = "meta" THEN "spoiled" ELSE @]
    /\ UNCHANGED <<registered, loose, abandoned, lost,
                   stage, mutex, ids, count, fin>>

----------------------------------------------------------------------------
(* What a loaded module does with it, and the end of a state.              *)

\* atomic_inc(&mtint_id_counter), without the mutex.
GiveId(t) ==
    /\ fin[t] = "none" /\ pc[t] = "ready"
    /\ Len(issued) < MaxIds
    /\ idCounter' = Incremented(idCounter)
    /\ issued' = Append(issued, idCounter')
    /\ UNCHANGED <<initialized, stage, mutex, count, states, errors, pc, fin>>

\* lua_close finalizes the sentinels that are left in the state.
Close(t) ==
    /\ \E from \in {"ready", "raised"} : At(t, from, "closing")
    /\ UNCHANGED <<stage, mutex, ids, count, states, errors, fin>>

Closed(t) ==
    /\ At(t, "closing", "closed")
    /\ ~registered[t] /\ loose[t] = 0
    /\ UNCHANGED <<stage, mutex, ids, count, states, errors, fin>>

\* Sentinels of t that are due: when its state closes all of them, otherwise
\* those that no registry holds, at any allocation of Lua.  The one that the
\* load of this moment has made is held by the stack.
IsDue(t) ==
    \/ pc[t] = "closing" /\ (registered[t] \/ loose[t] > 0)
    \/ /\ pc[t] \in {"ready", "raised", "attach", "tables", "meta", "functions"}
       /\ loose[t] > 0
    \/ pc[t] = "store" /\ loose[t] > 1

\* handleClosingLuaState, called by the garbage collector.
Finalize(t) ==
    /\ fin[t] = "none" /\ IsDue(t)
    /\ fin' = [fin EXCEPT ![t] = "lock"]
    /\ UNCHANGED <<stage, mutex, ids, count, states, errors, pc>>

FinMove(t, from, to) == fin[t] = from /\ fin' = [fin EXCEPT ![t] = to]

\* A mutant: the finalizer does not take the mutex.
FinLockForgotten(t) ==
    /\ FinMove(t, "lock", "dec")
    /\ seen' = [seen EXCEPT ![t] = stateCounter]
    /\ UNCHANGED <<mutex, stateCounter, stage, ids, states, errors, pc>>

FinLock(t) ==
    /\ FinMove(t, "lock", "dec")
    /\ Acquire(t)
    /\ seen' = [seen EXCEPT ![t] = stateCounter]
    /\ UNCHANGED <<stateCounter, stage, ids, states, errors, pc>>

FinCount(t) ==
    /\ FinMove(t, "dec", "unlock")
    /\ stateCounter' = seen[t] - 1
    /\ seen' = [seen EXCEPT ![t] = 0]
    /\ IF loose[t] > 0
       THEN loose' = [loose EXCEPT ![t] = @ - 1] /\ UNCHANGED registered
       ELSE registered' = [registered EXCEPT ![t] = FALSE] /\ UNCHANGED loose
    /\ UNCHANGED <<meta, stage, mutex, ids, errors, pc>>

FinUnlock(t) ==
    /\ FinMove(t, "unlock", "none")
    /\ Release(t)
    /\ UNCHANGED <<stage, ids, count, states, errors, pc>>

----------------------------------------------------------------------------
Init ==
    /\ initStage = 0 /\ mutexReady = FALSE /\ lockSet = FALSE
    /\ owner = {} /\ depth = 0
    /\ initialized = FALSE /\ idCounter = 0 /\ issued = <<>>
    /\ stateCounter = 0 /\ seen = [t \in Thread |-> 0]
    /\ registered = [t \in Thread |-> FALSE] /\ loose = [t \in Thread |-> 0]
    /\ meta = [t \in Thread |-> "none"]
    /\ abandoned = [t \in Thread |-> 0] /\ lost = 0 /\ failures = 0
    /\ pc = [t \in Thread |-> "idle"] /\ fin = [t \in Thread |-> "none"]

\* The steps that a thread takes by itself once it has begun to load the
\* module or to finalize a sentinel.
Continue(t) ==
    \/ Elect(t) \/ InitMutex(t) \/ SetPointer(t) \/ Publish(t)
    \/ Poll(t) \/ WaitEnds(t)
    \/ SeedIds(t) \/ CheckRegistry(t) \/ CountState(t)
    \/ AttachSentinel(t) \/ StoreSentinel(t) \/ Unlock(t)
    \/ BuildTables(t) \/ SetupMeta(t) \/ LoadEnds(t)
    \/ FinCount(t) \/ FinUnlock(t)

Next == \E t \in Thread :
    \/ Continue(t) \/ Lock(t) \/ FinLock(t)
    \/ Load(t) \/ GiveId(t) \/ Close(t) \/ Closed(t) \/ Finalize(t)
    \/ OutOfMemory(t) \/ TablesOutOfMemory(t)

Spec == Init /\ [][Next]_vars

\* Threads are scheduled fairly, and so are those that wait for the mutex.
FairSpec ==
    /\ Spec
    /\ \A t \in Thread : /\ WF_vars(Continue(t))
                         /\ SF_vars(Lock(t) \/ FinLock(t))

----------------------------------------------------------------------------
(* Invariants.                                                             *)

Stages == {"idle", "elect", "init", "point", "publish", "poll", "wait", "lock",
           "seed", "registry", "count", "attach", "store", "unlock",
           "tables", "meta", "functions", "ready", "raised", "closing", "closed"}

\* The type invariant of this module.  stateCounter, a plain int that finalizers
\* decrement, never falls below zero.
TypeOK ==
    /\ initStage \in 0..2 /\ mutexReady \in BOOLEAN /\ lockSet \in BOOLEAN
    /\ owner \subseteq Thread /\ depth \in Nat
    /\ initialized \in BOOLEAN /\ idCounter \in AtomicCounter
    /\ issued \in Seq(AtomicCounter)
    /\ stateCounter \in Nat /\ seen \in [Thread -> Nat]
    /\ registered \in [Thread -> BOOLEAN] /\ loose \in [Thread -> Nat]
    /\ meta \in [Thread -> {"none", "bare", "spoiled", "full"}]
    /\ abandoned \in [Thread -> Nat] /\ lost \in Nat /\ failures \in Nat
    /\ pc \in [Thread -> Stages]
    /\ fin \in [Thread -> {"none", "lock", "dec", "unlock"}]

Initializing == {"init", "point", "publish"}
Before       == {"idle", "elect", "poll", "wait"}
Locked       == {"seed", "registry", "count", "attach", "store", "unlock"}

\* Once a thread is past the initialization the mutex is ready, the pointer to
\* it is set, and nobody is about to initialize it under the feet of its owner.
MutexIsStable ==
    \A t \in Thread : pc[t] \notin Before \cup Initializing =>
        /\ mutexReady /\ lockSet
        /\ \A u \in Thread : pc[u] \notin Initializing

\* Two threads are never inside the critical sections of this module at once:
\* a load and a load, or a load and a finalizer of another state.
InSection(t) == pc[t] \in Locked \/ fin[t] \in {"dec", "unlock"}
MutualExclusion ==
    \A t, u \in Thread : InSection(t) /\ InSection(u) => t = u

\* No id is given out twice: the counter is never seeded again, by no thread
\* and in no order of loads, after an id has been taken from it.
IdsAreUnique ==
    \A i, j \in 1..Len(issued) : issued[i] = issued[j] => i = j

\* Whoever is not inside the mutex has given it back as often as it took it, on
\* every path and with finalizers that run inside a load; only a load that runs
\* out of memory in there leaves a level behind.
Levels(t) ==
    abandoned[t] + (IF pc[t] \in Locked THEN 1 ELSE 0)
                 + (IF fin[t] \in {"dec", "unlock"} THEN 1 ELSE 0)
MutexIsGivenBack ==
    \A t \in Thread :
        IF Levels(t) > 0 THEN owner = {t} /\ depth = Levels(t)
                         ELSE t \notin owner

\* The counter of states counts the sentinels: <<t, 0>> for the one in the
\* registry or about to be made, others for those that failed loads have left
\* to the collector.  A load that fails before its sentinel is complete stays
\* counted for ever, whatever happens to its state.
Sentinels ==
    {t \in Thread : registered[t] \/ pc[t] = "attach"} \X {0}
        \cup UNION {{t} \X (1..loose[t]) : t \in Thread}
StateCount == stateCounter = Cardinality(Sentinels) + lost

\* A state in which a load has succeeded has the metatable with __gc, on which
\* the release of records rests, whatever other loads of it have failed and
\* wherever.  Only a load that fails in the middle of setupInterruptibleMeta
\* spoils it for the later ones, for which require succeeds nevertheless.
LoadedCollects ==
    \A t \in Thread : pc[t] = "ready" => meta[t] \in {"full", "spoiled"}

----------------------------------------------------------------------------
(* Liveness.                                                               *)

Loading(t) == pc[t] \notin {"idle", "ready", "raised", "closing", "closed"}

\* Whoever has begun to load the module gets to the end of it, the first
\* loaders that race for the initialization as well as the later ones.  Only a
\* load that has run out of memory under the mutex stops the others: it leaves
\* the mutex locked for ever.
LoadsEnd ==
    \A t \in Thread :
        Loading(t) ~> ~Loading(t) \/ \E u \in Thread : abandoned[u] > 0
=============================================================================
