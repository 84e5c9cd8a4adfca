# A TLA+ verification of lua-mtint

lua-mtint makes Lua states interruptible from other threads.  A state gets an
integer id (`mtint.id`), the id is passed to another thread by any means, and
there `mtint.interrupt(id)` installs a debug hook in the state that runs a
handler or raises an error.  The library keeps one C record per interruptible
state, `MtInterruptible`, shared by all Lua universes of the process.

Paths below are relative to the repository; `interruptible.c` and the other C
files are in its directory `src/`.

## Inventory

| component | state | operations | works with |
|---|---|---|---|
| records (`interruptible.c`) | per record: reference counter `used`, `Lock`, `L2`, `initialized`; per userdata: `interruptible`, `isMainGuard`; per universe: the weak lookup table from a state to its guard | `mtint.id`, `mtint.interrupt`, `mtint.interruptible`, the method `interrupt`, the finalizers of userdata and of coroutine guards | hash table, locks, the Lua collector |
| hash table of ids (`interruptible.c` 26-84, 377-411) | buckets, chains with back pointers, `bucket_usage`, `interruptible_counter` | insert, find, unlink, grow, shrink | under the global lock |
| hook delivery (`interruptible.c` 312-349, 435-487) | hook, mask and count of each `lua_State`; handler in the userdata's uservalue | `mtint.sethook`, `lua_sethook` from another thread, `interruptHook1` and `interruptHook2` | the Lua VM of the interrupted state |
| module initialisation (`main.c`) | `initStage`, global lock, `initialized`, `stateCounter`, id counter; per state: sentinel and metatables in the registry | `luaopen_mtint`, `handleClosingLuaState` | atomics, locks |
| locks and atomics (`async_util.h`, `async_util.c`) | mutexes, on Windows an event and a waiting counter | lock, unlock, wait, timed wait, notify | operating system |
| errors (`error.c`) | none | format and raise | |
| utilities (`util.c`) | none | clock; `MemBuffer` and quoting, which nothing calls | |
| `compat-5.3` | none | vendored Lua API emulation | |

What is hard here:

* **Concurrency.**  Each universe runs on one thread at a time, but records are
  shared.  Atomic counters, one global lock and one lock per record cooperate:
  the counter is decremented *outside* both locks.
* **Finalizers.**  L2 must be cleared before Lua frees the state.  That rests
  on the order in which Lua calls finalizers, on weak tables, and on coroutines
  that a finalizer may resurrect.
* **A foreign write into a running VM.**  `lua_sethook` is called for a state
  another thread executes, while the hook itself resets the hook.
* **Failure.**  Allocation may fail in the middle of an operation, and Lua
  errors leave C functions by `longjmp`.
* **Boundaries.**  Negative ids, wrap-around of the id counter, growth and
  shrinking thresholds of the table.

What makes each component correct:

* *records*: the counter counts the references; a record is freed once, after
  its last use; nobody leaks; `L2` is valid whenever it is used; all calls and
  every `lua_close` end.
* *hash table*: it always holds exactly the registered records, every back
  pointer points to the pointer that leads to its record, and a table of zero
  buckets is never indexed.
* *hook delivery*: a one-shot interrupt is not lost, a continuous one goes on
  until it is switched off, and the handler runs on the interrupted thread.
* *module initialisation*: one initialisation, nobody uses the global lock
  before it, all waiters get through; the lock is given back; a state in which the
  load has succeeded finalizes its userdata.
* *locks*: mutual exclusion; on Windows a notification wakes a waiter.

`PROJECT.json` lists the hazards at their lines, each with the properties that
cover it or a note why none does.

## Modules

| module | models | relation to the others |
|---|---|---|
| `Interruptible` | the life of records, lookup by id, `L2`, finalizers | refines `Reclamation`; uses the table of ids as a set |
| `Reclamation` | abstract: what reference counting promises | implemented by `Interruptible` |
| `Buckets` | the hash table of ids | refines `Registry` |
| `Registry` | abstract: what the table promises, the set `bucket` of `Interruptible` | implemented by `Buckets` |
| `HookDelivery` | one interrupted state, its VM and several interrupting threads | details `SetHook` of `Interruptible` |
| `ModuleInit` | `luaopen_mtint` and the finalizer of its sentinel | establishes the global lock the others take |
| `AsyncMutex` | the recursive mutex with its condition, on every backend | justifies `LockGlobal`, `Acquire` and the timed wait of the polling loop |
| `Atomics`, `Errors` | operators: atomic counters; the names of errors | extended by the above |
| `MCInterruptible`, `MCBuckets` | instances for TLC | |
| `InterruptibleProofs` | theorems about `Interruptible`: references, memory | basis of the next three |
| `LockProofs`, `DetachProofs` | `L2` under the record's lock, and in the finalizers | `DetachProofs` extends `LockProofs` |
| `ReclamationProofs` | nothing leaks; the refinement of `Reclamation` | |
| `BucketsProofs` | theorems about `Buckets` and the refinement of `Registry` | |
| `HookProofs`, `ModuleInitProofs`, `AsyncMutexProofs` | theorems about `HookDelivery`, `ModuleInit`, `AsyncMutex` | |

## Plan

Done: all of the modules above, in the order `Interruptible`, `HookDelivery`,
`Buckets`, `ModuleInit`, `AsyncMutex`, `Reclamation`, and the proofs listed under
Proofs: every invariant that a run checks and both refinements are proved.  What is
left is to replace long proofs by shorter ones, to prove what the violation runs
leave standing (that outside their windows the promises of the documentation hold),
and to state the composition of `Buckets` and `Interruptible` as a theorem.

## Module `Interruptible`

A behaviour is an interleaving of OS threads.  Each thread `t` owns one Lua
universe: the main state `Main[t]` and the coroutines `s` with `Owner[s] = t`.
A step is one access to shared memory: an atomic operation on `used`, or a whole
critical section of the global lock; critical sections of a record's lock are
cut where another thread could interfere, between the test of `L2` and the call
of `lua_sethook`.  `pc[t]` is the next access of the C function the thread is
in, and `obj[t]`, `cur[t]`, `tgt[t]` are its locals: record, userdata (NULL for
a call by id), lua_State.

| code | actions |
|---|---|
| `Mtint_id`, `assureCreatedMtInterruptible` | `AssureCreated` (made of `CreateRecord` and `SetupGuard`), `LockGlobal`, `Register` or `RegisterOutOfMemory`; `AssureFails` when Lua runs out of memory in `setupInterruptibleGuard` |
| `Mtint_interrupt` with an id | `InterruptById`, `LockGlobal`, `Find` or `FindFails`, then as below, `InterruptDec`, and with the last reference `LockGlobal`, `Free` |
| `Mtint_interrupt` with an object, `MtInterruptible_interrupt` | `InterruptByUdata`, `LockIntr`, `ReadL2`, `SetHook`, `UnlockIntr` |
| `Mtint_interruptible` | `OpenById`, `LockGlobal`, `Open` or `FindFails` |
| `GuardCoroutine_release` | `GuardRelease`, `LockIntr`, `GuardClear` |
| `MtInterruptible_release` | `Release`, `ReleaseDec`, then `LockGlobal`, `Free`, or `LockIntr`, `MainClear`, or nothing |
| the Lua collector and `lua_close` (external) | `NewCoroutine`, `CollectCoroutine`, `Resurrect`, `FreeCoroutine`, `CollectUdata`, `CloseUniverse`, `Closed` |

Conventions and abstractions:

* *Freed memory.*  A step that would touch freed memory has no defined outcome,
  so it has no successor: the thread stays in front of it.  `NoUseAfterFree` says that
  no thread ever stands there; what other properties say of such behaviours
  they say up to that point.  This is why the runs of `Spec` do not check for
  deadlock and the run of `SerialSpec` does.
* *The hash table* is the set `bucket` of records that can be found; a record
  stands for its id.  `Buckets` shows that the table is such a set.  The flag `initialized` is set in the same critical section
  as the insertion and is never cleared, so it adds nothing to membership.
* *Addresses are not reused*: each record and each userdata is allocated once.
  Reuse would only hide a use after free.
* *The locks are recursive* in the code; no function of the library takes one
  that its thread already holds, so the model needs no depth.
* *Finalizers* run while their thread is outside the library.  The collector
  may also run them inside a call that allocates; at those points the call has
  published nothing and holds no lock (`luaopen_mtint` is the exception, which
  `ModuleInit` models).
* *The metatable* of the userdata is taken as complete: every userdata will be
  finalized.  `ModuleInit` shows where an error may leave it incomplete.
* *Lua code in finalizers* that calls the library during `lua_close` is not modelled,
  nor is the program that calls a method of a userdata already finalized.
* A failing `calloc` of the record itself (line 246) leaves a userdata with no
  record, the same as a failed `mtint.interruptible`; only the latter is an action.

### Two windows

`MtInterruptible_release` and `Mtint_interrupt` decrement `used` and then take a
lock.  Between the two steps other threads can act:

* `FreeWindow`: the counter is zero but the record is still in the table.  A
  lookup by id revives it, and then it is freed under its new user.
* `ClearWindow`: a main state's userdata has given up its reference and will
  still lock the record to clear `L2`.  If another thread drops the last
  reference meanwhile, the record is gone.

Both are races of the code, and the runs `core_lookup_race` and
`core_detach_race` show a behaviour for each.  `Spec` is the code with these
races; `SerialSpec` adds to each step that the other threads respect the
windows, which is what a decrement inside the following critical section would give.
Everything else that a record needs to be safe is then checked and
proved for `SerialSpec`; what holds even with the races, for `Spec`.

### What the counting implements

`Reclamation` is the promise behind reference counts, for any shared object: it
has holders from its creation on, a new one may join only while there is one,
nobody comes back after the last has left, and then it is freed once.  The
mapping takes as holders of a live record its `Refs`: the userdata that point to
it and have not dropped it, and the calls by id that work on it.  It forgets the
counter, the table, locks, finalizers and L2; the record of a failed
registration is held like any other.  With the races of `Spec` the mapping
fails: the lookup in `FreeWindow` is a `Join` without holders.

## Module `HookDelivery`

`lua_sethook` writes `L->hook` and `L->hookmask` of a state that another thread
may be executing.  The accesses are not synchronised (a data race in C), so each
word is a step of its own, in either order, and the VM reads first the mask
(`Test`) and then the hook (`Dispatch`).  Interrupting threads hold the record's
`Lock` during `lua_sethook`; `interruptHook1`, which resets the hook, does not.

| code | actions |
|---|---|
| `mtint_interrupt` | `Interrupt`, `WriteWord`, `Release` |
| `lua_sethook` (external) | `SetHook`, `WriteWord` |
| `interruptHook1`, `interruptHook2` | `Dispatch`, for the reset `WriteWord` |
| `interruptHookCommon` | `RunHandler`, `HandlerEnds` |
| `Mtint_id` and `Mtint_setHook`: the uservalue | `Register`, `RegisterOutOfMemory`, `SetHandler` |

`credit`, `late`, `due`, `crossed` and `last` are history.  The hook count is left
out: it is 1 with a mask and 0 without one, except after a call that a reset has crossed.
Then it may be 0 under a mask, and the hook waits for the next call or return
(`LUA_MASKCALL|LUA_MASKRET`); no property depends on how soon the VM tests.  A hook or
a call of `mtint.sethook` that meets a userdata without uservalue (`interruptible.c` 277)
would index a nil: it has no successor, and `InterruptReachesHandler` excludes it.

## Module `Buckets`

Everything happens under the global lock, so an operation is one step.  `map`
holds what the C code changes through pointers: per bucket `first` and `count`,
per record `next` and `prev`.  A back pointer is the address of a bucket's
`first`, in the current table (`version`) or in one that was freed, or of a
record's `next`.  `ToBuckets`, `NewBuckets`, `Unlinked` and `Find` are the functions
of the same purpose, and `Find` walks a chain until it meets the id; growing and shrinking each have an action with and without a
successful `calloc`.  The constants 64, 4, 30 and 10 of the code are the constants
`FirstBuckets`, `PerBucket`, `UsageLimit` and `ShrinkFactor`.  The refinement maps a
record to its id as long as a chain leads to it.

## Module `ModuleInit`

Each thread runs one Lua state.  `pc` follows `luaopen_mtint`, `fin` the finalizer of
a sentinel, which may also run inside `luaopen_mtint`, at an allocation, on the
recursive mutex its thread already holds.

| code | actions |
|---|---|
| `luaopen_mtint`, 52-67 | `Load`, `Elect`, `InitMutex`, `SetPointer`, `Publish`, or `Poll`, `WaitEnds` |
| under the mutex, 70-111 | `Lock`, `SeedIds`, `CheckRegistry`, `CountState`, `AttachSentinel`, `StoreSentinel`, `Unlock`, or `OutOfMemory` |
| the tables, 113-155, with `mtint_interruptible_init_module` | `BuildTables`, `SetupMeta`, `LoadEnds`, or `TablesOutOfMemory` |
| `handleClosingLuaState` | `Finalize`, `FinLock`, `FinCount`, `FinUnlock` |
| `atomic_inc(&mtint_id_counter)` | `GiveId` |
| `lua_close` (external) | `Close`, `Closed` |

Reading and writing `stateCounter` are two
steps, because only the mutex keeps them together.  A load may fail by an
out of memory error, under the mutex or while it builds the tables, and may be tried
again.  `loose` holds the sentinels that such a load has left to the collector; the
history variables `abandoned` and `lost` count the levels of the mutex that are never
unlocked, and the loads that are counted and have no sentinel.  With these `StateCount`
and `MutexIsGivenBack` are exact also after errors.  Two consequences of an error are for
ever:

* The mutex stays locked, except for the thread that failed: it can go on, all others
  wait.  `LoadsEnd` says of every load that this is the only reason not to end.
* `luaL_newmetatable` registers the table before it is filled (`meta`).  After an error
  in between, the table is `spoiled`: `require` succeeds the second time, and the state
  has interruptibles without a finalizer.  This is a flaw of the code; `LoadedCollects`
  says that it is the only way to lose the finalizers.

## Module `AsyncMutex`

`backend` is chosen at the start: condition variables (pthread, C11) with spurious
wakeups, or the Win32 emulation with one auto-reset event and `waitingCounter`.
`held` is what the code of a thread believes to own, and `LockIsKept` compares it with
the mutex.  `SomeoneWakes` is as much as the event can promise: a thread
that starts to wait after the notification, even the one that made it, may take the
event from the one that was waiting.  A wait gives up one level of the recursive
mutex; a thread that waits with two levels keeps everybody out, which
`TimedWaitsReturn` excepts.  In this repository nothing calls notify, and the only
wait is that of the polling loop (`main.c` 63); the module shows what the mutex gives
to any caller.

## Runs

| run | specification | what it shows |
|---|---|---|
| `core_races` | `Spec` | counters count references, no record leaks, L2 is cleared before its state is freed, a tested L2 stays valid |
| `core_serial` | `SerialSpec` | no use after free, no dangling userdata, `lua_sethook` only for states that exist, no lock destroyed while held, no deadlock; implements `Reclamation` |
| `core_liveness` | `FairSpec` | every call returns, every `lua_close` ends, every record without references is freed |
| `core_lookup_race` | `Spec` | violation: `InterruptReportsGone` |
| `core_detach_race` | `Spec` | violation: `DetachReachesRecord` |
| `hook` | `FairSpec` | a single interrupt runs the handler once, switching off is final, the two words agree between calls, no interrupt is lost |
| `hook_continuous` | `Spec` | violation: `ContinuousStays`; the reset of a single interrupt wipes out a continuous one |
| `hook_error_name` | `Spec` | violation: `RaisesDocumentedError`; the documentation says `interrupt`, the code `interrupted` |
| `buckets` | `Spec` | lookups are exact, back pointers and counters right across resizing and failed allocations; implements `Registry` |
| `buckets_negative_id` | `Spec` | violation: `LookupInTable`; a negative id indexes before the table |
| `module_init` | `FairSpec` | one initialisation before any use, mutual exclusion, the mutex is given back, unique ids, the count of states, a complete metatable, all loads end |
| `async_mutex` | `FairSpec` | the mutex is kept across waits, every waiter is counted, notifications wake somebody, timed waits return |

*Bounds of the `core` runs.*  Two threads: `t1` with a main state and a coroutine,
`t2` with a main state.  With two records and three userdata both universes can
register, one can hold a handle to the other's record or to its own, a coroutine
can be resurrected and registered again, and every pair of operations that share a
record can overlap.  More threads add no new pair of steps; the counters are
proved for any number.  `Symmetry` permutes records and userdata, which no
definition tells apart.  The liveness run has two records and two userdata
and no symmetry.

*Bounds of the others.*  `hook`: two interrupting threads and four calls
(`MaxCalls`), enough for each thread's call to follow, precede or cross one of the
other and the reset.  `buckets`: four records, a first table of two buckets,
growth above one record or one collision per bucket, shrinking below a third, ids up
to six (`Ids`): the table grows to eight buckets, shrinks from there, goes away and
comes back.  `module_init`: three threads, so that two poll or wait while one
initialises, two ids (`MaxIds`) from a seed next to `MaxInt`, so that the counter wraps
around, one failure (`MaxFailures`), which already blocks the other threads or spoils a
metatable; what two failures do is proved.  `async_mutex`: three threads, a recursion of
two (`MaxDepth`).  Programs may stop at any time, locks may be held for ever after
an error and everybody may wait for ever: these runs do not check for deadlock.

*Fairness.*  `Interruptible`: `SF` of a thread inside the library: the operating
system runs it and lets every waiter have a contended lock some time.  `WF` of the
finalizers and the end of `lua_close`, which is a loop of the interpreter.  No
fairness for the program: it need never call anything.  `HookDelivery`: the
interrupted state goes on executing operations (one that blocks in a C function is
not interrupted, as `README.md` says), and a call of `lua_sethook` is finished.
`ModuleInit`: a thread inside a load or a finalizer goes on (`WF`), and one that
waits for the mutex gets it if it is free again and again (`SF`); the
library never holds it for ever, except after the error above.  `AsyncMutex`: the
same for the mutex, timeouts expire, and whoever has locked the mutex comes to its last
unlock.

## Proofs

`InterruptibleProofs` proves for any finite sets of threads and userdata, and any
sets of states and records:

* `TypeCorrect`: `Spec => []TypeOK`.
* `CounterCorrect`: `Spec => []UsedCountsRefs`.  `UsedCountsRefs` is not
  inductive: it must be known that a function works on the record of its own
  userdata, that no other thread can work on that userdata, and that unused
  userdata point nowhere (`LocalsInv`, `PointersInv`; together `CountInv`).
  `RefsOfStep` says all that a step does to references: it creates a record with
  one, takes one, drops one, frees a record, or leaves them alone (`RefsStep`).  The
  counters and the refinement below both follow from that one fact.
* `MemorySafe`: `SerialSpec => []NoUseAfterFree`, and `UdataSafe`:
  `SerialSpec => []UdataPointsToLive`.  The invariant `LiveInv` says
  that userdata, calls and table lead to live records only, and that a thread that is to
  free a record is the only one to do so and has seen the counter at zero.  The
  step that matters is `FreeLive`: by `CounterCorrect` a counter of zero means that there
  is no reference, and by the two windows no thread is between its decrement
  and its use of the record.

`LockProofs` and `DetachProofs` follow the pointer `L2`:

* `TestedStays`: `Spec => []TestedL2IsCurrent`.  `LockInv` says that the lock of a live
  record names the thread that is inside; `RegisterInv`, that nobody else works on a
  record before it is registered, which is when `L2` is written without the lock.
* `NoLockLost`: `SerialSpec => []NoLockedDestroy`: whoever is inside has a reference.
* `Detached`: `Spec => []DetachedBeforeFreed`, even with the races.  A record with an
  `L2` is the one that the lookup table has for that state, and its userdata or guard
  still awaits the finalizer that will clear it (`ClearsInv`, `AwaitsClear`).  That needs
  the order of finalizers (`GuardsInv`, `ReleasingInv`), that the entry of the lookup
  table is of the state's own universe and of its kind (`AnchorInv`), and that a
  registration leaves such a finalizer behind (`RegistersInv`).
* `HookSafe`: `SerialSpec => []HookTargetAlive`, from `TestedStays`, `Detached` and
  `MemorySafe`: the state that `lua_sethook` gets is the `L2` of a live record.

`ReclamationProofs`:

* `NothingLeaks`: `Spec => []UnreferencedIsBeingFreed`, from `FreeingInv`: the thread
  whose decrement gave zero is on its way to free the record.
* `Reclaimed`: `SerialSpec => ImplementsReclamation`.  Each case of `RefsStep` is a step
  of `Reclamation`: that a record found in the table still has a holder is what
  the windows give, and `Spec` does not.

The assumptions are `ConstantsAssumption`: finite sets of threads and userdata, disjoint,
with a `NULL` outside, and a main state per thread.

`BucketsProofs` proves for any records, any number of ids that an `AtomicCounter` can
hold and any thresholds (`BucketsAssumption`):

* `TypeCorrect`, `Population`, `BackwardLinks`, `UsageIsBound`, `LookupsExact`:
  `TypeOK`, `CounterIsPopulation`, `BackPointers`, `UsageBoundsChains` and `FindIsExact`
  are invariants of `Spec`.
* `TableIsRegistry`: `Spec => ImplementsRegistry`.

The inductive invariant `BucketsInv` describes the links locally (`Linked`): a head is in
its bucket and points back to it, the next record is in the same bucket and points back,
every record of the table is a head or a next one, and along a chain a rank
goes down that bucket counts and usage bound (`Ranks`).  `ToBucketsLinked`,
`UnlinkedLinked` and `MovedLinked` show what inserting, unlinking and rehashing do to
it.  That no counter wraps follows from the ids: records of the table have different
ones (`Counted`).  TLC cannot enumerate the ranks, so `BucketsInv` itself is not
in a run.

`Chain`, `Records`, `Moved` and `Find` are recursive functions.  The induction they need
is done on sets: a set of numbers has a least element (`LeastNumber`, from the
library's theorem that strict inclusion of finite sets is well founded), so
a property holds of all if it goes up along a rank (`ByRank`), and a function
defined along links exists if a rank goes down along them (`Walk`).  From that come the
equations (`ChainSteps`), that a chain holds exactly the records of its bucket, each
once (`ChainIsBucket`), that all chains together hold those of the table
(`RecordsContents`), and that a search ends at the record with the id (`Search`).

`HookProofs` proves for any number of interrupting threads and calls, from
`HookAssumption` (the threads differ from the VM, and `NULL` from all of them):

* `RunsOnce`: `Spec => []SingleRunsOnce`.  `CreditInv` counts what can still become a
  run of the handler: a hook picked up by the VM, one that is installed, and one
  that a call is about to write.  None of them is more than what the single
  interrupts have paid for.  It rests on `WritersInv`: only the holder of the record's
  lock has words left to write, and the VM only while it resets the hook.
* `OffFinal`: `Spec => []OffIsFinal`, from `OffInv`: while the call that switches off is
  at work no run counts as late, and afterwards `L->hook` is empty.
* `Settled`: `Spec => []WordsSettled`, from `SettledInv`: a call that no reset crosses has
  both words for itself, and so has the reset that follows it.

`ModuleInitProofs` proves for any finite set of threads, from `InitAssumption` and
`AtomicsAssumption` (a process has finitely many threads at a time; seeds are values of
the counter):

* `TypeCorrect`: the types, and that `stateCounter` is never negative: by the
  equation of `StatesCounted` it is a number of sentinels and loads.
* `StableMutex`: `Spec => []MutexIsStable`, from `StageInv`: one thread at most
  initialises, and nobody has passed the race before it has finished.
* `Exclusion`: `Spec => []MutualExclusion`, from `LockInv`: who is in a critical section
  owns the mutex, once for the load and once more for a finalizer inside it.
* `UniqueIds`: `Spec => []IdsAreUnique` if `NoWrap`, that is, if the largest seed
  and the number of ids together do not pass `MaxInt`.  `SeedInv` says that the
  counter is seeded before a thread can take an id, and `IdsInv` that the `k`-th id is
  the seed plus `k`.  With wrap-around, fewer ids than values, it is model-checked.
* `GivenBack`: `Spec => []MutexIsGivenBack`, from `LevelsInv`: the owner has exactly the
  levels it has abandoned and those of the section and the finalizer it is in.
* `Complete`: `Spec => []LoadedCollects`, from `MetaInv`: a bare metatable belongs to a
  load that is still filling it.
* `StatesCounted`: `Spec => []StateCount`.  The counter counts sentinels, not states: the
  one in the registry or about to be made, and loose ones that a failed load has left to
  the collector; and the loads that were lost before they had one.  The equation
  (`CountedInv`) is inductive together with `SentinelsInv`: nobody writes the counter between another's
  read and write, and every finalizer has a sentinel of its own to uncount.

`AsyncMutexProofs` proves for any finite set of threads, any backend and any
depth of recursion, from `AsyncMutexAssumption`:

* `LockKept`: `Spec => []LockIsKept`, from `LevelsInv`: the levels a thread has, without the
  one it gave up for a wait, are the depth of the mutex or zero.
* `WaitersCounted`: `Spec => []WaitersAreCounted`, with one step per action that says
  how it changes the set `Awaiting`.

Each also has a `TypeCorrect`.

Only model-checked: liveness under fairness (`EveryCallReturns`, `CloseEnds`,
`RecordsAreReclaimed`, `InterruptReachesHandler`, `LoadsEnd`, `SomeoneWakes`,
`TimedWaitsReturn`), which the prover does not treat; and the uniqueness of ids when
the counter wraps around, which `UniqueIds` excludes by `NoWrap`.

## Not modelled

* **Utilities.**  The clock is one of the inputs of the seed, which `ModuleInit`
  leaves open.  `MemBuffer` and the quoting functions are called by nothing.
* **Compatibility layer.**  Vendored; the functions the library calls are taken by
  their meaning in Lua 5.3.  The refusal of coroutines under Lua 5.1 is left out.
* **Formatting and arguments.**  The wording of errors, `tostring`, argument
  checking: they change no state.
* **Errors of the operating system** in `async_util.c` end the process.  The
  private mutex of the polling loop is destroyed while locked (`main.c` 61-64), which
  is left to the threading library; `tryacquire` and the `destruct` functions have no
  action.
* **Wrap-around of the id counter.**  `ModuleInit` lets it wrap, in a model of few
  bits, but gives out fewer ids than there are values: after 2^32 records ids would
  repeat, and from 2^31 on they would be negative, which the table does not bear
  (`LookupInTable`).
* **A handle used after its own finalizer**, by another finalizer of the program: its
  record pointer is NULL and the methods do not test it.
* **Tests, examples, packaging** are read as documentation.
