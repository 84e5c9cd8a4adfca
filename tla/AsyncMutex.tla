----------------------------- MODULE AsyncMutex -----------------------------
(***************************************************************************)
(* The recursive mutex with its condition (src/async_util.h and .c), for   *)
(* the backends that have condition variables (pthread, C11) and for the   *)
(* one that emulates them (Win32) by an auto-reset event and a counter of  *)
(* those who wait.  Threads make any legal calls: only the owner unlocks   *)
(* or waits.  Errors of the operating system, which end the process        *)
(* (async_util_abort), do not happen.                                      *)
(***************************************************************************)
EXTENDS Integers, FiniteSets

CONSTANTS
    Thread,
    Backends,       \* of "condition" and "event", those to look at
    MaxDepth        \* bounds the recursion of the mutex

ASSUME AsyncMutexAssumption ==
    /\ IsFiniteSet(Thread)
    /\ Backends \subseteq {"condition", "event"}
    /\ MaxDepth \in Nat

VARIABLES
    backend,            \* what the library was compiled for
    owner, depth,       \* of the mutex: a set of at most one thread, Nat
    waitingCounter,     \* event backend only
    event,              \* event backend only: signaled
    pc,                 \* running; notify, set: in async_mutex_notify;
                        \* waiting: in the operating system; woken: on the
                        \* way from there back into the mutex
    timed,              \* the wait of the thread has a timeout
    held                \* history: levels that the thread's code holds

mutex == <<owner, depth>>
vars  == <<backend, mutex, waitingCounter, event, pc, timed, held>>

Free(t) == owner \subseteq {t}

Up(t)   == owner' = {t} /\ depth' = depth + 1
Down(t) == depth' = depth - 1 /\ owner' = IF depth = 1 THEN {} ELSE owner

Go(t, from, to) == pc[t] = from /\ pc' = [pc EXCEPT ![t] = to]
Hold(t, n)      == held' = [held EXCEPT ![t] = @ + n]

----------------------------------------------------------------------------
(* async_mutex_lock, async_mutex_trylock, async_mutex_unlock               *)

Lock(t) ==
    /\ pc[t] = "running" /\ held[t] < MaxDepth
    /\ Free(t) /\ Up(t) /\ Hold(t, 1)
    /\ UNCHANGED <<backend, waitingCounter, event, pc, timed>>

\* A mutant: a recursive trylock reports success without another level.
TryLockShallow(t) ==
    /\ pc[t] = "running" /\ held[t] < MaxDepth
    /\ IF Free(t) THEN owner' = {t} /\ depth' = 1 /\ Hold(t, 1)
                  ELSE UNCHANGED <<backend, mutex, held>>
    /\ UNCHANGED <<backend, waitingCounter, event, pc, timed>>

TryLock(t) ==
    /\ pc[t] = "running" /\ held[t] < MaxDepth
    /\ IF Free(t) THEN Up(t) /\ Hold(t, 1)
                  ELSE UNCHANGED <<backend, mutex, held>>
    /\ UNCHANGED <<backend, waitingCounter, event, pc, timed>>

\* A mutant: the last unlock keeps the mutex.
UnlockKeepsOwner(t) ==
    /\ pc[t] = "running" /\ held[t] > 0
    /\ depth' = depth - 1 /\ Hold(t, -1)
    /\ UNCHANGED <<backend, owner, waitingCounter, event, pc, timed>>

Unlock(t) ==
    /\ pc[t] = "running" /\ held[t] > 0
    /\ Down(t) /\ Hold(t, -1)
    /\ UNCHANGED <<backend, waitingCounter, event, pc, timed>>

----------------------------------------------------------------------------
(* async_mutex_wait, async_mutex_wait_millis                               *)

\* The counter, or the registration with the condition, comes before the
\* mutex is left, by one level only.
BeginWait(t, hasTimeout) ==
    /\ held[t] > 0
    /\ Go(t, "running", "waiting") /\ Down(t)
    /\ waitingCounter' = waitingCounter + IF backend = "event" THEN 1 ELSE 0
    /\ timed' = [timed EXCEPT ![t] = hasTimeout]
    /\ UNCHANGED <<backend, event, held>>

\* A mutant: the wait is not counted.
WaitUncounted(t) ==
    /\ held[t] > 0
    /\ Go(t, "running", "waiting") /\ Down(t)
    /\ timed' = [timed EXCEPT ![t] = FALSE]
    /\ UNCHANGED <<backend, waitingCounter, event, held>>

Wait(t) == BeginWait(t, FALSE)

\* A mutant: the timed wait counts nobody, too.
WaitMillisUncounted(t) ==
    /\ held[t] > 0
    /\ Go(t, "running", "waiting") /\ Down(t)
    /\ timed' = [timed EXCEPT ![t] = TRUE]
    /\ UNCHANGED <<backend, waitingCounter, event, held>>

WaitMillis(t) == BeginWait(t, TRUE)

\* WaitForSingleObject resets the event that it returns for.
WakeByEvent(t) ==
    /\ event /\ event' = FALSE
    /\ Go(t, "waiting", "woken")
    /\ UNCHANGED <<backend, mutex, waitingCounter, timed, held>>

\* A condition variable may let go of a thread at any time.
WakeSpuriously(t) ==
    /\ backend = "condition"
    /\ Go(t, "waiting", "woken")
    /\ UNCHANGED <<backend, mutex, waitingCounter, event, timed, held>>

TimeOut(t) ==
    /\ timed[t]
    /\ Go(t, "waiting", "woken")
    /\ UNCHANGED <<backend, mutex, waitingCounter, event, timed, held>>

\* Back into the mutex, which may take as long as others are in it.
ReturnFromWait(t) ==
    /\ Free(t)
    /\ Go(t, "woken", "running") /\ Up(t)
    /\ waitingCounter' = waitingCounter - IF backend = "event" THEN 1 ELSE 0
    /\ timed' = [timed EXCEPT ![t] = FALSE]
    /\ UNCHANGED <<backend, event, held>>

----------------------------------------------------------------------------
(* async_mutex_notify, with or without the mutex                           *)

Notify(t) ==
    /\ Go(t, "running", "notify")
    /\ UNCHANGED <<backend, mutex, waitingCounter, event, timed, held>>

\* pthread_cond_signal, cnd_signal: one of those who wait, if there are any.
Signal(t) ==
    /\ backend = "condition" /\ pc[t] = "notify"
    /\ LET waiting == {u \in Thread : pc[u] = "waiting"} IN
       IF waiting = {} THEN pc' = [pc EXCEPT ![t] = "running"]
       ELSE \E u \in waiting :
                pc' = [pc EXCEPT ![t] = "running", ![u] = "woken"]
    /\ UNCHANGED <<backend, mutex, waitingCounter, event, timed, held>>

\* if (mutex->waitingCounter > 0) ...
TestCounter(t) ==
    /\ backend = "event"
    /\ Go(t, "notify", IF waitingCounter > 0 THEN "set" ELSE "running")
    /\ UNCHANGED <<backend, mutex, waitingCounter, event, timed, held>>

\* ... SetEvent, which has no effect if the event is set already.
SetEvent(t) ==
    /\ Go(t, "set", "running")
    /\ event' = TRUE
    /\ UNCHANGED <<backend, mutex, waitingCounter, timed, held>>

----------------------------------------------------------------------------
\* async_mutex_init
Init ==
    /\ backend \in Backends
    /\ owner = {} /\ depth = 0
    /\ waitingCounter = 0 /\ event = FALSE
    /\ pc = [t \in Thread |-> "running"]
    /\ timed = [t \in Thread |-> FALSE]
    /\ held = [t \in Thread |-> 0]

\* What the operating system does, and a call that has been begun.
Continue(t) ==
    \/ WakeByEvent(t) \/ TimeOut(t)
    \/ Signal(t) \/ TestCounter(t) \/ SetEvent(t)

Next == \E t \in Thread :
    \/ Continue(t) \/ ReturnFromWait(t) \/ WakeSpuriously(t)
    \/ Lock(t) \/ TryLock(t) \/ Unlock(t)
    \/ Wait(t) \/ WaitMillis(t) \/ Notify(t)

Spec == Init /\ [][Next]_vars

\* Calls make progress, whoever has locked the mutex gets to its last unlock,
\* and the mutex lets in everyone who tries for ever.
FairSpec ==
    /\ Spec
    /\ \A t \in Thread : /\ WF_vars(WakeByEvent(t)) /\ WF_vars(TimeOut(t))
                         /\ WF_vars(Signal(t))
                         /\ WF_vars(TestCounter(t) \/ SetEvent(t))
                         /\ SF_vars(Unlock(t)) /\ SF_vars(Unlock(t) /\ held[t] = 1)
                         /\ SF_vars(ReturnFromWait(t))

----------------------------------------------------------------------------
(* Properties.                                                             *)

Awaiting == {t \in Thread : pc[t] \in {"waiting", "woken"}}

\* The type invariant of this module.
TypeOK ==
    /\ backend \in Backends
    /\ owner \subseteq Thread /\ depth \in Nat
    /\ waitingCounter \in 0..Cardinality(Thread) /\ event \in BOOLEAN
    /\ pc \in [Thread -> {"running", "notify", "set", "waiting", "woken"}]
    /\ timed \in [Thread -> BOOLEAN]
    /\ held \in [Thread -> 0..MaxDepth]

\* A thread that comes back from a wait, woken, timed out or for no reason,
\* owns the mutex as many times as it did before, although others have been
\* in it meanwhile: what its code believes to hold is what the mutex says.
LockIsKept ==
    \A t \in Thread :
        LET levels == IF t \in Awaiting THEN held[t] - 1 ELSE held[t] IN
        IF levels > 0 THEN owner = {t} /\ depth = levels ELSE t \notin owner

\* The event backend knows how many threads are between entering a wait and
\* being back: notify never overlooks one, and none is counted for ever.
WaitersAreCounted ==
    waitingCounter = IF backend = "event" THEN Cardinality(Awaiting) ELSE 0

\* A notification made while somebody waits lets somebody go.
SomeoneWakes ==
    \A t, u \in Thread : t # u =>
        (pc[t] = "notify" /\ pc[u] = "waiting" ~> \E v \in Thread : pc[v] = "woken")

\* A timed wait, of which nobody need know, comes back: the polling loop of
\* luaopen_mtint rests on it.  It does not when a thread waits that had locked
\* the mutex twice and so still keeps everybody out of it.
TimedWaitsReturn ==
    \A t \in Thread : pc[t] = "waiting" /\ timed[t] ~>
        pc[t] = "running" \/ \E u \in Awaiting : held[u] > 1
=============================================================================
