---------------------------- MODULE HookDelivery ----------------------------
(***************************************************************************)
(* How an interrupt reaches the interrupted state (src/interruptible.c):   *)
(* other threads install a hook with lua_sethook under the record's Lock,  *)
(* the thread that executes the state finds it, and interruptHook1 takes   *)
(* it away again without that Lock before it runs the handler.             *)
(*                                                                         *)
(* lua_sethook writes the words L->hook and L->hookmask of a lua_State     *)
(* that another thread may be executing.  The accesses are not             *)
(* synchronised, so each word is written in a step of its own and the two  *)
(* in either order; the VM reads the mask first and then the hook.  The    *)
(* hook count goes with the mask; only a call that a reset has crossed can *)
(* leave the two apart, and then the hook comes at the next call or return.*)
(***************************************************************************)
EXTENDS Integers, Errors

CONSTANTS
    Interrupter,    \* threads that call mtint.interrupt for the state
    VM,             \* the thread that executes the state
    MaxCalls,       \* bounds the calls of mtint.interrupt in a behaviour
    NULL

ASSUME HookAssumption ==
    /\ VM \notin Interrupter /\ NULL \notin Interrupter
    /\ NULL \notin {"hook1", "hook2"}
    /\ MaxCalls \in Nat

VARIABLES
    hook, mask,     \* L->hook, and whether L->hookmask has a bit set
    lock,           \* the thread that holds the record's Lock
    want, todo,     \* lua_sethook: the hook to set, the words left to write
    pc, running,    \* the VM's next step, the hook function it is in
    uservalue,      \* the record's handler: unregistered, missing, nil, func
    raised,         \* the last error the hook has raised
    \* history
    last,           \* the flag of the last call that took the Lock
    crossed,        \* interruptHook1 was resetting the hook during that call
    due,            \* callers not yet followed by a run of the handler
    credit,         \* single interrupts that have not run the handler
    late,           \* runs of the handler since the last call has returned
    calls

words   == <<hook, mask, want, todo>>
history == <<last, crossed, due, credit, late, calls>>
vars    == <<words, lock, pc, running, uservalue, raised, history>>

Thread == Interrupter \cup {VM}
Hook   == {"hook1", "hook2"}
Flag   == {"nil", "true", "false"}

\* A mutant: a flag that is not true goes into lua_sethook as it is.
HookOfUnchecked(flag) == IF flag = "nil" THEN "hook1"
                         ELSE IF flag = "true" THEN "hook2" ELSE flag

\* The second argument of mtint.interrupt and of the method interrupt.
HookOf(flag) == IF flag = "nil" THEN "hook1"
                ELSE IF flag = "true" THEN "hook2" ELSE NULL

----------------------------------------------------------------------------
(* lua_sethook, called by thread t for the interrupted state.              *)

SetHook(t, h) ==
    /\ want' = [want EXCEPT ![t] = h]
    /\ todo' = [todo EXCEPT ![t] = {"hook", "mask"}]

WriteWord(t, w) ==
    /\ w \in todo[t]
    /\ todo' = [todo EXCEPT ![t] = @ \ {w}]
    /\ hook' = IF w = "hook" THEN want[t] ELSE hook
    /\ mask' = IF w = "mask" THEN want[t] # NULL ELSE mask
    /\ UNCHANGED <<want, lock, pc, running, uservalue, raised, history>>

----------------------------------------------------------------------------
(* mtint_interrupt on another thread.                                      *)

\* A mutant: the record's Lock keeps nobody out.
InterruptUnlocked(i, flag) ==
    /\ uservalue # "unregistered"
    /\ todo[i] = {} /\ lock # i /\ calls < MaxCalls
    /\ lock' = i
    /\ SetHook(i, HookOf(flag))
    /\ last' = flag /\ crossed' = (todo[VM] # {})
    /\ due' = IF flag = "false" THEN {} ELSE due \cup {i}
    /\ credit' = IF flag = "nil" THEN credit + 1 ELSE credit
    /\ late' = 0 /\ calls' = calls + 1
    /\ UNCHANGED <<hook, mask, pc, running, uservalue, raised>>

\* A mutant: a hook is only ever set, never switched off.
InterruptOnly(i, flag) ==
    /\ uservalue # "unregistered"
    /\ lock = NULL /\ calls < MaxCalls
    /\ lock' = i
    /\ IF flag = "false" THEN UNCHANGED <<want, todo>> ELSE SetHook(i, HookOf(flag))
    /\ last' = flag /\ crossed' = (todo[VM] # {})
    /\ due' = IF flag = "false" THEN {} ELSE due \cup {i}
    /\ credit' = IF flag = "nil" THEN credit + 1 ELSE credit
    /\ late' = 0 /\ calls' = calls + 1
    /\ UNCHANGED <<hook, mask, pc, running, uservalue, raised>>

\* Take the Lock and call lua_sethook.
Interrupt(i, flag) ==
    /\ uservalue # "unregistered"
    /\ lock = NULL /\ calls < MaxCalls
    /\ lock' = i
    /\ SetHook(i, HookOf(flag))
    /\ last' = flag /\ crossed' = (todo[VM] # {})
    /\ due' = IF flag = "false" THEN {} ELSE due \cup {i}
    /\ credit' = IF flag = "nil" THEN credit + 1 ELSE credit
    /\ late' = 0 /\ calls' = calls + 1
    /\ UNCHANGED <<hook, mask, pc, running, uservalue, raised>>

\* Both words are written: async_lock_release.
Release(i) ==
    /\ lock = i /\ todo[i] = {}
    /\ lock' = NULL
    /\ UNCHANGED <<words, pc, running, uservalue, raised, history>>

----------------------------------------------------------------------------
(* The VM of the interrupted state: Lua code, and the hook it finds.       *)

\* mtint.id, or mtint.sethook for a state without a record.
Register(h) ==
    /\ pc = "run" /\ uservalue = "unregistered"
    /\ uservalue' = h
    /\ UNCHANGED <<words, lock, pc, running, raised, history>>

\* lua_newtable raises an error after the record was put into the table of
\* ids: the userdata has no uservalue, and later calls do not make one.
RegisterOutOfMemory ==
    /\ pc = "run" /\ uservalue = "unregistered"
    /\ uservalue' = "missing"
    /\ UNCHANGED <<words, lock, pc, running, raised, history>>

\* mtint.sethook(h) for a state with a record, by its own Lua code or by its
\* handler.  (With a missing uservalue it would index nil.)
SetHandler(h) ==
    /\ pc \in {"run", "handler"} /\ uservalue \in {"nil", "func"}
    /\ uservalue' = h
    /\ UNCHANGED <<words, lock, pc, running, raised, history>>

\* Before an instruction, a call or a return the VM tests the mask, ...
Test ==
    /\ pc = "run" /\ mask
    /\ pc' = "dispatch"
    /\ UNCHANGED <<words, lock, running, uservalue, raised, history>>

\* A mutant: interruptHook1 leaves the hook in place.
DispatchKeepingHook ==
    /\ pc = "dispatch"
    /\ pc' = IF hook = NULL THEN "run" ELSE "hook"
    /\ running' = hook
    /\ UNCHANGED <<words, lock, uservalue, raised, history>>

\* ... then it reads the hook and calls it.  interruptHook1 first resets it.
Dispatch ==
    /\ pc = "dispatch"
    /\ pc' = IF hook = NULL THEN "run" ELSE "hook"
    /\ running' = hook
    /\ IF hook = "hook1" THEN SetHook(VM, NULL) ELSE UNCHANGED <<want, todo>>
    /\ crossed' = (crossed \/ (hook = "hook1" /\ lock # NULL))
    /\ UNCHANGED <<hook, mask, lock, uservalue, raised,
                   last, due, credit, late, calls>>

\* interruptHookCommon: run the handler, or raise mtint.error.interrupted.
\* (With a missing uservalue it would index nil.)
RunHandler ==
    /\ pc = "hook" /\ todo[VM] = {} /\ uservalue # "missing"
    /\ pc' = "handler"
    /\ raised' = IF uservalue = "nil" THEN Interrupted ELSE NULL
    /\ due' = {}
    /\ credit' = IF running = "hook1" THEN credit - 1 ELSE credit
    /\ late' = IF lock = NULL /\ late < 2 THEN late + 1 ELSE late
    /\ UNCHANGED <<words, lock, running, uservalue, last, crossed, calls>>

\* A mutant: interruptHook1 resets the hook after the handler.
HandlerEndsWithReset ==
    /\ pc = "handler"
    /\ pc' = "run" /\ running' = NULL
    /\ IF running = "hook1" THEN SetHook(VM, NULL) ELSE UNCHANGED <<want, todo>>
    /\ UNCHANGED <<hook, mask, lock, uservalue, raised, history>>

\* The handler returns, or its error goes to the next pcall of the state.
HandlerEnds ==
    /\ pc = "handler"
    /\ pc' = "run" /\ running' = NULL
    /\ UNCHANGED <<words, lock, uservalue, raised, history>>

----------------------------------------------------------------------------
(* Specification.                                                          *)

Init ==
    /\ hook = NULL /\ mask = FALSE
    /\ lock = NULL
    /\ want = [t \in Thread |-> NULL] /\ todo = [t \in Thread |-> {}]
    /\ pc = "run" /\ running = NULL
    /\ uservalue = "unregistered" /\ raised = NULL
    /\ last = "false" /\ crossed = FALSE
    /\ due = {} /\ credit = 0 /\ late = 0 /\ calls = 0

\* The VM executes Lua code, and the hooks it finds.
Execute == \/ Test \/ Dispatch \/ RunHandler \/ HandlerEnds
           \/ \E w \in {"hook", "mask"} : WriteWord(VM, w)

Continue(i) == Release(i) \/ \E w \in {"hook", "mask"} : WriteWord(i, w)

Next ==
    \/ Execute
    \/ \E h \in {"nil", "func"} : Register(h) \/ SetHandler(h)
    \/ RegisterOutOfMemory
    \/ \E i \in Interrupter : Continue(i) \/ \E flag \in Flag : Interrupt(i, flag)

Spec == Init /\ [][Next]_vars

\* The interrupted state executes Lua operations, and a thread that is inside
\* mtint_interrupt is scheduled.
FairSpec == Spec /\ WF_vars(Execute) /\ \A i \in Interrupter : WF_vars(Continue(i))

----------------------------------------------------------------------------
(* Invariants.                                                             *)

\* The type invariant of this module.
TypeOK ==
    /\ hook \in Hook \cup {NULL} /\ mask \in BOOLEAN
    /\ lock \in Interrupter \cup {NULL}
    /\ want \in [Thread -> Hook \cup {NULL}]
    /\ todo \in [Thread -> SUBSET {"hook", "mask"}]
    /\ pc \in {"run", "dispatch", "hook", "handler"}
    /\ running \in Hook \cup {NULL}
    /\ uservalue \in {"unregistered", "missing", "nil", "func"}
    /\ raised \in {NULL, Interrupted}
    /\ last \in Flag /\ crossed \in BOOLEAN
    /\ due \in SUBSET Interrupter
    /\ credit \in Int /\ late \in 0..2 /\ calls \in 0..MaxCalls

\* A single interrupt (without flag) runs the handler at most once, although
\* its two words may be torn by a reset or be left over from earlier calls.
SingleRunsOnce == credit >= 0

\* After mtint.interrupt(id, false) has returned, the handler runs at most
\* once more: for a hook that the VM had already picked up.
OffIsFinal == last = "false" /\ lock = NULL => late <= 1

\* Between calls the words of the lua_State agree, and are those of the last
\* call or of the reset that followed it.  The only exception is a call that
\* interruptHook1 has crossed, which resets the hook without the Lock.
WordsSettled ==
    lock = NULL /\ todo[VM] = {} /\ ~crossed =>
        /\ mask <=> hook # NULL
        /\ hook = HookOf(last) \/ (last = "nil" /\ hook = NULL)

----------------------------------------------------------------------------
(* What README.md promises and the code does not keep.                     *)

\* README.md on the flag true: "the state is interrupted at every operation
\* again"; until the next call of mtint.interrupt the hook stays installed.
ContinuousStays ==
    last = "true" /\ lock = NULL => hook = "hook2" /\ mask

\* README.md: without a handler "an error mtint.error.interrupt is raised".
RaisesDocumentedError ==
    raised # NULL => Matches(raised, "interrupt")

----------------------------------------------------------------------------
(* Liveness.                                                               *)

\* No interrupt is lost: after lua_sethook was called for it, and unless it
\* is switched off, the handler starts to run (once for several interrupts
\* that come close together).
InterruptReachesHandler ==
    \A i \in Interrupter :
        i \in due /\ uservalue # "missing" ~> i \notin due
=============================================================================
