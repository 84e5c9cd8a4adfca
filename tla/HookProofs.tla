----------------------------- MODULE HookProofs -----------------------------
(***************************************************************************)
(* Theorems about HookDelivery, for any set of interrupting threads and    *)
(* any number of calls.                                                    *)
(***************************************************************************)
EXTENDS HookDelivery, TLAPS

----------------------------------------------------------------------------
(* What the writers of the two words can rely on.                          *)

\* Only the holder of the record's Lock has words left to write, and the VM,
\* which is then inside interruptHook1 and resets the hook.
WritersInv ==
    /\ \A i \in Interrupter : todo[i] # {} => lock = i
    /\ todo[VM] # {} => want[VM] = NULL /\ pc = "hook" /\ running = "hook1"

\* Every step keeps the types.
LEMMA TypeStep == TypeOK /\ [Next]_vars => TypeOK'
<1> SUFFICES ASSUME TypeOK, [Next]_vars PROVE TypeOK'
  OBVIOUS
<1> USE HookAssumption DEF TypeOK, Thread, Hook, Flag, HookOf, words, history
<1>1. CASE UNCHANGED vars
  BY <1>1 DEF vars, history
<1>2. CASE Test
  BY <1>2 DEF Test
<1>3. CASE Dispatch
  BY <1>3 DEF Dispatch, SetHook
<1>4. CASE RunHandler
  BY <1>4 DEF RunHandler
<1>5. CASE HandlerEnds
  BY <1>5 DEF HandlerEnds
<1>6. ASSUME NEW w \in {"hook", "mask"}, WriteWord(VM, w) PROVE TypeOK'
  BY <1>6 DEF WriteWord
<1>7. ASSUME NEW h \in {"nil", "func"}, Register(h) \/ SetHandler(h)
      PROVE  TypeOK'
  <2>1. CASE Register(h)
    BY <2>1 DEF Register
  <2>2. CASE SetHandler(h)
    BY <2>2 DEF SetHandler
  <2> QED
    BY <1>7, <2>1, <2>2
<1>8. CASE RegisterOutOfMemory
  BY <1>8 DEF RegisterOutOfMemory
<1>9. ASSUME NEW i \in Interrupter, Release(i) PROVE TypeOK'
  BY <1>9 DEF Release
<1>10. ASSUME NEW i \in Interrupter, NEW w \in {"hook", "mask"},
             WriteWord(i, w)
      PROVE  TypeOK'
  <2>1. want[i] \in Hook \cup {NULL}
    OBVIOUS
  <2>2. todo' \in [Thread -> SUBSET {"hook", "mask"}]
    BY <1>10 DEF WriteWord
  <2>3. hook' \in Hook \cup {NULL} /\ mask' \in BOOLEAN
    BY <1>10, <2>1 DEF WriteWord
  <2> QED
    BY <1>10, <2>2, <2>3 DEF WriteWord
<1>11. ASSUME NEW i \in Interrupter, NEW flag \in Flag, Interrupt(i, flag)
      PROVE  TypeOK'
  BY <1>11 DEF Interrupt, SetHook
<1> QED
  BY <1>1, <1>2, <1>3, <1>4, <1>5, <1>6,
     <1>7, <1>8, <1>9, <1>10, <1>11 DEF Next, Execute, Continue

\* Every step keeps WritersInv.
LEMMA WritersStep == TypeOK /\ WritersInv /\ [Next]_vars => WritersInv'
<1> SUFFICES ASSUME TypeOK /\ WritersInv, [Next]_vars PROVE WritersInv'
  OBVIOUS
<1> USE HookAssumption DEF WritersInv, TypeOK, Thread, Hook, Flag, HookOf,
        words, history
<1>1. CASE UNCHANGED vars
  BY <1>1 DEF vars, history
<1>2. CASE Test
  BY <1>2 DEF Test
<1>3. CASE Dispatch
  BY <1>3 DEF Dispatch, SetHook
<1>4. CASE RunHandler
  BY <1>4 DEF RunHandler
<1>5. CASE HandlerEnds
  BY <1>5 DEF HandlerEnds
<1>6. ASSUME NEW w \in {"hook", "mask"}, WriteWord(VM, w) PROVE WritersInv'
  BY <1>6 DEF WriteWord
<1>7. ASSUME NEW h \in {"nil", "func"}, Register(h) \/ SetHandler(h)
      PROVE  WritersInv'
  BY <1>7 DEF Register, SetHandler
<1>8. CASE RegisterOutOfMemory
  BY <1>8 DEF RegisterOutOfMemory
<1>9. ASSUME NEW i \in Interrupter, Release(i) PROVE WritersInv'
  BY <1>9 DEF Release
<1>10. ASSUME NEW i \in Interrupter, NEW w \in {"hook", "mask"},
             WriteWord(i, w)
      PROVE  WritersInv'
  BY <1>10 DEF WriteWord
<1>11. ASSUME NEW i \in Interrupter, NEW flag \in Flag, Interrupt(i, flag)
      PROVE  WritersInv'
  BY <1>11 DEF Interrupt, SetHook
<1> QED
  BY <1>1, <1>2, <1>3, <1>4, <1>5, <1>6,
     <1>7, <1>8, <1>9, <1>10, <1>11 DEF Next, Execute, Continue

----------------------------------------------------------------------------
(* A single interrupt runs the handler at most once.                       *)

\* A run of the handler that a single interrupt will have is where its hook
\* is: the VM has picked it up, or it is in L->hook and will not be reset, or
\* it is yet to be written there.
One(P) == IF P THEN 1 ELSE 0
PickedUp  == One(pc = "hook" /\ running = "hook1")
Installed == One(hook = "hook1" /\ "hook" \notin todo[VM])
Underway  == One(lock # NULL /\ want[lock] = "hook1" /\ "hook" \in todo[lock])

CreditInv == credit >= PickedUp + Installed + Underway

\* No step makes a run that was not paid for.
LEMMA CreditStep ==
    TypeOK /\ WritersInv /\ CreditInv /\ [Next]_vars => CreditInv'
<1> SUFFICES ASSUME TypeOK /\ WritersInv /\ CreditInv, [Next]_vars
    PROVE  CreditInv'
  OBVIOUS
<1> USE HookAssumption DEF WritersInv, CreditInv, One, PickedUp, Installed,
        Underway,
           TypeOK, Thread, Hook, Flag, HookOf, words, history
<1>1. CASE UNCHANGED vars
  BY <1>1 DEF vars, history
<1>2. CASE Test
  BY <1>2 DEF Test
<1>3. CASE Dispatch
  BY <1>3 DEF Dispatch, SetHook
<1>4. CASE RunHandler
  BY <1>4 DEF RunHandler
<1>5. CASE HandlerEnds
  BY <1>5 DEF HandlerEnds
<1>6. ASSUME NEW w \in {"hook", "mask"}, WriteWord(VM, w) PROVE CreditInv'
  BY <1>6 DEF WriteWord
<1>7. ASSUME NEW h \in {"nil", "func"}, Register(h) \/ SetHandler(h)
      PROVE  CreditInv'
  BY <1>7 DEF Register, SetHandler
<1>8. CASE RegisterOutOfMemory
  BY <1>8 DEF RegisterOutOfMemory
<1>9. ASSUME NEW i \in Interrupter, Release(i) PROVE CreditInv'
  BY <1>9 DEF Release
<1>10. ASSUME NEW i \in Interrupter, NEW w \in {"hook", "mask"},
             WriteWord(i, w)
      PROVE  CreditInv'
  BY <1>10 DEF WriteWord
<1>11. ASSUME NEW i \in Interrupter, NEW flag \in Flag, Interrupt(i, flag)
      PROVE  CreditInv'
  BY <1>11 DEF Interrupt, SetHook
<1> QED
  BY <1>1, <1>2, <1>3, <1>4, <1>5, <1>6,
     <1>7, <1>8, <1>9, <1>10, <1>11 DEF Next, Execute, Continue

----------------------------------------------------------------------------
(* Switching off is final.                                                 *)

\* While the call that switches off is at it no run counts; after it L->hook
\* is empty, and what is left is the hook that the VM had picked up.
OffInv ==
    last = "false" =>
        IF lock = NULL
        THEN hook = NULL /\ late + One(pc = "hook") <= 1
        ELSE /\ late = 0 /\ want[lock] = NULL
             /\ "hook" \in todo[lock] \/ hook = NULL

\* Every step keeps OffInv.
LEMMA OffStep == TypeOK /\ WritersInv /\ OffInv /\ [Next]_vars => OffInv'
<1> SUFFICES ASSUME TypeOK /\ WritersInv /\ OffInv, [Next]_vars PROVE OffInv'
  OBVIOUS
<1> USE HookAssumption DEF WritersInv, OffInv, One,
           TypeOK, Thread, Hook, Flag, HookOf, words, history
<1>1. CASE UNCHANGED vars
  BY <1>1 DEF vars, history
<1>2. CASE Test
  BY <1>2 DEF Test
<1>3. CASE Dispatch
  BY <1>3 DEF Dispatch, SetHook
<1>4. CASE RunHandler
  BY <1>4 DEF RunHandler
<1>5. CASE HandlerEnds
  BY <1>5 DEF HandlerEnds
<1>6. ASSUME NEW w \in {"hook", "mask"}, WriteWord(VM, w) PROVE OffInv'
  BY <1>6 DEF WriteWord
<1>7. ASSUME NEW h \in {"nil", "func"}, Register(h) \/ SetHandler(h)
      PROVE  OffInv'
  BY <1>7 DEF Register, SetHandler
<1>8. CASE RegisterOutOfMemory
  BY <1>8 DEF RegisterOutOfMemory
<1>9. ASSUME NEW i \in Interrupter, Release(i) PROVE OffInv'
  BY <1>9 DEF Release
<1>10. ASSUME NEW i \in Interrupter, NEW w \in {"hook", "mask"},
             WriteWord(i, w)
      PROVE  OffInv'
  BY <1>10 DEF WriteWord
<1>11. ASSUME NEW i \in Interrupter, NEW flag \in Flag, Interrupt(i, flag)
      PROVE  OffInv'
  BY <1>11 DEF Interrupt, SetHook
<1> QED
  BY <1>1, <1>2, <1>3, <1>4, <1>5, <1>6,
     <1>7, <1>8, <1>9, <1>10, <1>11 DEF Next, Execute, Continue

----------------------------------------------------------------------------
(* The two words agree between calls.                                      *)

\* The words that a writer of hook h has written are those of h.
Written(t, h) ==
    /\ "hook" \in todo[t] \/ hook = h
    /\ "mask" \in todo[t] \/ (mask <=> h # NULL)

\* A call that is not crossed by a reset has the words for itself; so has the
\* reset that follows it.
SettledInv ==
    ~crossed =>
        IF lock # NULL
        THEN todo[VM] = {} /\ want[lock] = HookOf(last) /\ Written(lock, HookOf(last))
        ELSE \/ last = "nil" /\ Written(VM, NULL)
             \/ todo[VM] = {} /\ Written(VM, HookOf(last))

\* Every step keeps SettledInv.
LEMMA SettledStep ==
    TypeOK /\ WritersInv /\ SettledInv /\ [Next]_vars => SettledInv'
<1> SUFFICES ASSUME TypeOK /\ WritersInv /\ SettledInv, [Next]_vars
    PROVE  SettledInv'
  OBVIOUS
<1> USE HookAssumption DEF WritersInv, SettledInv, Written,
           TypeOK, Thread, Hook, Flag, HookOf, words, history
<1>1. CASE UNCHANGED vars
  BY <1>1 DEF vars, history
<1>2. CASE Test
  BY <1>2 DEF Test
<1>3. CASE Dispatch
  <2>1. todo[VM] = {}
    BY <1>3 DEF Dispatch
  <2>2. CASE hook = "hook1" /\ lock = NULL
    BY <1>3, <2>1, <2>2 DEF Dispatch, SetHook
  <2>3. CASE hook = "hook1" /\ lock # NULL
    BY <1>3, <2>3 DEF Dispatch, SetHook
  <2>4. CASE hook # "hook1"
    BY <1>3, <2>4 DEF Dispatch
  <2> QED
    BY <2>2, <2>3, <2>4
<1>4. CASE RunHandler
  BY <1>4 DEF RunHandler
<1>5. CASE HandlerEnds
  BY <1>5 DEF HandlerEnds
<1>6. ASSUME NEW w \in {"hook", "mask"}, WriteWord(VM, w) PROVE SettledInv'
  BY <1>6 DEF WriteWord
<1>7. ASSUME NEW h \in {"nil", "func"}, Register(h) \/ SetHandler(h)
      PROVE  SettledInv'
  BY <1>7 DEF Register, SetHandler
<1>8. CASE RegisterOutOfMemory
  BY <1>8 DEF RegisterOutOfMemory
<1>9. ASSUME NEW i \in Interrupter, Release(i) PROVE SettledInv'
  BY <1>9 DEF Release
<1>10. ASSUME NEW i \in Interrupter, NEW w \in {"hook", "mask"},
             WriteWord(i, w)
      PROVE  SettledInv'
  BY <1>10 DEF WriteWord
<1>11. ASSUME NEW i \in Interrupter, NEW flag \in Flag, Interrupt(i, flag)
      PROVE  SettledInv'
  BY <1>11 DEF Interrupt, SetHook
<1> QED
  BY <1>1, <1>2, <1>3, <1>4, <1>5, <1>6,
     <1>7, <1>8, <1>9, <1>10, <1>11 DEF Next, Execute, Continue

----------------------------------------------------------------------------
(* Theorems.                                                               *)

HookInv == TypeOK /\ WritersInv /\ CreditInv /\ OffInv /\ SettledInv

\* The conjunction is inductive.
LEMMA HookInvariant == Spec => []HookInv
<1>1. ASSUME Init PROVE HookInv
  <2> USE <1>1, HookAssumption DEF Init, Thread
  <2>1. TypeOK
    <3>1. want \in [Thread -> Hook \cup {NULL}]
      OBVIOUS
    <3>2. todo \in [Thread -> SUBSET {"hook", "mask"}]
      OBVIOUS
    <3>3. raised \in {NULL, Interrupted} /\ due \in SUBSET Interrupter
      OBVIOUS
    <3>4. calls \in 0..MaxCalls /\ credit \in Int /\ late \in 0..2
      OBVIOUS
    <3>5. mask \in BOOLEAN /\ crossed \in BOOLEAN
      OBVIOUS
    <3> QED
      BY <3>1, <3>2, <3>3, <3>4, <3>5 DEF TypeOK, Flag
  <2>2. WritersInv
    <3>1. todo[VM] = {} /\ \A i \in Interrupter : todo[i] = {}
      OBVIOUS
    <3> QED
      BY <3>1 DEF WritersInv
  <2>3. CreditInv
    <3>1. PickedUp = 0 /\ Installed = 0 /\ Underway = 0
      BY DEF One, PickedUp, Installed, Underway
    <3> QED
      BY <3>1 DEF CreditInv
  <2>4. OffInv
    BY DEF OffInv, One
  <2>5. SettledInv
    BY DEF SettledInv, Written, HookOf
  <2> QED
    BY <2>1, <2>2, <2>3, <2>4, <2>5 DEF HookInv
<1>2. HookInv /\ [Next]_vars => HookInv'
  BY TypeStep, WritersStep, CreditStep, OffStep, SettledStep DEF HookInv
<1> QED
  BY <1>1, <1>2, PTL DEF Spec

\* Every variable of HookDelivery keeps its type.
THEOREM TypeCorrect == Spec => []TypeOK
<1>1. HookInv => TypeOK
  BY DEF HookInv
<1> QED
  BY <1>1, HookInvariant, PTL

\* A single interrupt (mtint.interrupt without flag) runs the handler at most
\* once, however the words of several calls and of the reset in interruptHook1
\* are torn.
THEOREM RunsOnce == Spec => []SingleRunsOnce
<1>1. HookInv => SingleRunsOnce
  BY DEF HookInv, CreditInv, One, PickedUp, Installed, Underway,
     SingleRunsOnce, TypeOK
<1> QED
  BY <1>1, HookInvariant, PTL

\* After mtint.interrupt(id, false) has returned the handler runs at most once
\* more.
THEOREM OffFinal == Spec => []OffIsFinal
<1>1. HookInv => OffIsFinal
  BY DEF HookInv, OffInv, OffIsFinal, One, TypeOK
<1> QED
  BY <1>1, HookInvariant, PTL

\* Between calls that no reset has crossed, L->hook and L->hookmask agree and
\* are those of the last call or of the reset that followed it.
THEOREM Settled == Spec => []WordsSettled
<1>1. HookInv => WordsSettled
  BY HookAssumption DEF HookInv, SettledInv, WordsSettled, Written, HookOf
<1> QED
  BY <1>1, HookInvariant, PTL
=============================================================================
