-------------------------- MODULE MCInterruptible --------------------------
(***************************************************************************)
(* Small instances of Interruptible for TLC: two threads; thread t1 has a  *)
(* main state and a coroutine, thread t2 a main state.                     *)
(***************************************************************************)
EXTENDS Interruptible, TLC

CONSTANTS t1, t2, m1, m2, c1

MCThread == {t1, t2}
MCLState == {m1, m2, c1}
MCMain   == t1 :> m1 @@ t2 :> m2
MCOwner  == m1 :> t1 @@ c1 :> t1 @@ m2 :> t2

Symmetry == Permutations(Intr) \cup Permutations(Udata)
=============================================================================
