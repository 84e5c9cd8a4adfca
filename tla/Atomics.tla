------------------------------ MODULE Atomics -------------------------------
(***************************************************************************)
(* The atomic operations of src/async_util.h on an AtomicCounter, a signed *)
(* machine integer: on every backend they wrap around at its ends.  Each   *)
(* use of one is a single step of the modules that use it.                 *)
(***************************************************************************)
EXTENDS Integers

CONSTANT MaxInt     \* the largest value of an AtomicCounter

ASSUME AtomicsAssumption == MaxInt \in Nat

AtomicCounter == (-MaxInt - 1)..MaxInt

\* atomic_inc and atomic_dec: the new value, which they return, too.
Incremented(v) == IF v = MaxInt THEN -MaxInt - 1 ELSE v + 1
Decremented(v) == IF v = -MaxInt - 1 THEN MaxInt ELSE v - 1

\* atomic_set_if_equal: the new value; it returns whether v = old.
SetIfEqual(v, old, new) == IF v = old THEN new ELSE v
=============================================================================
