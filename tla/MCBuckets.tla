----------------------------- MODULE MCBuckets ------------------------------
(* Buckets for TLC: records are interchangeable.                           *)
EXTENDS Buckets, TLC

Symmetry == Permutations(Rec)
=============================================================================
