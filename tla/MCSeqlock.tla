----------------------------- MODULE MCSeqlock -----------------------------
(***************************************************************************)
(* Seqlock for TLC: two bumpers that race, an owner, two waiters, and a     *)
(* counter of four values that starts just before it wraps.  The initial    *)
(* states cover the build with a futex and the one with a mutex.            *)
(***************************************************************************)
EXTENDS Seqlock
=============================================================================
