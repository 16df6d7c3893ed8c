------------------------------- MODULE MCFrrcu -------------------------------
(***************************************************************************)
(* Frrcu for TLC: the main thread and one that comes and goes; one object   *)
(* swapped for another is enough for three epochs to be open at once, and   *)
(* with MaxDepth = 2 readers nest.  In bad_rcu.cfg two threads register at  *)
(* the same time, the second behind the half-linked first.                  *)
(***************************************************************************)
EXTENDS Frrcu
=============================================================================
