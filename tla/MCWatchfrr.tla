----------------------------- MODULE MCWatchfrr -----------------------------
(***************************************************************************)
(* Watchfrr for TLC: zebra and one other daemon, so that the command for    *)
(* all and the command for one can overlap.                                 *)
(***************************************************************************)
EXTENDS Watchfrr
=============================================================================
