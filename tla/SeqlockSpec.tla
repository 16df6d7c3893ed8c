----------------------------- MODULE SeqlockSpec -----------------------------
(***************************************************************************)
(* What lib/seqlock.h promises of one seqlock: an atomic position that is   *)
(* idle or held at a number that counts up for ever, bumps that take one    *)
(* number each, and waits that return when it is idle or past their number. *)
(***************************************************************************)
EXTENDS Integers

CONSTANTS Waiters, First,
          Span      \* how far waits and positions are apart, at most

NONE == -1

VARIABLES held, n,  \* held at n; n stays when it is released
          waiting,  \* the number each waiter waits for, or NONE
          timed,    \* it has a time limit
          ok        \* it returned true

specvars == <<held, n, waiting, timed, ok>>

Past(v) == ~held \/ n > v

\* Callers stay close enough to each other for 32 bits to tell before from after.
InSpan(m) == \A w \in Waiters : waiting[w] # NONE => m - waiting[w] <= Span

Init ==
  /\ held = TRUE /\ n = First
  /\ waiting = [w \in Waiters |-> NONE]
  /\ timed = [w \in Waiters |-> FALSE] /\ ok = [w \in Waiters |-> TRUE]

Bump ==
  /\ held /\ held' = TRUE
  /\ n' = n + 1 /\ InSpan(n + 1)
  /\ UNCHANGED <<waiting, timed, ok>>

Acquire ==
  /\ held' = TRUE
  /\ n' \in Nat /\ n' >= n /\ InSpan(n')
  /\ UNCHANGED <<waiting, timed, ok>>

Release ==
  /\ held' = FALSE
  /\ UNCHANGED <<n, waiting, timed, ok>>

Wait(w, v) ==
  /\ waiting[w] = NONE /\ v >= 0
  /\ waiting' = [waiting EXCEPT ![w] = v]
  /\ timed' \in {[timed EXCEPT ![w] = b] : b \in BOOLEAN}
  /\ ok' = [ok EXCEPT ![w] = TRUE]
  /\ UNCHANGED <<held, n>>

Done(w, r) ==
  /\ waiting[w] # NONE
  /\ waiting' = [waiting EXCEPT ![w] = NONE]
  /\ timed' = [timed EXCEPT ![w] = FALSE]
  /\ ok' = [ok EXCEPT ![w] = r]
  /\ UNCHANGED <<held, n>>

Return(w) == Past(waiting[w]) /\ Done(w, TRUE)

\* seqlock_timedwait only
GiveUp(w) == timed[w] /\ Done(w, FALSE)

Next ==
  \/ Bump \/ Acquire \/ Release
  \/ \E w \in Waiters : Return(w) \/ GiveUp(w)
                         \/ \E v \in (n - Span)..(n + Span - 1) : Wait(w, v)

Safe == Init /\ [][Next]_specvars
Spec == Safe /\ \A w \in Waiters : WF_specvars(Return(w))
=============================================================================
