------------------------------- MODULE Seqlock -------------------------------
(***************************************************************************)
(* lib/seqlock.c: one seqlock with its bumpers, its owner and its waiters.  *)
(*                                                                          *)
(* An action is one access to sqlo->pos or one call of the system.  The     *)
(* word is a held bit, a waiters bit and a counter modulo M (2^30 in the    *)
(* code: SEQLOCK_INCR is 4 and bits 0 and 1 are taken).  n, a history       *)
(* variable, is the counter that never wraps; registers that hold a counter *)
(* hold n, and are only looked at modulo M.                                 *)
(***************************************************************************)
EXTENDS Integers

CONSTANTS Bumpers,  \* threads that call seqlock_bump
          Owner,    \* the thread that acquires and releases
          Waiters,  \* threads that call seqlock_wait and seqlock_timedwait
          M,        \* the number of values of the counter
          Span,     \* callers' waits and positions are at most this far apart
          First,    \* the position a behaviour starts from
          MaxN      \* bound: the last position

NONE == -1
Posters == Bumpers \cup {Owner}

ASSUME SeqlockAssumption ==
  /\ M \in Nat /\ Span \in Nat /\ First \in Nat /\ MaxN \in Nat
  /\ Span > 0 /\ 4 * Span <= M
  /\ Owner \notin Bumpers /\ Posters \cap Waiters = {}
  /\ NONE \notin Waiters

VARIABLES pos,      \* sqlo->pos
          n,        \* history: the counter it stands for
          pc,       \* where each thread is
          cur,      \* what it last read of pos
          val,      \* history: what each waiter waits for, or NONE
          timed,    \* it is in seqlock_timedwait
          ok,       \* what its last call returned
          lock,     \* sqlo->lock
          futex     \* the build has a futex; if not, a mutex and a condition

vars == <<pos, n, pc, cur, val, timed, ok, lock, futex>>

Word == [held: BOOLEAN, waiters: BOOLEAN, val: 0..(M - 1)]
Idle == [held |-> FALSE, waiters |-> FALSE, val |-> 0]
\* Mutant: a counter that does not wrap.
AtUnwrapped(v) == [held |-> TRUE, waiters |-> FALSE, val |-> v]

At(v) == [held |-> TRUE, waiters |-> FALSE, val |-> v % M]
Waited(p) == [p EXCEPT !.waiters = TRUE]   \* SEQLOCK_WAITERS

Goto(t, l) == pc' = [pc EXCEPT ![t] = l]

\* cal: how far p is after v, on the circle.
Cal(p, v) == (p.val - (v % M)) % M

\* Mutant: the number itself counts as past.
PastOrAt(p, v) == ~p.held \/ Cal(p, v) \in 0..(M \div 2)

Past(p, v) == ~p.held \/ Cal(p, v) \in 1..(M \div 2)

-----------------------------------------------------------------------------
(* Posters. *)

InSpan(m) == \A w \in Waiters : val[w] # NONE => m - val[w] <= Span

\* wait_poke is called when the word that was replaced has the waiters bit.
Post(p, old) ==
  /\ Goto(p, IF old.waiters THEN "poke" ELSE "idle")
  /\ cur' = [cur EXCEPT ![p] = Idle]

\* The owner does not touch a counter while others bump it.
Bumping == \E b \in Bumpers : pc[b] # "idle"

seqlock_bump(b) ==
  /\ pc[b] = "idle" /\ pos.held /\ n < MaxN
  /\ cur' = [cur EXCEPT ![b] = pos]
  /\ Goto(b, "cas")
  /\ UNCHANGED <<pos, n, val, timed, ok, lock, futex>>

\* Mutant: a step of two.
seqlock_bump_twice(b) ==
  /\ pc[b] = "cas" /\ n < MaxN /\ InSpan(n + 1)
  /\ \/ /\ pos = cur[b]
        /\ pos' = At(cur[b].val + 2) /\ n' = n + 1
        /\ Post(b, pos)
     \/ /\ cur' = [cur EXCEPT ![b] = pos]
        /\ UNCHANGED <<pos, n, pc>>
  /\ UNCHANGED <<val, timed, ok, lock, futex>>

seqlock_bump_cas(b) ==
  /\ pc[b] = "cas" /\ n < MaxN /\ InSpan(n + 1)
  /\ \/ /\ pos = cur[b]
        /\ pos' = At(cur[b].val + 1) /\ n' = n + 1
        /\ Post(b, pos)
     \/ /\ cur' = [cur EXCEPT ![b] = pos]
        /\ UNCHANGED <<pos, n, pc>>
  /\ UNCHANGED <<val, timed, ok, lock, futex>>

seqlock_acquire_val(m) ==
  /\ pc[Owner] = "idle" /\ ~Bumping /\ m >= n /\ InSpan(m)
  /\ pos' = At(m) /\ n' = m
  /\ Post(Owner, pos)
  /\ UNCHANGED <<val, timed, ok, lock, futex>>

seqlock_release ==
  /\ pc[Owner] = "idle" /\ ~Bumping
  /\ pos' = Idle
  /\ Post(Owner, pos)
  /\ UNCHANGED <<n, val, timed, ok, lock, futex>>

\* Wakes every waiter that sleeps.
wait_poke(p) ==
  /\ pc[p] = "poke" /\ (futex \/ lock = NONE)
  /\ pc' = [t \in DOMAIN pc |-> IF t = p THEN "idle"
                                ELSE IF pc[t] = "asleep" THEN "load" ELSE pc[t]]
  /\ cur' = [t \in DOMAIN cur |-> IF pc[t] = "asleep" THEN Idle ELSE cur[t]]
  /\ UNCHANGED <<pos, n, val, timed, ok, lock, futex>>

-----------------------------------------------------------------------------
(* Waiters: seqlock_wait, and seqlock_timedwait where timed. *)

seqlock_wait(w, v) ==
  /\ pc[w] = "idle" /\ n - v \in (1 - Span)..Span
  /\ val' = [val EXCEPT ![w] = v]
  /\ timed' \in {[timed EXCEPT ![w] = b] : b \in BOOLEAN}
  /\ ok' = [ok EXCEPT ![w] = TRUE]
  /\ Goto(w, "load")
  /\ UNCHANGED <<pos, n, cur, lock, futex>>

\* The call returns r.
Done(w, r) ==
  /\ Goto(w, "idle")
  /\ cur' = [cur EXCEPT ![w] = Idle]
  /\ val' = [val EXCEPT ![w] = NONE]
  /\ timed' = [timed EXCEPT ![w] = FALSE]
  /\ ok' = [ok EXCEPT ![w] = r]
  /\ lock' = NONE

Again(w) ==
  /\ Goto(w, "load")
  /\ cur' = [cur EXCEPT ![w] = Idle]
  /\ UNCHANGED <<val, timed, ok, lock>>

\* The head of the loop, with the word just read.
Loop(w) ==
  \/ Past(pos, val[w]) /\ Done(w, TRUE)
  \/ /\ ~Past(pos, val[w])
     /\ cur' = [cur EXCEPT ![w] = pos]
     /\ Goto(w, IF pos.waiters THEN "sleep" ELSE "cas")
     /\ lock' = IF futex THEN lock ELSE w
     /\ UNCHANGED <<val, timed, ok>>

\* wait_prep, or a wait that ended: read the word.
wait_load(w) ==
  /\ pc[w] = "load" /\ (futex \/ lock = NONE)
  /\ Loop(w)
  /\ UNCHANGED <<pos, n, futex>>

wait_cas(w) ==
  /\ pc[w] = "cas" /\ pos = cur[w]
  /\ pos' = Waited(pos)
  /\ cur' = [cur EXCEPT ![w] = Waited(pos)]
  /\ Goto(w, "sleep")
  /\ UNCHANGED <<n, val, timed, ok, lock, futex>>

\* compare_exchange_weak may fail for no reason; it reads the word again.
wait_cas_fail(w) ==
  /\ pc[w] = "cas"
  /\ Loop(w)
  /\ UNCHANGED <<pos, n, futex>>

\* Mutant: it sleeps whatever the word is.
wait_once_blind(w) ==
  /\ pc[w] = "sleep"
  /\ Goto(w, "asleep")
  /\ lock' = NONE
  /\ UNCHANGED <<pos, n, cur, val, timed, ok, futex>>

\* A futex sleeps only on the word it was given; a condition always does.
wait_once(w) ==
  /\ pc[w] = "sleep"
  /\ futex => pos = cur[w]
  /\ Goto(w, "asleep")
  /\ lock' = NONE
  /\ UNCHANGED <<pos, n, cur, val, timed, ok, futex>>

\* EAGAIN, when the word has changed.
wait_eagain(w) ==
  /\ pc[w] = "sleep" /\ futex /\ pos # cur[w]
  /\ IF timed[w] THEN Done(w, FALSE) ELSE Again(w)
  /\ UNCHANGED <<pos, n, futex>>

\* A spurious wake-up; in seqlock_wait also EINTR.
wait_spurious(w) ==
  /\ pc[w] = "asleep"
  /\ Again(w)
  /\ UNCHANGED <<pos, n, futex>>

\* The time limit; in seqlock_timedwait also EINTR.
wait_time(w) ==
  /\ pc[w] = "asleep" /\ timed[w] /\ (futex \/ lock = NONE)
  /\ Done(w, FALSE)
  /\ UNCHANGED <<pos, n, futex>>

-----------------------------------------------------------------------------
\* seqlock_init and seqlock_acquire_val; First is what some bumps made of it.
Init ==
  /\ pos = At(First) /\ n = First
  /\ pc = [t \in Posters \cup Waiters |-> "idle"]
  /\ cur = [t \in Posters \cup Waiters |-> Idle]
  /\ val = [w \in Waiters |-> NONE]
  /\ timed = [w \in Waiters |-> FALSE] /\ ok = [w \in Waiters |-> TRUE]
  /\ lock = NONE /\ futex \in BOOLEAN

Poster(p) ==
  \/ wait_poke(p)
  \/ p \in Bumpers /\ (seqlock_bump(p) \/ seqlock_bump_cas(p))
  \/ p = Owner /\ (seqlock_release \/ \E m \in 0..MaxN : seqlock_acquire_val(m))

Step(w) ==
  \/ wait_load(w) \/ wait_cas(w) \/ wait_cas_fail(w) \/ wait_once(w)
  \/ wait_eagain(w)

Waiter(w) ==
  \/ Step(w) \/ wait_spurious(w) \/ wait_time(w)
  \/ \E v \in 0..MaxN : seqlock_wait(w, v)

Next == (\E p \in Posters : Poster(p)) \/ (\E w \in Waiters : Waiter(w))

\* The scheduler runs every thread that can run.  A mutex that is free over and
\* over is got in the end, and compare_exchange_weak does not fail for ever.
Fairness ==
  /\ \A p \in Posters : SF_vars(wait_poke(p))
  /\ \A w \in Waiters : /\ WF_vars(Step(w)) /\ SF_vars(wait_load(w))
                        /\ SF_vars(wait_cas(w))

Spec == Init /\ [][Next]_vars
LiveSpec == Spec /\ Fairness

-----------------------------------------------------------------------------
\* Every variable has its type: the counter of the word stays below M.
TypeOK ==
  /\ pos \in Word /\ n \in Nat
  /\ pc \in [Posters \cup Waiters -> {"idle", "load", "cas", "sleep", "asleep", "poke"}]
  /\ cur \in [Posters \cup Waiters -> Word]
  /\ val \in [Waiters -> Nat \cup {NONE}]
  /\ timed \in [Waiters -> BOOLEAN] /\ ok \in [Waiters -> BOOLEAN]
  /\ lock \in Waiters \cup {NONE} /\ futex \in BOOLEAN

\* No wake-up is lost: while a waiter sleeps, the word is the one it went to
\* sleep on, waiters bit set, or some thread is about to call wait_poke.
NoLostWakeup ==
  \A w \in Waiters : pc[w] = "asleep" =>
    (pos = cur[w] /\ pos.waiters) \/ \E p \in Posters : pc[p] = "poke"

\* The assertion on cal in seqlock_wait, seqlock_timedwait and seqlock_check
\* holds of every position a waiter may read.
CalInRange ==
  \A w \in Waiters : val[w] # NONE /\ pos.held =>
    Cal(pos, val[w]) \in 0..(M \div 4) \cup ((3 * (M \div 4) + 1)..(M - 1))

\* seqlock.c keeps what seqlock.h promises: a wait returns true only when the
\* lock is idle or past its number, and then it does return; only a timed wait
\* returns false.
Promise == INSTANCE SeqlockSpec
  WITH held <- pos.held,
       waiting <- val
Implements == Promise!Spec
=============================================================================
