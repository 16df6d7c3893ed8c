---------------------------- MODULE SeqlockProofs ----------------------------
(***************************************************************************)
(* Proofs about Seqlock, for any threads and any size M of the counter that *)
(* is at least four times as large as the distance callers keep.            *)
(***************************************************************************)
EXTENDS Seqlock, TLAPS

-----------------------------------------------------------------------------
(* Arithmetic on the circle. *)

LEMMA ModRange ==
  ASSUME NEW a \in Int, NEW m \in Nat, m > 0
  PROVE  a % m \in 0..(m - 1) /\ a = m * (a \div m) + (a % m) /\ a \div m \in Int
BY SMT

LEMMA ModSmall ==
  ASSUME NEW a \in Int, NEW m \in Nat, a \in 0..(m - 1)
  PROVE  a % m = a
BY SMT

LEMMA ModNegative ==
  ASSUME NEW a \in Int, NEW m \in Nat, a \in (1 - m)..(-1)
  PROVE  a % m = a + m
BY SMT

LEMMA SmallMultiple ==
  ASSUME NEW m \in Nat, NEW q \in Int, m * q < 2 * m, m * q > -(2 * m)
  PROVE  q \in {-1, 0, 1}
BY SMT

LEMMA Distribute ==
  ASSUME NEW m \in Int, NEW q \in Int, NEW r \in Int
  PROVE  m * (q - r) = m * q - m * r
BY SMT

\* The counter modulo M steps as the counter does (seqlock_bump).
LEMMA ModStep ==
  ASSUME NEW k \in Nat, NEW m \in Nat, m > 1
  PROVE  ((k % m) + 1) % m = (k + 1) % m
<1> DEFINE a == k % m
           q == k \div m
           b == (k + 1) % m
           r == (k + 1) \div m
<1>1. a \in 0..(m - 1) /\ k = m * q + a /\ q \in Int
  BY ModRange
<1>2. b \in 0..(m - 1) /\ k + 1 = m * r + b /\ r \in Int
  BY ModRange
<1> HIDE DEF a, q, b, r
<1>3. m * (r - q) = a + 1 - b
  <2>1. m * (r - q) = m * r - m * q
    BY <1>1, <1>2, Distribute
  <2>2. m * r \in Int /\ m * q \in Int
    BY <1>1, <1>2
  <2> QED  BY <2>1, <2>2, <1>1, <1>2
<1>4. r - q \in {-1, 0, 1}
  <2>1. m * (r - q) < 2 * m /\ m * (r - q) > -(2 * m)
    BY <1>1, <1>2, <1>3
  <2> QED  BY <2>1, <1>1, <1>2, SmallMultiple
<1>5. CASE r - q = 0
  <2>1. m * (r - q) = 0  BY <1>5
  <2>2. b = a + 1        BY <2>1, <1>1, <1>2, <1>3
  <2>3. (a + 1) % m = a + 1  BY <2>2, <1>1, <1>2, ModSmall
  <2> QED  BY <2>2, <2>3, Zenon DEF a, b
<1>6. CASE r - q = 1
  <2>1. m * (r - q) = m  BY <1>6
  <2>2. a + 1 = m /\ b = 0  BY <2>1, <1>1, <1>2, <1>3
  <2>3. m % m = 0  BY SMT
  <2> QED  BY <2>2, <2>3, Zenon DEF a, b
<1>7. CASE r - q = -1
  <2>1. m * (r - q) = -m  BY <1>7
  <2> QED  BY <2>1, <1>1, <1>2, <1>3
<1> QED  BY <1>4, <1>5, <1>6, <1>7, Zenon

\* What cal tells: the distance, or the distance plus M when it is negative.
LEMMA Distance ==
  ASSUME NEW k \in Nat, NEW v \in Nat, NEW m \in Nat,
         k - v < m, v - k < m
  PROVE  ((k % m) - (v % m)) % m = IF k >= v THEN k - v ELSE k - v + m
<1> DEFINE d == k - v
           a == k % m
           q == k \div m
           b == v % m
           r == v \div m
<1>0. d \in Int /\ m > 0 /\ d \in (1 - m)..(m - 1) /\ (k >= v <=> d >= 0)
  OBVIOUS
<1>1. a \in 0..(m - 1) /\ k = m * q + a /\ q \in Int
  BY <1>0, ModRange
<1>2. b \in 0..(m - 1) /\ v = m * r + b /\ r \in Int
  BY <1>0, ModRange
<1> HIDE DEF a, q, b, r
<1>3. m * (q - r) = d - (a - b)
  <2>1. m * (q - r) = m * q - m * r
    BY <1>1, <1>2, Distribute
  <2>2. m * r \in Int /\ m * q \in Int
    BY <1>1, <1>2
  <2> QED  BY <2>1, <2>2, <1>1, <1>2
<1>4. q - r \in {-1, 0, 1}
  <2>1. m * (q - r) < 2 * m /\ m * (q - r) > -(2 * m)
    BY <1>0, <1>1, <1>2, <1>3
  <2> QED  BY <2>1, <1>1, <1>2, SmallMultiple
<1>5. d = k - v
  BY Zenon DEF d
<1> HIDE DEF d
<1>6. a - b \in {d, d - m, d + m}
  <2>1. m * (q - r) \in {0, m, -m}
    BY <1>4
  <2> QED  BY <2>1, <1>0, <1>1, <1>2, <1>3
<1>7. a - b \in (1 - m)..(m - 1)
  BY <1>1, <1>2
<1>8. (a - b) % m = IF d >= 0 THEN d ELSE d + m
  <2>1. CASE a - b >= 0
    <3>1. (a - b) % m = a - b
      BY <1>1, <1>2, <1>7, <2>1, ModSmall
    <3> QED  BY <3>1, <1>0, <1>1, <1>2, <1>6, <2>1
  <2>2. CASE a - b < 0
    <3>1. (a - b) % m = a - b + m
      BY <1>1, <1>2, <1>7, <2>2, ModNegative
    <3> QED  BY <3>1, <1>0, <1>1, <1>2, <1>6, <2>2
  <2> QED  BY <1>1, <1>2, <2>1, <2>2
<1> QED  BY <1>0, <1>8, <1>5, Zenon DEF a, b

-----------------------------------------------------------------------------
(* The inductive invariant. *)

\* The word stands for the counter, and callers are close to it.
Counted ==
  /\ pos.held => pos.val = n % M
  /\ \A w \in Waiters : val[w] # NONE => n - val[w] \in (1 - Span)..Span
  /\ \A b \in Bumpers : pc[b] = "cas" => pos.held

Places ==
  /\ \A p \in Posters : pc[p] \in {"idle", "cas", "poke"}
  /\ pc[Owner] # "cas"
  /\ \A w \in Waiters : pc[w] # "poke" /\ (val[w] = NONE <=> pc[w] = "idle")

Poked == \E p \in Posters : pc[p] = "poke"

\* A waiter that is about to sleep has set the waiters bit.  Without a futex it
\* holds the mutex, which keeps every wait_poke out until it sleeps.
Sleepers ==
  \A w \in Waiters :
    /\ pc[w] \in {"sleep", "asleep"} => cur[w].waiters
    /\ ~futex /\ pc[w] \in {"cas", "sleep"} => lock = w
    /\ ~futex /\ pc[w] = "sleep" => pos = cur[w] \/ Poked
    /\ pc[w] = "asleep" => pos = cur[w] \/ Poked

Inv == TypeOK /\ Counted /\ Places /\ Sleepers

\* In a state of Inv, Past tells the position from the number waited for, and
\* the code's assertion on cal holds.
LEMMA PastIsPast ==
  ASSUME TypeOK, Counted, NEW w \in Waiters, val[w] # NONE
  PROVE  /\ Past(pos, val[w]) <=> ~pos.held \/ n > val[w]
         /\ pos.held => Cal(pos, val[w]) \in 0..(M \div 4) \cup ((3 * (M \div 4) + 1)..(M - 1))
<1> DEFINE d == n - val[w]
<1>1. /\ n \in Nat /\ val[w] \in Nat /\ M \in Nat /\ Span \in Nat /\ 4 * Span <= M
      /\ Span > 0 /\ d \in (1 - Span)..Span
  BY SeqlockAssumption, Zenon DEF TypeOK, Counted
<1>2. d \in Int /\ d \in (1 - M)..(M - 1)
  BY <1>1
<1>3. ((n % M) - (val[w] % M)) % M = IF d >= 0 THEN d ELSE d + M
  <2>1. n - val[w] < M /\ val[w] - n < M
    BY <1>1
  <2>2. ((n % M) - (val[w] % M)) % M
           = IF n >= val[w] THEN n - val[w] ELSE n - val[w] + M
    BY <1>1, <2>1, Distance, Zenon
  <2>3. n >= val[w] <=> d >= 0
    BY <1>1
  <2> QED  BY <2>2, <2>3, Zenon
<1>4. pos.held => Cal(pos, val[w]) = IF d >= 0 THEN d ELSE d + M
  BY <1>3, Zenon DEF Cal, Counted
<1>5. pos.held => (Cal(pos, val[w]) \in 1..(M \div 2) <=> n > val[w])
  BY <1>1, <1>4
<1>6. pos.held => Cal(pos, val[w]) \in 0..(M \div 4) \cup ((3 * (M \div 4) + 1)..(M - 1))
  <2>1. Span <= M \div 4
    BY <1>1
  <2>2. M \div 4 \in Nat /\ 4 * (M \div 4) <= M
    BY <1>1
  <2> QED  BY <1>1, <1>4, <2>1, <2>2
<1> QED  BY <1>5, <1>6, Zenon DEF Past

LEMMA InitInv == Init => Inv
<1> SUFFICES ASSUME Init PROVE Inv
  OBVIOUS
<1>1. First % M \in 0..(M - 1) /\ M \in Nat /\ First \in Nat
  BY SeqlockAssumption
<1>2. TypeOK
  BY <1>1 DEF Init, TypeOK, Word, Idle, At
<1>3. Counted
  BY Zenon DEF Init, Counted, At, NONE, Posters
<1>4. Places /\ Sleepers
  BY Zenon DEF Init, Places, Sleepers, Posters
<1> QED  BY <1>2, <1>3, <1>4, Zenon DEF Inv

\* Waiters and posters are different threads.
LEMMA Apart ==
  /\ \A w \in Waiters : w \notin Posters /\ w \notin Bumpers /\ w # Owner
  /\ Owner \in Posters /\ Bumpers \subseteq Posters
  /\ \A b \in Bumpers : b # Owner
BY SeqlockAssumption, Zenon DEF Posters

LEMMA Words ==
  /\ Idle \in Word
  /\ \A v \in Int : At(v) \in Word
  /\ \A p \in Word : Waited(p) \in Word /\ Waited(p).waiters
                     /\ Waited(p).held = p.held /\ Waited(p).val = p.val
<1>1. M \in Nat /\ M > 0
  BY SeqlockAssumption
<1>2. \A v \in Int : v % M \in 0..(M - 1)
  BY <1>1, ModRange, Zenon
<1>3. Idle \in Word
  BY <1>1 DEF Idle, Word
<1>4. \A v \in Int : At(v) \in Word
  BY <1>1, <1>2, Zenon DEF At, Word
<1>5. ASSUME NEW p \in Word
      PROVE  /\ Waited(p) \in Word /\ Waited(p).waiters
             /\ Waited(p).held = p.held /\ Waited(p).val = p.val
  BY Zenon DEF Waited, Word
<1> QED  BY <1>3, <1>4, <1>5, Zenon

LEMMA BumpStep ==
  ASSUME Inv, NEW b \in Bumpers, seqlock_bump(b)
  PROVE  Inv'
<1> USE DEF Inv, seqlock_bump, Goto
<1>1. TypeOK'
  BY Apart, Zenon DEF TypeOK
<1>2. Counted'
  BY Apart, Zenon DEF TypeOK, Counted
<1>3. Places'
  BY Apart, Zenon DEF TypeOK, Places
<1>4. Sleepers'
  BY Apart, Zenon DEF TypeOK, Sleepers, Poked
<1> QED  BY <1>1, <1>2, <1>3, <1>4, Zenon

LEMMA BumpCasStep ==
  ASSUME Inv, NEW b \in Bumpers, seqlock_bump_cas(b)
  PROVE  Inv'
<1> USE DEF Inv, seqlock_bump_cas, Goto
<1>1. CASE pos' = pos /\ cur' = [cur EXCEPT ![b] = pos] /\ UNCHANGED <<n, pc>>
  <2>1. TypeOK'
    BY <1>1, Apart, Zenon DEF TypeOK
  <2>2. Counted' /\ Places'
    BY <1>1, Apart, Zenon DEF TypeOK, Counted, Places
  <2>3. Sleepers'
    BY <1>1, Apart, Zenon DEF TypeOK, Sleepers, Poked
  <2> QED  BY <2>1, <2>2, <2>3, Zenon
<1>2. CASE pos = cur[b] /\ pos' = At(cur[b].val + 1) /\ n' = n + 1 /\ Post(b, pos)
  <2>0. pos \in Word /\ pos.val \in Int /\ n \in Nat /\ M \in Nat /\ M > 1
    BY SeqlockAssumption DEF TypeOK, Word
  <2>1. TypeOK'
    BY <1>2, <2>0, Apart, Words DEF TypeOK, Post
  <2>2. Counted'
    <3>1. pos.held /\ pos.val = n % M
      BY Zenon DEF Counted
    <3>2. pos'.val = (n + 1) % M
      BY <1>2, <3>1, <2>0, ModStep DEF At
    <3>3. \A w \in Waiters : val'[w] # NONE => n' - val'[w] \in (1 - Span)..Span
      BY <1>2, <2>0, SeqlockAssumption DEF Counted, InSpan, TypeOK
    <3>4. pos'.held
      BY <1>2, Zenon DEF At
    <3> QED  BY <1>2, <3>2, <3>3, <3>4, Zenon DEF Counted
  <2>3. Places'
    BY <1>2, Apart, Zenon DEF TypeOK, Places, Post
  <2>4. Sleepers'
    <3> SUFFICES ASSUME NEW w \in Waiters
                 PROVE  /\ pc'[w] \in {"sleep", "asleep"} => cur'[w].waiters
                        /\ ~futex' /\ pc'[w] \in {"cas", "sleep"} => lock' = w
                        /\ ~futex' /\ pc'[w] = "sleep" => pos' = cur'[w] \/ Poked'
                        /\ pc'[w] = "asleep" => pos' = cur'[w] \/ Poked'
      BY Zenon DEF Sleepers
    <3>1. w # b /\ pc'[w] = pc[w] /\ cur'[w] = cur[w] /\ b \in Posters
      BY <1>2, Apart, Zenon DEF TypeOK, Post
    <3>2. Poked => Poked'
      BY <1>2, Apart, Zenon DEF TypeOK, Post, Poked
    <3>3. pos.waiters => Poked'
      BY <1>2, <3>1, Zenon DEF TypeOK, Post, Poked
    <3> QED  BY <3>1, <3>2, <3>3, Zenon DEF Sleepers
  <2> QED  BY <2>1, <2>2, <2>3, <2>4, Zenon
<1> QED  BY <1>1, <1>2, Zenon

\* Owner replaces the word by q at position m; nothing else of the state moves.
LEMMA OwnerStep ==
  ASSUME Inv, NEW m \in Nat, m >= n, InSpan(m),
         pc[Owner] = "idle", ~Bumping, Post(Owner, pos),
         pos' = At(m) \/ (pos' = Idle /\ m = n), n' = m,
         UNCHANGED <<val, timed, ok, lock, futex>>
  PROVE  Inv'
<1> USE DEF Inv, Post, Goto
<1>0. \A b \in Bumpers : pc[b] = "idle"
  BY Zenon DEF Bumping
<1>1. TypeOK'
  BY Apart, Words DEF TypeOK
<1>2. Counted'
  <2>1. pos'.held => pos'.val = n' % M
    BY DEF At, Idle
  <2>2. \A w \in Waiters : val'[w] # NONE => n' - val'[w] \in (1 - Span)..Span
    BY SeqlockAssumption DEF Counted, InSpan, TypeOK
  <2>3. \A b \in Bumpers : pc'[b] # "cas"
    BY <1>0, Apart, Zenon DEF TypeOK
  <2> QED  BY <2>1, <2>2, <2>3, Zenon DEF Counted
<1>3. Places'
  BY Apart, Zenon DEF TypeOK, Places
<1>4. Sleepers'
  <2> SUFFICES ASSUME NEW w \in Waiters
               PROVE  /\ pc'[w] \in {"sleep", "asleep"} => cur'[w].waiters
                      /\ ~futex' /\ pc'[w] \in {"cas", "sleep"} => lock' = w
                      /\ ~futex' /\ pc'[w] = "sleep" => pos' = cur'[w] \/ Poked'
                      /\ pc'[w] = "asleep" => pos' = cur'[w] \/ Poked'
    BY Zenon DEF Sleepers
  <2>1. w # Owner /\ pc'[w] = pc[w] /\ cur'[w] = cur[w]
    BY Apart, Zenon DEF TypeOK
  <2>2. Poked => Poked'
    BY Apart, Zenon DEF TypeOK, Poked
  <2>3. pos.waiters => Poked'
    BY Apart, Zenon DEF TypeOK, Poked
  <2> QED  BY <2>1, <2>2, <2>3, Zenon DEF Sleepers
<1> QED  BY <1>1, <1>2, <1>3, <1>4, Zenon

LEMMA PokeStep ==
  ASSUME Inv, NEW p \in Posters, wait_poke(p)
  PROVE  Inv'
<1> USE DEF Inv, wait_poke
<1>1. TypeOK'
  BY Apart, Words, Zenon DEF TypeOK
<1>2. Counted'
  BY Apart, Zenon DEF TypeOK, Counted, Posters
<1>3. Places'
  <2>1. \A q \in Posters : pc'[q] = IF q = p THEN "idle" ELSE pc[q]
    BY Zenon DEF TypeOK, Places
  <2>2. \A w \in Waiters : pc'[w] = IF pc[w] = "asleep" THEN "load" ELSE pc[w]
    BY Apart, Zenon DEF TypeOK
  <2> QED  BY <2>1, <2>2, Apart DEF Places
<1>4. Sleepers'
  <2> SUFFICES ASSUME NEW w \in Waiters
               PROVE  /\ pc'[w] \in {"sleep", "asleep"} => cur'[w].waiters
                      /\ ~futex' /\ pc'[w] \in {"cas", "sleep"} => lock' = w
                      /\ ~futex' /\ pc'[w] = "sleep" => pos' = cur'[w] \/ Poked'
                      /\ pc'[w] = "asleep" => pos' = cur'[w] \/ Poked'
    BY Zenon DEF Sleepers
  <2>1. pc'[w] = IF pc[w] = "asleep" THEN "load" ELSE pc[w]
    BY Apart, Zenon DEF TypeOK
  <2>2. pc[w] # "asleep" => cur'[w] = cur[w]
    BY Apart, Zenon DEF TypeOK
  <2>3. ~futex => ~(pc[w] \in {"cas", "sleep"})
    BY SeqlockAssumption, Zenon DEF Sleepers
  <2> QED  BY <2>1, <2>2, <2>3 DEF Sleepers
<1> QED  BY <1>1, <1>2, <1>3, <1>4, Zenon

\* A step of waiter w that leaves the word and the other threads alone.
LEMMA WaiterStep ==
  ASSUME Inv, NEW w \in Waiters, NEW l \in {"idle", "load", "cas", "sleep", "asleep"},
         NEW c \in Word, NEW v \in Nat \cup {NONE}, NEW b \in BOOLEAN, NEW r \in BOOLEAN,
         Goto(w, l), cur' = [cur EXCEPT ![w] = c], val' = [val EXCEPT ![w] = v],
         timed' = [timed EXCEPT ![w] = b], ok' = [ok EXCEPT ![w] = r],
         UNCHANGED <<pos, n, futex>>,
         v = NONE <=> l = "idle", v # NONE => n - v \in (1 - Span)..Span,
         l \in {"sleep", "asleep"} => c.waiters,
         l \in {"sleep", "asleep"} => c = pos \/ (l = "sleep" /\ futex) \/ Poked,
         lock' \in Waiters \cup {NONE},
         ~futex => IF l \in {"cas", "sleep"} THEN lock' = w
                   ELSE lock' = NONE \/ lock' = lock,
         ~futex => lock \in {NONE, w} \/ lock' = lock,
         ~futex /\ lock' # lock /\ lock' = w => lock = NONE
  PROVE  Inv'
<1> USE DEF Inv, Goto
<1>1. TypeOK'
  BY Apart, Zenon DEF TypeOK
<1>2. \A t \in Posters : pc'[t] = pc[t]
  BY Apart, Zenon DEF TypeOK
<1>3. Poked' <=> Poked
  BY <1>2, Zenon DEF Poked
<1>4. Counted'
  BY <1>2, Apart, Zenon DEF TypeOK, Counted
<1>5. Places'
  BY <1>2, Apart, Zenon DEF TypeOK, Places
<1>6. Sleepers'
  <2> SUFFICES ASSUME NEW u \in Waiters
               PROVE  /\ pc'[u] \in {"sleep", "asleep"} => cur'[u].waiters
                      /\ ~futex' /\ pc'[u] \in {"cas", "sleep"} => lock' = u
                      /\ ~futex' /\ pc'[u] = "sleep" => pos' = cur'[u] \/ Poked'
                      /\ pc'[u] = "asleep" => pos' = cur'[u] \/ Poked'
    BY Zenon DEF Sleepers
  <2>1. CASE u = w
    <3>1. pc'[u] = l /\ cur'[u] = c
      BY <2>1, Zenon DEF TypeOK
    <3> QED  BY <3>1, <2>1, <1>3, Zenon
  <2>2. CASE u # w
    <3>1. pc'[u] = pc[u] /\ cur'[u] = cur[u]
      BY <2>2, Zenon DEF TypeOK
    <3>2. ~futex /\ pc[u] \in {"cas", "sleep"} => lock' = u
      BY <2>2, SeqlockAssumption, Zenon DEF Sleepers
    <3> QED  BY <3>1, <3>2, <1>3, Zenon DEF Sleepers
  <2> QED  BY <2>1, <2>2, Zenon
<1> QED  BY <1>1, <1>4, <1>5, <1>6, Zenon

LEMMA WaitStep ==
  ASSUME Inv, NEW w \in Waiters, NEW v \in 0..MaxN, seqlock_wait(w, v)
  PROVE  Inv'
<1>1. v \in Nat /\ v # NONE /\ Idle \in Word
  BY SeqlockAssumption, Words DEF NONE
<1>2. PICK b \in BOOLEAN : timed' = [timed EXCEPT ![w] = b]
  BY Zenon DEF seqlock_wait
<1>3. cur' = [cur EXCEPT ![w] = cur[w]] /\ cur[w] \in Word
  BY Zenon DEF seqlock_wait, Inv, TypeOK
<1>4. lock' = lock /\ lock \in Waiters \cup {NONE}
  BY Zenon DEF seqlock_wait, Inv, TypeOK
<1> QED  BY <1>1, <1>2, <1>3, <1>4, WaiterStep, ZenonT(30) DEF seqlock_wait

LEMMA DoneStep ==
  ASSUME Inv, NEW w \in Waiters, NEW r \in BOOLEAN, Done(w, r),
         futex \/ lock \in {NONE, w}, UNCHANGED <<pos, n, futex>>
  PROVE  Inv'
BY Words, WaiterStep, Zenon DEF Done, NONE

LEMMA AgainStep ==
  ASSUME Inv, NEW w \in Waiters, Again(w), pc[w] \in {"sleep", "asleep"},
         UNCHANGED <<pos, n, futex>>
  PROVE  Inv'
<1>1. val[w] # NONE /\ val[w] \in Nat \cup {NONE} /\ n - val[w] \in (1 - Span)..Span
  BY Zenon DEF Inv, TypeOK, Places, Counted
<1>2. /\ val' = [val EXCEPT ![w] = val[w]]
      /\ timed' = [timed EXCEPT ![w] = timed[w]] /\ timed[w] \in BOOLEAN
      /\ ok' = [ok EXCEPT ![w] = ok[w]] /\ ok[w] \in BOOLEAN
      /\ lock' = lock /\ lock \in Waiters \cup {NONE}
  BY Zenon DEF Again, Inv, TypeOK
<1>3. Goto(w, "load") /\ cur' = [cur EXCEPT ![w] = Idle] /\ Idle \in Word
  BY Words, Zenon DEF Again
<1> QED  BY <1>1, <1>2, <1>3, WaiterStep, Zenon

LEMMA LoopStep ==
  ASSUME Inv, NEW w \in Waiters, Loop(w), pc[w] \in {"load", "cas"},
         futex \/ lock \in {NONE, w}, UNCHANGED <<pos, n, futex>>
  PROVE  Inv'
<1>1. CASE Done(w, TRUE)
  BY <1>1, DoneStep, Zenon
<1>2. CASE /\ cur' = [cur EXCEPT ![w] = pos]
           /\ Goto(w, IF pos.waiters THEN "sleep" ELSE "cas")
           /\ lock' = IF futex THEN lock ELSE w
           /\ UNCHANGED <<val, timed, ok>>
  <2>1. val[w] # NONE /\ val[w] \in Nat \cup {NONE} /\ n - val[w] \in (1 - Span)..Span
    BY Zenon DEF Inv, TypeOK, Places, Counted
  <2>2. /\ val' = [val EXCEPT ![w] = val[w]]
        /\ timed' = [timed EXCEPT ![w] = timed[w]] /\ timed[w] \in BOOLEAN
        /\ ok' = [ok EXCEPT ![w] = ok[w]] /\ ok[w] \in BOOLEAN
        /\ lock \in Waiters \cup {NONE} /\ pos \in Word
    BY <1>2, Zenon DEF Inv, TypeOK
  <2>3. CASE pos.waiters
    BY <2>1, <2>2, <2>3, <1>2, WaiterStep, ZenonT(30)
  <2>4. CASE ~pos.waiters
    BY <2>1, <2>2, <2>4, <1>2, WaiterStep, ZenonT(30)
  <2> QED  BY <2>3, <2>4, Zenon
<1> QED  BY <1>1, <1>2, Zenon DEF Loop

LEMMA OnceStep ==
  ASSUME Inv, NEW w \in Waiters, wait_once(w)
  PROVE  Inv'
<1>1. val[w] # NONE /\ val[w] \in Nat \cup {NONE} /\ n - val[w] \in (1 - Span)..Span
  BY Zenon DEF Inv, TypeOK, Places, Counted, wait_once
<1>2. /\ val' = [val EXCEPT ![w] = val[w]]
      /\ timed' = [timed EXCEPT ![w] = timed[w]] /\ timed[w] \in BOOLEAN
      /\ ok' = [ok EXCEPT ![w] = ok[w]] /\ ok[w] \in BOOLEAN
      /\ cur' = [cur EXCEPT ![w] = cur[w]] /\ cur[w] \in Word
  BY Zenon DEF wait_once, Inv, TypeOK
<1>3. cur[w].waiters /\ (cur[w] = pos \/ Poked) /\ (~futex => lock = w)
  BY Zenon DEF wait_once, Inv, Sleepers
<1>4. Goto(w, "asleep") /\ lock' = NONE /\ UNCHANGED <<pos, n, futex>>
  BY Zenon DEF wait_once
<1> QED  BY <1>1, <1>2, <1>3, <1>4, WaiterStep, ZenonT(30)

\* The waiters bit goes into the word that w goes to sleep on.  Whoever sleeps
\* already did so on a word with the bit set, so a wake-up is under way.
LEMMA CasStep ==
  ASSUME Inv, NEW w \in Waiters, wait_cas(w)
  PROVE  Inv'
<1> USE DEF Inv, Goto, wait_cas
<1>0. pos \in Word /\ Waited(pos) \in Word /\ Waited(pos).waiters
      /\ Waited(pos).held = pos.held /\ Waited(pos).val = pos.val
  BY Words, Zenon DEF TypeOK
<1>1. TypeOK'
  BY <1>0, Apart, Zenon DEF TypeOK
<1>2. \A t \in Posters : pc'[t] = pc[t]
  BY Apart, Zenon DEF TypeOK
<1>3. Poked' <=> Poked
  BY <1>2, Zenon DEF Poked
<1>4. Counted'
  BY <1>0, <1>2, Apart, Zenon DEF TypeOK, Counted
<1>5. Places'
  BY <1>2, Apart, Zenon DEF TypeOK, Places
<1>6. Sleepers'
  <2> SUFFICES ASSUME NEW u \in Waiters
               PROVE  /\ pc'[u] \in {"sleep", "asleep"} => cur'[u].waiters
                      /\ ~futex' /\ pc'[u] \in {"cas", "sleep"} => lock' = u
                      /\ ~futex' /\ pc'[u] = "sleep" => pos' = cur'[u] \/ Poked'
                      /\ pc'[u] = "asleep" => pos' = cur'[u] \/ Poked'
    BY Zenon DEF Sleepers
  <2>1. CASE u = w
    <3>1. pc'[u] = "sleep" /\ cur'[u] = pos' /\ pos' = Waited(pos)
      BY <2>1, Zenon DEF TypeOK
    <3> QED  BY <3>1, <2>1, <1>0, Zenon DEF Sleepers
  <2>2. CASE u # w
    <3>1. pc'[u] = pc[u] /\ cur'[u] = cur[u]
      BY <2>2, Zenon DEF TypeOK
    <3>2. pos = cur[u] /\ cur[u].waiters => pos' = pos
      BY <1>0, Zenon DEF Waited, Word
    <3> QED  BY <3>1, <3>2, <1>3, Zenon DEF Sleepers
  <2> QED  BY <2>1, <2>2, Zenon
<1> QED  BY <1>1, <1>4, <1>5, <1>6, Zenon

LEMMA NextInv == Inv /\ [Next]_vars => Inv'
<1> SUFFICES ASSUME Inv, [Next]_vars PROVE Inv'
  OBVIOUS
<1>1. CASE UNCHANGED vars
  BY <1>1, Zenon DEF vars, Inv, TypeOK, Counted, Places, Sleepers, Poked
<1>2. ASSUME NEW p \in Posters, Poster(p) PROVE Inv'
  <2>1. CASE wait_poke(p)
    BY <2>1, PokeStep, Zenon
  <2>2. CASE p \in Bumpers /\ seqlock_bump(p)
    BY <2>2, BumpStep, Zenon
  <2>3. CASE p \in Bumpers /\ seqlock_bump_cas(p)
    BY <2>3, BumpCasStep, Zenon
  <2>4. CASE seqlock_release
    <3>1. n \in Nat /\ InSpan(n)
      BY DEF Inv, TypeOK, Counted, InSpan
    <3> QED  BY <2>4, <3>1, OwnerStep DEF seqlock_release
  <2>5. ASSUME NEW m \in 0..MaxN, seqlock_acquire_val(m) PROVE Inv'
    <3>1. m \in Nat
      BY SeqlockAssumption
    <3> QED  BY <2>5, <3>1, OwnerStep, Zenon DEF seqlock_acquire_val
  <2> QED  BY <1>2, <2>1, <2>2, <2>3, <2>4, <2>5, Zenon DEF Poster
<1>3. ASSUME NEW w \in Waiters, Waiter(w) PROVE Inv'
  <2>1. CASE wait_load(w)
    BY <2>1, LoopStep, Zenon DEF wait_load
  <2>2. CASE wait_cas(w)
    BY <2>2, CasStep, Zenon
  <2>3. CASE wait_cas_fail(w)
    <3>1. futex \/ lock = w
      BY <2>3, Zenon DEF wait_cas_fail, Inv, Sleepers
    <3> QED  BY <2>3, <3>1, LoopStep, Zenon DEF wait_cas_fail
  <2>4. CASE wait_once(w)
    BY <2>4, OnceStep, Zenon
  <2>5. CASE wait_eagain(w)
    BY <2>5, DoneStep, AgainStep, Zenon DEF wait_eagain
  <2>6. CASE wait_spurious(w)
    BY <2>6, AgainStep, Zenon DEF wait_spurious
  <2>7. CASE wait_time(w)
    BY <2>7, DoneStep, Zenon DEF wait_time
  <2>8. ASSUME NEW v \in 0..MaxN, seqlock_wait(w, v) PROVE Inv'
    BY <2>8, WaitStep, Zenon
  <2> QED
    BY <1>3, <2>1, <2>2, <2>3, <2>4, <2>5, <2>6, <2>7, <2>8, Zenon DEF Waiter, Step
<1> QED  BY <1>1, <1>2, <1>3, Zenon DEF Next

LEMMA InvAlways == Spec => []Inv
BY InitInv, NextInv, PTL DEF Spec

-----------------------------------------------------------------------------
(* What is proved of seqlock.c. *)

\* The counter of the word stays below M, in the lock and in every copy of it a thread
\* loaded, and every thread is at a step of the function it called.
THEOREM TypeCorrect == Spec => []TypeOK
<1>1. Inv => TypeOK
  BY Zenon DEF Inv
<1> QED  BY <1>1, InvAlways, PTL

\* A sleeping waiter sleeps on the current word or is about to be woken.
THEOREM NoWakeupIsLost == Spec => []NoLostWakeup
<1>1. Inv => NoLostWakeup
  BY Zenon DEF Inv, Sleepers, Poked, NoLostWakeup
<1> QED  BY <1>1, InvAlways, PTL

\* While callers stay within Span of each other, and 4 * Span <= M, the
\* assertions on cal hold, across the wrap of the counter.
THEOREM CalAlwaysInRange == Spec => []CalInRange
<1>1. Inv => CalInRange
  BY PastIsPast, Zenon DEF Inv, CalInRange
<1> QED  BY <1>1, InvAlways, PTL

-----------------------------------------------------------------------------
(* seqlock.c implements the safety part of seqlock.h. *)

LEMMA InitPromise == Init => Promise!Init
BY DEF Init, Promise!Init, At, NONE, Promise!NONE

LEMMA StepPromise ==
  ASSUME Inv, [Next]_vars
  PROVE  [Promise!Next]_(Promise!specvars)
<1> USE DEF Promise!specvars, NONE, Promise!NONE
<1>1. CASE UNCHANGED vars
  BY <1>1, Zenon DEF vars
<1>2. ASSUME NEW p \in Posters, Poster(p)
      PROVE  [Promise!Next]_(Promise!specvars)
  <2>1. CASE wait_poke(p)
    BY <2>1, Zenon DEF wait_poke
  <2>2. CASE p \in Bumpers /\ seqlock_bump(p)
    BY <2>2, Zenon DEF seqlock_bump
  <2>3. CASE p \in Bumpers /\ seqlock_bump_cas(p)
    BY <2>3 DEF seqlock_bump_cas, Inv, Counted, Promise!Next, Promise!Bump, InSpan,
                Promise!InSpan, At
  <2>4. CASE seqlock_release
    BY <2>4, Zenon DEF seqlock_release, Promise!Next, Promise!Release, Idle
  <2>5. ASSUME NEW m \in 0..MaxN, seqlock_acquire_val(m)
        PROVE  [Promise!Next]_(Promise!specvars)
    <3>1. n' \in Nat /\ n' >= n /\ Promise!InSpan(n')
      BY <2>5, SeqlockAssumption DEF seqlock_acquire_val, InSpan, Promise!InSpan
    <3>2. pos'.held = TRUE
      BY <2>5, Zenon DEF seqlock_acquire_val, At
    <3>3. Promise!Acquire
      BY <2>5, <3>1, <3>2, Zenon DEF seqlock_acquire_val, Promise!Acquire
    <3> QED  BY <3>3, Zenon DEF Promise!Next
  <2> QED  BY <1>2, <2>1, <2>2, <2>3, <2>4, <2>5, Zenon DEF Poster
<1>3. ASSUME NEW w \in Waiters, Waiter(w)
      PROVE  [Promise!Next]_(Promise!specvars)
  <2>0. ASSUME Loop(w), pc[w] # "idle", UNCHANGED <<pos, n>>
        PROVE  [Promise!Next]_(Promise!specvars)
    <3>1. CASE Past(pos, val[w]) /\ Done(w, TRUE)
      <4>1. val[w] # NONE
        BY <2>0, Zenon DEF Inv, Places
      <4>2. ~pos.held \/ n > val[w]
        BY <3>1, <4>1, PastIsPast, Zenon DEF Inv
      <4>3. Promise!Return(w)
        BY <2>0, <3>1, <4>1, <4>2, Zenon DEF Promise!Return, Promise!Past, Promise!Done, Done
      <4> QED  BY <4>3, Zenon DEF Promise!Next
    <3>2. CASE UNCHANGED <<val, timed, ok>>
      BY <2>0, <3>2, Zenon
    <3> QED  BY <2>0, <3>1, <3>2, Zenon DEF Loop
  <2>1. CASE wait_load(w) \/ wait_cas_fail(w)
    BY <2>0, <2>1, Zenon DEF wait_load, wait_cas_fail
  <2>2. CASE wait_cas(w)
    <3>1. pos'.held = pos.held
      BY <2>2, Words, Zenon DEF wait_cas, Inv, TypeOK
    <3> QED  BY <2>2, <3>1, Zenon DEF wait_cas
  <2>3. CASE wait_once(w)
    BY <2>3, Zenon DEF wait_once
  <2>4. ASSUME pc[w] # "idle", timed[w], Done(w, FALSE), UNCHANGED <<pos, n>>
        PROVE  [Promise!Next]_(Promise!specvars)
    <3>1. val[w] # NONE
      BY <2>4, Zenon DEF Inv, Places
    <3>2. Promise!GiveUp(w)
      BY <2>4, <3>1, Zenon DEF Promise!GiveUp, Promise!Done, Done
    <3> QED  BY <3>2, Zenon DEF Promise!Next
  <2>5. CASE wait_eagain(w)
    BY <2>4, <2>5, Zenon DEF wait_eagain, Again
  <2>6. CASE wait_spurious(w)
    BY <2>6, Zenon DEF wait_spurious, Again
  <2>7. CASE wait_time(w)
    BY <2>4, <2>7, Zenon DEF wait_time
  <2>8. ASSUME NEW v \in 0..MaxN, seqlock_wait(w, v)
        PROVE  [Promise!Next]_(Promise!specvars)
    <3>1. val[w] = NONE
      BY <2>8, Zenon DEF seqlock_wait, Inv, Places
    <3>2. v \in (n - Span)..(n + Span - 1) /\ v >= 0
      BY <2>8, SeqlockAssumption DEF seqlock_wait, Inv, TypeOK
    <3>3. Promise!Wait(w, v)
      BY <2>8, <3>1, <3>2, Zenon DEF seqlock_wait, Promise!Wait
    <3> QED  BY <3>2, <3>3, Zenon DEF Promise!Next
  <2> QED
    BY <1>3, <2>1, <2>2, <2>3, <2>5, <2>6, <2>7, <2>8, Zenon DEF Waiter, Step
<1> QED  BY <1>1, <1>2, <1>3, Zenon DEF Next

\* seqlock_wait returns only when the lock is idle or past the number, and a
\* false only from seqlock_timedwait: the safety part of Implements.
THEOREM KeepsPromise == Spec => Promise!Safe
<1>1. Inv /\ [Next]_vars => [Promise!Next]_(Promise!specvars)
  BY StepPromise, Zenon
<1> QED  BY <1>1, InitPromise, InvAlways, PTL DEF Spec, Promise!Safe
=============================================================================
