---------------------------- MODULE FrrcuProofs -----------------------------
(***************************************************************************)
(* The steps in which threads come and go, RCU is shut down, and the       *)
(* client follows or swaps its pointer, and the steps of the sweeper       *)
(* preserve the invariant; the theorems.                                   *)
(***************************************************************************)
EXTENDS FrrcuInv, FiniteSetTheorems

-----------------------------------------------------------------------------
(* Threads come and go. *)

\* The bound on half-added threads lets a thread in only when there is none.
LEMMA NoneHalfLinked ==
  ASSUME MaxRegistering = 1, NEW t, NEW v, ThreadsAdd(t, v)
  PROVE  \A w \in Threads : ~HalfLinked(w)
<1> DEFINE S == {w \in Threads : HalfLinked(w)}
<1>1. IsFiniteSet(S) /\ Cardinality(S) \in Nat
  BY Consts, FS_Subset, FS_CardinalityType, Zenon
<1>2. Cardinality(S) < 1
  BY Zenon DEF ThreadsAdd
<1>3. Cardinality(S) = 0
  BY <1>1, <1>2
<1>4. S = {}
  BY <1>1, <1>3, FS_EmptySet, Zenon
<1> QED  BY <1>4, Zenon

\* The first half of rcu_threads_add_tail.
LEMMA AddFacts ==
  ASSUME TypeOK, Joining, MaxRegistering = 1, NEW t \in Threads, NEW u \in Threads,
         ThreadsAdd(t, u), pc[u] \in {"new", "register"},
         pc' \in [Threads -> Labels],
         \A w \in Threads \ {t, u} : pc'[w] = pc[w],
         \/ t = u /\ pc'[u] = "enlist"
         \/ t # u /\ pc[t] = "run" /\ pc'[t] = "spawn" /\ pc'[u] = "born"
  PROVE  Joining'
<1>1. \A w \in Threads : ~HalfLinked(w) /\ up[w] = NULL
  BY NoneHalfLinked, Zenon DEF Joining
<1>2. /\ last' = u
      /\ \A w \in Threads : adder'[w] = IF w = u THEN t ELSE adder[w]
      /\ \A w \in Threads : up'[w] = IF w = u THEN last ELSE up[w]
  BY Zenon DEF ThreadsAdd, TypeOK
<1>3. \A w \in Threads : HalfLinked(w)' <=> w = u
  BY <1>1, <1>2, Consts, Zenon DEF HalfLinked
<1>4. last # u
  BY Consts DEF Joining
<1>5. \A w \in Threads : up'[w] # NULL => HalfLinked(w)' /\ up'[w] # w
  BY <1>1, <1>2, <1>3, <1>4, Zenon
<1>6. \A w \in Threads : w # u => pc[w] \notin {"born", "enlist"}
  BY <1>1, Zenon DEF Joining
<1>7. /\ \A w \in Threads : HalfLinked(w)' <=> pc'[w] \in {"born", "enlist"}
      /\ \A w \in Threads : pc'[w] = "enlist" <=> adder'[w] = w
      /\ \A w \in Threads : pc'[w] = "born" => pc'[adder'[w]] = "spawn"
  <2> SUFFICES ASSUME NEW w \in Threads
               PROVE  /\ HalfLinked(w)' <=> pc'[w] \in {"born", "enlist"}
                      /\ pc'[w] = "enlist" <=> adder'[w] = w
                      /\ pc'[w] = "born" => pc'[adder'[w]] = "spawn"
    BY Zenon
  <2>1. CASE w = u
    BY <1>2, <1>3, <2>1, Zenon
  <2>2. CASE w # u
    <3>1. pc'[w] \notin {"born", "enlist"}
      BY <1>6, <2>2, Zenon
    <3>2. adder'[w] = NULL
      BY <1>1, <1>2, <2>2, Zenon DEF HalfLinked
    <3> QED  BY <1>3, <2>2, <3>1, <3>2, Consts, Zenon
  <2> QED  BY <2>1, <2>2, Zenon
<1>8. pc'[u] \notin {"new", "register"}
  BY Zenon
<1> QED  BY <1>2, <1>3, <1>5, <1>7, <1>8 DEF Joining

\* With one half-added thread at a time the second half puts just that thread on the
\* list, and at its end.
LEMMA LinkAdds ==
  ASSUME TypeOK, Joining, NEW u \in Threads, HalfLinked(u), ThreadsLink(u)
  PROVE  /\ rcu_threads' = rcu_threads \cup {u} /\ cur' = cur
         /\ todo' = IF cur \in rcu_threads \/ todo # {} THEN todo \cup {u} ELSE todo
         /\ last' = last
         /\ \A w \in Threads : up'[w] = NULL /\ adder'[w] = NULL
<1>1. \A w \in Threads : w # u => ~HalfLinked(w) /\ up[w] = NULL
  BY Zenon DEF Joining
<1>2. Through(up[u]) = NULL
  <2>1. up[u] # u /\ up[u] \in Threads \cup {NULL}
    BY Consts DEF Joining, TypeOK
  <2> QED  BY <1>1, <2>1, Zenon DEF Through
<1>3. {u} \cup {w \in Threads : ~HalfLinked(w) /\ up[w] = u} = {u}
  BY <1>1, Consts, Zenon
<1>4. /\ up' = [w \in Threads |-> IF w \in {u} THEN NULL ELSE up[w]]
      /\ rcu_threads' = rcu_threads \cup {u} /\ cur' = cur
      /\ todo' = IF cur \in rcu_threads \/ todo # {} THEN todo \cup {u} ELSE todo
      /\ last' = last /\ adder' = [adder EXCEPT ![u] = NULL]
  BY <1>2, <1>3, Zenon DEF ThreadsLink
<1>5. \A w \in Threads : up'[w] = NULL
  BY <1>1, <1>4, Zenon
<1>6. \A w \in Threads : adder'[w] = NULL
  BY <1>1, <1>4, Zenon DEF TypeOK, HalfLinked
<1> QED  BY <1>4, <1>5, <1>6, Zenon

\* The second half, by the thread itself or by its parent.
LEMMA StartPlaces ==
  ASSUME TypeOK, Joining, NEW u \in Threads, rcu_thread_start(u)
  PROVE  /\ adder[u] \in Threads
         /\ \/ adder[u] = u /\ pc[u] = "enlist"
            \/ adder[u] # u /\ pc[u] = "born" /\ pc[adder[u]] = "spawn"
         /\ \A w \in Threads : pc'[w] = IF w \in {u, adder[u]} THEN "run" ELSE pc[w]
         /\ Joining'
<1>1. HalfLinked(u) /\ ThreadsLink(u) /\ adder[u] \in Threads
  BY Zenon DEF rcu_thread_start, HalfLinked, TypeOK
<1>2. \/ adder[u] = u /\ pc[u] = "enlist"
      \/ adder[u] # u /\ pc[u] = "born" /\ pc[adder[u]] = "spawn"
  BY <1>1, Zenon DEF Joining
<1>3. \A w \in Threads : pc'[w] = IF w \in {u, adder[u]} THEN "run" ELSE pc[w]
  BY <1>1, Zenon DEF rcu_thread_start, TypeOK
<1>4. /\ last' = last
      /\ \A w \in Threads : up'[w] = NULL /\ adder'[w] = NULL
  BY <1>1, LinkAdds, Zenon
<1>5. \A w \in Threads : ~HalfLinked(w)'
  BY <1>4, Zenon DEF HalfLinked
<1>6. \A w \in Threads : pc'[w] \notin {"born", "enlist"}
  <2>1. \A w \in Threads : w # u => pc[w] \notin {"born", "enlist"}
    BY <1>1, Zenon DEF Joining
  <2> QED  BY <1>3, <2>1, Zenon
<1>7. last' # NULL => pc'[last'] \notin {"new", "register"}
  BY <1>3, <1>4, Zenon DEF Joining, TypeOK
<1>8. Joining'
  BY <1>4, <1>5, <1>6, <1>7, Consts DEF Joining
<1> QED  BY <1>1, <1>2, <1>3, <1>8, Zenon

\* A thread that comes to the list is behind every thread the sweeper has still
\* to wait for.
LEMMA JoinProtects ==
  ASSUME TypeOK, NEW u \in Threads, u \notin rcu_threads,
         rcu_threads' = rcu_threads \cup {u}, cur' = cur,
         todo' = IF cur \in rcu_threads \/ todo # {} THEN todo \cup {u} ELSE todo,
         spc' = spc, rcuval' = rcuval,
         \A w \in Threads \ {u} : rcu'[w] = rcu[w],
         NEW v \in Threads, NEW e \in Nat, Protects(v, e)
  PROVE  Protects(v, e)' /\ (rcu'[u] = rcu[v] => Protects(u, e)')
<1>1. v # u /\ rcu'[v] = rcu[v] /\ v \in rcu_threads' /\ u \in rcu_threads'
  BY Zenon DEF Protects
<1>2. spc = "threads" /\ (v = cur \/ v \in todo) => v = cur' \/ v \in todo'
  BY Zenon
<1>3. spc = "threads" /\ (v = cur \/ v \in todo) => u \in todo'
  BY Zenon DEF Protects
<1> QED  BY <1>1, <1>2, <1>3, Zenon DEF Protects

\* rcu_start leaves the epochs alone: a new sweeper begins at STARTVAL.
LEMMA StartFacts ==
  ASSUME IInv, rcu_start, pc[Main] # "join"
  PROVE  /\ Base' = Base /\ rcu_active' /\ ~end' /\ nshut' = nshut
         /\ rcu_active' \in BOOLEAN /\ end' \in BOOLEAN
         /\ spc' \in {"wait", "threads", "pop"} /\ rcuval' \in Nat
         /\ spc' \in {"threads", "pop"} => spc = spc' /\ rcuval = rcuval'
         /\ (spc' = spc /\ rcuval' = rcuval) \/ spc' = "wait"
<1>0. rcu_active' = TRUE /\ rcu_active' \in BOOLEAN /\ nshut' = nshut
  BY Zenon DEF rcu_start
<1>1. CASE rcu_active
  <2>1. spc \in {"wait", "threads", "pop"} /\ ~end
    BY <1>1, Zenon DEF IInv, Counting, Ending
  <2> QED  BY <1>0, <1>1, <2>1, Zenon DEF rcu_start, sweeper, Base, IInv, TypeOK
<1>2. CASE ~rcu_active
  <2>1. spc = "off"
    BY <1>2, Zenon DEF IInv, Counting
  <2>2. spc' = "wait" /\ rcuval' = STARTVAL /\ end' = FALSE /\ end' \in BOOLEAN
    BY <1>2, Zenon DEF rcu_start
  <2> QED  BY <1>0, <2>1, <2>2, Zenon DEF Base, STARTVAL
<1> QED  BY <1>1, <1>2, Zenon

\* What a step in which thread u comes to be leaves alone: the others, but its parent
\* goes to and comes from "spawn".
Bystanders(u) ==
  \A w \in Threads \ {u} :
    /\ pc'[w] = pc[w] \/ (pc[w] \in {"run", "spawn"} /\ pc'[w] \in {"run", "spawn"})
    /\ ret'[w] = ret[w] /\ rcu'[w] = rcu[w] /\ reg'[w] = reg[w]
    /\ depth'[w] = depth[w] /\ pend'[w] = pend[w] /\ refs'[w] = refs[w]

LEMMA BeginStep ==
  ASSUME IInv, TypeOK', NEW u \in Threads \ {Main}, Bystanders(u), ~ShuttingDown,
         pc[u] \in {"new", "register", "enlist", "born"},
         pc'[u] \in {"register", "enlist", "born", "run"},
         \A w \in Threads : w = u \/ pc'[w] # pc[w] => Places(w)' /\ Holding(w)',
         pend'[u] = pend[u],
         UNCHANGED <<rcu_seq, queue, ptr, freed>>,
         rcu_active', ~end', Base' = Base,
         spc' \in {"wait", "threads", "pop"},
         spc' \in {"threads", "pop"} => spc = spc' /\ rcuval = rcuval',
         rcu_threads' \ {u} = rcu_threads \ {u},
         \A w \in Threads \ {u}, e \in Nat : Protects(w, e) => Protects(w, e)',
         \/ refs'[u] = {}
         \/ \E t \in Threads : /\ refs'[u] \subseteq refs[t]
                               /\ \A e \in Nat : Protects(t, e) => Protects(u, e)'
  PROVE  IInv'
<1> USE DEF queue
<1>0. rcu_heads' = rcu_heads
  OBVIOUS
<1>1. TypeOK /\ Counting /\ Ordered
  BY Zenon DEF IInv
<1>2. /\ rcu_seq \in Nat \ {0} /\ pend'[Main] = pend[Main]
      /\ pc[Main] # "join" /\ pc'[Main] # "join" /\ ~ShuttingDown'
  BY <1>1, Consts, Zenon DEF Bystanders, Counting, ShuttingDown, TypeOK
<1>3. \A w \in Threads : Places(w)' /\ Holding(w)'
  <2> TAKE w \in Threads
  <2>1. CASE w = u \/ pc'[w] # pc[w]
    BY <2>1, Zenon
  <2>2. CASE w # u /\ pc'[w] = pc[w]
    <3>1. w \in rcu_threads' <=> w \in rcu_threads
      BY <2>2, Zenon
    <3> QED  BY <2>2, <3>1 DEF IInv, Places, Holding, Bystanders
  <2> QED  BY <2>1, <2>2, Zenon
<1>4. Counting'
  <2>1. Bumping' = Bumping
    BY Zenon DEF Bumping, Bystanders, BumpLabels
  <2>2. Counts /\ Base <= rcu_seq /\ (spc \in {"threads", "pop"} => rcu_seq > rcuval)
    BY <1>1, <1>2, Zenon DEF Counting
  <2>3. Counts' /\ Base' <= rcu_seq' /\ (spc' \in {"threads", "pop"} => rcu_seq' > rcuval')
    BY <2>1, <2>2, Zenon DEF Counts
  <2> QED  BY <1>2, <2>3, Zenon DEF Counting
<1>5. Ordered'
  <2>1. \A w \in Threads : pc[w] \in {"next_link", "rn"} => pc'[w] = pc[w]
    BY Zenon DEF Bystanders
  <2> QED  BY <1>1, <2>1, Zenon DEF Ordered
<1>6. \A k \in 1..Len(rcu_heads) : rcu_heads[k] \in Entry
  BY <1>1, SeqFacts, Zenon DEF TypeOK
<1>7. LinkProtected'
  <2> SUFFICES ASSUME NEW k \in 1..Len(rcu_heads), rcu_heads[k].by # NULL
               PROVE  /\ pc'[rcu_heads[k].by] \in Linking
                      /\ Protects(rcu_heads[k].by, rcu_heads[k].epoch)'
                      /\ k > 1 /\ rcu_heads[k - 1].type = "NEXT"
                           => Protects(rcu_heads[k].by, rcu_heads[k - 1].epoch)'
    BY Zenon DEF LinkProtected
  <2>1. k > 1 => k - 1 \in 1..Len(rcu_heads)
    BY <1>1, SeqFacts DEF TypeOK
  <2>2. /\ pc[rcu_heads[k].by] \in Linking
        /\ Protects(rcu_heads[k].by, rcu_heads[k].epoch)
        /\ k > 1 /\ rcu_heads[k - 1].type = "NEXT"
             => Protects(rcu_heads[k].by, rcu_heads[k - 1].epoch)
    BY Zenon DEF IInv, LinkProtected
  <2>3. /\ rcu_heads[k].by \in Threads \ {u} /\ rcu_heads[k].epoch \in Nat
        /\ (k > 1 => rcu_heads[k - 1].epoch \in Nat)
    BY <1>6, <2>1, <2>2, Zenon DEF Entry, Linking
  <2>4. pc'[rcu_heads[k].by] = pc[rcu_heads[k].by]
    BY <2>2, <2>3, Zenon DEF Bystanders, Linking
  <2> QED  BY <1>0, <2>2, <2>3, <2>4, Zenon
<1>8. RefProtected'
  <2> SUFFICES ASSUME NEW w \in Threads, NEW k \in 1..Len(rcu_heads),
                      rcu_heads[k].type = "ITEM", rcu_heads[k].obj \in refs'[w]
               PROVE  Protects(w, rcu_heads[k].epoch)'
    BY Zenon DEF RefProtected
  <2>1. rcu_heads[k].epoch \in Nat
    BY <1>6, Zenon DEF Entry
  <2>2. CASE w # u
    BY <1>0, <2>1, <2>2, Zenon DEF IInv, RefProtected, Bystanders
  <2>3. CASE w = u
    <3>1. PICK t \in Threads : /\ refs'[u] \subseteq refs[t]
                               /\ \A e \in Nat : Protects(t, e) => Protects(u, e)'
      BY <2>3, Zenon
    <3> QED  BY <1>0, <2>1, <2>3, <3>1, Zenon DEF IInv, RefProtected
  <2> QED  BY <2>2, <2>3, Zenon
<1>9. \A w \in Threads : \E t \in Threads : refs'[w] \subseteq refs[t]
  BY Zenon DEF Bystanders
<1>10. Objects'
  <2>1. \A w \in Threads : Retired(w)' => Retired(w) /\ w # u
    BY Zenon DEF Retired, Bystanders
  <2>2. \A w \in Threads : \A i \in refs'[w] : i <= ptr
    BY <1>9, Zenon DEF IInv, Objects
  <2> QED  BY <2>1, <2>2 DEF IInv, Objects, Fresh, Bystanders
<1>11. NoUseAfterFree'
  BY <1>9, Zenon DEF IInv, NoUseAfterFree
<1>12. Ending'
  BY <1>2, Zenon DEF IInv, Ending
<1> QED  BY <1>3, <1>4, <1>5, <1>7, <1>8, <1>10, <1>11, <1>12, Zenon DEF IInv

LEMMA PrepareStep ==
  ASSUME IInv, Joining, MaxRegistering = 1, NEW t \in Threads, NEW u \in Threads,
         rcu_thread_prepare(t, u)
  PROVE  IInv' /\ Joining'
<1> USE DEF counters, queue, walk, life, client, frees
<1>1. TypeOK /\ Places(t) /\ Holding(t) /\ Places(u) /\ Holding(u) /\ Counting
  BY Zenon DEF IInv
<1>2. /\ pc[t] = "run" /\ pc[u] = "new" /\ depth[t] > 0 /\ u # Main /\ u # t
      /\ refs[u] = {} /\ pend[u] = NULL /\ ThreadsAdd(t, u)
  BY <1>1, Zenon DEF rcu_thread_prepare, Places, Retiring
<1>3. rcu_seq \in Nat \ {0} /\ pc[Main] # "join" /\ ~ShuttingDown
  BY <1>1, <1>2, Running, Consts, Zenon DEF Gone, TypeOK, Places, Retiring, ShuttingDown
<1>4. /\ Base' = Base /\ rcu_active' /\ ~end' /\ nshut' = nshut
      /\ rcu_active' \in BOOLEAN /\ end' \in BOOLEAN
      /\ spc' \in {"wait", "threads", "pop"} /\ rcuval' \in Nat
      /\ spc' \in {"threads", "pop"} => spc = spc' /\ rcuval = rcuval'
      /\ (spc' = spc /\ rcuval' = rcuval) \/ spc' = "wait"
  BY <1>3, StartFacts, Zenon DEF rcu_thread_prepare
<1>5. /\ pc' \in [Threads -> Labels] /\ pc'[t] = "spawn" /\ pc'[u] = "born"
      /\ \A w \in Threads \ {t, u} : pc'[w] = pc[w]
  BY <1>1, <1>2, Zenon DEF rcu_thread_prepare, TypeOK, Labels
<1>6. /\ last' \in Threads \cup {NULL} /\ adder' \in [Threads -> Threads \cup {NULL}]
      /\ up' \in [Threads -> Threads \cup {NULL}]
  BY <1>1, <1>2, Zenon DEF ThreadsAdd, TypeOK
<1>7. TypeOK'
  BY <1>1, <1>4, <1>5, <1>6, Zenon DEF rcu_thread_prepare, TypeOK
<1>8. Places(t)' /\ Holding(t)' /\ Places(u)' /\ Holding(u)'
  <2>1. rcu[t] > 0 /\ rcu[t] <= rcu_seq
    BY <1>1, <1>2, <1>3, Zenon DEF Holding
  <2>2. Places(t)' /\ Holding(t)'
    BY <1>1, <1>2, <1>5, <2>1, Zenon DEF Places, Holding, Retiring, rcu_thread_prepare
  <2>3. Places(u)'
    BY <1>1, <1>2, <1>5, Consts, Zenon DEF Places, Retiring, rcu_thread_prepare
  <2>4. Holding(u)'
    BY <1>1, <1>2, <1>5, Zenon DEF Holding, Retiring, rcu_thread_prepare
  <2> QED  BY <2>2, <2>3, <2>4, Zenon
<1>9. \A w \in Threads, e \in Nat : Protects(w, e) => Protects(w, e)'
  BY <1>4, Zenon DEF Protects, rcu_thread_prepare
<1>10. Bystanders(u)
  BY <1>2, <1>5, Zenon DEF Bystanders, rcu_thread_prepare
<1>11. IInv'
  BY <1>2, <1>3, <1>4, <1>5, <1>7, <1>8, <1>9, <1>10, BeginStep, Zenon
  DEF rcu_thread_prepare
<1>12. Joining'
  BY <1>1, <1>2, <1>5, AddFacts, Zenon
<1> QED  BY <1>11, <1>12, Zenon

LEMMA NewStep ==
  ASSUME IInv, NEW u \in Threads, rcu_thread_new(u)
  PROVE  IInv'
<1> USE DEF counters, queue, list, walk, life, client, frees
<1>1. TypeOK /\ Places(u) /\ Holding(u) /\ Counting
  BY Zenon DEF IInv
<1>2. pc[u] = "new" /\ u # Main /\ ~ShuttingDown /\ refs[u] = {} /\ pend[u] = NULL
  BY <1>1, Zenon DEF rcu_thread_new, Places, Retiring
<1>3. rcu_seq \in Nat \ {0} /\ pc[Main] # "join"
  BY <1>1, <1>2, Zenon DEF Counting, TypeOK, ShuttingDown
<1>4. /\ Base' = Base /\ rcu_active' /\ ~end' /\ nshut' = nshut
      /\ rcu_active' \in BOOLEAN /\ end' \in BOOLEAN
      /\ spc' \in {"wait", "threads", "pop"} /\ rcuval' \in Nat
      /\ spc' \in {"threads", "pop"} => spc = spc' /\ rcuval = rcuval'
      /\ (spc' = spc /\ rcuval' = rcuval) \/ spc' = "wait"
  BY <1>3, StartFacts, Zenon DEF rcu_thread_new
<1>5. /\ Others(u) /\ pc'[u] = "register" /\ reg'[u] = rcu_seq
      /\ pc' \in [Threads -> Labels] /\ reg' \in [Threads -> Nat]
  BY <1>1, Zenon DEF rcu_thread_new, Others, Goto, TypeOK, Labels
<1>6. TypeOK'
  BY <1>1, <1>4, <1>5, Zenon DEF rcu_thread_new, TypeOK
<1>7. Places(u)' /\ Holding(u)'
  BY <1>1, <1>2, <1>3, <1>5 DEF Places, Holding, Retiring, rcu_thread_new
<1>a. Bystanders(u)
  BY <1>5, Zenon DEF Bystanders, Others
<1>8. \A w \in Threads, e \in Nat : Protects(w, e) => Protects(w, e)'
  BY <1>4, Zenon DEF Protects, rcu_thread_new
<1> QED
  BY <1>2, <1>4, <1>5, <1>6, <1>7, <1>8, <1>a, BeginStep, Zenon DEF rcu_thread_new, Others

LEMMA RegisterStep ==
  ASSUME IInv, Joining, MaxRegistering = 1, NEW u \in Threads, rcu_thread_register(u)
  PROVE  IInv' /\ Joining'
<1> USE DEF counters, queue, walk, life, client, frees, sweeper
<1>1. TypeOK /\ Places(u) /\ Holding(u) /\ Counting
  BY Zenon DEF IInv
<1>2. /\ pc[u] = "register" /\ u # Main /\ refs[u] = {} /\ pend[u] = NULL
      /\ ThreadsAdd(u, u)
  BY <1>1, Zenon DEF rcu_thread_register, Places, Retiring
<1>3. rcu_seq \in Nat \ {0} /\ pc[Main] # "join" /\ ~ShuttingDown /\ rcu_active
  BY <1>1, <1>2, Running, Zenon DEF Gone, TypeOK
<1>4. spc \in {"wait", "threads", "pop"} /\ ~end
  BY <1>3, Zenon DEF IInv, Counting, Ending
<1>5. /\ pc' \in [Threads -> Labels] /\ pc'[u] = "enlist"
      /\ \A w \in Threads \ {u} : pc'[w] = pc[w]
  BY <1>1, <1>2, Zenon DEF rcu_thread_register, Goto, TypeOK, Labels
<1>6. /\ last' \in Threads \cup {NULL} /\ adder' \in [Threads -> Threads \cup {NULL}]
      /\ up' \in [Threads -> Threads \cup {NULL}]
  BY <1>1, <1>2, Zenon DEF ThreadsAdd, TypeOK
<1>7. TypeOK'
  BY <1>1, <1>5, <1>6, Zenon DEF rcu_thread_register, TypeOK
<1>8. Places(u)' /\ Holding(u)'
  BY <1>1, <1>2, <1>5, Consts, Zenon DEF Places, Holding, Retiring, rcu_thread_register
<1>9. /\ \A w \in Threads, e \in Nat : Protects(w, e) => Protects(w, e)'
      /\ Base' = Base
  BY Zenon DEF Protects, Base, rcu_thread_register
<1>10. Bystanders(u)
  BY <1>5, Zenon DEF Bystanders, rcu_thread_register
<1>11. IInv'
  BY <1>2, <1>3, <1>4, <1>5, <1>7, <1>8, <1>9, <1>10, BeginStep, Zenon
  DEF rcu_thread_register
<1>12. Joining'
  BY <1>1, <1>2, <1>5, AddFacts, Zenon
<1> QED  BY <1>11, <1>12, Zenon

LEMMA StartStep ==
  ASSUME IInv, Joining, NEW u \in Threads, rcu_thread_start(u)
  PROVE  IInv'
<1> USE DEF counters, queue, walk, life, client, frees, sweeper
<1>0. PICK t \in Threads :
        /\ t = adder[u]
        /\ \/ t = u /\ pc[u] = "enlist"
           \/ t # u /\ pc[u] = "born" /\ pc[t] = "spawn"
        /\ \A w \in Threads : pc'[w] = IF w \in {u, t} THEN "run" ELSE pc[w]
  BY StartPlaces, Zenon DEF IInv
<1>1. /\ TypeOK /\ Places(t) /\ Holding(t) /\ Places(u) /\ Holding(u) /\ Counting
  BY <1>0, Zenon DEF IInv
<1>2. /\ u # Main /\ u \notin rcu_threads /\ refs[u] = {} /\ pend[u] = NULL
      /\ t # u => t \in rcu_threads /\ pend[t] = NULL
  BY <1>0, <1>1, Zenon DEF Places, Retiring
<1>3. rcu_seq \in Nat \ {0} /\ pc[Main] # "join" /\ ~ShuttingDown /\ rcu_active
  BY <1>0, <1>1, <1>2, Running, Zenon DEF Gone, TypeOK
<1>4. spc \in {"wait", "threads", "pop"} /\ ~end
  BY <1>3, Zenon DEF IInv, Counting, Ending
<1>5. /\ pc' \in [Threads -> Labels] /\ rcu' \in [Threads -> Nat]
      /\ depth' \in [Threads -> Nat] /\ reg' \in [Threads -> Nat]
      /\ refs' \in [Threads -> SUBSET Items]
      /\ depth'[u] = 1 /\ rcu'[u] = (IF t = u THEN reg[u] ELSE rcu[t])
      /\ refs'[u] = refs[t]
      /\ \A w \in Threads \ {u} : /\ depth'[w] = depth[w] /\ rcu'[w] = rcu[w]
                                  /\ refs'[w] = refs[w] /\ reg'[w] = reg[w]
  BY <1>0, <1>1, Zenon DEF rcu_thread_start, TypeOK, Labels
<1>6. /\ rcu_threads' = rcu_threads \cup {u} /\ cur' = cur
      /\ todo' = IF cur \in rcu_threads \/ todo # {} THEN todo \cup {u} ELSE todo
  BY <1>1, LinkAdds, Zenon DEF rcu_thread_start
<1>7. TypeOK'
  <2>1. rcu_threads' \subseteq Threads /\ todo' \subseteq Threads
    BY <1>1, <1>6, Zenon DEF TypeOK
  <2>2. /\ last' \in Threads \cup {NULL} /\ adder' \in [Threads -> Threads \cup {NULL}]
        /\ up' \in [Threads -> Threads \cup {NULL}]
    <3>1. /\ last' = last /\ adder' = [adder EXCEPT ![u] = NULL]
          /\ \E S : up' = [w \in Threads |-> IF w \in S THEN Through(up[u]) ELSE up[w]]
      BY Zenon DEF rcu_thread_start, ThreadsLink
    <3>2. Through(up[u]) \in Threads \cup {NULL}
      BY <1>1, Zenon DEF Through, TypeOK
    <3> QED  BY <1>1, <3>1, <3>2, Zenon DEF TypeOK
  <2> QED  BY <1>1, <1>5, <1>6, <2>1, <2>2, Zenon DEF rcu_thread_start, TypeOK
<1>8. Places(u)' /\ Holding(u)'
  <2>1. rcu'[u] > 0 /\ rcu'[u] <= rcu_seq
    BY <1>0, <1>1, <1>3, <1>5, Zenon DEF Holding
  <2>2. depth'[u] > 0
    BY <1>5
  <2>3. /\ pc'[u] = "run" /\ pend'[u] = NULL /\ NULL # END /\ u \in rcu_threads'
        /\ rcu_seq' = rcu_seq
    BY <1>0, <1>2, <1>6, Consts, Zenon DEF rcu_thread_start
  <2>4. Places(u)'
    BY <1>2, <2>2, <2>3, Zenon DEF Places, Retiring
  <2>5. Holding(u)'
    BY <2>1, <2>3, Zenon DEF Holding, Retiring
  <2> QED  BY <2>4, <2>5, Zenon
<1>9. t # u => Places(t)' /\ Holding(t)'
  <2> SUFFICES ASSUME t # u
               PROVE  Places(t)' /\ Holding(t)'
    OBVIOUS
  <2>1. /\ pc'[t] = "run" /\ pc[t] = "spawn" /\ t \in rcu_threads' /\ pend'[t] = NULL
        /\ NULL # END /\ refs'[t] = refs[t] /\ depth'[t] = depth[t] /\ rcu'[t] = rcu[t]
        /\ ret'[t] = ret[t] /\ rcu_seq' = rcu_seq
    BY <1>0, <1>1, <1>2, <1>5, <1>6, Consts, Zenon DEF rcu_thread_start, TypeOK
  <2>2. Places(t)'
    BY <1>1, <2>1, Zenon DEF Places, Retiring
  <2>3. Holding(t)'
    BY <1>1, <2>1, Zenon DEF Holding, Retiring
  <2> QED  BY <2>2, <2>3, Zenon
<1>10. \A w \in Threads, e \in Nat : Protects(w, e) =>
         Protects(w, e)' /\ (rcu'[u] = rcu[w] => Protects(u, e)')
  BY <1>1, <1>2, <1>5, <1>6, JoinProtects, Zenon DEF rcu_thread_start
<1>11. \/ refs'[u] = {}
       \/ \E w \in Threads : /\ refs'[u] \subseteq refs[w]
                             /\ \A e \in Nat : Protects(w, e) => Protects(u, e)'
  BY <1>0, <1>2, <1>5, <1>10, Zenon
<1>12. Bystanders(u)
  <2>1. \A w \in Threads \ {u} :
          pc'[w] = pc[w] \/ (pc[w] \in {"run", "spawn"} /\ pc'[w] \in {"run", "spawn"})
    BY <1>0, Zenon
  <2> QED  BY <1>5, <2>1, Zenon DEF Bystanders, rcu_thread_start
<1>13. \A w \in Threads : w = u \/ pc'[w] # pc[w] => Places(w)' /\ Holding(w)'
  BY <1>0, <1>8, <1>9, Zenon
<1>14. Base' = Base
  BY Zenon DEF Base, rcu_thread_start
<1> QED
  BY <1>0, <1>2, <1>3, <1>4, <1>6, <1>7, <1>10, <1>11, <1>12, <1>13, <1>14, BeginStep, Zenon
  DEF rcu_thread_start

LEMMA DelStep ==
  ASSUME IInv, NEW t \in Threads, rcu_threads_del(t)
  PROVE  IInv'
<1> USE DEF counters, queue, list, walk, life, client, frees, sweeper
<1>1. TypeOK /\ Places(t) /\ Holding(t) /\ Counting
  BY Zenon DEF IInv
<1>2. pc[t] = "del" /\ ret[t] = "end" /\ t # Main /\ refs[t] = {}
  BY <1>1, Zenon DEF rcu_threads_del, Places, Retiring
<1>3. /\ rcu_threads' = rcu_threads \ {t} /\ todo' = todo \ {t} /\ cur' = cur
      /\ rcu_heads' = rcu_heads
      /\ UNCHANGED <<counters, queue, life, rcu, depth, ret, reg, pend, client,
                     frees, sweeper>>
  BY Zenon DEF rcu_threads_del, ThreadsDel
<1>a. /\ last' \in Threads \cup {NULL} /\ adder' = adder
      /\ up' \in [Threads -> Threads \cup {NULL}]
  BY <1>1, Zenon DEF rcu_threads_del, ThreadsDel, TypeOK
<1>4. TypeOK' /\ Others(t) /\ pc'[t] = "release"
  BY <1>1, <1>3, <1>a, Zenon DEF rcu_threads_del, Others, Goto, TypeOK, Labels
<1>5. \A u \in Threads : Places(u)' /\ Holding(u)'
  <2>1. Places(t)' /\ Holding(t)'
    BY <1>1, <1>2, <1>3, <1>4, Zenon DEF Places, Holding, Retiring
  <2> TAKE u \in Threads
  <2>2. CASE u # t
    BY <1>3, <1>4, <2>2, Zenon DEF IInv, Places, Holding, Others
  <2> QED  BY <2>1, <2>2, Zenon
<1>6. pc'[Main] = pc[Main] /\ (ShuttingDown' <=> ShuttingDown)
  BY <1>2, <1>3, <1>4, Consts, Zenon DEF Others, ShuttingDown
<1>7. Counting'
  <2>1. Bumping' = Bumping
    BY <1>2, <1>4, Zenon DEF Bumping, Others, BumpLabels
  <2>2. \A u \in Threads : Gone(u) => Gone(u)'
    BY <1>2, <1>4, Zenon DEF Others, Gone
  <2> QED  BY <1>1, <1>3, <1>6, <2>1, <2>2, Zenon DEF Counting, Counts, Base
<1>8. Ordered'
  BY <1>2, <1>3, <1>4, Zenon DEF IInv, Ordered, Base, Others
<1>9. LinkProtected' /\ RefProtected'
  <2>1. \A u \in Threads : pc[u] \in Linking => pc'[u] \in Linking /\ u # t
    BY <1>2, <1>4, Zenon DEF Linking, Others
  <2>2. \A u \in Threads, e \in Nat :
          Protects(u, e) /\ (pc[u] \in Linking \/ refs'[u] # {}) => Protects(u, e)'
    BY <1>2, <1>3, <2>1, Zenon DEF Protects
  <2> QED  BY <1>3, <2>1, <2>2, SameQueue, Zenon
<1>10. Objects'
  <2>1. \A u \in Threads : Retired(u)' => Retired(u)
    BY <1>3, <1>4, Zenon DEF Retired, Others
  <2> QED  BY <1>3, <2>1, Zenon DEF IInv, Objects, Fresh
<1>11. NoUseAfterFree' /\ Ending'
  BY <1>3, <1>6, Zenon DEF IInv, NoUseAfterFree, Ending
<1> QED  BY <1>4, <1>5, <1>7, <1>8, <1>9, <1>10, <1>11, Zenon DEF IInv

LEMMA ShutdownStep ==
  ASSUME IInv, rcu_shutdown
  PROVE  IInv'
<1> USE DEF counters, queue, list, walk, life, client, frees, sweeper
<1> DEFINE t == Main
<1>0. t \in Threads
  BY Consts, Zenon
<1>1. TypeOK /\ Places(t) /\ Holding(t) /\ Counting
  BY <1>0, Zenon DEF IInv
<1>2. /\ pc[t] = "run" /\ depth[t] > 0 /\ rcu_active /\ pend[t] = NULL /\ ~ShuttingDown
      /\ ~end /\ \A u \in Threads \ {t} : Gone(u)
  <2>1. /\ pc[t] = "run" /\ depth[t] > 0 /\ rcu_active /\ pend[t] = NULL
        /\ \A u \in Threads \ {t} : Gone(u)
    BY <1>1, Zenon DEF rcu_shutdown, Places, Retiring, Gone
  <2> QED  BY <1>1, <2>1, Consts, Zenon DEF ShuttingDown, IInv, Ending, Counting
<1>3. /\ rcu_heads' = rcu_heads
      /\ UNCHANGED <<counters, queue, list, walk, rcu_active, rcu, depth, ret, reg, ptr,
                     frees, sweeper>>
  BY Zenon DEF rcu_shutdown
<1>4. /\ Others(t) /\ pc'[t] = "enqueue" /\ pend'[t] = END /\ refs'[t] = {}
      /\ pc' \in [Threads -> Labels] /\ pend' \in [Threads -> Items \cup {NULL, END}]
      /\ refs' \in [Threads -> SUBSET Items] /\ nshut' \in Nat
  BY <1>0, <1>1, <1>3 DEF rcu_shutdown, Others, Goto, TypeOK, Labels
<1>5. TypeOK'
  BY <1>1, <1>3, <1>4, Zenon DEF TypeOK
<1>6. \A u \in Threads : Places(u)' /\ Holding(u)'
  <2>1. Places(t)' /\ Holding(t)'
    BY <1>1, <1>2, <1>3, <1>4, Consts, Zenon DEF Places, Holding, Retiring
  <2> TAKE u \in Threads
  <2>2. CASE u # t
    BY <1>3, <1>4, <2>2, Zenon DEF IInv, Places, Holding, Others
  <2> QED  BY <2>1, <2>2, Zenon
<1>7. Counting'
  <2>1. Bumping' = Bumping
    BY <1>2, <1>4, Zenon DEF Bumping, Others, BumpLabels
  <2>2. \A u \in Threads \ {t} : Gone(u)'
    BY <1>2, <1>4, Zenon DEF Others, Gone
  <2> QED  BY <1>1, <1>2, <1>3, <1>4, <2>1, <2>2, Zenon DEF Counting, Counts, Base
<1>8. Ordered'
  BY <1>2, <1>3, <1>4, Zenon DEF IInv, Ordered, Base, Others
<1>9. LinkProtected' /\ RefProtected'
  <2>1. \A u \in Threads : pc[u] \in Linking => pc'[u] \in Linking
    BY <1>2, <1>4, Zenon DEF Linking, Others
  <2>2. \A u \in Threads : refs'[u] \subseteq refs[u]
    BY <1>4, Zenon DEF Others
  <2>3. \A u \in Threads, e \in Nat : Protects(u, e) => Protects(u, e)'
    BY <1>3, Zenon DEF Protects
  <2> QED  BY <1>3, <2>1, <2>2, <2>3, SameQueue, Zenon
<1>10. Objects' /\ NoUseAfterFree'
  <2>1. \A u \in Threads : Retired(u)' => Retired(u) /\ u # t
    BY <1>4, Zenon DEF Retired, Others
  <2>2. \A u \in Threads : refs'[u] \subseteq refs[u] /\ (u # t => pend'[u] = pend[u])
    BY <1>4, Zenon DEF Others
  <2> QED  BY <1>3, <2>1, <2>2, Zenon DEF IInv, Objects, Fresh, NoUseAfterFree
<1>11. Ending'
  BY <1>2, <1>3, <1>4, Zenon DEF IInv, Ending
<1> QED  BY <1>5, <1>6, <1>7, <1>8, <1>9, <1>10, <1>11, Zenon DEF IInv

LEMMA StopStep ==
  ASSUME IInv, rcu_shutdown_stop
  PROVE  IInv'
<1> USE DEF counters, queue, list, walk, life, client, frees, sweeper
<1> DEFINE t == Main
<1>0. t \in Threads
  BY Consts, Zenon
<1>1. TypeOK /\ Places(t) /\ Holding(t) /\ Counting
  BY <1>0, Zenon DEF IInv
<1>2. /\ pc[t] = "stop" /\ rcu_active /\ spc \in {"wait", "threads", "pop"}
      /\ ShuttingDown /\ ~end /\ \A u \in Threads \ {t} : Gone(u)
  BY <1>1, Zenon DEF rcu_shutdown_stop, ShuttingDown, Counting, IInv, Ending
<1>3. /\ rcu_heads' = rcu_heads /\ rcu_seq' = 0 /\ rcu_active' = FALSE
      /\ UNCHANGED <<rcu_dirty, queue, list, walk, nshut, rcu, depth, ret, reg, pend,
                     client, frees, sweeper>>
  BY Zenon DEF rcu_shutdown_stop
<1>4. TypeOK' /\ Others(t) /\ pc'[t] = "join" /\ ~rcu_active'
  <2>1. rcu_active' \in BOOLEAN /\ ~rcu_active'
    BY <1>3, Zenon
  <2>2. Others(t) /\ pc'[t] = "join" /\ pc' \in [Threads -> Labels]
    BY <1>0, <1>1, <1>3, Zenon DEF rcu_shutdown_stop, Others, Goto, TypeOK, Labels
  <2> QED  BY <1>1, <1>3, <2>1, <2>2, Zenon DEF TypeOK
<1>5. \A u \in Threads : Places(u)' /\ Holding(u)'
  <2>1. Places(t)' /\ Holding(t)'
    BY <1>1, <1>2, <1>3, <1>4, Zenon DEF Places, Holding, Retiring
  <2> TAKE u \in Threads
  <2>2. CASE u # t
    BY <1>2, <1>3, <1>4, <2>2, Zenon DEF IInv, Places, Holding, Others, Gone, Retiring
  <2> QED  BY <2>1, <2>2, Zenon
<1>6. ShuttingDown' /\ \A u \in Threads \ {t} : Gone(u)'
  BY <1>2, <1>4, Zenon DEF Others, Gone, ShuttingDown
<1>7. Counting'
  BY <1>2, <1>3, <1>4, <1>5, <1>6, Consts, Zenon DEF Counting, Counts, Places, Retiring
<1>8. Ordered'
  <2>1. \A u \in Threads : pc[u] \notin {"next_link", "rn"}
    BY <1>2, Zenon DEF Gone
  <2> QED  BY <1>3, <2>1, Zenon DEF IInv, Ordered, Base
<1>9. LinkProtected' /\ RefProtected'
  <2>1. \A u \in Threads : pc[u] \in Linking => pc'[u] \in Linking
    BY <1>2, <1>4, Zenon DEF Linking, Others
  <2>2. \A u \in Threads, e \in Nat : Protects(u, e) => Protects(u, e)'
    BY <1>3, Zenon DEF Protects
  <2> QED  BY <1>3, <2>1, <2>2, SameQueue, Zenon
<1>10. Objects' /\ NoUseAfterFree'
  <2>1. \A u \in Threads : Retired(u)' => Retired(u)
    BY <1>3, <1>4, Zenon DEF Retired, Others
  <2> QED  BY <1>3, <2>1, Zenon DEF IInv, Objects, Fresh, NoUseAfterFree
<1>11. Ending'
  BY <1>2, <1>3, <1>4, <1>6, Zenon DEF IInv, Ending
<1> QED  BY <1>4, <1>5, <1>7, <1>8, <1>9, <1>10, <1>11, Zenon DEF IInv

LEMMA JoinStep ==
  ASSUME IInv, rcu_shutdown_join
  PROVE  IInv'
<1> USE DEF counters, queue, list, walk, life, client, frees, sweeper
<1> DEFINE t == Main
<1>0. t \in Threads
  BY Consts, Zenon
<1>1. TypeOK /\ Places(t) /\ Holding(t) /\ Counting
  BY <1>0, Zenon DEF IInv
<1>2. /\ pc[t] = "join" /\ ~rcu_active /\ pend[t] = NULL /\ refs[t] = {}
      /\ rcu_heads = << >> /\ end /\ \A u \in Threads \ {t} : Gone(u)
  BY <1>1, Zenon DEF rcu_shutdown_join, Counting, IInv, Ending, Places, Retiring
<1>3. /\ rcu_heads' = rcu_heads /\ rcu_seq' = 1 /\ nmarks' = 1 /\ spc' = "off"
      /\ UNCHANGED <<rcu_dirty, rcu_heads, list, walk, life, ret, reg, pend, client,
                     frees, rcuval, end>>
  BY Zenon DEF rcu_shutdown_join, STARTVAL
<1>4. /\ TypeOK' /\ Others(t) /\ pc'[t] = "run" /\ rcu'[t] = 1 /\ depth'[t] = 1
  BY <1>0, <1>1, <1>3 DEF rcu_shutdown_join, Others, Goto, TypeOK, Labels, STARTVAL
<1>5. \A u \in Threads : Places(u)' /\ Holding(u)'
  <2>1. Places(t)' /\ Holding(t)'
    <3>1. Places(t)'
      <4>1. t \in rcu_threads' /\ ret'[t] # "end"
        BY <1>1, <1>2, <1>3, Consts, Zenon DEF Places
      <4> QED  BY <1>2, <1>3, <1>4, <4>1, Consts, Zenon DEF Places, Retiring
    <3>2. Holding(t)'
      BY <1>3, <1>4 DEF Holding
    <3> QED  BY <3>1, <3>2, Zenon
  <2> TAKE u \in Threads
  <2>2. CASE u # t
    <3>1. Places(u)'
      BY <1>2, <1>3, <1>4, <2>2, Zenon DEF IInv, Places, Others
    <3>2. rcu'[u] = 0 /\ pc'[u] \in {"new", "ended"}
      BY <1>2, <1>4, <2>2, Zenon DEF IInv, Holding, Gone, Others
    <3>3. Holding(u)'
      <4>1. rcu_seq' # 0 => rcu'[u] <= rcu_seq'
        BY <1>3, <3>2
      <4>2. CASE pc'[u] = "new"
        BY <3>2, <4>1, <4>2, Zenon DEF Holding, Retiring
      <4>3. CASE pc'[u] = "ended"
        BY <3>2, <4>1, <4>3, Zenon DEF Holding, Retiring
      <4> QED  BY <3>2, <4>2, <4>3, Zenon
    <3> QED  BY <3>1, <3>3, Zenon
  <2> QED  BY <2>1, <2>2, Zenon
<1>6. ~ShuttingDown' /\ \A u \in Threads \ {t} : Gone(u)'
  BY <1>2, <1>3, <1>4, Consts, Zenon DEF Others, Gone, ShuttingDown
<1>7. Counting'
  <2>1. Bumping' = {}
    BY <1>4, <1>6, Zenon DEF Bumping, Gone, BumpLabels
  <2>2. Counts'
    BY <1>3, <2>1 DEF Counts, STARTVAL
  <2>3. /\ pc'[Main] = "run" /\ pend'[Main] = NULL /\ spc' = "off" /\ ~rcu_active'
        /\ rcu_seq' = 1 /\ Base' = 1 /\ rcu_seq' # 0 /\ Base' <= rcu_seq'
    <3>1. 1 <= 1 /\ 1 # 0
      OBVIOUS
    <3>2. spc' = "off" /\ rcu_seq' = 1 /\ rcu_active' = rcu_active /\ pend' = pend
      BY <1>3, Zenon
    <3>3. Base' = 1
      BY <3>2, Zenon DEF Base, STARTVAL
    <3> QED  BY <1>2, <1>4, <3>1, <3>2, <3>3, Zenon
  <2> QED  BY <1>6, <2>2, <2>3, Consts, Zenon DEF Counting
<1>8. Ordered'
  <2>1. rcu_heads' = << >> /\ nmarks' = 1 /\ spc' = "off"
    BY <1>2, <1>3, Zenon
  <2>2. Base' = 1
    BY <2>1, Zenon DEF Base, STARTVAL
  <2>3. 1..Len(<< >>) = {} /\ 1..(1 - 1) = {}
    OBVIOUS
  <2> QED  BY <2>1, <2>2, <2>3, Zenon DEF Ordered, Sorted
<1>9. LinkProtected' /\ RefProtected'
  <2>0. rcu_heads' = << >>
    BY <1>2, <1>3, Zenon
  <2>1. Len(rcu_heads') = 0
    BY <2>0, Zenon
  <2> QED  BY <2>1 DEF LinkProtected, RefProtected
<1>10. Objects' /\ NoUseAfterFree'
  <2>1. \A u \in Threads : Retired(u)' => Retired(u)
    BY <1>3, <1>4, Zenon DEF Retired, Others
  <2> QED  BY <1>3, <2>1, Zenon DEF IInv, Objects, Fresh, NoUseAfterFree
<1>11. Ending'
  <2>0. rcu_heads' = << >>
    BY <1>2, <1>3, Zenon
  <2>1. Len(rcu_heads') = 0
    BY <2>0, Zenon
  <2> QED  BY <1>3, <1>6, <2>1 DEF Ending
<1> QED  BY <1>4, <1>5, <1>7, <1>8, <1>9, <1>10, <1>11, Zenon DEF IInv

-----------------------------------------------------------------------------
(* The client. *)

\* Objects numbered below the current one have been taken out of the pointer.
LEMMA AccessStep ==
  ASSUME IInv, NEW t \in Threads, Access(t)
  PROVE  IInv'
<1> USE DEF counters, queue, list, walk, life, client, frees, sweeper
<1>1. TypeOK /\ Places(t) /\ Holding(t) /\ Counting /\ Objects
  BY Zenon DEF IInv
<1>2. pc[t] = "run" /\ depth[t] > 0 /\ ptr \in Nat
  BY <1>1, Consts, Zenon DEF Access, TypeOK
<1>3. /\ rcu_heads' = rcu_heads
      /\ UNCHANGED <<counters, queue, list, walk, life, rcu, depth, pc, ret, reg, pend,
                     ptr, frees, sweeper>>
  BY Zenon DEF Access
<1>4. TypeOK' /\ Others(t) /\ refs'[t] = refs[t] \cup {ptr}
  <2>1. refs' = [refs EXCEPT ![t] = refs[t] \cup {ptr}]
    BY Zenon DEF Access
  <2>2. refs[t] \cup {ptr} \in SUBSET Items
    BY <1>1, Zenon DEF TypeOK
  <2>3. refs' \in [Threads -> SUBSET Items] /\ refs'[t] = refs[t] \cup {ptr}
    BY <1>1, <2>1, <2>2, Zenon DEF TypeOK
  <2> QED  BY <1>1, <1>3, <2>1, <2>3, Zenon DEF Others, TypeOK
<1>5. \A u \in Threads : Places(u)' /\ Holding(u)'
  <2>1. Places(t)' /\ Holding(t)'
    BY <1>1, <1>2, <1>3, <1>4, Consts, Zenon DEF Places, Holding, Retiring
  <2> TAKE u \in Threads
  <2>2. CASE u # t
    BY <1>3, <1>4, <2>2, Zenon DEF IInv, Places, Holding, Others
  <2> QED  BY <2>1, <2>2, Zenon
<1>6. ShuttingDown' <=> ShuttingDown
  BY <1>3, Zenon DEF ShuttingDown
<1>7. Counting'
  <2>1. Bumping' = Bumping /\ \A u \in Threads : Gone(u) => Gone(u)'
    BY <1>3, Zenon DEF Bumping, Gone
  <2> QED  BY <1>1, <1>3, <1>6, <2>1, Zenon DEF Counting, Counts, Base
<1>8. Ordered'
  BY <1>3, Zenon DEF IInv, Ordered, Base
<1>9. \A u \in Threads, e \in Nat : Protects(u, e) => Protects(u, e)'
  BY <1>3, Zenon DEF Protects
<1>10. /\ Len(rcu_heads) \in Nat
       /\ \A k \in 1..Len(rcu_heads) : rcu_heads[k] \in Entry /\ rcu_heads[k].epoch \in Nat
  <2>1. rcu_heads \in Seq(Entry)
    BY <1>1, Zenon DEF TypeOK
  <2>2. Len(rcu_heads) \in Nat /\ \A k \in 1..Len(rcu_heads) : rcu_heads[k] \in Entry
    BY <2>1, SeqFacts, Zenon
  <2> QED  BY <2>2, Zenon DEF Entry
<1>11. LinkProtected'
  <2>1. \A k \in 1..Len(rcu_heads) : k > 1 => k - 1 \in 1..Len(rcu_heads)
    BY <1>10
  <2>2. \A k \in 1..Len(rcu_heads) : rcu_heads[k].by # NULL => rcu_heads[k].by \in Threads
    BY <1>10, Zenon DEF Entry
  <2> QED  BY <1>3, <1>9, <1>10, <2>1, <2>2, Zenon DEF IInv, LinkProtected
<1>12. RefProtected'
  <2> SUFFICES ASSUME NEW u \in Threads, NEW k \in 1..Len(rcu_heads),
                      rcu_heads[k].type = "ITEM", rcu_heads[k].obj \in refs'[u]
               PROVE  Protects(u, rcu_heads[k].epoch)'
    BY <1>3, Zenon DEF RefProtected
  <2>1. rcu_heads[k].obj # ptr
    BY <1>1, <1>2, Consts DEF Objects, Fresh
  <2>2. rcu_heads[k].obj \in refs[u]
    BY <1>4, <2>1, Zenon DEF Others
  <2> QED  BY <1>3, <1>9, <1>10, <2>2, Zenon DEF IInv, RefProtected
<1>13. Objects'
  <2>1. \A u \in Threads : (Retired(u)' <=> Retired(u)) /\ (Retired(u) => u # t)
    BY <1>2, <1>3, Zenon DEF Retired
  <2>2. \A u \in Threads : \A i \in refs'[u] : i <= ptr
    BY <1>1, <1>2, <1>4 DEF Objects, Others
  <2>3. \A u \in Threads : Retired(u) => pend[u] \notin refs'[u]
    BY <1>1, <1>4, <2>1, Zenon DEF Objects, Others
  <2> QED  BY <1>1, <1>3, <2>1, <2>2, <2>3, Zenon DEF Objects, Fresh
<1>14. NoUseAfterFree'
  <2>1. ptr \notin freed
    BY <1>1, <1>2 DEF Objects
  <2> QED  BY <1>3, <1>4, <2>1, Zenon DEF IInv, NoUseAfterFree, Others
<1>15. Ending'
  BY <1>3, <1>6, Zenon DEF IInv, Ending
<1> QED
  BY <1>4, <1>5, <1>7, <1>8, <1>11, <1>12, <1>13, <1>14, <1>15, Zenon DEF IInv

LEMMA ReplaceStep ==
  ASSUME IInv, NEW t \in Threads, Replace(t)
  PROVE  IInv'
<1> USE DEF counters, queue, list, walk, life, client, frees, sweeper
<1>1. TypeOK /\ Places(t) /\ Holding(t) /\ Counting /\ Objects
  BY Zenon DEF IInv
<1>2. /\ pc[t] = "run" /\ depth[t] > 0 /\ ptr \in Nat /\ ptr \in Items
      /\ ptr + 1 \in Items /\ ptr # END /\ ptr # NULL /\ pend[t] = NULL
  <2>1. pc[t] = "run" /\ depth[t] > 0 /\ ptr \in Items /\ ptr < MaxItems /\ pend[t] = NULL
    BY <1>1, Zenon DEF Replace, TypeOK, Places, Retiring
  <2> QED  BY <2>1, FrrcuAssumption DEF Items, END, NULL
<1>3. /\ rcu_heads' = rcu_heads /\ ptr' = ptr + 1 /\ freed' = freed
      /\ UNCHANGED <<counters, queue, list, walk, life, rcu, depth, ret, reg, frees, sweeper>>
  BY Zenon DEF Replace
<1>4. /\ Others(t) /\ refs'[t] = refs[t] \ {ptr} /\ pc'[t] = "enqueue" /\ pend'[t] = ptr
      /\ pc' \in [Threads -> Labels] /\ refs' \in [Threads -> SUBSET Items]
      /\ pend' \in [Threads -> Items \cup {NULL, END}]
  BY <1>1, <1>2, <1>3, Zenon DEF Replace, Others, TypeOK, Goto, Labels
<1>0. TypeOK'
  BY <1>1, <1>2, <1>3, <1>4, Zenon DEF TypeOK
<1>5. \A u \in Threads : Places(u)' /\ Holding(u)'
  <2>1. Places(t)' /\ Holding(t)'
    <3>1. Places(t)'
      BY <1>1, <1>2, <1>3, <1>4, Consts, Zenon DEF Places, Retiring
    <3>2. Holding(t)'
      BY <1>1, <1>2, <1>3, <1>4, Zenon DEF Holding, Retiring
    <3> QED  BY <3>1, <3>2, Zenon
  <2> TAKE u \in Threads
  <2>2. CASE u # t
    <3>1. Places(u) /\ Holding(u)
      BY Zenon DEF IInv
    <3>2. UNCHANGED <<rcu_threads, rcu_seq>>
      BY <1>3, Zenon
    <3>3. Places(u)'
      BY <1>4, <2>2, <3>1, <3>2, Zenon DEF Places, Others
    <3>4. Holding(u)'
      BY <1>4, <2>2, <3>1, <3>2, Zenon DEF Holding, Others
    <3> QED  BY <3>3, <3>4, Zenon
  <2> QED  BY <2>1, <2>2, Zenon
<1>6. /\ ShuttingDown' <=> ShuttingDown
      /\ ShuttingDown => t # Main
      /\ pc'[Main] \in {pc[Main], "enqueue"} /\ pend'[Main] \in {pend[Main], ptr}
      /\ t # Main => pc'[Main] = pc[Main]
  BY <1>2, <1>4, Consts, Zenon DEF ShuttingDown, Others
<1>7. Counting'
  <2>1. Bumping' = Bumping /\ \A u \in Threads : Gone(u) => Gone(u)'
    BY <1>2, <1>4, Zenon DEF Bumping, Gone, Others, BumpLabels
  <2>2. pc[Main] = "join" <=> pc'[Main] = "join"
    BY <1>2, <1>4, Consts, Zenon DEF Others
  <2> QED  BY <1>1, <1>2, <1>3, <1>6, <2>1, <2>2, Zenon DEF Counting, Counts, Base
<1>8. Ordered'
  BY <1>2, <1>3, <1>4, Zenon DEF IInv, Ordered, Base, Others
<1>9. LinkProtected' /\ RefProtected'
  <2>1. \A u \in Threads : pc[u] \in Linking => pc'[u] \in Linking
    BY <1>2, <1>4, Zenon DEF Linking, Others
  <2>2. \A u \in Threads : refs'[u] \subseteq refs[u]
    BY <1>4, Zenon DEF Others
  <2>3. \A u \in Threads, e \in Nat : Protects(u, e) => Protects(u, e)'
    BY <1>3, Zenon DEF Protects
  <2> QED  BY <1>3, <2>1, <2>2, <2>3, SameQueue, Zenon
<1>10. Objects'
  <2>1. \A u \in Threads : u # t => (Retired(u)' <=> Retired(u)) /\ pend'[u] = pend[u]
    BY <1>4, Zenon DEF Retired, Others
  <2>0. \A u \in Threads : pend[u] \in Nat
    <3>1. pend \in [Threads -> Items \cup {NULL, END}]
      BY <1>1, Zenon DEF TypeOK
    <3>2. \A i \in Items \cup {NULL, END} : i \in Nat
      BY FrrcuAssumption DEF Items, NULL, END
    <3> QED  BY <3>1, <3>2, Zenon
  <2>2. \A u \in Threads : Retired(u) => pend[u] < ptr /\ pend[u] \in Nat
    BY <1>1, <2>0, Zenon DEF Objects
  <2>3. \A u \in Threads : refs'[u] \subseteq refs[u] /\ refs[u] \subseteq Nat
    BY <1>1, <1>4, Consts, Zenon DEF Others, TypeOK
  <2>4. /\ \A k \in 1..Len(rcu_heads) : rcu_heads[k].type = "ITEM" =>
             /\ rcu_heads[k].obj < ptr /\ rcu_heads[k].obj \in Nat
             /\ rcu_heads[k].obj \in Items
        /\ \A i \in freed : i < ptr /\ i \in Nat
    BY <1>1, Consts, Zenon DEF Objects, Fresh, TypeOK
  <2>5. Fresh(rcu_heads)'
    <3>1. \A i \in Nat : i < ptr => i < ptr'
      BY <1>2, <1>3
    <3>2. \A k \in 1..Len(rcu_heads') : rcu_heads'[k].type = "ITEM" => rcu_heads'[k].obj < ptr'
      BY <1>3, <2>4, <3>1, Zenon
    <3>3. Fresh(rcu_heads)
      BY <1>1, Zenon DEF Objects
    <3> QED  BY <1>3, <3>2, <3>3, Zenon DEF Fresh
  <2>6. /\ \A i \in freed' : i < ptr'
        /\ \A u \in Threads : \A i \in refs'[u] : i <= ptr'
    <3>1. \A u \in Threads : \A i \in refs'[u] : i <= ptr /\ i \in Nat
      BY <1>1, <2>3, Zenon DEF Objects
    <3>2. \A i \in Nat : i <= ptr => i <= ptr + 1 /\ i < ptr + 1
      BY <1>2
    <3>3. \A i \in Nat : i < ptr => i < ptr + 1
      BY <1>2
    <3> QED  BY <1>3, <2>4, <3>1, <3>2, <3>3, Zenon
  <2>7. \A u \in Threads : Retired(u)' =>
          /\ pend'[u] < ptr' /\ pend'[u] \notin freed' /\ pend'[u] \notin refs'[u]
          /\ \A k \in 1..Len(rcu_heads') :
               rcu_heads'[k].type = "ITEM" => rcu_heads'[k].obj # pend'[u]
    <3> TAKE u \in Threads
    <3>1. CASE u = t
      <4>1. ptr < ptr + 1 /\ \A i \in Nat : i < ptr => i # ptr
        BY <1>2
      <4>2. ptr \notin freed /\ \A k \in 1..Len(rcu_heads) :
              rcu_heads[k].type = "ITEM" => rcu_heads[k].obj # ptr
        BY <2>4, <4>1, Zenon
      <4> QED  BY <1>3, <1>4, <3>1, <4>1, <4>2, Zenon
    <3>2. CASE u # t
      <4>1. Retired(u)' => Retired(u) /\ pend'[u] = pend[u] /\ pend[u] < ptr + 1
        <5>1. Retired(u)' => Retired(u) /\ pend'[u] = pend[u]
          BY <2>1, <3>2, Zenon
        <5>2. \A i \in Nat : i < ptr => i < ptr + 1
          BY <1>2
        <5> QED  BY <2>2, <5>1, <5>2, Zenon
      <4> QED  BY <1>1, <1>3, <2>3, <4>1, Zenon DEF Objects
    <3> QED  BY <3>1, <3>2, Zenon
  <2>8. \A u, v \in Threads : Retired(u)' /\ Retired(v)' /\ pend'[v] = pend'[u] => v = u
    <3> TAKE u, v \in Threads
    <3>1. CASE u # t /\ v # t
      BY <1>1, <2>1, <3>1, Zenon DEF Objects
    <3>2. CASE u = t \/ v = t
      BY <1>2, <1>4, <2>1, <2>2, <3>2
    <3> QED  BY <3>1, <3>2, Zenon
  <2> QED  BY <2>5, <2>6, <2>7, <2>8, Zenon DEF Objects
<1>11. NoUseAfterFree'
  BY <1>3, <1>4, Zenon DEF IInv, NoUseAfterFree, Others
<1>12. Ending'
  <2>1. ShuttingDown => pc'[Main] = pc[Main]
    BY <1>6, Zenon
  <2>2. end /\ spc # "off" => pc'[Main] = "join"
    BY <1>2, <1>4, Consts, Zenon DEF IInv, Ending, Others
  <2> QED  BY <1>3, <1>6, <2>1, <2>2, Zenon DEF IInv, Ending
<1> QED
  BY <1>0, <1>5, <1>7, <1>8, <1>9, <1>10, <1>11, <1>12, Zenon DEF IInv

-----------------------------------------------------------------------------
(* The sweeper. *)

\* Steps of the sweeper that leave the queue alone.
LEMMA SweepStep ==
  ASSUME IInv, TypeOK', SweeperOnly, UNCHANGED <<rcu_heads, freed, rcuval, end>>,
         spc \in {"wait", "threads"}, spc' \in {"threads", "pop"},
         spc = "wait" => Past(rcu_seq),
         \A u \in Threads, e \in Nat : Protects(u, e) => Protects(u, e)'
  PROVE  IInv'
<1> USE DEF counters, life, client
<1>1. Counting /\ TypeOK
  BY Zenon DEF IInv
<1>2. rcu_seq # 0 => rcu_seq > rcuval
  BY <1>1, Zenon DEF Counting, Past
<1>3. \A u \in Threads : Places(u)' /\ Holding(u)'
  BY DEF IInv, Places, Holding, SweeperOnly
<1>4. Counting'
  <2>1. Bumping' = Bumping /\ Base' = Base /\ (ShuttingDown' <=> ShuttingDown)
        /\ \A u \in Threads : Gone(u) => Gone(u)'
    BY Zenon DEF Bumping, Base, ShuttingDown, Gone, SweeperOnly
  <2>2. Counts'
    BY <1>1, <2>1, CountsSame, Zenon DEF SweeperOnly
  <2> QED  BY <1>1, <1>2, <2>1, <2>2, Zenon DEF Counting, SweeperOnly
<1>5. Ordered'
  BY Zenon DEF IInv, Ordered, Base, SweeperOnly
<1>6. LinkProtected' /\ RefProtected'
  <2>1. \A u \in Threads : pc'[u] = pc[u] /\ refs'[u] = refs[u]
    BY Zenon DEF SweeperOnly
  <2> QED  BY <2>1, SameQueue, Zenon
<1>7. Objects' /\ NoUseAfterFree'
  <2>1. \A u \in Threads : Retired(u)' => Retired(u)
    BY Zenon DEF Retired, SweeperOnly
  <2> QED  BY <2>1, Zenon DEF IInv, Objects, Fresh, NoUseAfterFree, SweeperOnly
<1>8. Ending'
  BY Zenon DEF IInv, Ending, ShuttingDown, SweeperOnly
<1> QED  BY <1>3, <1>4, <1>5, <1>6, <1>7, <1>8, Zenon DEF IInv

LEMMA WaitStep ==
  ASSUME IInv, rcu_main_wait
  PROVE  IInv'
<1>1. TypeOK
  BY Zenon DEF IInv
<1>2. PICK t \in rcu_threads : cur' = t /\ todo' = rcu_threads \ {t}
  BY Zenon DEF rcu_main_wait
<1>3. TypeOK'
  BY <1>1, <1>2, Zenon DEF rcu_main_wait, SweeperOnly, TypeOK, counters, list, life, client, frees
<1>4. \A u \in Threads, e \in Nat : Protects(u, e) => Protects(u, e)'
  BY <1>2, Zenon DEF Protects, rcu_main_wait, SweeperOnly
<1> QED  BY <1>3, <1>4, SweepStep, Zenon DEF rcu_main_wait, frees

\* A thread it need not wait for protects nothing of the epoch it works on.
LEMMA ThreadStep ==
  ASSUME IInv, rcu_main_thread
  PROVE  IInv'
<1>1. TypeOK
  BY Zenon DEF IInv
<1>2. TypeOK' /\ spc' \in {"threads", "pop"}
  BY <1>1, Zenon DEF rcu_main_thread, SweeperOnly, TypeOK, counters, list, life, client, frees
<1>3. \A u \in Threads, e \in Nat : Protects(u, e) => Protects(u, e)'
  <2> SUFFICES ASSUME NEW u \in Threads, NEW e \in Nat, Protects(u, e)
               PROVE  Protects(u, e)'
    OBVIOUS
  <2>1. e > rcuval \/ u # cur
    BY <1>1 DEF Protects, rcu_main_thread, Past, TypeOK
  <2>2. e > rcuval \/ u \in todo
    BY <2>1, Zenon DEF Protects, rcu_main_thread
  <2>3. e > rcuval \/ (spc' = "threads" /\ (u = cur' \/ u \in todo'))
    BY <2>2, Zenon DEF rcu_main_thread
  <2> QED  BY <2>3, Zenon DEF Protects, rcu_main_thread, SweeperOnly
<1> QED  BY <1>2, <1>3, SweepStep, Zenon DEF rcu_main_thread, frees

\* While the sweeper pops, either nobody but it is there, or the head of the
\* queue is of its epoch, and not the last entry.
LEMMA PopFacts ==
  ASSUME IInv, spc = "pop"
  PROVE  \/ /\ pc[Main] = "join" /\ ShuttingDown
            /\ \A u \in Threads : pc[u] \notin Linking /\ refs[u] = {}
         \/ /\ pc[Main] # "join" /\ rcu_seq # 0 /\ Len(rcu_heads) >= 2 /\ rcu_heads # << >>
            /\ rcu_heads[1].epoch = rcuval /\ rcu_heads[1].type # "END"
            /\ rcu_heads[1].by = NULL /\ rcu_heads[2].by = NULL
<1>1. TypeOK /\ Counting /\ Ordered /\ rcuval \in Nat /\ nmarks \in Nat /\ rcu_seq \in Nat
      /\ rcu_heads \in Seq(Entry)
  BY Zenon DEF IInv, TypeOK
<1>2. CASE pc[Main] = "join"
  <2>1. \A u \in Threads \ {Main} : Gone(u)
    BY <1>1, <1>2, Zenon DEF Counting
  <2>2. \A u \in Threads : pc[u] \in {"new", "ended", "join"}
    BY <1>2, <2>1, Zenon DEF Gone
  <2> QED  BY <1>2, <2>2, Zenon DEF IInv, Places, Retiring, Linking, ShuttingDown
<1>3. CASE pc[Main] # "join"
  <2>1. rcu_seq # 0 /\ rcu_seq > rcuval /\ rcu_seq <= nmarks /\ Base = rcuval
    BY <1>1, <1>3, CountFacts, Zenon DEF Counting, Base
  <2>2. Sorted(rcu_heads, nmarks, rcuval)
    BY <1>1, <2>1, Zenon DEF Ordered
  <2>3. rcuval < nmarks
    BY <1>1, <2>1
  <2>4. PICK k \in 1..Len(rcu_heads) :
          /\ rcu_heads # << >> /\ rcu_heads[1].epoch = rcuval
          /\ rcu_heads[k].type = "NEXT" /\ rcu_heads[k].epoch = rcuval
          /\ \A j \in 1..k : rcu_heads[j].epoch = rcuval
    BY <1>1, <2>2, <2>3, SortedHead
  <2>5. Len(rcu_heads) \in Nat /\ k \in Nat /\ 1 <= k /\ k <= Len(rcu_heads)
        /\ \A j \in 1..Len(rcu_heads) : rcu_heads[j] \in Entry
    BY <1>1, SeqFacts
  <2>6. ASSUME k = Len(rcu_heads) PROVE FALSE
    <3>1. \E u \in Threads : pc[u] \in {"next_link", "rn"}
      BY <1>1, <2>4, <2>6, Zenon DEF Ordered
    <3>2. rcu_seq < nmarks
      BY <1>1, <2>1, <3>1, CountFacts, Zenon DEF BumpLabels
    <3>3. rcuval + 1 = nmarks
      BY <1>1, <2>2, <2>4, <2>6, Zenon DEF Sorted, Marks
    <3> QED  BY <1>1, <2>1, <3>2, <3>3
  <2>7. Len(rcu_heads) >= 2 /\ 1 \in 1..Len(rcu_heads) /\ 2 \in 1..Len(rcu_heads)
    BY <2>5, <2>6
  <2>8. \A j \in 1..Len(rcu_heads) : j <= k + 1 => rcu_heads[j].by = NULL
    <3> SUFFICES ASSUME NEW j \in 1..Len(rcu_heads), j <= k + 1, rcu_heads[j].by # NULL
                 PROVE  FALSE
      OBVIOUS
    <3>1. /\ Protects(rcu_heads[j].by, rcu_heads[j].epoch)
          /\ j > 1 /\ rcu_heads[j - 1].type = "NEXT"
               => Protects(rcu_heads[j].by, rcu_heads[j - 1].epoch)
      BY Zenon DEF IInv, LinkProtected
    <3>2. ~Protects(rcu_heads[j].by, rcuval)
      BY <1>1 DEF Protects
    <3>3. CASE j <= k
      <4>1. rcu_heads[j].epoch = rcuval
        BY <2>4, <2>5, <3>3
      <4> QED  BY <3>1, <3>2, <4>1, Zenon
    <3>4. CASE j = k + 1
      <4>1. j > 1 /\ j - 1 = k
        BY <2>5, <3>4
      <4> QED  BY <2>4, <3>1, <3>2, <4>1, Zenon
    <3> QED  BY <2>5, <3>3, <3>4
  <2>9. rcu_heads[1].by = NULL /\ rcu_heads[2].by = NULL
    BY <2>5, <2>7, <2>8
  <2>10. rcu_heads[1].type # "END"
    BY <2>7 DEF IInv, Ending
  <2> QED  BY <1>3, <2>1, <2>4, <2>7, <2>9, <2>10, Zenon
<1> QED  BY <1>2, <1>3, Zenon

\* What a pop leaves behind.
LEMMA TailInv ==
  ASSUME IInv, spc = "pop", rcu_heads # << >>, rcu_heads' = Tail(rcu_heads), SweeperOnly,
         UNCHANGED <<cur, todo>>,
         \/ rcuval' = rcuval /\ spc' = spc
         \/ rcuval' = rcuval + 1 /\ spc' = "wait"
  PROVE  /\ LinkProtected' /\ RefProtected'
         /\ rcu_heads' # << >> => rcu_heads'[Len(rcu_heads')] = rcu_heads[Len(rcu_heads)]
<1> DEFINE h == rcu_heads
<1>1. /\ h \in Seq(Entry) /\ Len(h) \in Nat /\ Len(h) > 0 /\ rcuval \in Nat
      /\ Len(rcu_heads') = Len(h) - 1
      /\ \A k \in 1..Len(rcu_heads') : rcu_heads'[k] = h[k + 1] /\ k + 1 \in 1..Len(h)
      /\ \A k \in 1..Len(h) : h[k] \in Entry
      /\ (rcu_heads' # << >> => Len(rcu_heads') > 0)
  <2>1. rcu_heads \in Seq(Entry) /\ rcuval \in Nat
    BY Zenon DEF IInv, TypeOK
  <2> QED  BY <2>1, TailFacts, SeqFacts, Zenon
<1>2. \A u \in Threads, e \in Nat : Protects(u, e) =>
        /\ u \in rcu_threads' /\ rcu'[u] > 0 /\ rcu'[u] <= e
        /\ e > rcuval' \/ spc' = "wait"
  BY Zenon DEF Protects, SweeperOnly
<1>3. LinkProtected'
  <2> SUFFICES ASSUME NEW k \in 1..Len(rcu_heads'), rcu_heads'[k].by # NULL
               PROVE  /\ pc'[rcu_heads'[k].by] \in Linking
                      /\ Protects(rcu_heads[k].by, rcu_heads[k].epoch)'
                      /\ k > 1 /\ rcu_heads'[k - 1].type = "NEXT"
                           => Protects(rcu_heads[k].by, rcu_heads[k - 1].epoch)'
    BY Zenon DEF LinkProtected
  <2>1. rcu_heads'[k] = h[k + 1] /\ k + 1 \in 1..Len(h) /\ k \in 1..Len(h)
        /\ (k + 1) - 1 = k /\ k + 1 > 1
    BY <1>1
  <2>2. k > 1 => rcu_heads'[k - 1] = h[k]
    <3>1. k > 1 => k - 1 \in 1..Len(rcu_heads') /\ (k - 1) + 1 = k
      BY <1>1
    <3> QED  BY <1>1, <3>1, Zenon
  <2>3. /\ h[k + 1].by \in Threads /\ h[k + 1].epoch \in Nat /\ h[k].epoch \in Nat
    BY <1>1, <2>1, Zenon DEF Entry
  <2>4. /\ pc[h[k + 1].by] \in Linking /\ Protects(h[k + 1].by, h[k + 1].epoch)
        /\ h[k].type = "NEXT" => Protects(h[k + 1].by, h[k].epoch)
    BY <2>1, Zenon DEF IInv, LinkProtected
  <2>5. pc' = pc
    BY Zenon DEF SweeperOnly
  <2> QED  BY <1>2, <2>1, <2>2, <2>3, <2>4, <2>5, Zenon DEF Protects
<1>4. RefProtected'
  <2> SUFFICES ASSUME NEW u \in Threads, NEW k \in 1..Len(rcu_heads'),
                      rcu_heads'[k].type = "ITEM", rcu_heads'[k].obj \in refs[u]
               PROVE  Protects(u, rcu_heads[k].epoch)'
    BY Zenon DEF RefProtected, SweeperOnly, client
  <2>1. rcu_heads'[k] = h[k + 1] /\ k + 1 \in 1..Len(h) /\ h[k + 1].epoch \in Nat
    BY <1>1, Zenon DEF Entry
  <2>2. Protects(u, h[k + 1].epoch)
    BY <2>1, Zenon DEF IInv, RefProtected
  <2> QED  BY <1>2, <2>1, <2>2, Zenon DEF Protects
<1>5. rcu_heads' # << >> => rcu_heads'[Len(rcu_heads')] = h[Len(h)]
  BY <1>1
<1> QED  BY <1>3, <1>4, <1>5, Zenon

LEMMA PopStep ==
  ASSUME IInv, rcu_main_pop
  PROVE  IInv'
<1> USE DEF counters, life, client, frees
<1> DEFINE h == rcu_heads
<1>1. /\ TypeOK /\ Counting /\ Ordered /\ Objects /\ Ending /\ spc = "pop" /\ SweeperOnly
      /\ h \in Seq(Entry) /\ Len(h) \in Nat /\ \A k \in 1..Len(h) : h[k] \in Entry
      /\ rcuval \in Nat /\ nmarks \in Nat /\ rcu_seq \in Nat /\ Base = rcuval
      /\ UNCHANGED <<cur, todo>>
  <2>1. TypeOK /\ Counting /\ Ordered /\ Objects /\ Ending
    BY Zenon DEF IInv
  <2>2. spc = "pop" /\ SweeperOnly /\ UNCHANGED <<cur, todo>>
    BY Zenon DEF rcu_main_pop
  <2>3. h \in Seq(Entry) /\ rcuval \in Nat /\ nmarks \in Nat /\ rcu_seq \in Nat
    BY <2>1, Zenon DEF TypeOK
  <2>4. Base = rcuval
    BY <2>2, Zenon DEF Base
  <2> QED  BY <2>1, <2>2, <2>3, <2>4, SeqFacts, Zenon
<1>2. \A u \in Threads : Places(u)' /\ Holding(u)'
  BY <1>1 DEF IInv, Places, Holding, SweeperOnly
<1>3. /\ Bumping' = Bumping /\ (ShuttingDown' <=> ShuttingDown)
      /\ \A u \in Threads : (Gone(u)' <=> Gone(u)) /\ (Retired(u)' <=> Retired(u))
  BY <1>1, Zenon DEF Bumping, ShuttingDown, Gone, Retired, SweeperOnly
<1>4. CASE h = << >> \/ Head(h).by # NULL
  <2>1. h = << >> \/ h[1].by # NULL
    BY <1>1, <1>4, TailFacts, Zenon
  <2>2. /\ pc[Main] = "join" /\ ShuttingDown /\ h = << >>
        /\ \A u \in Threads : pc[u] \notin Linking /\ refs[u] = {}
    <3>1. /\ pc[Main] = "join" /\ ShuttingDown
          /\ \A u \in Threads : pc[u] \notin Linking /\ refs[u] = {}
      BY <1>1, <2>1, PopFacts, Zenon
    <3>2. h # << >> => 1 \in 1..Len(h)
      BY <1>1, SeqFacts
    <3>3. h = << >>
      <4>1. h # << >> /\ h[1].by # NULL => pc[h[1].by] \in Linking /\ h[1].by \in Threads
        BY <1>1, <3>2, Zenon DEF IInv, LinkProtected, Entry
      <4> QED  BY <2>1, <3>1, <4>1, Zenon
    <3> QED  BY <3>1, <3>3, Zenon
  <2>3. end /\ rcuval' = rcuval + 1 /\ spc' = "done"
        /\ UNCHANGED <<rcu_heads, freed, rt_freed, end>>
    <3>1. end
      BY <1>1, <2>2, Zenon DEF Ending
    <3>2. NextRound /\ rcu_heads' = rcu_heads
      BY <1>4, Zenon DEF rcu_main_pop
    <3> QED  BY <3>1, <3>2, Zenon DEF NextRound
  <2>4. TypeOK'
    BY <1>1, <2>3 DEF TypeOK, SweeperOnly, list
  <2>5. rcu_seq = 0 /\ rcu_seq' = 0 /\ pc' = pc /\ ~rcu_active /\ ~rcu_active'
    BY <1>1, <2>2, Zenon DEF Counting, SweeperOnly
  <2>6. Counting'
    BY <1>1, <1>3, <2>2, <2>3, <2>5, Zenon DEF Counting, Counts, SweeperOnly
  <2>7. Ordered'
    <3>1. Sorted(<< >>, nmarks, rcuval + 1)
      BY <1>1, <2>2, SortedEmpty, Zenon DEF Ordered
    <3>2. Base' = rcuval + 1
      BY <2>3, Zenon DEF Base
    <3> QED  BY <1>1, <2>2, <2>3, <3>1, <3>2, Zenon DEF Ordered, SweeperOnly
  <2>8. LinkProtected' /\ RefProtected'
    <3>1. Len(rcu_heads') = 0
      BY <2>2, <2>3, SeqFacts, Zenon
    <3> QED  BY <3>1 DEF LinkProtected, RefProtected
  <2>9. Objects' /\ NoUseAfterFree'
    BY <1>1, <1>3, <2>3, Zenon DEF IInv, Objects, Fresh, NoUseAfterFree, SweeperOnly
  <2>10. Ending'
    BY <1>1, <1>3, <2>2, <2>3, <2>5, Zenon DEF Ending
  <2> QED  BY <1>2, <2>4, <2>6, <2>7, <2>8, <2>9, <2>10, Zenon DEF IInv
<1>5. CASE h # << >> /\ Head(h).by = NULL
  <2>1. /\ rcu_heads' = Tail(h) /\ rcu_heads' \in Seq(Entry) /\ Len(h) > 0
        /\ Len(rcu_heads') = Len(h) - 1 /\ Head(h) = h[1] /\ h[1] \in Entry
        /\ 1 \in 1..Len(h)
        /\ \A k \in 1..Len(rcu_heads') : rcu_heads'[k] = h[k + 1] /\ k + 1 \in 1..Len(h)
    <3>1. rcu_heads' = Tail(h) /\ h \in Seq(Entry) /\ h # << >>
      BY <1>1, <1>5, Zenon DEF rcu_main_pop
    <3> QED  BY <3>1, TailFacts
  <2>2. ~end
    BY <1>1, <1>5, Zenon DEF Ending
  <2>3. \/ /\ h[1].type = "NEXT" /\ rcuval' = rcuval + 1 /\ spc' = "wait"
           /\ end' = end /\ UNCHANGED <<freed, rt_freed>>
        \/ /\ h[1].type # "NEXT" /\ rcuval' = rcuval /\ spc' = spc
           /\ end' = (end \/ h[1].type = "END")
           /\ freed' = IF h[1].type = "ITEM" THEN freed \cup {h[1].obj} ELSE freed
           /\ rt_freed' = IF h[1].type = "THREAD" THEN rt_freed \cup {h[1].obj}
                          ELSE rt_freed
    BY <1>1, <1>5, <2>1, <2>2, Zenon DEF rcu_main_pop, NextRound
  <2>4. /\ LinkProtected' /\ RefProtected'
        /\ rcu_heads' # << >> => rcu_heads'[Len(rcu_heads')] = h[Len(h)]
    <3>1. \/ rcuval' = rcuval /\ spc' = spc
          \/ rcuval' = rcuval + 1 /\ spc' = "wait"
      BY <2>3, Zenon
    <3> QED  BY <1>1, <1>5, <2>1, <3>1, TailInv, Zenon
  <2>5. Ordered' /\ Base' = rcuval'
    <3>1. Sorted(Tail(h), nmarks, rcuval + Marks(h[1]))
      BY <1>1, <1>5, SortedTail, Zenon DEF Ordered
    <3>2. rcuval' = rcuval + Marks(h[1]) /\ spc' # "off"
      BY <1>1, <2>3 DEF Marks
    <3>3. Base' = rcuval'
      BY <3>2, Zenon DEF Base
    <3>4. rcu_heads' # << >> /\ rcu_heads'[Len(rcu_heads')].type = "NEXT"
            => \E t \in Threads : pc'[t] \in {"next_link", "rn"}
      BY <1>1, <1>5, <2>4, Zenon DEF Ordered, SweeperOnly
    <3>5. Sorted(rcu_heads', nmarks', Base')
      BY <1>1, <2>1, <3>1, <3>2, <3>3, Zenon DEF SweeperOnly
    <3> QED  BY <3>3, <3>4, <3>5, Zenon DEF Ordered
  <2>6. Counting'
    <3>1. rcu_seq # 0 => rcu_seq > rcuval
      BY <1>1, Zenon DEF Counting
    <3>2. rcu_seq # 0 => rcuval' <= rcu_seq /\ (spc' \in {"threads", "pop"} => rcu_seq > rcuval')
      BY <1>1, <2>3, <3>1
    <3>3. spc' \in {"wait", "pop"}
      BY <1>1, <2>3, Zenon
    <3>4. spc # "off" /\ spc' # "off"
      BY <1>1, <3>3, Zenon
    <3>5. Counts'
      BY <1>1, <1>3, CountsSame, Zenon DEF SweeperOnly
    <3>6. rcu_seq' = rcu_seq /\ pc' = pc /\ pend' = pend /\ rcu_active' = rcu_active
      BY <1>1, Zenon DEF SweeperOnly
    <3> QED  BY <1>1, <1>3, <2>5, <3>2, <3>3, <3>4, <3>5, <3>6, Zenon DEF Counting
  <2>7. h[1].type = "ITEM" =>
          /\ h[1].obj \in Items /\ h[1].obj < ptr
          /\ \A u \in Threads : Retired(u) => pend[u] # h[1].obj
          /\ \A k \in 1..Len(h) : h[k].type = "ITEM" /\ h[k].obj = h[1].obj => k = 1
    BY <1>1, <2>1, Zenon DEF Objects, Fresh
  <2>8. Objects'
    <3>1. freed' \subseteq IF h[1].type = "ITEM" THEN freed \cup {h[1].obj} ELSE freed
      BY <2>3, Zenon
    <3>2. \A i \in freed' : i < ptr
      BY <1>1, <2>7, <3>1, Zenon DEF Objects
    <3>3. ASSUME NEW k \in 1..Len(rcu_heads'), rcu_heads'[k].type = "ITEM"
          PROVE  /\ rcu_heads'[k].obj \in Items /\ rcu_heads'[k].obj < ptr
                 /\ rcu_heads'[k].obj \notin freed'
      <4>1. rcu_heads'[k] = h[k + 1] /\ k + 1 \in 1..Len(h) /\ k + 1 # 1
        BY <1>1, <2>1
      <4>2. /\ h[k + 1].obj \in Items /\ h[k + 1].obj < ptr /\ h[k + 1].obj \notin freed
        BY <1>1, <3>3, <4>1, Zenon DEF Objects, Fresh
      <4>3. h[1].type = "ITEM" => h[k + 1].obj # h[1].obj
        BY <2>7, <3>3, <4>1, Zenon
      <4> QED  BY <3>1, <4>1, <4>2, <4>3, Zenon
    <3>4. \A j, k \in 1..Len(rcu_heads') :
            rcu_heads'[j].type = "ITEM" /\ rcu_heads'[k].type = "ITEM"
              /\ rcu_heads'[j].obj = rcu_heads'[k].obj => j = k
      <4> TAKE j, k \in 1..Len(rcu_heads')
      <4>1. rcu_heads'[j] = h[j + 1] /\ j + 1 \in 1..Len(h)
            /\ rcu_heads'[k] = h[k + 1] /\ k + 1 \in 1..Len(h)
        BY <2>1, Zenon
      <4>2. rcu_heads'[j].type = "ITEM" /\ rcu_heads'[k].type = "ITEM"
              /\ rcu_heads'[j].obj = rcu_heads'[k].obj => j + 1 = k + 1
        BY <1>1, <4>1, Zenon DEF Objects, Fresh
      <4> QED  BY <1>1, <2>1, <4>2
    <3>5. ptr' = ptr /\ pend' = pend /\ refs' = refs
      BY <1>1, Zenon DEF SweeperOnly
    <3>0. \A k \in 1..Len(rcu_heads') : rcu_heads'[k].type = "THREAD"
            => rcu_heads'[k].obj \in Threads
      BY <1>1, <2>1 DEF Objects, Fresh
    <3>6. Fresh(rcu_heads)'
      BY <3>0, <3>3, <3>4, <3>5, Zenon DEF Fresh
    <3>7. ASSUME NEW u \in Threads, Retired(u)
          PROVE  /\ pend[u] < ptr /\ pend[u] \notin freed' /\ pend[u] \notin refs[u]
                 /\ \A k \in 1..Len(rcu_heads') :
                      rcu_heads'[k].type = "ITEM" => rcu_heads'[k].obj # pend[u]
      <4>1. /\ pend[u] < ptr /\ pend[u] \notin freed /\ pend[u] \notin refs[u]
            /\ \A k \in 1..Len(h) : h[k].type = "ITEM" => h[k].obj # pend[u]
        BY <1>1, <3>7, Zenon DEF Objects
      <4>2. pend[u] \notin freed'
        BY <2>7, <3>1, <3>7, <4>1, Zenon
      <4> QED  BY <2>1, <4>1, <4>2, Zenon
    <3> QED  BY <1>1, <1>3, <3>2, <3>5, <3>6, <3>7, Zenon DEF Objects
  <2>9. NoUseAfterFree'
    <3>1. ASSUME NEW u \in Threads, h[1].type = "ITEM", h[1].obj \in refs[u] PROVE FALSE
      <4>1. Protects(u, h[1].epoch)
        BY <2>1, <3>1, Zenon DEF IInv, RefProtected
      <4>2. refs[u] # {}
        BY <3>1, Zenon
      <4>3. h[1].epoch = rcuval
        BY <1>1, <4>2, PopFacts, Zenon
      <4> QED  BY <1>1, <4>1, <4>3 DEF Protects
    <3>2. freed' \subseteq IF h[1].type = "ITEM" THEN freed \cup {h[1].obj} ELSE freed
      BY <2>3, Zenon
    <3> QED  BY <1>1, <3>1, <3>2, Zenon DEF IInv, NoUseAfterFree, SweeperOnly
  <2>10. end' \in BOOLEAN /\ (end' => h[1].type = "END") /\ (h[1].type = "END" => end')
    <3>1. end \in BOOLEAN
      BY <1>1, Zenon DEF TypeOK
    <3>2. CASE h[1].type = "NEXT"
      <4>1. end' = end
        BY <2>3, <3>2, Zenon
      <4> QED  BY <2>2, <3>1, <3>2, <4>1, Zenon
    <3>3. CASE h[1].type # "NEXT"
      <4>1. end' = (end \/ h[1].type = "END")
        BY <2>3, <3>3, Zenon
      <4> QED  BY <2>2, <4>1, Zenon
    <3> QED  BY <3>2, <3>3, Zenon
  <2>11. Ending'
    <3>1. h[1].type = "END" => Len(h) = 1 /\ pc[Main] = "join" /\ rcu_heads' = << >>
      <4>1. h[1].type = "END" => Len(h) = 1 /\ pc[Main] = "join"
        BY <1>1, <2>1, PopFacts, Zenon DEF Ending
      <4> QED  BY <2>1, <4>1, SeqFacts
    <3>2. \A k \in 1..Len(rcu_heads') : rcu_heads'[k].type = "END" =>
            k = Len(rcu_heads') /\ ShuttingDown /\ pc[Main] # "enqueue"
      <4> SUFFICES ASSUME NEW k \in 1..Len(rcu_heads'), rcu_heads'[k].type = "END"
                   PROVE  k = Len(rcu_heads') /\ ShuttingDown /\ pc[Main] # "enqueue"
        OBVIOUS
      <4>1. rcu_heads'[k] = h[k + 1] /\ k + 1 \in 1..Len(h)
        BY <2>1, Zenon
      <4>2. k + 1 = Len(h) /\ ShuttingDown /\ pc[Main] # "enqueue"
        BY <1>1, <4>1, Zenon DEF Ending
      <4>3. Len(h) \in Nat /\ Len(rcu_heads') = Len(h) - 1
        BY <1>1, <2>1, Zenon
      <4> QED  BY <4>2, <4>3
    <3>3. ASSUME ShuttingDown, pc[Main] # "enqueue", ~end'
          PROVE  rcu_heads' # << >> /\ rcu_heads'[Len(rcu_heads')].type = "END"
      <4>1. h[Len(h)].type = "END" /\ h[1].type # "END"
        BY <1>1, <2>2, <2>10, <3>3, Zenon DEF Ending
      <4>2. Len(h) # 1
        BY <4>1, Zenon
      <4>3. Len(rcu_heads') # 0 /\ rcu_heads' # << >>
        <5>1. Len(h) \in Nat /\ Len(rcu_heads') = Len(h) - 1 /\ rcu_heads' \in Seq(Entry)
          BY <1>1, <2>1, Zenon
        <5>2. Len(rcu_heads') # 0
          BY <4>2, <5>1
        <5> QED  BY <5>1, <5>2, SeqFacts, Zenon
      <4> QED  BY <2>4, <4>1, <4>3, Zenon
    <3>4. end' => rcu_heads' = << >> /\ pc[Main] = "join" /\ spc' = "pop"
      <4>1. h[1].type = "END" => spc' = "pop"
        BY <1>1, <2>3, Zenon
      <4> QED  BY <2>10, <3>1, <4>1, Zenon
    <3>5. spc' # "done" /\ pc' = pc
      BY <1>1, <2>3, Zenon DEF SweeperOnly
    <3> QED  BY <1>3, <3>2, <3>3, <3>4, <3>5, Zenon DEF Ending
  <2>12. TypeOK'
    <3>1. spc' \in {"wait", "pop"} /\ rcuval' \in Nat
      BY <1>1, <2>3
    <3>2. freed' \subseteq Items
      BY <1>1, <2>3, <2>7, Zenon DEF TypeOK
    <3>3. rt_freed' \subseteq Threads
      <4>1. h[1].type = "THREAD" => h[1].obj \in Threads
        BY <1>1, <2>1, Zenon DEF Objects, Fresh
      <4>2. rt_freed \subseteq Threads
        BY <1>1, Zenon DEF TypeOK
      <4> QED  BY <2>3, <4>1, <4>2, Zenon
    <3> QED  BY <1>1, <2>1, <2>10, <3>1, <3>2, <3>3, Zenon DEF TypeOK, SweeperOnly, list
  <2> QED
    BY <1>2, <2>4, <2>5, <2>6, <2>8, <2>9, <2>11, <2>12, Zenon DEF IInv
<1> QED  BY <1>4, <1>5, Zenon

-----------------------------------------------------------------------------
(* Counting the threads between their marker and seqlock_bump. *)

\* f lists the members of S, n of them and each once.
Lists(f, n, S) ==
  /\ n \in Nat /\ f \in [1..n -> S]
  /\ \A x \in S : \E i \in 1..n : f[i] = x
  /\ \A i, j \in 1..n : f[i] = f[j] => i = j

\* Each of them owes the counter one step.
Counted == rcu_seq # 0 => \E f : Lists(f, nmarks - rcu_seq, Bumping)

LEMMA ListsAdd ==
  ASSUME NEW f, NEW n, NEW S, Lists(f, n, S), NEW t, t \notin S
  PROVE  \E g : Lists(g, n + 1, S \cup {t})
<1> DEFINE g == [i \in 1..(n + 1) |-> IF i <= n THEN f[i] ELSE t]
<1>1. n \in Nat /\ f \in [1..n -> S]
  BY Zenon DEF Lists
<1>2. g \in [1..(n + 1) -> S \cup {t}]
  BY <1>1
<1>3. ASSUME NEW x \in S \cup {t} PROVE \E i \in 1..(n + 1) : g[i] = x
  <2>1. CASE x = t
    BY <1>1, <2>1
  <2>2. CASE x \in S
    <3>1. PICK i \in 1..n : f[i] = x
      BY <2>2, Zenon DEF Lists
    <3> QED  BY <1>1, <3>1
  <2> QED  BY <2>1, <2>2, Zenon
<1>4. ASSUME NEW i \in 1..(n + 1), NEW j \in 1..(n + 1), g[i] = g[j] PROVE i = j
  <2>1. \A k \in 1..n : f[k] \in S
    BY <1>1, Zenon
  <2> QED  BY <1>1, <1>4, <2>1 DEF Lists
<1> HIDE DEF g
<1> QED  BY <1>1, <1>2, <1>3, <1>4, SMTT(30) DEF Lists

LEMMA ListsNone == \E f : Lists(f, 0, {})
<1>1. Lists(<< >>, 0, {})
  BY DEF Lists
<1> QED  BY <1>1, Zenon

\* The last one takes the place of the one that leaves.
LEMMA ListsRemove ==
  ASSUME NEW f, NEW n, NEW S, Lists(f, n, S), NEW t \in S
  PROVE  n # 0 /\ \E g : Lists(g, n - 1, S \ {t})
<1> DEFINE g == [i \in 1..(n - 1) |-> IF f[i] = t THEN f[n] ELSE f[i]]
<1>1. n \in Nat /\ f \in [1..n -> S]
  BY Zenon DEF Lists
<1>2. PICK k \in 1..n : f[k] = t
  BY Zenon DEF Lists
<1>3. n - 1 \in Nat /\ n \in 1..n /\ \A i \in 1..(n - 1) : i \in 1..n /\ i # n
  BY <1>1, <1>2
<1>4. \A i, j \in 1..n : f[i] = f[j] => i = j
  BY Zenon DEF Lists
<1>5. ASSUME NEW i \in 1..(n - 1) PROVE g[i] \in S \ {t}
  BY <1>1, <1>3, <1>4, <1>5, Zenon
<1>6. g \in [1..(n - 1) -> S \ {t}]
  BY <1>5, Zenon
<1>7. ASSUME NEW x \in S \ {t} PROVE \E i \in 1..(n - 1) : g[i] = x
  <2>1. PICK i \in 1..n : f[i] = x
    BY Zenon DEF Lists
  <2>2. CASE i = n
    <3>1. k # n /\ k \in 1..(n - 1)
      BY <1>1, <1>2, <2>1, <2>2
    <3> QED  BY <1>2, <2>1, <2>2, <3>1, Zenon
  <2>3. CASE i # n
    <3>1. i \in 1..(n - 1)
      BY <1>1, <2>3
    <3> QED  BY <2>1, <3>1, Zenon
  <2> QED  BY <2>2, <2>3, Zenon
<1>8. ASSUME NEW i \in 1..(n - 1), NEW j \in 1..(n - 1), g[i] = g[j] PROVE i = j
  BY <1>3, <1>4, <1>8, Zenon
<1> HIDE DEF g
<1> QED  BY <1>1, <1>2, <1>3, <1>6, <1>7, <1>8 DEF Lists

LEMMA ListsBound ==
  ASSUME NEW a \in Nat, NEW b \in Nat, NEW f, NEW S, Lists(f, b - a, S)
  PROVE  a <= b /\ (S # {} => a < b)
<1>1. b - a \in Nat /\ \A x \in S : \E i \in 1..(b - a) : f[i] = x
  BY Zenon DEF Lists
<1>2. S # {} => \E i \in 1..(b - a) : TRUE
  BY <1>1, Zenon
<1> QED  BY <1>1, <1>2

LEMMA CountedStep ==
  ASSUME IInv, Joining, Counted, [Next]_vars
  PROVE  Counted'
<1>1. TypeOK /\ Counting /\ rcu_seq \in Nat /\ nmarks \in Nat
  BY Zenon DEF IInv, TypeOK
<1>3. ASSUME Kept PROVE Counted'
  BY <1>3, Zenon DEF Kept, Counted
<1>4. ASSUME NEW t \in Threads, rcu_bump_next(t) PROVE Counted'
  <2>1. \A u \in Threads : pc'[u] = IF u = t THEN "next_link" ELSE pc[u]
    BY <1>1, <1>4, Zenon DEF rcu_bump_next, Goto, TypeOK
  <2>2. Bumping' = Bumping \cup {t} /\ t \notin Bumping
    BY <1>4, <2>1, Zenon DEF Bumping, BumpLabels, rcu_bump_next
  <2>3. nmarks' = nmarks + 1 /\ rcu_seq' = rcu_seq
    BY <1>4, Zenon DEF rcu_bump_next, AddTail, counters
  <2>4. nmarks' - rcu_seq' = (nmarks - rcu_seq) + 1
    BY <1>1, <2>3
  <2> SUFFICES ASSUME rcu_seq # 0
               PROVE  \E g : Lists(g, nmarks' - rcu_seq', Bumping')
    BY <2>3, Zenon DEF Counted
  <2>5. PICK f : Lists(f, nmarks - rcu_seq, Bumping)
    BY Zenon DEF Counted
  <2>6. \E g : Lists(g, (nmarks - rcu_seq) + 1, Bumping \cup {t})
    BY <2>2, <2>5, ListsAdd, Zenon
  <2> QED  BY <2>2, <2>4, <2>6, Zenon
<1>5. ASSUME NEW t \in Threads, seqlock_bump(t) PROVE Counted'
  <2>0. ~Gone(t) /\ pc[t] = "bump"
    BY <1>5, Zenon DEF Gone, seqlock_bump
  <2>1. rcu_seq # 0 /\ ret[t] \in {"lock", "unlock", "end"}
    <3>1. Places(t) /\ ret[t] \in Calls
      BY <1>1, Zenon DEF IInv, TypeOK
    <3>2. ret[t] \in {"lock", "unlock", "end"}
      BY <2>0, <3>1, Zenon DEF Places, Calls
    <3> QED  BY <1>1, <2>0, <3>2, Running, Zenon
  <2>2. PICK l \in {"load", "release", "free"} : Goto(t, l)
    BY <1>5, <2>1, Zenon DEF seqlock_bump, Return
  <2>3. \A u \in Threads : pc'[u] = IF u = t THEN l ELSE pc[u]
    BY <1>1, <2>2, Zenon DEF Goto, TypeOK
  <2>4. Bumping' = Bumping \ {t} /\ t \in Bumping
    BY <2>0, <2>2, <2>3, Zenon DEF Bumping, BumpLabels
  <2>5. nmarks' = nmarks /\ rcu_seq' = rcu_seq + 1
    BY <1>5, Zenon DEF seqlock_bump, queue
  <2>6. nmarks' - rcu_seq' = (nmarks - rcu_seq) - 1
    BY <1>1, <2>5
  <2>7. PICK f : Lists(f, nmarks - rcu_seq, Bumping)
    BY <2>1, Zenon DEF Counted
  <2>8. \E g : Lists(g, (nmarks - rcu_seq) - 1, Bumping \ {t})
    BY <2>4, <2>7, ListsRemove, Zenon
  <2> QED  BY <2>4, <2>6, <2>8, Zenon DEF Counted
<1>6. ASSUME Shutdown PROVE Counted'
  <2>1. CASE rcu_shutdown
    BY <1>1, <1>3, <2>1, KeptStep, Consts, Zenon DEF rcu_shutdown, Kept, counters, queue, BumpLabels
  <2>2. CASE rcu_shutdown_release
    BY <1>1, <1>3, <2>2, KeptStep, Consts, Zenon
    DEF rcu_shutdown_release, Kept, counters, queue, BumpLabels
  <2>3. CASE rcu_shutdown_stop
    BY <2>3, Zenon DEF rcu_shutdown_stop, Counted
  <2>4. CASE rcu_shutdown_join
    <3>1. \A u \in Threads \ {Main} : Gone(u)
      BY <1>1, <2>4, Zenon DEF rcu_shutdown_join, Counting, ShuttingDown
    <3>2. \A u \in Threads : pc'[u] = IF u = Main THEN "run" ELSE pc[u]
      BY <1>1, <2>4, Zenon DEF rcu_shutdown_join, Goto, TypeOK
    <3>3. Bumping' = {}
      BY <3>1, <3>2, Zenon DEF Bumping, BumpLabels, Gone
    <3>4. rcu_seq' # 0 => nmarks' - rcu_seq' = 0
      BY <1>1, <2>4 DEF rcu_shutdown_join, STARTVAL
    <3> QED  BY <3>3, <3>4, ListsNone, Zenon DEF Counted
  <2> QED  BY <1>6, <2>1, <2>2, <2>3, <2>4, Zenon DEF Shutdown
<1>7. ASSUME rcu_main \/ UNCHANGED vars PROVE Counted'
  <2>1. pc' = pc /\ nmarks' = nmarks /\ rcu_seq' = rcu_seq
    BY <1>7, Zenon DEF rcu_main, rcu_main_wait, rcu_main_thread, rcu_main_pop, SweeperOnly,
       vars, counters, queue
  <2> QED  BY <1>3, <2>1, Zenon DEF Kept, Bumping
<1>8. ASSUME NEW t \in Threads, Inside(t) PROVE Counted'
  <2>1. Places(t)
    BY Zenon DEF IInv
  <2>2. ASSUME rcu_thread_start(t) PROVE Kept
    <3>1. /\ pc[t] \in {"enlist", "born"} /\ adder[t] \in Threads
          /\ adder[t] # t => pc[adder[t]] = "spawn"
          /\ \A w \in Threads : pc'[w] = IF w \in {t, adder[t]} THEN "run" ELSE pc[w]
      BY <1>1, <2>2, StartPlaces, Zenon
    <3>2. Bumping' = Bumping
      BY <3>1, Zenon DEF Bumping, BumpLabels
    <3> QED  BY <2>2, <3>2, Zenon DEF rcu_thread_start, Kept, counters, queue
  <2> QED  BY <1>1, <1>3, <1>4, <1>5, <1>8, <2>1, <2>2, KeptInside, Zenon
<1>9. ASSUME NEW t \in Threads, Call(t) PROVE Counted'
  BY <1>1, <1>3, <1>9, KeptCall, Zenon
<1> QED  BY <1>6, <1>7, <1>8, <1>9, Zenon DEF Next

-----------------------------------------------------------------------------
(* The other steps leave the threads that are being added alone. *)

Joins == {"new", "register", "enlist", "born", "spawn"}

LEMMA JoinSame ==
  ASSUME Joining, UNCHANGED <<last, adder, up, pc>>
  PROVE  Joining'
BY Zenon DEF Joining, HalfLinked

LEMMA BornParent ==
  ASSUME TypeOK, Joining, NEW w \in Threads, pc[w] = "born"
  PROVE  pc[adder[w]] = "spawn" /\ adder[w] \in Threads
<1>1. HalfLinked(w) /\ pc[adder[w]] = "spawn"
  BY Zenon DEF Joining
<1> QED  BY <1>1, Zenon DEF HalfLinked, TypeOK

LEMMA JoinKept ==
  ASSUME TypeOK, Joining, UNCHANGED list, NEW t \in Threads, NEW l, Goto(t, l),
         pc[t] \notin Joins, l \notin Joins
  PROVE  Joining'
<1>1. UNCHANGED <<last, adder, up>>
  BY Zenon DEF list
<1>2. \A w \in Threads : pc'[w] = IF w = t THEN l ELSE pc[w]
  BY Zenon DEF Goto, TypeOK
<1>3. \A w \in Threads, j \in Joins : pc'[w] = j <=> pc[w] = j
  BY <1>2, Zenon
<1>4. \A w \in Threads : HalfLinked(w)' <=> HalfLinked(w)
  BY <1>1, Zenon DEF HalfLinked
<1>5. last # NULL => pc'[last] \notin {"new", "register"}
  BY <1>3, Zenon DEF Joining, Joins, TypeOK
<1>6. \A w \in Threads : HalfLinked(w) <=> pc'[w] \in {"born", "enlist"}
  BY <1>3, Zenon DEF Joining, Joins
<1>7. \A w \in Threads : pc'[w] = "enlist" <=> adder[w] = w
  BY <1>3, Zenon DEF Joining, Joins
<1>8. \A w \in Threads : pc'[w] = "born" => pc'[adder[w]] = "spawn"
  <2> SUFFICES ASSUME NEW w \in Threads, pc'[w] = "born"
               PROVE  pc'[adder[w]] = "spawn"
    BY Zenon
  <2>1. pc[w] = "born" /\ pc[adder[w]] = "spawn" /\ adder[w] \in Threads
    BY <1>3, BornParent, Zenon DEF Joins
  <2> QED  BY <1>3, <2>1, Zenon DEF Joins
<1> QED  BY <1>1, <1>4, <1>5, <1>6, <1>7, <1>8, Zenon DEF Joining

LEMMA JoinInside ==
  ASSUME TypeOK, Joining, NEW t \in Threads, Places(t), Inside(t),
         ~rcu_thread_register(t), ~rcu_thread_start(t), ~rcu_threads_del(t)
  PROVE  Joining'
<1> USE DEF Joins
<1>1. CASE seqlock_cur(t)
  BY <1>1, JoinKept, Zenon DEF seqlock_cur
<1>2. CASE seqlock_acquire_val(t)
  <2>1. PICK l \in {"maybe", "run", "next"} : Goto(t, l)
    BY <1>2, Zenon DEF seqlock_acquire_val, Places
  <2> QED  BY <1>2, <2>1, JoinKept, Zenon DEF seqlock_acquire_val
<1>3. CASE rcu_bump_maybe(t)
  BY <1>3, JoinKept, Zenon DEF rcu_bump_maybe
<1>4. CASE rcu_bump_compare(t)
  <2>1. PICK l \in {"next", "load", "release"} : Goto(t, l)
    BY <1>4, Zenon DEF rcu_bump_compare, Return, Places
  <2> QED  BY <1>4, <2>1, JoinKept, Zenon DEF rcu_bump_compare
<1>5. CASE rcu_bump_next(t) \/ rcu_bump_free(t)
  BY <1>5, JoinKept, Zenon DEF rcu_bump_next, rcu_bump_free
<1>6. CASE seqlock_bump(t)
  <2>1. ret[t] \in {"lock", "unlock", "end"}
    BY <1>6, Zenon DEF seqlock_bump, Places, TypeOK, Calls
  <2>2. PICK l \in {"load", "release", "free"} : Goto(t, l)
    BY <1>6, <2>1, Zenon DEF seqlock_bump, Return
  <2> QED  BY <1>6, <2>2, JoinKept, Zenon DEF seqlock_bump
<1>7. CASE atomlist_link(t)
  <2>1. PICK l \in {"rn", "bump", "dirty_load", "del"} : Goto(t, l)
    BY <1>7, Zenon DEF atomlist_link
  <2> QED  BY <1>7, <2>1, JoinKept, Zenon DEF atomlist_link
<1>8. CASE seqlock_release(t)
  <2>1. PICK l \in {"ended", "run"} : Goto(t, l)
    BY <1>8, Zenon DEF seqlock_release
  <2> QED  BY <1>8, <2>1, JoinKept, Zenon DEF seqlock_release
<1>9. CASE rcu_enqueue(t)
  <2>1. PICK l \in {"run", "item_link"} : Goto(t, l)
    BY <1>9, Zenon DEF rcu_enqueue
  <2> QED  BY <1>9, <2>1, JoinKept, Zenon DEF rcu_enqueue
<1>10. CASE rcu_dirty_load(t)
  BY <1>10, JoinKept, Zenon DEF rcu_dirty_load
<1>11. CASE rcu_dirty_store(t)
  <2>1. PICK l \in {"shut", "run"} : Goto(t, l)
    BY <1>11, Zenon DEF rcu_dirty_store
  <2> QED  BY <1>11, <2>1, JoinKept, Zenon DEF rcu_dirty_store
<1>12. CASE rcu_thread_free(t)
  BY <1>12, JoinKept, Zenon DEF rcu_thread_free
<1> QED
  BY <1>1, <1>2, <1>3, <1>4, <1>5, <1>6, <1>7, <1>8, <1>9, <1>10, <1>11, <1>12, Zenon
  DEF Inside

\* A thread that leaves the list is nobody's predecessor any more.
LEMMA JoinDel ==
  ASSUME TypeOK, Joining, NEW t \in Threads, rcu_threads_del(t)
  PROVE  Joining'
<1>1. \A w \in Threads : pc'[w] = IF w = t THEN "release" ELSE pc[w]
  BY Zenon DEF rcu_threads_del, Goto, TypeOK
<1>2. pc[t] = "del" /\ adder' = adder /\ last' \in {NULL, last}
  BY Zenon DEF rcu_threads_del, ThreadsDel
<1>3. \A w \in Threads : up'[w] \in {NULL, up[w]}
  BY Zenon DEF rcu_threads_del, ThreadsDel
<1>4. \A w \in Threads : HalfLinked(w)' <=> HalfLinked(w)
  BY <1>2, Zenon DEF HalfLinked
<1>5. last' # NULL => pc'[last'] \notin {"new", "register"}
  BY <1>1, <1>2, Zenon DEF Joining, TypeOK
<1>6. \A w \in Threads : HalfLinked(w) <=> pc'[w] \in {"born", "enlist"}
  BY <1>1, <1>2, Zenon DEF Joining
<1>7. \A w \in Threads : pc'[w] = "enlist" <=> adder[w] = w
  BY <1>1, <1>2, Zenon DEF Joining
<1>8. \A w \in Threads : pc'[w] = "born" => pc'[adder[w]] = "spawn"
  <2> SUFFICES ASSUME NEW w \in Threads, pc'[w] = "born"
               PROVE  pc'[adder[w]] = "spawn"
    BY Zenon
  <2>1. pc[w] = "born" /\ pc[adder[w]] = "spawn" /\ adder[w] \in Threads
    BY <1>1, BornParent, Zenon
  <2> QED  BY <1>1, <1>2, <2>1, Zenon
<1>9. \A w \in Threads : up'[w] # NULL => HalfLinked(w) /\ up'[w] # w
  BY <1>3, Zenon DEF Joining
<1> QED  BY <1>2, <1>4, <1>5, <1>6, <1>7, <1>8, <1>9, Zenon DEF Joining

\* rcu_thread_new, up to the load of rcu_seq.
LEMMA JoinNew ==
  ASSUME TypeOK, Joining, NEW u \in Threads, rcu_thread_new(u)
  PROVE  Joining'
<1>1. \A w \in Threads : pc'[w] = IF w = u THEN "register" ELSE pc[w]
  BY Zenon DEF rcu_thread_new, Goto, TypeOK
<1>2. pc[u] = "new" /\ UNCHANGED <<last, adder, up>>
  BY Zenon DEF rcu_thread_new, list
<1>3. \A w \in Threads : HalfLinked(w)' <=> HalfLinked(w)
  BY <1>2, Zenon DEF HalfLinked
<1>4. last # NULL => pc'[last] \notin {"new", "register"}
  BY <1>1, <1>2, Zenon DEF Joining, TypeOK
<1>5. \A w \in Threads : HalfLinked(w) <=> pc'[w] \in {"born", "enlist"}
  BY <1>1, <1>2, Zenon DEF Joining
<1>6. \A w \in Threads : pc'[w] = "enlist" <=> adder[w] = w
  BY <1>1, <1>2, Zenon DEF Joining
<1>7. \A w \in Threads : pc'[w] = "born" => pc'[adder[w]] = "spawn"
  <2> SUFFICES ASSUME NEW w \in Threads, pc'[w] = "born"
               PROVE  pc'[adder[w]] = "spawn"
    BY Zenon
  <2>1. pc[w] = "born" /\ pc[adder[w]] = "spawn" /\ adder[w] \in Threads
    BY <1>1, BornParent, Zenon
  <2> QED  BY <1>1, <1>2, <2>1, Zenon
<1> QED  BY <1>2, <1>3, <1>4, <1>5, <1>6, <1>7, Zenon DEF Joining

LEMMA JoiningStep ==
  ASSUME IInv, Joining, MaxRegistering = 1, [Next]_vars
  PROVE  Joining'
<1> USE DEF Joins
<1>1. TypeOK /\ Main \in Threads /\ \A t \in Threads : Places(t)
  BY Consts, Zenon DEF IInv
<1>2. ASSUME NEW t \in Threads, Inside(t) PROVE Joining'
  BY <1>1, <1>2, JoinInside, JoinDel, RegisterStep, StartPlaces, Zenon
<1>3. ASSUME NEW t \in Threads, Call(t) PROVE Joining'
  <2>1. CASE rcu_read_lock(t) \/ rcu_read_unlock(t)
    <3>1. UNCHANGED list /\ pc[t] = "run" /\ (pc' = pc \/ \E l \in {"load", "maybe"} : Goto(t, l))
      BY <2>1, Zenon DEF rcu_read_lock, rcu_read_unlock
    <3>2. CASE pc' = pc
      BY <3>1, <3>2, JoinSame, Zenon DEF list
    <3>3. CASE \E l \in {"load", "maybe"} : Goto(t, l)
      BY <1>1, <3>1, <3>3, JoinKept, Zenon
    <3> QED  BY <3>1, <3>2, <3>3, Zenon
  <2>2. CASE Access(t)
    BY <2>2, JoinSame, Zenon DEF Access, list
  <2>3. CASE Replace(t) \/ rcu_thread_unprepare(t)
    BY <1>1, <2>3, JoinKept, Zenon DEF Replace, rcu_thread_unprepare
  <2> QED  BY <1>1, <1>3, <2>1, <2>2, <2>3, JoinNew, PrepareStep, Zenon DEF Call
<1>4. ASSUME Shutdown PROVE Joining'
  BY <1>1, <1>4, JoinKept, Zenon DEF Shutdown, rcu_shutdown, rcu_shutdown_release,
     rcu_shutdown_stop, rcu_shutdown_join
<1>5. ASSUME rcu_main \/ UNCHANGED vars PROVE Joining'
  <2>1. UNCHANGED <<last, adder, up, pc>>
    BY <1>5, Zenon DEF rcu_main, rcu_main_wait, rcu_main_thread, rcu_main_pop, SweeperOnly,
       vars, list
  <2> QED  BY <2>1, JoinSame, Zenon
<1> QED  BY <1>2, <1>3, <1>4, <1>5, Zenon DEF Next

-----------------------------------------------------------------------------
(* The theorems. *)

LEMMA NextInv ==
  ASSUME IInv, Joining, Counted, MaxRegistering = 1, [Next]_vars
  PROVE  IInv' /\ Joining' /\ Counted'
<1>0. Joining' /\ Counted'
  BY CountedStep, JoiningStep, Zenon
<1>1. ASSUME NEW t \in Threads, Inside(t) PROVE IInv'
  <2>1. ASSUME seqlock_bump(t) PROVE IInv'
    <3>1. rcu_seq' \in Nat
      BY <2>1 DEF seqlock_bump, IInv, TypeOK
    \* The conjunct of the invariant that BumpStep leaves to Counted.
    <3>2. ASSUME rcu_seq' # 0
          PROVE  rcu_seq' <= nmarks' /\ (Bumping' # {} => rcu_seq' < nmarks')
      <4>1. PICK f : Lists(f, nmarks' - rcu_seq', Bumping')
        BY <1>0, <3>2, Zenon DEF Counted
      <4>2. nmarks' \in Nat
        BY <2>1, Zenon DEF seqlock_bump, queue, IInv, TypeOK
      <4> QED  BY <3>1, <4>1, <4>2, ListsBound, Zenon
    <3>3. Counts'
      BY <3>2, Zenon DEF Counts
    <3> QED  BY <2>1, <3>3, BumpStep, Zenon
  <2> QED
    BY <1>1, <2>1, CurStep, AcquireStep, MaybeStep, CompareStep, NextStep, BumpFreeStep,
       LinkStep, ReleaseStep, EnqueueStep, DirtyLoadStep, DirtyStoreStep,
       RegisterStep, StartStep, ThreadFreeStep, DelStep, Zenon DEF Inside
<1>2. ASSUME NEW t \in Threads, Call(t) PROVE IInv'
  BY <1>2, LockStep, UnlockStep, AccessStep, ReplaceStep, PrepareStep, NewStep,
     UnprepareStep, Zenon DEF Call
<1>3. ASSUME Shutdown PROVE IInv'
  BY <1>3, ShutdownStep, ShutReleaseStep, StopStep, JoinStep, Zenon DEF Shutdown
<1>4. ASSUME rcu_main PROVE IInv'
  BY <1>4, WaitStep, ThreadStep, PopStep, Zenon DEF rcu_main
<1>5. ASSUME UNCHANGED vars PROVE IInv'
  BY <1>5, StutterInv, Zenon
<1> QED  BY <1>0, <1>1, <1>2, <1>3, <1>4, <1>5, Zenon DEF Next

LEMMA InvAlways ==
  ASSUME MaxRegistering = 1
  PROVE  Spec => [](IInv /\ Joining /\ Counted)
<1>1. Init => IInv /\ Joining /\ Counted
  <2> SUFFICES ASSUME Init PROVE IInv /\ Joining /\ Counted
    OBVIOUS
  <2>1. Bumping = {}
    BY Zenon DEF Bumping, BumpLabels, Init
  <2>2. nmarks - rcu_seq = 0
    BY DEF Init, STARTVAL
  <2>3. Counted
    BY <2>1, <2>2, ListsNone, Zenon DEF Counted
  <2>4. /\ last = Main /\ pc[Main] = "run"
        /\ \A w \in Threads : /\ adder[w] = NULL /\ up[w] = NULL
                              /\ pc[w] \in {"run", "new"}
    BY Consts, Zenon DEF Init
  <2>5. Joining
    BY <2>4, Consts, Zenon DEF Joining, HalfLinked
  <2> QED  BY <2>3, <2>5, InitInv, Zenon
<1>2. IInv /\ Joining /\ Counted /\ [Next]_vars => (IInv /\ Joining /\ Counted)'
  BY NextInv, Zenon
<1> QED  BY <1>1, <1>2, PTL DEF Spec

\* Every variable of the library keeps its type; in particular rt->depth never
\* goes below zero.
THEOREM TypeCorrect ==
  ASSUME MaxRegistering = 1
  PROVE  Spec => []TypeOK
<1>1. IInv => TypeOK
  BY Zenon DEF IInv
<1> QED  BY <1>1, InvAlways, PTL

\* Whatever the number of threads, and however their reads, bumps, retirements
\* and ends interleave with the sweeper and with the two halves of the one
\* rcu_threads_add_tail that runs at a time, rcu_do never frees an object that a
\* thread found under rcu_read_lock and may still look at.  With two of them at a
\* time it may: the run bad_rcu.
THEOREM ReadersAreSafe ==
  ASSUME MaxRegistering = 1
  PROVE  Spec => []NoUseAfterFree
<1>1. IInv => NoUseAfterFree
  BY Zenon DEF IInv
<1> QED  BY <1>1, InvAlways, PTL

\* The two conditions rcu_bump's comments call important: rcu_main never pops
\* the last entry of the queue, nor one that atomlist_add_tail has still to link.
THEOREM PopsAreSafe ==
  ASSUME MaxRegistering = 1
  PROVE  Spec => []PopSafe
<1>1. ASSUME IInv PROVE PopSafe
  <2>1. spc = "pop" /\ rcu_active => pc[Main] # "join"
    BY <1>1, Zenon DEF IInv, Counting
  <2> QED  BY <1>1, <2>1, PopFacts, Zenon DEF PopSafe
<1> QED  BY <1>1, InvAlways, PTL

\* The assertion at the end of rcu_main holds: RCUA_END is the last entry.
THEOREM EndIsLast ==
  ASSUME MaxRegistering = 1
  PROVE  Spec => []EndEmpty
<1>1. ASSUME IInv PROVE EndEmpty
  BY <1>1, Zenon DEF IInv, Ending, EndEmpty
<1> QED  BY <1>1, InvAlways, PTL

=============================================================================
