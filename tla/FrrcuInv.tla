------------------------------ MODULE FrrcuInv ------------------------------
(***************************************************************************)
(* Proofs about Frrcu for any number of threads and objects: the           *)
(* inductive invariant, lemmas about the queue, the epochs and the threads *)
(* that the proofs of its preservation share, the steps that add to the    *)
(* queue and link what was added, and the steps of rcu_read_lock,          *)
(* rcu_read_unlock, seqlock_acquire, rcu_bump and rcu_enqueue that touch   *)
(* only the thread's own state or the counter.                             *)
(***************************************************************************)
EXTENDS Frrcu, TLAPS

-----------------------------------------------------------------------------
(* The inductive invariant. *)

BumpLabels == {"next_link", "rn", "rn_link", "bump"}
Linking == {"next_link", "rn_link", "item_link", "free_link"}
Retiring == {"enqueue", "item_link", "dirty_load", "dirty_store"}
Gone(t) == pc[t] \in {"new", "ended"}

\* Where a thread can be, and what it holds there.
Places(t) ==
  /\ pc[t] \in {"load", "store"} => ret[t] \in {"lock", "relock", "end"}
  /\ pc[t] \in {"maybe", "compare"} => ret[t] \in {"lock", "unlock"}
  /\ pc[t] \in {"next", "next_link", "rn", "rn_link", "bump"} => ret[t] # "relock"
  /\ pc[t] = "release" => ret[t] \in {"unlock", "end"}
  /\ pc[t] \in {"free", "free_link", "del"} => ret[t] = "end"
  /\ pc[t] \in {"shut", "stop", "join"} => t = Main
  /\ t = Main => /\ pc[t] \notin {"new", "register", "enlist", "born", "ended"}
                 /\ ret[t] # "end"
  /\ t \in rcu_threads <=> ~(\/ pc[t] \in {"new", "register", "enlist", "born", "ended"}
                             \/ (pc[t] = "release" /\ ret[t] = "end"))
  /\ pend[t] # NULL <=> pc[t] \in Retiring
  /\ pend[t] = END => t = Main
  /\ refs[t] # {} => pc[t] \in {"run", "spawn"} \cup Retiring
  /\ refs[t] # {} \/ pc[t] \in Retiring => depth[t] > 0
  /\ pend[t] = END => refs[t] = {}

Holding(t) ==
  /\ \/ pc[t] = "run" /\ depth[t] > 0
     \/ pc[t] \in Retiring
     \/ pc[t] \in {"maybe", "compare", "next", "next_link", "rn", "rn_link",
                   "bump", "free", "free_link", "del", "release", "shut", "spawn"}
     \/ pc[t] = "load" /\ ret[t] = "relock"
     => rcu[t] > 0
  /\ ret[t] = "unlock" /\ pc[t] \in {"maybe", "compare", "next", "next_link", "rn",
                                      "rn_link", "bump", "release"} => depth[t] = 0
  /\ pc[t] \in {"store", "register", "enlist"} => reg[t] > 0 /\ reg[t] <= rcu_seq
  /\ pc[t] \in {"new", "ended"} => rcu[t] = 0
  /\ rcu_seq # 0 => rcu[t] <= rcu_seq

\* The oldest epoch still on the queue.
Base == IF spc = "off" THEN STARTVAL ELSE rcuval

\* The threads that have queued a marker and have still to move the counter.
Bumping == {t \in Threads : pc[t] \in BumpLabels}

\* The counter lags behind the markers while there are any.  This conjunct is
\* inductive only together with Counted of FrrcuProofs, which says by how much.
Counts == rcu_seq # 0 => rcu_seq <= nmarks /\ (Bumping # {} => rcu_seq < nmarks)

Counting ==
  /\ Counts
  /\ rcu_seq = 0 <=> pc[Main] = "join"
  /\ rcu_seq # 0 => Base <= rcu_seq
  /\ spc \in {"threads", "pop"} /\ rcu_seq # 0 => rcu_seq > rcuval
  /\ rcu_active => spc \in {"wait", "threads", "pop"} /\ pc[Main] # "join"
  /\ ~rcu_active => \A t \in Threads \ {Main} : Gone(t)
  /\ ~rcu_active /\ pc[Main] # "join" => spc = "off"
  /\ pc[Main] = "join" => spc # "off"
  /\ pc[Main] \in {"shut", "stop"} => rcu_active
  /\ pend[Main] = END => rcu_active
  /\ ~rcu_active => pc[Main] \notin {"item_link", "dirty_load", "dirty_store"}
  /\ ShuttingDown => \A t \in Threads \ {Main} : Gone(t)

Marks(x) == IF x.type = "NEXT" THEN 1 ELSE 0

\* Queue h has the markers of epochs b to m - 1, in order, each behind the
\* entries of its epoch.
Sorted(h, m, b) ==
  /\ \A k \in 1..Len(h) : b <= h[k].epoch /\ h[k].epoch + Marks(h[k]) <= m
  /\ \A j, k \in 1..Len(h) : j < k => h[j].epoch + Marks(h[j]) <= h[k].epoch
  /\ h # << >> => h[Len(h)].epoch + Marks(h[Len(h)]) = m
  /\ \A e \in b..(m - 1) :
       \E k \in 1..Len(h) : h[k].type = "NEXT" /\ h[k].epoch = e

\* A marker is last only while its thread has still to queue the rcu_next.
Ordered ==
  /\ Sorted(rcu_heads, nmarks, Base)
  /\ rcu_heads # << >> /\ rcu_heads[Len(rcu_heads)].type = "NEXT"
       => \E t \in Threads : pc[t] \in {"next_link", "rn"}

\* The sweeper cannot reach the pops of epoch e before t lets go.
Protects(t, e) ==
  /\ t \in rcu_threads /\ rcu[t] > 0 /\ rcu[t] <= e
  /\ \/ e > rcuval \/ spc \in {"off", "wait"}
     \/ spc = "threads" /\ (t = cur \/ t \in todo)

\* The thread that has still to link an entry protects it, and the marker
\* before it.
LinkProtected ==
  \A k \in 1..Len(rcu_heads) : rcu_heads[k].by # NULL =>
    /\ pc[rcu_heads[k].by] \in Linking
    /\ Protects(rcu_heads[k].by, rcu_heads[k].epoch)
    /\ k > 1 /\ rcu_heads[k - 1].type = "NEXT"
         => Protects(rcu_heads[k].by, rcu_heads[k - 1].epoch)

\* A thread protects the objects it looks at.
RefProtected ==
  \A t \in Threads, k \in 1..Len(rcu_heads) :
    rcu_heads[k].type = "ITEM" /\ rcu_heads[k].obj \in refs[t]
      => Protects(t, rcu_heads[k].epoch)

\* Queued items are different, none is freed or the current one.
Fresh(h) ==
  /\ \A k \in 1..Len(h) : h[k].type = "ITEM" =>
       h[k].obj \in Items /\ h[k].obj < ptr /\ h[k].obj \notin freed
  /\ \A k \in 1..Len(h) : h[k].type = "THREAD" => h[k].obj \in Threads
  /\ \A j, k \in 1..Len(h) :
       h[j].type = "ITEM" /\ h[k].type = "ITEM" /\ h[j].obj = h[k].obj => j = k

Retired(t) == pc[t] = "enqueue" /\ pend[t] # END

Objects ==
  /\ Fresh(rcu_heads)
  /\ \A i \in freed : i < ptr
  /\ \A t \in Threads : \A i \in refs[t] : i <= ptr
  /\ \A t \in Threads : Retired(t) =>
       /\ pend[t] < ptr /\ pend[t] \notin freed /\ pend[t] \notin refs[t]
       /\ \A k \in 1..Len(rcu_heads) :
            rcu_heads[k].type = "ITEM" => rcu_heads[k].obj # pend[t]
  /\ \A t, u \in Threads : Retired(t) /\ Retired(u) /\ pend[u] = pend[t] => u = t

Ending ==
  /\ \A k \in 1..Len(rcu_heads) : rcu_heads[k].type = "END" =>
       k = Len(rcu_heads) /\ ShuttingDown /\ pc[Main] # "enqueue"
  /\ ShuttingDown /\ pc[Main] # "enqueue" /\ ~end
       => rcu_heads # << >> /\ rcu_heads[Len(rcu_heads)].type = "END"
  /\ end => \/ rcu_heads = << >> /\ pc[Main] = "join" /\ spc \in {"pop", "done"}
            \/ spc = "off"
  /\ spc = "done" => end

IInv ==
  /\ TypeOK /\ (\A t \in Threads : Places(t) /\ Holding(t))
  /\ Counting /\ Ordered /\ LinkProtected /\ RefProtected /\ Objects
  /\ NoUseAfterFree /\ Ending

\* One thread at a time is half added to the list: it is in "born", and its parent
\* in "spawn", or it is in "enlist" and adds itself.
Joining ==
  /\ \A v, w \in Threads : HalfLinked(v) /\ HalfLinked(w) => v = w
  /\ \A w \in Threads : up[w] # NULL => HalfLinked(w) /\ up[w] # w
  /\ last # NULL => pc[last] \notin {"new", "register"}
  /\ \A w \in Threads : HalfLinked(w) <=> pc[w] \in {"born", "enlist"}
  /\ \A w \in Threads : pc[w] = "enlist" <=> adder[w] = w
  /\ \A w \in Threads : pc[w] = "born" => pc[adder[w]] = "spawn"

-----------------------------------------------------------------------------
(* The queue. *)

LEMMA SeqFacts ==
  ASSUME NEW h \in Seq(Entry)
  PROVE  /\ Len(h) \in Nat /\ DOMAIN h = 1..Len(h)
         /\ \A k \in 1..Len(h) : h[k] \in Entry
         /\ h = << >> <=> Len(h) = 0
OBVIOUS

LEMMA AppendFacts ==
  ASSUME NEW h \in Seq(Entry), NEW x \in Entry
  PROVE  /\ Append(h, x) \in Seq(Entry)
         /\ Len(Append(h, x)) = Len(h) + 1
         /\ \A k \in 1..Len(h) : Append(h, x)[k] = h[k]
         /\ Append(h, x)[Len(h) + 1] = x
         /\ Append(h, x) # << >>
OBVIOUS

LEMMA TailFacts ==
  ASSUME NEW h \in Seq(Entry), h # << >>
  PROVE  /\ Tail(h) \in Seq(Entry) /\ Len(h) \in Nat /\ Len(h) > 0
         /\ Len(Tail(h)) = Len(h) - 1
         /\ Head(h) = h[1] /\ h[1] \in Entry
         /\ \A k \in 1..Len(Tail(h)) : Tail(h)[k] = h[k + 1] /\ k + 1 \in 1..Len(h)
BY SeqFacts

\* What atomlist_link leaves of the queue.
Linked(h, t) ==
  [k \in DOMAIN h |-> IF h[k].by = t THEN [h[k] EXCEPT !.by = NULL] ELSE h[k]]

LEMMA LinkFacts ==
  ASSUME NEW h \in Seq(Entry), NEW t \in Threads
  PROVE  /\ Linked(h, t) \in Seq(Entry)
         /\ Len(Linked(h, t)) = Len(h)
         /\ \A k \in 1..Len(h) :
              /\ Linked(h, t)[k].type = h[k].type
              /\ Linked(h, t)[k].obj = h[k].obj
              /\ Linked(h, t)[k].epoch = h[k].epoch
              /\ Linked(h, t)[k].by = IF h[k].by = t THEN NULL ELSE h[k].by
<1>1. Len(h) \in Nat /\ DOMAIN h = 1..Len(h) /\ \A k \in 1..Len(h) : h[k] \in Entry
  BY SeqFacts, Zenon
<1>2. \A x \in Entry : [x EXCEPT !.by = NULL] \in Entry
  BY Zenon DEF Entry
<1>3. \A k \in 1..Len(h) : Linked(h, t)[k] \in Entry
  BY <1>1, <1>2, Zenon DEF Linked
<1>4. DOMAIN Linked(h, t) = 1..Len(h)
  BY <1>1, Zenon DEF Linked
<1>5. Linked(h, t) \in [1..Len(h) -> Entry]
  BY <1>1, <1>2, Zenon DEF Linked
<1>6. Linked(h, t) \in Seq(Entry) /\ Len(Linked(h, t)) = Len(h)
  BY <1>1, <1>5, SeqFacts
<1> QED  BY <1>1, <1>6, Zenon DEF Linked, Entry

LEMMA SortedAppend ==
  ASSUME NEW h \in Seq(Entry), NEW m \in Nat, NEW b \in Nat, b <= m,
         Sorted(h, m, b), NEW x \in Entry, x.epoch = m
  PROVE  Sorted(Append(h, x), m + Marks(x), b)
<1> DEFINE g == Append(h, x)
           mm == m + Marks(x)
<1>1. /\ Len(h) \in Nat /\ Len(g) = Len(h) + 1 /\ g # << >>
      /\ \A k \in 1..Len(h) : g[k] = h[k] /\ h[k] \in Entry
      /\ g[Len(h) + 1] = x
  BY AppendFacts, SeqFacts, Zenon
<1>2. \A y \in Entry : Marks(y) \in {0, 1} /\ y.epoch \in Nat
  BY Zenon DEF Marks, Entry
<1>0. mm \in Nat /\ mm = m + Marks(x) /\ m <= mm
  BY <1>2
<1> HIDE DEF g, mm
<1>3. \A k \in 1..Len(g) : b <= g[k].epoch /\ g[k].epoch + Marks(g[k]) <= mm
  <2> TAKE k \in 1..Len(g)
  <2>1. CASE k \in 1..Len(h)
    <3>1. g[k] = h[k] /\ h[k] \in Entry
      BY <1>1, <2>1, Zenon
    <3>2. b <= h[k].epoch /\ h[k].epoch + Marks(h[k]) <= m
      BY <2>1, Zenon DEF Sorted
    <3> QED  BY <1>0, <1>2, <3>1, <3>2
  <2>2. CASE k = Len(h) + 1
    BY <1>0, <1>1, <1>2, <2>2
  <2> QED  BY <1>1, <2>1, <2>2
<1>4. \A j, k \in 1..Len(g) : j < k => g[j].epoch + Marks(g[j]) <= g[k].epoch
  <2> TAKE j, k \in 1..Len(g)
  <2> HAVE j < k
  <2>1. CASE k \in 1..Len(h)
    BY <1>1, <1>2, <2>1 DEF Sorted
  <2>2. CASE k = Len(h) + 1
    <3>1. j \in 1..Len(h)
      BY <1>1, <2>2
    <3> QED  BY <1>1, <1>2, <2>2, <3>1, Zenon DEF Sorted
  <2> QED  BY <1>1, <2>1, <2>2
<1>5. g # << >> => g[Len(g)].epoch + Marks(g[Len(g)]) = mm
  BY <1>0, <1>1, Zenon
<1>6. \A e \in b..(mm - 1) :
        \E k \in 1..Len(g) : g[k].type = "NEXT" /\ g[k].epoch = e
  <2> TAKE e \in b..(mm - 1)
  <2>1. CASE e \in b..(m - 1)
    <3>1. PICK k \in 1..Len(h) : h[k].type = "NEXT" /\ h[k].epoch = e
      BY <2>1, Zenon DEF Sorted
    <3>2. k \in 1..Len(g) /\ g[k] = h[k]
      BY <1>1, <3>1
    <3> QED  BY <3>1, <3>2, Zenon
  <2>2. CASE e = m /\ x.type = "NEXT"
    <3>1. Len(g) \in 1..Len(g) /\ g[Len(g)] = x
      BY <1>1
    <3> QED  BY <3>1, <2>2, Zenon
  <2>3. e \in b..(m - 1) \/ (e = m /\ x.type = "NEXT")
    BY <1>0, <1>2 DEF Marks
  <2> QED  BY <2>1, <2>2, <2>3, Zenon
<1>7. Sorted(g, mm, b)
  BY <1>3, <1>4, <1>5, <1>6, Zenon DEF Sorted
<1> QED  BY <1>7, Zenon DEF g, mm

\* The head of the queue is of the oldest epoch when that has a marker.
LEMMA SortedHead ==
  ASSUME NEW h \in Seq(Entry), NEW m \in Nat, NEW b \in Nat, b < m, Sorted(h, m, b)
  PROVE  /\ h # << >> /\ h[1].epoch = b
         /\ \E k \in 1..Len(h) :
              /\ h[k].type = "NEXT" /\ h[k].epoch = b
              /\ \A j \in 1..k : h[j].epoch = b /\ (j < k => h[j].type # "NEXT")
<1>1. PICK k \in 1..Len(h) : h[k].type = "NEXT" /\ h[k].epoch = b
  BY DEF Sorted
<1>2. Len(h) \in Nat /\ h # << >> /\ \A j \in 1..Len(h) : h[j] \in Entry
  BY <1>1, SeqFacts
<1>3. \A y \in Entry : y.epoch \in Nat /\ Marks(y) \in {0, 1}
                       /\ (y.type = "NEXT" => Marks(y) = 1)
  BY Zenon DEF Marks, Entry
<1>4. ASSUME NEW j \in 1..k PROVE h[j].epoch = b /\ (j < k => h[j].type # "NEXT")
  <2>1. j \in 1..Len(h) /\ h[j] \in Entry
    BY <1>2
  <2>2. CASE j = k
    BY <1>1, <2>2
  <2>3. CASE j < k
    BY <1>1, <1>2, <1>3, <2>1, <2>3 DEF Sorted
  <2> QED  BY <2>2, <2>3
<1>5. 1 \in 1..k
  BY <1>1, <1>2
<1> QED  BY <1>1, <1>2, <1>4, <1>5, Zenon

\* Popping takes a marker's epoch away with it, and nothing else.
LEMMA SortedTail ==
  ASSUME NEW h \in Seq(Entry), NEW m \in Nat, NEW b \in Nat, h # << >>, Sorted(h, m, b)
  PROVE  Sorted(Tail(h), m, b + Marks(h[1]))
<1> DEFINE g == Tail(h)
<1>1. /\ Len(h) \in Nat /\ Len(h) > 0 /\ g \in Seq(Entry) /\ Len(g) = Len(h) - 1
      /\ \A k \in 1..Len(g) : g[k] = h[k + 1] /\ k + 1 \in 1..Len(h)
      /\ \A k \in 1..Len(h) : h[k] \in Entry
      /\ (g # << >> => Len(g) > 0)
  BY TailFacts, SeqFacts, Zenon
<1>2. \A y \in Entry : Marks(y) \in {0, 1} /\ y.epoch \in Nat
                       /\ (Marks(y) = 1 <=> y.type = "NEXT")
  BY DEF Marks, Entry
<1> HIDE DEF g
<1>3. 1 \in 1..Len(h) /\ h[1] \in Entry /\ b <= h[1].epoch
  BY <1>1 DEF Sorted
<1>4. \A k \in 1..Len(g) :
        b + Marks(h[1]) <= g[k].epoch /\ g[k].epoch + Marks(g[k]) <= m
  <2> TAKE k \in 1..Len(g)
  <2>1. g[k] = h[k + 1] /\ k + 1 \in 1..Len(h) /\ 1 < k + 1 /\ h[k + 1] \in Entry
    BY <1>1
  <2>2. h[1].epoch + Marks(h[1]) <= h[k + 1].epoch
    BY <1>3, <2>1, Zenon DEF Sorted
  <2>3. h[k + 1].epoch + Marks(h[k + 1]) <= m
    BY <2>1, Zenon DEF Sorted
  <2> QED  BY <1>2, <1>3, <2>1, <2>2, <2>3
<1>5. \A j, k \in 1..Len(g) : j < k => g[j].epoch + Marks(g[j]) <= g[k].epoch
  <2> TAKE j, k \in 1..Len(g)
  <2> HAVE j < k
  <2>1. /\ g[j] = h[j + 1] /\ g[k] = h[k + 1] /\ j + 1 < k + 1
        /\ j + 1 \in 1..Len(h) /\ k + 1 \in 1..Len(h)
    BY <1>1
  <2> QED  BY <2>1, Zenon DEF Sorted
<1>6. g # << >> => g[Len(g)].epoch + Marks(g[Len(g)]) = m
  <2> HAVE g # << >>
  <2>1. g[Len(g)] = h[Len(h)]
    BY <1>1
  <2> QED  BY <2>1, Zenon DEF Sorted
<1>7. \A e \in (b + Marks(h[1]))..(m - 1) :
        \E k \in 1..Len(g) : g[k].type = "NEXT" /\ g[k].epoch = e
  <2> TAKE e \in (b + Marks(h[1]))..(m - 1)
  <2>1. e \in b..(m - 1)
    BY <1>2, <1>3
  <2>2. PICK k \in 1..Len(h) : h[k].type = "NEXT" /\ h[k].epoch = e
    BY <2>1, Zenon DEF Sorted
  <2>3. k # 1
    <3> SUFFICES ASSUME k = 1 PROVE FALSE
      OBVIOUS
    <3>1. Marks(h[1]) = 1 /\ h[1].epoch = e /\ b < e
      BY <1>2, <1>3, <2>2
    <3>2. b \in b..(m - 1)
      BY <2>1, <3>1
    <3>3. PICK i \in 1..Len(h) : h[i].type = "NEXT" /\ h[i].epoch = b
      BY <3>2, Zenon DEF Sorted
    <3>4. i # 1
      BY <3>1, <3>3, <2>1
    <3>5. 1 < i
      BY <3>4, <1>1
    <3>6. h[1].epoch + Marks(h[1]) <= h[i].epoch
      BY <1>3, <3>5, Zenon DEF Sorted
    <3> QED  BY <3>1, <3>3, <3>6, <2>1
  <2>4. k - 1 \in 1..Len(g) /\ g[k - 1] = h[k]
    <3>1. k - 1 \in 1..Len(g)
      BY <1>1, <2>3
    <3>2. g[k - 1] = h[(k - 1) + 1]
      BY <1>1, <3>1, Zenon
    <3> QED  BY <3>1, <3>2
  <2> QED  BY <2>2, <2>4, Zenon
<1>8. Sorted(g, m, b + Marks(h[1]))
  BY <1>4, <1>5, <1>6, <1>7, Zenon DEF Sorted
<1> QED  BY <1>8, Zenon DEF g

\* An empty queue has no markers.
LEMMA SortedEmpty ==
  ASSUME NEW m \in Nat, NEW b \in Nat, Sorted(<< >>, m, b)
  PROVE  b >= m /\ Sorted(<< >>, m, b + 1)
<1>1. Len(<< >>) = 0
  BY SeqFacts, Zenon
<1>2. b >= m
  <2> SUFFICES ASSUME b < m PROVE FALSE
    OBVIOUS
  <2>1. b \in b..(m - 1)
    OBVIOUS
  <2> QED  BY <1>1, <2>1 DEF Sorted
<1> QED  BY <1>1, <1>2 DEF Sorted

LEMMA SortedLinked ==
  ASSUME NEW h \in Seq(Entry), NEW m \in Nat, NEW b \in Nat, NEW t \in Threads,
         Sorted(h, m, b)
  PROVE  Sorted(Linked(h, t), m, b) /\ (Linked(h, t) = << >> <=> h = << >>)
<1> DEFINE g == Linked(h, t)
<1>1. /\ g \in Seq(Entry) /\ Len(g) = Len(h) /\ Len(h) \in Nat
      /\ \A k \in 1..Len(h) : g[k].type = h[k].type /\ g[k].epoch = h[k].epoch
  BY LinkFacts, SeqFacts
<1>2. g = << >> <=> h = << >>
  BY <1>1, SeqFacts, Zenon
<1> HIDE DEF g
<1>3. \A k \in 1..Len(h) : Marks(g[k]) = Marks(h[k])
  BY <1>1, Zenon DEF Marks
<1>4. h # << >> => Len(h) \in 1..Len(h)
  BY <1>1, SeqFacts
<1>5. Sorted(g, m, b)
  BY <1>1, <1>2, <1>3, <1>4, SMTT(30) DEF Sorted
<1> QED  BY <1>2, <1>5, Zenon DEF g

-----------------------------------------------------------------------------
(* Threads and epochs. *)

LEMMA Consts ==
  /\ Main \in Threads /\ NULL \notin Threads /\ IsFiniteSet(Threads)
  /\ Items \subseteq Nat /\ NULL \notin Items /\ END \notin Items /\ END # NULL
  /\ END \in Nat
BY FrrcuAssumption DEF Items, END, NULL

LEMMA CountFacts ==
  ASSUME TypeOK, Counting, rcu_seq # 0
  PROVE  /\ rcu_seq <= nmarks
         /\ \A t \in Threads : pc[t] \in BumpLabels => rcu_seq < nmarks
BY Zenon DEF Counting, Counts, Bumping

LEMMA CountsSame ==
  ASSUME Counting, Bumping' = Bumping, rcu_seq' = rcu_seq, nmarks' = nmarks
  PROVE  Counts'
BY Zenon DEF Counting, Counts

\* A thread that holds an epoch protects everything queued from now on.
LEMMA HolderProtects ==
  ASSUME TypeOK, Counting, NEW t \in Threads, Holding(t), rcu[t] > 0,
         t \in rcu_threads, pc[Main] # "join", NEW e \in Nat, rcu_seq <= e
  PROVE  Protects(t, e)
<1>1. rcu_seq # 0 /\ rcu_seq \in Nat /\ rcu[t] \in Nat /\ rcuval \in Nat
  BY Zenon DEF TypeOK, Counting
<1>2. rcu[t] <= e
  BY <1>1 DEF Holding
<1>3. spc \in {"off", "wait", "threads", "pop"}
  BY Zenon DEF Counting
<1>4. spc \in {"threads", "pop"} => e > rcuval
  BY <1>1 DEF Counting
<1> QED  BY <1>2, <1>3, <1>4, Zenon DEF Protects

\* A step that leaves the queue alone and takes no thread's protection away.
LEMMA SameQueue ==
  ASSUME IInv, rcu_heads' = rcu_heads,
         \A u \in Threads : pc[u] \in Linking => pc'[u] \in Linking,
         \A u \in Threads : refs'[u] \subseteq refs[u],
         \A u \in Threads, e \in Nat :
           Protects(u, e) /\ (pc[u] \in Linking \/ refs'[u] # {}) => Protects(u, e)'
  PROVE  LinkProtected' /\ RefProtected'
<1>1. \A k \in 1..Len(rcu_heads) : rcu_heads[k] \in Entry
  BY SeqFacts, Zenon DEF IInv, TypeOK
<1>2. LinkProtected'
  <2> SUFFICES ASSUME NEW k \in 1..Len(rcu_heads), rcu_heads[k].by # NULL
               PROVE  /\ pc'[rcu_heads[k].by] \in Linking
                      /\ Protects(rcu_heads[k].by, rcu_heads[k].epoch)'
                      /\ k > 1 /\ rcu_heads[k - 1].type = "NEXT"
                           => Protects(rcu_heads[k].by, rcu_heads[k - 1].epoch)'
    BY Zenon DEF LinkProtected
  <2>1. /\ rcu_heads[k].by \in Threads /\ rcu_heads[k].epoch \in Nat
        /\ (k > 1 => rcu_heads[k - 1].epoch \in Nat)
    BY <1>1 DEF Entry
  <2>2. pc[rcu_heads[k].by] \in Linking
    BY Zenon DEF IInv, LinkProtected
  <2> QED  BY <2>1, <2>2, Zenon DEF IInv, LinkProtected
<1>3. RefProtected'
  <2> SUFFICES ASSUME NEW u \in Threads, NEW k \in 1..Len(rcu_heads),
                      rcu_heads[k].type = "ITEM", rcu_heads[k].obj \in refs'[u]
               PROVE  Protects(u, rcu_heads[k].epoch)'
    BY Zenon DEF RefProtected
  <2>1. rcu_heads[k].epoch \in Nat /\ rcu_heads[k].obj \in refs[u]
    BY <1>1, Zenon DEF Entry
  <2> QED  BY <2>1, Zenon DEF IInv, RefProtected
<1> QED  BY <1>2, <1>3, Zenon

\* While a thread is inside a call the counter runs.
LEMMA Running ==
  ASSUME TypeOK, Counting, NEW t \in Threads, ~Gone(t), pc[t] # "join"
  PROVE  /\ rcu_seq \in Nat \ {0} /\ pc[Main] # "join"
         /\ t # Main => rcu_active /\ ~ShuttingDown
<1>1. pc[Main] # "join" /\ (t # Main => rcu_active /\ ~ShuttingDown)
  BY Zenon DEF Counting, ShuttingDown, Gone
<1>2. rcu_seq \in Nat \ {0}
  BY <1>1, Zenon DEF Counting, TypeOK
<1> QED  BY <1>1, <1>2, Zenon

\* A thread that looks at something holds an epoch.
LEMMA ReaderHolds ==
  ASSUME IInv, NEW u \in Threads, refs[u] # {}
  PROVE  rcu[u] > 0 /\ u \in rcu_threads /\ pc[u] # "join"
BY Zenon DEF IInv, Places, Holding, Retiring

\* What a step of thread t leaves alone: the state of the other threads.
Others(t) ==
  \A u \in Threads \ {t} :
    /\ pc'[u] = pc[u] /\ ret'[u] = ret[u] /\ rcu'[u] = rcu[u]
    /\ reg'[u] = reg[u] /\ depth'[u] = depth[u] /\ pend'[u] = pend[u]
    /\ refs'[u] = refs[u]

-----------------------------------------------------------------------------
(* Adding to the queue. *)

\* A thread that holds an epoch queues an entry and has still to link it.
Adds(t, type, obj) ==
  /\ type \in {"NEXT", "RN", "ITEM", "THREAD", "END"}
  /\ obj \in Items \cup Threads \cup {NULL}
  /\ AddTail(t, type, obj)
  /\ Others(t) /\ pc'[t] \in Linking
  /\ UNCHANGED <<rcu_seq, rcu_dirty, list, walk, life, rcu, depth, ret, reg, pend, client,
                 frees, sweeper>>
  /\ \/ type = "NEXT" /\ pc[t] = "next" /\ pc'[t] = "next_link"
     \/ type = "RN" /\ pc[t] = "rn" /\ pc'[t] = "rn_link"
     \/ type = "THREAD" /\ obj = t /\ pc[t] = "free" /\ pc'[t] = "free_link"
     \/ /\ pc[t] = "enqueue" /\ pc'[t] = "item_link" /\ rcu_active
        /\ type = (IF pend[t] = END THEN "END" ELSE "ITEM")
        /\ type = "ITEM" => obj = pend[t]

LEMMA AddStep ==
  ASSUME IInv, NEW t \in Threads, NEW type, NEW obj, Adds(t, type, obj), pc' \in [Threads -> Labels]
  PROVE  IInv'
<1> USE DEF queue, list, walk, life, client, frees, sweeper
<1> DEFINE h == rcu_heads
           x == [type |-> type, obj |-> obj, by |-> t, epoch |-> nmarks]
           n == Len(rcu_heads) + 1
<1>1. TypeOK /\ Places(t) /\ Holding(t) /\ Counting /\ Ordered
  BY Zenon DEF IInv
<1>2. rcu_seq \in Nat \ {0} /\ pc[Main] # "join" /\ (t # Main => rcu_active /\ ~ShuttingDown)
  BY <1>1, Running, Zenon DEF Gone, Adds, TypeOK
<1>3. /\ h \in Seq(Entry) /\ Len(h) \in Nat /\ x \in Entry /\ nmarks \in Nat
      /\ \A k \in 1..Len(h) : h[k] \in Entry
  BY <1>1, SeqFacts, Zenon DEF TypeOK, Adds, Entry
<1>4. /\ rcu_heads' = Append(h, x) /\ rcu_heads' \in Seq(Entry)
      /\ Len(rcu_heads') = n /\ rcu_heads'[n] = x /\ rcu_heads' # << >>
      /\ \A k \in 1..Len(h) : rcu_heads'[k] = h[k]
      /\ \A k \in 1..n : k \in 1..Len(h) \/ k = n
      /\ Len(h) = n - 1
  <2>1. rcu_heads' = Append(h, x)
    BY Zenon DEF Adds, AddTail
  <2> QED  BY <1>3, <2>1, AppendFacts
<1>5. /\ x.type = type /\ x.obj = obj /\ x.by = t /\ x.epoch = nmarks
      /\ Marks(x) = IF type = "NEXT" THEN 1 ELSE 0
  BY Zenon DEF Marks
<1>6. nmarks' = nmarks + Marks(x) /\ nmarks' \in Nat
  BY <1>3, <1>5 DEF Adds, AddTail
<1> HIDE DEF x, n
<1>7. TypeOK'
  BY <1>1, <1>4, <1>6, Zenon DEF Adds, TypeOK
<1>8. Places(t)' /\ Holding(t)'
  <2>1. Places(t)'
    BY <1>1, Zenon DEF Adds, Places, Linking, Retiring
  <2>2. Holding(t)'
    BY <1>1, <2>1, Zenon DEF Adds, Places, Holding, Linking, Retiring
  <2> QED  BY <2>1, <2>2, Zenon
<1>9. \A u \in Threads : Places(u)' /\ Holding(u)'
  <2> TAKE u \in Threads
  <2>1. CASE u = t
    BY <1>8, <2>1, Zenon
  <2>2. CASE u # t
    BY <2>2 DEF IInv, Places, Holding, Others, Adds
  <2> QED  BY <2>1, <2>2, Zenon
<1>10. /\ ShuttingDown' <=> ShuttingDown
       /\ ShuttingDown => t = Main /\ type = "END" /\ pc[Main] = "enqueue"
       /\ type = "END" => ShuttingDown /\ t = Main /\ pc'[Main] = "item_link"
  <2>1. ShuttingDown' <=> ShuttingDown
    BY Consts, Zenon DEF Adds, Others, ShuttingDown, Linking
  <2>2. ASSUME ShuttingDown PROVE t = Main /\ type = "END" /\ pc[Main] = "enqueue"
    <3>1. t = Main
      BY <1>2, <2>2, Zenon
    <3>2. pend[Main] = END
      BY <2>2, <3>1, Zenon DEF Adds, ShuttingDown
    <3>3. pc[Main] \in Retiring
      BY <1>1, <3>1, <3>2, Consts, Zenon DEF Places
    <3> QED  BY <3>1, <3>2, <3>3, Zenon DEF Adds, Retiring
  <2>3. ASSUME type = "END" PROVE ShuttingDown /\ t = Main /\ pc'[Main] = "item_link"
    BY <1>1, <2>3, Zenon DEF Adds, ShuttingDown, Places
  <2> QED  BY <2>1, <2>2, <2>3, Zenon
<1>11. Counts'
  <2>1. nmarks \in Nat /\ rcu_seq <= nmarks
    BY <1>1, <1>2, CountFacts, Zenon DEF TypeOK
  <2>0. rcu_seq' = rcu_seq
    BY Zenon DEF Adds
  <2>2. CASE type = "NEXT"
    BY <1>2, <1>3, <1>5, <1>6, <2>0, <2>1, <2>2 DEF Counts
  <2>3. CASE type # "NEXT"
    <3>1. Bumping' = Bumping
      BY <2>3, Zenon DEF Bumping, Others, BumpLabels, Adds
    <3> QED
      BY <1>1, <1>2, <1>3, <1>5, <1>6, <2>0, <2>1, <2>3, <3>1 DEF Counting, Counts
  <2> QED  BY <2>2, <2>3, Zenon
<1>12. Counting'
  <2>1. \A u \in Threads \ {Main} : Gone(u) => Gone(u)'
    BY <1>1, Zenon DEF Gone, Others, Adds
  <2>2. Base' = Base
    BY Zenon DEF Base, Adds
  <2>3. pc'[Main] # "join" /\ (pc'[Main] \in {"shut", "stop"} => rcu_active)
    BY <1>1, <1>2, Consts, Zenon DEF Others, Adds, Counting, Linking
  <2>4. ~rcu_active => pc'[Main] \notin {"item_link", "dirty_load", "dirty_store"}
    BY <1>1, <1>2, Consts, Zenon DEF Others, Adds, Counting, Linking
  <2> QED  BY <1>1, <1>2, <1>10, <1>11, <2>1, <2>2, <2>3, <2>4, Zenon DEF Counting, Adds
<1>13. Ordered'
  <2>1. Base \in Nat /\ Base' = Base
    BY <1>1, Zenon DEF Base, STARTVAL, Adds, TypeOK
  <2>2. Base <= nmarks
    BY <1>1, <1>2, <2>1, CountFacts DEF Counting, TypeOK
  <2>3. Sorted(Append(h, x), nmarks + Marks(x), Base)
    BY <1>1, <1>3, <1>5, <2>1, <2>2, SortedAppend, Zenon DEF Ordered
  <2>4. Sorted(rcu_heads', nmarks', Base')
    BY <1>4, <1>6, <2>1, <2>3, Zenon
  <2>5. rcu_heads'[Len(rcu_heads')].type = "NEXT" => pc'[t] = "next_link"
    BY <1>4, <1>5, Zenon DEF Adds
  <2> QED  BY <2>4, <2>5, Zenon DEF Ordered
<1>14. \A u \in Threads, e \in Nat : Protects(u, e) =>
         /\ u \in rcu_threads' /\ rcu'[u] > 0 /\ rcu'[u] <= e
         /\ \/ e > rcuval' \/ spc' \in {"off", "wait"}
            \/ spc' = "threads" /\ (u = cur' \/ u \in todo')
  BY Zenon DEF Protects, Adds
<1>15. LinkProtected'
  <2> SUFFICES ASSUME NEW k \in 1..n, rcu_heads'[k].by # NULL
               PROVE  /\ pc'[rcu_heads'[k].by] \in Linking
                      /\ Protects(rcu_heads[k].by, rcu_heads[k].epoch)'
                      /\ k > 1 /\ rcu_heads'[k - 1].type = "NEXT"
                           => Protects(rcu_heads[k].by, rcu_heads[k - 1].epoch)'
    BY <1>4, Zenon DEF LinkProtected
  <2>1. CASE k \in 1..Len(h)
    <3>1. rcu_heads'[k] = h[k] /\ (k > 1 => rcu_heads'[k - 1] = h[k - 1])
      BY <1>3, <1>4, <2>1
    <3>3. /\ pc[h[k].by] \in Linking /\ Protects(h[k].by, h[k].epoch)
          /\ k > 1 /\ h[k - 1].type = "NEXT" => Protects(h[k].by, h[k - 1].epoch)
      BY <2>1, <3>1, Zenon DEF IInv, LinkProtected
    <3>0. k > 1 => k - 1 \in 1..Len(h)
      BY <1>3, <2>1
    <3>2. /\ h[k].by \in Threads \ {t} /\ h[k].epoch \in Nat
          /\ (k > 1 => h[k - 1].epoch \in Nat)
      BY <1>3, <2>1, <3>0, <3>1, <3>3, Zenon DEF Linking, Entry, Adds
    <3>4. pc'[rcu_heads'[k].by] \in Linking
      BY <3>1, <3>2, <3>3, Zenon DEF Adds, Others
    <3> QED  BY <1>14, <3>1, <3>2, <3>3, <3>4, Zenon DEF Protects
  <2>2. CASE k = n
    <3>1. rcu_heads'[k] = x /\ pc'[t] \in Linking
      BY <1>4, <2>2, Zenon DEF Adds
    <3>2. rcu[t] > 0 /\ t \in rcu_threads
      BY <1>1, Zenon DEF Holding, Places, Adds, Retiring
    <3>3. Protects(t, nmarks)
      BY <1>1, <1>2, <1>3, <3>2, HolderProtects, CountFacts, Zenon
    <3>4. ASSUME k > 1, rcu_heads'[k - 1].type = "NEXT"
          PROVE  Protects(t, rcu_heads'[k - 1].epoch) /\ rcu_heads'[k - 1].epoch \in Nat
      <4>1. k - 1 = Len(h) /\ Len(h) \in 1..Len(h) /\ h # << >>
            /\ rcu_heads'[k - 1] = h[Len(h)]
        BY <1>3, <1>4, <2>2, <3>4, SeqFacts
      <4>2. h[Len(h)] \in Entry /\ h[Len(h)].type = "NEXT"
        BY <1>3, <3>4, <4>1, Zenon
      <4>3. \E u \in Threads : pc[u] \in {"next_link", "rn"}
        BY <1>1, <4>1, <4>2, Zenon DEF Ordered
      <4>4. rcu_seq < nmarks
        BY <1>1, <1>2, <4>3, CountFacts, Zenon DEF BumpLabels
      <4>5. h[Len(h)].epoch + 1 = nmarks /\ h[Len(h)].epoch \in Nat
        BY <1>1, <1>3, <4>1, <4>2, Zenon DEF Ordered, Sorted, Marks, Entry
      <4>6. rcu_seq <= h[Len(h)].epoch
        BY <1>2, <1>3, <4>4, <4>5
      <4>7. Protects(t, h[Len(h)].epoch)
        BY <1>1, <1>2, <3>2, <4>5, <4>6, HolderProtects, Zenon
      <4> QED  BY <4>1, <4>5, <4>7, Zenon
    <3>5. Protects(rcu_heads[k].by, rcu_heads[k].epoch)'
      BY <1>3, <1>5, <1>14, <3>1, <3>3, Zenon DEF Protects
    <3>6. k > 1 /\ rcu_heads'[k - 1].type = "NEXT"
            => Protects(rcu_heads[k].by, rcu_heads[k - 1].epoch)'
      BY <1>5, <1>14, <3>1, <3>4, Zenon DEF Protects
    <3> QED  BY <1>5, <3>1, <3>5, <3>6, Zenon
  <2> QED  BY <1>4, <2>1, <2>2, Zenon
<1>16. RefProtected'
  <2> SUFFICES ASSUME NEW u \in Threads, NEW k \in 1..n,
                      rcu_heads'[k].type = "ITEM", rcu_heads'[k].obj \in refs[u]
               PROVE  Protects(u, rcu_heads[k].epoch)'
    BY <1>4, Zenon DEF RefProtected, Adds
  <2>1. CASE k \in 1..Len(h)
    <3>1. rcu_heads'[k] = h[k] /\ h[k].epoch \in Nat
      BY <1>3, <1>4, <2>1, Zenon DEF Entry
    <3>2. Protects(u, h[k].epoch)
      BY <2>1, <3>1, Zenon DEF IInv, RefProtected
    <3> QED  BY <1>14, <3>1, <3>2, Zenon DEF Protects
  <2>2. CASE k = n
    <3>1. rcu_heads'[k].epoch = nmarks
      BY <1>4, <1>5, <2>2, Zenon
    <3>2. Protects(u, nmarks)
      BY <1>1, <1>2, <1>3, ReaderHolds, HolderProtects, CountFacts, Zenon DEF IInv
    <3> QED  BY <1>3, <1>14, <3>1, <3>2, Zenon DEF Protects
  <2> QED  BY <1>4, <2>1, <2>2, Zenon
<1>17. Objects'
  <2>1. /\ \A u \in Threads : Retired(u)' => Retired(u) /\ u # t
        /\ type = "ITEM" => Retired(t) /\ obj = pend[t] /\ pend[t] \in Items
    BY <1>1, Consts, Zenon DEF Retired, Others, Adds, Linking, TypeOK, Places, Retiring
  <2>2. Fresh(rcu_heads)'
    <3>1. \A k \in 1..n : rcu_heads'[k].type = "ITEM" =>
            /\ rcu_heads'[k].obj \in Items /\ rcu_heads'[k].obj < ptr
            /\ rcu_heads'[k].obj \notin freed
      <4> SUFFICES ASSUME NEW k \in 1..n, rcu_heads'[k].type = "ITEM"
                   PROVE  /\ rcu_heads'[k].obj \in Items /\ rcu_heads'[k].obj < ptr
                          /\ rcu_heads'[k].obj \notin freed
        BY Zenon
      <4>1. CASE k \in 1..Len(h)
        BY <1>4, <4>1, Zenon DEF IInv, Objects, Fresh
      <4>2. CASE k = n
        <5>1. rcu_heads'[k] = x
          BY <1>4, <4>2, Zenon
        <5>2. type = "ITEM" /\ rcu_heads'[k].obj = obj
          BY <1>5, <5>1, Zenon
        <5>3. Retired(t) /\ obj = pend[t] /\ pend[t] \in Items
          BY <2>1, <5>2, Zenon
        <5>4. pend[t] < ptr /\ pend[t] \notin freed
          BY <5>3, Zenon DEF IInv, Objects
        <5> QED  BY <5>2, <5>3, <5>4, Zenon
      <4> QED  BY <1>4, <4>1, <4>2, Zenon
    <3>2. \A j \in 1..Len(h) : type = "ITEM" /\ h[j].type = "ITEM" => h[j].obj # obj
      BY <2>1, Zenon DEF IInv, Objects
    <3>3. \A j, k \in 1..n :
            rcu_heads'[j].type = "ITEM" /\ rcu_heads'[k].type = "ITEM"
              /\ rcu_heads'[j].obj = rcu_heads'[k].obj => j = k
      BY <1>4, <1>5, <3>2 DEF IInv, Objects, Fresh
    <3>4. \A k \in 1..n : rcu_heads'[k].type = "THREAD" => rcu_heads'[k].obj \in Threads
      <4>1. type = "THREAD" => obj \in Threads
        BY Zenon DEF Adds
      <4> QED  BY <1>4, <1>5, <4>1, Zenon DEF IInv, Objects, Fresh
    <3> QED  BY <1>4, <3>1, <3>3, <3>4, Zenon DEF Fresh, Adds
  <2>3. ASSUME NEW u \in Threads, Retired(u)', NEW k \in 1..n, rcu_heads'[k].type = "ITEM"
        PROVE  rcu_heads'[k].obj # pend[u]
    <3>1. Retired(u) /\ u # t
      BY <2>1, <2>3, Zenon
    <3>2. CASE k \in 1..Len(h)
      BY <1>4, <2>3, <3>1, <3>2, Zenon DEF IInv, Objects
    <3>3. CASE k = n
      BY <1>4, <1>5, <2>1, <2>3, <3>1, <3>3 DEF IInv, Objects
    <3> QED  BY <1>4, <3>2, <3>3, Zenon
  <2> QED  BY <1>4, <2>1, <2>2, <2>3, Zenon DEF IInv, Objects, Adds
<1>18. NoUseAfterFree'
  BY Zenon DEF IInv, NoUseAfterFree, Adds
<1>19. Ending'
  <2>1. \A k \in 1..Len(h) : h[k].type # "END"
    BY <1>10, Zenon DEF IInv, Ending
  <2>2. \A k \in 1..n : rcu_heads'[k].type = "END" => k = n /\ type = "END"
    BY <1>4, <1>5, <2>1, Zenon
  <2>3. ShuttingDown => rcu_heads'[n].type = "END"
    BY <1>4, <1>5, <1>10, Zenon
  <2>4. end => spc = "off"
    BY <1>2, Zenon DEF IInv, Ending
  <2>5. spc # "done"
    BY <1>1, <1>2, Zenon DEF Counting
  <2> QED  BY <1>4, <1>10, <2>2, <2>3, <2>4, <2>5, Zenon DEF Ending, Adds
<1> QED
  BY <1>7, <1>9, <1>12, <1>13, <1>15, <1>16, <1>17, <1>18, <1>19, Zenon DEF IInv

LEMMA NextStep ==
  ASSUME IInv, NEW t \in Threads, rcu_bump_next(t)
  PROVE  IInv'
<1> USE DEF counters, queue, list, walk, life, client, frees, sweeper
<1>1. TypeOK
  BY Zenon DEF IInv
<1>2. Others(t) /\ pc'[t] = "next_link" /\ pc' \in [Threads -> Labels]
  BY <1>1, Zenon DEF rcu_bump_next, Others, Goto, TypeOK, Labels
<1>3. Adds(t, "NEXT", NULL)
  BY <1>2, Zenon DEF rcu_bump_next, Adds, Linking
<1> QED  BY <1>2, <1>3, AddStep, Zenon

LEMMA BumpFreeStep ==
  ASSUME IInv, NEW t \in Threads, rcu_bump_free(t)
  PROVE  IInv'
<1> USE DEF counters, queue, list, walk, life, client, frees, sweeper
<1>1. TypeOK
  BY Zenon DEF IInv
<1>2. Others(t) /\ pc'[t] = "rn_link" /\ pc' \in [Threads -> Labels]
  BY <1>1, Zenon DEF rcu_bump_free, Others, Goto, TypeOK, Labels
<1>3. Adds(t, "RN", NULL)
  BY <1>2, Zenon DEF rcu_bump_free, Adds, Linking
<1> QED  BY <1>2, <1>3, AddStep, Zenon

LEMMA ThreadFreeStep ==
  ASSUME IInv, NEW t \in Threads, rcu_thread_free(t)
  PROVE  IInv'
<1> USE DEF counters, queue, list, walk, life, client, frees, sweeper
<1>1. TypeOK
  BY Zenon DEF IInv
<1>2. Others(t) /\ pc'[t] = "free_link" /\ pc' \in [Threads -> Labels]
  BY <1>1, Zenon DEF rcu_thread_free, Others, Goto, TypeOK, Labels
<1>3. Adds(t, "THREAD", t)
  BY <1>2, Zenon DEF rcu_thread_free, Adds, Linking
<1> QED  BY <1>2, <1>3, AddStep, Zenon

\* Without a sweeper only the main thread is there: an object is freed while
\* nobody looks at it.
LEMMA EnqueueStep ==
  ASSUME IInv, NEW t \in Threads, rcu_enqueue(t)
  PROVE  IInv'
<1> USE DEF counters, queue, list, walk, life, client, frees, sweeper
<1>1. TypeOK /\ Places(t) /\ Holding(t) /\ Counting
  BY Zenon DEF IInv
<1>2. CASE rcu_active
  <2>1. Others(t) /\ pc'[t] = "item_link" /\ pc' \in [Threads -> Labels]
    BY <1>1, <1>2, Zenon DEF rcu_enqueue, Others, Goto, TypeOK, Labels
  <2>2. CASE pend[t] = END
    <3>1. Adds(t, "END", NULL)
      BY <1>2, <2>1, <2>2, Zenon DEF rcu_enqueue, Adds, Linking
    <3> QED  BY <2>1, <3>1, AddStep, Zenon
  <2>3. CASE pend[t] # END
    <3>1. pend[t] \in Items
      BY <1>1, <2>3, Zenon DEF rcu_enqueue, TypeOK, Places, Retiring
    <3>2. Adds(t, "ITEM", pend[t])
      BY <1>2, <2>1, <2>3, <3>1, Zenon DEF rcu_enqueue, Adds, Linking
    <3> QED  BY <2>1, <3>2, AddStep, Zenon
  <2> QED  BY <2>2, <2>3, Zenon
<1>3. CASE ~rcu_active
  <2>1. /\ t = Main /\ spc = "off" /\ pend[t] # END /\ pend[t] \in Items
        /\ pc[t] = "enqueue" /\ rcu_seq # 0
        /\ \A u \in Threads \ {t} : Gone(u)
    BY <1>1, <1>3, Consts, Zenon DEF Counting, Gone, rcu_enqueue, TypeOK, Places, Retiring
  <2>2. /\ freed' = freed \cup {pend[t]} /\ rcu_heads' = rcu_heads
        /\ UNCHANGED <<counters, queue, list, walk, life, rcu, depth, ret, reg, client,
                       rt_freed, sweeper>>
    BY <1>3, Zenon DEF rcu_enqueue
  <2>3. TypeOK' /\ Others(t) /\ pc'[t] = "run" /\ pend'[t] = NULL
    BY <1>1, <1>3, <2>1, <2>2, Zenon DEF rcu_enqueue, Others, Goto, TypeOK, Labels
  <2>4. \A u \in Threads : Places(u)' /\ Holding(u)'
    <3>1. Places(t)' /\ Holding(t)'
      BY <1>1, <2>1, <2>2, <2>3, Consts, Zenon DEF Places, Holding, Retiring
    <3> TAKE u \in Threads
    <3>2. CASE u # t
      BY <2>2, <2>3, <3>2, Zenon DEF IInv, Places, Holding, Others
    <3> QED  BY <3>1, <3>2, Zenon
  <2>5. ~ShuttingDown /\ ~ShuttingDown'
    BY <2>1, <2>3, Consts, Zenon DEF ShuttingDown
  <2>6. Counting'
    <3>1. Bumping' = Bumping
      BY <2>1, <2>3, Zenon DEF Bumping, Others, BumpLabels
    <3>2. \A u \in Threads \ {Main} : Gone(u)'
      BY <2>1, <2>3, Zenon DEF Others, Gone
    <3>3. Counts'
      BY <1>1, <2>2, <3>1, CountsSame, Zenon
    <3>4. pend'[Main] # END /\ pc'[Main] = "run" /\ ~rcu_active' /\ Base' = Base
      BY <1>3, <2>1, <2>2, <2>3, Consts, Zenon DEF Base
    <3> QED
      BY <1>1, <2>1, <2>2, <2>5, <3>2, <3>3, <3>4, Zenon DEF Counting
  <2>7. Ordered'
    BY <2>1, <2>2, <2>3, Zenon DEF IInv, Ordered, Base, Others
  <2>8. LinkProtected' /\ RefProtected'
    <3>1. \A u \in Threads : pc[u] \in Linking => pc'[u] \in Linking
      BY <2>1, <2>3, Zenon DEF Linking, Others
    <3>2. \A u \in Threads, e \in Nat : Protects(u, e) => Protects(u, e)'
      BY <2>2, Zenon DEF Protects
    <3> QED  BY <2>2, <3>1, <3>2, SameQueue, Zenon
  <2>9. \A u \in Threads : refs[u] # {} => u = t
    BY <2>1, Zenon DEF Gone, IInv, Places, Retiring
  <2>10. Retired(t) /\ \A u \in Threads : ~Retired(u)'
    BY <2>1, <2>3, Zenon DEF Retired, Others, Gone
  <2>11. pend[t] < ptr /\ pend[t] \notin refs[t]
         /\ \A k \in 1..Len(rcu_heads) :
              rcu_heads[k].type = "ITEM" => rcu_heads[k].obj # pend[t]
    BY <2>10, Zenon DEF IInv, Objects
  <2>12. Objects'
    BY <2>2, <2>10, <2>11, Zenon DEF IInv, Objects, Fresh
  <2>13. NoUseAfterFree'
    BY <2>2, <2>9, <2>11, Zenon DEF IInv, NoUseAfterFree
  <2>14. Ending'
    BY <2>1, <2>2, <2>3, <2>5, Zenon DEF IInv, Ending
  <2> QED
    BY <2>3, <2>4, <2>6, <2>7, <2>8, <2>12, <2>13, <2>14, Zenon DEF IInv
<1> QED  BY <1>2, <1>3, Zenon

LEMMA LinkStep ==
  ASSUME IInv, NEW t \in Threads, atomlist_link(t)
  PROVE  IInv'
<1> USE DEF counters, queue, list, walk, life, client, frees, sweeper
<1> DEFINE h == rcu_heads
<1>1. TypeOK /\ Places(t) /\ Holding(t) /\ Counting /\ Ordered
  BY Zenon DEF IInv
<1>2. /\ rcu_seq # 0 /\ pc[Main] # "join" /\ pc[t] \in Linking
      /\ h \in Seq(Entry) /\ Len(h) \in Nat /\ \A k \in 1..Len(h) : h[k] \in Entry
  BY <1>1, Running, SeqFacts, Zenon DEF Gone, atomlist_link, Linking, TypeOK
<1>3. /\ rcu_heads' = Linked(h, t)
      /\ UNCHANGED <<counters, nmarks, list, walk, life, rcu, depth, ret, reg, pend,
                     client, frees, sweeper>>
  BY Zenon DEF atomlist_link, Linked
<1>4. /\ rcu_heads' \in Seq(Entry) /\ Len(rcu_heads') = Len(h)
      /\ \A k \in 1..Len(h) :
           /\ rcu_heads'[k].type = h[k].type /\ rcu_heads'[k].obj = h[k].obj
           /\ rcu_heads'[k].epoch = h[k].epoch
           /\ rcu_heads'[k].by = IF h[k].by = t THEN NULL ELSE h[k].by
  BY <1>2, <1>3, LinkFacts
<1>5. \/ pc[t] = "next_link" /\ pc'[t] = "rn"
      \/ pc[t] = "rn_link" /\ pc'[t] = "bump"
      \/ pc[t] = "item_link" /\ pc'[t] = "dirty_load"
      \/ pc[t] = "free_link" /\ pc'[t] = "del"
  BY <1>1, Zenon DEF atomlist_link, Goto, TypeOK
<1>6. TypeOK' /\ Others(t)
  <2>1. pc' \in [Threads -> Labels] /\ \A u \in Threads \ {t} : pc'[u] = pc[u]
    BY <1>1, <1>5, Zenon DEF atomlist_link, Goto, TypeOK, Labels
  <2> QED  BY <1>1, <1>3, <1>4, <2>1, Zenon DEF TypeOK, Others
<1>7. \A u \in Threads : Places(u)' /\ Holding(u)'
  <2>1. Places(t)' /\ Holding(t)'
    BY <1>1, <1>3, <1>5, Zenon DEF Places, Holding, Retiring
  <2> TAKE u \in Threads
  <2>2. CASE u # t
    BY <1>3, <1>6, <2>2, Zenon DEF IInv, Places, Holding, Others
  <2> QED  BY <2>1, <2>2, Zenon
<1>8. /\ ShuttingDown' <=> ShuttingDown
      /\ pc'[Main] = "enqueue" <=> pc[Main] = "enqueue"
      /\ pc'[Main] # "join"
  BY <1>2, <1>3, <1>5, <1>6, Consts, Zenon DEF ShuttingDown, Others
<1>9. Counting'
  <2>1. Bumping' = Bumping
    BY <1>5, <1>6, Zenon DEF Bumping, Others, BumpLabels
  <2>2. \A u \in Threads : Gone(u) => Gone(u)'
    BY <1>5, <1>6, Zenon DEF Others, Gone
  <2>3. ~rcu_active => pc'[Main] \notin {"item_link", "dirty_load", "dirty_store"}
    BY <1>1, <1>5, <1>6, Consts, Zenon DEF Counting, Others
  <2>4. Counts'
    BY <1>1, <1>3, <2>1, CountsSame, Zenon
  <2>5. pend'[Main] = pend[Main] /\ Base' = Base
    BY <1>3, Zenon DEF Base
  <2>6. pc'[Main] \in {"shut", "stop"} => pc[Main] \in {"shut", "stop"}
    BY <1>5, <1>6, Consts, Zenon DEF Others
  <2> QED
    BY <1>1, <1>2, <1>3, <1>8, <2>2, <2>3, <2>4, <2>5, <2>6, Zenon DEF Counting
<1>10. Ordered'
  <2>1. Base \in Nat /\ nmarks \in Nat /\ Base' = Base
    BY <1>1, <1>3, Zenon DEF Base, STARTVAL, TypeOK
  <2>2. Sorted(rcu_heads', nmarks, Base) /\ (rcu_heads' = << >> <=> h = << >>)
    BY <1>1, <1>2, <1>3, <2>1, SortedLinked, Zenon DEF Ordered
  <2>3. h # << >> => Len(h) \in 1..Len(h)
    BY <1>2, SeqFacts
  <2>4. \A u \in Threads : pc[u] \in {"next_link", "rn"} => pc'[u] \in {"next_link", "rn"}
    BY <1>5, <1>6, Zenon DEF Others
  <2> QED  BY <1>1, <1>3, <1>4, <2>1, <2>2, <2>3, <2>4, Zenon DEF Ordered
<1>11. \A u \in Threads, e \in Nat : Protects(u, e) => 
         /\ u \in rcu_threads' /\ rcu'[u] > 0 /\ rcu'[u] <= e
         /\ \/ e > rcuval' \/ spc' \in {"off", "wait"}
            \/ spc' = "threads" /\ (u = cur' \/ u \in todo')
  BY <1>3, Zenon DEF Protects
<1>12. LinkProtected'
  <2> SUFFICES ASSUME NEW k \in 1..Len(h), rcu_heads'[k].by # NULL
               PROVE  /\ pc'[rcu_heads'[k].by] \in Linking
                      /\ Protects(rcu_heads[k].by, rcu_heads[k].epoch)'
                      /\ k > 1 /\ rcu_heads'[k - 1].type = "NEXT"
                           => Protects(rcu_heads[k].by, rcu_heads[k - 1].epoch)'
    BY <1>4, Zenon DEF LinkProtected
  <2>1. rcu_heads'[k].by = h[k].by /\ h[k].by # t /\ rcu_heads'[k].epoch = h[k].epoch
        /\ h[k].by \in Threads /\ h[k].epoch \in Nat /\ h[k].by # NULL
    BY <1>2, <1>4, Zenon DEF Entry
  <2>0. k > 1 => k - 1 \in 1..Len(h)
    BY <1>2
  <2>2. k > 1 => /\ rcu_heads'[k - 1].epoch = h[k - 1].epoch
                 /\ rcu_heads'[k - 1].type = h[k - 1].type /\ h[k - 1].epoch \in Nat
    BY <1>2, <1>4, <2>0, Zenon DEF Entry
  <2>3. /\ pc[h[k].by] \in Linking /\ Protects(h[k].by, h[k].epoch)
        /\ k > 1 /\ h[k - 1].type = "NEXT" => Protects(h[k].by, h[k - 1].epoch)
    BY <2>1, Zenon DEF IInv, LinkProtected
  <2> QED  BY <1>6, <1>11, <2>1, <2>2, <2>3, Zenon DEF Protects, Others
<1>13. RefProtected'
  <2> SUFFICES ASSUME NEW u \in Threads, NEW k \in 1..Len(h),
                      rcu_heads'[k].type = "ITEM", rcu_heads'[k].obj \in refs[u]
               PROVE  Protects(u, rcu_heads[k].epoch)'
    BY <1>3, <1>4, Zenon DEF RefProtected
  <2>1. Protects(u, h[k].epoch) /\ h[k].epoch \in Nat /\ rcu_heads'[k].epoch = h[k].epoch
    BY <1>2, <1>4, Zenon DEF IInv, RefProtected, Entry
  <2> QED  BY <1>11, <2>1, Zenon DEF Protects
<1>14. Objects'
  <2>1. \A u \in Threads : Retired(u)' => Retired(u)
    BY <1>3, <1>5, <1>6, Zenon DEF Retired, Others
  <2>2. Fresh(rcu_heads)'
    <3>1. Fresh(h) /\ freed' = freed /\ ptr' = ptr
      BY <1>3, Zenon DEF IInv, Objects
    <3>2. \A k \in 1..Len(h) :
            /\ rcu_heads'[k].type = "ITEM" =>
                 /\ rcu_heads'[k].obj \in Items /\ rcu_heads'[k].obj < ptr
                 /\ rcu_heads'[k].obj \notin freed
            /\ rcu_heads'[k].type = "THREAD" => rcu_heads'[k].obj \in Threads
      BY <1>4, <3>1, Zenon DEF Fresh
    <3>3. \A j, k \in 1..Len(h) :
            rcu_heads'[j].type = "ITEM" /\ rcu_heads'[k].type = "ITEM"
              /\ rcu_heads'[j].obj = rcu_heads'[k].obj => j = k
      BY <1>4, <3>1, Zenon DEF Fresh
    <3> QED  BY <1>4, <3>1, <3>2, <3>3, Zenon DEF Fresh
  <2>3. \A u \in Threads : Retired(u) => \A k \in 1..Len(h) :
          rcu_heads'[k].type = "ITEM" => rcu_heads'[k].obj # pend[u]
    <3>1. \A u \in Threads : Retired(u) => \A k \in 1..Len(h) :
            h[k].type = "ITEM" => h[k].obj # pend[u]
      BY Zenon DEF IInv, Objects
    <3> QED  BY <1>4, <3>1, Zenon
  <2>4. freed' = freed /\ ptr' = ptr /\ refs' = refs /\ pend' = pend
    BY <1>3, Zenon
  <2> QED  BY <1>4, <2>1, <2>2, <2>3, <2>4, Zenon DEF IInv, Objects
<1>15. NoUseAfterFree'
  BY <1>3, Zenon DEF IInv, NoUseAfterFree
<1>16. Ending'
  <2>1. rcu_heads' = << >> <=> h = << >>
    BY <1>1, <1>2, <1>3, <1>4, SeqFacts, Zenon
  <2>2. h # << >> => Len(h) \in 1..Len(h)
    BY <1>2, SeqFacts
  <2> QED  BY <1>2, <1>3, <1>4, <1>8, <2>1, <2>2, Zenon DEF IInv, Ending
<1> QED
  BY <1>6, <1>7, <1>9, <1>10, <1>12, <1>13, <1>14, <1>15, <1>16, Zenon DEF IInv

-----------------------------------------------------------------------------
(* The invariant and the steps of one thread that leave the queue alone. *)

\* A step of thread t that touches neither the queue, the list of threads, the
\* counter nor the sweeper, and in which t lets go of its epoch only when it
\* looks at nothing and has nothing to link.

Local(t, l) ==
  /\ TypeOK' /\ Others(t) /\ pc'[t] = l /\ refs'[t] \subseteq refs[t]
  /\ UNCHANGED <<rcu_seq, queue, list, walk, rcu_active, ptr, frees, sweeper>>
  /\ refs'[t] # {} => rcu'[t] = rcu[t]
  /\ pc[t] \notin Linking \cup BumpLabels \cup {"join", "new", "ended"}
  /\ l \notin Linking \cup BumpLabels \cup {"join", "new", "enqueue"}
  /\ t = Main => pc[t] # "enqueue" /\ (ShuttingDown' <=> ShuttingDown)
  /\ l \in {"dirty_load", "dirty_store", "shut", "stop"} =>
       pc[t] \in {"dirty_load", "dirty_store", "shut", "stop"}
  /\ pend'[t] \in {NULL, pend[t]}

LEMMA LocalStep ==
  ASSUME IInv, NEW t \in Threads, NEW l \in Labels, Local(t, l),
         Places(t)', Holding(t)'
  PROVE  IInv'
<1> USE DEF queue, list, walk, frees, sweeper
<1>0. rcu_heads' = rcu_heads
  BY Zenon DEF Local
<1>1. TypeOK'
  BY Zenon DEF Local
<1>2. /\ pc'[t] = l /\ pc' \in [Threads -> Labels]
      /\ \A u \in Threads \ {t} :
           /\ pc'[u] = pc[u] /\ ret'[u] = ret[u] /\ rcu'[u] = rcu[u]
           /\ reg'[u] = reg[u] /\ depth'[u] = depth[u] /\ pend'[u] = pend[u]
           /\ refs'[u] = refs[u]
      /\ refs'[t] \subseteq refs[t]
  BY <1>1, Zenon DEF TypeOK, Local, Others
<1>3. \A u \in Threads : Places(u)' /\ Holding(u)'
  <2> TAKE u \in Threads
  <2>1. CASE u = t
    BY <2>1, Zenon
  <2>2. CASE u # t
    <3>1. Places(u) /\ Holding(u) /\ rcu_threads' = rcu_threads /\ rcu_seq' = rcu_seq
      BY Zenon DEF IInv, Local
    <3>2. /\ pc'[u] = pc[u] /\ ret'[u] = ret[u] /\ rcu'[u] = rcu[u]
          /\ reg'[u] = reg[u] /\ depth'[u] = depth[u] /\ pend'[u] = pend[u]
          /\ refs'[u] = refs[u]
      BY <1>2, <2>2, Zenon
    <3>3. Places(u)'
      BY <3>1, <3>2, Zenon DEF Places
    <3>4. Holding(u)'
      BY <3>1, <3>2, Zenon DEF Holding
    <3> QED  BY <3>3, <3>4, Zenon
  <2> QED  BY <2>1, <2>2, Zenon
<1>4. Bumping' = Bumping
  BY <1>2, Zenon DEF Bumping, Local
<1>5. Counting'
  <2>1. pc'[Main] = "join" <=> pc[Main] = "join"
    BY <1>2, Consts, Zenon DEF Local
  <2>2. ~rcu_active => \A u \in Threads \ {Main} : Gone(u)'
    BY <1>2, Zenon DEF IInv, Counting, Gone, Local
  <2>3. ~rcu_active => pc'[Main] \notin {"item_link", "dirty_load", "dirty_store", "shut", "stop"}
    BY <1>2, Consts, Zenon DEF IInv, Counting, Local, Linking
  <2>4. pend'[Main] = END => rcu_active
    BY <1>2, Consts, Zenon DEF IInv, Counting, Local
  <2>5. ShuttingDown' <=> ShuttingDown
    BY <1>2, Consts, Zenon DEF Local, ShuttingDown
  <2>6. ShuttingDown => \A u \in Threads \ {Main} : Gone(u)'
    BY <1>2, Zenon DEF IInv, Counting, Gone, Local
  <2> QED
    BY <1>4, <2>1, <2>2, <2>3, <2>4, <2>5, <2>6, Zenon DEF IInv, Counting, Counts, Local, Base
<1>6. Ordered'
  BY <1>2, Zenon DEF IInv, Ordered, Base, Local, Linking, BumpLabels
<1>7. \A u \in Threads, e \in Nat : Protects(u, e) /\ rcu'[u] = rcu[u] => Protects(u, e)'
  BY Zenon DEF Protects, Local
<1>8. \A u \in Threads : pc[u] \in Linking => u # t
  BY Zenon DEF Local
<1>9. LinkProtected' /\ RefProtected'
  <2>1. \A u \in Threads : pc[u] \in Linking => pc'[u] \in Linking
    BY <1>2, <1>8, Zenon
  <2>2. \A u \in Threads : refs'[u] \subseteq refs[u]
    BY <1>2, Zenon
  <2>3. \A u \in Threads : pc[u] \in Linking \/ refs'[u] # {} => rcu'[u] = rcu[u]
    BY <1>2, <1>8, Zenon DEF Local
  <2> QED  BY <1>0, <1>7, <2>1, <2>2, <2>3, SameQueue, Zenon
<1>11. Objects'
  <2>1. \A u \in Threads : Retired(u)' => Retired(u) /\ u # t
    BY <1>2, Zenon DEF Retired, Local
  <2>2. /\ rcu_heads' = rcu_heads /\ ptr' = ptr /\ freed' = freed
        /\ \A u \in Threads : refs'[u] \subseteq refs[u]
        /\ \A u \in Threads : Retired(u)' => Retired(u) /\ pend'[u] = pend[u]
    BY <1>2, <2>1, Zenon DEF Local
  <2> QED  BY <2>2, Zenon DEF IInv, Objects, Fresh
<1>12. NoUseAfterFree'
  BY <1>2, Zenon DEF IInv, NoUseAfterFree, Local
<1>13. Ending'
  <2>1. ShuttingDown' <=> ShuttingDown
    BY <1>2, Consts, Zenon DEF Local, ShuttingDown
  <2>2. (pc'[Main] = "enqueue" <=> pc[Main] = "enqueue")
        /\ (pc'[Main] = "join" <=> pc[Main] = "join")
    BY <1>2, Consts, Zenon DEF Local
  <2> QED  BY <2>1, <2>2, Zenon DEF IInv, Ending, Local
<1> QED
  BY <1>1, <1>3, <1>5, <1>6, <1>9, <1>11, <1>12, <1>13, Zenon DEF IInv

LEMMA CurStep ==
  ASSUME IInv, NEW t \in Threads, seqlock_cur(t)
  PROVE  IInv'
<1> USE DEF counters, queue, list, walk, life, client, frees, sweeper
<1>1. TypeOK /\ Places(t) /\ Holding(t) /\ Counting
  BY Zenon DEF IInv
<1>a. ~Gone(t) /\ pc[t] # "join"
  BY Zenon DEF Gone, seqlock_cur
<1>2. rcu_seq \in Nat \ {0}
  BY <1>a, <1>1, Running, Zenon
<1>3. TypeOK' /\ Others(t) /\ pc'[t] = "store"
  BY <1>1, Zenon DEF seqlock_cur, Others, Goto, TypeOK, Labels, Calls, Return, Places
<1>4. Local(t, pc'[t])
  BY <1>1, <1>3, Consts, Zenon DEF seqlock_cur, Local, Goto, TypeOK, Linking, BumpLabels,
     ShuttingDown, Places, Retiring
<1>5. Places(t)'
  BY <1>1, <1>2, <1>3, Consts, Zenon DEF seqlock_cur, Goto, TypeOK, Places, Holding, Retiring,
     Return
<1>6. Holding(t)'
  BY <1>1, <1>2, <1>3, Consts DEF seqlock_cur, Goto, TypeOK, Places, Holding, Retiring,
     Return
<1>7. pc'[t] \in Labels
  BY <1>3, Zenon DEF TypeOK
<1> QED  BY <1>4, <1>5, <1>6, <1>7, LocalStep, Zenon

LEMMA AcquireStep ==
  ASSUME IInv, NEW t \in Threads, seqlock_acquire_val(t)
  PROVE  IInv'
<1> USE DEF counters, queue, list, walk, life, client, frees, sweeper
<1>1. TypeOK /\ Places(t) /\ Holding(t) /\ Counting
  BY Zenon DEF IInv
<1>a. ~Gone(t) /\ pc[t] # "join"
  BY Zenon DEF Gone, seqlock_acquire_val
<1>2. rcu_seq \in Nat \ {0}
  BY <1>a, <1>1, Running, Zenon
<1>3. TypeOK' /\ Others(t) /\ pc'[t] \in {"maybe", "run", "next"}
  BY <1>1, Zenon DEF seqlock_acquire_val, Others, Goto, TypeOK, Labels, Calls, Return, Places
<1>4. Local(t, pc'[t])
  BY <1>1, <1>3, Consts, Zenon DEF seqlock_acquire_val, Local, Goto, TypeOK, Linking, BumpLabels,
     ShuttingDown, Places, Retiring
<1>5. Places(t)'
  BY <1>1, <1>2, <1>3, Consts, Zenon
    DEF seqlock_acquire_val, Goto, TypeOK, Places, Holding, Retiring, Return
<1>6. Holding(t)'
  BY <1>1, <1>2, <1>3, Consts, Zenon
    DEF seqlock_acquire_val, Goto, TypeOK, Places, Holding, Retiring, Return
<1>7. pc'[t] \in Labels
  BY <1>3, Zenon DEF TypeOK
<1> QED  BY <1>4, <1>5, <1>6, <1>7, LocalStep, Zenon

LEMMA MaybeStep ==
  ASSUME IInv, NEW t \in Threads, rcu_bump_maybe(t)
  PROVE  IInv'
<1> USE DEF counters, queue, list, walk, life, client, frees, sweeper
<1>1. TypeOK /\ Places(t) /\ Holding(t) /\ Counting
  BY Zenon DEF IInv
<1>a. ~Gone(t) /\ pc[t] # "join"
  BY Zenon DEF Gone, rcu_bump_maybe
<1>2. rcu_seq \in Nat \ {0}
  BY <1>a, <1>1, Running, Zenon
<1>3. TypeOK' /\ Others(t) /\ pc'[t] = "compare"
  BY <1>1, Zenon DEF rcu_bump_maybe, Others, Goto, TypeOK, Labels, Calls, Return, Places
<1>4. Local(t, pc'[t])
  BY <1>1, <1>3, Consts, Zenon DEF rcu_bump_maybe, Local, Goto, TypeOK, Linking, BumpLabels,
     ShuttingDown, Places, Retiring
<1>5. Places(t)'
  BY <1>1, <1>2, <1>3, Consts, Zenon DEF rcu_bump_maybe, Goto, TypeOK, Places, Holding, Retiring,
     Return
<1>6. Holding(t)'
  BY <1>1, <1>2, <1>3, Consts, Zenon DEF rcu_bump_maybe, Goto, TypeOK, Places, Holding, Retiring,
     Return
<1>7. pc'[t] \in Labels
  BY <1>3, Zenon DEF TypeOK
<1> QED  BY <1>4, <1>5, <1>6, <1>7, LocalStep, Zenon

LEMMA CompareStep ==
  ASSUME IInv, NEW t \in Threads, rcu_bump_compare(t)
  PROVE  IInv'
<1> USE DEF counters, queue, list, walk, life, client, frees, sweeper
<1>1. TypeOK /\ Places(t) /\ Holding(t) /\ Counting
  BY Zenon DEF IInv
<1>a. ~Gone(t) /\ pc[t] # "join"
  BY Zenon DEF Gone, rcu_bump_compare
<1>2. rcu_seq \in Nat \ {0}
  BY <1>a, <1>1, Running, Zenon
<1>3. TypeOK' /\ Others(t) /\ pc'[t] \in {"next", "load", "release"}
  <2>1. Others(t)
    BY <1>1, Zenon DEF rcu_bump_compare, Others, Goto, Return, TypeOK
  <2>2. ret[t] \in {"lock", "unlock"}
    BY <1>1, Zenon DEF rcu_bump_compare, Places
  <2>3. pc' \in [Threads -> Labels] /\ ret' \in [Threads -> Calls]
        /\ pc'[t] \in {"next", "load", "release"}
    BY <1>1, <2>2, Zenon DEF rcu_bump_compare, Goto, TypeOK, Labels, Calls, Return
  <2>4. reg' \in [Threads -> Nat]
    BY <1>1, Zenon DEF rcu_bump_compare, TypeOK
  <2> QED  BY <1>1, <2>1, <2>3, <2>4, Zenon DEF rcu_bump_compare, TypeOK
<1>4. Local(t, pc'[t])
  BY <1>1, <1>3, Consts, Zenon DEF rcu_bump_compare, Local, Goto, TypeOK, Linking, BumpLabels,
     ShuttingDown, Places, Retiring
<1>5. Places(t)' /\ Holding(t)'
  <2>1. /\ pc[t] = "compare" /\ ret[t] \in {"lock", "unlock"}
        /\ UNCHANGED <<rcu_seq, rcu_threads, rcu, depth, pend, refs>>
    BY <1>1, Zenon DEF rcu_bump_compare, Places
  <2>2. \/ pc'[t] = "next" /\ ret'[t] = ret[t]
        \/ ret[t] = "lock" /\ pc'[t] = "load" /\ ret'[t] = "relock"
        \/ ret[t] = "unlock" /\ pc'[t] = "release" /\ ret'[t] = "unlock"
    BY <1>1, <2>1, Zenon DEF rcu_bump_compare, Goto, TypeOK, Return, Calls
  <2>3. Places(t)'
    BY <1>1, <2>1, <2>2, Zenon DEF Places, Retiring
  <2>4. rcu[t] > 0 /\ (rcu_seq # 0 => rcu[t] <= rcu_seq) /\ (ret[t] = "unlock" => depth[t] = 0)
    BY <1>1, <2>1, Zenon DEF Holding
  <2>5. Holding(t)'
    BY <2>1, <2>2, <2>4, Zenon DEF Holding
  <2> QED  BY <2>3, <2>5, Zenon
<1>6. pc'[t] \in Labels
  BY <1>3, Zenon DEF TypeOK
<1> QED  BY <1>4, <1>5, <1>6, LocalStep, Zenon

LEMMA LockStep ==
  ASSUME IInv, NEW t \in Threads, rcu_read_lock(t)
  PROVE  IInv'
<1> USE DEF counters, queue, list, walk, life, client, frees, sweeper
<1>1. TypeOK /\ Places(t) /\ Holding(t) /\ Counting
  BY Zenon DEF IInv
<1>a. ~Gone(t) /\ pc[t] # "join"
  BY Zenon DEF Gone, rcu_read_lock
<1>2. rcu_seq \in Nat \ {0}
  BY <1>a, <1>1, Running, Zenon
<1>3. TypeOK' /\ Others(t) /\ pc'[t] \in {"run", "load"}
  <2>1. depth[t] \in Nat /\ MaxDepth \in Nat /\ pc[t] \in Labels
    BY <1>1, FrrcuAssumption, Zenon DEF TypeOK
  <2>2. CASE depth[t] > 0 /\ UNCHANGED <<pc, ret>>
    <3>1. depth[t] + 1 \in Nat
      BY <2>1, <2>2
    <3>2. depth' \in [Threads -> Nat] /\ \A u \in Threads \ {t} : depth'[u] = depth[u]
      BY <1>1, <3>1, Zenon DEF rcu_read_lock, TypeOK
    <3> QED  BY <1>1, <2>2, <3>2, Zenon DEF rcu_read_lock, Others, TypeOK
  <2>3. CASE depth[t] = 0 /\ Goto(t, "load") /\ ret' = [ret EXCEPT ![t] = "lock"]
    <3>1. depth[t] + 1 \in Nat
      BY <2>1, <2>3
    <3>2. depth' \in [Threads -> Nat] /\ \A u \in Threads \ {t} : depth'[u] = depth[u]
      BY <1>1, <3>1, Zenon DEF rcu_read_lock, TypeOK
    <3> QED
      BY <1>1, <2>3, <3>2, Zenon DEF rcu_read_lock, Others, Goto, TypeOK, Labels, Calls
  <2> QED  BY <2>2, <2>3, Zenon DEF rcu_read_lock
<1>4. Local(t, pc'[t])
  BY <1>1, <1>3, Consts, Zenon DEF rcu_read_lock, Local, Goto, TypeOK, Linking, BumpLabels,
     ShuttingDown, Places, Retiring
<1>5. /\ pc[t] = "run" /\ UNCHANGED <<rcu_seq, rcu_threads, rcu, reg, pend, refs>>
      /\ depth[t] \in Nat /\ depth'[t] = depth[t] + 1
      /\ \/ depth[t] > 0 /\ pc'[t] = "run" /\ ret'[t] = ret[t]
         \/ depth[t] = 0 /\ pc'[t] = "load" /\ ret'[t] = "lock"
  BY <1>1, Zenon DEF rcu_read_lock, Goto, TypeOK
<1>6. Places(t)' /\ Holding(t)'
  <2>1. /\ t = Main => pc'[t] \in {"run", "load"} /\ ret'[t] # "end"
        /\ t \in rcu_threads' /\ pend'[t] = NULL /\ depth'[t] > 0
    BY <1>1, <1>5 DEF Places, Retiring
  <2>2. pc'[t] = "load" => ret'[t] = "lock" /\ refs'[t] = {}
    BY <1>1, <1>5 DEF Places
  <2>3. pc'[t] \in {"run", "load"}
    BY <1>5, Zenon
  <2>4. pc'[t] = "run" => rcu'[t] > 0
    BY <1>1, <1>5, Zenon DEF Holding
  <2>5. rcu_seq' # 0 => rcu'[t] <= rcu_seq'
    BY <1>1, <1>5, Zenon DEF Holding
  <2>6. Places(t)'
    BY <2>1, <2>2, <2>3, Consts, Zenon DEF Places, Retiring
  <2>7. Holding(t)'
    BY <2>2, <2>3, <2>4, <2>5, Zenon DEF Holding, Retiring
  <2> QED  BY <2>6, <2>7, Zenon
<1>7. pc'[t] \in Labels
  BY <1>3, Zenon DEF TypeOK
<1> QED  BY <1>4, <1>6, <1>7, LocalStep, Zenon

LEMMA UnlockStep ==
  ASSUME IInv, NEW t \in Threads, rcu_read_unlock(t)
  PROVE  IInv'
<1> USE DEF counters, queue, list, walk, life, client, frees, sweeper
<1>1. TypeOK /\ Places(t) /\ Holding(t) /\ Counting
  BY Zenon DEF IInv
<1>a. ~Gone(t) /\ pc[t] # "join"
  BY Zenon DEF Gone, rcu_read_unlock
<1>2. rcu_seq \in Nat \ {0}
  BY <1>a, <1>1, Running, Zenon
<1>3. TypeOK' /\ Others(t) /\ pc'[t] \in {"run", "maybe"}
  <2>1. depth[t] \in Nat /\ MaxDepth \in Nat /\ pc[t] \in Labels
    BY <1>1, FrrcuAssumption, Zenon DEF TypeOK
  <2>2. CASE depth[t] > 1 /\ UNCHANGED <<pc, ret, refs>>
    <3>1. depth[t] - 1 \in Nat
      BY <2>1, <2>2
    <3>2. depth' \in [Threads -> Nat] /\ \A u \in Threads \ {t} : depth'[u] = depth[u]
      BY <1>1, <3>1, Zenon DEF rcu_read_unlock, TypeOK
    <3> QED  BY <1>1, <2>2, <3>2, Zenon DEF rcu_read_unlock, Others, TypeOK
  <2>3. CASE /\ depth[t] = 1
             /\ Goto(t, "maybe") /\ ret' = [ret EXCEPT ![t] = "unlock"]
             /\ refs' = [refs EXCEPT ![t] = {}]
    <3>1. depth[t] - 1 \in Nat
      BY <2>1, <2>3
    <3>2. depth' \in [Threads -> Nat] /\ \A u \in Threads \ {t} : depth'[u] = depth[u]
      BY <1>1, <3>1, Zenon DEF rcu_read_unlock, TypeOK
    <3> QED
      BY <1>1, <2>3, <3>2, Zenon DEF rcu_read_unlock, Others, Goto, TypeOK, Labels, Calls
  <2> QED  BY <2>2, <2>3, Zenon DEF rcu_read_unlock
<1>b. UNCHANGED <<rcu_seq, queue, list, walk, rcu_active, ptr, frees, sweeper>>
  BY Zenon DEF rcu_read_unlock
<1>c. /\ pc[t] = "run" /\ refs'[t] \subseteq refs[t] /\ pend' = pend
      /\ rcu'[t] = rcu[t]
  BY <1>1, Zenon DEF rcu_read_unlock, TypeOK
<1>4. Local(t, pc'[t])
  BY <1>3, <1>b, <1>c, Consts, Zenon DEF Local, Linking, BumpLabels, ShuttingDown
<1>5. Places(t)' /\ Holding(t)'
  <2>1. pc[t] = "run" /\ depth[t] \in Nat /\ depth[t] > 0 /\ depth'[t] = depth[t] - 1
    BY <1>1, Zenon DEF rcu_read_unlock, TypeOK
  <2>2. /\ UNCHANGED <<rcu_seq, rcu_threads, rcu, reg, pend>>
        /\ \/ depth[t] > 1 /\ UNCHANGED <<pc, ret, refs>>
           \/ depth[t] = 1 /\ pc'[t] = "maybe" /\ ret'[t] = "unlock" /\ refs'[t] = {}
    BY <1>1, Zenon DEF rcu_read_unlock, Goto, TypeOK
  <2>3. CASE depth[t] > 1 /\ UNCHANGED <<pc, ret, refs>>
    <3>1. depth'[t] > 0 /\ pc'[t] = "run"
      BY <2>1, <2>3
    <3>2. Places(t)'
      BY <1>1, <2>2, <2>3, <3>1, Zenon DEF Places
    <3>3. rcu'[t] > 0 /\ (rcu_seq' # 0 => rcu'[t] <= rcu_seq')
      BY <1>1, <2>1, <2>2, Zenon DEF Holding
    <3>4. Holding(t)'
      BY <3>1, <3>3, Zenon DEF Holding
    <3> QED  BY <3>2, <3>4, Zenon
  <2>4. CASE depth[t] = 1 /\ pc'[t] = "maybe" /\ ret'[t] = "unlock" /\ refs'[t] = {}
    <3>1. depth'[t] = 0
      BY <2>1, <2>4
    <3>2. /\ pend'[t] = NULL /\ t \in rcu_threads'
      BY <1>1, <2>1, <2>2, Zenon DEF Places, Retiring
    <3>3. Places(t)'
      BY <2>4, <3>2, Consts, Zenon DEF Places, Retiring
    <3>4. rcu'[t] > 0 /\ (rcu_seq' # 0 => rcu'[t] <= rcu_seq')
      BY <1>1, <2>1, <2>2, Zenon DEF Holding
    <3>5. Holding(t)'
      BY <2>4, <3>1, <3>4, Zenon DEF Holding
    <3> QED  BY <3>3, <3>5, Zenon
  <2> QED  BY <2>2, <2>3, <2>4, Zenon
<1>6. pc'[t] \in Labels
  BY <1>3, Zenon DEF TypeOK
<1> QED  BY <1>4, <1>5, <1>6, LocalStep, Zenon

LEMMA ReleaseStep ==
  ASSUME IInv, NEW t \in Threads, seqlock_release(t)
  PROVE  IInv'
<1> USE DEF counters, queue, list, walk, life, client, frees, sweeper
<1>1. TypeOK /\ Places(t) /\ Holding(t) /\ Counting
  BY Zenon DEF IInv
<1>a. ~Gone(t) /\ pc[t] # "join"
  BY Zenon DEF Gone, seqlock_release
<1>2. rcu_seq \in Nat \ {0}
  BY <1>a, <1>1, Running, Zenon
<1>3. TypeOK' /\ Others(t) /\ pc'[t] \in {"run", "ended"}
  BY <1>1, Zenon DEF seqlock_release, Others, Goto, TypeOK, Labels, Calls, Return, Places
<1>4. Local(t, pc'[t])
  BY <1>1, <1>3, Consts, Zenon DEF seqlock_release, Local, Goto, TypeOK, Linking, BumpLabels,
     ShuttingDown, Places, Retiring
<1>5. Places(t)'
  BY <1>1, <1>2, <1>3, Consts, Zenon DEF seqlock_release, Goto, TypeOK, Places, Holding, Retiring,
     Return
<1>6. Holding(t)'
  BY <1>1, <1>2, <1>3, Consts DEF seqlock_release, Goto, TypeOK, Places, Holding, Retiring,
     Return
<1>7. pc'[t] \in Labels
  BY <1>3, Zenon DEF TypeOK
<1> QED  BY <1>4, <1>5, <1>6, <1>7, LocalStep, Zenon

LEMMA DirtyLoadStep ==
  ASSUME IInv, NEW t \in Threads, rcu_dirty_load(t)
  PROVE  IInv'
<1> USE DEF counters, queue, list, walk, life, client, frees, sweeper
<1>1. TypeOK /\ Places(t) /\ Holding(t) /\ Counting
  BY Zenon DEF IInv
<1>a. ~Gone(t) /\ pc[t] # "join"
  BY Zenon DEF Gone, rcu_dirty_load
<1>2. rcu_seq \in Nat \ {0}
  BY <1>a, <1>1, Running, Zenon
<1>3. TypeOK' /\ Others(t) /\ pc'[t] = "dirty_store"
  BY <1>1, Zenon DEF rcu_dirty_load, Others, Goto, TypeOK, Labels, Calls, Return, Places
<1>4. Local(t, pc'[t])
  BY <1>1, <1>3, Consts, Zenon DEF rcu_dirty_load, Local, Goto, TypeOK, Linking, BumpLabels,
     ShuttingDown, Places, Retiring
<1>5. Places(t)'
  BY <1>1, <1>2, <1>3, Consts, Zenon DEF rcu_dirty_load, Goto, TypeOK, Places, Holding, Retiring,
     Return
<1>6. Holding(t)'
  BY <1>1, <1>2, <1>3, Consts, Zenon DEF rcu_dirty_load, Goto, TypeOK, Places, Holding, Retiring,
     Return
<1>7. pc'[t] \in Labels
  BY <1>3, Zenon DEF TypeOK
<1> QED  BY <1>4, <1>5, <1>6, <1>7, LocalStep, Zenon

LEMMA DirtyStoreStep ==
  ASSUME IInv, NEW t \in Threads, rcu_dirty_store(t)
  PROVE  IInv'
<1> USE DEF counters, queue, list, walk, life, client, frees, sweeper
<1>1. TypeOK /\ Places(t) /\ Holding(t) /\ Counting
  BY Zenon DEF IInv
<1>a. ~Gone(t) /\ pc[t] # "join"
  BY Zenon DEF Gone, rcu_dirty_store
<1>2. rcu_seq \in Nat \ {0}
  BY <1>a, <1>1, Running, Zenon
<1>3. TypeOK' /\ Others(t) /\ pc'[t] \in {"run", "shut"}
  BY <1>1, Zenon DEF rcu_dirty_store, Others, Goto, TypeOK, Labels, Calls, Return, Places
<1>4. Local(t, pc'[t])
  BY <1>1, <1>3, Consts, Zenon DEF rcu_dirty_store, Local, Goto, TypeOK, Linking, BumpLabels,
     ShuttingDown, Places, Retiring
<1>5. Places(t)'
  BY <1>1, <1>2, <1>3, Consts, Zenon DEF rcu_dirty_store, Goto, TypeOK, Places, Holding, Retiring,
     Return
<1>6. Holding(t)'
  BY <1>1, <1>2, <1>3, Consts, Zenon DEF rcu_dirty_store, Goto, TypeOK, Places, Holding, Retiring,
     Return
<1>7. pc'[t] \in Labels
  BY <1>3, Zenon DEF TypeOK
<1> QED  BY <1>4, <1>5, <1>6, <1>7, LocalStep, Zenon

LEMMA UnprepareStep ==
  ASSUME IInv, NEW t \in Threads, rcu_thread_unprepare(t)
  PROVE  IInv'
<1> USE DEF counters, queue, list, walk, life, client, frees, sweeper
<1>1. TypeOK /\ Places(t) /\ Holding(t) /\ Counting
  BY Zenon DEF IInv
<1>a. ~Gone(t) /\ pc[t] # "join"
  BY Zenon DEF Gone, rcu_thread_unprepare
<1>2. rcu_seq \in Nat \ {0}
  BY <1>a, <1>1, Running, Zenon
<1>3. TypeOK' /\ Others(t) /\ pc'[t] = "load"
  BY <1>1, Zenon DEF rcu_thread_unprepare, Others, Goto, TypeOK, Labels, Calls, Return, Places
<1>4. Local(t, pc'[t])
  BY <1>1, <1>3, Consts, Zenon DEF rcu_thread_unprepare, Local, Goto, TypeOK, Linking, BumpLabels,
     ShuttingDown, Places, Retiring
<1>5. Places(t)'
  BY <1>1, <1>2, <1>3, Consts, Zenon
    DEF rcu_thread_unprepare, Goto, TypeOK, Places, Holding, Retiring, Return
<1>6. Holding(t)'
  BY <1>1, <1>2, <1>3, Consts, Zenon
    DEF rcu_thread_unprepare, Goto, TypeOK, Places, Holding, Retiring, Return
<1>7. pc'[t] \in Labels
  BY <1>3, Zenon DEF TypeOK
<1> QED  BY <1>4, <1>5, <1>6, <1>7, LocalStep, Zenon

LEMMA ShutReleaseStep ==
  ASSUME IInv, rcu_shutdown_release
  PROVE  IInv'
<1> DEFINE t == Main
<1>0. t \in Threads
  BY Consts, Zenon
<1> USE DEF counters, queue, list, walk, life, client, frees, sweeper
<1>1. TypeOK /\ Places(t) /\ Holding(t) /\ Counting
  BY <1>0, Zenon DEF IInv
<1>a. ~Gone(t) /\ pc[t] # "join"
  BY Zenon DEF Gone, rcu_shutdown_release
<1>2. rcu_seq \in Nat \ {0}
  BY <1>0, <1>a, <1>1, Running, Zenon
<1>3. TypeOK' /\ Others(t) /\ pc'[t] = "stop"
  BY <1>0, <1>1, Zenon DEF rcu_shutdown_release, Others, Goto, TypeOK, Labels, Calls, Return, Places
<1>4. Local(t, pc'[t])
  BY <1>0, <1>1, <1>3, Consts, Zenon
    DEF rcu_shutdown_release, Local, Goto, TypeOK, Linking, BumpLabels, ShuttingDown, Places,
        Retiring
<1>5. Places(t)'
  BY <1>0, <1>1, <1>2, <1>3, Consts, Zenon
    DEF rcu_shutdown_release, Goto, TypeOK, Places, Holding, Retiring, Return
<1>6. Holding(t)'
  BY <1>0, <1>1, <1>2, <1>3, Consts
    DEF rcu_shutdown_release, Goto, TypeOK, Places, Holding, Retiring, Return
<1>7. pc'[t] \in Labels
  BY <1>0, <1>3, Zenon DEF TypeOK
<1> QED  BY <1>0, <1>4, <1>5, <1>6, <1>7, LocalStep, Zenon

LEMMA BumpStep ==
  ASSUME IInv, NEW t \in Threads, seqlock_bump(t), Counts'
  PROVE  IInv'
<1> USE DEF queue, list, walk, life, client, frees, sweeper
<1>1. TypeOK /\ Places(t) /\ Holding(t) /\ Counting
  BY Zenon DEF IInv
<1>a. ~Gone(t) /\ pc[t] # "join" /\ pc[t] = "bump"
  BY Zenon DEF Gone, seqlock_bump
<1>2. rcu_seq \in Nat \ {0} /\ pc[Main] # "join" /\ pc[t] = "bump"
  BY <1>a, <1>1, Running, Zenon
<1>3. TypeOK' /\ Others(t) /\ pc'[t] \in {"load", "release", "free"}
  <2>1. pc' \in [Threads -> Labels] /\ ret' \in [Threads -> Calls]
        /\ pc'[t] \in {"load", "release", "free"}
    BY <1>1, <1>2, Zenon DEF seqlock_bump, Goto, TypeOK, Labels, Calls, Return, Places
  <2>2. Others(t)
    BY <1>1, Zenon DEF seqlock_bump, Others, Goto, TypeOK, Return
  <2>3. rcu_seq' \in Nat
    BY <1>2 DEF seqlock_bump
  <2> QED  BY <1>1, <2>1, <2>2, <2>3, Zenon DEF seqlock_bump, TypeOK
<1>4. /\ rcu_seq' = rcu_seq + 1 /\ rcu_heads' = rcu_heads
      /\ UNCHANGED <<rcu_dirty, queue, list, walk, life, rcu, depth, reg, pend, client,
                     frees, sweeper>>
  BY Zenon DEF seqlock_bump
<1>5. Places(t)' /\ Holding(t)'
  <2>0. \/ ret[t] = "lock" /\ pc'[t] = "load" /\ ret'[t] = "relock"
        \/ ret[t] = "unlock" /\ pc'[t] = "release" /\ ret'[t] = "unlock"
        \/ ret[t] = "end" /\ pc'[t] = "free" /\ ret'[t] = "end"
    BY <1>1, <1>2, Zenon DEF seqlock_bump, Goto, TypeOK, Places, Return, Calls
  <2>1. Places(t)'
    BY <1>1, <1>2, <1>4, <2>0, Zenon DEF Places, Retiring
  <2>2. rcu[t] > 0 /\ rcu[t] \in Nat /\ rcu'[t] = rcu[t] /\ rcu'[t] <= rcu_seq'
    BY <1>1, <1>2, <1>4 DEF TypeOK, Holding
  <2> QED  BY <1>1, <1>2, <1>3, <1>4, <2>0, <2>1, <2>2, Zenon DEF Holding
<1>6. \A u \in Threads : Places(u)' /\ Holding(u)'
  <2> TAKE u \in Threads
  <2>1. CASE u = t
    BY <1>5, <2>1, Zenon
  <2>2. CASE u # t
    <3>1. Places(u) /\ Holding(u) /\ rcu[u] \in Nat /\ reg[u] \in Nat
      BY <1>1, Zenon DEF IInv, TypeOK
    <3>2. Places(u)'
      BY <1>3, <1>4, <2>2, <3>1, Zenon DEF Places, Others
    <3>3. rcu'[u] = rcu[u] /\ reg'[u] = reg[u] /\ pc'[u] = pc[u] /\ ret'[u] = ret[u]
          /\ depth'[u] = depth[u] /\ rcu_seq' = rcu_seq + 1
      BY <1>3, <1>4, <2>2, Zenon DEF Others
    <3>5. rcu_seq # 0 /\ rcu_seq' # 0
      BY <1>2, <3>3
    <3>6. rcu[u] <= rcu_seq => rcu[u] <= rcu_seq'
      BY <1>2, <3>1, <3>3
    <3>7. reg[u] <= rcu_seq => reg[u] <= rcu_seq'
      BY <1>2, <3>1, <3>3
    <3>4. Holding(u)'
      BY <3>1, <3>3, <3>5, <3>6, <3>7, Zenon DEF Holding
    <3> QED  BY <3>2, <3>4, Zenon
  <2> QED  BY <2>1, <2>2, Zenon
<1>7. Counting'
  <2>5. ShuttingDown' <=> ShuttingDown
    BY <1>2, <1>3, <1>4, Consts, Zenon DEF ShuttingDown, Others
  <2>6. Base' = Base /\ Base \in Nat /\ rcuval \in Nat
    BY <1>1, <1>4, Zenon DEF Base, STARTVAL, TypeOK
  <2>7. \A u \in Threads : Gone(u) => Gone(u)'
    BY <1>2, <1>3, Zenon DEF Gone, Others
  <2>8. rcu_seq' # 0 /\ Base' <= rcu_seq' /\ (rcu_seq > rcuval => rcu_seq' > rcuval')
    <3>1. Base <= rcu_seq
      BY <1>1, <1>2, Zenon DEF Counting
    <3>2. rcuval' = rcuval
      BY <1>4, Zenon
    <3> QED  BY <1>2, <1>4, <2>6, <3>1, <3>2
  <2>9. pc'[Main] \in {"join", "shut", "stop", "item_link", "dirty_load", "dirty_store"}
          => pc'[Main] = pc[Main]
    BY <1>2, <1>3, Consts, Zenon DEF Others
  <2>10. pend'[Main] = pend[Main] /\ rcu_active' = rcu_active /\ spc' = spc
    BY <1>4, Zenon
  <2>11. pc'[Main] # "join"
    BY <1>2, <2>9, Zenon
  <2> QED
    BY <1>1, <1>2, <2>5, <2>7, <2>8, <2>9, <2>10, <2>11, Zenon DEF Counting
<1>8. Ordered'
  BY <1>2, <1>3, <1>4, Zenon DEF IInv, Ordered, Base, Others
<1>9. \A u \in Threads, e \in Nat : Protects(u, e) => Protects(u, e)'
  BY <1>4, Zenon DEF Protects
<1>10. LinkProtected' /\ RefProtected'
  <2>1. \A u \in Threads : pc[u] \in Linking => pc'[u] \in Linking
    BY <1>2, <1>3, Zenon DEF Linking, Others
  <2> QED  BY <1>4, <1>9, <2>1, SameQueue, Zenon
<1>13. Objects'
  <2>1. \A u \in Threads : Retired(u)' => Retired(u)
    BY <1>3, <1>4, Zenon DEF Retired, Others
  <2> QED  BY <1>4, <2>1, Zenon DEF IInv, Objects, Fresh
<1>14. NoUseAfterFree'
  BY <1>4, Zenon DEF IInv, NoUseAfterFree
<1>15. Ending'
  <2>1. ShuttingDown' <=> ShuttingDown
    BY <1>2, <1>3, <1>4, Consts, Zenon DEF ShuttingDown, Others
  <2>2. (pc'[Main] = "enqueue" <=> pc[Main] = "enqueue")
        /\ (pc'[Main] = "join" <=> pc[Main] = "join")
    BY <1>2, <1>3, Consts, Zenon DEF Others
  <2> QED  BY <1>4, <2>1, <2>2, Zenon DEF IInv, Ending
<1> QED
  BY <1>3, <1>6, <1>7, <1>8, <1>10, <1>13, <1>14, <1>15, Zenon DEF IInv

-----------------------------------------------------------------------------
(* Steps that change neither the counter nor the threads that owe it a step. *)

Kept == Bumping' = Bumping /\ nmarks' = nmarks /\ rcu_seq' = rcu_seq

LEMMA KeptStep ==
  ASSUME TypeOK, NEW t \in Threads, NEW l, Goto(t, l),
         pc[t] \in BumpLabels <=> l \in BumpLabels
  PROVE  Bumping' = Bumping
<1>1. \A u \in Threads : pc'[u] = IF u = t THEN l ELSE pc[u]
  BY Zenon DEF Goto, TypeOK
<1> QED  BY <1>1, Zenon DEF Bumping

LEMMA KeptInside ==
  ASSUME TypeOK, NEW t \in Threads, Places(t), Inside(t),
         ~rcu_bump_next(t), ~seqlock_bump(t), ~rcu_thread_start(t)
  PROVE  Kept
<1> USE DEF counters, queue, BumpLabels, Kept
<1>1. CASE seqlock_cur(t)
  BY <1>1, KeptStep, Zenon DEF seqlock_cur
<1>2. CASE seqlock_acquire_val(t)
  <2>1. PICK l \in {"maybe", "run", "next"} : Goto(t, l)
    BY <1>2, Zenon DEF seqlock_acquire_val, Places
  <2> QED  BY <1>2, <2>1, KeptStep, Zenon DEF seqlock_acquire_val
<1>3. CASE rcu_bump_maybe(t)
  BY <1>3, KeptStep, Zenon DEF rcu_bump_maybe
<1>4. CASE rcu_bump_compare(t)
  <2>1. PICK l \in {"next", "load", "release"} : Goto(t, l)
    BY <1>4, Zenon DEF rcu_bump_compare, Return, Places
  <2> QED  BY <1>4, <2>1, KeptStep, Zenon DEF rcu_bump_compare
<1>5. CASE rcu_bump_free(t)
  BY <1>5, KeptStep, Zenon DEF rcu_bump_free, AddTail
<1>6. CASE atomlist_link(t)
  <2>1. PICK l \in {"rn", "bump", "dirty_load", "del"} :
          Goto(t, l) /\ (pc[t] \in BumpLabels <=> l \in BumpLabels)
    BY <1>6, Zenon DEF atomlist_link
  <2> QED  BY <1>6, <2>1, KeptStep, Zenon DEF atomlist_link
<1>7. CASE seqlock_release(t)
  <2>1. PICK l \in {"ended", "run"} : Goto(t, l)
    BY <1>7, Zenon DEF seqlock_release
  <2> QED  BY <1>7, <2>1, KeptStep, Zenon DEF seqlock_release
<1>8. CASE rcu_enqueue(t)
  <2>1. PICK l \in {"run", "item_link"} : Goto(t, l)
    BY <1>8, Zenon DEF rcu_enqueue
  <2>2. nmarks' = nmarks /\ rcu_seq' = rcu_seq
    BY <1>8, Zenon DEF rcu_enqueue, AddTail
  <2> QED  BY <1>8, <2>1, <2>2, KeptStep, Zenon DEF rcu_enqueue
<1>9. CASE rcu_dirty_load(t)
  BY <1>9, KeptStep, Zenon DEF rcu_dirty_load
<1>10. CASE rcu_dirty_store(t)
  <2>1. PICK l \in {"shut", "run"} : Goto(t, l)
    BY <1>10, Zenon DEF rcu_dirty_store
  <2> QED  BY <1>10, <2>1, KeptStep, Zenon DEF rcu_dirty_store
<1>11. CASE rcu_thread_register(t)
  BY <1>11, KeptStep, Zenon DEF rcu_thread_register
<1>12. CASE rcu_thread_free(t)
  BY <1>12, KeptStep, Zenon DEF rcu_thread_free, AddTail
<1>13. CASE rcu_threads_del(t)
  BY <1>13, KeptStep, Zenon DEF rcu_threads_del
<1> QED
  BY <1>1, <1>2, <1>3, <1>4, <1>5, <1>6, <1>7, <1>8, <1>9, <1>10, <1>11, <1>12, <1>13, Zenon
  DEF Inside

LEMMA KeptCall ==
  ASSUME TypeOK, NEW t \in Threads, Call(t)
  PROVE  Kept
<1> USE DEF counters, queue, BumpLabels, Kept
<1>1. CASE rcu_read_lock(t)
  <2>1. (pc' = pc) \/ Goto(t, "load")
    BY <1>1, Zenon DEF rcu_read_lock
  <2> QED  BY <1>1, <2>1, KeptStep, Zenon DEF rcu_read_lock, Bumping
<1>2. CASE rcu_read_unlock(t)
  <2>1. (pc' = pc) \/ Goto(t, "maybe")
    BY <1>2, Zenon DEF rcu_read_unlock
  <2> QED  BY <1>2, <2>1, KeptStep, Zenon DEF rcu_read_unlock, Bumping
<1>3. CASE Access(t)
  BY <1>3, Zenon DEF Access, Bumping
<1>4. CASE Replace(t)
  BY <1>4, KeptStep, Zenon DEF Replace
<1>5. ASSUME NEW u \in Threads, rcu_thread_prepare(t, u) PROVE Kept
  <2>1. \A w \in Threads :
          pc'[w] = IF w = u THEN "born" ELSE IF w = t THEN "spawn" ELSE pc[w]
    BY <1>5, Zenon DEF rcu_thread_prepare, TypeOK
  <2>2. pc[t] = "run" /\ pc[u] = "new"
    BY <1>5, Zenon DEF rcu_thread_prepare
  <2>3. Bumping' = Bumping
    BY <2>1, <2>2, Zenon DEF Bumping
  <2> QED  BY <1>5, <2>3, Zenon DEF rcu_thread_prepare
<1>6. CASE rcu_thread_new(t)
  BY <1>6, KeptStep, Zenon DEF rcu_thread_new
<1>7. CASE rcu_thread_unprepare(t)
  BY <1>7, KeptStep, Zenon DEF rcu_thread_unprepare
<1> QED  BY <1>1, <1>2, <1>3, <1>4, <1>5, <1>6, <1>7, Zenon DEF Call

-----------------------------------------------------------------------------
(* The initial state, and a step of something else. *)

LEMMA InitInv ==
  ASSUME Init
  PROVE  IInv
<1>1. /\ rcu_seq = 1 /\ nmarks = 1 /\ rcu_heads = << >> /\ Len(rcu_heads) = 0
      /\ spc = "off" /\ rcu_active = FALSE /\ end = FALSE
  BY SeqFacts, Zenon DEF Init, STARTVAL
<1>2. TypeOK
  <2>1. << >> \in Seq(Entry) /\ 1 \in Items
    BY SeqFacts, FrrcuAssumption DEF Items
  <2>2. rcu_active \in BOOLEAN /\ end \in BOOLEAN
    BY <1>1, Zenon
  <2> QED  BY <2>1, <2>2, Consts, Zenon DEF Init, TypeOK, STARTVAL, Labels, Calls
<1>3. \A t \in Threads : Places(t) /\ Holding(t)
  BY Consts DEF Init, Places, Holding, Retiring, STARTVAL
<1>4. ~ShuttingDown /\ \A t \in Threads \ {Main} : Gone(t)
  BY Consts, Zenon DEF ShuttingDown, Init, Gone
<1>5. Counting
  <2>1. Bumping = {}
    BY Zenon DEF Bumping, BumpLabels, Init
  <2>2. Counts
    BY <1>1, <2>1 DEF Counts
  <2>3. pc[Main] = "run" /\ pend[Main] = NULL
    BY Consts, Zenon DEF Init
  <2> QED  BY <1>1, <1>4, <2>2, <2>3, Consts DEF Counting, Base, STARTVAL
<1>6. Ordered
  BY <1>1 DEF Ordered, Sorted, Base, STARTVAL
<1>7. LinkProtected /\ RefProtected /\ Ending
  BY <1>1, <1>4 DEF LinkProtected, RefProtected, Ending
<1>8. Objects /\ NoUseAfterFree
  <2>1. \A t \in Threads : ~Retired(t) /\ refs[t] = {}
    BY Zenon DEF Init, Retired
  <2>2. freed = {}
    BY Zenon DEF Init
  <2> QED  BY <1>1, <2>1, <2>2 DEF Objects, Fresh, NoUseAfterFree
<1> QED  BY <1>2, <1>3, <1>5, <1>6, <1>7, <1>8, Zenon DEF IInv

LEMMA StutterInv ==
  ASSUME IInv, UNCHANGED vars
  PROVE  IInv'
<1> USE DEF counters, queue, list, walk, life, client, frees, sweeper
<1>1. /\ UNCHANGED <<rcu_seq, rcu_dirty, rcu_heads, nmarks, rcu_threads, cur, todo>>
      /\ UNCHANGED <<rcu_active, nshut, rcu, depth, pc, ret, reg, pend, ptr, refs>>
      /\ UNCHANGED <<last, adder, up>>
      /\ UNCHANGED <<freed, rt_freed, spc, rcuval, end>>
  BY Zenon DEF vars
<1>2. TypeOK' /\ \A t \in Threads : Places(t)' /\ Holding(t)'
  <2>1. TypeOK' <=> TypeOK
    BY <1>1, Zenon DEF TypeOK
  <2>2. ASSUME NEW t \in Threads
        PROVE  (Places(t)' <=> Places(t)) /\ (Holding(t)' <=> Holding(t))
    <3>1. Places(t)' <=> Places(t)
      BY <1>1, Zenon DEF Places
    <3>2. Holding(t)' <=> Holding(t)
      BY <1>1, Zenon DEF Holding
    <3> QED  BY <3>1, <3>2, Zenon
  <2> QED  BY <2>1, <2>2, Zenon DEF IInv
<1>3. Bumping' = Bumping /\ Base' = Base /\ (ShuttingDown' <=> ShuttingDown)
      /\ \A t \in Threads : (Gone(t)' <=> Gone(t)) /\ (Retired(t)' <=> Retired(t))
  BY <1>1, Zenon DEF Bumping, Base, ShuttingDown, Gone, Retired
<1>4. Counting' /\ Ordered' /\ Ending' /\ NoUseAfterFree'
  BY <1>1, <1>3, Zenon DEF IInv, Counting, Counts, Ordered, Ending, NoUseAfterFree
<1>5. Objects'
  BY <1>1, <1>3, Zenon DEF IInv, Objects, Fresh
<1>6. LinkProtected' /\ RefProtected'
  <2>1. \A u \in Threads, e \in Nat : Protects(u, e) => Protects(u, e)'
    BY <1>1, Zenon DEF Protects
  <2> QED  BY <1>1, <2>1, SameQueue, Zenon
<1> QED  BY <1>2, <1>4, <1>5, <1>6, Zenon DEF IInv

=============================================================================
