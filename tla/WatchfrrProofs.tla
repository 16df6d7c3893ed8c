--------------------------- MODULE WatchfrrProofs ---------------------------
(* Proofs about Watchfrr: what it counts is what there is, and the commands it *)
(* begins are justified.                                                       *)
EXTENDS Watchfrr, TLAPS, FiniteSetTheorems

\* What struct global_state may hold.
Memory ==
  [phase : {"NONE", "INIT"}, numdown : Nat, numpids : Nat,
   ready : {"no", "ok", "timeout", "exit"}, reading : BOOLEAN,
   dmn : [Daemons -> Daemon], restart : [Entries -> Restart]]

Down(g) == {d \in Daemons : ~IS_UP(g.dmn[d])}
Pids(g) == {r \in Entries : g.restart[r].pid}

\* Both counters are exact.
Counts(g) == g.numdown = Cardinality(Down(g)) /\ g.numpids = Cardinality(Pids(g))

Asked == {"asked", "answered", "final", "garbage", "eof"}

\* The timer of a daemon, its state and its descriptor go together.
Sane(x) ==
  /\ x.t_wakeup = "init" => x.state = "INIT"
  /\ x.t_wakeup = "down" => x.state = "DOWN"
  /\ x.t_wakeup \in {"echo", "no_answer", "unresponsive"} => IS_UP(x)
  /\ x.t_wakeup \in {"no_answer", "unresponsive"} => x.fd \in Asked
  /\ IS_UP(x) <=> x.fd \notin {"none", "error"}
  /\ x.state \in {"INIT", "DOWN"} => x.fd = "none"

\* Nothing is left over from before startup ended.
Starting(g) == g.phase = "INIT" <=> \E d \in Daemons : g.dmn[d].state = "INIT"

\* The end of a connection is read before the daemon is started again.
Seen(x, p) == (x.fd # "none" => x.t_read) /\ (x.fd \in {"final", "eof"} => p = "dead")

\* The inductive invariant.
IInv ==
  /\ Typed /\ Counts(gs) /\ \A d \in Daemons : Sane(gs.dmn[d])
  /\ Starting(gs)
  /\ \A r \in Entries : gs.restart[r].pid <=> child[r] # "none"
  /\ gs.phase = "INIT" =>
       /\ Pids(gs) = {}
       /\ \A d \in Daemons : gs.dmn[d].state = "DOWN" => proc[d] = "dead"
  /\ \A d \in Daemons : gs.dmn[d].ignore => d \in ignored
  /\ \A d \in Daemons \ ignored : Seen(gs.dmn[d], proc[d])

-----------------------------------------------------------------------------
(* Records and counters. *)

LEMMA Counting ==
  ASSUME NEW S \in SUBSET Entries
  PROVE  /\ Cardinality(S) \in Nat
         /\ Cardinality(S) = 0 <=> S = {}
         /\ \A x \in Entries \ S : Cardinality(S \cup {x}) = Cardinality(S) + 1
         /\ \A x \in S : Cardinality(S \ {x}) = Cardinality(S) - 1
         /\ \A T \in SUBSET Entries :
              S \cap T = {} => Cardinality(S \cup T) = Cardinality(S) + Cardinality(T)
         /\ \A T \in SUBSET S : Cardinality(S \ T) = Cardinality(S) - Cardinality(T)
<1>1. \A T \in SUBSET Entries : IsFiniteSet(T) /\ Cardinality(T) \in Nat
  <2>1. IsFiniteSet(Entries)
    BY WatchfrrAssumption, FS_AddElement, Zenon DEF Entries
  <2> QED  BY <2>1, FS_Subset, FS_CardinalityType, Zenon
<1>2. Cardinality(S) = 0 <=> S = {}
  BY <1>1, FS_EmptySet, Zenon
<1>3. \A x \in Entries \ S : Cardinality(S \cup {x}) = Cardinality(S) + 1
  BY <1>1, FS_AddElement, Zenon
<1>4. \A x \in S : Cardinality(S \ {x}) = Cardinality(S) - 1
  BY <1>1, FS_RemoveElement, Zenon
<1>5. ASSUME NEW T \in SUBSET Entries, S \cap T = {}
      PROVE  Cardinality(S \cup T) = Cardinality(S) + Cardinality(T)
  <2>1. Cardinality(S \cup T) = Cardinality(S) + Cardinality(T) - Cardinality({})
    BY <1>1, <1>5, FS_Union, Zenon
  <2> QED  BY <1>1, <2>1, FS_EmptySet
<1>6. ASSUME NEW T \in SUBSET S
      PROVE  Cardinality(S \ T) = Cardinality(S) - Cardinality(T)
  <2>1. S \cap T = T
    OBVIOUS
  <2>2. Cardinality(S \ T) = Cardinality(S) - Cardinality(S \cap T)
    BY <1>1, FS_Difference, Zenon
  <2> QED  BY <2>1, <2>2, Zenon
<1> QED  BY <1>1, <1>2, <1>3, <1>4, <1>5, <1>6, Zenon

LEMMA MemoryFacts ==
  ASSUME NEW g \in Memory
  PROVE  /\ g.phase \in {"NONE", "INIT"} /\ g.numdown \in Nat /\ g.numpids \in Nat
         /\ g.ready \in {"no", "ok", "timeout", "exit"} /\ g.reading \in BOOLEAN
         /\ g.dmn \in [Daemons -> Daemon] /\ g.restart \in [Entries -> Restart]
         /\ \A d \in Daemons : g.dmn[d] \in Daemon
         /\ \A r \in Entries : g.restart[r] \in Restart
         /\ Down(g) \in SUBSET Entries /\ Pids(g) \in SUBSET Entries
BY Zenon DEF Memory, Down, Pids, Entries

\* Numbers the records hold.
LEMMA Bounds ==
  /\ 0 \in 0..Long /\ 0 \in 0..1 /\ 1 \in 0..1 /\ 0 \in 0..2 /\ 2 \in 0..2
  /\ \A n \in 0..2 : n # 2 => n + 1 \in 0..2
  /\ \A n \in 0..Long : n # Long => n + 1 \in 0..Long
  /\ Long \in 0..Long
BY WatchfrrAssumption DEF Long

-----------------------------------------------------------------------------
(* Restart commands. *)

\* What a function that begins commands leaves alone.
SameButJobs(g, h) ==
  /\ h.phase = g.phase /\ h.numdown = g.numdown /\ h.ready = g.ready
  /\ h.reading = g.reading /\ h.dmn = g.dmn

\* It begins at most the commands of the daemons in S, and the command for all
\* only for zebra and when there is no other.
Began(g, h, S) ==
  /\ Pids(g) \subseteq Pids(h)
  /\ \A r \in Pids(h) \ Pids(g) : \/ r \in S \ {"zebra"}
                                  \/ r = "all" /\ "zebra" \in S /\ Pids(g) = {}

LEMMA NewIntervalType ==
  ASSUME NEW x \in Restart
  PROVE  NewInterval(x) \in MinRestart..MaxRestart
<1>1. x.interval \in MinRestart..MaxRestart
  BY Zenon DEF Restart
<1> QED  BY <1>1, WatchfrrAssumption DEF NewInterval

LEMMA RunJob ==
  ASSUME NEW g \in Memory, NEW r \in Entries, NEW fork \in BOOLEAN, Counts(g)
  PROVE  LET h == run_job(g, r, fork)
         IN  /\ h \in Memory /\ Counts(h) /\ SameButJobs(g, h)
             /\ Pids(g) \subseteq Pids(h) /\ Pids(h) \subseteq Pids(g) \cup {r}
             /\ h.numpids # g.numpids <=> r \in Pids(h) \ Pids(g)
<1> DEFINE x == g.restart[r]
           y == [pid |-> fork, elapsed |-> 0, kills |-> 0,
                 interval |-> NewInterval(x), t_kill |-> fork]
           h == [g EXCEPT !.restart[r] = y, !.numpids = IF fork THEN @ + 1 ELSE @]
           n == IF fork THEN g.numpids + 1 ELSE g.numpids
<1>1. y \in Restart
  <2>1. x \in Restart
    BY MemoryFacts, Zenon
  <2> HIDE DEF x
  <2> QED  BY <2>1, NewIntervalType, Bounds, Zenon DEF Restart
<1>2. g.numpids \in Nat /\ n \in Nat
  BY MemoryFacts
<1>3. y.pid = fork
  BY Zenon
<1> HIDE DEF y
<1>4. /\ h \in Memory /\ SameButJobs(g, h) /\ h.numpids = n
      /\ h.restart = [g.restart EXCEPT ![r] = y]
  BY <1>1, <1>2, Zenon DEF Memory, SameButJobs
<1>5. CASE x.pid \/ x.elapsed < x.interval
  <2>1. run_job(g, r, fork) = g
    BY <1>5, Zenon DEF run_job
  <2> QED  BY <2>1, Zenon DEF SameButJobs
<1>6. CASE ~(x.pid \/ x.elapsed < x.interval)
  <2>1. run_job(g, r, fork) = h
    BY <1>6, Zenon DEF run_job, y
  <2> HIDE DEF h
  <2>2. /\ \A s \in Entries \ {r} : h.restart[s] = g.restart[s]
        /\ h.restart[r] = y
    BY <1>4, MemoryFacts, Zenon
  <2>3. r \notin Pids(g) /\ Pids(h) = IF fork THEN Pids(g) \cup {r} ELSE Pids(g)
    BY <1>3, <1>6, <2>2, Zenon DEF Pids
  <2>4. Down(h) = Down(g) /\ h.numdown = g.numdown
    BY <1>4, Zenon DEF SameButJobs, Down
  <2>5. Counts(h)
    <3>1. n = Cardinality(Pids(h))
      BY <1>2, <2>3, Counting, MemoryFacts DEF Counts
    <3> QED  BY <1>4, <2>4, <3>1, Zenon DEF Counts
  <2>6. h.numpids # g.numpids <=> fork
    BY <1>2, <1>4
  <2> QED  BY <1>4, <2>1, <2>2, <2>3, <2>5, <2>6, Zenon
<1> QED  BY <1>5, <1>6, Zenon

Tries(g, h, d) ==
  /\ h \in Memory /\ Counts(h) /\ SameButJobs(g, h) /\ Began(g, h, {d})
  /\ d # "zebra" => (h.numpids # g.numpids <=> d \in Pids(h) \ Pids(g))

LEMMA TryRestart ==
  ASSUME NEW g \in Memory, NEW d \in Daemons, NEW fork \in BOOLEAN, Counts(g)
  PROVE  Tries(g, try_restart(g, d, fork), d)
<1> DEFINE h == try_restart(g, d, fork)
<1>1. CASE h = g
  BY <1>1, Zenon DEF Tries, SameButJobs, Began
<1>2. CASE d # "zebra" /\ h = run_job(g, d, fork)
  <2>1. d \in Entries
    BY Zenon DEF Entries
  <2> HIDE DEF h
  <2>2. /\ h \in Memory /\ Counts(h) /\ SameButJobs(g, h)
        /\ Pids(g) \subseteq Pids(h) /\ Pids(h) \subseteq Pids(g) \cup {d}
        /\ h.numpids # g.numpids <=> d \in Pids(h) \ Pids(g)
    BY <1>2, <2>1, RunJob, Zenon
  <2>3. Began(g, h, {d})
    BY <1>2, <2>2, Zenon DEF Began
  <2> QED  BY <2>2, <2>3, Zenon DEF h, Tries
<1>3. CASE d = "zebra" /\ g.numpids = 0 /\ h = run_job(g, "all", fork)
  <2>1. "all" \in Entries
    BY Zenon DEF Entries
  <2> HIDE DEF h
  <2>2. /\ h \in Memory /\ Counts(h) /\ SameButJobs(g, h)
        /\ Pids(g) \subseteq Pids(h) /\ Pids(h) \subseteq Pids(g) \cup {"all"}
    BY <1>3, <2>1, RunJob, Zenon
  <2>3. Pids(g) = {}
    <3>1. Pids(g) \in SUBSET Entries
      BY MemoryFacts, Zenon
    <3>2. Cardinality(Pids(g)) = 0
      BY <1>3, Zenon DEF Counts
    <3> QED  BY <3>1, <3>2, Counting, Zenon
  <2>4. Began(g, h, {d})
    BY <1>3, <2>2, <2>3, Zenon DEF Began
  <2> QED  BY <1>3, <2>2, <2>4, Zenon DEF h, Tries
<1> QED  BY <1>1, <1>2, <1>3, Zenon DEF try_restart

LEMMA TryRestartEach ==
  ASSUME NEW g \in Memory, NEW D \in SUBSET Daemons, NEW fork \in BOOLEAN, Counts(g)
  PROVE  LET h == try_restart_each(g, D, fork)
         IN  h \in Memory /\ Counts(h) /\ SameButJobs(g, h) /\ Began(g, h, D)
<1> DEFINE h == try_restart_each(g, D, fork)
           Tried(d) == try_restart(g, d, fork)
<1>1. CASE "zebra" \in D
  <2>1. h = Tried("zebra")
    BY <1>1, Zenon DEF try_restart_each
  <2>2. h \in Memory /\ Counts(h) /\ SameButJobs(g, h) /\ Began(g, h, {"zebra"})
    <3>1. Tries(g, h, "zebra")
      BY <2>1, TryRestart, WatchfrrAssumption, Zenon
    <3> QED  BY <3>1, Zenon DEF Tries
  <2> HIDE DEF h
  <2>3. Began(g, h, D)
    BY <1>1, <2>2, Zenon DEF Began
  <2> QED  BY <2>2, <2>3, Zenon DEF h
<1>2. CASE "zebra" \notin D
  <2> DEFINE new == {d \in D : Tried(d).numpids # g.numpids}
             jobs == [r \in Entries |-> IF r \in D THEN Tried(r).restart[r] ELSE g.restart[r]]
  <2>0. \A d \in D : d \in Entries /\ d # "zebra"
    BY <1>2, Zenon DEF Entries
  <2>1. h = [g EXCEPT !.restart = jobs, !.numpids = g.numpids + Cardinality(new)]
    BY <1>2, Zenon DEF try_restart_each
  <2>2. \A d \in D : /\ Tried(d) \in Memory
                     /\ Pids(g) \subseteq Pids(Tried(d))
                     /\ Tried(d).numpids # g.numpids <=> d \in Pids(Tried(d)) \ Pids(g)
    <3> TAKE d \in D
    <3>1. Tries(g, Tried(d), d)
      BY TryRestart, Zenon
    <3> QED  BY <2>0, <3>1, Zenon DEF Tries, Began
  <2> HIDE DEF Tried
  <2>3. jobs \in [Entries -> Restart]
    BY <2>0, <2>2, MemoryFacts, Zenon
  <2>4. new \in SUBSET Entries /\ new \cap Pids(g) = {}
    BY <2>0, <2>2, Zenon
  <2>5. \A r \in Entries : jobs[r].pid <=> r \in Pids(g) \cup new
    BY <2>2, Zenon DEF Pids
  <2>6. g.numpids + Cardinality(new) = Cardinality(Pids(g) \cup new)
    BY <2>4, Counting, MemoryFacts DEF Counts
  <2>7. Cardinality(Pids(g) \cup new) \in Nat
    BY <2>4, Counting, MemoryFacts, Zenon
  <2> HIDE DEF jobs
  <2>8. /\ h \in Memory /\ SameButJobs(g, h) /\ h.restart = jobs
        /\ h.numpids = Cardinality(Pids(g) \cup new)
    BY <2>1, <2>3, <2>6, <2>7, Zenon DEF Memory, SameButJobs
  <2> HIDE DEF h
  <2>9. Pids(h) = Pids(g) \cup new
    BY <2>4, <2>5, <2>8, Zenon DEF Pids
  <2>10. Down(h) = Down(g) /\ h.numdown = g.numdown
    BY <2>8, Zenon DEF SameButJobs, Down
  <2>11. Counts(h)
    BY <2>8, <2>9, <2>10, Zenon DEF Counts
  <2>12. Began(g, h, D)
    BY <2>0, <2>9, Zenon DEF Began
  <2> QED  BY <2>8, <2>11, <2>12, Zenon DEF h
<1> QED  BY <1>1, <1>2, Zenon

\* Two memories that differ in nothing are one.
LEMMA SameMemory ==
  ASSUME NEW g \in Memory, NEW h \in Memory, SameButJobs(g, h), h.numpids = g.numpids,
         \A r \in Entries : h.restart[r] = g.restart[r]
  PROVE  h = g
<1>1. h.restart = g.restart
  <2>1. h.restart \in [Entries -> Restart] /\ g.restart \in [Entries -> Restart]
    BY MemoryFacts, Zenon
  <2> QED  BY <2>1
<1> QED  BY <1>1 DEF Memory, SameButJobs

\* h is what try_restart_each makes of g, without zebra, field by field.
Each(g, h, D, fork) ==
  /\ h \in Memory /\ SameButJobs(g, h)
  /\ h.numpids = g.numpids + Cardinality({e \in D : try_restart(g, e, fork).numpids # g.numpids})
  /\ \A r \in Entries : h.restart[r] = IF r \in D THEN try_restart(g, r, fork).restart[r]
                                       ELSE g.restart[r]

LEMMA EachIs ==
  ASSUME NEW g \in Memory, NEW D \in SUBSET Daemons, NEW fork \in BOOLEAN, Counts(g),
         "zebra" \notin D
  PROVE  Each(g, try_restart_each(g, D, fork), D, fork)
<1> DEFINE new == {e \in D : try_restart(g, e, fork).numpids # g.numpids}
           jobs == [r \in Entries |-> IF r \in D THEN try_restart(g, r, fork).restart[r]
                                      ELSE g.restart[r]]
           h == try_restart_each(g, D, fork)
<1>1. h \in Memory /\ SameButJobs(g, h)
  BY TryRestartEach
<1>2. h = [g EXCEPT !.restart = jobs, !.numpids = g.numpids + Cardinality(new)]
  BY Zenon DEF try_restart_each
<1>3. h.restart = jobs /\ h.numpids = g.numpids + Cardinality(new)
  <2> HIDE DEF jobs, new
  <2> QED  BY <1>2, Zenon DEF Memory
<1>4. Each(g, h, D, fork)
  <2> HIDE DEF h
  <2> QED  BY <1>1, <1>3, Zenon DEF Each
<1> QED  BY <1>4, Zenon

\* A step of a daemon that is not zebra: when it begins a command and when not.
LEMMA TryRestartOther ==
  ASSUME NEW g \in Memory, NEW d \in Daemons \ {"zebra"}, NEW fork \in BOOLEAN
  PROVE  LET x == g.restart[d]
             y == [pid |-> fork, elapsed |-> 0, kills |-> 0,
                   interval |-> NewInterval(x), t_kill |-> fork]
             h == try_restart(g, d, fork)
         IN  \/ /\ \/ ~(g.dmn["zebra"].state = "UP" /\ g.phase = "NONE")
                   \/ x.pid \/ x.elapsed < x.interval
                /\ h = g
             \/ /\ g.dmn["zebra"].state = "UP" /\ g.phase = "NONE"
                /\ ~(x.pid \/ x.elapsed < x.interval)
                /\ SameButJobs(g, h) /\ h.numpids = (IF fork THEN g.numpids + 1 ELSE g.numpids)
                /\ h.restart[d] = y /\ \A r \in Entries \ {d} : h.restart[r] = g.restart[r]
<1> DEFINE x == g.restart[d]
           y == [pid |-> fork, elapsed |-> 0, kills |-> 0,
                 interval |-> NewInterval(x), t_kill |-> fork]
           n == IF fork THEN g.numpids + 1 ELSE g.numpids
           h == [g EXCEPT !.restart[d] = y, !.numpids = n]
<1>1. /\ SameButJobs(g, h) /\ h.numpids = n
      /\ h.restart = [g.restart EXCEPT ![d] = y]
  <2> HIDE DEF y, n
  <2> QED  BY Zenon DEF Memory, SameButJobs
<1>2. d \in Entries /\ g.restart \in [Entries -> Restart]
  BY MemoryFacts, Zenon DEF Entries
<1>3. h.restart[d] = y /\ \A r \in Entries \ {d} : h.restart[r] = g.restart[r]
  <2> HIDE DEF h, y
  <2> QED  BY <1>1, <1>2, Zenon
<1>4. CASE g.dmn["zebra"].state = "UP" /\ g.phase = "NONE" /\ ~(x.pid \/ x.elapsed < x.interval)
  <2>1. try_restart(g, d, fork) = h
    BY <1>4, Zenon DEF try_restart, run_job
  <2> HIDE DEF h
  <2> QED  BY <1>1, <1>3, <1>4, <2>1, Zenon
<1>5. CASE ~(g.dmn["zebra"].state = "UP" /\ g.phase = "NONE" /\ ~(x.pid \/ x.elapsed < x.interval))
  <2>1. try_restart(g, d, fork) = g
    BY <1>5, Zenon DEF try_restart, run_job
  <2> QED  BY <1>5, <2>1, Zenon
<1> QED  BY <1>4, <1>5

(* try_restart_each is what the loop of phase_check does, for any number of   *)
(* daemons: for no daemon it changes nothing, and for one more daemon it is   *)
(* try_restart for that daemon after the others, whichever daemon is last.    *)
LEMMA TryRestartNone ==
  ASSUME NEW g \in Memory, NEW fork \in BOOLEAN, Counts(g)
  PROVE  try_restart_each(g, {}, fork) = g
<1> DEFINE h == try_restart_each(g, {}, fork)
<1>1. Each(g, h, {}, fork)
  <2>1. {} \in SUBSET Daemons /\ "zebra" \notin {}
    BY Zenon
  <2> QED  BY <2>1, EachIs, Zenon
<1> HIDE DEF h
<1>2. {e \in {} : try_restart(g, e, fork).numpids # g.numpids} = {}
  BY Zenon
<1>3. h.numpids = g.numpids + Cardinality({})
  BY <1>1, <1>2, Zenon DEF Each
<1>4. Cardinality({}) = 0 /\ g.numpids \in Nat
  BY FS_EmptySet, MemoryFacts, Zenon
<1>5. h.numpids = g.numpids
  BY <1>3, <1>4
<1>6. \A r \in Entries : h.restart[r] = g.restart[r]
  BY <1>1, Zenon DEF Each
<1>7. h = g
  BY <1>1, <1>5, <1>6, SameMemory, Zenon DEF Each
<1> QED  BY <1>7, Zenon DEF h

LEMMA TryRestartLoop ==
  ASSUME NEW g \in Memory, NEW D \in SUBSET Daemons, NEW d \in Daemons \ D,
         NEW fork \in BOOLEAN, Counts(g),
         \A e \in D \cup {d} : g.dmn[e].state = "DOWN"
  PROVE  try_restart_each(g, D \cup {d}, fork) = try_restart(try_restart_each(g, D, fork), d, fork)
<1> DEFINE h == try_restart_each(g, D, fork)
           i == try_restart_each(g, D \cup {d}, fork)
           j == try_restart(h, d, fork)
           T(e) == try_restart(g, e, fork)
<1>1. h \in Memory /\ Counts(h) /\ SameButJobs(g, h)
  BY TryRestartEach
<1>2. CASE "zebra" \in D
  <2>1. h = T("zebra") /\ i = T("zebra")
    BY <1>2, Zenon DEF try_restart_each
  <2>2. h.dmn["zebra"].state # "UP"
    <3> HIDE DEF h
    <3> QED  BY <1>1, <1>2 DEF SameButJobs
  <2>3. d # "zebra"
    BY <1>2
  <2>4. j = h
    <3> HIDE DEF h
    <3> QED  BY <2>2, <2>3, Zenon DEF try_restart
  <2> QED  BY <2>1, <2>4, Zenon
<1>3. CASE "zebra" \notin D
  <2>1. /\ h.numpids = g.numpids + Cardinality({e \in D : T(e).numpids # g.numpids})
        /\ \A r \in Entries : h.restart[r] = IF r \in D THEN T(r).restart[r] ELSE g.restart[r]
    <3>1. Each(g, h, D, fork)
      BY <1>3, EachIs, Zenon
    <3> HIDE DEF h
    <3> QED  BY <3>1, Zenon DEF Each
  <2>2. CASE d = "zebra"
    <3>1. i = T("zebra")
      BY <2>2, Zenon DEF try_restart_each
    <3>2. g.dmn["zebra"].state # "UP"
      BY <2>2
    <3>3. \A e \in D : T(e) = g
      BY <1>3, <3>2, Zenon DEF try_restart
    <3> HIDE DEF T, h
    <3>4. /\ {e \in D : T(e).numpids # g.numpids} = {}
          /\ \A r \in Entries : h.restart[r] = g.restart[r]
      BY <2>1, <3>3, Zenon
    <3>5. Cardinality({}) = 0 /\ g.numpids \in Nat
      BY FS_EmptySet, MemoryFacts, Zenon
    <3>6. h.numpids = g.numpids
      <4>1. h.numpids = g.numpids + Cardinality({})
        BY <2>1, <3>4, Zenon
      <4> QED  BY <3>5, <4>1
    <3>7. h = g
      BY <1>1, <3>4, <3>6, SameMemory, Zenon
    <3> QED  BY <2>2, <3>1, <3>7, Zenon DEF T, h
  <2>3. CASE d # "zebra"
    <3> DEFINE new == {e \in D : T(e).numpids # g.numpids}
               all == {e \in D \cup {d} : T(e).numpids # g.numpids}
    <3>1. /\ i \in Memory /\ SameButJobs(g, i) /\ i.numpids = g.numpids + Cardinality(all)
          /\ \A r \in Entries : i.restart[r] = IF r \in D \cup {d} THEN T(r).restart[r]
                                                ELSE g.restart[r]
      <4>1. D \cup {d} \in SUBSET Daemons /\ "zebra" \notin D \cup {d}
        BY <1>3, <2>3, Zenon
      <4>2. Each(g, i, D \cup {d}, fork)
        BY <4>1, EachIs, Zenon
      <4> HIDE DEF i
      <4> QED  BY <4>2, Zenon DEF Each
    <3>2. /\ j \in Memory /\ d \in Entries /\ SameButJobs(h, j) 
      <4>1. Tries(h, j, d)
        <5> HIDE DEF h
        <5> QED  BY <1>1, TryRestart
      <4> QED  BY <4>1, Zenon DEF Tries, Entries
    <3>3. new \in SUBSET Entries /\ d \notin new /\ new \in SUBSET Daemons
      BY Zenon DEF Entries
    <3>4. /\ Cardinality(new) \in Nat /\ Cardinality(new \cup {d}) = Cardinality(new) + 1
      <4> HIDE DEF new
      <4> QED  BY <3>2, <3>3, Counting
    <3>5. h.restart[d] = g.restart[d] /\ h.dmn = g.dmn /\ h.phase = g.phase
      BY <1>1, <2>1, <3>2, Zenon DEF SameButJobs
    <3>6. g.numpids \in Nat
      BY MemoryFacts, Zenon
    <3>7. d \in Daemons \ {"zebra"}
      BY <2>3, Zenon
    <3> DEFINE x == g.restart[d]
               go == /\ g.dmn["zebra"].state = "UP" /\ g.phase = "NONE"
                     /\ ~(x.pid \/ x.elapsed < x.interval)
               y == [pid |-> fork, elapsed |-> 0, kills |-> 0,
                     interval |-> NewInterval(x), t_kill |-> fork]
    <3>8. /\ ~go => T(d) = g
          /\ go => /\ T(d).numpids = (IF fork THEN g.numpids + 1 ELSE g.numpids)
                   /\ T(d).restart[d] = y
      BY <3>7, TryRestartOther
    <3>9. /\ ~go => j = h
          /\ go => /\ j.numpids = (IF fork THEN h.numpids + 1 ELSE h.numpids)
                   /\ j.restart[d] = y /\ \A r \in Entries \ {d} : j.restart[r] = h.restart[r]
      <4> HIDE DEF h
      <4> QED  BY <1>1, <3>5, <3>7, TryRestartOther
    <3> HIDE DEF h, i, j, T, go, y
    <3>10. all = IF go /\ fork THEN new \cup {d} ELSE new
      <4>1. T(d).numpids # g.numpids <=> go /\ fork
        BY <3>6, <3>8
      <4> QED  BY <4>1, Zenon
    <3>11. j.numpids = i.numpids
      <4> HIDE DEF all, new
      <4>1. h.numpids = g.numpids + Cardinality(new)
        BY <2>1, Zenon DEF new
      <4> QED  BY <3>1, <3>4, <3>6, <3>9, <3>10, <4>1
    <3>12. \A r \in Entries \ {d} : j.restart[r] = i.restart[r]
      BY <2>1, <3>1, <3>9, Zenon
    <3>13. j.restart[d] = i.restart[d]
      BY <3>1, <3>2, <3>5, <3>8, <3>9, Zenon
    <3>14. SameButJobs(i, j)
      BY <1>1, <3>1, <3>2, Zenon DEF SameButJobs
    <3>15. \A r \in Entries : j.restart[r] = i.restart[r]
      BY <3>12, <3>13, Zenon
    <3>16. j = i
      BY <3>1, <3>2, <3>11, <3>14, <3>15, SameMemory, Zenon
    <3> QED  BY <3>16, Zenon DEF i, j, h
  <2> QED  BY <2>2, <2>3
<1> QED  BY <1>2, <1>3

-----------------------------------------------------------------------------
(* The end of startup. *)

\* What phase_check may do: apart from commands and the timers of the daemons
\* that are down it changes only the phase, and that once.
Checked(g, h) ==
  /\ h \in Memory /\ Counts(h) /\ Starting(h)
  /\ g.phase = "NONE" => h = g
  /\ Began(g, h, {d \in Daemons : g.dmn[d].state = "DOWN"})
  /\ h.phase = "INIT" => h = g
  /\ \A d \in Daemons :
       /\ Sane(h.dmn[d])
       /\ h.dmn[d].state = g.dmn[d].state /\ h.dmn[d].fd = g.dmn[d].fd
       /\ h.dmn[d].t_read = g.dmn[d].t_read /\ h.dmn[d].ignore = g.dmn[d].ignore

LEMMA PhaseCheck ==
  ASSUME NEW g \in Memory, NEW fork \in BOOLEAN, Counts(g),
         \A d \in Daemons : Sane(g.dmn[d]),
         \A d \in Daemons : g.dmn[d].state = "INIT" => g.phase = "INIT"
  PROVE  Checked(g, phase_check(g, fork))
<1> DEFINE h == phase_check(g, fork)
<1>1. CASE g.phase = "NONE" \/ \E d \in Daemons : g.dmn[d].state = "INIT"
  <2>1. h = g
    BY <1>1, Zenon DEF phase_check
  <2>2. Starting(g)
    BY <1>1, Zenon DEF Starting
  <2> QED  BY <2>1, <2>2, Zenon DEF Checked, Began
<1>2. CASE ~(g.phase = "NONE" \/ \E d \in Daemons : g.dmn[d].state = "INIT")
  <2> DEFINE down == {d \in Daemons : g.dmn[d].state = "DOWN"}
             dmn == [d \in Daemons |-> IF d \in down
                                       THEN [g.dmn[d] EXCEPT !.t_wakeup = "down"]
                                       ELSE g.dmn[d]]
             idle == [g EXCEPT !.phase = "NONE", !.dmn = dmn]
  <2>1. h = try_restart_each(idle, down, fork)
    BY <1>2, Zenon DEF phase_check
  <2>2. ASSUME NEW x \in Daemon
        PROVE  LET y == [x EXCEPT !.t_wakeup = "down"]
               IN  /\ y \in Daemon /\ y.state = x.state /\ y.fd = x.fd
                   /\ y.t_read = x.t_read /\ y.ignore = x.ignore /\ y.t_wakeup = "down"
    BY Zenon DEF Daemon
  <2>3. dmn \in [Daemons -> Daemon]
    BY <2>2, MemoryFacts, Zenon
  <2>4. \A d \in Daemons :
          /\ dmn[d].state = g.dmn[d].state /\ dmn[d].fd = g.dmn[d].fd
          /\ dmn[d].t_read = g.dmn[d].t_read /\ dmn[d].ignore = g.dmn[d].ignore
          /\ dmn[d].t_wakeup = IF d \in down THEN "down" ELSE g.dmn[d].t_wakeup
    BY <2>2, MemoryFacts
  <2> HIDE DEF dmn
  <2>5. /\ idle \in Memory /\ idle.phase = "NONE" /\ idle.dmn = dmn
        /\ idle.restart = g.restart /\ idle.numpids = g.numpids
        /\ idle.numdown = g.numdown
    BY <2>3, Zenon DEF Memory
  <2> HIDE DEF idle
  <2>6. Pids(idle) = Pids(g) /\ Down(idle) = Down(g)
    BY <2>4, <2>5, Zenon DEF Pids, Down, IS_UP
  <2>7. Counts(idle)
    BY <2>5, <2>6, Zenon DEF Counts
  <2>8. h \in Memory /\ Counts(h) /\ SameButJobs(idle, h) /\ Began(idle, h, down)
    BY <2>1, <2>5, <2>7, TryRestartEach, Zenon
  <2> HIDE DEF h
  <2>9. h.phase = "NONE" /\ h.dmn = dmn
    BY <2>5, <2>8, Zenon DEF SameButJobs
  <2>10. Starting(h)
    BY <1>2, <2>4, <2>9, Zenon DEF Starting
  <2>11. Began(g, h, down)
    BY <2>6, <2>8, Zenon DEF Began
  <2>12. \A d \in Daemons : Sane(h.dmn[d])
    <3> TAKE d \in Daemons
    <3>1. CASE d \in down
      <4>1. dmn[d].state = "DOWN" /\ dmn[d].t_wakeup = "down" /\ ~IS_UP(g.dmn[d])
        BY <2>4, <3>1, Zenon DEF IS_UP
      <4>2. g.dmn[d].fd = "none"
        BY <2>4, <4>1, Zenon DEF Sane
      <4> QED  BY <2>4, <2>9, <4>1, <4>2, Zenon DEF Sane, IS_UP
    <3>2. CASE d \notin down
      <4>1. /\ dmn[d].state = g.dmn[d].state /\ dmn[d].fd = g.dmn[d].fd
            /\ dmn[d].t_wakeup = g.dmn[d].t_wakeup /\ Sane(g.dmn[d])
        BY <2>4, <3>2, Zenon
      <4> QED  BY <2>9, <4>1, Zenon DEF Sane, IS_UP
    <3> QED  BY <3>1, <3>2, Zenon
  <2> QED  BY <1>2, <2>4, <2>8, <2>9, <2>10, <2>11, <2>12, Zenon DEF h, Checked
<1> QED  BY <1>1, <1>2, Zenon

-----------------------------------------------------------------------------
(* Connections. *)

\* What a function about one daemon leaves alone.
Touched(g, h, d) ==
  /\ h \in Memory /\ h.phase = g.phase
  /\ h.restart = g.restart /\ h.numpids = g.numpids
  /\ \A e \in Daemons \ {d} : h.dmn[e] = g.dmn[e]

\* The same, when the counter of daemons is left alone as well.
SetTo(g, h, d, x) == Touched(g, h, d) /\ h.numdown = g.numdown /\ h.dmn[d] = x

LEMMA SetDmn ==
  ASSUME NEW g \in Memory, NEW d \in Daemons, NEW x \in Daemon
  PROVE  SetTo(g, [g EXCEPT !.dmn[d] = x], d, x)
<1> DEFINE h == [g EXCEPT !.dmn[d] = x]
<1>1. /\ h \in Memory /\ h.numdown = g.numdown /\ h.phase = g.phase
      /\ h.restart = g.restart /\ h.numpids = g.numpids
      /\ h.dmn = [g.dmn EXCEPT ![d] = x]
  BY Zenon DEF Memory
<1> HIDE DEF h
<1>2. g.dmn \in [Daemons -> Daemon]
  BY MemoryFacts, Zenon
<1>3. h.dmn[d] = x /\ \A e \in Daemons \ {d} : h.dmn[e] = g.dmn[e]
  BY <1>1, <1>2, Zenon
<1> QED  BY <1>1, <1>3, Zenon DEF SetTo, Touched, h

LEMMA TouchedTwice ==
  ASSUME NEW g, NEW h, NEW i, NEW d, Touched(g, h, d), Touched(h, i, d)
  PROVE  Touched(g, i, d)
BY Zenon DEF Touched

LEMMA TouchedCounts ==
  ASSUME NEW g \in Memory, NEW h, NEW d \in Daemons, Counts(g), Touched(g, h, d),
         \/ (IS_UP(h.dmn[d]) <=> IS_UP(g.dmn[d])) /\ h.numdown = g.numdown
         \/ IS_UP(h.dmn[d]) /\ ~IS_UP(g.dmn[d]) /\ h.numdown = g.numdown - 1
         \/ ~IS_UP(h.dmn[d]) /\ IS_UP(g.dmn[d]) /\ h.numdown = g.numdown + 1
  PROVE  Counts(h)
<1>1. Pids(h) = Pids(g) /\ h.numpids = Cardinality(Pids(h))
  BY Zenon DEF Touched, Pids, Counts
<1>2. Down(g) \in SUBSET Entries /\ d \in Entries
  BY MemoryFacts, Zenon DEF Entries
<1>3. \A e \in Daemons \ {d} : e \in Down(h) <=> e \in Down(g)
  BY Zenon DEF Touched, Down
<1>4. Down(h) \subseteq Daemons /\ Down(g) \subseteq Daemons
  BY Zenon DEF Down
<1>5. (d \in Down(h) <=> ~IS_UP(h.dmn[d])) /\ (d \in Down(g) <=> ~IS_UP(g.dmn[d]))
  BY Zenon DEF Down
<1>6. g.numdown = Cardinality(Down(g))
  BY Zenon DEF Counts
<1>7. h.numdown = Cardinality(Down(h))
  <2>1. CASE (IS_UP(h.dmn[d]) <=> IS_UP(g.dmn[d])) /\ h.numdown = g.numdown
    <3>1. Down(h) = Down(g)
      BY <1>3, <1>4, <1>5, <2>1
    <3> QED  BY <1>6, <2>1, <3>1, Zenon
  <2>2. CASE IS_UP(h.dmn[d]) /\ ~IS_UP(g.dmn[d]) /\ h.numdown = g.numdown - 1
    <3>1. d \in Down(g) /\ Down(h) = Down(g) \ {d}
      BY <1>3, <1>4, <1>5, <2>2, Zenon
    <3> QED  BY <1>2, <1>6, <2>2, <3>1, Counting
  <2>3. CASE ~IS_UP(h.dmn[d]) /\ IS_UP(g.dmn[d]) /\ h.numdown = g.numdown + 1
    <3>1. d \notin Down(g) /\ Down(h) = Down(g) \cup {d}
      BY <1>3, <1>4, <1>5, <2>3, Zenon
    <3> QED  BY <1>2, <1>6, <2>3, <3>1, Counting
  <2> QED  BY <2>1, <2>2, <2>3, Zenon
<1> QED  BY <1>1, <1>7, Zenon DEF Counts

LEMMA DownCounted ==
  ASSUME NEW g \in Memory, NEW d \in Daemons, Counts(g), ~IS_UP(g.dmn[d])
  PROVE  g.numdown - 1 \in Nat
<1>1. Down(g) \in SUBSET Entries /\ d \in Down(g) /\ g.numdown = Cardinality(Down(g))
  BY MemoryFacts, Zenon DEF Down, Counts
<1>2. Cardinality(Down(g)) \in Nat /\ Cardinality(Down(g)) # 0
  BY <1>1, Counting, Zenon
<1> QED  BY <1>1, <1>2

\* daemon_up up to its call of phase_check.
Raised(g, d) ==
  LET h == [g EXCEPT !.dmn[d].state = "UP", !.dmn[d].tries = 0, !.numdown = @ - 1]
      i == IF h.numdown = 0 THEN daemon_send_ready(h, 0) ELSE h
  IN  [i EXCEPT !.dmn[d].t_wakeup = "echo"]

LEMMA RaisedFacts ==
  ASSUME NEW g \in Memory, NEW d \in Daemons, g.numdown - 1 \in Nat
  PROVE  LET h == Raised(g, d)
         IN  /\ Touched(g, h, d) /\ h.numdown = g.numdown - 1
             /\ h.dmn[d].state = "UP" /\ h.dmn[d].t_wakeup = "echo"
             /\ h.dmn[d].fd = g.dmn[d].fd /\ h.dmn[d].t_read = g.dmn[d].t_read
             /\ h.dmn[d].ignore = g.dmn[d].ignore
<1> DEFINE x == [g.dmn[d] EXCEPT !.state = "UP", !.tries = 0]
           y == [x EXCEPT !.t_wakeup = "echo"]
           h == [g EXCEPT !.dmn[d].state = "UP", !.dmn[d].tries = 0, !.numdown = @ - 1]
           i == IF h.numdown = 0 THEN daemon_send_ready(h, 0) ELSE h
           j == [i EXCEPT !.dmn[d].t_wakeup = "echo"]
<1>1. g.dmn[d] \in Daemon
  BY MemoryFacts, Zenon
<1>2. x \in Daemon
  BY <1>1, Bounds, Zenon DEF Daemon
<1>3. /\ x.state = "UP" /\ x.fd = g.dmn[d].fd /\ x.t_read = g.dmn[d].t_read
      /\ x.ignore = g.dmn[d].ignore
  BY <1>1, Zenon DEF Daemon
<1>4. /\ h \in Memory /\ h.numdown = g.numdown - 1 /\ h.phase = g.phase
      /\ h.restart = g.restart /\ h.numpids = g.numpids
      /\ h.dmn = [g.dmn EXCEPT ![d] = x]
  BY <1>2, Zenon DEF Memory
<1> HIDE DEF h, x
<1>5. /\ i \in Memory /\ i.numdown = h.numdown /\ i.phase = h.phase
      /\ i.restart = h.restart /\ i.numpids = h.numpids /\ i.dmn = h.dmn
  <2>1. i = h \/ i = [h EXCEPT !.ready = "ok"]
    BY Zenon DEF daemon_send_ready
  <2>2. LET k == [h EXCEPT !.ready = "ok"]
        IN  /\ k \in Memory /\ k.numdown = h.numdown /\ k.phase = h.phase
            /\ k.restart = h.restart /\ k.numpids = h.numpids /\ k.dmn = h.dmn
    BY <1>4, Zenon DEF Memory
  <2> HIDE DEF i
  <2> QED  BY <1>4, <2>1, <2>2, Zenon
<1> HIDE DEF i
<1>6. i.dmn[d] = x /\ \A e \in Daemons \ {d} : i.dmn[e] = g.dmn[e]
  BY <1>4, <1>5, MemoryFacts, Zenon
<1>7. /\ y \in Daemon /\ y.state = x.state /\ y.fd = x.fd /\ y.t_read = x.t_read
      /\ y.ignore = x.ignore /\ y.t_wakeup = "echo"
  BY <1>2, Zenon DEF Daemon
<1> HIDE DEF y
<1>8. /\ j \in Memory /\ j.numdown = i.numdown /\ j.phase = i.phase
      /\ j.restart = i.restart /\ j.numpids = i.numpids /\ j.dmn = [i.dmn EXCEPT ![d] = y]
  BY <1>5, <1>6, <1>7, Zenon DEF Memory, y
<1>9. Raised(g, d) = j
  BY Zenon DEF Raised, i, h
<1> HIDE DEF j
<1>10. j.dmn[d] = y /\ \A e \in Daemons \ {d} : j.dmn[e] = g.dmn[e]
  BY <1>5, <1>6, <1>8, MemoryFacts, Zenon
<1> QED  BY <1>3, <1>4, <1>5, <1>7, <1>8, <1>9, <1>10, Zenon DEF Touched

\* try_connect up to its call of phase_check.
Attempt(g, d, to) ==
  LET h == [g EXCEPT !.dmn[d].tries = IF @ = 2 THEN 2 ELSE @ + 1]
  IN  CASE to = "fail" -> h
        [] to = "again" ->
             [h EXCEPT !.dmn[d].state = "CONNECTING", !.dmn[d].fd = "error",
                       !.dmn[d].t_read = TRUE,
                       !.dmn[d].t_wakeup = IF @ = "none" THEN "hanging" ELSE @]
        [] to = "up" -> Raised([h EXCEPT !.dmn[d].fd = "idle", !.dmn[d].t_read = TRUE], d)

\* What comes of it, for a daemon that has no connection and no timer.
Attempted(x, y, to) ==
  /\ y.ignore = x.ignore
  /\ to = "fail" => /\ y.state = x.state /\ y.fd = x.fd
                    /\ y.t_read = x.t_read /\ y.t_wakeup = x.t_wakeup
  /\ to = "again" => /\ y.state = "CONNECTING" /\ y.fd = "error"
                     /\ y.t_read = TRUE /\ y.t_wakeup = "hanging"
  /\ to = "up" => /\ y.state = "UP" /\ y.fd = "idle"
                  /\ y.t_read = TRUE /\ y.t_wakeup = "echo"

Outcomes == {"fail", "again", "up"}

LEMMA ConnectsType ==
  ASSUME NEW d
  PROVE  /\ Connects(d) \in Outcomes
         /\ Connects(d) = "fail" => proc[d] = "dead"
         /\ Connects(d) = "again" => proc[d] = "busy"
BY Zenon DEF Connects, Outcomes

LEMMA TryConnectIs ==
  ASSUME NEW g \in Memory, NEW d \in Daemons, NEW to \in Outcomes, NEW fork
  PROVE  try_connect(g, d, to, fork) = IF to = "up" THEN phase_check(Attempt(g, d, to), fork)
                                       ELSE Attempt(g, d, to)
<1>1. CASE to = "fail"
  BY <1>1, Zenon DEF try_connect, Attempt
<1>2. CASE to = "again"
  BY <1>2 DEF try_connect, Attempt
<1>3. CASE to = "up"
  <2>1. \A h : daemon_up(h, d, fork) = phase_check(Raised(h, d), fork)
    BY Zenon DEF daemon_up, Raised
  <2> QED  BY <1>3, <2>1 DEF try_connect, Attempt
<1> QED  BY <1>1, <1>2, <1>3, Zenon DEF Outcomes

LEMMA AttemptFacts ==
  ASSUME NEW g \in Memory, NEW d \in Daemons, NEW to \in Outcomes, Counts(g),
         ~IS_UP(g.dmn[d]), g.dmn[d].t_wakeup = "none"
  PROVE  LET m == Attempt(g, d, to)
         IN  Touched(g, m, d) /\ Counts(m) /\ Attempted(g.dmn[d], m.dmn[d], to)
<1> DEFINE n == IF g.dmn[d].tries = 2 THEN 2 ELSE g.dmn[d].tries + 1
           x == [g.dmn[d] EXCEPT !.tries = n]
           h == [g EXCEPT !.dmn[d] = x]
           m == Attempt(g, d, to)
<1>1. g.dmn[d] \in Daemon
  BY MemoryFacts, Zenon
<1>2. g.dmn[d].tries \in 0..2
  BY <1>1, Zenon DEF Daemon
<1>3. h = [g EXCEPT !.dmn[d].tries = IF @ = 2 THEN 2 ELSE @ + 1]
  <2>1. h = [g EXCEPT !.dmn[d].tries = n]
    BY Zenon DEF Memory
  <2> QED  BY <2>1, Zenon
<1>4. n \in 0..2
  BY <1>2
<1> HIDE DEF n
<1>5. x \in Daemon
  BY <1>1, <1>4, Zenon DEF Daemon
<1>6. /\ x.state = g.dmn[d].state /\ x.fd = g.dmn[d].fd
      /\ x.t_read = g.dmn[d].t_read /\ x.ignore = g.dmn[d].ignore /\ x.t_wakeup = "none"
  BY <1>1, Zenon DEF Daemon
<1> HIDE DEF x
<1>7. SetTo(g, h, d, x)
  BY <1>5, SetDmn, Zenon
<1> HIDE DEF h, m
<1>8. h \in Memory /\ h.dmn[d] = x /\ h.numdown = g.numdown /\ Touched(g, h, d)
  BY <1>7, Zenon DEF SetTo, Touched
<1>9. ~IS_UP(x)
  BY <1>6, Zenon DEF IS_UP
<1>10. CASE to = "fail"
  <2>1. m = h
    BY <1>3, <1>10, Zenon DEF Attempt, m
  <2>2. Touched(g, m, d) /\ Attempted(g.dmn[d], m.dmn[d], to)
    BY <1>6, <1>8, <1>10, <2>1, Zenon DEF Attempted
  <2>3. Counts(m)
    BY <1>8, <1>9, <2>1, TouchedCounts, Zenon
  <2> QED  BY <2>2, <2>3, Zenon DEF m
<1>11. CASE to = "again"
  <2> DEFINE y == [x EXCEPT !.state = "CONNECTING", !.fd = "error", !.t_read = TRUE,
                            !.t_wakeup = "hanging"]
  <2>1. m = [h EXCEPT !.dmn[d].state = "CONNECTING", !.dmn[d].fd = "error",
                      !.dmn[d].t_read = TRUE,
                      !.dmn[d].t_wakeup = IF @ = "none" THEN "hanging" ELSE @]
    BY <1>3, <1>11 DEF Attempt, m
  <2>2. m = [h EXCEPT !.dmn[d].state = "CONNECTING", !.dmn[d].fd = "error",
                      !.dmn[d].t_read = TRUE, !.dmn[d].t_wakeup = "hanging"]
    BY <1>6, <1>8, <2>1, Zenon
  <2>3. m = [h EXCEPT !.dmn[d] = y]
    BY <1>8, <2>2, Zenon DEF Memory
  <2>4. y \in Daemon
    BY <1>5, Zenon DEF Daemon
  <2>5. /\ y.state = "CONNECTING" /\ y.fd = "error" /\ y.t_read = TRUE
        /\ y.t_wakeup = "hanging" /\ y.ignore = x.ignore
    BY <1>5, Zenon DEF Daemon
  <2> HIDE DEF y
  <2>6. SetTo(h, m, d, y)
    BY <1>8, <2>3, <2>4, SetDmn, Zenon
  <2>7. Touched(g, m, d) /\ m.numdown = g.numdown /\ m.dmn[d] = y
    BY <1>8, <2>6, TouchedTwice, Zenon DEF SetTo
  <2>8. Attempted(g.dmn[d], m.dmn[d], to)
    BY <1>6, <1>11, <2>5, <2>7, Zenon DEF Attempted
  <2>9. ~IS_UP(m.dmn[d])
    BY <2>5, <2>7, Zenon DEF IS_UP
  <2>10. Counts(m)
    BY <2>7, <2>9, TouchedCounts, Zenon
  <2> QED  BY <2>7, <2>8, <2>10, Zenon DEF m
<1>12. CASE to = "up"
  <2> DEFINE y == [x EXCEPT !.fd = "idle", !.t_read = TRUE]
             k == [h EXCEPT !.dmn[d] = y]
  <2>1. k = [h EXCEPT !.dmn[d].fd = "idle", !.dmn[d].t_read = TRUE]
    BY <1>8, Zenon DEF Memory
  <2>2. y \in Daemon
    BY <1>5, Zenon DEF Daemon
  <2>3. /\ y.fd = "idle" /\ y.t_read = TRUE
        /\ y.ignore = x.ignore /\ y.state = x.state
    BY <1>5, Zenon DEF Daemon
  <2> HIDE DEF y
  <2>4. SetTo(h, k, d, y)
    BY <1>8, <2>2, SetDmn, Zenon
  <2> HIDE DEF k
  <2>5. m = Raised(k, d)
    BY <1>3, <1>12, <2>1, Zenon DEF Attempt, m
  <2>6. Touched(g, k, d) /\ k \in Memory /\ k.numdown = g.numdown /\ k.dmn[d] = y
    BY <1>8, <2>4, TouchedTwice, Zenon DEF SetTo, Touched
  <2>7. k.numdown - 1 \in Nat
    BY <2>6, DownCounted, Zenon
  <2>8. /\ Touched(k, m, d) /\ m.numdown = k.numdown - 1
        /\ m.dmn[d].state = "UP" /\ m.dmn[d].t_wakeup = "echo"
        /\ m.dmn[d].fd = k.dmn[d].fd /\ m.dmn[d].t_read = k.dmn[d].t_read
        /\ m.dmn[d].ignore = k.dmn[d].ignore
    BY <2>5, <2>6, <2>7, RaisedFacts, Zenon
  <2>9. Touched(g, m, d)
    BY <2>6, <2>8, TouchedTwice, Zenon
  <2>10. Attempted(g.dmn[d], m.dmn[d], to)
    BY <1>6, <1>12, <2>3, <2>6, <2>8, Zenon DEF Attempted
  <2>11. IS_UP(m.dmn[d]) /\ m.numdown = g.numdown - 1
    BY <2>6, <2>8, Zenon DEF IS_UP
  <2>12. Counts(m)
    BY <2>9, <2>11, TouchedCounts, Zenon
  <2> QED  BY <2>9, <2>10, <2>12, Zenon DEF m
<1> QED  BY <1>10, <1>11, <1>12, Zenon DEF Outcomes

\* A daemon tried anew once startup is over.
Renewed(g, h, d, to) ==
  /\ Touched(g, h, d) /\ Counts(h)
  /\ LET y == h.dmn[d]
     IN  /\ Sane(y) /\ y.ignore = g.dmn[d].ignore
         /\ y.state \in {"DOWN", "CONNECTING", "UP"}
         /\ y.fd \in {"none", "idle", "error"} /\ (y.fd # "none" => y.t_read)
         /\ to = "up" => y.state = "UP"

LEMMA Reconnect ==
  ASSUME NEW g \in Memory, NEW d \in Daemons, NEW to \in Outcomes, NEW fork, Counts(g),
         g.phase = "NONE", g.dmn[d].state = "DOWN", g.dmn[d].t_wakeup = "none",
         g.dmn[d].fd = "none"
  PROVE  Renewed(g, connect_or_wait(g, d, to, fork), d, to)
<1> DEFINE m == Attempt(g, d, to)
           h == connect_or_wait(g, d, to, fork)
<1>1. Touched(g, m, d) /\ Counts(m) /\ Attempted(g.dmn[d], m.dmn[d], to)
  <2>1. ~IS_UP(g.dmn[d])
    BY Zenon DEF IS_UP
  <2> QED  BY <2>1, AttemptFacts, Zenon
<1> HIDE DEF m
<1>2. m \in Memory /\ m.phase = "NONE"
  BY <1>1, Zenon DEF Touched
<1>3. try_connect(g, d, to, fork) = m
  BY <1>2, TryConnectIs, Zenon DEF phase_check, m
<1>4. CASE to = "fail"
  <2> DEFINE y == [m.dmn[d] EXCEPT !.t_wakeup = "down"]
  <2>1. h = [m EXCEPT !.dmn[d].t_wakeup = "down"]
    BY <1>3, <1>4, Zenon DEF connect_or_wait
  <2> HIDE DEF h
  <2>2. h = [m EXCEPT !.dmn[d] = y]
    BY <1>2, <2>1, Zenon DEF Memory
  <2>3. m.dmn[d] \in Daemon
    BY <1>2, MemoryFacts, Zenon
  <2>4. y \in Daemon
    BY <2>3, Zenon DEF Daemon
  <2>5. /\ y.t_wakeup = "down" /\ y.state = m.dmn[d].state /\ y.fd = m.dmn[d].fd
        /\ y.ignore = m.dmn[d].ignore
    BY <2>3, Zenon DEF Daemon
  <2> HIDE DEF y
  <2>6. SetTo(m, h, d, y)
    BY <1>2, <2>2, <2>4, SetDmn, Zenon
  <2>7. Touched(g, h, d) /\ Touched(m, h, d) /\ h.numdown = m.numdown /\ h.dmn[d] = y
    BY <1>1, <2>6, TouchedTwice, Zenon DEF SetTo
  <2>8. y.state = "DOWN" /\ y.fd = "none" /\ y.ignore = g.dmn[d].ignore
    BY <1>1, <1>4, <2>5, Zenon DEF Attempted
  <2>9. Counts(h)
    <3>1. IS_UP(y) <=> IS_UP(m.dmn[d])
      BY <2>5, Zenon DEF IS_UP
    <3> QED  BY <1>1, <1>2, <2>7, <3>1, TouchedCounts, Zenon
  <2>10. Sane(y)
    BY <2>5, <2>8, Zenon DEF Sane, IS_UP
  <2> QED  BY <1>4, <2>7, <2>8, <2>9, <2>10, Zenon DEF Renewed, h
<1>5. CASE to # "fail"
  <2>1. h = m
    BY <1>3, <1>5, Zenon DEF connect_or_wait
  <2>2. Sane(m.dmn[d])
    BY <1>1, <1>5, Zenon DEF Attempted, Outcomes, Sane, IS_UP
  <2> HIDE DEF h
  <2>3. LET y == m.dmn[d]
        IN  /\ y.ignore = g.dmn[d].ignore /\ y.state \in {"CONNECTING", "UP"}
            /\ y.fd \in {"idle", "error"} /\ y.t_read = TRUE
            /\ to = "up" => y.state = "UP"
    BY <1>1, <1>5, Zenon DEF Attempted, Outcomes
  <2> QED  BY <1>1, <2>1, <2>2, <2>3, Zenon DEF Renewed, h
<1> QED  BY <1>4, <1>5, Zenon

\* The fields daemon_down resets, as an update of the daemon's record.
LEMMA Cleared ==
  ASSUME NEW g \in Memory, NEW d \in Daemons
  PROVE  [g EXCEPT !.dmn[d].state = "DOWN", !.dmn[d].fd = "none", !.dmn[d].late = FALSE,
                   !.dmn[d].t_read = FALSE, !.dmn[d].t_wakeup = "none"]
         = [g EXCEPT !.dmn[d] = [g.dmn[d] EXCEPT !.state = "DOWN", !.fd = "none",
                                                 !.late = FALSE, !.t_read = FALSE,
                                                 !.t_wakeup = "none"]]
<1> DEFINE x == [g.dmn[d] EXCEPT !.state = "DOWN", !.fd = "none", !.late = FALSE]
           y == [x EXCEPT !.t_read = FALSE, !.t_wakeup = "none"]
           h == [g EXCEPT !.dmn[d] = x]
<1>1. h = [g EXCEPT !.dmn[d].state = "DOWN", !.dmn[d].fd = "none", !.dmn[d].late = FALSE]
  BY Zenon DEF Memory
<1>2. g.dmn[d] \in Daemon
  BY MemoryFacts, Zenon
<1>3. x \in Daemon
  BY <1>2, Zenon DEF Daemon
<1>4. y = [g.dmn[d] EXCEPT !.state = "DOWN", !.fd = "none", !.late = FALSE,
                           !.t_read = FALSE, !.t_wakeup = "none"]
  BY Zenon
<1> HIDE DEF x
<1>5. h \in Memory /\ h.dmn[d] = x
  BY <1>3, SetDmn, Zenon DEF SetTo, Touched
<1>6. [g EXCEPT !.dmn[d] = y] = [h EXCEPT !.dmn[d] = y]
  <2> HIDE DEF y
  <2> QED  BY Zenon DEF Memory
<1> HIDE DEF h
<1>7. [h EXCEPT !.dmn[d].t_read = FALSE, !.dmn[d].t_wakeup = "none"] = [h EXCEPT !.dmn[d] = y]
  BY <1>5, Zenon DEF Memory
<1>8. [h EXCEPT !.dmn[d].t_read = FALSE, !.dmn[d].t_wakeup = "none"]
      = [g EXCEPT !.dmn[d].state = "DOWN", !.dmn[d].fd = "none", !.dmn[d].late = FALSE,
                  !.dmn[d].t_read = FALSE, !.dmn[d].t_wakeup = "none"]
  BY <1>1, Zenon
<1> HIDE DEF y
<1> QED  BY <1>4, <1>6, <1>7, <1>8, Zenon

LEMMA DaemonDown ==
  ASSUME NEW g \in Memory, NEW d \in Daemons, NEW to \in Outcomes, NEW fork, Counts(g),
         g.phase = "NONE"
  PROVE  LET h == daemon_down(g, d, to, fork)
         IN  IF g.dmn[d].ignore THEN h = g ELSE Renewed(g, h, d, to)
<1>1. CASE g.dmn[d].ignore
  BY <1>1, Zenon DEF daemon_down
<1>2. CASE ~g.dmn[d].ignore
  <2> DEFINE n == IF IS_UP(g.dmn[d]) THEN g.numdown + 1 ELSE g.numdown
             x == g.dmn[d]
             y == [x EXCEPT !.state = "DOWN", !.fd = "none", !.late = FALSE,
                            !.t_read = FALSE, !.t_wakeup = "none"]
             k == [g EXCEPT !.numdown = n]
             m == [k EXCEPT !.dmn[d] = y]
             c == connect_or_wait(m, d, to, fork)
  <2>1. x \in Daemon /\ g.numdown \in Nat
    BY MemoryFacts, Zenon
  <2>2. n \in Nat
    BY <2>1
  <2>3. /\ y \in Daemon /\ y.state = "DOWN" /\ y.fd = "none" /\ y.t_wakeup = "none"
        /\ y.ignore = x.ignore
    <3> HIDE DEF x
    <3>1. y \in Daemon
      BY <2>1, Zenon DEF Daemon
    <3>2. y.state = "DOWN" /\ y.fd = "none" /\ y.t_wakeup = "none" /\ y.ignore = x.ignore
      BY <2>1, Zenon DEF Daemon
    <3> QED  BY <3>1, <3>2, Zenon
  <2>4. m = [g EXCEPT !.numdown = IF IS_UP(g.dmn[d]) THEN @ + 1 ELSE @,
                      !.dmn[d].state = "DOWN", !.dmn[d].fd = "none",
                      !.dmn[d].late = FALSE, !.dmn[d].t_read = FALSE,
                      !.dmn[d].t_wakeup = "none"]
    <3> HIDE DEF n
    <3>1. k \in Memory /\ k.dmn = g.dmn
      BY <2>2, Zenon DEF Memory
    <3> HIDE DEF k
    <3>a. y = [k.dmn[d] EXCEPT !.state = "DOWN", !.fd = "none", !.late = FALSE,
                               !.t_read = FALSE, !.t_wakeup = "none"]
      BY <3>1, Zenon
    <3> HIDE DEF y
    <3>2. m = [k EXCEPT !.dmn[d].state = "DOWN", !.dmn[d].fd = "none",
                        !.dmn[d].late = FALSE, !.dmn[d].t_read = FALSE,
                        !.dmn[d].t_wakeup = "none"]
      BY <3>1, <3>a, Cleared, Zenon
    <3>3. m = [g EXCEPT !.numdown = n,
                        !.dmn[d].state = "DOWN", !.dmn[d].fd = "none",
                        !.dmn[d].late = FALSE, !.dmn[d].t_read = FALSE,
                        !.dmn[d].t_wakeup = "none"]
      BY <3>2, Zenon DEF k
    <3> HIDE DEF m
    <3> QED  BY <3>3, Zenon DEF n
  <2> HIDE DEF n, y
  <2>5. k \in Memory /\ Touched(g, k, d) /\ k.numdown = n
    BY <2>2, Zenon DEF Memory, Touched
  <2> HIDE DEF k
  <2>6. SetTo(k, m, d, y)
    BY <2>3, <2>5, SetDmn, Zenon
  <2> HIDE DEF m, x
  <2>7. Touched(g, m, d) /\ m.numdown = n /\ m.dmn[d] = y
    BY <2>5, <2>6, TouchedTwice, Zenon DEF SetTo
  <2>8. ~IS_UP(m.dmn[d])
    BY <2>3, <2>7, Zenon DEF IS_UP
  <2>9. Counts(m)
    BY <2>7, <2>8, TouchedCounts, Zenon DEF n
  <2>10. m \in Memory /\ m.phase = "NONE"
    BY <2>7, Zenon DEF Touched
  <2>11. Renewed(m, c, d, to)
    BY <2>3, <2>7, <2>9, <2>10, Reconnect, Zenon
  <2> HIDE DEF c
  <2>12. c.phase = "NONE"
    BY <2>10, <2>11, Zenon DEF Renewed, Touched
  <2>13. daemon_down(g, d, to, fork) = phase_check(c, fork)
    BY <1>2, <2>4, Zenon DEF daemon_down, c
  <2>14. daemon_down(g, d, to, fork) = c
    BY <2>12, <2>13, Zenon DEF phase_check
  <2>15. Renewed(g, c, d, to)
    BY <2>3, <2>7, <2>11, TouchedTwice, Zenon DEF Renewed, x
  <2> QED  BY <1>2, <2>14, <2>15, Zenon
<1> QED  BY <1>1, <1>2, Zenon

-----------------------------------------------------------------------------
(* What a step has to show. *)

\* There is reason to restart the daemon.
Due(d) == \/ proc[d] # "alive" \/ d \in ignored
          \/ gs.dmn[d].fd \in {"asked", "answered", "final", "garbage"}

Alone == Starts("all") => \A r \in Entries : child[r] = "none"
Justified == \A d \in Daemons : Starts(IF d = "zebra" THEN "all" ELSE d) => Due(d)

Sound == IInv' /\ Alone /\ Justified

LEMMA InvFacts ==
  ASSUME IInv
  PROVE  /\ gs \in Memory /\ Counts(gs) /\ Starting(gs)
         /\ faults \in 0..MaxFaults /\ MaxFaults \in Nat
         /\ \A d \in Daemons : Sane(gs.dmn[d]) /\ gs.dmn[d] \in Daemon
         /\ \A d \in Daemons : gs.dmn[d].ignore => d \in ignored
         /\ \A d \in Daemons \ ignored : Seen(gs.dmn[d], proc[d])
         /\ Started => gs.phase = "NONE" /\ \A d \in Daemons : gs.dmn[d].state # "INIT"
<1>1. gs \in Memory /\ faults \in 0..MaxFaults
  BY Zenon DEF IInv, Typed, Memory
<1>2. Started => gs.phase = "NONE" /\ \A d \in Daemons : gs.dmn[d].state # "INIT"
  BY <1>1, MemoryFacts, Zenon DEF IInv, Starting, Started
<1> QED  BY <1>1, <1>2, MemoryFacts, WatchfrrAssumption, Zenon DEF IInv

LEMMA ChildrenFacts ==
  ASSUME IInv, NEW g \in Memory
  PROVE  /\ Children(g) \in [Entries -> {"none", "stopping", "starting", "stuck"} \cup Exited]
         /\ \A r \in Entries :
              /\ g.restart[r].pid <=> Children(g)[r] # "none"
              /\ child[r] = "none" /\ Children(g)[r] # "none" => r \in Pids(g) \ Pids(gs)
<1>1. /\ child \in [Entries -> {"none", "stopping", "starting", "stuck"} \cup Exited]
      /\ \A r \in Entries : gs.restart[r].pid <=> child[r] # "none"
  BY Zenon DEF IInv, Typed
<1>2. \A r \in Entries :
        /\ Children(g)[r] \in {"none", "stopping", "starting", "stuck"} \cup Exited
        /\ g.restart[r].pid <=> Children(g)[r] # "none"
        /\ child[r] = "none" /\ Children(g)[r] # "none" => r \in Pids(g) \ Pids(gs)
  BY <1>1, Zenon DEF Children, Pids
<1> QED  BY <1>2, Zenon DEF Children

LEMMA Justify ==
  ASSUME IInv, gs' \in Memory, child' = Children(gs'), NEW S \in SUBSET Daemons,
         Began(gs, gs', S), \A d \in S : Due(d)
  PROVE  Alone /\ Justified
<1>1. \A r \in Entries : Starts(r) => r \in Pids(gs') \ Pids(gs)
  BY ChildrenFacts, Zenon DEF Starts
<1>2. \A r \in Entries : Starts(r) => \/ r \in S \ {"zebra"}
                                      \/ r = "all" /\ "zebra" \in S /\ Pids(gs) = {}
  BY <1>1, Zenon DEF Began
<1>3. "all" \in Entries /\ "all" \notin Daemons /\ \A d \in Daemons : d \in Entries
  BY WatchfrrAssumption, Zenon DEF Entries
<1>4. Pids(gs) = {} => \A r \in Entries : child[r] = "none"
  BY Zenon DEF IInv, Pids
<1>5. Alone
  BY <1>2, <1>3, <1>4, Zenon DEF Alone
<1>6. Justified
  BY <1>2, <1>3, Zenon DEF Justified
<1> QED  BY <1>5, <1>6, Zenon

\* A callback that begins no command.
LEMMA Idle ==
  ASSUME IInv, gs' \in Memory, child' = Children(gs'), Pids(gs') = Pids(gs)
  PROVE  Alone /\ Justified
<1>1. {} \in SUBSET Daemons /\ (\A d \in {} : Due(d)) /\ Began(gs, gs', {})
  BY Zenon DEF Began
<1> QED  BY <1>1, Justify, Zenon

LEMMA Quiet ==
  ASSUME \A r \in Entries : child[r] = "none" => child'[r] = "none"
  PROVE  Alone /\ Justified
BY Zenon DEF Alone, Justified, Starts, Entries

\* A callback about daemon d after startup.
LEMMA Settled ==
  ASSUME IInv, Started, NEW d \in Daemons, gs' \in Memory, Counts(gs'),
         gs'.phase = "NONE", \A e \in Daemons \ {d} : gs'.dmn[e] = gs.dmn[e],
         Sane(gs'.dmn[d]), gs'.dmn[d].state # "INIT",
         gs'.dmn[d].ignore => d \in ignored,
         d \in ignored \/ Seen(gs'.dmn[d], proc[d]),
         child' = Children(gs'), UNCHANGED world, faults' \in 0..MaxFaults
  PROVE  IInv'
<1>1. Typed'
  <2>1. child' \in [Entries -> {"none", "stopping", "starting", "stuck"} \cup Exited]
    BY ChildrenFacts, Zenon
  <2> QED  BY <2>1, Zenon DEF Typed, Memory, IInv, world
<1>2. \A e \in Daemons : Sane(gs'.dmn[e]) /\ gs'.dmn[e].state # "INIT"
  BY InvFacts, Zenon
<1>3. Starting(gs')
  BY <1>2, Zenon DEF Starting
<1>4. \A r \in Entries : gs'.restart[r].pid <=> child'[r] # "none"
  BY ChildrenFacts, Zenon
<1>5. \A e \in Daemons : gs'.dmn[e].ignore => e \in ignored'
  BY InvFacts, Zenon DEF world
<1>6. \A e \in Daemons \ ignored' : Seen(gs'.dmn[e], proc'[e])
  BY InvFacts, Zenon DEF world
<1> QED  BY <1>1, <1>2, <1>3, <1>4, <1>5, <1>6, Zenon DEF IInv

LEMMA FaultType ==
  ASSUME IInv, NEW b \in BOOLEAN, Fault(b)
  PROVE  faults' \in 0..MaxFaults
<1>1. faults \in 0..MaxFaults /\ MaxFaults \in Nat
  BY InvFacts, Zenon
<1> QED  BY <1>1 DEF Fault

-----------------------------------------------------------------------------
(* The callbacks of a daemon after startup. *)

\* A change of d's record that does not bring it up or down.
Edited(g, h, d) ==
  /\ Touched(g, h, d) /\ h.numdown = g.numdown /\ Counts(h) /\ Pids(h) = Pids(g)
  /\ h.dmn[d] \in Daemon

LEMMA EditedFacts ==
  ASSUME NEW g \in Memory, NEW d \in Daemons, NEW x \in Daemon, NEW h, Counts(g),
         IS_UP(x) <=> IS_UP(g.dmn[d]), SetTo(g, h, d, x)
  PROVE  Edited(g, h, d) /\ h.dmn[d] = x
<1>1. Touched(g, h, d) /\ h.numdown = g.numdown /\ h.dmn[d] = x
  BY Zenon DEF SetTo
<1>2. Counts(h)
  BY <1>1, TouchedCounts, Zenon
<1> QED  BY <1>1, <1>2, Zenon DEF Edited, Touched, Pids

\* The same record but for its timer.
SameButTimer(x, y) ==
  /\ y.state = x.state /\ y.fd = x.fd /\ y.t_read = x.t_read /\ y.ignore = x.ignore

LEMMA FiredFacts ==
  ASSUME NEW g \in Memory, NEW d \in Daemons, Counts(g)
  PROVE  LET h == Fired(g, d)
         IN  /\ Edited(g, h, d) /\ SameButTimer(g.dmn[d], h.dmn[d])
             /\ h.dmn[d].t_wakeup = "none"
<1> DEFINE x == [g.dmn[d] EXCEPT !.t_wakeup = "none"]
<1>1. g.dmn[d] \in Daemon
  BY MemoryFacts, Zenon
<1>2. x \in Daemon
  BY <1>1, Zenon DEF Daemon
<1>3. SameButTimer(g.dmn[d], x) /\ x.t_wakeup = "none"
  BY <1>1, Zenon DEF Daemon, SameButTimer
<1>4. Fired(g, d) = [g EXCEPT !.dmn[d] = x]
  BY Zenon DEF Fired, Memory
<1> HIDE DEF x
<1>5. IS_UP(x) <=> IS_UP(g.dmn[d])
  BY <1>3, Zenon DEF SameButTimer, IS_UP
<1>6. SetTo(g, Fired(g, d), d, x)
  BY <1>2, <1>4, SetDmn, Zenon
<1> DEFINE h == Fired(g, d)
<1> HIDE DEF h
<1>7. Edited(g, h, d) /\ h.dmn[d] = x
  BY <1>2, <1>5, <1>6, EditedFacts, Zenon DEF h
<1> QED  BY <1>3, <1>7, Zenon DEF h

LEMMA SaneButTimer ==
  ASSUME NEW x, NEW y, Sane(x), SameButTimer(x, y), y.t_wakeup = "none"
  PROVE  Sane(y)
BY Zenon DEF Sane, SameButTimer, IS_UP

\* daemon_down from d's own callback; g is the memory the callback hands it.
LEMMA DownSettled ==
  ASSUME IInv, Started, NEW d \in Daemons, NEW g, NEW fork, Edited(gs, g, d),
         Sane(g.dmn[d]), g.dmn[d].state = gs.dmn[d].state,
         g.dmn[d].ignore = gs.dmn[d].ignore,
         gs' = daemon_down(g, d, Connects(d), fork),
         child' = Children(gs'), UNCHANGED world, faults' \in 0..MaxFaults
  PROVE  Sound
<1>1. /\ gs.phase = "NONE" /\ gs.dmn[d].state # "INIT"
      /\ gs.dmn[d].ignore => d \in ignored
  BY InvFacts, Zenon
<1>2. g \in Memory /\ g.phase = "NONE" /\ Counts(g) /\ Pids(g) = Pids(gs)
  BY <1>1, Zenon DEF Edited, Touched
<1>3. Connects(d) \in Outcomes
  BY ConnectsType, Zenon
<1>4. IF g.dmn[d].ignore THEN gs' = g ELSE Renewed(g, gs', d, Connects(d))
  BY <1>2, <1>3, DaemonDown, Zenon
<1>5. CASE g.dmn[d].ignore
  <2>1. gs' = g
    BY <1>4, <1>5, Zenon
  <2>2. \A e \in Daemons \ {d} : gs'.dmn[e] = gs.dmn[e]
    BY <2>1, Zenon DEF Edited, Touched
  <2>3. IInv'
    BY <1>1, <1>2, <1>5, <2>1, <2>2, Settled, Zenon
  <2>4. Pids(gs') = Pids(gs) /\ gs' \in Memory
    BY <1>2, <2>1, Zenon
  <2> QED  BY <2>3, <2>4, Idle, Zenon DEF Sound
<1>6. CASE ~g.dmn[d].ignore
  <2>1. Renewed(g, gs', d, Connects(d))
    BY <1>4, <1>6, Zenon
  <2>2. /\ Touched(gs, gs', d) /\ Counts(gs') /\ Sane(gs'.dmn[d])
        /\ gs'.dmn[d].ignore = gs.dmn[d].ignore
    BY <2>1, TouchedTwice, Zenon DEF Renewed, Edited
  <2>3. gs'.dmn[d].state # "INIT" /\ Seen(gs'.dmn[d], proc[d])
    BY <2>1, Zenon DEF Renewed, Seen
  <2>4. /\ gs' \in Memory /\ gs'.phase = "NONE"
        /\ \A e \in Daemons \ {d} : gs'.dmn[e] = gs.dmn[e]
    BY <1>1, <2>2, Zenon DEF Touched
  <2>5. IInv'
    BY <1>1, <2>2, <2>3, <2>4, Settled, Zenon
  <2>6. Pids(gs') = Pids(gs)
    BY <2>2, Zenon DEF Touched, Pids
  <2> QED  BY <2>4, <2>5, <2>6, Idle, Zenon DEF Sound
<1> QED  BY <1>5, <1>6, Zenon

\* try_restart at the end of d's own callback.
LEMMA TrySettled ==
  ASSUME IInv, Started, NEW d \in Daemons, NEW g, NEW fork \in BOOLEAN,
         Touched(gs, g, d), Counts(g), Sane(g.dmn[d]), g.dmn[d].state # "INIT",
         g.dmn[d].ignore = gs.dmn[d].ignore,
         d \in ignored \/ Seen(g.dmn[d], proc[d]), Due(d),
         gs' = try_restart(g, d, fork),
         child' = Children(gs'), UNCHANGED world, faults' \in 0..MaxFaults
  PROVE  Sound
<1>1. gs.phase = "NONE" /\ (gs.dmn[d].ignore => d \in ignored)
  BY InvFacts, Zenon
<1>2. g \in Memory /\ g.phase = "NONE" /\ Pids(g) = Pids(gs)
  BY <1>1, Zenon DEF Touched, Pids
<1>3. Tries(g, gs', d)
  BY <1>2, TryRestart, Zenon
<1>4. /\ gs' \in Memory /\ Counts(gs') /\ gs'.phase = "NONE" /\ gs'.dmn = g.dmn
      /\ Began(g, gs', {d})
  BY <1>2, <1>3, Zenon DEF Tries, SameButJobs
<1>5. \A e \in Daemons \ {d} : gs'.dmn[e] = gs.dmn[e]
  BY <1>4, Zenon DEF Touched
<1>6. IInv'
  <2>1. /\ Sane(gs'.dmn[d]) /\ gs'.dmn[d].state # "INIT"
        /\ gs'.dmn[d].ignore => d \in ignored
        /\ d \in ignored \/ Seen(gs'.dmn[d], proc[d])
    BY <1>1, <1>4, Zenon
  <2> QED  BY <1>4, <1>5, <2>1, Settled, Zenon
<1>7. Began(gs, gs', {d})
  BY <1>2, <1>4, Zenon DEF Began
<1>8. {d} \in SUBSET Daemons /\ \A e \in {d} : Due(e)
  BY Zenon
<1>9. Alone /\ Justified
  BY <1>4, <1>7, <1>8, Justify, Zenon
<1> QED  BY <1>6, <1>9, Zenon DEF Sound

LEMMA WakeupDown ==
  ASSUME IInv, NEW d \in Daemons, wakeup_down(d)
  PROVE  Sound
<1> DEFINE to == Connects(d)
           f == Fired(gs, d)
           h(fork) == connect_or_wait(f, d, to, fork)
<1>1. PICK fork \in BOOLEAN :
        /\ gs' = IF h(fork).dmn[d].tries > 1 /\ h(fork).dmn[d].state # "UP"
                 THEN try_restart(h(fork), d, fork) ELSE h(fork)
        /\ child' = Children(gs') /\ Fault(~fork) /\ UNCHANGED world
  BY Zenon DEF wakeup_down, Callback
<1>2. Started /\ gs.dmn[d].t_wakeup = "down"
  BY Zenon DEF wakeup_down, Turn
<1>3. /\ gs \in Memory /\ Counts(gs) /\ Sane(gs.dmn[d]) /\ gs.phase = "NONE"
      /\ gs.dmn[d].ignore => d \in ignored
  BY <1>2, InvFacts, Zenon
<1>4. gs.dmn[d].state = "DOWN" /\ gs.dmn[d].fd = "none"
  BY <1>2, <1>3, Zenon DEF Sane
<1>5. Edited(gs, f, d) /\ SameButTimer(gs.dmn[d], f.dmn[d]) /\ f.dmn[d].t_wakeup = "none"
  BY <1>3, FiredFacts, Zenon
<1> HIDE DEF f
<1>6. /\ f \in Memory /\ Counts(f) /\ f.phase = "NONE" /\ f.dmn[d].state = "DOWN"
      /\ f.dmn[d].fd = "none" /\ f.dmn[d].ignore = gs.dmn[d].ignore /\ Touched(gs, f, d)
  BY <1>3, <1>4, <1>5, Zenon DEF Edited, Touched, SameButTimer
<1>7. to \in Outcomes
  BY ConnectsType, Zenon
<1>8. Renewed(f, h(fork), d, to)
  BY <1>5, <1>6, <1>7, Reconnect, Zenon
<1> HIDE DEF h
<1>9. /\ Touched(gs, h(fork), d) /\ Counts(h(fork)) /\ Sane(h(fork).dmn[d])
      /\ h(fork).dmn[d].ignore = gs.dmn[d].ignore
  BY <1>6, <1>8, TouchedTwice, Zenon DEF Renewed
<1>10. /\ h(fork).dmn[d].state # "INIT" /\ Seen(h(fork).dmn[d], proc[d])
       /\ h(fork).dmn[d].state # "UP" => to # "up"
  BY <1>8, Zenon DEF Renewed, Seen
<1>11. faults' \in 0..MaxFaults
  BY <1>1, FaultType, Zenon
<1>12. CASE gs' = h(fork)
  <2>1. /\ gs' \in Memory /\ gs'.phase = "NONE"
        /\ \A e \in Daemons \ {d} : gs'.dmn[e] = gs.dmn[e]
    BY <1>3, <1>9, <1>12, Zenon DEF Touched
  <2>2. IInv'
    BY <1>1, <1>2, <1>3, <1>9, <1>10, <1>11, <1>12, <2>1, Settled, Zenon
  <2>3. Pids(gs') = Pids(gs)
    BY <1>9, <1>12, Zenon DEF Touched, Pids
  <2> QED  BY <1>1, <2>1, <2>2, <2>3, Idle, Zenon DEF Sound
<1>13. CASE h(fork).dmn[d].state # "UP" /\ gs' = try_restart(h(fork), d, fork)
  <2>1. Due(d)
    BY <1>7, <1>10, <1>13, ConnectsType, Zenon DEF Due, Outcomes
  <2> QED  BY <1>1, <1>2, <1>9, <1>10, <1>11, <1>13, <2>1, TrySettled, Zenon
<1> QED  BY <1>1, <1>12, <1>13, Zenon

\* A callback that only edits d's record.
LEMMA EditSettled ==
  ASSUME IInv, Started, NEW d \in Daemons, NEW y \in Daemon,
         SetTo(gs, gs', d, y), IS_UP(y) <=> IS_UP(gs.dmn[d]), Sane(y),
         y.state # "INIT", y.ignore = gs.dmn[d].ignore,
         d \in ignored \/ Seen(y, proc[d]),
         child' = Children(gs'), UNCHANGED world, faults' \in 0..MaxFaults
  PROVE  Sound
<1>1. /\ gs \in Memory /\ Counts(gs) /\ gs.phase = "NONE"
      /\ gs.dmn[d].ignore => d \in ignored
  BY InvFacts, Zenon
<1>3. Edited(gs, gs', d) /\ gs'.dmn[d] = y
  BY <1>1, EditedFacts
<1>4. /\ gs' \in Memory /\ Counts(gs') /\ gs'.phase = "NONE" /\ Pids(gs') = Pids(gs)
      /\ \A e \in Daemons \ {d} : gs'.dmn[e] = gs.dmn[e]
  BY <1>1, <1>3, Zenon DEF Edited, Touched
<1>5. IInv'
  BY <1>1, <1>3, <1>4, Settled, Zenon
<1> QED  BY <1>4, <1>5, Idle, Zenon DEF Sound

LEMMA WakeupSendEcho ==
  ASSUME IInv, NEW d \in Daemons, wakeup_send_echo(d)
  PROVE  Sound
<1> DEFINE x == gs.dmn[d]
           y == [x EXCEPT !.fd = "asked", !.late = FALSE, !.t_wakeup = "no_answer"]
<1>1. PICK fork \in BOOLEAN :
        /\ gs' = IF gs.dmn[d].fd # "idle" THEN daemon_down(Fired(gs, d), d, Connects(d), fork)
                 ELSE [gs EXCEPT !.dmn[d].fd = "asked", !.dmn[d].late = FALSE,
                                 !.dmn[d].t_wakeup = "no_answer"]
        /\ child' = Children(gs') /\ Fault(~fork) /\ UNCHANGED world
  BY Zenon DEF wakeup_send_echo, Callback
<1>2. Started /\ x.t_wakeup = "echo"
  BY Zenon DEF wakeup_send_echo, Turn
<1>3. /\ gs \in Memory /\ Counts(gs) /\ Sane(x) /\ x \in Daemon /\ x.state # "INIT"
      /\ d \in ignored \/ Seen(x, proc[d])
  BY <1>2, InvFacts, Zenon
<1>4. faults' \in 0..MaxFaults
  BY <1>1, FaultType, Zenon
<1>5. CASE x.fd # "idle"
  <2> DEFINE f == Fired(gs, d)
  <2>1. Edited(gs, f, d) /\ SameButTimer(x, f.dmn[d]) /\ f.dmn[d].t_wakeup = "none"
    BY <1>3, FiredFacts, Zenon
  <2>2. gs' = daemon_down(f, d, Connects(d), fork)
    BY <1>1, <1>5, Zenon
  <2> HIDE DEF f
  <2>3. Sane(f.dmn[d]) /\ f.dmn[d].state = x.state /\ f.dmn[d].ignore = x.ignore
    BY <1>3, <2>1, SaneButTimer, Zenon DEF SameButTimer
  <2> QED  BY <1>1, <1>2, <1>4, <2>1, <2>2, <2>3, DownSettled, Zenon
<1>6. CASE x.fd = "idle"
  <2>1. gs' = [gs EXCEPT !.dmn[d] = y]
    BY <1>1, <1>3, <1>6, Zenon DEF Memory
  <2>2. /\ y \in Daemon /\ y.fd = "asked" /\ y.t_wakeup = "no_answer"
        /\ y.state = x.state /\ y.ignore = x.ignore /\ y.t_read = x.t_read
    BY <1>3, Zenon DEF Daemon
  <2> HIDE DEF y
  <2>3. IS_UP(x) /\ IS_UP(y)
    BY <1>2, <1>3, <2>2, Zenon DEF Sane, IS_UP
  <2>4. Sane(y)
    BY <2>2, <2>3, Zenon DEF Sane, Asked, IS_UP
  <2>5. d \in ignored \/ Seen(y, proc[d])
    BY <1>3, <1>6, <2>2, Zenon DEF Seen
  <2>6. SetTo(gs, gs', d, y)
    BY <1>3, <2>1, <2>2, SetDmn, Zenon
  <2> HIDE DEF x
  <2> QED  BY <1>1, <1>2, <1>3, <1>4, <2>6, <2>2, <2>3, <2>4, <2>5, EditSettled, Zenon DEF x
<1> QED  BY <1>5, <1>6, Zenon

\* A daemon with an echo out, or whose connection has ended, is due.
LEMMA AskedDue ==
  ASSUME NEW d \in Daemons, gs.dmn[d].fd \in Asked,
         d \in ignored \/ Seen(gs.dmn[d], proc[d])
  PROVE  Due(d)
BY Zenon DEF Asked, Seen, Due

LEMMA WakeupNoAnswer ==
  ASSUME IInv, NEW d \in Daemons, wakeup_no_answer(d)
  PROVE  Sound
<1> DEFINE x == gs.dmn[d]
           y == [x EXCEPT !.t_wakeup = "none", !.state = "UNRESPONSIVE", !.late = TRUE]
           z == [y EXCEPT !.t_wakeup = "unresponsive"]
           g == [Fired(gs, d) EXCEPT !.dmn[d].state = "UNRESPONSIVE", !.dmn[d].late = TRUE]
           k == [g EXCEPT !.dmn[d].t_wakeup = "unresponsive"]
<1>1. PICK fork \in BOOLEAN :
        /\ gs' = IF g.dmn[d].ignore THEN g ELSE try_restart(k, d, fork)
        /\ child' = Children(gs') /\ Fault(~fork \/ proc[d] = "alive")
  BY Zenon DEF wakeup_no_answer
<1>2. Started /\ x.t_wakeup = "no_answer" /\ UNCHANGED world
  BY Zenon DEF wakeup_no_answer, Turn
<1>3. /\ gs \in Memory /\ Counts(gs) /\ Sane(x) /\ x \in Daemon /\ x.state # "INIT"
      /\ d \in ignored \/ Seen(x, proc[d])
  BY <1>2, InvFacts, Zenon
<1>4. faults' \in 0..MaxFaults
  BY <1>1, FaultType, Zenon
<1>5. g = [gs EXCEPT !.dmn[d] = y]
  BY <1>3, Zenon DEF Memory, Fired
<1>6. k = [gs EXCEPT !.dmn[d] = z]
  <2> HIDE DEF g, y
  <2> QED  BY <1>3, <1>5, Zenon DEF Memory
<1> HIDE DEF g, k
<1>7. /\ y \in Daemon /\ y.fd = x.fd /\ y.t_wakeup = "none"
      /\ y.state = "UNRESPONSIVE" /\ y.ignore = x.ignore /\ y.t_read = x.t_read
  BY <1>3, Zenon DEF Daemon
<1> HIDE DEF y
<1>8. /\ z \in Daemon /\ z.fd = x.fd /\ z.t_wakeup = "unresponsive"
      /\ z.state = "UNRESPONSIVE" /\ z.ignore = x.ignore /\ z.t_read = x.t_read
  BY <1>7, Zenon DEF Daemon
<1> HIDE DEF z, x
<1>9. IS_UP(x) /\ x.fd \in Asked /\ IS_UP(y) /\ IS_UP(z)
  BY <1>2, <1>3, <1>7, <1>8, Zenon DEF Sane, IS_UP
<1>10. Sane(y) /\ Sane(z)
  BY <1>3, <1>7, <1>8, <1>9, Zenon DEF Sane
<1>11. (d \in ignored \/ Seen(y, proc[d])) /\ (d \in ignored \/ Seen(z, proc[d]))
  BY <1>3, <1>7, <1>8, Zenon DEF Seen
<1>12. y.state # "INIT" /\ z.state # "INIT"
  BY <1>7, <1>8, Zenon
<1>13. CASE gs' = g
  <2>1. SetTo(gs, gs', d, y)
    BY <1>3, <1>5, <1>7, <1>13, SetDmn, Zenon
  <2> QED  BY <1>1, <1>2, <1>4, <1>7, <1>9, <1>10, <1>11, <1>12, <2>1, EditSettled, Zenon DEF x
<1>14. CASE gs' = try_restart(k, d, fork)
  <2>1. SetTo(gs, k, d, z)
    BY <1>3, <1>6, <1>8, SetDmn, Zenon
  <2>2. Edited(gs, k, d) /\ k.dmn[d] = z
    <3>1. IS_UP(z) <=> IS_UP(gs.dmn[d])
      BY <1>9, Zenon DEF x
    <3> QED  BY <1>3, <1>8, <2>1, <3>1, EditedFacts
  <2>3. Touched(gs, k, d) /\ Counts(k)
    BY <2>2, Zenon DEF Edited
  <2>4. Due(d)
    BY <1>3, <1>9, AskedDue, Zenon DEF x
  <2> QED  BY <1>1, <1>2, <1>4, <1>8, <1>10, <1>11, <1>12, <1>14, <2>2, <2>3, <2>4,
              TrySettled, Zenon
              DEF x
<1> QED  BY <1>1, <1>13, <1>14, Zenon

LEMMA WakeupUnresponsive ==
  ASSUME IInv, NEW d \in Daemons, wakeup_unresponsive(d)
  PROVE  Sound
<1> DEFINE x == gs.dmn[d]
           f == Fired(gs, d)
<1>1. PICK fork \in BOOLEAN :
        /\ gs' = f \/ gs' = try_restart(gs, d, fork)
        /\ child' = Children(gs') /\ Fault(~fork) /\ UNCHANGED world
  BY Zenon DEF wakeup_unresponsive, Callback
<1>2. Started /\ x.t_wakeup = "unresponsive"
  BY Zenon DEF wakeup_unresponsive, Turn
<1>3. /\ gs \in Memory /\ Counts(gs) /\ Sane(x) /\ x \in Daemon /\ x.state # "INIT"
      /\ d \in ignored \/ Seen(x, proc[d])
  BY <1>2, InvFacts, Zenon
<1>4. faults' \in 0..MaxFaults
  BY <1>1, FaultType, Zenon
<1>5. CASE gs' = f
  <2>1. Edited(gs, f, d) /\ SameButTimer(x, f.dmn[d]) /\ f.dmn[d].t_wakeup = "none"
    BY <1>3, FiredFacts, Zenon
  <2> DEFINE y == f.dmn[d]
  <2> HIDE DEF f
  <2>2. SetTo(gs, gs', d, y) /\ y \in Daemon
    BY <1>5, <2>1, Zenon DEF Edited, SetTo
  <2>3. Sane(y) /\ y.state = x.state /\ y.ignore = x.ignore /\ (IS_UP(y) <=> IS_UP(x))
    BY <1>3, <2>1, SaneButTimer, Zenon DEF SameButTimer, IS_UP
  <2>4. d \in ignored \/ Seen(y, proc[d])
    BY <1>3, <2>1, Zenon DEF SameButTimer, Seen
  <2> HIDE DEF y
  <2> QED  BY <1>1, <1>2, <1>3, <1>4, <2>2, <2>3, <2>4, EditSettled, Zenon
<1>6. CASE gs' = try_restart(gs, d, fork)
  <2>1. Touched(gs, gs, d)
    BY <1>3, Zenon DEF Touched
  <2>2. Due(d)
    BY <1>2, <1>3, AskedDue, Zenon DEF Sane
  <2> QED  BY <1>1, <1>2, <1>3, <1>4, <1>6, <2>1, <2>2, TrySettled, Zenon
<1> QED  BY <1>1, <1>5, <1>6, Zenon

\* What handle_answer sets, as an update of the daemon's record.
Answered(x) ==
  [x EXCEPT !.fd = IF x.fd = "final" THEN "eof" ELSE "idle", !.t_wakeup = "echo",
            !.late = FALSE,
            !.state = IF x.state = "UNRESPONSIVE" /\ ~x.late THEN "UP" ELSE x.state]

LEMMA HandleAnswer ==
  ASSUME NEW g \in Memory, NEW d \in Daemons
  PROVE  handle_answer(g, d) = [g EXCEPT !.dmn[d] = Answered(g.dmn[d])]
<1> DEFINE w == g.dmn[d]
           fd == IF w.fd = "final" THEN "eof" ELSE "idle"
           state == IF w.state = "UNRESPONSIVE" /\ ~w.late THEN "UP" ELSE w.state
           x == [w EXCEPT !.fd = fd, !.t_wakeup = "echo", !.late = FALSE]
           y == [x EXCEPT !.state = state]
           h == [g EXCEPT !.dmn[d] = x]
           i == [g EXCEPT !.dmn[d].fd = IF @ = "final" THEN "eof" ELSE "idle",
                          !.dmn[d].t_wakeup = "echo", !.dmn[d].late = FALSE]
<1>0. handle_answer(g, d) = [i EXCEPT !.dmn[d].state = state]
  BY Zenon DEF handle_answer
<1>1. w \in Daemon
  BY MemoryFacts, Zenon
<1>2. x \in Daemon /\ x.state = w.state
  <2>1. fd \in {"idle", "eof"}
    BY Zenon
  <2> HIDE DEF fd, w
  <2> QED  BY <1>1, <2>1, Zenon DEF Daemon
<1>3. y = Answered(w)
  BY Zenon DEF Answered
<1>4. h = i
  BY Zenon DEF Memory
<1> HIDE DEF i
<1> HIDE DEF x
<1>5. h \in Memory /\ h.dmn[d] = x
  BY <1>2, SetDmn, Zenon DEF SetTo, Touched
<1>6. [g EXCEPT !.dmn[d] = y] = [h EXCEPT !.dmn[d] = y]
  <2> HIDE DEF y
  <2> QED  BY Zenon DEF Memory
<1> HIDE DEF h
<1>7. [h EXCEPT !.dmn[d].state = state] = [h EXCEPT !.dmn[d] = y]
  <2> HIDE DEF state
  <2> QED  BY <1>5, Zenon DEF Memory
<1>8. handle_answer(g, d) = [h EXCEPT !.dmn[d].state = state]
  BY <1>0, <1>2, <1>4, <1>5, Zenon
<1> HIDE DEF y
<1> QED  BY <1>3, <1>6, <1>7, <1>8, Zenon

LEMMA HandleRead ==
  ASSUME IInv, NEW d \in Daemons, handle_read(d)
  PROVE  Sound
<1> DEFINE x == gs.dmn[d]
           state == IF x.state = "UNRESPONSIVE" /\ ~x.late THEN "UP" ELSE x.state
           fd == IF x.fd = "final" THEN "eof" ELSE "idle"
           y == Answered(x)
           z == [x EXCEPT !.t_read = FALSE]
           g == [gs EXCEPT !.dmn[d] = z]
<1>1. PICK fork \in BOOLEAN :
        /\ gs' = IF x.fd \in {"answered", "final"} THEN handle_answer(gs, d)
                 ELSE daemon_down([gs EXCEPT !.dmn[d].t_read = FALSE], d, Connects(d), fork)
        /\ child' = Children(gs') /\ Fault(~fork) /\ UNCHANGED world
  BY Zenon DEF handle_read, Callback
<1>2. Started /\ x.t_read
  BY Zenon DEF handle_read, Turn
<1>3. /\ gs \in Memory /\ Counts(gs) /\ Sane(x) /\ x \in Daemon /\ x.state # "INIT"
      /\ d \in ignored \/ Seen(x, proc[d])
  BY <1>2, InvFacts, Zenon
<1>4. faults' \in 0..MaxFaults
  BY <1>1, FaultType, Zenon
<1>5. CASE x.fd \in {"answered", "final"}
  <2>1. gs' = [gs EXCEPT !.dmn[d] = y]
    BY <1>1, <1>3, <1>5, HandleAnswer, Zenon
  <2>2. IS_UP(x)
    BY <1>3, <1>5, Zenon DEF Sane
  <2>3. state \in {"UP", "UNRESPONSIVE"}
    BY <2>2, Zenon DEF IS_UP
  <2> HIDE DEF state
  <2>4. /\ y \in Daemon /\ y.fd = fd
        /\ y.t_wakeup = "echo" /\ y.state = state /\ y.ignore = x.ignore
        /\ y.t_read = x.t_read
    <3>1. fd \in {"idle", "eof"}
      BY Zenon
    <3>2. y = [x EXCEPT !.fd = fd, !.t_wakeup = "echo", !.late = FALSE, !.state = state]
      BY Zenon DEF Answered, state
    <3> HIDE DEF fd, y, x
    <3> QED  BY <1>3, <2>3, <3>1, <3>2, Zenon DEF Daemon
  <2> HIDE DEF y
  <2>5. SetTo(gs, gs', d, y)
    BY <1>3, <2>1, <2>4, SetDmn, Zenon
  <2>6. IS_UP(y) /\ y.state # "INIT" /\ Sane(y)
    BY <2>3, <2>4, Zenon DEF IS_UP, Sane
  <2>7. d \in ignored \/ Seen(y, proc[d])
    BY <1>2, <1>3, <2>4, Zenon DEF Seen
  <2> HIDE DEF x
  <2> QED  BY <1>1, <1>2, <1>3, <1>4, <2>2, <2>4, <2>5, <2>6, <2>7, EditSettled, Zenon DEF x
<1>6. CASE x.fd \notin {"answered", "final"}
  <2>1. g = [gs EXCEPT !.dmn[d].t_read = FALSE]
    BY <1>3, Zenon DEF Memory
  <2>2. gs' = daemon_down(g, d, Connects(d), fork)
    BY <1>1, <1>6, <2>1, Zenon
  <2>3. /\ z \in Daemon /\ z.fd = x.fd /\ z.t_wakeup = x.t_wakeup
        /\ z.state = x.state /\ z.ignore = x.ignore
    BY <1>3, Zenon DEF Daemon
  <2> HIDE DEF z
  <2>4. SetTo(gs, g, d, z)
    BY <1>3, <2>3, SetDmn, Zenon
  <2> HIDE DEF g
  <2>5. Sane(z) /\ (IS_UP(z) <=> IS_UP(x))
    BY <1>3, <2>3, Zenon DEF Sane, IS_UP
  <2>6. Edited(gs, g, d) /\ g.dmn[d] = z
    BY <1>3, <2>3, <2>4, <2>5, EditedFacts, Zenon
  <2> QED  BY <1>1, <1>2, <1>4, <2>2, <2>3, <2>5, <2>6, DownSettled, Zenon
<1> QED  BY <1>5, <1>6, Zenon

-----------------------------------------------------------------------------
(* Startup. *)

LEMMA CheckedTwice ==
  ASSUME NEW g, NEW fork, Checked(g, phase_check(g, fork))
  PROVE  phase_check(phase_check(g, fork), fork) = phase_check(g, fork)
<1> DEFINE h == phase_check(g, fork)
<1>1. CASE h.phase = "INIT"
  <2>1. h = g
    BY <1>1, Zenon DEF Checked
  <2> QED  BY <2>1, Zenon
<1>2. CASE h.phase = "NONE"
  <2> HIDE DEF h
  <2>1. phase_check(h, fork) = h
    BY <1>2, Zenon DEF phase_check
  <2> QED  BY <2>1, Zenon DEF h
<1>3. h.phase \in {"NONE", "INIT"}
  BY MemoryFacts, Zenon DEF Checked
<1> QED  BY <1>1, <1>2, <1>3, Zenon

\* What wakeup_init makes of d before it calls phase_check for the last time.
Tried(x, y, p) ==
  /\ Sane(y) /\ y.state # "INIT" /\ y.ignore = x.ignore /\ Seen(y, p)
  /\ y.state = "DOWN" => p = "dead"

LEMMA WakeupInitIs ==
  ASSUME IInv, NEW d \in Daemons, wakeup_init(d)
  PROVE  \E g \in Memory, fork \in BOOLEAN :
           /\ Touched(gs, g, d) /\ Counts(g) /\ Tried(gs.dmn[d], g.dmn[d], proc[d])
           /\ gs.phase = "INIT" /\ gs' = phase_check(g, fork) /\ child' = Children(gs')
           /\ UNCHANGED world /\ faults' \in 0..MaxFaults
<1> DEFINE x == gs.dmn[d]
           f == Fired(gs, d)
           to == Connects(d)
           m == Attempt(f, d, to)
<1>1. PICK fork \in BOOLEAN :
        /\ LET h == try_connect(f, d, to, fork)
           IN  gs' = phase_check(IF to = "fail" THEN [h EXCEPT !.dmn[d].state = "DOWN"]
                                 ELSE h, fork)
        /\ child' = Children(gs') /\ Fault(~fork) /\ UNCHANGED world
  BY Zenon DEF wakeup_init, Callback
<1>2. /\ gs \in Memory /\ Counts(gs) /\ Sane(x) /\ x \in Daemon /\ Starting(gs)
      /\ \A e \in Daemons : Sane(gs.dmn[e])
  BY InvFacts, Zenon
<1>3. x.state = "INIT" /\ x.fd = "none" /\ gs.phase = "INIT"
  BY <1>2, Zenon DEF wakeup_init, Sane, Starting
<1>4. Edited(gs, f, d) /\ SameButTimer(x, f.dmn[d]) /\ f.dmn[d].t_wakeup = "none"
  BY <1>2, FiredFacts, Zenon
<1> HIDE DEF f
<1>5. /\ Touched(gs, f, d) /\ Counts(f) /\ f \in Memory /\ f.phase = "INIT"
      /\ f.dmn[d].state = "INIT" /\ f.dmn[d].fd = "none" /\ f.dmn[d].ignore = x.ignore
  BY <1>3, <1>4, Zenon DEF Edited, Touched, SameButTimer
<1>6. ~IS_UP(f.dmn[d])
  BY <1>5, Zenon DEF IS_UP
<1>7. to \in Outcomes /\ (to = "fail" => proc[d] = "dead")
  BY ConnectsType, Zenon
<1>8. Touched(f, m, d) /\ Counts(m) /\ Attempted(f.dmn[d], m.dmn[d], to)
  BY <1>4, <1>5, <1>6, <1>7, AttemptFacts, Zenon
<1>9. try_connect(f, d, to, fork) = IF to = "up" THEN phase_check(m, fork) ELSE m
  BY <1>5, <1>7, TryConnectIs, Zenon
<1> HIDE DEF m
<1>10. /\ Touched(gs, m, d) /\ m \in Memory /\ m.phase = "INIT"
       /\ \A e \in Daemons \ {d} : m.dmn[e] = gs.dmn[e]
  BY <1>3, <1>5, <1>8, TouchedTwice, Zenon DEF Touched
<1>11. faults' \in 0..MaxFaults
  BY <1>1, FaultType, Zenon
<1>12. CASE to = "fail"
  <2> DEFINE w == m.dmn[d]
             y == [w EXCEPT !.state = "DOWN"]
             g == [m EXCEPT !.dmn[d] = y]
  <2>1. w \in Daemon
    BY <1>10, MemoryFacts, Zenon
  <2>2. /\ w.state = "INIT" /\ w.fd = "none" /\ w.t_wakeup = "none" /\ w.ignore = x.ignore
    BY <1>4, <1>5, <1>8, <1>12, Zenon DEF Attempted
  <2>3. /\ y \in Daemon /\ y.state = "DOWN" /\ y.fd = w.fd /\ y.t_wakeup = w.t_wakeup
        /\ y.ignore = w.ignore
    BY <2>1, Zenon DEF Daemon
  <2>4. g = [m EXCEPT !.dmn[d].state = "DOWN"]
    BY <1>10, Zenon DEF Memory
  <2>5. gs' = phase_check(g, fork)
    BY <1>1, <1>9, <1>12, <2>4, Zenon
  <2> HIDE DEF y, w
  <2>6. SetTo(m, g, d, y)
    BY <1>10, <2>3, SetDmn, Zenon
  <2> HIDE DEF g
  <2>7. IS_UP(y) <=> IS_UP(m.dmn[d])
    BY <2>2, <2>3, Zenon DEF IS_UP, w
  <2>8. Edited(m, g, d) /\ g.dmn[d] = y
    BY <1>8, <1>10, <2>3, <2>6, <2>7, EditedFacts
  <2>9. Touched(gs, g, d) /\ Counts(g)
    BY <1>10, <2>8, TouchedTwice, Zenon DEF Edited
  <2>10. Tried(x, y, proc[d])
    BY <1>7, <1>12, <2>2, <2>3, Zenon DEF Tried, Sane, Seen, IS_UP
  <2>11. g \in Memory
    BY <2>9, Zenon DEF Touched
  <2> QED  BY <1>1, <1>3, <1>11, <2>5, <2>8, <2>9, <2>10, <2>11, Zenon
<1>13. CASE to # "fail"
  <2>1. Tried(x, m.dmn[d], proc[d])
    BY <1>5, <1>7, <1>8, <1>13, Zenon DEF Attempted, Outcomes, Tried, Sane, Seen, IS_UP
  <2>2. Checked(m, phase_check(m, fork))
    <3>1. \A e \in Daemons : Sane(m.dmn[e])
      BY <1>2, <1>10, <2>1, Zenon DEF Tried
    <3> QED  BY <1>8, <1>10, <3>1, PhaseCheck, Zenon
  <2>3. gs' = phase_check(m, fork)
    BY <1>1, <1>9, <1>13, <2>2, CheckedTwice, Zenon
  <2> QED  BY <1>1, <1>3, <1>8, <1>10, <1>11, <2>1, <2>3, Zenon
<1> QED  BY <1>12, <1>13, Zenon

LEMMA WakeupInit ==
  ASSUME IInv, NEW d \in Daemons, wakeup_init(d)
  PROVE  Sound
<1>1. PICK g \in Memory, fork \in BOOLEAN :
           /\ Touched(gs, g, d) /\ Counts(g) /\ Tried(gs.dmn[d], g.dmn[d], proc[d])
           /\ gs.phase = "INIT" /\ gs' = phase_check(g, fork) /\ child' = Children(gs')
           /\ UNCHANGED world /\ faults' \in 0..MaxFaults
  BY WakeupInitIs, Zenon
<1> DEFINE down == {e \in Daemons : g.dmn[e].state = "DOWN"}
<1>2. /\ g \in Memory /\ g.phase = "INIT" /\ Pids(g) = Pids(gs)
      /\ \A e \in Daemons \ {d} : g.dmn[e] = gs.dmn[e]
  BY <1>1, Zenon DEF Touched, Pids
<1>3. /\ \A e \in Daemons : Sane(g.dmn[e]) /\ (g.dmn[e].ignore => e \in ignored)
      /\ \A e \in Daemons \ ignored : Seen(g.dmn[e], proc[e])
  BY <1>1, <1>2, InvFacts, Zenon DEF Tried
<1>4. Pids(gs) = {} /\ \A e \in Daemons : g.dmn[e].state = "DOWN" => proc[e] = "dead"
  BY <1>1, <1>2, Zenon DEF IInv, Tried
<1>5. Checked(g, gs')
  BY <1>1, <1>2, <1>3, PhaseCheck, Zenon
<1>6. IInv'
  <2>1. gs' \in Memory /\ Counts(gs') /\ Starting(gs') /\ \A e \in Daemons : Sane(gs'.dmn[e])
    BY <1>5, Zenon DEF Checked
  <2>2. child' \in [Entries -> {"none", "stopping", "starting", "stuck"} \cup Exited]
    BY <1>1, <2>1, ChildrenFacts, Zenon
  <2>3. Typed'
    BY <1>1, <2>1, <2>2, Zenon DEF Typed, Memory, IInv, world
  <2>4. \A r \in Entries : gs'.restart[r].pid <=> child'[r] # "none"
    BY <1>1, <2>1, ChildrenFacts, Zenon
  <2>5. gs'.phase = "INIT" =>
         /\ Pids(gs') = {}
         /\ \A e \in Daemons : gs'.dmn[e].state = "DOWN" => proc'[e] = "dead"
    BY <1>1, <1>2, <1>4, <1>5, Zenon DEF Checked, world
  <2>6. \A e \in Daemons : gs'.dmn[e].ignore => e \in ignored'
    BY <1>1, <1>3, <1>5, Zenon DEF Checked, world
  <2>7. \A e \in Daemons \ ignored' : Seen(gs'.dmn[e], proc'[e])
    BY <1>1, <1>3, <1>5, Zenon DEF Checked, world, Seen
  <2> QED  BY <2>1, <2>3, <2>4, <2>5, <2>6, <2>7, Zenon DEF IInv
<1>7. down \in SUBSET Daemons /\ (\A e \in down : Due(e)) /\ gs' \in Memory
  BY <1>4, <1>5, Zenon DEF Due, Checked
<1>8. Began(gs, gs', down)
  BY <1>2, <1>5, Zenon DEF Began, Checked
<1> HIDE DEF down
<1>9. Alone /\ Justified
  BY <1>1, <1>7, <1>8, Justify, Zenon
<1> QED  BY <1>6, <1>9, Zenon DEF Sound

-----------------------------------------------------------------------------
(* Steps that bring no daemon up or down and begin no command. *)

Kept(g, h) ==
  /\ h \in Memory /\ h.phase = g.phase /\ h.numdown = g.numdown /\ h.numpids = g.numpids
  /\ \A d \in Daemons : h.dmn[d].state = g.dmn[d].state
  /\ \A r \in Entries : h.restart[r].pid = g.restart[r].pid

\* The types of everything but watchfrr's memory.
OutsideOK ==
  /\ proc \in [Daemons -> {"dead", "alive", "hung", "busy"}]
  /\ child \in [Entries -> {"none", "stopping", "starting", "stuck"} \cup Exited]
  /\ iw \in {"none", "run", "exited"}
  /\ sigchld \in BOOLEAN /\ ignored \subseteq Daemons /\ faults \in 0..MaxFaults

SameChildren == \A r \in Entries : child'[r] = "none" <=> child[r] = "none"

LEMMA Outside ==
  ASSUME IInv, Kept(gs, gs'), OutsideOK', SameChildren,
         \A d \in Daemons : Sane(gs'.dmn[d]),
         \A d \in Daemons : gs'.dmn[d].ignore => d \in ignored',
         \A d \in Daemons \ ignored' : Seen(gs'.dmn[d], proc'[d]),
         gs.phase = "INIT" => \A d \in Daemons : gs.dmn[d].state = "DOWN" => proc'[d] = "dead"
  PROVE  Sound
<1>1. Typed'
  BY Zenon DEF Typed, Kept, Memory, OutsideOK
<1>2. Down(gs') = Down(gs) /\ Pids(gs') = Pids(gs)
  BY Zenon DEF Kept, Down, Pids, IS_UP
<1>3. Counts(gs')
  BY <1>2, Zenon DEF Kept, Counts, IInv
<1>4. Starting(gs')
  BY Zenon DEF Kept, Starting, IInv
<1>5. \A r \in Entries : gs'.restart[r].pid <=> child'[r] # "none"
  BY Zenon DEF Kept, SameChildren, IInv
<1>6. gs'.phase = "INIT" =>
       /\ Pids(gs') = {}
       /\ \A d \in Daemons : gs'.dmn[d].state = "DOWN" => proc'[d] = "dead"
  BY <1>2, Zenon DEF Kept, IInv
<1>7. IInv'
  BY <1>1, <1>3, <1>4, <1>5, <1>6, Zenon DEF IInv
<1>8. Alone /\ Justified
  BY Quiet, Zenon DEF SameChildren
<1> QED  BY <1>7, <1>8, Zenon DEF Sound

LEMMA OutsideFacts ==
  ASSUME IInv
  PROVE  /\ OutsideOK /\ Kept(gs, gs)
         /\ gs.phase = "INIT" => \A d \in Daemons : gs.dmn[d].state = "DOWN" => proc[d] = "dead"
         /\ gs.phase = "INIT" => \A r \in Entries : child[r] = "none"
<1>1. gs \in Memory
  BY InvFacts, Zenon
<1>2. gs.phase = "INIT" => \A r \in Entries : child[r] = "none"
  BY Zenon DEF IInv, Pids
<1> QED  BY <1>1, <1>2, Zenon DEF IInv, Typed, OutsideOK, Kept

\* Daemons hang, are busy and recover; other processes come and go.
LEMMA Living ==
  ASSUME IInv, UNCHANGED <<gs, ignored>>, OutsideOK', SameChildren,
         \A d \in Daemons : proc[d] = "dead" => proc'[d] = "dead"
  PROVE  Sound
<1>1. Kept(gs, gs')
  BY OutsideFacts, Zenon
<1>2. \A d \in Daemons : Sane(gs'.dmn[d]) /\ (gs'.dmn[d].ignore => d \in ignored')
  BY InvFacts, Zenon
<1>3. \A d \in Daemons \ ignored' : Seen(gs'.dmn[d], proc'[d])
  BY InvFacts, Zenon DEF Seen
<1>4. gs.phase = "INIT" => \A d \in Daemons : gs.dmn[d].state = "DOWN" => proc'[d] = "dead"
  BY OutsideFacts, Zenon
<1> QED  BY <1>1, <1>2, <1>3, <1>4, Outside, Zenon

LEMMA FaultFacts ==
  ASSUME OutsideOK
  PROVE  /\ \A b \in BOOLEAN : Fault(b) => faults' \in 0..MaxFaults
         /\ UNCHANGED faults => faults' \in 0..MaxFaults
BY WatchfrrAssumption DEF OutsideOK, Fault

LEMMA LivingSteps ==
  ASSUME IInv, NEW d \in Daemons, Hang(d) \/ Resume(d) \/ Fill(d) \/ Drain(d)
  PROVE  Sound
<1>1. /\ UNCHANGED <<gs, child, iw, sigchld, ignored>> /\ proc[d] # "dead"
      /\ \E p \in {"hung", "alive", "busy"} : proc' = [proc EXCEPT ![d] = p]
      /\ Fault(TRUE) \/ UNCHANGED faults
  BY Zenon DEF Hang, Resume, Fill, Drain
<1>2. OutsideOK
  BY OutsideFacts, Zenon
<1>3. faults' \in 0..MaxFaults
  BY <1>1, <1>2, FaultFacts, Zenon
<1>4. proc' \in [Daemons -> {"dead", "alive", "hung", "busy"}]
  BY <1>1, <1>2, Zenon DEF OutsideOK
<1>5. OutsideOK'
  BY <1>1, <1>2, <1>3, <1>4, Zenon DEF OutsideOK
<1>6. \A e \in Daemons : proc[e] = "dead" => proc'[e] = "dead"
  BY <1>1, <1>2, Zenon DEF OutsideOK
<1>7. SameChildren
  BY <1>1, Zenon DEF SameChildren
<1> QED  BY <1>1, <1>5, <1>6, <1>7, Living, Zenon

LEMMA WriteSteps ==
  ASSUME IInv, config_write_integrated \/ WriteEnds \/ Gone
  PROVE  Sound
<1>1. OutsideOK
  BY OutsideFacts, Zenon
<1>2. /\ UNCHANGED <<gs, proc, child, ignored>> /\ (Fault(TRUE) \/ UNCHANGED faults)
      /\ iw' \in {"none", "run", "exited"} /\ sigchld' \in BOOLEAN
  BY <1>1, Zenon DEF config_write_integrated, WriteEnds, Gone, vars, OutsideOK
<1>3. faults' \in 0..MaxFaults
  BY <1>1, <1>2, FaultFacts, Zenon
<1>4. OutsideOK' /\ SameChildren
  BY <1>1, <1>2, <1>3, Zenon DEF OutsideOK, SameChildren
<1> QED  BY <1>2, <1>4, Living, Zenon

LEMMA CommandFailsStep ==
  ASSUME IInv, NEW r \in Entries, CommandFails(r)
  PROVE  Sound
<1>1. OutsideOK
  BY OutsideFacts, Zenon
<1>2. /\ UNCHANGED <<gs, proc, iw, ignored>> /\ Fault(TRUE) /\ sigchld' \in BOOLEAN
      /\ child[r] # "none"
      /\ \E c \in {"bad", "stuck"} : child' = [child EXCEPT ![r] = c]
  BY <1>1, Zenon DEF CommandFails, OutsideOK
<1>3. faults' \in 0..MaxFaults
  BY <1>1, <1>2, FaultFacts, Zenon
<1>4. PICK c \in {"bad", "stuck"} : child' = [child EXCEPT ![r] = c]
  BY <1>2, Zenon
<1>5. c \in {"stuck"} \cup Exited /\ c # "none"
  BY <1>4, Zenon DEF Exited
<1>6. child' \in [Entries -> {"none", "stopping", "starting", "stuck"} \cup Exited]
  BY <1>1, <1>4, <1>5, Zenon DEF OutsideOK
<1>7. OutsideOK'
  BY <1>1, <1>2, <1>3, <1>6, Zenon DEF OutsideOK
<1>8. SameChildren
  BY <1>1, <1>2, <1>4, <1>5, Zenon DEF OutsideOK, SameChildren
<1> QED  BY <1>2, <1>7, <1>8, Living, Zenon

LEMMA CommandStartsStep ==
  ASSUME IInv, NEW r \in Entries, CommandStarts(r)
  PROVE  Sound
<1>1. OutsideOK /\ Kept(gs, gs)
  BY OutsideFacts, Zenon
<1>2. /\ UNCHANGED <<gs, iw, ignored, faults>> /\ sigchld' = TRUE /\ NoInput
      /\ child[r] = "starting" /\ child' = [child EXCEPT ![r] = "ok"]
      /\ proc' = [d \in Daemons |-> IF d \in Targets(r) /\ proc[d] = "dead"
                                    THEN "alive" ELSE proc[d]]
  BY Zenon DEF CommandStarts
<1>3. proc' \in [Daemons -> {"dead", "alive", "hung", "busy"}]
  BY <1>1, <1>2, Zenon DEF OutsideOK
<1>4. child' \in [Entries -> {"none", "stopping", "starting", "stuck"} \cup Exited]
  BY <1>1, <1>2, Zenon DEF OutsideOK, Exited
<1>5. OutsideOK'
  BY <1>1, <1>2, <1>3, <1>4, Zenon DEF OutsideOK
<1>6. SameChildren
  BY <1>1, <1>2, Zenon DEF OutsideOK, SameChildren
<1>7. gs.phase # "INIT"
  <2>1. child[r] # "none"
    BY <1>2, Zenon
  <2> QED  BY <2>1, OutsideFacts, Zenon
<1>8. ASSUME NEW d \in Daemons \ ignored'
      PROVE  Seen(gs'.dmn[d], proc'[d])
  <2>1. Seen(gs.dmn[d], proc[d])
    BY <1>2, <1>8, InvFacts, Zenon
  <2>2. gs.dmn[d].fd # "none" => gs.dmn[d].t_read
    BY <2>1, Zenon DEF Seen
  <2>3. gs.dmn[d].fd \notin {"final", "eof"}
    BY <1>2, <2>2, <1>8, Zenon DEF NoInput, Readable
  <2> QED  BY <1>2, <2>2, <2>3, Zenon DEF Seen
<1>9. \A d \in Daemons : Sane(gs'.dmn[d]) /\ (gs'.dmn[d].ignore => d \in ignored')
  BY <1>2, InvFacts, Zenon
<1> QED  BY <1>1, <1>2, <1>5, <1>6, <1>7, <1>8, <1>9, Outside, Zenon

LEMMA ClosedFacts ==
  ASSUME NEW g \in Memory, NEW S
  PROVE  LET h == Closed(g, S)
         IN  /\ Kept(g, h)
             /\ \A d \in Daemons : h.dmn[d] = IF d \notin S THEN g.dmn[d]
                                              ELSE [g.dmn[d] EXCEPT !.fd = Ended(g.dmn[d].fd)]
<1> DEFINE dmn == [d \in Daemons |-> IF d \notin S THEN g.dmn[d]
                                     ELSE [g.dmn[d] EXCEPT !.fd = Ended(g.dmn[d].fd)]]
           h == [g EXCEPT !.dmn = dmn]
<1>1. Closed(g, S) = h
  BY Zenon DEF Closed
<1>2. \A d \in Daemons : g.dmn[d] \in Daemon
  BY MemoryFacts, Zenon
<1>3. \A d \in Daemons : dmn[d] \in Daemon /\ dmn[d].state = g.dmn[d].state
  <2> TAKE d \in Daemons
  <2>1. g.dmn[d].fd \in {"none", "idle", "asked", "answered", "final", "garbage", "eof", "error"}
    BY <1>2, Zenon DEF Daemon
  <2>2. Ended(g.dmn[d].fd)
          \in {"none", "idle", "asked", "answered", "final", "garbage", "eof", "error"}
    BY <2>1, Zenon DEF Ended
  <2> QED  BY <1>2, <2>2, Zenon DEF Daemon
<1>4. dmn \in [Daemons -> Daemon]
  BY <1>3, Zenon
<1>5. /\ h \in Memory /\ h.phase = g.phase /\ h.numdown = g.numdown
      /\ h.numpids = g.numpids /\ h.restart = g.restart /\ h.dmn = dmn
  <2> HIDE DEF dmn
  <2> QED  BY <1>4, Zenon DEF Memory
<1>6. Kept(g, h)
  <2> HIDE DEF dmn, h
  <2> QED  BY <1>3, <1>5, Zenon DEF Kept
<1>7. \A d \in Daemons : h.dmn[d] = IF d \notin S THEN g.dmn[d]
                                    ELSE [g.dmn[d] EXCEPT !.fd = Ended(g.dmn[d].fd)]
  BY <1>5, Zenon
<1> HIDE DEF h
<1> QED  BY <1>1, <1>6, <1>7, Zenon

LEMMA EndedFacts ==
  ASSUME NEW x \in Daemon, Sane(x), NEW y, y = [x EXCEPT !.fd = Ended(x.fd)]
  PROVE  /\ Sane(y) /\ y.ignore = x.ignore
         /\ (x.fd # "none" => x.t_read) => Seen(y, "dead")
<1>1. /\ y.fd = Ended(x.fd) /\ y.state = x.state /\ y.t_wakeup = x.t_wakeup
      /\ y.t_read = x.t_read /\ y.ignore = x.ignore
  BY Zenon DEF Daemon
<1>2. /\ x.fd \in Asked => Ended(x.fd) \in Asked
      /\ Ended(x.fd) \in {"none", "error"} <=> x.fd \in {"none", "error"}
      /\ Ended(x.fd) = "none" <=> x.fd = "none"
  BY Zenon DEF Ended, Asked
<1>3. Sane(y)
  BY <1>1, <1>2, Zenon DEF Sane, IS_UP
<1> QED  BY <1>1, <1>2, <1>3, Zenon DEF Seen

\* The daemons of S end.
LEMMA Dying ==
  ASSUME IInv, NEW S, gs' = Closed(gs, S), OutsideOK', SameChildren, UNCHANGED ignored,
         proc' = [d \in Daemons |-> IF d \in S THEN "dead" ELSE proc[d]]
  PROVE  Sound
<1>1. gs \in Memory /\ \A d \in Daemons : gs.dmn[d] \in Daemon
  BY InvFacts, Zenon
<1>2. /\ Kept(gs, gs')
      /\ \A d \in Daemons : gs'.dmn[d] = IF d \notin S THEN gs.dmn[d]
                                         ELSE [gs.dmn[d] EXCEPT !.fd = Ended(gs.dmn[d].fd)]
  BY <1>1, ClosedFacts
<1>3. ASSUME NEW d \in Daemons
      PROVE  /\ Sane(gs'.dmn[d]) /\ (gs'.dmn[d].ignore => d \in ignored')
             /\ d \notin ignored' => Seen(gs'.dmn[d], proc'[d])
             /\ proc[d] = "dead" => proc'[d] = "dead"
  <2>1. /\ Sane(gs.dmn[d]) /\ (gs.dmn[d].ignore => d \in ignored)
        /\ d \notin ignored => Seen(gs.dmn[d], proc[d])
    BY InvFacts, Zenon
  <2>2. CASE d \notin S
    BY <1>2, <2>1, <2>2, Zenon
  <2>3. CASE d \in S
    <3> DEFINE y == gs'.dmn[d]
    <3>1. y = [gs.dmn[d] EXCEPT !.fd = Ended(gs.dmn[d].fd)] /\ proc'[d] = "dead"
      BY <1>2, <2>3, Zenon
    <3> HIDE DEF y
    <3>2. /\ Sane(y) /\ y.ignore = gs.dmn[d].ignore
          /\ (gs.dmn[d].fd # "none" => gs.dmn[d].t_read) => Seen(y, "dead")
      BY <1>1, <2>1, <3>1, EndedFacts, Zenon
    <3> QED  BY <2>1, <3>1, <3>2, Zenon DEF y, Seen
  <2> QED  BY <2>2, <2>3, Zenon
<1>4. gs.phase = "INIT" => \A d \in Daemons : gs.dmn[d].state = "DOWN" => proc'[d] = "dead"
  BY <1>3, OutsideFacts, Zenon
<1>5. /\ \A d \in Daemons : Sane(gs'.dmn[d]) /\ (gs'.dmn[d].ignore => d \in ignored')
      /\ \A d \in Daemons \ ignored' : Seen(gs'.dmn[d], proc'[d])
  BY <1>3, Zenon
<1> QED  BY <1>2, <1>4, <1>5, Outside, Zenon

LEMMA CrashStep ==
  ASSUME IInv, NEW d \in Daemons, Crash(d)
  PROVE  Sound
<1>1. OutsideOK
  BY OutsideFacts, Zenon
<1>2. /\ gs' = Closed(gs, {d}) /\ proc' = [proc EXCEPT ![d] = "dead"] /\ Fault(TRUE)
      /\ UNCHANGED <<child, iw, sigchld, ignored>>
  BY Zenon DEF Crash
<1>3. faults' \in 0..MaxFaults
  BY <1>1, <1>2, FaultFacts, Zenon
<1>4. proc' \in [Daemons -> {"dead", "alive", "hung", "busy"}]
  BY <1>1, <1>2, Zenon DEF OutsideOK
<1>5. OutsideOK' /\ SameChildren
  BY <1>1, <1>2, <1>3, <1>4, Zenon DEF OutsideOK, SameChildren
<1>6. proc' = [e \in Daemons |-> IF e \in {d} THEN "dead" ELSE proc[e]]
  BY <1>1, <1>2, Zenon DEF OutsideOK
<1> QED  BY <1>2, <1>5, <1>6, Dying, Zenon

LEMMA CommandStopsStep ==
  ASSUME IInv, NEW r \in Entries, CommandStops(r)
  PROVE  Sound
<1>1. OutsideOK
  BY OutsideFacts, Zenon
<1>2. /\ gs' = Closed(gs, Targets(r)) /\ UNCHANGED <<iw, sigchld, ignored, faults>>
      /\ proc' = [d \in Daemons |-> IF d \in Targets(r) THEN "dead" ELSE proc[d]]
      /\ child[r] = "stopping" /\ child' = [child EXCEPT ![r] = "starting"]
  BY Zenon DEF CommandStops
<1>3. proc' \in [Daemons -> {"dead", "alive", "hung", "busy"}]
  BY <1>1, <1>2, Zenon DEF OutsideOK
<1>4. child' \in [Entries -> {"none", "stopping", "starting", "stuck"} \cup Exited]
  BY <1>1, <1>2, Zenon DEF OutsideOK
<1>5. OutsideOK'
  BY <1>1, <1>2, <1>3, <1>4, Zenon DEF OutsideOK
<1>6. SameChildren
  BY <1>1, <1>2, Zenon DEF OutsideOK, SameChildren
<1> QED  BY <1>2, <1>5, <1>6, Dying, Zenon

-----------------------------------------------------------------------------
(* Steps that change one field of watchfrr's memory. *)

\* The world stays as it is, and so does what IInv says of the daemons.
LEMMA Minor ==
  ASSUME IInv, Kept(gs, gs'), UNCHANGED <<proc, iw>>, SameChildren,
         child' \in [Entries -> {"none", "stopping", "starting", "stuck"} \cup Exited],
         sigchld' \in BOOLEAN, ignored \subseteq ignored', ignored' \subseteq Daemons,
         Fault(TRUE) \/ Fault(FALSE) \/ UNCHANGED faults,
         \A d \in Daemons :
           /\ Sane(gs'.dmn[d]) /\ (gs'.dmn[d].ignore => d \in ignored')
           /\ Seen(gs.dmn[d], proc[d]) => Seen(gs'.dmn[d], proc[d])
  PROVE  Sound
<1>1. OutsideOK
  BY OutsideFacts, Zenon
<1>2. faults' \in 0..MaxFaults
  BY <1>1, FaultFacts, Zenon
<1>3. OutsideOK'
  BY <1>1, <1>2, Zenon DEF OutsideOK
<1>4. \A d \in Daemons \ ignored' : Seen(gs'.dmn[d], proc'[d])
  BY InvFacts, Zenon
<1>5. gs.phase = "INIT" => \A d \in Daemons : gs.dmn[d].state = "DOWN" => proc'[d] = "dead"
  BY OutsideFacts, Zenon
<1> QED  BY <1>3, <1>4, <1>5, Outside, Zenon

\* The daemons' records stay as they are.
LEMMA MinorOther ==
  ASSUME IInv, gs' \in Memory, gs'.phase = gs.phase, gs'.numdown = gs.numdown,
         gs'.numpids = gs.numpids, gs'.dmn = gs.dmn,
         \A r \in Entries : gs'.restart[r].pid = gs.restart[r].pid,
         UNCHANGED <<proc, iw, ignored>>, SameChildren,
         child' \in [Entries -> {"none", "stopping", "starting", "stuck"} \cup Exited],
         sigchld' \in BOOLEAN, Fault(TRUE) \/ UNCHANGED faults
  PROVE  Sound
<1>1. Kept(gs, gs')
  BY Zenon DEF Kept
<1>2. \A d \in Daemons :
        /\ Sane(gs'.dmn[d]) /\ (gs'.dmn[d].ignore => d \in ignored')
        /\ Seen(gs.dmn[d], proc[d]) => Seen(gs'.dmn[d], proc[d])
  BY InvFacts, Zenon
<1>3. ignored \subseteq ignored' /\ ignored' \subseteq Daemons
  BY OutsideFacts, Zenon DEF OutsideOK
<1> QED  BY <1>1, <1>2, <1>3, Minor, Zenon

LEMMA SameOutside ==
  ASSUME IInv, UNCHANGED <<child, sigchld>>
  PROVE  /\ SameChildren /\ sigchld' \in BOOLEAN
         /\ child' \in [Entries -> {"none", "stopping", "starting", "stuck"} \cup Exited]
BY OutsideFacts, Zenon DEF OutsideOK, SameChildren

LEMMA FlagSteps ==
  ASSUME IInv, startup_timeout \/ watchfrr_start_config \/ watchfrr_end_config
  PROVE  Sound
<1>1. gs \in Memory
  BY InvFacts, Zenon
<1>2. UNCHANGED <<proc, iw, ignored, child, sigchld>> /\ (Fault(TRUE) \/ UNCHANGED faults)
  BY Zenon DEF startup_timeout, watchfrr_start_config, watchfrr_end_config, world
<1>3. \/ \E b \in BOOLEAN : gs' = [gs EXCEPT !.reading = b]
      \/ \E e \in {"timeout", "exit"} : gs' = [gs EXCEPT !.ready = e]
  <2>1. 1 # 0
    OBVIOUS
  <2>2. CASE startup_timeout
    <3> DEFINE e == IF gs.numdown < Cardinality(Daemons) THEN "timeout" ELSE "exit"
    <3>1. gs' = [gs EXCEPT !.ready = e] /\ e \in {"timeout", "exit"}
      BY <2>1, <2>2, Zenon DEF startup_timeout, daemon_send_ready
    <3> HIDE DEF e
    <3> QED  BY <3>1, Zenon
  <2> QED  BY <2>2, Zenon DEF watchfrr_start_config, watchfrr_end_config
<1>4. /\ gs' \in Memory /\ gs'.phase = gs.phase /\ gs'.numdown = gs.numdown
      /\ gs'.numpids = gs.numpids /\ gs'.dmn = gs.dmn /\ gs'.restart = gs.restart
  BY <1>1, <1>3, Zenon DEF Memory
<1>5. \A r \in Entries : gs'.restart[r].pid = gs.restart[r].pid
  BY <1>4, Zenon
<1> QED  BY <1>2, <1>4, <1>5, SameOutside, MinorOther, Zenon

LEMMA SecondStep ==
  ASSUME IInv, Second
  PROVE  Sound
<1> DEFINE x(r) == gs.restart[r]
           y(r) == IF x(r).pid \/ x(r).elapsed = Long THEN x(r)
                   ELSE [x(r) EXCEPT !.elapsed = x(r).elapsed + 1]
           jobs == [r \in Entries |-> y(r)]
<1>1. gs \in Memory
  BY InvFacts, Zenon
<1>2. UNCHANGED <<proc, iw, ignored, child, sigchld, faults>> /\ gs' = [gs EXCEPT !.restart = jobs]
  BY Zenon DEF Second, world
<1>3. \A r \in Entries : y(r) \in Restart /\ y(r).pid = x(r).pid
  <2> TAKE r \in Entries
  <2>1. x(r) \in Restart
    BY <1>1, MemoryFacts, Zenon
  <2>2. x(r).elapsed \in 0..Long
    BY <2>1, Zenon DEF Restart
  <2>3. x(r).elapsed # Long => x(r).elapsed + 1 \in 0..Long
    BY <2>2, Bounds, Zenon
  <2> HIDE DEF x
  <2> QED  BY <2>1, <2>3, Zenon DEF Restart
<1> HIDE DEF y
<1>4. jobs \in [Entries -> Restart] /\ \A r \in Entries : jobs[r].pid = gs.restart[r].pid
  BY <1>3, Zenon
<1> HIDE DEF jobs
<1>5. /\ gs' \in Memory /\ gs'.phase = gs.phase /\ gs'.numdown = gs.numdown
      /\ gs'.numpids = gs.numpids /\ gs'.dmn = gs.dmn /\ gs'.restart = jobs
  BY <1>1, <1>2, <1>4, Zenon DEF Memory
<1>6. \A r \in Entries : gs'.restart[r].pid = gs.restart[r].pid
  BY <1>4, <1>5, Zenon
<1> QED  BY <1>2, <1>5, <1>6, SameOutside, MinorOther, Zenon

LEMMA RestartKillStep ==
  ASSUME IInv, NEW r \in Entries, restart_kill(r)
  PROVE  Sound
<1> DEFINE y == [gs.restart[r] EXCEPT !.kills = 1]
<1>1. gs \in Memory /\ gs.restart[r] \in Restart
  BY InvFacts, MemoryFacts, Zenon
<1>2. /\ UNCHANGED <<proc, iw, ignored, faults>> /\ child[r] # "none"
      /\ \/ UNCHANGED <<child, sigchld>>
         \/ child' = [child EXCEPT ![r] = "bad"] /\ sigchld' = TRUE
      /\ gs' = gs \/ gs' = [gs EXCEPT !.restart[r].kills = 1]
  BY Zenon DEF restart_kill, Exited
<1>3. /\ SameChildren /\ sigchld' \in BOOLEAN
      /\ child' \in [Entries -> {"none", "stopping", "starting", "stuck"} \cup Exited]
  <2>1. CASE UNCHANGED <<child, sigchld>>
    BY <2>1, SameOutside, Zenon
  <2>2. CASE child' = [child EXCEPT ![r] = "bad"] /\ sigchld' = TRUE
    <3>1. child \in [Entries -> {"none", "stopping", "starting", "stuck"} \cup Exited]
      BY OutsideFacts, Zenon DEF OutsideOK
    <3>2. SameChildren
      BY <1>2, <2>2, <3>1, Zenon DEF SameChildren
    <3>3. child' \in [Entries -> {"none", "stopping", "starting", "stuck"} \cup Exited]
      BY <2>2, <3>1, Zenon DEF Exited
    <3> QED  BY <2>2, <3>2, <3>3, Zenon
  <2> QED  BY <1>2, <2>1, <2>2, Zenon
<1>4. /\ gs' \in Memory /\ gs'.phase = gs.phase /\ gs'.numdown = gs.numdown
      /\ gs'.numpids = gs.numpids /\ gs'.dmn = gs.dmn
      /\ \A s \in Entries : gs'.restart[s].pid = gs.restart[s].pid
  <2>1. CASE gs' = gs
    BY <1>1, <2>1, Zenon
  <2>2. CASE gs' = [gs EXCEPT !.restart[r].kills = 1]
    <3>1. y \in Restart /\ y.pid = gs.restart[r].pid
      BY <1>1, Bounds, Zenon DEF Restart
    <3>2. gs' = [gs EXCEPT !.restart[r] = y]
      BY <1>1, <2>2, Zenon DEF Memory
    <3> HIDE DEF y
    <3>3. /\ gs' \in Memory /\ gs'.phase = gs.phase /\ gs'.numdown = gs.numdown
          /\ gs'.numpids = gs.numpids /\ gs'.dmn = gs.dmn
          /\ gs'.restart = [gs.restart EXCEPT ![r] = y]
      BY <1>1, <3>1, <3>2, Zenon DEF Memory
    <3>4. gs.restart \in [Entries -> Restart]
      BY <1>1, MemoryFacts, Zenon
    <3>5. \A s \in Entries : gs'.restart[s].pid = gs.restart[s].pid
      BY <3>1, <3>3, <3>4, Zenon
    <3> QED  BY <3>3, <3>5, Zenon
  <2> QED  BY <1>2, <2>1, <2>2, Zenon
<1> QED  BY <1>2, <1>3, <1>4, MinorOther, Zenon

\* One daemon's record is edited and its state stays.
LEMMA MinorDmn ==
  ASSUME IInv, NEW d \in Daemons, NEW y \in Daemon, gs' = [gs EXCEPT !.dmn[d] = y],
         y.state = gs.dmn[d].state, Sane(y), y.ignore => d \in ignored',
         Seen(gs.dmn[d], proc[d]) => Seen(y, proc[d]),
         UNCHANGED <<proc, iw, child, sigchld>>,
         ignored \subseteq ignored', ignored' \subseteq Daemons,
         Fault(TRUE) \/ Fault(FALSE)
  PROVE  Sound
<1>1. gs \in Memory
  BY InvFacts, Zenon
<1>2. SetTo(gs, gs', d, y)
  BY <1>1, SetDmn, Zenon
<1>3. /\ gs' \in Memory /\ gs'.phase = gs.phase /\ gs'.numdown = gs.numdown
      /\ gs'.numpids = gs.numpids /\ gs'.restart = gs.restart /\ gs'.dmn[d] = y
      /\ \A e \in Daemons \ {d} : gs'.dmn[e] = gs.dmn[e]
  BY <1>2, Zenon DEF SetTo, Touched
<1>4. Kept(gs, gs')
  BY <1>3, Zenon DEF Kept
<1>5. \A e \in Daemons :
        /\ Sane(gs'.dmn[e]) /\ (gs'.dmn[e].ignore => e \in ignored')
        /\ Seen(gs.dmn[e], proc[e]) => Seen(gs'.dmn[e], proc[e])
  BY <1>3, InvFacts, Zenon
<1> QED  BY <1>4, <1>5, SameOutside, Minor, Zenon

LEMMA AnswerStep ==
  ASSUME IInv, NEW d \in Daemons, Answer(d)
  PROVE  Sound
<1> DEFINE x == gs.dmn[d]
<1>1. PICK a \in {"answered", "garbage"} :
        gs' = [gs EXCEPT !.dmn[d].fd = a] /\ Fault(a = "garbage")
  BY Zenon DEF Answer
<1> DEFINE y == [x EXCEPT !.fd = a]
<1>2. UNCHANGED <<proc, iw, child, sigchld, ignored>> /\ x.fd = "asked"
  BY Zenon DEF Answer, world
<1>3. gs \in Memory /\ x \in Daemon /\ Sane(x) /\ (x.ignore => d \in ignored)
  BY InvFacts, Zenon
<1>4. gs' = [gs EXCEPT !.dmn[d] = y]
  BY <1>1, <1>3, Zenon DEF Memory
<1>5. /\ y \in Daemon /\ y.fd = a /\ y.state = x.state /\ y.t_wakeup = x.t_wakeup
      /\ y.t_read = x.t_read /\ y.ignore = x.ignore
  BY <1>3, Zenon DEF Daemon
<1> HIDE DEF y
<1>6. Sane(y)
  BY <1>1, <1>2, <1>3, <1>5, Zenon DEF Sane, IS_UP, Asked
<1>7. Seen(x, proc[d]) => Seen(y, proc[d])
  BY <1>1, <1>2, <1>5, Zenon DEF Seen
<1>8. Fault(TRUE) \/ Fault(FALSE)
  BY <1>1, Zenon DEF Fault
<1>9. ignored \subseteq ignored' /\ ignored' \subseteq Daemons
  BY <1>2, OutsideFacts, Zenon DEF OutsideOK
<1> QED  BY <1>2, <1>3, <1>4, <1>5, <1>6, <1>7, <1>8, <1>9, MinorDmn, Zenon

LEMMA IgnoreStep ==
  ASSUME IInv, NEW d \in Daemons, NEW b \in BOOLEAN, watchfrr_set_ignore_daemon(d, b)
  PROVE  Sound
<1> DEFINE x == gs.dmn[d]
           y == [x EXCEPT !.ignore = b]
<1>1. /\ gs' = [gs EXCEPT !.dmn[d].ignore = b] /\ ignored' = ignored \cup {d} /\ Fault(b)
      /\ UNCHANGED <<proc, child, iw, sigchld>>
  BY Zenon DEF watchfrr_set_ignore_daemon
<1>2. gs \in Memory /\ x \in Daemon /\ Sane(x)
  BY InvFacts, Zenon
<1>3. gs' = [gs EXCEPT !.dmn[d] = y]
  BY <1>1, <1>2, Zenon DEF Memory
<1>4. /\ y \in Daemon /\ y.fd = x.fd /\ y.state = x.state /\ y.t_wakeup = x.t_wakeup
      /\ y.t_read = x.t_read
  BY <1>2, Zenon DEF Daemon
<1> HIDE DEF y
<1>5. Sane(y) /\ (Seen(x, proc[d]) => Seen(y, proc[d]))
  BY <1>2, <1>4, Zenon DEF Sane, Seen, IS_UP
<1>6. Fault(TRUE) \/ Fault(FALSE)
  BY <1>1, Zenon DEF Fault
<1>7. ignored \subseteq ignored' /\ ignored' \subseteq Daemons /\ d \in ignored'
  BY <1>1, OutsideFacts, Zenon DEF OutsideOK
<1> QED  BY <1>1, <1>3, <1>4, <1>5, <1>6, <1>7, MinorDmn, Zenon

-----------------------------------------------------------------------------
(* The end of a command. *)

LEMMA ReapFacts ==
  ASSUME NEW g \in Memory, NEW r \in Pids(g), Counts(g)
  PROVE  LET h == Reap(g, r)
         IN  /\ h \in Memory /\ Counts(h) /\ h.phase = g.phase /\ h.dmn = g.dmn
             /\ Pids(h) = Pids(g) \ {r}
<1> DEFINE y == [g.restart[r] EXCEPT !.pid = FALSE, !.t_kill = FALSE, !.elapsed = 0]
           h == [g EXCEPT !.restart[r] = y, !.numpids = g.numpids - 1]
<1>1. r \in Entries /\ g.restart[r] \in Restart /\ Pids(g) \in SUBSET Entries
      /\ g.restart \in [Entries -> Restart]
  BY MemoryFacts, Zenon DEF Pids
<1>2. Reap(g, r) = h
  BY <1>1, Zenon DEF Reap, Memory
<1>3. y \in Restart /\ y.pid = FALSE
  BY <1>1, Bounds, Zenon DEF Restart
<1> HIDE DEF y
<1>4. /\ Cardinality(Pids(g) \ {r}) = g.numpids - 1 /\ Cardinality(Pids(g) \ {r}) \in Nat
  <2>1. Pids(g) \ {r} \in SUBSET Entries
    BY <1>1, Zenon
  <2> QED  BY <1>1, <2>1, Counting DEF Counts
<1>5. /\ h \in Memory /\ h.phase = g.phase /\ h.dmn = g.dmn /\ h.numdown = g.numdown
      /\ h.restart = [g.restart EXCEPT ![r] = y] /\ h.numpids = Cardinality(Pids(g) \ {r})
  BY <1>1, <1>3, <1>4, Zenon DEF Memory
<1> HIDE DEF h
<1>6. h.restart[r] = y /\ \A s \in Entries \ {r} : h.restart[s] = g.restart[s]
  BY <1>1, <1>5, Zenon
<1>7. Pids(h) = Pids(g) \ {r}
  BY <1>3, <1>6, Zenon DEF Pids
<1>8. Counts(h)
  BY <1>5, <1>7, Zenon DEF Counts, Down
<1> QED  BY <1>2, <1>5, <1>7, <1>8, Zenon

\* A daemon after restart_done: as it was, or tried anew.
Redone(x, y) ==
  /\ Sane(y) /\ y.state # "INIT" /\ y.ignore = x.ignore
  /\ y = x \/ (y.fd \notin {"final", "eof"} /\ (y.fd # "none" => y.t_read))
  /\ IS_UP(x) => IS_UP(y)

LEMMA RestartDone ==
  ASSUME NEW g \in Memory, NEW d \in Daemons, NEW to \in Outcomes, Counts(g),
         g.phase = "NONE", Sane(g.dmn[d]), g.dmn[d].state # "INIT"
  PROVE  LET h == restart_done(g, d, to)
         IN  /\ Touched(g, h, d) /\ Counts(h) /\ Redone(g.dmn[d], h.dmn[d])
             /\ h.dmn[d] \in Daemon
<1> DEFINE h == restart_done(g, d, to)
<1>1. CASE g.dmn[d].state # "DOWN"
  <2>1. h = g
    BY <1>1, Zenon DEF restart_done
  <2>2. Touched(g, g, d) /\ g.dmn[d] \in Daemon
    BY MemoryFacts, Zenon DEF Touched
  <2> QED  BY <2>1, <2>2, Zenon DEF Redone
<1>2. CASE g.dmn[d].state = "DOWN"
  <2> DEFINE f == Fired(g, d)
  <2>1. h = connect_or_wait(f, d, to, TRUE)
    BY <1>2, Zenon DEF restart_done, Fired
  <2>2. Edited(g, f, d) /\ SameButTimer(g.dmn[d], f.dmn[d]) /\ f.dmn[d].t_wakeup = "none"
    BY FiredFacts, Zenon
  <2> HIDE DEF f
  <2>3. g.dmn[d].fd = "none" /\ ~IS_UP(g.dmn[d])
    BY <1>2, Zenon DEF Sane, IS_UP
  <2>4. /\ f \in Memory /\ Counts(f) /\ f.phase = "NONE" /\ f.dmn[d].state = "DOWN"
        /\ f.dmn[d].fd = "none" /\ f.dmn[d].ignore = g.dmn[d].ignore /\ Touched(g, f, d)
    BY <1>2, <2>2, <2>3, Zenon DEF Edited, Touched, SameButTimer
  <2>5. Renewed(f, h, d, to)
    BY <2>1, <2>2, <2>4, Reconnect, Zenon
  <2> HIDE DEF h
  <2>6. Touched(g, h, d) /\ Counts(h) /\ h \in Memory
    BY <2>4, <2>5, TouchedTwice, Zenon DEF Renewed, Touched
  <2>7. /\ Sane(h.dmn[d]) /\ h.dmn[d].ignore = g.dmn[d].ignore /\ h.dmn[d].state # "INIT"
        /\ h.dmn[d].fd \notin {"final", "eof"} /\ (h.dmn[d].fd # "none" => h.dmn[d].t_read)
    BY <2>4, <2>5, Zenon DEF Renewed
  <2>8. h.dmn[d] \in Daemon
    BY <2>6, MemoryFacts, Zenon
  <2> QED  BY <2>3, <2>6, <2>7, <2>8, Zenon DEF Redone, h
<1> QED  BY <1>1, <1>2, Zenon

\* Whether a daemon came up shows in the counter.
LEMMA CameUp ==
  ASSUME NEW g \in Memory, NEW h, NEW d \in Daemons, Counts(g), Counts(h), Touched(g, h, d),
         Redone(g.dmn[d], h.dmn[d])
  PROVE  h.numdown # g.numdown <=> ~IS_UP(g.dmn[d]) /\ IS_UP(h.dmn[d])
<1>1. Down(g) \in SUBSET Entries
  BY MemoryFacts, Zenon
<1>2. h.numdown = Cardinality(Down(h)) /\ g.numdown = Cardinality(Down(g))
  BY Zenon DEF Counts
<1>3. \A e \in Daemons \ {d} : e \in Down(h) <=> e \in Down(g)
  BY Zenon DEF Touched, Down
<1>4. Down(h) \subseteq Daemons /\ Down(g) \subseteq Daemons
  BY Zenon DEF Down
<1>5. (d \in Down(h) <=> ~IS_UP(h.dmn[d])) /\ (d \in Down(g) <=> ~IS_UP(g.dmn[d]))
  BY Zenon DEF Down
<1>6. CASE ~IS_UP(g.dmn[d]) /\ IS_UP(h.dmn[d])
  <2>1. d \in Down(g) /\ Down(h) = Down(g) \ {d}
    BY <1>3, <1>4, <1>5, <1>6, Zenon
  <2>2. Cardinality(Down(h)) = Cardinality(Down(g)) - 1 /\ Cardinality(Down(g)) \in Nat
    BY <1>1, <2>1, Counting
  <2> QED  BY <1>2, <1>6, <2>2
<1>7. CASE ~(~IS_UP(g.dmn[d]) /\ IS_UP(h.dmn[d]))
  <2>1. IS_UP(h.dmn[d]) <=> IS_UP(g.dmn[d])
    BY <1>7, Zenon DEF Redone
  <2>2. Down(h) = Down(g)
    BY <1>3, <1>4, <1>5, <2>1
  <2> QED  BY <1>2, <1>7, <2>2, Zenon
<1> QED  BY <1>6, <1>7, Zenon

\* What the loop over restart_done leaves.
LoopDone(g, h) ==
  /\ h \in Memory /\ Counts(h) /\ h.phase = g.phase /\ h.restart = g.restart
  /\ \A d \in Daemons : Redone(g.dmn[d], h.dmn[d])

LEMMA RestartDoneEach ==
  ASSUME NEW g \in Memory, NEW D \in SUBSET Daemons, Counts(g), g.phase = "NONE",
         \A d \in Daemons : Sane(g.dmn[d]) /\ g.dmn[d].state # "INIT"
  PROVE  LoopDone(g, restart_done_each(g, D))
<1> DEFINE Done(d) == restart_done(g, d, Connects(d))
           up == {d \in D : Done(d).numdown # g.numdown}
           dmn == [d \in Daemons |-> IF d \in D THEN Done(d).dmn[d] ELSE g.dmn[d]]
           h == [g EXCEPT !.dmn = dmn, !.numdown = g.numdown - Cardinality(up)]
           i == IF up # {} /\ h.numdown = 0 THEN daemon_send_ready(h, 0) ELSE h
<1>1. restart_done_each(g, D) = i
  BY Zenon DEF restart_done_each
<1>2. ASSUME NEW d \in D
      PROVE  /\ Done(d).dmn[d] \in Daemon /\ Redone(g.dmn[d], Done(d).dmn[d])
             /\ d \in up <=> ~IS_UP(g.dmn[d]) /\ IS_UP(Done(d).dmn[d])
  <2>1. Connects(d) \in Outcomes /\ d \in Daemons
    BY ConnectsType, Zenon
  <2>2. /\ Touched(g, Done(d), d) /\ Counts(Done(d)) /\ Redone(g.dmn[d], Done(d).dmn[d])
        /\ Done(d).dmn[d] \in Daemon
    BY <2>1, RestartDone, Zenon
  <2> HIDE DEF Done
  <2>3. Done(d).numdown # g.numdown <=> ~IS_UP(g.dmn[d]) /\ IS_UP(Done(d).dmn[d])
    BY <2>1, <2>2, CameUp, Zenon
  <2> QED  BY <2>2, <2>3, Zenon
<1> HIDE DEF Done
<1>3. \A d \in Daemons : dmn[d] = IF d \in D THEN Done(d).dmn[d] ELSE g.dmn[d]
  BY Zenon
<1>4. \A d \in Daemons : Redone(g.dmn[d], g.dmn[d]) /\ g.dmn[d] \in Daemon
  BY MemoryFacts, Zenon DEF Redone
<1>5. \A d \in Daemons : dmn[d] \in Daemon /\ Redone(g.dmn[d], dmn[d])
  BY <1>2, <1>3, <1>4, Zenon
<1>6. \A d \in Daemons : d \in up <=> ~IS_UP(g.dmn[d]) /\ IS_UP(dmn[d])
  BY <1>2, <1>3, Zenon
<1>7. dmn \in [Daemons -> Daemon]
  BY <1>5, Zenon
<1>8. up \subseteq Down(g) /\ up \subseteq Daemons
  BY <1>6, Zenon DEF Down
<1> HIDE DEF dmn, up
<1>9. /\ g.numdown - Cardinality(up) = Cardinality(Down(g) \ up)
      /\ Cardinality(Down(g) \ up) \in Nat
  <2>1. Down(g) \in SUBSET Entries /\ Down(g) \ up \in SUBSET Entries
    BY MemoryFacts, Zenon
  <2>2. up \in SUBSET Down(g)
    BY <1>8, Zenon
  <2>3. Cardinality(Down(g) \ up) = Cardinality(Down(g)) - Cardinality(up)
    BY <2>1, <2>2, Counting, Zenon
  <2>4. Cardinality(Down(g) \ up) \in Nat
    BY <2>1, Counting, Zenon
  <2> QED  BY <2>3, <2>4, Zenon DEF Counts
<1>10. /\ h \in Memory /\ h.phase = g.phase /\ h.restart = g.restart /\ h.dmn = dmn
       /\ h.numpids = g.numpids /\ h.numdown = Cardinality(Down(g) \ up)
  BY <1>7, <1>9, Zenon DEF Memory
<1> HIDE DEF h
<1>11. /\ i \in Memory /\ i.phase = h.phase /\ i.restart = h.restart /\ i.dmn = h.dmn
       /\ i.numpids = h.numpids /\ i.numdown = h.numdown
  <2>1. i = h \/ i = [h EXCEPT !.ready = "ok"]
    BY Zenon DEF daemon_send_ready
  <2>2. LET k == [h EXCEPT !.ready = "ok"]
        IN  /\ k \in Memory /\ k.phase = h.phase /\ k.restart = h.restart /\ k.dmn = h.dmn
            /\ k.numpids = h.numpids /\ k.numdown = h.numdown
    BY <1>10, Zenon DEF Memory
  <2> HIDE DEF i
  <2> QED  BY <1>10, <2>1, <2>2, Zenon
<1> HIDE DEF i
<1>12. \A d \in Daemons : IS_UP(g.dmn[d]) => IS_UP(dmn[d])
  BY <1>5, Zenon DEF Redone
<1>13. Down(i) = Down(g) \ up
  BY <1>6, <1>10, <1>11, <1>12, Zenon DEF Down
<1>14. Counts(i)
  BY <1>10, <1>11, <1>13, Zenon DEF Counts, Pids
<1> QED  BY <1>1, <1>5, <1>10, <1>11, <1>14, Zenon DEF LoopDone

LEMMA SigchildStep ==
  ASSUME IInv, sigchild
  PROVE  Sound
<1>1. OutsideOK
  BY OutsideFacts, Zenon
<1>2. Started /\ sigchld' = FALSE /\ UNCHANGED <<proc, ignored>>
  BY Zenon DEF sigchild
<1>3. CASE iw' = "none" /\ UNCHANGED <<gs, child, faults>>
  <2>1. OutsideOK' /\ SameChildren
    BY <1>1, <1>2, <1>3, Zenon DEF OutsideOK, SameChildren
  <2> QED  BY <1>2, <1>3, <2>1, Living, Zenon
<1>4. ASSUME NEW r \in Entries, NEW D \in SUBSET Daemons, child[r] \in Exited,
             gs' = phase_check(restart_done_each(Reap(gs, r), D), TRUE),
             child' = Children(gs'), UNCHANGED <<iw, faults>>
      PROVE  Sound
  <2> DEFINE g == Reap(gs, r)
             h == restart_done_each(g, D)
  <2>1. /\ gs \in Memory /\ Counts(gs) /\ gs.phase = "NONE"
        /\ \A d \in Daemons : Sane(gs.dmn[d]) /\ gs.dmn[d].state # "INIT"
    BY <1>2, InvFacts, Zenon
  <2>2. r \in Pids(gs)
    <3>1. child[r] # "none"
      BY <1>4, Zenon DEF Exited
    <3> QED  BY <3>1, Zenon DEF IInv, Pids
  <2>3. /\ g \in Memory /\ Counts(g) /\ g.phase = "NONE" /\ g.dmn = gs.dmn
        /\ Pids(g) = Pids(gs) \ {r}
    BY <2>1, <2>2, ReapFacts, Zenon
  <2> HIDE DEF g
  <2>4. LoopDone(g, h)
    BY <2>1, <2>3, RestartDoneEach, Zenon
  <2>5. gs' = phase_check(h, TRUE)
    BY <1>4, Zenon DEF g
  <2> HIDE DEF h
  <2>6. gs' = h
    BY <2>3, <2>4, <2>5, Zenon DEF LoopDone, phase_check
  <2>7. /\ gs' \in Memory /\ Counts(gs') /\ gs'.phase = "NONE"
        /\ Pids(gs') = Pids(gs) \ {r}
        /\ \A d \in Daemons : Redone(gs.dmn[d], gs'.dmn[d])
    BY <2>3, <2>4, <2>6, Zenon DEF LoopDone, Pids
  <2>8. \A d \in Daemons : Sane(gs'.dmn[d]) /\ gs'.dmn[d].state # "INIT"
    BY <2>7, Zenon DEF Redone
  <2>9. IInv'
    <3>1. child' \in [Entries -> {"none", "stopping", "starting", "stuck"} \cup Exited]
      BY <1>4, <2>7, ChildrenFacts, Zenon
    <3>2. Typed'
      BY <1>1, <1>2, <1>4, <2>7, <3>1, Zenon DEF Typed, Memory, OutsideOK
    <3>3. Starting(gs')
      BY <2>7, <2>8, Zenon DEF Starting
    <3>4. \A e \in Entries : gs'.restart[e].pid <=> child'[e] # "none"
      BY <1>4, <2>7, ChildrenFacts, Zenon
    <3>5. \A d \in Daemons : gs'.dmn[d].ignore => d \in ignored'
      BY <1>2, <2>7, InvFacts, Zenon DEF Redone
    <3>6. \A d \in Daemons \ ignored' : Seen(gs'.dmn[d], proc'[d])
      BY <1>2, <2>7, InvFacts, Zenon DEF Redone, Seen
    <3> QED  BY <2>7, <2>8, <3>2, <3>3, <3>4, <3>5, <3>6, Zenon DEF IInv
  <2>10. \A e \in Entries : child[e] = "none" => child'[e] = "none"
    BY <1>4, <2>7, ChildrenFacts, Zenon
  <2> QED  BY <2>9, <2>10, Quiet, Zenon DEF Sound
<1>5. CASE ~(iw' = "none" /\ UNCHANGED <<gs, child, faults>>)
  <2>1. PICK r \in Entries :
          LET D == IF child[r] = "bad" THEN {} ELSE IF r = "all" THEN Daemons ELSE {r}
          IN  /\ child[r] \in Exited
              /\ gs' = phase_check(restart_done_each(Reap(gs, r), D), TRUE)
              /\ child' = Children(gs') /\ UNCHANGED <<iw, faults>>
    BY <1>5, Zenon DEF sigchild
  <2> DEFINE D == IF child[r] = "bad" THEN {} ELSE IF r = "all" THEN Daemons ELSE {r}
  <2>2. D \in SUBSET Daemons
    BY Zenon DEF Entries
  <2> HIDE DEF D
  <2>3. gs' = phase_check(restart_done_each(Reap(gs, r), D), TRUE)
    BY <2>1, Zenon DEF D
  <2> QED  BY <1>4, <2>1, <2>2, <2>3, Zenon
<1> QED  BY <1>3, <1>5, Zenon

-----------------------------------------------------------------------------
(* The theorems. *)

LEMMA InitInv == Init => IInv
<1> SUFFICES ASSUME Init PROVE IInv
  OBVIOUS
<1> DEFINE x == [state |-> "INIT", fd |-> "none", tries |-> 0, late |-> FALSE,
                 ignore |-> FALSE, t_read |-> FALSE, t_wakeup |-> "init"]
           y == [pid |-> FALSE, elapsed |-> Long, kills |-> 0, interval |-> MinRestart,
                 t_kill |-> FALSE]
<1>1. gs = [phase |-> "INIT", numdown |-> Cardinality(Daemons), numpids |-> 0,
            ready |-> "no", reading |-> FALSE, dmn |-> [d \in Daemons |-> x],
            restart |-> [r \in Entries |-> y]]
  BY Zenon DEF Init
<1>2. x \in Daemon
  BY Bounds, Zenon DEF Daemon
<1>3. MinRestart \in MinRestart..MaxRestart
  BY WatchfrrAssumption
<1>4. y \in Restart
  BY <1>3, Bounds, Zenon DEF Restart
<1>5. Daemons \in SUBSET Entries
  BY Zenon DEF Entries
<1>6. Cardinality(Daemons) \in Nat /\ 0 \in Nat
  BY <1>5, Counting, Zenon
<1>7. x.state = "INIT" /\ x.fd = "none" /\ ~x.ignore /\ x.t_wakeup = "init" /\ ~y.pid
  BY Zenon
<1>8. Sane(x) /\ ~IS_UP(x)
  BY <1>7, Zenon DEF Sane, IS_UP
<1>9. \A p : Seen(x, p)
  BY <1>7, Zenon DEF Seen
<1> HIDE DEF x, y
<1>10. /\ gs \in Memory /\ gs.phase = "INIT" /\ gs.numdown = Cardinality(Daemons) /\ gs.numpids = 0
       /\ gs.dmn = [d \in Daemons |-> x] /\ gs.restart = [r \in Entries |-> y]
  BY <1>1, <1>2, <1>4, <1>6, Zenon DEF Memory
<1>11. (\A d \in Daemons : gs.dmn[d] = x) /\ (\A r \in Entries : gs.restart[r] = y)
  BY <1>10, Zenon
<1>12. Down(gs) = Daemons /\ Pids(gs) = {}
  BY <1>7, <1>8, <1>11, Zenon DEF Down, Pids
<1>13. Cardinality({}) = 0
  BY FS_EmptySet, Zenon
<1>14. Counts(gs)
  BY <1>10, <1>12, <1>13, Zenon DEF Counts
<1>15. Starting(gs)
  BY <1>7, <1>10, <1>11, WatchfrrAssumption, Zenon DEF Starting
<1>16. /\ child = [r \in Entries |-> "none"] /\ iw = "none" /\ sigchld = FALSE
       /\ ignored = {} /\ faults = 0 /\ proc \in [Daemons -> {"dead", "alive"}]
  BY Zenon DEF Init
<1>17. 0 \in 0..MaxFaults
  BY WatchfrrAssumption
<1>18. proc \in [Daemons -> {"dead", "alive", "hung", "busy"}]
  BY <1>16, Zenon
<1>19. Typed
  BY <1>10, <1>16, <1>17, <1>18, Zenon DEF Typed, Memory
<1>20. \A d \in Daemons : gs.dmn[d].state = "DOWN" => proc[d] = "dead"
  BY <1>7, <1>11, Zenon
<1>21. \A r \in Entries : gs.restart[r].pid <=> child[r] # "none"
  BY <1>7, <1>11, <1>16, Zenon
<1> QED  BY <1>7, <1>8, <1>9, <1>11, <1>12, <1>14, <1>15, <1>19, <1>20, <1>21, Zenon DEF IInv

LEMMA NextSound == IInv /\ [Next]_vars => IInv' /\ [Alone /\ Justified]_vars
<1> SUFFICES ASSUME IInv, [Next]_vars PROVE Sound \/ UNCHANGED vars
  <2>1. CASE UNCHANGED vars
    BY <2>1, Zenon DEF vars, IInv, Typed
  <2>2. CASE Sound
    BY <2>2, Zenon DEF Sound
  <2> QED  BY <2>1, <2>2, Zenon
<1>1. ASSUME NEW d \in Daemons,
             \/ wakeup_init(d) \/ wakeup_down(d) \/ wakeup_send_echo(d)
             \/ wakeup_no_answer(d) \/ wakeup_unresponsive(d) \/ handle_read(d)
      PROVE  Sound
  BY <1>1, WakeupInit, WakeupDown, WakeupSendEcho, WakeupNoAnswer, WakeupUnresponsive,
     HandleRead, Zenon
<1>2. ASSUME NEW d \in Daemons,
             \/ Crash(d) \/ Hang(d) \/ Resume(d) \/ Answer(d) \/ Fill(d) \/ Drain(d)
             \/ \E b \in BOOLEAN : watchfrr_set_ignore_daemon(d, b)
      PROVE  Sound
  BY <1>2, CrashStep, LivingSteps, AnswerStep, IgnoreStep, Zenon
<1>3. ASSUME NEW r \in Entries,
             restart_kill(r) \/ CommandStops(r) \/ CommandStarts(r) \/ CommandFails(r)
      PROVE  Sound
  BY <1>3, RestartKillStep, CommandStopsStep, CommandStartsStep, CommandFailsStep, Zenon
<1>4. ASSUME \/ sigchild \/ startup_timeout \/ config_write_integrated
             \/ watchfrr_start_config \/ watchfrr_end_config \/ WriteEnds \/ Second \/ Gone
      PROVE  Sound
  BY <1>4, SigchildStep, FlagSteps, WriteSteps, SecondStep, Zenon
<1> QED  BY <1>1, <1>2, <1>3, <1>4, Zenon DEF Next

LEMMA Invariance == Spec => []IInv /\ [][Alone /\ Justified]_vars
<1>1. Init => IInv
  BY InitInv, Zenon
<1>2. IInv /\ [Next]_vars => IInv' /\ [Alone /\ Justified]_vars
  BY NextSound, Zenon
<1> QED  BY <1>1, <1>2, PTL DEF Spec

LEMMA DueType ==
  ASSUME Typed, due \in BOOLEAN, [Next]_vars
  PROVE  due' \in BOOLEAN
<1> SUFFICES due' \in {due, sigchld, FALSE}
  BY Zenon DEF Typed
<1>1. ASSUME NEW d \in Daemons,
             \/ wakeup_init(d) \/ wakeup_down(d) \/ wakeup_send_echo(d)
             \/ wakeup_no_answer(d) \/ wakeup_unresponsive(d) \/ handle_read(d)
      PROVE  Turned
  BY <1>1, Zenon DEF wakeup_init, wakeup_down, wakeup_send_echo, wakeup_no_answer,
     wakeup_unresponsive, handle_read, Callback
<1>2. ASSUME NEW d \in Daemons,
             \/ Crash(d) \/ Hang(d) \/ Resume(d) \/ Answer(d) \/ Fill(d) \/ Drain(d)
             \/ \E b \in BOOLEAN : watchfrr_set_ignore_daemon(d, b)
      PROVE  UNCHANGED due \/ Turned
  BY <1>2, Zenon DEF Crash, Hang, Resume, Answer, Fill, Drain, watchfrr_set_ignore_daemon
<1>3. ASSUME NEW r \in Entries,
             restart_kill(r) \/ CommandStops(r) \/ CommandStarts(r) \/ CommandFails(r)
      PROVE  UNCHANGED due \/ Turned
  BY <1>3, Zenon DEF restart_kill, CommandStops, CommandStarts, CommandFails
<1>4. ASSUME \/ sigchild \/ startup_timeout \/ config_write_integrated
             \/ watchfrr_start_config \/ watchfrr_end_config \/ WriteEnds \/ Second \/ Gone
      PROVE  UNCHANGED due \/ Turned \/ due' = FALSE
  BY <1>4, Zenon DEF sigchild, startup_timeout, config_write_integrated,
     watchfrr_start_config, watchfrr_end_config, WriteEnds, Second, Gone, vars
<1> QED  BY <1>1, <1>2, <1>3, <1>4, Zenon DEF Next, Turned, vars

(* Every field keeps its type; in particular the counters of daemons that are *)
(* down and of commands that run, which daemon_up and sigchild count down,    *)
(* never go below zero, and no restart interval leaves its bounds.            *)
THEOREM TypeCorrect == Spec => []TypeOK
<1> DEFINE Flag == due \in BOOLEAN
<1>1. Init => Flag
  BY Zenon DEF Init
<1>2. IInv /\ Flag /\ [Next]_vars => Flag'
  BY DueType, Zenon DEF IInv
<1>3. IInv /\ Flag => TypeOK
  BY Zenon DEF IInv, TypeOK
<1> HIDE DEF Flag
<1> QED  BY <1>1, <1>2, <1>3, Invariance, PTL DEF Spec

(* gs.numdown is the number of daemons that are neither up nor unresponsive,  *)
(* for any set of daemons and any number of faults.                           *)
THEOREM NumdownAlwaysExact == Spec => []NumdownExact
<1>1. IInv => NumdownExact
  BY Zenon DEF IInv, Counts, Down, NumdownExact
<1> QED  BY <1>1, Invariance, PTL

(* try_restart begins the restart of everything only when no child of any     *)
(* entry is left: gs.numpids, which it asks, is exact.                        *)
THEOREM RestartsAllAlone == Spec => GlobalAlone
<1>1. [Alone /\ Justified]_vars => [Starts("all") => \A r \in Entries : child[r] = "none"]_vars
  BY Zenon DEF Alone
<1> QED  BY <1>1, Invariance, PTL DEF GlobalAlone

(* A restart command is begun only for a daemon that is dead, hung or busy,   *)
(* that has an echo whose answer is not read yet, or that was ignored.        *)
THEOREM RestartsAreJustified == Spec => RestartJustified
<1>1. [Alone /\ Justified]_vars =>
      [\A d \in Daemons :
         Starts(IF d = "zebra" THEN "all" ELSE d) =>
            \/ proc[d] # "alive" \/ d \in ignored
            \/ gs.dmn[d].fd \in {"asked", "answered", "final", "garbage"}]_vars
  BY Zenon DEF Justified, Due
<1> QED  BY <1>1, Invariance, PTL DEF RestartJustified
===============================================================================
