-------------------------------- MODULE Frrcu --------------------------------
(***************************************************************************)
(* lib/frrcu.c: read-copy-update for the threads of a daemon.  A reader     *)
(* holds an epoch in its own seqlock; what a writer retires goes on one     *)
(* queue, cut into epochs by RCUA_NEXT markers; the sweeper thread frees    *)
(* epoch rcuval once rcu_seq and every reader have moved past it.           *)
(*                                                                          *)
(* An action is one access to shared memory; accesses are sequentially      *)
(* consistent.  A seqlock is its position, 0 when it is not held and n for  *)
(* the n-th value of the counter; the module Seqlock models how a thread    *)
(* waits for one.  The client is a shared pointer: readers follow it under  *)
(* the lock, writers swap in a new object and retire the old one.           *)
(***************************************************************************)
EXTENDS Integers, Sequences, FiniteSets

CONSTANTS Threads,    \* pthreads that use RCU
          Main,       \* the initial one
          MaxItems,   \* bound: objects the client ever allocates
          MaxDepth,   \* bound: nesting of rcu_read_lock
          MaxShut,    \* bound: calls of rcu_shutdown
          MaxRegistering  \* bound: threads inside rcu_threads_add_tail at a time

STARTVAL == 1
NULL == 0
Items == 1..MaxItems
END == MaxItems + 1   \* rcu_head_end

ASSUME FrrcuAssumption ==
  /\ Main \in Threads /\ NULL \notin Threads /\ IsFiniteSet(Threads)
  /\ MaxItems \in Nat \ {0} /\ MaxDepth \in Nat \ {0} /\ MaxShut \in Nat
  /\ MaxRegistering \in Nat \ {0}

VARIABLES
  rcu_seq,      \* position of the counter seqlock
  rcu_dirty,
  rcu_threads,  \* the threads the list reaches from its first one
  last,         \* the list's pointer to the thread added last, or NULL
  adder,        \* the thread that is adding each to the list, or NULL
  up,           \* how the list reaches a thread, see Through
  rcu_heads,    \* queue of retired objects and markers
  nmarks,       \* history: markers queued for the sweeper that runs now
  rcu_active,
  nshut,        \* calls of rcu_shutdown so far
  rcu,          \* rt->rcu: the epoch each thread holds
  depth,        \* rt->depth
  pc, ret,      \* where each thread is, and which call it is in
  reg,          \* what it loaded last
  pend,         \* what it is retiring
  refs,         \* objects it may still look at
  ptr,          \* the client's pointer; objects are numbered as allocated
  freed,        \* objects given back
  rt_freed,     \* rcu_thread structs given back
  spc,          \* where the sweeper is
  rcuval,       \* the epoch it works on
  cur, todo,    \* the thread it waits for, and those it has still to visit
  end           \* RCUA_END seen

counters == <<rcu_seq, rcu_dirty>>
queue    == <<rcu_heads, nmarks>>
list     == <<last, adder, up>>
walk     == <<rcu_threads, cur, todo>>
life     == <<rcu_active, nshut>>
client   == <<ptr, refs>>
frees    == <<freed, rt_freed>>
sweeper  == <<spc, rcuval, end>>
vars == <<counters, queue, list, walk, life, rcu, depth, pc, ret, reg, pend, client,
          frees, sweeper>>

\* An entry of rcu_heads.  by is the thread that has still to link it, or NULL;
\* epoch, a history field, counts the markers before it.
Entry == [type: {"NEXT", "RN", "ITEM", "THREAD", "END"},
          obj: Items \cup Threads \cup {NULL},
          by: Threads \cup {NULL}, epoch: Nat]

Calls == {"lock", "relock", "unlock", "end"}
Labels == {"new", "register", "enlist", "born", "spawn", "run", "load", "store",
           "maybe", "compare", "next", "next_link", "rn", "rn_link", "bump", "release", "enqueue",
           "item_link", "dirty_load", "dirty_store", "free", "free_link",
           "del", "ended", "shut", "stop", "join"}

Goto(t, l) == pc' = [pc EXCEPT ![t] = l]

-----------------------------------------------------------------------------
(* Lists. *)

\* atomlist_add_tail, first half: the entry is the last one at once, but on
\* the list only when its thread has linked it to its predecessor.
AddTail(t, type, obj) ==
  /\ rcu_heads' = Append(rcu_heads, [type |-> type, obj |-> obj, by |-> t,
                                     epoch |-> nmarks])
  /\ nmarks' = IF type = "NEXT" THEN nmarks + 1 ELSE nmarks

\* Its second half, wherever it is called.
atomlist_link(t) ==
  /\ pc[t] \in {"next_link", "rn_link", "item_link", "free_link"}
  /\ rcu_heads' = [k \in DOMAIN rcu_heads |->
                     IF rcu_heads[k].by = t THEN [rcu_heads[k] EXCEPT !.by = NULL]
                     ELSE rcu_heads[k]]
  /\ Goto(t, CASE pc[t] = "next_link" -> "rn"
               [] pc[t] = "rn_link" -> "bump"
               [] pc[t] = "item_link" -> "dirty_load"
               [] pc[t] = "free_link" -> "del")
  /\ UNCHANGED <<counters, nmarks, list, walk, life, rcu, depth, ret, reg, pend,
                 client, frees, sweeper>>

\* u is half added to rcu_threads: its predecessor does not point to it yet.
HalfLinked(u) == adder[u] # NULL

\* up[u] is NULL if rcu_threads reaches u.  For a thread chained behind one that is
\* half added it is that one, and for one that is half added the thread that was the
\* last before it.  Through(u): the half-added thread behind which u is found.
Through(u) == IF u = NULL THEN NULL ELSE IF HalfLinked(u) THEN u ELSE up[u]

\* rcu_threads_add_tail, first half, by t for u: u is the last thread at once.
ThreadsAdd(t, u) ==
  /\ Cardinality({w \in Threads : HalfLinked(w)}) < MaxRegistering
  /\ last' = u
  /\ adder' = [adder EXCEPT ![u] = t]
  /\ up' = [up EXCEPT ![u] = last]

\* Its second half: the predecessor points to u, and the list comes to u and to the
\* threads behind it if it comes to the predecessor.  The sweeper walking the list
\* comes to them too unless it stands on a thread that was the last one and has been
\* deleted.  A predecessor that was deleted is followed as if its memory were still there.
ThreadsLink(u) ==
  LET at    == Through(up[u])
      tail  == {u} \cup {w \in Threads : ~HalfLinked(w) /\ up[w] = u}
      found == IF at = NULL THEN tail ELSE {}
  IN /\ up' = [w \in Threads |-> IF w \in tail THEN at ELSE up[w]]
     /\ last' = last /\ adder' = [adder EXCEPT ![u] = NULL]
     /\ rcu_threads' = rcu_threads \cup found
     /\ cur' = cur
     /\ todo' = IF cur \in rcu_threads \/ todo # {} THEN todo \cup found ELSE todo

\* rcu_threads_del.  The sweeper goes on waiting for the thread it stands on, and a
\* thread that was to be linked behind t starts over from the first one.  If the list
\* does not reach t, atomlist_del_core does not find it and those behind it stay there.
ThreadsDel(t) ==
  /\ rcu_threads' = rcu_threads \ {t}
  /\ last' = IF last = t THEN NULL ELSE last
  /\ up' = [w \in Threads |-> IF w = t \/ (HalfLinked(w) /\ up[w] = t) THEN NULL
                              ELSE up[w]]
  /\ adder' = adder
  /\ todo' = todo \ {t}
  /\ cur' = cur

-----------------------------------------------------------------------------
(* Epochs. *)

\* seqlock_acquire(&rt->rcu, &rcu_seq): a load, then a store.
seqlock_cur(t) ==
  /\ pc[t] = "load"
  /\ reg' = [reg EXCEPT ![t] = rcu_seq]
  /\ Goto(t, "store")
  /\ UNCHANGED <<counters, queue, list, walk, life, rcu, depth, ret, pend, client,
                 frees, sweeper>>

seqlock_acquire_val(t) ==
  /\ pc[t] = "store"
  /\ rcu' = [rcu EXCEPT ![t] = reg[t]]
  /\ reg' = [reg EXCEPT ![t] = 0]
  /\ Goto(t, CASE ret[t] = "lock" -> "maybe"
               [] ret[t] = "relock" -> "run"
               [] ret[t] = "end" -> "next")
  /\ UNCHANGED <<counters, queue, list, walk, life, depth, ret, pend, client, frees,
                 sweeper>>

rcu_bump_maybe(t) ==
  /\ pc[t] = "maybe"
  /\ reg' = [reg EXCEPT ![t] = rcu_dirty]
  /\ Goto(t, "compare")
  /\ UNCHANGED <<counters, queue, list, walk, life, rcu, depth, ret, pend, client,
                 frees, sweeper>>

\* Back in the caller of rcu_bump_maybe or rcu_bump.
Return(t) ==
  /\ Goto(t, CASE ret[t] = "lock" -> "load"
               [] ret[t] = "unlock" -> "release"
               [] ret[t] = "end" -> "free")
  /\ ret' = [ret EXCEPT ![t] = IF @ = "lock" THEN "relock" ELSE @]

rcu_bump_compare(t) ==
  /\ pc[t] = "compare"
  /\ reg' = [reg EXCEPT ![t] = 0]
  /\ \/ reg[t] = rcu_seq /\ Goto(t, "next") /\ ret' = ret
     \/ reg[t] # rcu_seq /\ Return(t)
  /\ UNCHANGED <<counters, queue, list, walk, life, rcu, depth, pend, client, frees,
                 sweeper>>

\* rcu_bump: queue the marker, queue the rcu_next it lives in, count.
rcu_bump_next(t) ==
  /\ pc[t] = "next"
  /\ AddTail(t, "NEXT", NULL)
  /\ Goto(t, "next_link")
  /\ UNCHANGED <<counters, list, walk, life, rcu, depth, ret, reg, pend, client, frees,
                 sweeper>>

\* Mutant: the rcu_next is freed by RCUA_NEXT itself.
rcu_bump_free_builtin(t) ==
  /\ pc[t] = "rn"
  /\ Goto(t, "bump")
  /\ UNCHANGED <<counters, queue, list, walk, life, rcu, depth, ret, reg, pend, client,
                 frees, sweeper>>

rcu_bump_free(t) ==
  /\ pc[t] = "rn"
  /\ AddTail(t, "RN", NULL)
  /\ Goto(t, "rn_link")
  /\ UNCHANGED <<counters, list, walk, life, rcu, depth, ret, reg, pend, client, frees,
                 sweeper>>

seqlock_bump(t) ==
  /\ pc[t] = "bump"
  /\ rcu_seq' = rcu_seq + 1
  /\ Return(t)
  /\ UNCHANGED <<rcu_dirty, queue, list, walk, life, rcu, depth, reg, pend, client,
                 frees, sweeper>>

-----------------------------------------------------------------------------
(* Readers. *)

rcu_read_lock(t) ==
  /\ pc[t] = "run" /\ depth[t] < MaxDepth
  /\ depth' = [depth EXCEPT ![t] = @ + 1]
  /\ \/ depth[t] > 0 /\ UNCHANGED <<pc, ret>>
     \/ depth[t] = 0 /\ Goto(t, "load") /\ ret' = [ret EXCEPT ![t] = "lock"]
  /\ UNCHANGED <<counters, queue, list, walk, life, rcu, reg, pend, client, frees,
                 sweeper>>

\* Mutant: without assert(rt->depth).
rcu_read_unlock_unchecked(t) ==
  /\ pc[t] = "run"
  /\ depth' = [depth EXCEPT ![t] = @ - 1]
  /\ \/ depth[t] > 1 /\ UNCHANGED <<pc, ret, refs>>
     \/ /\ depth[t] <= 1
        /\ Goto(t, "maybe") /\ ret' = [ret EXCEPT ![t] = "unlock"]
        /\ refs' = [refs EXCEPT ![t] = {}]
  /\ UNCHANGED <<counters, queue, list, walk, life, rcu, reg, pend, ptr, frees,
                 sweeper>>

\* From here on the client looks at nothing it found under the lock.
rcu_read_unlock(t) ==
  /\ pc[t] = "run" /\ depth[t] > 0
  /\ depth' = [depth EXCEPT ![t] = @ - 1]
  /\ \/ depth[t] > 1 /\ UNCHANGED <<pc, ret, refs>>
     \/ /\ depth[t] = 1
        /\ Goto(t, "maybe") /\ ret' = [ret EXCEPT ![t] = "unlock"]
        /\ refs' = [refs EXCEPT ![t] = {}]
  /\ UNCHANGED <<counters, queue, list, walk, life, rcu, reg, pend, ptr, frees,
                 sweeper>>

\* Mutant: the epoch stays held.
seqlock_release_not(t) ==
  /\ pc[t] = "release"
  /\ Goto(t, IF ret[t] = "end" THEN "ended" ELSE "run")
  /\ UNCHANGED <<counters, queue, list, walk, life, rcu, depth, ret, reg, pend, client,
                 frees, sweeper>>

seqlock_release(t) ==
  /\ pc[t] = "release"
  /\ rcu' = [rcu EXCEPT ![t] = 0]
  /\ Goto(t, IF ret[t] = "end" THEN "ended" ELSE "run")
  /\ UNCHANGED <<counters, queue, list, walk, life, depth, ret, reg, pend, client,
                 frees, sweeper>>

Access(t) ==
  /\ pc[t] = "run" /\ depth[t] > 0 /\ ptr \notin refs[t]
  /\ refs' = [refs EXCEPT ![t] = @ \cup {ptr}]
  /\ UNCHANGED <<counters, queue, list, walk, life, rcu, depth, pc, ret, reg, pend,
                 ptr, frees, sweeper>>

-----------------------------------------------------------------------------
(* Writers. *)

Replace(t) ==
  /\ pc[t] = "run" /\ depth[t] > 0 /\ ptr < MaxItems
  /\ ptr' = ptr + 1
  /\ pend' = [pend EXCEPT ![t] = ptr]
  /\ refs' = [refs EXCEPT ![t] = @ \ {ptr}]
  /\ Goto(t, "enqueue")
  /\ UNCHANGED <<counters, queue, list, walk, life, rcu, depth, ret, reg, frees,
                 sweeper>>

\* rcu_enqueue.  Without a sweeper rcu_do runs at once.
rcu_enqueue(t) ==
  /\ pc[t] = "enqueue"
  /\ \/ /\ ~rcu_active
        /\ freed' = freed \cup {pend[t]}
        /\ pend' = [pend EXCEPT ![t] = NULL]
        /\ Goto(t, "run") /\ UNCHANGED queue
     \/ /\ rcu_active
        /\ IF pend[t] = END THEN AddTail(t, "END", NULL)
           ELSE AddTail(t, "ITEM", pend[t])
        /\ Goto(t, "item_link") /\ UNCHANGED <<freed, pend>>
  /\ UNCHANGED <<counters, list, walk, life, rcu, depth, ret, reg, client, rt_freed,
                 sweeper>>

rcu_dirty_load(t) ==
  /\ pc[t] = "dirty_load"
  /\ reg' = [reg EXCEPT ![t] = rcu_seq]
  /\ Goto(t, "dirty_store")
  /\ UNCHANGED <<counters, queue, list, walk, life, rcu, depth, ret, pend, client,
                 frees, sweeper>>

rcu_dirty_store(t) ==
  /\ pc[t] = "dirty_store"
  /\ rcu_dirty' = reg[t]
  /\ reg' = [reg EXCEPT ![t] = 0]
  /\ pend' = [pend EXCEPT ![t] = NULL]
  /\ Goto(t, IF pend[t] = END THEN "shut" ELSE "run")
  /\ UNCHANGED <<rcu_seq, queue, list, walk, life, rcu, depth, ret, client, frees,
                 sweeper>>

-----------------------------------------------------------------------------
(* Threads come and go. *)

\* rcu_start, under rcu_start_mtx.
rcu_start ==
  /\ rcu_active' = TRUE /\ nshut' = nshut
  /\ IF rcu_active THEN UNCHANGED sweeper
     ELSE spc' = "wait" /\ rcuval' = STARTVAL /\ end' = FALSE

\* rcu_thread_prepare, up to the first half of rcu_threads_add_tail.
rcu_thread_prepare(t, u) ==
  /\ pc[t] = "run" /\ depth[t] > 0 /\ pc[u] = "new"
  /\ rcu_start
  /\ ThreadsAdd(t, u)
  /\ pc' = [pc EXCEPT ![t] = "spawn", ![u] = "born"]
  /\ UNCHANGED <<counters, queue, walk, rcu, depth, ret, reg, pend, client, frees>>

\* rcu_shutdown runs single-threaded: nothing registers meanwhile.
ShuttingDown == pend[Main] = END \/ pc[Main] \in {"shut", "stop", "join"}

\* rcu_thread_new(NULL), by a thread not made by FRR.
rcu_thread_new(u) ==
  /\ pc[u] = "new" /\ ~ShuttingDown
  /\ rcu_start
  /\ reg' = [reg EXCEPT ![u] = rcu_seq]
  /\ Goto(u, "register")
  /\ UNCHANGED <<counters, queue, list, walk, rcu, depth, ret, pend, client, frees>>

rcu_thread_register(u) ==
  /\ pc[u] = "register"
  /\ ThreadsAdd(u, u)
  /\ Goto(u, "enlist")
  /\ UNCHANGED <<counters, queue, walk, life, rcu, depth, ret, reg, pend, client,
                 frees, sweeper>>

\* Mutant: an external thread holds no epoch.
rcu_thread_start_unheld(u) ==
  /\ HalfLinked(u)
  /\ ThreadsLink(u)
  /\ LET t == adder[u]
     IN /\ rcu' = [rcu EXCEPT ![u] = IF t = u THEN 0 ELSE rcu[t]]
        /\ refs' = [refs EXCEPT ![u] = refs[t]]
        /\ pc' = [pc EXCEPT ![t] = "run", ![u] = "run"]
  /\ depth' = [depth EXCEPT ![u] = 1]
  /\ reg' = [reg EXCEPT ![u] = 0]
  /\ UNCHANGED <<counters, queue, life, ret, pend, ptr, frees, sweeper>>

\* The rest of rcu_thread_new, and rcu_thread_start.  Nothing sees what the new thread
\* holds before it is on the list: its parent's epoch, or rcu_seq.  It may look at
\* what its parent passes it.
rcu_thread_start(u) ==
  /\ HalfLinked(u)
  /\ ThreadsLink(u)
  /\ LET t == adder[u]
     IN /\ rcu' = [rcu EXCEPT ![u] = IF t = u THEN reg[u] ELSE rcu[t]]
        /\ refs' = [refs EXCEPT ![u] = refs[t]]
        /\ pc' = [pc EXCEPT ![t] = "run", ![u] = "run"]
  /\ depth' = [depth EXCEPT ![u] = 1]
  /\ reg' = [reg EXCEPT ![u] = 0]
  /\ UNCHANGED <<counters, queue, life, ret, pend, ptr, frees, sweeper>>

\* rcu_thread_unprepare: acquire, bump, queue the rcu_thread, delete, release.
rcu_thread_unprepare(t) ==
  /\ pc[t] = "run" /\ t # Main
  /\ depth' = [depth EXCEPT ![t] = 1]
  /\ refs' = [refs EXCEPT ![t] = {}]
  /\ ret' = [ret EXCEPT ![t] = "end"]
  /\ Goto(t, "load")
  /\ UNCHANGED <<counters, queue, list, walk, life, rcu, reg, pend, ptr, frees,
                 sweeper>>

rcu_thread_free(t) ==
  /\ pc[t] = "free"
  /\ AddTail(t, "THREAD", t)
  /\ Goto(t, "free_link")
  /\ UNCHANGED <<counters, list, walk, life, rcu, depth, ret, reg, pend, client, frees,
                 sweeper>>

rcu_threads_del(t) ==
  /\ pc[t] = "del"
  /\ ThreadsDel(t)
  /\ Goto(t, "release")
  /\ UNCHANGED <<counters, queue, life, rcu, depth, ret, reg, pend, client,
                 frees, sweeper>>

\* Mutant: without assert(rcu_threads_count() == 1).
rcu_shutdown_early ==
  /\ pc[Main] = "run" /\ depth[Main] > 0 /\ rcu_active /\ nshut < MaxShut
  /\ pend' = [pend EXCEPT ![Main] = END]
  /\ refs' = [refs EXCEPT ![Main] = {}]
  /\ Goto(Main, "enqueue")
  /\ nshut' = nshut + 1
  /\ UNCHANGED <<counters, queue, list, walk, rcu_active, rcu, depth, ret, reg, ptr,
                 frees, sweeper>>

\* rcu_shutdown, by the main thread once all others have ended.
rcu_shutdown ==
  /\ pc[Main] = "run" /\ depth[Main] > 0 /\ rcu_active /\ nshut < MaxShut
  /\ \A t \in Threads \ {Main} : pc[t] \in {"new", "ended"}
  /\ pend' = [pend EXCEPT ![Main] = END]
  /\ refs' = [refs EXCEPT ![Main] = {}]
  /\ Goto(Main, "enqueue")
  /\ nshut' = nshut + 1
  /\ UNCHANGED <<counters, queue, list, walk, rcu_active, rcu, depth, ret, reg, ptr,
                 frees, sweeper>>

rcu_shutdown_release ==
  /\ pc[Main] = "shut"
  /\ depth' = [depth EXCEPT ![Main] = 0]
  /\ rcu' = [rcu EXCEPT ![Main] = 0]
  /\ Goto(Main, "stop")
  /\ UNCHANGED <<counters, queue, list, walk, life, ret, reg, pend, client, frees,
                 sweeper>>

rcu_shutdown_stop ==
  /\ pc[Main] = "stop"
  /\ rcu_seq' = 0
  /\ rcu_active' = FALSE
  /\ Goto(Main, "join")
  /\ UNCHANGED <<rcu_dirty, queue, list, walk, nshut, rcu, depth, ret, reg, pend,
                 client, frees, sweeper>>

rcu_shutdown_join ==
  /\ pc[Main] = "join" /\ spc = "done"
  /\ rcu_seq' = STARTVAL
  /\ rcu' = [rcu EXCEPT ![Main] = STARTVAL]
  /\ depth' = [depth EXCEPT ![Main] = 1]
  /\ spc' = "off"
  /\ nmarks' = STARTVAL
  /\ Goto(Main, "run")
  /\ UNCHANGED <<rcu_dirty, rcu_heads, list, walk, life, ret, reg, pend, client, frees,
                 rcuval, end>>

-----------------------------------------------------------------------------
(* rcu_main, the sweeper. *)

\* seqlock_wait(pos, rcuval) returns.
Past(pos) == pos = 0 \/ pos > rcuval

SweeperOnly == UNCHANGED <<counters, list, rcu_threads, nmarks, life, rcu, depth, pc,
                           ret, reg, pend, client>>

rcu_main_wait ==
  /\ spc = "wait" /\ Past(rcu_seq)
  /\ spc' = "threads"
  /\ \E t \in rcu_threads : cur' = t /\ todo' = rcu_threads \ {t}
  /\ SweeperOnly /\ UNCHANGED <<rcu_heads, frees, rcuval, end>>

rcu_main_thread ==
  /\ spc = "threads" /\ Past(rcu[cur])
  /\ \/ \E t \in todo : cur' = t /\ todo' = todo \ {t} /\ spc' = spc
     \/ todo = {} /\ todo' = todo /\ cur' = NULL /\ spc' = "pop"
  /\ SweeperOnly /\ UNCHANGED <<rcu_heads, frees, rcuval, end>>

NextRound ==
  /\ rcuval' = rcuval + 1
  /\ spc' = IF end THEN "done" ELSE "wait"
  /\ UNCHANGED <<frees, end>>

\* rcu_heads_pop, which finds only what is linked, and rcu_do.
rcu_main_pop ==
  /\ spc = "pop"
  /\ IF rcu_heads = << >> \/ Head(rcu_heads).by # NULL
     THEN NextRound /\ UNCHANGED rcu_heads
     ELSE /\ rcu_heads' = Tail(rcu_heads)
          /\ LET rh == Head(rcu_heads)
             IN \/ rh.type = "NEXT" /\ NextRound
                \/ /\ rh.type # "NEXT"
                   /\ end' = (end \/ rh.type = "END")
                   /\ freed' = IF rh.type = "ITEM" THEN freed \cup {rh.obj} ELSE freed
                   /\ rt_freed' = IF rh.type = "THREAD" THEN rt_freed \cup {rh.obj}
                                  ELSE rt_freed
                   /\ UNCHANGED <<rcuval, spc>>
  /\ SweeperOnly /\ UNCHANGED <<cur, todo>>

-----------------------------------------------------------------------------
\* rcu_preinit
Init ==
  /\ rcu_seq = STARTVAL /\ rcu_dirty = 0
  /\ rcu_threads = {Main} /\ last = Main
  /\ adder = [t \in Threads |-> NULL] /\ up = [t \in Threads |-> NULL]
  /\ rcu_heads = << >> /\ nmarks = STARTVAL
  /\ rcu_active = FALSE /\ nshut = 0
  /\ rcu = [t \in Threads |-> IF t = Main THEN STARTVAL ELSE 0]
  /\ depth = [t \in Threads |-> IF t = Main THEN 1 ELSE 0]
  /\ pc = [t \in Threads |-> IF t = Main THEN "run" ELSE "new"]
  /\ ret = [t \in Threads |-> "lock"]
  /\ reg = [t \in Threads |-> 0]
  /\ pend = [t \in Threads |-> NULL]
  /\ refs = [t \in Threads |-> {}]
  /\ ptr = 1 /\ freed = {} /\ rt_freed = {}
  /\ spc = "off" /\ rcuval = STARTVAL /\ cur = NULL /\ todo = {} /\ end = FALSE

\* A thread inside a call of the library.
Inside(t) ==
  \/ seqlock_cur(t) \/ seqlock_acquire_val(t) \/ rcu_bump_maybe(t)
  \/ rcu_bump_compare(t) \/ rcu_bump_next(t) \/ rcu_bump_free(t)
  \/ seqlock_bump(t) \/ atomlist_link(t) \/ seqlock_release(t)
  \/ rcu_enqueue(t) \/ rcu_dirty_load(t) \/ rcu_dirty_store(t)
  \/ rcu_thread_register(t) \/ rcu_thread_start(t) \/ rcu_thread_free(t)
  \/ rcu_threads_del(t)

\* A thread that calls it.
Call(t) ==
  \/ rcu_read_lock(t) \/ rcu_read_unlock(t) \/ Access(t) \/ Replace(t)
  \/ \E u \in Threads : rcu_thread_prepare(t, u)
  \/ rcu_thread_new(t) \/ rcu_thread_unprepare(t)

Shutdown ==
  rcu_shutdown \/ rcu_shutdown_release \/ rcu_shutdown_stop \/ rcu_shutdown_join

rcu_main == rcu_main_wait \/ rcu_main_thread \/ rcu_main_pop

Next == (\E t \in Threads : Inside(t) \/ Call(t)) \/ Shutdown \/ rcu_main

\* The scheduler runs every thread, and every reader comes to its outermost
\* unlock: the event loop drops the lock around every poll.
Fairness ==
  /\ \A t \in Threads : /\ WF_vars(Inside(t))
                        /\ WF_vars(rcu_read_unlock(t))
                        /\ SF_vars(rcu_read_unlock(t) /\ depth[t] = 1)
  /\ WF_vars(rcu_main)
  /\ WF_vars(rcu_shutdown_release \/ rcu_shutdown_stop \/ rcu_shutdown_join)

Spec == Init /\ [][Next]_vars
LiveSpec == Spec /\ Fairness

-----------------------------------------------------------------------------
\* Every variable has its type; in particular no depth goes below zero.
TypeOK ==
  /\ rcu_seq \in Nat /\ rcu_dirty \in Nat /\ nmarks \in Nat
  /\ rcu_threads \subseteq Threads /\ todo \subseteq Threads
  /\ cur \in Threads \cup {NULL}
  /\ rcu_heads \in Seq(Entry)
  /\ rcu_active \in BOOLEAN /\ nshut \in Nat /\ end \in BOOLEAN
  /\ rcu \in [Threads -> Nat] /\ depth \in [Threads -> Nat]
  /\ pc \in [Threads -> Labels] /\ ret \in [Threads -> Calls]
  /\ reg \in [Threads -> Nat]
  /\ pend \in [Threads -> Items \cup {NULL, END}]
  /\ last \in Threads \cup {NULL}
  /\ adder \in [Threads -> Threads \cup {NULL}]
  /\ up \in [Threads -> Threads \cup {NULL}]
  /\ refs \in [Threads -> SUBSET Items]
  /\ ptr \in Items
  /\ freed \subseteq Items /\ rt_freed \subseteq Threads
  /\ spc \in {"off", "wait", "threads", "pop", "done"} /\ rcuval \in Nat

\* No object is given back while a thread that found it under rcu_read_lock,
\* or was handed it by its parent, has not unlocked: what RCU is for.
NoUseAfterFree == \A t \in Threads : refs[t] \cap freed = {}

\* While the sweeper pops (rcu_main), no add_tail is half done at the head of
\* the queue, and a pop never takes the last entry: the two conditions that
\* the comments in rcu_bump call important, and that atomlist_add_tail needs.
PopSafe ==
  spc = "pop" /\ rcu_active =>
    /\ Len(rcu_heads) >= 2
    /\ rcu_heads[1].by = NULL /\ rcu_heads[2].by = NULL

\* The assertion at the end of rcu_main: nothing is behind RCUA_END.
EndEmpty == spc = "done" => rcu_heads = << >>

\* Every epoch that rcu_seq has passed is swept, unless RCU is shut down.
Epochs == 1..(2 * MaxItems + Cardinality(Threads))
SweeperAdvances ==
  \A e \in Epochs : (rcu_active /\ rcu_seq > e) ~> (rcuval > e \/ ~rcu_active)
=============================================================================
