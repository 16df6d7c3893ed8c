---------------------------- MODULE ZebraRibProofs ----------------------------
(* Proofs about ZebraRib: the structural invariants of the node, and what its *)
(* handlers do to the entries and to what the kernel will hold.               *)
EXTENDS ZebraRib, TLAPS

\* Entries are linked in the order of their names, so that of any of them one is
\* the newest.
Ranked == \A S \in SUBSET Re : S # {} => \E x \in S : \A y \in S : y <= x

\* The part of the invariant the other parts build on.
TypeInv == TypeOK /\ SelectedFibLinked /\ Ranked

\* First picks a member of its set, NULL for the empty set.
LEMMA FirstMember ==
  ASSUME TypeInv, NEW S \in SUBSET Re
  PROVE  /\ First(S) \in Nat
         /\ S = {} => First(S) = NULL
         /\ S # {} => First(S) \in S /\ First(S) # NULL
<1>1. CASE S = {}
  BY <1>1, Zenon DEF First, NULL
<1>2. CASE S # {}
  <2>1. \E x \in S : \A y \in S : y <= x
    BY <1>2, Zenon DEF TypeInv, Ranked
  <2>2. First(S) \in S
    BY <1>2, <2>1, Zenon DEF First
  <2>3. S \subseteq 1..nre /\ nre \in Nat
    BY Zenon DEF TypeInv, TypeOK
  <2>4. First(S) \in 1..nre /\ nre \in Nat
    BY <2>2, <2>3, Zenon
  <2>5. First(S) \in Nat /\ First(S) # 0
    BY <2>4
  <2> QED BY <1>2, <2>2, <2>5, Zenon DEF NULL
<1> QED BY <1>1, <1>2, Zenon

LEMMA RankedKept ==
  ASSUME Ranked, DOMAIN routes' \subseteq Re
  PROVE  Ranked'
<1>1. ASSUME NEW S \in SUBSET DOMAIN routes', S # {}
      PROVE  \E x \in S : \A y \in S : y <= x
  BY <1>1, Zenon DEF Ranked
<1> QED BY <1>1, Zenon DEF Ranked, Re

LEMMA RankedAdded ==
  ASSUME TypeOK, Ranked, DOMAIN routes' \subseteq Re \cup {nre + 1}
  PROVE  Ranked'
<1>1. ASSUME NEW S \in SUBSET DOMAIN routes', S # {}
      PROVE  \E x \in S : \A y \in S : y <= x
  <2>1. CASE nre + 1 \in S
    <3>1. \A y \in S : y \in 1..nre \/ y = nre + 1
      BY Zenon DEF TypeOK
    <3>2. nre \in Nat
      BY Zenon DEF TypeOK
    <3>3. \A y \in S : y <= nre + 1
      BY <3>1, <3>2
    <3> QED BY <2>1, <3>3, Zenon
  <2>2. CASE nre + 1 \notin S
    BY <1>1, <2>2, Zenon DEF Ranked
  <2> QED BY <2>1, <2>2, Zenon
<1> QED BY <1>1, Zenon DEF Ranked, Re

\* A member of a queue, and the queue without its head.
LEMMA ContentsAppend ==
  ASSUME NEW S, NEW q \in Seq(S), NEW x \in S
  PROVE  Contents(Append(q, x)) = Contents(q) \cup {x}
<1>1. Len(Append(q, x)) = Len(q) + 1 /\ Append(q, x)[Len(q) + 1] = x
  OBVIOUS
<1>2. \A n \in 1..Len(q) : Append(q, x)[n] = q[n]
  OBVIOUS
<1>3. \A n \in 1..(Len(q) + 1) : n \in 1..Len(q) \/ n = Len(q) + 1
  OBVIOUS
<1>4. Contents(Append(q, x)) \subseteq Contents(q) \cup {x}
  BY <1>1, <1>2, <1>3, Zenon DEF Contents
<1>5. Contents(q) \subseteq Contents(Append(q, x))
  BY <1>1, <1>2 DEF Contents
<1>6. x \in Contents(Append(q, x))
  BY <1>1 DEF Contents
<1> QED BY <1>4, <1>5, <1>6, Zenon

LEMMA ContentsTail ==
  ASSUME NEW S, NEW q \in Seq(S), q # << >>
  PROVE  Contents(q) = {Head(q)} \cup Contents(Tail(q))
<1>1. Contents(q) \subseteq {Head(q)} \cup Contents(Tail(q))
  <2> SUFFICES ASSUME NEW n \in 1..Len(q), n # 1 PROVE q[n] \in Contents(Tail(q))
    BY DEF Contents
  <2>1. n - 1 \in 1..Len(Tail(q)) /\ Tail(q)[n - 1] = q[n]
    OBVIOUS
  <2> QED BY <2>1, Zenon DEF Contents
<1>2. Contents(Tail(q)) \subseteq Contents(q)
  <2> SUFFICES ASSUME NEW n \in 1..Len(Tail(q)) PROVE Tail(q)[n] \in Contents(q)
    BY Zenon DEF Contents
  <2>1. n + 1 \in 1..Len(q) /\ Tail(q)[n] = q[n + 1]
    OBVIOUS
  <2> QED BY <2>1, Zenon DEF Contents
<1>3. Head(q) \in Contents(q)
  BY DEF Contents
<1> QED BY <1>1, <1>2, <1>3, Zenon

LEMMA InitTypeInv == Init => TypeInv
<1> SUFFICES ASSUME Init PROVE TypeInv
  OBVIOUS
<1>1. TypeOK /\ SelectedFibLinked
  BY RibAssumption DEF Init, TypeOK, SelectedFibLinked, Re, NULL, MQ_SIZE, ZapiNotes
<1>2. Re = {}
  BY Zenon DEF Init, Re
<1>3. Ranked
  BY <1>2, Zenon DEF Ranked
<1> QED BY <1>1, <1>3, Zenon DEF TypeInv

-----------------------------------------------------------------------------
\* What an entry is made of.
LEMMA EntryParts ==
  ASSUME NEW e \in Entry
  PROVE  /\ e.adv \in Adverts /\ e.adv.type \in Types /\ e.adv.nh \in Nhs
         /\ e.active \in BOOLEAN /\ e.seq \in Nat
BY RibAssumption, Zenon DEF Entry

\* What the assignments to an entry's flags leave it: an entry, the same
\* otherwise.
LEMMA EntryChosen ==
  ASSUME NEW e \in Entry, NEW b \in BOOLEAN, NEW c \in BOOLEAN
  PROVE  LET d == [e EXCEPT !.selected = b, !.changed = c]
         IN d \in Entry /\ d.selected = b /\ d.removed = e.removed
BY Zenon DEF Entry

LEMMA EntryReplaced ==
  ASSUME NEW e \in Entry, NEW r \in BOOLEAN, NEW c \in BOOLEAN
  PROVE  LET d == [e EXCEPT !.removed = r, !.replacing = c]
         IN /\ d \in Entry /\ d.selected = e.selected /\ d.adv = e.adv
            /\ d.seq = e.seq /\ d.queued = e.queued
BY Zenon DEF Entry

LEMMA EntryFlagged ==
  ASSUME NEW e \in Entry
  PROVE  /\ [e EXCEPT !.changed = TRUE] \in Entry
         /\ [e EXCEPT !.removed = TRUE] \in Entry
         /\ [e EXCEPT !.removed = TRUE].selected = e.selected
         /\ [e EXCEPT !.installed = FALSE] \in Entry
         /\ [e EXCEPT !.installed = FALSE].selected = e.selected
         /\ [e EXCEPT !.installed = FALSE].removed = e.removed
BY Zenon DEF Entry

\* A node with entries is filed in the sub-queue of one of its types.
LEMMA QueueAddType ==
  ASSUME qindex \in {MQ_SIZE} \cup {meta_q_map[t] : t \in Types},
         NEW rts, DOMAIN rts # {}, \A i \in DOMAIN rts : rts[i] \in Entry
  PROVE  QueueAdd(rts) \in {meta_q_map[t] : t \in Types} /\ QueueAdd(rts) < MQ_SIZE
<1>1. \A t \in Types : meta_q_map[t] \in 4..9
  BY RibAssumption, Zenon
<1>2. CASE Queued
  BY <1>1, <1>2 DEF QueueAdd, Queued, MQ_SIZE
<1>3. CASE ~Queued
  <2> DEFINE S == {meta_q_map[rts[i].adv.type] : i \in DOMAIN rts}
  <2>1. \A i \in DOMAIN rts : rts[i].adv.type \in Types
    BY EntryParts, Zenon
  <2>2. S \subseteq {meta_q_map[t] : t \in Types}
    BY <2>1, Zenon
  <2>3. S \subseteq {4, 5, 6, 7, 8, 9}
    BY <1>1, <2>1
  <2>4. S # {}
    BY Zenon
  <2>5. QueueAdd(rts) = CHOOSE q \in S : \A r \in S : q <= r
    BY <1>3, Zenon DEF QueueAdd
  <2> HIDE DEF S
  <2>6. \E q \in S : \A r \in S : q <= r
    <3>1. CASE 4 \in S
      BY <2>3, <3>1
    <3>2. CASE 4 \notin S /\ 5 \in S
      BY <2>3, <3>2
    <3>3. CASE 4 \notin S /\ 5 \notin S /\ 6 \in S
      BY <2>3, <3>3
    <3>4. CASE 4 \notin S /\ 5 \notin S /\ 6 \notin S /\ 7 \in S
      BY <2>3, <3>4
    <3>5. CASE S \subseteq {8, 9} /\ 8 \in S
      BY <3>5
    <3>6. CASE S \subseteq {9}
      <4>1. S = {9}
        BY <2>4, <3>6, Zenon
      <4> QED BY <4>1
    <3> QED BY <2>3, <3>1, <3>2, <3>3, <3>4, <3>5, <3>6, Zenon
  <2>7. QueueAdd(rts) \in S
    BY <2>5, <2>6, Zenon
  <2> QED BY <1>1, <2>2, <2>7 DEF MQ_SIZE
<1> QED BY <1>2, <1>3, Zenon

\* A context built for an entry is well formed.
LEMMA MkCtxType ==
  ASSUME seq \in Nat, NEW rts, \A i \in DOMAIN rts : rts[i] \in Entry,
         NEW op \in DPLANE_OPS, NEW new \in DOMAIN rts, NEW old,
         op = "UPDATE" => old \in DOMAIN rts
  PROVE  MkCtx(rts, op, new, old) \in Ctx
<1>1. rts[new].adv.type \in Types /\ rts[new].adv.nh \in Nhs
  BY EntryParts, Zenon
<1>2. op = "UPDATE" => rts[old].adv.type \in Types
  BY EntryParts, Zenon
<1> QED BY <1>1, <1>2, RibAssumption DEF MkCtx, Ctx

\* What a call to the dataplane does to the entries of the node.
LEMMA EnqueueEffect ==
  ASSUME seq \in Nat, dg_update_list \in Seq(Ctx),
         NEW rts, \A i \in DOMAIN rts : rts[i] \in Entry,
         NEW op \in DPLANE_OPS, NEW new \in DOMAIN rts, NEW old,
         op = "UPDATE" => old \in DOMAIN rts,
         NEW gone, Enqueue(rts, op, new, old, gone)
  PROVE  /\ DOMAIN routes' = DOMAIN rts \ gone
         /\ \A i \in DOMAIN rts \ gone :
              /\ routes'[i] \in Entry
              /\ routes'[i].selected = rts[i].selected
              /\ routes'[i].removed = rts[i].removed
         /\ dg_update_list' \in Seq(Ctx)
         /\ seq' \in Nat
<1>1. \A i \in DOMAIN rts :
         LET e == Stamp(rts, op, new, old)[i]
         IN e \in Entry /\ e.selected = rts[i].selected /\ e.removed = rts[i].removed
  <2> SUFFICES ASSUME NEW i \in DOMAIN rts, NEW e, e = Stamp(rts, op, new, old)[i]
               PROVE  /\ e \in Entry /\ e.selected = rts[i].selected
                      /\ e.removed = rts[i].removed
    OBVIOUS
  <2>1. rts[i] \in Entry
    OBVIOUS
  <2>3. CASE i = new
    <3> DEFINE b == rts[i].queued \/ op # "DELETE"
               c == rts[i].replacing \/ op = "UPDATE"
               d == [rts[i] EXCEPT !.seq = seq + 1, !.queued = b, !.replacing = c]
    <3>1. e = d
      BY <2>3, Zenon DEF Stamp
    <3>2. b \in BOOLEAN /\ c \in BOOLEAN /\ seq + 1 \in Nat
      OBVIOUS
    <3> HIDE DEF b, c
    <3>3. d \in Entry /\ d.selected = rts[i].selected /\ d.removed = rts[i].removed
      BY <2>1, <3>2, Zenon DEF Entry
    <3> HIDE DEF d
    <3> QED BY <3>1, <3>3, Zenon
  <2>4. CASE i # new /\ i = old /\ op = "UPDATE"
    <3> DEFINE d == [rts[i] EXCEPT !.seq = seq + 2, !.queued = TRUE]
    <3>1. e = d
      BY <2>4, Zenon DEF Stamp
    <3>2. d \in Entry /\ d.selected = rts[i].selected /\ d.removed = rts[i].removed
      <4>1. seq + 2 \in Nat
        OBVIOUS
      <4> QED BY <2>1, <4>1, Zenon DEF Entry
    <3> HIDE DEF d
    <3> QED BY <3>1, <3>2, Zenon
  <2>5. CASE i # new /\ ~(i = old /\ op = "UPDATE")
    BY <2>1, <2>5, Zenon DEF Stamp
  <2> QED BY <2>3, <2>4, <2>5, Zenon
<1>2. DOMAIN Stamp(rts, op, new, old) = DOMAIN rts
  BY Zenon DEF Stamp
<1>3. MkCtx(rts, op, new, old) \in Ctx
  BY MkCtxType, Zenon
<1>4. CASE /\ dg_update_list' = Append(dg_update_list, MkCtx(rts, op, new, old))
           /\ seq' = seq + IF op = "UPDATE" /\ old # new THEN 2 ELSE 1
           /\ routes' = Drop(Stamp(rts, op, new, old), gone)
  BY <1>1, <1>2, <1>3, <1>4 DEF Drop
<1>5. CASE routes' = Drop(rts, gone) /\ UNCHANGED <<dg_update_list, seq>>
  BY <1>5, Zenon DEF Drop
<1> QED BY <1>4, <1>5, Zenon DEF Enqueue

-----------------------------------------------------------------------------
\* The inputs only append to a queue, except a route-map change.
LEMMA TypeInvInput ==
  ASSUME TypeInv, Input
  PROVE  TypeOK' /\ SelectedFibLinked'
<1> USE DEF TypeInv, TypeOK, SelectedFibLinked, Re
<1>1. ASSUME NEW a \in Adverts, rib_add_multipath(a)
      PROVE  TypeOK' /\ SelectedFibLinked'
  BY <1>1 DEF rib_add_multipath, External, dplane, EarlyRoute
<1>2. ASSUME NEW a \in Adverts, rib_delete(a)
      PROVE  TypeOK' /\ SelectedFibLinked'
  BY <1>2 DEF rib_delete, External, dplane, EarlyRoute
<1>3. CASE KernelRouteLost
  BY <1>3 DEF KernelRouteLost, External, KernelRoute
<1>4. ASSUME NEW t \in Types, ip_protocol_rm(t)
      PROVE  TypeOK' /\ SelectedFibLinked'
  <2>1. permit' \in [Types -> BOOLEAN]
    BY <1>4, Zenon DEF ip_protocol_rm
  <2>2. /\ DOMAIN routes' = Re /\ \A i \in Re : routes'[i] \in Entry
        /\ qindex' \in {MQ_SIZE} \cup {meta_q_map[u] : u \in Types}
    <3>1. CASE UNCHANGED <<routes, qindex>>
      BY <3>1, Zenon
    <3>2. CASE /\ \E i \in Re : TypeOf(i) = t
               /\ routes' = [i \in Re |-> IF TypeOf(i) = t
                                THEN [routes[i] EXCEPT !.changed = TRUE]
                                ELSE routes[i]]
               /\ qindex' = QueueAdd(routes)
      <4>1. QueueAdd(routes) \in {meta_q_map[u] : u \in Types}
        BY <3>2, QueueAddType, Zenon
      <4>2. ASSUME NEW i \in Re
            PROVE  routes'[i] \in Entry
        <5>1. routes[i] \in Entry
          OBVIOUS
        <5>2. [routes[i] EXCEPT !.changed = TRUE] \in Entry
          BY <5>1, EntryFlagged, Zenon
        <5>3. routes'[i] \in {routes[i], [routes[i] EXCEPT !.changed = TRUE]}
          BY <3>2, Zenon
        <5> QED BY <5>1, <5>2, <5>3, Zenon
      <4>3. DOMAIN routes' = Re
        BY <3>2, Zenon
      <4> QED BY <3>2, <4>1, <4>2, <4>3, Zenon
    <3> QED BY <1>4, <3>1, <3>2, Zenon DEF ip_protocol_rm, rib_update_table
  <2> QED BY <1>4, <2>1, <2>2 DEF ip_protocol_rm, External, dplane
<1> QED BY <1>1, <1>2, <1>3, <1>4, Zenon DEF Input

\* The dataplane pthread touches nothing but its queues and the kernel.
LEMMA TypeInvDplane ==
  ASSUME TypeInv, DplaneThread
  PROVE  TypeOK' /\ SelectedFibLinked'
<1> USE DEF TypeInv, TypeOK, SelectedFibLinked, Re
<1>1. CASE kernel_dplane_process_func
  <2>1. Head(dg_update_list) \in Ctx /\ Tail(dg_update_list) \in Seq(Ctx)
    BY <1>1 DEF kernel_dplane_process_func
  <2> DEFINE r == [kind |-> "result", ctx |-> Head(dg_update_list), success |-> TRUE]
  <2>2. r \in Result
    BY <2>1, Zenon DEF Result
  <2>3. rib_dplane_q' \in Seq(Result) /\ work_list' \in Seq(Ctx)
    <3>1. \/ rib_dplane_q' = Append(rib_dplane_q, r) /\ UNCHANGED work_list
          \/ work_list' = Append(work_list, Head(dg_update_list))
             /\ UNCHANGED rib_dplane_q
      BY <1>1, Zenon DEF kernel_dplane_process_func
    <3> HIDE DEF r
    <3>2. Append(rib_dplane_q, r) \in Seq(Result)
      BY <2>2
    <3>3. Append(work_list, Head(dg_update_list)) \in Seq(Ctx)
      BY <2>1
    <3> QED BY <3>1, <3>2, <3>3, Zenon
  <2> QED BY <1>1, <2>1, <2>3, Zenon DEF kernel_dplane_process_func
<1>2. CASE kernel_update_multi
  <2>1. Head(work_list) \in Ctx /\ Tail(work_list) \in Seq(Ctx)
    BY <1>2 DEF kernel_update_multi
  <2>2. \A ok \in BOOLEAN :
          [kind |-> "result", ctx |-> Head(work_list), success |-> ok] \in Result
    BY <2>1, Zenon DEF Result
  <2>3. AfterRequest(Head(work_list)) \in KernelRoute \cup {None}
    BY <2>1, Zenon DEF AfterRequest, KernelRoute, Ctx
  <2> QED BY <1>2, <2>1, <2>2, <2>3 DEF kernel_update_multi
<1>3. CASE dplane_incoming_read
  <2>1. Head(nlq) \in Types /\ Tail(nlq) \in Seq(Types)
    BY <1>3 DEF dplane_incoming_read
  <2>2. [kind |-> "lost", type |-> Head(nlq)] \in Result
    BY <2>1, Zenon DEF Result
  <2> QED BY <1>3, <2>1, <2>2 DEF dplane_incoming_read
<1> QED BY <1>1, <1>2, <1>3, Zenon DEF DplaneThread

\* What best-path selection does to the entries, whichever way the FIB goes.
LEMMA UpdateFibEffect ==
  ASSUME TypeInv, NEW rts, DOMAIN rts = Re, \A i \in Re : rts[i] \in Entry,
         NEW new_selected, NEW new_fib \in Re \cup {NULL},
         new_fib # NULL => ~rts[new_fib].removed,
         UpdateFib(rts, new_selected, new_fib)
  PROVE  /\ DOMAIN routes' = Re \ Removed(rts)
         /\ \A i \in Re \ Removed(rts) :
              /\ routes'[i] \in Entry
              /\ routes'[i].selected = Selected(rts, new_selected, i)
              /\ ~routes'[i].removed
         /\ dg_update_list' \in Seq(Ctx)
         /\ seq' \in Nat
         /\ selected_fib' \in (Re \ Removed(rts)) \cup {NULL}
<1> DEFINE chosen == Chosen(rts, new_selected)
<1> USE DEF TypeInv, TypeOK, SelectedFibLinked
<1>1. /\ DOMAIN chosen = Re
      /\ \A i \in Re : /\ chosen[i] \in Entry
                       /\ chosen[i].selected = Selected(rts, new_selected, i)
                       /\ chosen[i].removed = rts[i].removed
  <2>1. DOMAIN chosen = Re
    BY Zenon DEF Chosen
  <2> SUFFICES ASSUME NEW i \in Re
               PROVE  /\ chosen[i] \in Entry
                      /\ chosen[i].selected = Selected(rts, new_selected, i)
                      /\ chosen[i].removed = rts[i].removed
    BY <2>1, Zenon
  <2> DEFINE b == Selected(rts, new_selected, i)
             c == rts[i].changed /\ ~rts[i].active /\ i # selected_fib
             d == [rts[i] EXCEPT !.selected = b, !.changed = c]
  <2>2. chosen[i] = d
    BY Zenon DEF Chosen
  <2>3. b \in BOOLEAN /\ c \in BOOLEAN
    BY DEF Selected
  <2> HIDE DEF b, c, chosen
  <2>4. d \in Entry /\ d.selected = b /\ d.removed = rts[i].removed
    <3>1. rts[i] \in Entry
      OBVIOUS
    <3> HIDE DEF TypeInv, TypeOK, SelectedFibLinked
    <3> QED BY <2>3, <3>1, EntryChosen, ZenonT(40)
  <2> HIDE DEF d
  <2> QED BY <2>2, <2>4, Zenon DEF b
<1>2. NULL \notin Re
  BY DEF NULL
<1>3. Removed(rts) = {i \in Re : rts[i].removed}
  BY Zenon DEF Removed
<1> HIDE DEF chosen
<1>4. ASSUME NEW op \in DPLANE_OPS, NEW new \in Re, NEW old,
             op = "UPDATE" => old \in Re,
             Enqueue(chosen, op, new, old, Removed(rts))
      PROVE  /\ DOMAIN routes' = Re \ Removed(rts)
             /\ \A i \in Re \ Removed(rts) :
                  /\ routes'[i] \in Entry
                  /\ routes'[i].selected = Selected(rts, new_selected, i)
                  /\ ~routes'[i].removed
             /\ dg_update_list' \in Seq(Ctx)
             /\ seq' \in Nat
  <2>1. /\ DOMAIN routes' = DOMAIN chosen \ Removed(rts)
        /\ \A i \in DOMAIN chosen \ Removed(rts) :
              /\ routes'[i] \in Entry
              /\ routes'[i].selected = chosen[i].selected
              /\ routes'[i].removed = chosen[i].removed
        /\ dg_update_list' \in Seq(Ctx)
        /\ seq' \in Nat
    BY <1>1, <1>4, EnqueueEffect, Zenon
  <2> QED BY <1>1, <1>3, <2>1, Zenon
<1>5. ASSUME NEW fib \in Re \cup {NULL},
             routes' = Drop(chosen, Removed(rts)),
             selected_fib' = FibAfter(rts, fib),
             UNCHANGED <<dg_update_list, seq>>
      PROVE  /\ DOMAIN routes' = Re \ Removed(rts)
             /\ \A i \in Re \ Removed(rts) :
                  /\ routes'[i] \in Entry
                  /\ routes'[i].selected = Selected(rts, new_selected, i)
                  /\ ~routes'[i].removed
             /\ dg_update_list' \in Seq(Ctx)
             /\ seq' \in Nat
             /\ selected_fib' \in (Re \ Removed(rts)) \cup {NULL}
  BY <1>1, <1>2, <1>3, <1>5, Zenon DEF Drop, FibAfter
<1>6. CASE new_fib # NULL
  <2>1. new_fib \in Re \ Removed(rts)
    BY <1>3, <1>6, Zenon
  <2>2. CASE selected_fib = NULL
    BY <1>4, <1>6, <2>1, <2>2, Zenon DEF UpdateFib, chosen, DPLANE_OPS
  <2>3. CASE selected_fib # NULL
    <3>1. selected_fib \in Re
      BY <2>3, Zenon
    <3> QED BY <1>4, <1>5, <1>6, <2>1, <2>3, <3>1, Zenon DEF UpdateFib, chosen, DPLANE_OPS
  <2> QED BY <2>2, <2>3, Zenon
<1>7. CASE new_fib = NULL /\ selected_fib # NULL
  <2>1. selected_fib \in Re
    BY <1>7, Zenon
  <2>2. /\ Enqueue(chosen, "DELETE", selected_fib, NULL, Removed(rts))
        /\ selected_fib' = FibAfter(rts, selected_fib)
    BY <1>7, Zenon DEF UpdateFib, chosen
  <2> QED BY <1>3, <1>4, <2>1, <2>2, Zenon DEF FibAfter, DPLANE_OPS
<1>8. CASE new_fib = NULL /\ selected_fib = NULL
  BY <1>5, <1>8, Zenon DEF UpdateFib, chosen
<1> QED BY <1>6, <1>7, <1>8, Zenon

-----------------------------------------------------------------------------
\* rib_process: the outcome of the selection loop and of the hand-over.
LEMMA RibProcessEffect ==
  ASSUME TypeInv, rib_process
  PROVE  \E new_selected :
           /\ DOMAIN routes' = Re \ Removed(routes)
           /\ \A i \in Re \ Removed(routes) :
                /\ routes'[i] \in Entry
                /\ routes'[i].selected = Selected(Examined, new_selected, i)
                /\ ~routes'[i].removed
           /\ dg_update_list' \in Seq(Ctx)
           /\ seq' \in Nat
           /\ selected_fib' \in (Re \ Removed(routes)) \cup {NULL}
<1> USE DEF TypeInv, TypeOK
<1>1. /\ DOMAIN Examined = Re
      /\ \A i \in Re : Examined[i] \in Entry /\ Examined[i].removed = routes[i].removed
  <2>1. DOMAIN Examined = Re
    BY Zenon DEF Examined
  <2> SUFFICES ASSUME NEW i \in Re
               PROVE  Examined[i] \in Entry /\ Examined[i].removed = routes[i].removed
    BY <2>1, Zenon
  <2>2. CASE ~(~routes[i].removed /\ routes[i].changed)
    BY <2>2, Zenon DEF Examined
  <2>3. CASE ~routes[i].removed /\ routes[i].changed
    <3> DEFINE act == permit[routes[i].adv.type]
               c == (act # routes[i].active)
               d == [routes[i] EXCEPT !.active = act, !.changed = c]
    <3>1. Examined[i] = d
      BY <2>3, Zenon DEF Examined, nexthop_active_update
    <3>2. act \in BOOLEAN /\ c \in BOOLEAN
      BY EntryParts, Zenon
    <3> HIDE DEF act, c
    <3>3. d \in Entry /\ d.removed = routes[i].removed
      BY <3>2, Zenon DEF Entry
    <3> HIDE DEF d
    <3> QED BY <3>1, <3>3, Zenon
  <2> QED BY <2>2, <2>3, Zenon
<1>2. Removed(Examined) = Removed(routes)
  BY <1>1, Zenon DEF Removed, Re
<1>3. PICK new_selected \in Re \cup {NULL}, over \in Re \cup {NULL} :
         /\ IsBest(Examined, new_selected,
                   {i \in Usable(Examined) : ~Examined[i].adv.override})
         /\ IsBest(Examined, over, {i \in Usable(Examined) : Examined[i].adv.override})
         /\ UpdateFib(Examined, new_selected, NewFib(new_selected, over))
  BY Zenon DEF rib_process
<1>4. \A i \in Usable(Examined) : ~Examined[i].removed
  BY Zenon DEF Usable
<1>5. new_selected # NULL => ~Examined[new_selected].removed
  BY <1>3, <1>4, Zenon DEF IsBest
<1>6. over # NULL => ~Examined[over].removed
  BY <1>3, <1>4, Zenon DEF IsBest
<1>7. /\ NewFib(new_selected, over) \in Re \cup {NULL}
      /\ NewFib(new_selected, over) # NULL
           => ~Examined[NewFib(new_selected, over)].removed
  BY <1>3, <1>5, <1>6, Zenon DEF NewFib
<1> HIDE DEF TypeInv, TypeOK
<1>8. /\ DOMAIN routes' = Re \ Removed(Examined)
      /\ \A i \in Re \ Removed(Examined) :
           /\ routes'[i] \in Entry
           /\ routes'[i].selected = Selected(Examined, new_selected, i)
           /\ ~routes'[i].removed
      /\ dg_update_list' \in Seq(Ctx)
      /\ seq' \in Nat
      /\ selected_fib' \in (Re \ Removed(Examined)) \cup {NULL}
  BY <1>1, <1>3, <1>7, UpdateFibEffect, Zenon
<1> QED BY <1>2, <1>8, Zenon

LEMMA TypeInvRibProcess ==
  ASSUME TypeInv, rib_process
  PROVE  TypeOK' /\ SelectedFibLinked'
<1> USE DEF TypeInv, TypeOK, SelectedFibLinked
<1>1. /\ DOMAIN routes' \subseteq Re
      /\ \A i \in DOMAIN routes' : routes'[i] \in Entry
      /\ dg_update_list' \in Seq(Ctx)
      /\ seq' \in Nat
      /\ selected_fib' \in DOMAIN routes' \cup {NULL}
  BY RibProcessEffect, Zenon
<1>2. owner' \in [Types -> ZapiNotes]
  <2>1. \A rts, o, n, f : ProcessNotes(rts, o, n, f) \in [Types -> ZapiNotes]
    BY Zenon DEF ProcessNotes, ZapiNotes
  <2> QED BY <2>1 DEF rib_process
<1>3. redist' \in Types \cup {None}
  BY Zenon DEF rib_process, redistribute_delete
<1>4. selected_fib' \in Nat
  BY <1>1 DEF NULL, Re
<1> QED BY <1>1, <1>2, <1>3, <1>4, Zenon DEF rib_process, Re

\* Linking an announcement.
LEMMA EarlyAddEffect ==
  ASSUME TypeInv, process_subq_early_route_add
  PROVE  /\ DOMAIN routes' \subseteq Re \cup {nre + 1}
         /\ nre + 1 \in DOMAIN routes'
         /\ selected_fib \in Re => selected_fib \in DOMAIN routes'
         /\ routes'[nre + 1] \in Entry
         /\ ~routes'[nre + 1].selected /\ routes'[nre + 1].seq = 0
         /\ ~routes'[nre + 1].queued /\ ~routes'[nre + 1].removed
         /\ \A i \in DOMAIN routes' \ {nre + 1} :
              /\ routes'[i] \in Entry
              /\ routes'[i].adv = routes[i].adv
              /\ routes'[i].selected = routes[i].selected
              /\ routes'[i].seq = routes[i].seq
              /\ routes'[i].queued = routes[i].queued
         /\ qindex' \in {meta_q_map[t] : t \in Types} /\ qindex' < MQ_SIZE
<1> USE DEF TypeInv, TypeOK
<1> DEFINE a    == Head(early).adv
           same == First({i \in Re : /\ ~routes[i].removed
                                     /\ rib_compare_routes(a, routes[i].adv)})
           new  == nre + 1
           linked == [i \in Re \cup {new} |->
                        IF i = new THEN NewEntry(a)
                        ELSE IF i = same
                        THEN [routes[i] EXCEPT !.removed = TRUE,
                                     !.replacing = @ \/ i = selected_fib]
                        ELSE routes[i]]
<1>1. /\ qindex' = QueueAdd(linked)
      /\ routes' = Reap(linked, selected_fib)
      /\ early # << >> /\ Head(early).kind = "add"
  BY Zenon DEF process_subq_early_route_add
<1>2. a \in Adverts
  <2>1. early # << >> /\ Head(early).kind = "add"
    BY <1>1, Zenon
  <2>2. Head(early) \in EarlyRoute
    BY <2>1
  <2> QED BY <2>1, <2>2, Zenon DEF EarlyRoute
<1>3. NewEntry(a) \in Entry
  BY <1>2, Zenon DEF NewEntry, Entry
<1>4. new \notin Re
  BY DEF Re
<1> HIDE DEF same, a
<1>5. \A i \in Re : /\ linked[i] \in Entry
                    /\ linked[i].adv = routes[i].adv
                    /\ linked[i].selected = routes[i].selected
                    /\ linked[i].seq = routes[i].seq
                    /\ linked[i].queued = routes[i].queued
  <2> SUFFICES ASSUME NEW i \in Re
               PROVE  /\ linked[i] \in Entry
                      /\ linked[i].adv = routes[i].adv
                      /\ linked[i].selected = routes[i].selected
                      /\ linked[i].seq = routes[i].seq
                      /\ linked[i].queued = routes[i].queued
    BY Zenon
  <2>1. CASE i # same
    BY <1>4, <2>1, Zenon
  <2>2. CASE i = same
    <3> DEFINE c == routes[i].replacing \/ i = selected_fib
               r == TRUE
               d == [routes[i] EXCEPT !.removed = r, !.replacing = c]
    <3>1. linked[i] = d
      BY <1>4, <2>2, Zenon
    <3>2. c \in BOOLEAN /\ r \in BOOLEAN
      OBVIOUS
    <3> HIDE DEF c, r, linked
    <3>3. /\ d \in Entry /\ d.selected = routes[i].selected /\ d.adv = routes[i].adv
          /\ d.seq = routes[i].seq /\ d.queued = routes[i].queued
      <4>1. routes[i] \in Entry
        OBVIOUS
      <4> QED BY <3>2, <4>1, EntryReplaced, ZenonT(40)
    <3> HIDE DEF d
    <3> QED BY <3>1, <3>3, Zenon
  <2> QED BY <2>1, <2>2, Zenon
<1>6. DOMAIN linked = Re \cup {new} /\ linked[new] = NewEntry(a)
  OBVIOUS
<1> HIDE DEF linked
<1>7. /\ DOMAIN routes' = (Re \cup {new}) \ (Removed(linked) \ {selected_fib})
      /\ \A i \in DOMAIN routes' : routes'[i] = linked[i]
  BY <1>1, <1>6, Zenon DEF Reap, Drop
<1>8. ~linked[new].removed
  BY <1>6 DEF NewEntry
<1>9. new \in DOMAIN routes'
  BY <1>7, <1>8, Zenon DEF Removed
<1>10. QueueAdd(linked) \in {meta_q_map[t] : t \in Types} /\ QueueAdd(linked) < MQ_SIZE
  BY <1>3, <1>5, <1>6, QueueAddType, Zenon
<1>11. /\ ~linked[new].selected /\ linked[new].seq = 0 /\ ~linked[new].queued
  BY <1>6 DEF NewEntry
<1> QED BY <1>1, <1>3, <1>5, <1>6, <1>7, <1>8, <1>9, <1>10, <1>11, ZenonT(40)

LEMMA TypeInvEarlyAdd ==
  ASSUME TypeInv, process_subq_early_route_add
  PROVE  TypeOK' /\ SelectedFibLinked'
<1> USE DEF TypeInv, TypeOK, SelectedFibLinked
<1>1. \A i \in DOMAIN routes' : routes'[i] \in Entry
  BY EarlyAddEffect, Zenon
<1>0. nre' = nre + 1 /\ early # << >> /\ early' = Tail(early)
  BY Zenon DEF process_subq_early_route_add
<1>2. DOMAIN routes' \subseteq 1..nre'
  <2>1. DOMAIN routes' \subseteq Re \cup {nre + 1}
    BY EarlyAddEffect, Zenon
  <2>2. Re \subseteq 1..nre /\ nre \in Nat
    OBVIOUS
  <2>3. \A i \in Re \cup {nre + 1} : i \in 1..(nre + 1)
    BY <2>2
  <2> QED BY <1>0, <2>1, <2>3, Zenon
<1>3. early' \in Seq(EarlyRoute) /\ nre' \in Nat
  BY <1>0
<1>4. qindex' \in {meta_q_map[t] : t \in Types}
  BY EarlyAddEffect, Zenon
<1>5. selected_fib' # NULL => selected_fib' \in DOMAIN routes'
  BY EarlyAddEffect, Zenon DEF process_subq_early_route_add
<1> QED BY <1>1, <1>2, <1>3, <1>4, <1>5, Zenon DEF process_subq_early_route_add, dplane, Re

\* A withdrawal marks an entry, a kernel deletion reinstalls one or forgets the
\* FIB; no entry is linked or unlinked.
LEMMA EarlyDeleteEffect ==
  ASSUME TypeInv, process_subq_early_route_delete
  PROVE  /\ DOMAIN routes' = Re
         /\ \A i \in Re : /\ routes'[i] \in Entry
                          /\ routes'[i].selected = routes[i].selected
                          /\ routes'[i].removed =>
                               routes[i].removed \/ qindex' < MQ_SIZE
         /\ qindex' \in {MQ_SIZE} \cup {meta_q_map[t] : t \in Types}
         /\ qindex' = qindex \/ (Re # {} /\ qindex' < MQ_SIZE)
         /\ selected_fib' \in Re \cup {NULL, selected_fib}
         /\ dg_update_list' \in Seq(Ctx)
         /\ seq' \in Nat
<1> USE DEF TypeInv, TypeOK, SelectedFibLinked
<1> DEFINE Goal == /\ DOMAIN routes' = Re
                   /\ \A i \in Re : /\ routes'[i] \in Entry
                                    /\ routes'[i].selected = routes[i].selected
                                    /\ routes'[i].removed =>
                                         routes[i].removed \/ qindex' < MQ_SIZE
                   /\ qindex' \in {MQ_SIZE} \cup {meta_q_map[t] : t \in Types}
                   /\ qindex' = qindex \/ (Re # {} /\ qindex' < MQ_SIZE)
                   /\ selected_fib' \in Re \cup {NULL, selected_fib}
                   /\ dg_update_list' \in Seq(Ctx)
                   /\ seq' \in Nat
<1>1. ASSUME NEW k \in Re, NEW f \in {"removed", "installed"}
      PROVE  LET rts == IF f = "removed" THEN [routes EXCEPT ![k].removed = TRUE]
                        ELSE [routes EXCEPT ![k].installed = FALSE]
             IN /\ DOMAIN rts = Re
                /\ \A i \in Re : /\ rts[i] \in Entry
                                 /\ rts[i].selected = routes[i].selected
                                 /\ f = "installed" => rts[i].removed = routes[i].removed
  <2> DEFINE rts == IF f = "removed" THEN [routes EXCEPT ![k].removed = TRUE]
                    ELSE [routes EXCEPT ![k].installed = FALSE]
  <2>1. DOMAIN rts = Re
    BY Zenon DEF Re
  <2>2. ASSUME NEW i \in Re
        PROVE  /\ rts[i] \in Entry
               /\ rts[i].selected = routes[i].selected
               /\ f = "installed" => rts[i].removed = routes[i].removed
    <3>1. routes[i] \in Entry
      OBVIOUS
    <3>2. rts[i] = IF i # k THEN routes[i]
                   ELSE IF f = "removed" THEN [routes[i] EXCEPT !.removed = TRUE]
                   ELSE [routes[i] EXCEPT !.installed = FALSE]
      BY Zenon DEF Re
    <3> HIDE DEF rts
    <3> QED BY <3>1, <3>2, EntryFlagged, Zenon
  <2> QED BY <2>1, <2>2, Zenon
<1>2. ASSUME NEW k \in Re, Delnode(k)
      PROVE  Goal
  <2>1. QueueAdd(routes) \in {meta_q_map[t] : t \in Types} /\ QueueAdd(routes) < MQ_SIZE
    BY QueueAddType, Zenon DEF Re
  <2> QED BY <1>1, <1>2, <2>1, Zenon DEF Delnode
<1>3. ASSUME NEW k \in Re, Reinstall(k)
      PROVE  Goal
  <2> DEFINE rts == [routes EXCEPT ![k].installed = FALSE]
  <2>1. /\ DOMAIN rts = Re
        /\ \A i \in Re : /\ rts[i] \in Entry
                         /\ rts[i].selected = routes[i].selected
                         /\ rts[i].removed = routes[i].removed
    BY <1>1, Zenon
  <2>2. /\ Enqueue(rts, "INSTALL", k, NULL, {})
        /\ selected_fib' = k /\ qindex' = qindex
    BY <1>3, Zenon DEF Reinstall
  <2> HIDE DEF rts
  <2>3. /\ DOMAIN routes' = DOMAIN rts \ {}
        /\ \A i \in DOMAIN rts \ {} :
             /\ routes'[i] \in Entry
             /\ routes'[i].selected = rts[i].selected
             /\ routes'[i].removed = rts[i].removed
        /\ dg_update_list' \in Seq(Ctx)
        /\ seq' \in Nat
    <3>1. "INSTALL" \in DPLANE_OPS /\ "INSTALL" # "UPDATE"
      BY Zenon DEF DPLANE_OPS
    <3>2. seq \in Nat /\ dg_update_list \in Seq(Ctx) /\ k \in DOMAIN rts
      BY <2>1, Zenon
    <3> HIDE DEF TypeInv
    <3> QED BY <2>1, <2>2, <3>1, <3>2, EnqueueEffect, Zenon
  <2> QED BY <2>1, <2>2, <2>3, Zenon
<1>4. ASSUME selected_fib # NULL,
             routes' = [routes EXCEPT ![selected_fib].installed = FALSE],
             selected_fib' = NULL,
             UNCHANGED <<qindex, dg_update_list, seq>>
      PROVE  Goal
  <2>1. selected_fib \in Re
    BY <1>4, Zenon
  <2> QED BY <1>1, <1>4, <2>1, Zenon
<1>5. ASSUME UNCHANGED <<routes, selected_fib, qindex, dg_update_list, seq>>
      PROVE  Goal
  BY <1>5, Zenon DEF Re
<1>6. Deleted(Head(early)) # NULL => Deleted(Head(early)) \in Re
  BY FirstMember, Zenon DEF Deleted
<1> HIDE DEF Goal
<1>7. Goal
  <2>1. CASE Deleted(Head(early)) # NULL
    BY <1>2, <1>3, <1>6, <2>1, Zenon DEF process_subq_early_route_delete
  <2>2. CASE Deleted(Head(early)) = NULL
    <3>1. selected_fib # NULL => selected_fib \in Re
      OBVIOUS
    <3> HIDE DEF TypeInv
    <3> QED BY <1>3, <1>4, <1>5, <2>2, <3>1, Zenon DEF process_subq_early_route_delete
  <2> QED BY <2>1, <2>2, Zenon
<1> QED BY <1>7, Zenon DEF Goal

LEMMA TypeInvEarlyDelete ==
  ASSUME TypeInv, process_subq_early_route_delete
  PROVE  TypeOK' /\ SelectedFibLinked'
<1> USE DEF TypeInv, TypeOK, SelectedFibLinked
<1>1. early' \in Seq(EarlyRoute)
  <2>1. early # << >> /\ early' = Tail(early)
    BY Zenon DEF process_subq_early_route_delete
  <2> QED BY <2>1
<1>2. selected_fib' \in Nat /\ (selected_fib' # NULL => selected_fib' \in DOMAIN routes')
  <2>1. DOMAIN routes' = Re /\ selected_fib' \in Re \cup {NULL, selected_fib}
    BY EarlyDeleteEffect, Zenon
  <2>2. /\ Re \subseteq 1..nre /\ nre \in Nat /\ selected_fib \in Nat
        /\ selected_fib # NULL => selected_fib \in Re
    BY Zenon
  <2> HIDE DEF TypeInv, TypeOK, SelectedFibLinked
  <2> QED BY <2>1, <2>2 DEF NULL, Re
<1>3. /\ DOMAIN routes' \subseteq 1..nre /\ \A i \in DOMAIN routes' : routes'[i] \in Entry
      /\ qindex' \in {MQ_SIZE} \cup {meta_q_map[t] : t \in Types}
      /\ dg_update_list' \in Seq(Ctx) /\ seq' \in Nat
  BY EarlyDeleteEffect, Zenon
<1> QED BY <1>1, <1>2, <1>3, Zenon DEF process_subq_early_route_delete, Re

\* Results.
LEMMA TypeInvNotif ==
  ASSUME TypeInv, rib_process_kernel_route_notif
  PROVE  TypeOK' /\ SelectedFibLinked'
<1> USE DEF TypeInv, TypeOK, SelectedFibLinked, Re
<1>1. rib_dplane_q # << >> /\ Head(rib_dplane_q).kind = "lost"
  BY Zenon DEF rib_process_kernel_route_notif
<1>2. Head(rib_dplane_q) \in Result /\ Tail(rib_dplane_q) \in Seq(Result)
  BY <1>1
<1>3. Head(rib_dplane_q).type \in Types
  BY <1>1, <1>2, Zenon DEF Result
<1>4. [kind |-> "lost", type |-> Head(rib_dplane_q).type] \in EarlyRoute
  BY <1>3, Zenon DEF EarlyRoute
<1> QED BY <1>2, <1>4 DEF rib_process_kernel_route_notif

\* The entries a result names.
ResultRe == First({i \in Re : routes[i].seq = Head(rib_dplane_q).ctx.seq})
ResultOldRe ==
  IF Head(rib_dplane_q).ctx.old_seq = 0 THEN NULL
  ELSE First({i \in Re : routes[i].seq = Head(rib_dplane_q).ctx.old_seq})

\* A result changes flags of the entries it names; nothing else about them.
\* QUEUED is never set, and taken off those entries.
LEMMA ResultEffect ==
  ASSUME TypeInv, rib_process_result
  PROVE  /\ DOMAIN routes' = Re
         /\ \A i \in {ResultRe, ResultOldRe} \cap Re : ~routes'[i].queued
         /\ \A i \in Re : /\ routes'[i] \in Entry
                          /\ routes'[i].adv = routes[i].adv
                          /\ routes'[i].selected = routes[i].selected
                          /\ routes'[i].removed = routes[i].removed
                          /\ routes'[i].seq = routes[i].seq
                          /\ routes'[i].queued => routes[i].queued
<1> USE DEF TypeInv, TypeOK, Re
<1> DEFINE ctx == Head(rib_dplane_q).ctx
           ok  == Head(rib_dplane_q).success
           re  == ResultRe
           old_re == ResultOldRe
           rts == [i \in Re |-> IF i = re THEN NewSide(routes[i], ctx.op, ok)
                                ELSE IF i = old_re THEN OldSide(routes[i], ok)
                                ELSE routes[i]]
           Same(e, d) == /\ d \in Entry /\ d.adv = e.adv /\ d.selected = e.selected
                         /\ d.removed = e.removed /\ d.seq = e.seq
                         /\ d.queued => e.queued
<1>1. Head(rib_dplane_q) \in Result /\ Head(rib_dplane_q).kind = "result"
  BY DEF rib_process_result
<1>2. ok \in BOOLEAN
  BY <1>1, Zenon DEF Result
<1>3. ASSUME NEW e \in Entry, NEW op
      PROVE  Same(e, NewSide(e, op, ok))
  <2> DEFINE q == FALSE
             inst == IF op = "DELETE" THEN e.installed /\ ~ok ELSE ok
             fail == ~ok
             d == [e EXCEPT !.queued = q, !.replacing = q, !.installed = inst,
                            !.failed = fail]
  <2>1. NewSide(e, op, ok) = d
    BY Zenon DEF NewSide
  <2>2. q \in BOOLEAN /\ inst \in BOOLEAN /\ fail \in BOOLEAN
    BY <1>2, Zenon
  <2>3. ~q
    OBVIOUS
  <2> HIDE DEF q, inst, fail, ok
  <2>4. Same(e, d)
    BY <2>2, <2>3, Zenon DEF Entry
  <2> HIDE DEF d
  <2> QED BY <2>1, <2>4, Zenon
<1>4. ASSUME NEW e \in Entry
      PROVE  Same(e, OldSide(e, ok))
  <2> DEFINE q == FALSE
             inst == e.installed /\ ~ok
             fail == ~ok
             d == [e EXCEPT !.queued = q, !.installed = inst, !.failed = fail]
  <2>1. OldSide(e, ok) = d
    BY Zenon DEF OldSide
  <2>2. q \in BOOLEAN /\ inst \in BOOLEAN /\ fail \in BOOLEAN
    BY <1>2, Zenon
  <2>3. ~q
    OBVIOUS
  <2> HIDE DEF q, inst, fail, ok
  <2>4. Same(e, d)
    BY <2>2, <2>3, Zenon DEF Entry
  <2> HIDE DEF d
  <2> QED BY <2>1, <2>4, Zenon
<1> HIDE DEF ok, ctx, re, old_re
<1>5. DOMAIN rts = Re /\ \A i \in Re : Same(routes[i], rts[i])
  <2> HIDE DEF Same
  <2>1. ASSUME NEW e \in Entry PROVE Same(e, e)
    BY Zenon DEF Same
  <2> QED BY <1>3, <1>4, <2>1, Zenon
<1> HIDE DEF rts
<1>6. ASSUME NEW e \in Entry
      PROVE  Same(e, [e EXCEPT !.installed = TRUE, !.queued = FALSE, !.replacing = FALSE])
  <2> DEFINE q == FALSE
             inst == TRUE
             d == [e EXCEPT !.installed = inst, !.queued = q, !.replacing = q]
  <2>1. q \in BOOLEAN /\ inst \in BOOLEAN /\ ~q
    OBVIOUS
  <2> HIDE DEF q, inst
  <2>2. Same(e, d)
    BY <2>1, Zenon DEF Entry
  <2> HIDE DEF Same
  <2> QED BY <2>2, Zenon DEF q, inst
<1>7. /\ DOMAIN FixupSystem(rts) = Re
      /\ \A i \in Re : /\ Same(rts[i], FixupSystem(rts)[i])
                       /\ Same(routes[i], FixupSystem(rts)[i])
  <2>1. \A i \in Re : rts[i] \in Entry
    BY <1>5, Zenon
  <2>2. \A i \in Re : Same(rts[i], FixupSystem(rts)[i])
    <3> SUFFICES ASSUME NEW i \in Re PROVE Same(rts[i], FixupSystem(rts)[i])
      OBVIOUS
    <3>1. rts[i] \in Entry /\ i \in DOMAIN rts
      BY <1>5, Zenon
    <3>2. Same(rts[i], rts[i])
      BY <3>1, Zenon
    <3> HIDE DEF Same
    <3> QED BY <1>6, <3>1, <3>2, Zenon DEF FixupSystem
  <2> QED BY <1>5, <2>2, Zenon DEF FixupSystem
<1>8. routes' = rts \/ routes' = FixupSystem(rts)
  BY Zenon DEF rib_process_result, rts, re, old_re, ctx, ok, ResultRe, ResultOldRe
<1>9. \A i \in {re, old_re} \cap Re : ~rts[i].queued
  <2>1. ASSUME NEW e \in Entry, NEW op, NEW k
        PROVE  ~NewSide(e, op, k).queued /\ ~OldSide(e, k).queued
    BY Zenon DEF NewSide, OldSide, Entry
  <2>2. \A i \in Re : routes[i] \in Entry
    OBVIOUS
  <2> QED BY <2>1, <2>2, Zenon DEF rts
<1>10. \A i \in Re : Same(rts[i], routes'[i])
  <2>1. ASSUME NEW e \in Entry PROVE Same(e, e)
    OBVIOUS
  <2>2. \A i \in Re : rts[i] \in Entry
    BY <1>5, Zenon
  <2>3. \A i \in Re : Same(rts[i], FixupSystem(rts)[i])
    BY <1>7, Zenon
  <2> HIDE DEF Same
  <2> QED BY <1>8, <2>1, <2>2, <2>3, Zenon
<1>11. DOMAIN routes' = Re /\ \A i \in Re : Same(routes[i], routes'[i])
  <2> HIDE DEF Same
  <2> QED BY <1>5, <1>7, <1>8, Zenon
<1>12. \A i \in {ResultRe, ResultOldRe} \cap Re : ~routes'[i].queued
  BY <1>9, <1>10, Zenon DEF re, old_re
<1> QED BY <1>11, <1>12, Zenon

LEMMA TypeInvResult ==
  ASSUME TypeInv, rib_process_result
  PROVE  TypeOK' /\ SelectedFibLinked'
<1> USE DEF TypeInv, TypeOK, SelectedFibLinked
<1> DEFINE ctx == Head(rib_dplane_q).ctx
<1>1. rib_dplane_q # << >> /\ Head(rib_dplane_q).kind = "result"
  BY Zenon DEF rib_process_result
<1>2. Head(rib_dplane_q) \in Result /\ Tail(rib_dplane_q) \in Seq(Result)
  BY <1>1
<1>3. ctx \in Ctx /\ ctx.type \in Types
  BY <1>1, <1>2, Zenon DEF Result, Ctx
<1>4. owner' \in [Types -> ZapiNotes]
  <2>1. \E n \in ZapiNotes : owner' = [owner EXCEPT ![ctx.type] = n] \/ owner' = owner
    BY Zenon DEF rib_process_result, ZapiNotes
  <2> QED BY <1>3, <2>1, Zenon
<1>5. redist' \in Types \cup {None}
  <2>1. \A i \in Re : TypeOf(i) \in Types
    BY EntryParts, Zenon DEF TypeOf
  <2>2. \A i \in Re : \A j : redistribute_update(i, j) \in Types \cup {None}
    BY <2>1, Zenon DEF redistribute_update
  <2>3. \/ redist' = redist
        \/ \E j : /\ redist' = redistribute_update(selected_fib, j)
                  /\ selected_fib # NULL
    BY Zenon DEF rib_process_result
  <2> QED BY <2>2, <2>3, Zenon
<1>6. DOMAIN routes' = Re /\ \A i \in Re : routes'[i] \in Entry
  BY ResultEffect, Zenon
<1> QED BY <1>2, <1>4, <1>5, <1>6, Zenon DEF rib_process_result, Re

-----------------------------------------------------------------------------
\* Every step keeps the types and keeps dest->selected_fib linked.
LEMMA TypeInvStep ==
  ASSUME TypeInv, [Next]_vars
  PROVE  TypeInv'
<1>1. CASE Input
  <2>1. DOMAIN routes' = Re
    BY <1>1, Zenon DEF Input, rib_add_multipath, rib_delete, KernelRouteLost, ip_protocol_rm,
       rib_update_table, External, dplane, Re
  <2> QED BY <1>1, <2>1, TypeInvInput, RankedKept, Zenon DEF TypeInv
<1>2. CASE MainThread
  <2>1. CASE process_subq_early_route_add
    <3>1. DOMAIN routes' \subseteq Re \cup {nre + 1}
      BY <2>1, EarlyAddEffect, Zenon
    <3> QED BY <2>1, <3>1, TypeInvEarlyAdd, RankedAdded, Zenon DEF TypeInv
  <2>2. CASE process_subq_early_route_delete
    <3>1. DOMAIN routes' = Re
      BY <2>2, EarlyDeleteEffect, Zenon
    <3> QED BY <2>2, <3>1, TypeInvEarlyDelete, RankedKept, Zenon DEF TypeInv
  <2>3. CASE rib_process
    <3>1. DOMAIN routes' \subseteq Re
      BY <2>3, RibProcessEffect, Zenon
    <3> QED BY <2>3, <3>1, TypeInvRibProcess, RankedKept, Zenon DEF TypeInv
  <2>4. CASE rib_process_kernel_route_notif
    <3>1. routes' = routes
      BY <2>4, Zenon DEF rib_process_kernel_route_notif
    <3> QED BY <2>4, <3>1, TypeInvNotif, RankedKept, Zenon DEF TypeInv, Re
  <2>5. CASE rib_process_result
    <3>1. DOMAIN routes' = Re
      BY <2>5, ResultEffect, Zenon
    <3> QED BY <2>5, <3>1, TypeInvResult, RankedKept, Zenon DEF TypeInv
  <2> QED BY <1>2, <2>1, <2>2, <2>3, <2>4, <2>5, Zenon DEF MainThread
<1>3. CASE DplaneThread
  <2>1. routes' = routes
    BY <1>3, Zenon DEF DplaneThread, kernel_dplane_process_func, kernel_update_multi,
       dplane_incoming_read
  <2> QED BY <1>3, <2>1, TypeInvDplane, RankedKept, Zenon DEF TypeInv, Re
<1>4. CASE UNCHANGED vars
  <2>1. routes' = routes /\ TypeOK' /\ SelectedFibLinked'
    BY <1>4, Zenon DEF vars, TypeInv, TypeOK, SelectedFibLinked, Re
  <2> QED BY <2>1, RankedKept, Zenon DEF TypeInv, Re
<1> QED BY <1>1, <1>2, <1>3, <1>4, Zenon DEF Next

\* The shape of the node, the queues and the contexts is kept by every handler of
\* both pthreads, for any set of protocols, announcements, faults and limits.
THEOREM RibTypeCorrect == Spec => []TypeOK
<1>1. Init => TypeInv
  BY InitTypeInv, Zenon
<1>2. TypeInv /\ [Next]_vars => TypeInv'
  BY TypeInvStep, Zenon
<1>3. TypeInv => TypeOK
  BY Zenon DEF TypeInv
<1> QED BY <1>1, <1>2, <1>3, PTL DEF Spec

\* dest->selected_fib never dangles: neither the reaping in
\* process_subq_early_route_add nor rib_unlink in rib_process frees the entry it
\* points to without moving it.
THEOREM RibSelectedFibLinked == Spec => []SelectedFibLinked
<1>1. Init => TypeInv
  BY InitTypeInv, Zenon
<1>2. TypeInv /\ [Next]_vars => TypeInv'
  BY TypeInvStep, Zenon
<1>3. TypeInv => SelectedFibLinked
  BY Zenon DEF TypeInv
<1> QED BY <1>1, <1>2, <1>3, PTL DEF Spec

-----------------------------------------------------------------------------
\* What a step other than a route-map change, an early route, a selection and a result
\* leaves alone.
LEMMA NodeUntouched ==
  ASSUME \/ KernelRouteLost \/ DplaneThread \/ rib_process_kernel_route_notif
         \/ UNCHANGED vars
         \/ \E a \in Adverts : rib_add_multipath(a) \/ rib_delete(a)
  PROVE  UNCHANGED <<routes, selected_fib, qindex>>
BY Zenon DEF KernelRouteLost, DplaneThread, kernel_dplane_process_func,
   kernel_update_multi, dplane_incoming_read, rib_process_kernel_route_notif, vars,
   rib_add_multipath, rib_delete

\* A route-map change either skips the node or marks entries and queues it.
LEMMA RouteMapEffect ==
  ASSUME TypeInv, NEW t \in Types, ip_protocol_rm(t)
  PROVE  \/ UNCHANGED <<routes, qindex>>
         \/ /\ Re # {} /\ DOMAIN routes' = Re /\ qindex' < MQ_SIZE
            /\ \A i \in Re : routes'[i].selected = routes[i].selected
<1> USE DEF TypeInv, TypeOK
<1>1. CASE /\ Re # {}
           /\ routes' = [i \in Re |-> IF TypeOf(i) = t
                            THEN [routes[i] EXCEPT !.changed = TRUE]
                            ELSE routes[i]]
           /\ qindex' = QueueAdd(routes)
  <2>1. QueueAdd(routes) < MQ_SIZE
    BY <1>1, QueueAddType, Zenon DEF Re
  <2>2. /\ DOMAIN routes' = Re
        /\ \A i \in Re : routes'[i].selected = routes[i].selected
    BY <1>1, Zenon DEF Entry
  <2> QED BY <1>1, <2>1, <2>2, Zenon
<1> QED BY <1>1, Zenon DEF ip_protocol_rm, rib_update_table

\* While one entry at most is SELECTED, it is the one the loop finds, and after the
\* move new_selected is the only one.
LEMMA SelectedMoves ==
  ASSUME TypeInv, SelectedUnique, NEW n, NEW i \in Re, Selected(Examined, n, i)
  PROVE  i = n
<1> SUFFICES ASSUME i # n PROVE FALSE
  OBVIOUS
<1>1. Examined[i].selected /\ i # OldSelected(Examined)
  BY Zenon DEF Selected
<1> DEFINE S == {j \in Re : Examined[j].selected}
<1>2. i \in S /\ S \in SUBSET Re
  BY <1>1, Zenon
<1>3. First(S) \in S
  BY <1>2, FirstMember, Zenon
<1>4. \A j \in Re : Examined[j].selected = routes[j].selected
  <2> SUFFICES ASSUME NEW j \in Re PROVE Examined[j].selected = routes[j].selected
    OBVIOUS
  <2>1. routes[j] \in Entry
    BY Zenon DEF TypeInv, TypeOK
  <2> QED BY <2>1, Zenon DEF Examined, nexthop_active_update, Entry
<1>5. First(S) = i
  BY <1>2, <1>3, <1>4, Zenon DEF SelectedUnique
<1> QED BY <1>1, <1>5, Zenon DEF OldSelected

LEMMA SelectedUniqueStep ==
  ASSUME TypeInv, SelectedUnique, [Next]_vars
  PROVE  SelectedUnique'
<1>1. CASE UNCHANGED routes
  BY <1>1, Zenon DEF SelectedUnique, Re
<1>2. ASSUME NEW t \in Types, ip_protocol_rm(t) PROVE SelectedUnique'
  BY <1>1, <1>2, RouteMapEffect, Zenon DEF SelectedUnique, Re
<1>3. CASE process_subq_early_route_add
  BY <1>3, EarlyAddEffect, Zenon DEF SelectedUnique, Re
<1>4. CASE process_subq_early_route_delete
  BY <1>4, EarlyDeleteEffect, Zenon DEF SelectedUnique, Re
<1>5. CASE rib_process
  <2>1. PICK n : /\ DOMAIN routes' = Re \ Removed(routes)
                 /\ \A i \in DOMAIN routes' : routes'[i].selected = Selected(Examined, n, i)
    BY <1>5, RibProcessEffect, Zenon
  <2>2. \A i \in DOMAIN routes' : routes'[i].selected => i = n
    <3> SUFFICES ASSUME NEW i \in DOMAIN routes', routes'[i].selected PROVE i = n
      OBVIOUS
    <3>1. i \in Re /\ Selected(Examined, n, i)
      BY <2>1, Zenon
    <3> QED BY <3>1, SelectedMoves, Zenon
  <2> QED BY <2>2, Zenon DEF SelectedUnique, Re
<1>6. CASE rib_process_result
  BY <1>6, ResultEffect, Zenon DEF SelectedUnique, Re
<1> QED BY <1>1, <1>2, <1>3, <1>4, <1>5, <1>6, NodeUntouched, Zenon
        DEF Next, Input, MainThread

\* The assertion of rib_process never fails: the selection loop meets one SELECTED
\* entry at most, although it clears the flag only on the entry it met and entries
\* are linked, replaced and unlinked by other handlers.
THEOREM RibSelectedUnique == Spec => []SelectedUnique
<1>1. Init => TypeInv /\ SelectedUnique
  BY InitTypeInv, Zenon DEF Init, SelectedUnique, Re
<1>2. TypeInv /\ SelectedUnique /\ [Next]_vars => TypeInv' /\ SelectedUnique'
  BY TypeInvStep, SelectedUniqueStep, Zenon
<1> QED BY <1>1, <1>2, PTL DEF Spec

LEMMA RemovedQueuedStep ==
  ASSUME TypeInv, RemovedQueued, [Next]_vars
  PROVE  RemovedQueued'
<1>1. CASE UNCHANGED <<routes, qindex>>
  BY <1>1, Zenon DEF RemovedQueued, Re, Queued
<1>2. ASSUME NEW t \in Types, ip_protocol_rm(t) PROVE RemovedQueued'
  BY <1>1, <1>2, RouteMapEffect, Zenon DEF RemovedQueued, Re, Queued
<1>3. CASE process_subq_early_route_add
  BY <1>3, EarlyAddEffect, Zenon DEF RemovedQueued, Re, Queued
<1>4. CASE process_subq_early_route_delete
  BY <1>4, EarlyDeleteEffect, Zenon DEF RemovedQueued, Re, Queued
<1>5. CASE rib_process
  <2>1. qindex' = MQ_SIZE
    BY <1>5, Zenon DEF rib_process
  <2>2. \A i \in DOMAIN routes' : ~routes'[i].removed
    BY <1>5, RibProcessEffect, Zenon
  <2> QED BY <2>1, <2>2 DEF RemovedQueued, Re, Queued, MQ_SIZE
<1>6. CASE rib_process_result
  <2>1. qindex' = qindex
    BY <1>6, Zenon DEF rib_process_result
  <2> QED BY <1>6, <2>1, ResultEffect, Zenon DEF RemovedQueued, Re, Queued
<1> QED BY <1>1, <1>2, <1>3, <1>4, <1>5, <1>6, NodeUntouched, Zenon
        DEF Next, Input, MainThread

\* No REMOVED entry is forgotten: it stays in a node that is queued, and a queued
\* node has entries, which process_subq_route asserts.
THEOREM RibRemovedQueued == Spec => []RemovedQueued
<1>1. Init => TypeInv /\ RemovedQueued
  BY InitTypeInv DEF Init, RemovedQueued, Re, Queued, MQ_SIZE
<1>2. TypeInv /\ RemovedQueued /\ [Next]_vars => TypeInv' /\ RemovedQueued'
  BY TypeInvStep, RemovedQueuedStep, Zenon
<1> QED BY <1>1, <1>2, PTL DEF Spec

-----------------------------------------------------------------------------
(* The sequence number as an identity. *)

\* Numbers are handed out in increasing order, zero is never one.
SeqBound ==
  /\ \A i \in Re : routes[i].seq <= seq
  /\ \A c \in InFlight : c.seq # 0 /\ c.seq <= seq /\ c.old_seq <= seq

SeqInv == SeqBound /\ SequenceIdentity /\ QueuedInFlight

\* Appending to and consuming the results queue.
LEMMA AnsweredAppend ==
  ASSUME NEW q \in Seq(Result), NEW x \in Result
  PROVE  Answered(Append(q, x)) =
           Answered(q) \cup (IF x.kind = "result" THEN {x.ctx} ELSE {})
BY ContentsAppend DEF Answered

LEMMA AnsweredTail ==
  ASSUME NEW q \in Seq(Result), q # << >>
  PROVE  Answered(q) =
           Answered(Tail(q)) \cup (IF Head(q).kind = "result" THEN {Head(q).ctx} ELSE {})
BY ContentsTail, Zenon DEF Answered

\* A step that hands nothing to the dataplane, keeps what is in flight and keeps
\* or unlinks entries, or links one that was never handed over.
LEMMA SeqInvKept ==
  ASSUME TypeInv, SeqInv, seq' = seq, InFlight' = InFlight, NEW new, new \notin Re,
         DOMAIN routes' \subseteq Re \cup {new},
         new \in DOMAIN routes' => routes'[new].seq = 0 /\ ~routes'[new].queued,
         \A i \in DOMAIN routes' \ {new} :
            /\ routes'[i].adv = routes[i].adv
            /\ routes'[i].seq = routes[i].seq
            /\ routes'[i].queued => routes[i].queued
  PROVE  SeqInv'
<1>1. SeqBound'
  <2>1. seq \in Nat
    BY Zenon DEF TypeInv, TypeOK
  <2>2. \A i \in DOMAIN routes' : routes'[i].seq <= seq
    BY <2>1 DEF SeqInv, SeqBound
  <2>3. \A c \in InFlight : c.seq # 0 /\ c.seq <= seq /\ c.old_seq <= seq
    BY Zenon DEF SeqInv, SeqBound
  <2> QED BY <2>2, <2>3, Zenon DEF SeqBound, Re
<1>2. SequenceIdentity'
  <2>1. \A i \in DOMAIN routes' : i # new => i \in Re
    OBVIOUS
  <2>2. \A i, j \in DOMAIN routes' : routes'[i].seq = routes'[j].seq /\ i # j
                                       => routes'[i].seq = 0
    BY <2>1 DEF SeqInv, SequenceIdentity
  <2>3. \A c \in InFlight : c.seq # c.old_seq
    BY Zenon DEF SeqInv, SequenceIdentity
  <2>4. \A c \in InFlight, i \in DOMAIN routes' :
          /\ routes'[i].seq = c.seq =>
               routes'[i].adv.type = c.type /\ routes'[i].adv.nh = c.nh
          /\ routes'[i].seq = c.old_seq /\ c.old_seq # 0
               => routes'[i].adv.type = c.old_type
    BY <2>1 DEF SeqInv, SequenceIdentity, SeqBound, TypeOf
  <2> QED BY <2>2, <2>3, <2>4, Zenon DEF SequenceIdentity, Re, TypeOf
<1>3. QueuedInFlight'
  <2>1. \A i \in DOMAIN routes' : routes'[i].queued =>
          \E c \in InFlight : routes'[i].seq \in {c.seq, c.old_seq} /\ routes'[i].seq # 0
    BY Zenon DEF SeqInv, QueuedInFlight
  <2> QED BY <2>1, Zenon DEF QueuedInFlight, Re
<1> QED BY <1>1, <1>2, <1>3, Zenon DEF SeqInv

\* What a call to the dataplane does to the numbers: refused, it changes nothing;
\* otherwise the context is stamped with fresh ones.
Refused(rts) ==
  UNCHANGED <<dg_update_list, seq>> /\ \A i \in DOMAIN routes' : routes'[i] = rts[i]

Stamped(rts, op, new, old, c) ==
  /\ dg_update_list' = Append(dg_update_list, c)
  /\ c \in Ctx /\ c.seq = seq + 1
  /\ c.type = rts[new].adv.type /\ c.nh = rts[new].adv.nh
  /\ IF op = "UPDATE" /\ old # new
     THEN /\ seq' = seq + 2 /\ c.old_seq = seq + 2
          /\ c.old_type = rts[old].adv.type
     ELSE seq' = seq + 1 /\ c.old_seq = 0
  /\ \A i \in DOMAIN routes' :
       IF i = new THEN routes'[i].seq = seq + 1
       ELSE IF i = old /\ op = "UPDATE" THEN routes'[i].seq = seq + 2
       ELSE routes'[i] = rts[i]

LEMMA EnqueueSeq ==
  ASSUME seq \in Nat, dg_update_list \in Seq(Ctx),
         NEW rts, \A i \in DOMAIN rts : rts[i] \in Entry,
         NEW op \in DPLANE_OPS, NEW new \in DOMAIN rts, NEW old,
         op = "UPDATE" => old \in DOMAIN rts,
         NEW gone, Enqueue(rts, op, new, old, gone)
  PROVE  /\ DOMAIN routes' = DOMAIN rts \ gone
         /\ \A i \in DOMAIN routes' : routes'[i].adv = rts[i].adv
         /\ Refused(rts) \/ Stamped(rts, op, new, old, MkCtx(rts, op, new, old))
<1> DEFINE c == MkCtx(rts, op, new, old)
<1>1. CASE routes' = Drop(rts, gone) /\ UNCHANGED <<dg_update_list, seq>>
  BY <1>1, Zenon DEF Drop, Refused
<1>2. CASE /\ dg_update_list' = Append(dg_update_list, c)
           /\ seq' = seq + IF op = "UPDATE" /\ old # new THEN 2 ELSE 1
           /\ routes' = Drop(Stamp(rts, op, new, old), gone)
  <2>1. c \in Ctx
    BY MkCtxType, Zenon
  <2>2. /\ c.seq = seq + 1 /\ c.type = rts[new].adv.type /\ c.nh = rts[new].adv.nh
        /\ c.old_seq = IF op = "UPDATE" /\ old # new THEN seq + 2 ELSE 0
        /\ op = "UPDATE" => c.old_type = rts[old].adv.type
    BY Zenon DEF MkCtx
  <2>3. /\ DOMAIN routes' = DOMAIN rts \ gone
        /\ \A i \in DOMAIN routes' : routes'[i] = Stamp(rts, op, new, old)[i]
    BY <1>2, Zenon DEF Drop, Stamp
  <2>4. \A i \in DOMAIN rts :
          LET e == Stamp(rts, op, new, old)[i]
          IN /\ e.adv = rts[i].adv
             /\ IF i = new THEN e.seq = seq + 1
                ELSE IF i = old /\ op = "UPDATE" THEN e.seq = seq + 2
                ELSE e = rts[i]
    BY Zenon DEF Stamp, Entry
  <2> HIDE DEF c
  <2>5. IF op = "UPDATE" /\ old # new
        THEN /\ seq' = seq + 2 /\ c.old_seq = seq + 2
             /\ c.old_type = rts[old].adv.type
        ELSE seq' = seq + 1 /\ c.old_seq = 0
    BY <1>2, <2>2, Zenon
  <2> QED BY <1>2, <2>1, <2>2, <2>3, <2>4, <2>5, Zenon DEF c, Stamped
<1> QED BY <1>1, <1>2, Zenon DEF Enqueue

LEMMA InFlightCtx ==
  ASSUME TypeInv
  PROVE  \A c \in InFlight : c \in Ctx /\ c.seq \in Nat /\ c.old_seq \in Nat
<1>1. \A q \in Seq(Ctx) : \A c \in Contents(q) : c \in Ctx
  BY DEF Contents
<1>2. \A q \in Seq(Result) : \A x \in Contents(q) : x \in Result
  BY DEF Contents
<1>3. \A x \in Result : x.kind = "result" => x.ctx \in Ctx
  BY Zenon DEF Result
<1>4. \A c \in Ctx : c.seq \in Nat /\ c.old_seq \in Nat
  BY Zenon DEF Ctx
<1>5. \A c \in Answered(rib_dplane_q) : c \in Ctx
  BY <1>2, <1>3, Zenon DEF Answered, TypeInv, TypeOK
<1> QED BY <1>1, <1>4, <1>5, Zenon DEF InFlight, TypeInv, TypeOK

\* A step that hands an entry of the node to the dataplane.
LEMMA SeqInvEnqueue ==
  ASSUME TypeInv, SeqInv, NEW rts, DOMAIN rts = Re,
         \A i \in Re : /\ rts[i] \in Entry
                       /\ rts[i].adv = routes[i].adv
                       /\ rts[i].seq = routes[i].seq
                       /\ rts[i].queued = routes[i].queued,
         NEW op \in DPLANE_OPS, NEW new \in Re, NEW old,
         op = "UPDATE" => old \in Re,
         NEW gone, Enqueue(rts, op, new, old, gone),
         UNCHANGED <<work_list, rib_dplane_q>>
  PROVE  SeqInv'
<1>1. seq \in Nat /\ dg_update_list \in Seq(Ctx) /\ nre + 1 \notin Re
  BY DEF TypeInv, TypeOK
<1> DEFINE c == MkCtx(rts, op, new, old)
<1>0. /\ \A i \in DOMAIN rts : rts[i] \in Entry
      /\ new \in DOMAIN rts /\ (op = "UPDATE" => old \in DOMAIN rts)
  OBVIOUS
<1>2. /\ DOMAIN routes' = Re \ gone
      /\ \A i \in DOMAIN routes' : routes'[i].adv = rts[i].adv
      /\ Refused(rts) \/ Stamped(rts, op, new, old, c)
  BY <1>0, <1>1, EnqueueSeq, Zenon
<1> HIDE DEF c
<1>3. CASE Refused(rts)
  <2>1. InFlight' = InFlight
    BY <1>3, Zenon DEF InFlight, Refused
  <2> QED BY <1>1, <1>2, <1>3, <2>1, SeqInvKept, Zenon DEF Refused
<1>4. CASE Stamped(rts, op, new, old, c)
  <2>1. InFlight' = InFlight \cup {c}
    <3>1. Contents(dg_update_list') = Contents(dg_update_list) \cup {c}
      BY <1>1, <1>4, ContentsAppend DEF Stamped
    <3> QED BY <1>4, <3>1, Zenon DEF InFlight, Stamped
  <2>2. \A d \in InFlight : /\ d.seq \in Nat /\ d.old_seq \in Nat /\ d.seq # 0
                            /\ d.seq <= seq /\ d.old_seq <= seq
    BY InFlightCtx, Zenon DEF SeqInv, SeqBound
  <2>3. \A i \in Re : rts[i].seq \in Nat /\ rts[i].seq <= seq
    BY EntryParts, Zenon DEF SeqInv, SeqBound
  <2>4. DOMAIN routes' \subseteq Re
    BY <1>2, Zenon
  <2>5. /\ seq' \in Nat /\ seq + 1 <= seq' /\ c.seq = seq + 1
        /\ c.old_seq \in {0, seq + 2} /\ c.old_seq <= seq'
        /\ op = "UPDATE" /\ old # new => seq' = seq + 2 /\ c.old_seq = seq + 2
        /\ ~(op = "UPDATE" /\ old # new) => c.old_seq = 0
    BY <1>1, <1>4 DEF Stamped
  <2>6. /\ c.type = rts[new].adv.type /\ c.nh = rts[new].adv.nh
        /\ op = "UPDATE" /\ old # new => c.old_type = rts[old].adv.type
    BY <1>4, Zenon DEF Stamped
  \* The entries by the number they carry now.
  <2> DEFINE IsNew(i) == i = new /\ routes'[i].seq = seq + 1
             IsOld(i) == /\ i # new /\ i = old /\ op = "UPDATE"
                         /\ routes'[i].seq = seq + 2
             IsKept(i) == routes'[i] = rts[i]
  <2>7. \A i \in DOMAIN routes' : IsNew(i) \/ IsOld(i) \/ IsKept(i)
    BY <1>4, Zenon DEF Stamped
  <2>8. \A i \in DOMAIN routes' : IsKept(i) => /\ routes'[i].seq = routes[i].seq
                                               /\ routes'[i].seq \in Nat
                                               /\ routes'[i].seq <= seq
    BY <2>3, <2>4, Zenon
  <2>9. \A i \in DOMAIN routes' : routes'[i].adv = routes[i].adv
    BY <1>2, <2>4, Zenon
  <2>10. SeqBound'
    <3>1. \A i \in DOMAIN routes' : routes'[i].seq <= seq'
      <4> TAKE i \in DOMAIN routes'
      <4>1. CASE IsNew(i)
        BY <1>1, <2>5, <4>1, Zenon
      <4>2. CASE IsOld(i)
        BY <1>1, <2>5, <4>2, Zenon
      <4>3. CASE IsKept(i)
        BY <1>1, <2>5, <2>8, <4>3
      <4> QED BY <2>7, <4>1, <4>2, <4>3, Zenon
    <3>2. \A d \in InFlight : d.seq # 0 /\ d.seq <= seq' /\ d.old_seq <= seq'
      BY <1>1, <2>2, <2>5
    <3>3. c.seq # 0 /\ c.seq <= seq' /\ c.old_seq <= seq'
      BY <1>1, <2>5
    <3> QED BY <2>1, <3>1, <3>2, <3>3, Zenon DEF SeqBound, Re
  <2>11. SequenceIdentity'
    <3>1. ASSUME NEW i \in DOMAIN routes', NEW j \in DOMAIN routes',
                 routes'[i].seq = routes'[j].seq, i # j
          PROVE  routes'[i].seq = 0
      <4>1. CASE IsKept(i) /\ IsKept(j)
        <5>1. routes[i].seq = routes[j].seq /\ i \in Re /\ j \in Re
          BY <2>4, <2>8, <3>1, <4>1, Zenon
        <5>2. routes[i].seq = 0
          BY <3>1, <5>1, Zenon DEF SeqInv, SequenceIdentity
        <5> QED BY <2>8, <4>1, <5>2, Zenon
      <4>2. CASE (IsNew(i) \/ IsOld(i)) /\ IsKept(j)
        BY <1>1, <2>8, <3>1, <4>2
      <4>3. CASE IsKept(i) /\ (IsNew(j) \/ IsOld(j))
        BY <1>1, <2>8, <3>1, <4>3
      <4>4. CASE (IsNew(i) \/ IsOld(i)) /\ (IsNew(j) \/ IsOld(j))
        BY <1>1, <3>1, <4>4
      <4> QED BY <2>7, <4>1, <4>2, <4>3, <4>4, Zenon
    <3>2. \A d \in InFlight \cup {c} : d.seq # d.old_seq
      <4>1. c.seq # c.old_seq
        BY <1>1, <2>5
      <4> QED BY <4>1, Zenon DEF SeqInv, SequenceIdentity
    <3>3. ASSUME NEW d \in InFlight, NEW i \in DOMAIN routes'
          PROVE  /\ routes'[i].seq = d.seq =>
                      routes'[i].adv.type = d.type /\ routes'[i].adv.nh = d.nh
                 /\ routes'[i].seq = d.old_seq /\ d.old_seq # 0
                      => routes'[i].adv.type = d.old_type
      <4>1. CASE IsNew(i) \/ IsOld(i)
        <5>1. routes'[i].seq # d.seq /\ routes'[i].seq # d.old_seq
          BY <1>1, <2>2, <4>1
        <5> QED BY <5>1, Zenon
      <4>2. CASE IsKept(i)
        <5>1. i \in Re /\ routes'[i].seq = routes[i].seq
              /\ routes'[i].adv = routes[i].adv
          BY <2>4, <2>8, <2>9, <4>2, Zenon
        <5>2. /\ routes[i].seq = d.seq =>
                   routes[i].adv.type = d.type /\ routes[i].adv.nh = d.nh
              /\ routes[i].seq = d.old_seq /\ d.old_seq # 0
                   => routes[i].adv.type = d.old_type
          BY <5>1, Zenon DEF SeqInv, SequenceIdentity, TypeOf
        <5> HIDE DEF IsKept
        <5> QED BY <5>1, <5>2, Zenon
      <4> QED BY <2>7, <4>1, <4>2, Zenon
    <3>4. ASSUME NEW i \in DOMAIN routes'
          PROVE  /\ routes'[i].seq = c.seq =>
                      routes'[i].adv.type = c.type /\ routes'[i].adv.nh = c.nh
                 /\ routes'[i].seq = c.old_seq /\ c.old_seq # 0
                      => routes'[i].adv.type = c.old_type
      <4>0. i \in Re /\ routes'[i].adv = rts[i].adv
        BY <1>2, <2>4, Zenon
      <4>1. CASE IsNew(i)
        <5>1. routes'[i].seq # c.old_seq \/ c.old_seq = 0
          BY <1>1, <2>5, <4>1
        <5> QED BY <2>6, <4>0, <4>1, <5>1, Zenon
      <4>2. CASE IsOld(i)
        <5>1. routes'[i].seq # c.seq
          BY <1>1, <2>5, <4>2
        <5> QED BY <2>6, <4>0, <4>2, <5>1, Zenon
      <4>3. CASE IsKept(i)
        <5>1. routes'[i].seq # c.seq /\ (routes'[i].seq # c.old_seq \/ c.old_seq = 0)
          BY <1>1, <2>5, <2>8, <4>3
        <5> QED BY <5>1, Zenon
      <4> QED BY <2>7, <4>1, <4>2, <4>3, Zenon
    <3> HIDE DEF IsNew, IsOld, IsKept
    <3>5. \A d \in InFlight', i \in DOMAIN routes' :
            /\ routes'[i].seq = d.seq =>
                 routes'[i].adv.type = d.type /\ routes'[i].adv.nh = d.nh
            /\ routes'[i].seq = d.old_seq /\ d.old_seq # 0
                 => routes'[i].adv.type = d.old_type
      BY <2>1, <3>3, <3>4
    <3>6. \A i, j \in DOMAIN routes' : routes'[i].seq = routes'[j].seq /\ i # j
                                         => routes'[i].seq = 0
      BY <3>1, Zenon
    <3> QED BY <2>1, <3>2, <3>5, <3>6, Zenon DEF SequenceIdentity, Re, TypeOf
  <2>12. QueuedInFlight'
    <3> SUFFICES ASSUME NEW i \in DOMAIN routes', routes'[i].queued
                 PROVE  \E d \in InFlight \cup {c} :
                          routes'[i].seq \in {d.seq, d.old_seq} /\ routes'[i].seq # 0
      BY <2>1, Zenon DEF QueuedInFlight, Re
    <3>1. CASE IsNew(i)
      <4>1. routes'[i].seq = c.seq /\ routes'[i].seq # 0
        BY <1>1, <2>5, <3>1
      <4> QED BY <4>1, Zenon
    <3>2. CASE IsOld(i)
      <4>1. routes'[i].seq = c.old_seq /\ routes'[i].seq # 0
        BY <1>1, <2>5, <3>2
      <4> QED BY <4>1, Zenon
    <3>3. CASE IsKept(i)
      <4>1. i \in Re /\ routes[i].queued /\ routes'[i].seq = routes[i].seq
        BY <2>4, <2>8, <3>3, Zenon
      <4>2. \E d \in InFlight : routes[i].seq \in {d.seq, d.old_seq} /\ routes[i].seq # 0
        BY <4>1, Zenon DEF SeqInv, QueuedInFlight
      <4> HIDE DEF IsKept
      <4> QED BY <4>1, <4>2, Zenon
    <3> QED BY <2>7, <3>1, <3>2, <3>3, Zenon
  <2> QED BY <2>10, <2>11, <2>12, Zenon DEF SeqInv
<1> QED BY <1>2, <1>3, <1>4, Zenon

\* rib_process: the entry it hands over is one of the node, as it was.
LEMMA SeqInvRibProcess ==
  ASSUME TypeInv, SeqInv, rib_process
  PROVE  SeqInv'
<1>1. /\ DOMAIN Examined = Re
      /\ \A i \in Re : /\ Examined[i] \in Entry
                       /\ Examined[i].adv = routes[i].adv
                       /\ Examined[i].seq = routes[i].seq
                       /\ Examined[i].queued = routes[i].queued
  <2>1. DOMAIN Examined = Re
    BY Zenon DEF Examined
  <2> SUFFICES ASSUME NEW i \in Re
               PROVE  /\ Examined[i] \in Entry
                      /\ Examined[i].adv = routes[i].adv
                      /\ Examined[i].seq = routes[i].seq
                      /\ Examined[i].queued = routes[i].queued
    BY <2>1, Zenon
  <2>0. routes[i] \in Entry /\ permit \in [Types -> BOOLEAN]
    BY Zenon DEF TypeInv, TypeOK
  <2>2. CASE ~(~routes[i].removed /\ routes[i].changed)
    BY <2>0, <2>2, Zenon DEF Examined
  <2>3. CASE ~routes[i].removed /\ routes[i].changed
    <3> DEFINE act == permit[routes[i].adv.type]
               c == (act # routes[i].active)
               d == [routes[i] EXCEPT !.active = act, !.changed = c]
    <3>1. Examined[i] = d
      BY <2>3, Zenon DEF Examined, nexthop_active_update
    <3>2. act \in BOOLEAN /\ c \in BOOLEAN
      BY <2>0, EntryParts, Zenon
    <3> HIDE DEF act, c
    <3>3. /\ d \in Entry /\ d.adv = routes[i].adv /\ d.seq = routes[i].seq
          /\ d.queued = routes[i].queued
      BY <2>0, <3>2, Zenon DEF Entry
    <3> HIDE DEF d
    <3> QED BY <3>1, <3>3, Zenon
  <2> QED BY <2>2, <2>3, Zenon
<1>2. PICK new_selected \in Re \cup {NULL}, over \in Re \cup {NULL} :
         UpdateFib(Examined, new_selected, NewFib(new_selected, over))
  BY Zenon DEF rib_process
<1> DEFINE chosen == Chosen(Examined, new_selected)
           new_fib == NewFib(new_selected, over)
           gone == Removed(Examined)
<1>3. /\ DOMAIN chosen = Re
      /\ \A i \in Re : /\ chosen[i] \in Entry
                       /\ chosen[i].adv = routes[i].adv
                       /\ chosen[i].seq = routes[i].seq
                       /\ chosen[i].queued = routes[i].queued
  <2>1. DOMAIN chosen = Re
    BY <1>1, Zenon DEF Chosen
  <2> SUFFICES ASSUME NEW i \in Re
               PROVE  /\ chosen[i] \in Entry
                      /\ chosen[i].adv = routes[i].adv
                      /\ chosen[i].seq = routes[i].seq
                      /\ chosen[i].queued = routes[i].queued
    BY <2>1, Zenon
  <2> DEFINE b == Selected(Examined, new_selected, i)
             e == Examined[i]
             c == e.changed /\ ~e.active /\ i # selected_fib
             d == [e EXCEPT !.selected = b, !.changed = c]
  <2>2. chosen[i] = d
    BY <1>1, Zenon DEF Chosen
  <2>3. b \in BOOLEAN /\ c \in BOOLEAN
    BY DEF Selected
  <2>4. /\ e \in Entry /\ e.adv = routes[i].adv /\ e.seq = routes[i].seq
        /\ e.queued = routes[i].queued
    BY <1>1, Zenon
  <2> HIDE DEF b, c, chosen, e
  <2>5. d \in Entry /\ d.adv = e.adv /\ d.seq = e.seq /\ d.queued = e.queued
    BY <2>3, <2>4, Zenon DEF Entry
  <2> HIDE DEF d
  <2> QED BY <2>2, <2>4, <2>5, Zenon
<1>4. new_fib # NULL => new_fib \in Re
  BY Zenon DEF NewFib
<1>5. selected_fib # NULL => selected_fib \in Re
  BY Zenon DEF TypeInv, SelectedFibLinked
<1>6. UNCHANGED <<work_list, rib_dplane_q>>
  BY Zenon DEF rib_process
<1>7. nre + 1 \notin Re
  BY DEF TypeInv, TypeOK
<1> HIDE DEF chosen
<1>8. ASSUME NEW op \in DPLANE_OPS, NEW new \in Re, NEW old,
             op = "UPDATE" => old \in Re, Enqueue(chosen, op, new, old, gone)
      PROVE  SeqInv'
  BY <1>3, <1>6, <1>8, SeqInvEnqueue, Zenon
<1>9. ASSUME routes' = Drop(chosen, gone), UNCHANGED <<dg_update_list, seq>>
      PROVE  SeqInv'
  <2>1. InFlight' = InFlight
    BY <1>6, <1>9, Zenon DEF InFlight
  <2>2. /\ DOMAIN routes' \subseteq Re
        /\ \A i \in DOMAIN routes' : /\ routes'[i].adv = routes[i].adv
                                     /\ routes'[i].seq = routes[i].seq
                                     /\ routes'[i].queued = routes[i].queued
    BY <1>3, <1>9, Zenon DEF Drop
  <2> QED BY <1>7, <1>9, <2>1, <2>2, SeqInvKept, Zenon
<1>10. \/ /\ new_fib # NULL
          /\ \/ Enqueue(chosen, "INSTALL", new_fib, NULL, gone)
             \/ /\ selected_fib # NULL
                /\ Enqueue(chosen, "UPDATE", new_fib, selected_fib, gone)
       \/ selected_fib # NULL /\ Enqueue(chosen, "DELETE", selected_fib, NULL, gone)
       \/ routes' = Drop(chosen, gone) /\ UNCHANGED <<dg_update_list, seq>>
  BY <1>2, Zenon DEF UpdateFib, chosen
<1> HIDE DEF new_fib, gone
<1>11. DPLANE_OPS = {"INSTALL", "UPDATE", "DELETE"}
  BY Zenon DEF DPLANE_OPS
<1> QED BY <1>4, <1>5, <1>8, <1>9, <1>10, <1>11, Zenon

\* A withdrawal hands nothing over; a reinstallation hands over one entry.
LEMMA SeqInvEarlyDelete ==
  ASSUME TypeInv, SeqInv, process_subq_early_route_delete
  PROVE  SeqInv'
<1>1. UNCHANGED <<work_list, rib_dplane_q>>
  BY Zenon DEF process_subq_early_route_delete
<1>2. nre + 1 \notin Re /\ \A i \in Re : routes[i] \in Entry
  BY DEF TypeInv, TypeOK
<1>3. \A rts : /\ DOMAIN rts = Re
               /\ \A i \in Re : /\ rts[i].adv = routes[i].adv
                                /\ rts[i].seq = routes[i].seq
                                /\ rts[i].queued = routes[i].queued
               /\ routes' = rts /\ UNCHANGED <<dg_update_list, seq>>
               => SeqInv'
  <2> SUFFICES ASSUME NEW rts, DOMAIN rts = Re,
                      \A i \in Re : /\ rts[i].adv = routes[i].adv
                                    /\ rts[i].seq = routes[i].seq
                                    /\ rts[i].queued = routes[i].queued,
                      routes' = rts, UNCHANGED <<dg_update_list, seq>>
               PROVE  SeqInv'
    OBVIOUS
  <2>1. InFlight' = InFlight
    BY <1>1, Zenon DEF InFlight
  <2>2. /\ DOMAIN routes' \subseteq Re
        /\ \A i \in DOMAIN routes' : /\ routes'[i].adv = routes[i].adv
                                     /\ routes'[i].seq = routes[i].seq
                                     /\ routes'[i].queued = routes[i].queued
    OBVIOUS
  <2> QED BY <1>2, <2>1, <2>2, SeqInvKept, Zenon
<1>4. ASSUME NEW k \in Re
      PROVE  LET rts == [routes EXCEPT ![k].installed = FALSE]
             IN /\ DOMAIN rts = Re
                /\ \A i \in Re : /\ rts[i] \in Entry
                                 /\ rts[i].adv = routes[i].adv
                                 /\ rts[i].seq = routes[i].seq
                                 /\ rts[i].queued = routes[i].queued
  BY <1>2, Zenon DEF Entry, Re
<1>5. ASSUME NEW k \in Re, Delnode(k) PROVE SeqInv'
  <2>1. /\ routes' = [routes EXCEPT ![k].removed = TRUE]
        /\ UNCHANGED <<dg_update_list, seq>>
    BY <1>5, Zenon DEF Delnode
  <2>2. LET rts == [routes EXCEPT ![k].removed = TRUE]
        IN /\ DOMAIN rts = Re
           /\ \A i \in Re : /\ rts[i].adv = routes[i].adv
                            /\ rts[i].seq = routes[i].seq
                            /\ rts[i].queued = routes[i].queued
    BY <1>2, Zenon DEF Entry, Re
  <2> QED BY <1>3, <2>1, <2>2, Zenon
<1>6. ASSUME NEW k \in Re, Reinstall(k) PROVE SeqInv'
  <2> DEFINE rts == [routes EXCEPT ![k].installed = FALSE]
  <2>1. Enqueue(rts, "INSTALL", k, NULL, {})
    BY <1>6, Zenon DEF Reinstall
  <2>2. /\ DOMAIN rts = Re
        /\ \A i \in Re : /\ rts[i] \in Entry
                         /\ rts[i].adv = routes[i].adv
                         /\ rts[i].seq = routes[i].seq
                         /\ rts[i].queued = routes[i].queued
    BY <1>4, Zenon
  <2>3. "INSTALL" \in DPLANE_OPS /\ "INSTALL" # "UPDATE"
    BY Zenon DEF DPLANE_OPS
  <2> HIDE DEF rts
  <2> QED BY <1>1, <2>1, <2>2, <2>3, SeqInvEnqueue, Zenon
<1>7. ASSUME selected_fib \in Re,
             routes' = [routes EXCEPT ![selected_fib].installed = FALSE],
             UNCHANGED <<dg_update_list, seq>>
      PROVE  SeqInv'
  <2> DEFINE rts == [routes EXCEPT ![selected_fib].installed = FALSE]
  <2>1. /\ DOMAIN rts = Re
        /\ \A i \in Re : /\ rts[i].adv = routes[i].adv
                         /\ rts[i].seq = routes[i].seq
                         /\ rts[i].queued = routes[i].queued
    BY <1>4, <1>7, Zenon
  <2>2. routes' = rts
    BY <1>7, Zenon
  <2> HIDE DEF rts
  <2> QED BY <1>3, <1>7, <2>1, <2>2, Zenon
<1>8. ASSUME UNCHANGED <<routes, dg_update_list, seq>>
      PROVE  SeqInv'
  BY <1>3, <1>8, Zenon DEF Re
<1>9. Deleted(Head(early)) # NULL => Deleted(Head(early)) \in Re
  BY FirstMember, Zenon DEF Deleted, TypeInv, TypeOK
<1>10. selected_fib # NULL => selected_fib \in Re
  BY Zenon DEF TypeInv, SelectedFibLinked
<1> QED BY <1>5, <1>6, <1>7, <1>8, <1>9, <1>10, Zenon DEF process_subq_early_route_delete

\* The dataplane pthread moves contexts along; it drops and invents none.
LEMMA InFlightDplane ==
  ASSUME TypeInv, DplaneThread
  PROVE  InFlight' = InFlight
<1>0. /\ dg_update_list \in Seq(Ctx) /\ work_list \in Seq(Ctx)
      /\ rib_dplane_q \in Seq(Result) /\ nlq \in Seq(Types)
  BY Zenon DEF TypeInv, TypeOK
<1>1. CASE kernel_dplane_process_func
  <2> DEFINE ctx == Head(dg_update_list)
             r == [kind |-> "result", ctx |-> ctx, success |-> TRUE]
  <2>1. dg_update_list # << >> /\ dg_update_list' = Tail(dg_update_list)
    BY <1>1, Zenon DEF kernel_dplane_process_func
  <2>2. ctx \in Ctx
    BY <1>0, <2>1
  <2>3. r \in Result /\ r.kind = "result" /\ r.ctx = ctx
    BY <2>2, Zenon DEF Result
  <2>4. Contents(dg_update_list) = Contents(dg_update_list') \cup {ctx}
    BY <1>0, <2>1, ContentsTail, Zenon
  <2>5. \/ rib_dplane_q' = Append(rib_dplane_q, r) /\ UNCHANGED work_list
        \/ work_list' = Append(work_list, ctx) /\ UNCHANGED rib_dplane_q
    BY <1>1, Zenon DEF kernel_dplane_process_func
  <2> HIDE DEF r, ctx
  <2>6. Answered(Append(rib_dplane_q, r)) = Answered(rib_dplane_q) \cup {ctx}
    BY <1>0, <2>3, AnsweredAppend, Zenon
  <2>7. Contents(Append(work_list, ctx)) = Contents(work_list) \cup {ctx}
    BY <1>0, <2>2, ContentsAppend
  <2> QED BY <2>4, <2>5, <2>6, <2>7, Zenon DEF InFlight
<1>2. CASE kernel_update_multi
  <2> DEFINE ctx == Head(work_list)
             r(ok) == [kind |-> "result", ctx |-> ctx, success |-> ok]
  <2>1. work_list # << >> /\ work_list' = Tail(work_list) /\ UNCHANGED dg_update_list
    BY <1>2, Zenon DEF kernel_update_multi
  <2>2. ctx \in Ctx
    BY <1>0, <2>1
  <2>3. \A ok \in BOOLEAN : r(ok) \in Result /\ r(ok).kind = "result" /\ r(ok).ctx = ctx
    BY <2>2, Zenon DEF Result
  <2>4. Contents(work_list) = Contents(work_list') \cup {ctx}
    BY <1>0, <2>1, ContentsTail, Zenon
  <2>5. PICK ok \in BOOLEAN : rib_dplane_q' = Append(rib_dplane_q, r(ok))
    BY <1>2, Zenon DEF kernel_update_multi
  <2> HIDE DEF r, ctx
  <2>6. Answered(rib_dplane_q') = Answered(rib_dplane_q) \cup {ctx}
    BY <1>0, <2>3, <2>5, AnsweredAppend, Zenon
  <2> QED BY <2>1, <2>4, <2>6, Zenon DEF InFlight
<1>3. CASE dplane_incoming_read
  <2> DEFINE r == [kind |-> "lost", type |-> Head(nlq)]
  <2>1. /\ nlq # << >> /\ rib_dplane_q' = Append(rib_dplane_q, r)
        /\ UNCHANGED <<dg_update_list, work_list>>
    BY <1>3, Zenon DEF dplane_incoming_read
  <2>2. r \in Result /\ r.kind # "result"
    BY <1>0, <2>1 DEF Result
  <2> HIDE DEF r
  <2>3. Answered(rib_dplane_q') = Answered(rib_dplane_q)
    BY <1>0, <2>1, <2>2, AnsweredAppend, Zenon
  <2> QED BY <2>1, <2>3, Zenon DEF InFlight
<1> QED BY <1>1, <1>2, <1>3, Zenon DEF DplaneThread

\* A result takes its context out of flight, and QUEUED off the entries it names.
LEMMA SeqInvResult ==
  ASSUME TypeInv, SeqInv, rib_process_result
  PROVE  SeqInv'
<1> DEFINE ctx == Head(rib_dplane_q).ctx
           re  == ResultRe
           old_re == ResultOldRe
<1>0. /\ rib_dplane_q \in Seq(Result) /\ Re \subseteq 1..nre /\ nre \in Nat
      /\ \A i \in Re : routes[i] \in Entry
  BY Zenon DEF TypeInv, TypeOK
<1>1. /\ rib_dplane_q # << >> /\ Head(rib_dplane_q).kind = "result"
      /\ rib_dplane_q' = Tail(rib_dplane_q)
      /\ UNCHANGED <<dg_update_list, work_list, seq>>
  BY Zenon DEF rib_process_result
<1>2. InFlight = InFlight' \cup {ctx}
  <2>1. Answered(rib_dplane_q) = Answered(rib_dplane_q') \cup {ctx}
    BY <1>0, <1>1, AnsweredTail, Zenon
  <2> QED BY <1>1, <2>1, Zenon DEF InFlight
<1>3. /\ DOMAIN routes' = Re
      /\ \A i \in Re : /\ routes'[i].adv = routes[i].adv
                       /\ routes'[i].seq = routes[i].seq
                       /\ routes'[i].queued => routes[i].queued
  BY ResultEffect, Zenon
<1>4. \A i \in {re, old_re} \cap Re : ~routes'[i].queued
  BY ResultEffect, Zenon
<1>6. ASSUME NEW i \in Re, routes[i].seq # 0,
             routes[i].seq \in {ctx.seq, ctx.old_seq}
      PROVE  i \in {re, old_re}
  <2>1. ASSUME NEW n, n = routes[i].seq
        PROVE  First({j \in Re : routes[j].seq = n}) = i
    <3>1. {j \in Re : routes[j].seq = n} = {i}
      BY <1>6, <2>1, Zenon DEF SeqInv, SequenceIdentity
    <3> QED BY <3>1 DEF First
  <2> HIDE DEF ctx
  <2> QED BY <1>6, <2>1, Zenon DEF ResultRe, ResultOldRe, ctx
<1> HIDE DEF re, old_re, ctx
<1>7. ASSUME NEW i \in Re, routes'[i].queued
      PROVE  i \notin {re, old_re}
  BY <1>4, <1>7, Zenon
<1>8. SeqBound'
  BY <1>1, <1>2, <1>3, Zenon DEF SeqInv, SeqBound, Re
<1>9. SequenceIdentity'
  BY <1>2, <1>3 DEF SeqInv, SequenceIdentity, Re, TypeOf
<1>10. QueuedInFlight'
  <2> SUFFICES ASSUME NEW i \in Re, routes'[i].queued
               PROVE  \E c \in InFlight' :
                        routes'[i].seq \in {c.seq, c.old_seq} /\ routes'[i].seq # 0
    BY <1>3, Zenon DEF QueuedInFlight, Re
  <2>1. PICK c \in InFlight : routes[i].seq \in {c.seq, c.old_seq} /\ routes[i].seq # 0
    BY <1>3, Zenon DEF SeqInv, QueuedInFlight
  <2>2. c # ctx
    BY <1>6, <1>7, <2>1, Zenon
  <2> QED BY <1>2, <1>3, <2>1, <2>2, Zenon
<1> QED BY <1>8, <1>9, <1>10, Zenon DEF SeqInv

LEMMA SeqInvInit == Init => SeqInv
<1> SUFFICES ASSUME Init PROVE SeqInv
  OBVIOUS
<1>1. InFlight = {} /\ Re = {}
  BY DEF Init, InFlight, Contents, Answered, Re
<1> QED BY <1>1, Zenon DEF SeqInv, SeqBound, SequenceIdentity, QueuedInFlight

\* Every step keeps the numbering.
LEMMA SeqInvStep ==
  ASSUME TypeInv, SeqInv, [Next]_vars
  PROVE  SeqInv'
<1>1. /\ rib_dplane_q \in Seq(Result) /\ nre + 1 \notin Re
      /\ \A i \in Re : routes[i] \in Entry
  <2>1. /\ rib_dplane_q \in Seq(Result) /\ Re \subseteq 1..nre /\ nre \in Nat
        /\ \A i \in Re : routes[i] \in Entry
    BY Zenon DEF TypeInv, TypeOK
  <2>2. nre + 1 \notin 1..nre
    BY <2>1
  <2> QED BY <2>1, <2>2, Zenon
<1>2. ASSUME UNCHANGED <<routes, seq>>, InFlight' = InFlight
      PROVE  SeqInv'
  BY <1>1, <1>2, SeqInvKept, Zenon DEF Re
<1>3. ASSUME NEW a \in Adverts, rib_add_multipath(a) \/ rib_delete(a)
      PROVE  SeqInv'
  BY <1>2, <1>3, Zenon DEF rib_add_multipath, rib_delete, dplane, InFlight
<1>4. ASSUME NEW t \in Types, ip_protocol_rm(t)
      PROVE  SeqInv'
  <2>1. seq' = seq /\ InFlight' = InFlight
    BY <1>4, Zenon DEF ip_protocol_rm, dplane, InFlight
  <2>2. /\ DOMAIN routes' = Re
        /\ \A i \in Re : /\ routes'[i].adv = routes[i].adv
                         /\ routes'[i].seq = routes[i].seq
                         /\ routes'[i].queued = routes[i].queued
    BY <1>1, <1>4 DEF ip_protocol_rm, rib_update_table, Entry, Re
  <2> QED BY <1>1, <2>1, <2>2, SeqInvKept, Zenon
<1>5. CASE KernelRouteLost
  BY <1>2, <1>5, Zenon DEF KernelRouteLost, InFlight
<1>6. CASE DplaneThread
  <2>1. InFlight' = InFlight
    BY <1>6, InFlightDplane, Zenon
  <2>2. UNCHANGED <<routes, seq>>
    BY <1>6, Zenon DEF DplaneThread, kernel_dplane_process_func, kernel_update_multi,
                dplane_incoming_read
  <2> QED BY <1>2, <2>1, <2>2, Zenon
<1>7. CASE rib_process_kernel_route_notif
  <2>1. Answered(rib_dplane_q') = Answered(rib_dplane_q)
    BY <1>1, <1>7, AnsweredTail, Zenon DEF rib_process_kernel_route_notif
  <2> QED BY <1>2, <1>7, <2>1, Zenon DEF rib_process_kernel_route_notif, InFlight
<1>8. CASE process_subq_early_route_add
  <2>1. seq' = seq /\ InFlight' = InFlight
    BY <1>8, Zenon DEF process_subq_early_route_add, dplane, InFlight
  <2> QED BY <1>1, <1>8, <2>1, EarlyAddEffect, SeqInvKept, Zenon
<1>9. CASE process_subq_early_route_delete \/ rib_process \/ rib_process_result
  BY <1>9, SeqInvEarlyDelete, SeqInvRibProcess, SeqInvResult, Zenon
<1>10. CASE UNCHANGED vars
  BY <1>2, <1>10, Zenon DEF vars, InFlight
<1> QED BY <1>3, <1>4, <1>5, <1>6, <1>7, <1>8, <1>9, <1>10, Zenon
        DEF Next, Input, MainThread

\* dplane_sequence identifies an entry: whatever order the results come back in,
\* and whatever was linked, replaced and freed meanwhile, a result in flight finds
\* at most one entry, the one it was issued for.
THEOREM RibSequenceIdentity == Spec => []SequenceIdentity
<1>1. SeqInv => SequenceIdentity
  BY Zenon DEF SeqInv
<1> QED BY <1>1, InitTypeInv, TypeInvStep, SeqInvInit, SeqInvStep, PTL DEF Spec

\* An entry is QUEUED only while a result that will find it is still to come.
THEOREM RibQueuedInFlight == Spec => []QueuedInFlight
<1>1. SeqInv => QueuedInFlight
  BY Zenon DEF SeqInv
<1> QED BY <1>1, InitTypeInv, TypeInvStep, SeqInvInit, SeqInvStep, PTL DEF Spec

-----------------------------------------------------------------------------
(* What the handlers do to the entries. *)

\* Entry d is entry e as far as the selection is concerned.
Same(e, d) == d.adv = e.adv /\ d.active = e.active /\ d.removed = e.removed

\* The selection loop: a live entry marked CHANGED is judged again, and stays
\* CHANGED if the verdict differs; the others are left alone.
LEMMA ExaminedIs ==
  ASSUME TypeInv
  PROVE  /\ DOMAIN Examined = Re
         /\ \A i \in Re :
              /\ Examined[i] \in Entry
              /\ Examined[i].adv = routes[i].adv
              /\ Examined[i].removed = routes[i].removed
              /\ Examined[i].selected = routes[i].selected
              /\ Examined[i].installed = routes[i].installed
              /\ Examined[i].queued = routes[i].queued
              /\ Examined[i].failed = routes[i].failed
              /\ Examined[i].seq = routes[i].seq
              /\ IF ~routes[i].removed /\ routes[i].changed
                 THEN /\ Examined[i].active = permit[TypeOf(i)]
                      /\ Examined[i].changed = (Examined[i].active # routes[i].active)
                 ELSE Examined[i] = routes[i]
<1>1. DOMAIN Examined = Re
  BY Zenon DEF Examined
<1>2. ASSUME NEW i \in Re, routes[i].removed \/ ~routes[i].changed
      PROVE  Examined[i] = routes[i] /\ routes[i] \in Entry
  BY <1>2, Zenon DEF Examined, TypeInv, TypeOK
<1>3. ASSUME NEW i \in Re, ~routes[i].removed, routes[i].changed
      PROVE  /\ Examined[i] \in Entry
             /\ Examined[i].adv = routes[i].adv
             /\ Examined[i].removed = routes[i].removed
             /\ Examined[i].selected = routes[i].selected
             /\ Examined[i].installed = routes[i].installed
             /\ Examined[i].queued = routes[i].queued
             /\ Examined[i].failed = routes[i].failed
             /\ Examined[i].seq = routes[i].seq
             /\ Examined[i].active = permit[TypeOf(i)]
             /\ Examined[i].changed = (Examined[i].active # routes[i].active)
  <2> DEFINE e == routes[i]
             act == permit[TypeOf(i)]
             c == (act # e.active)
             d == [e EXCEPT !.active = act, !.changed = c]
  <2>1. Examined[i] = d
    BY <1>3, Zenon DEF Examined, nexthop_active_update, TypeOf
  <2>2. e \in Entry /\ e.adv.type \in Types /\ permit \in [Types -> BOOLEAN]
    BY EntryParts, Zenon DEF TypeInv, TypeOK
  <2>3. act \in BOOLEAN /\ c \in BOOLEAN
    BY <2>2, Zenon DEF TypeOf
  <2> HIDE DEF e, act, c
  <2>4. /\ d \in Entry /\ d.adv = e.adv /\ d.removed = e.removed
        /\ d.selected = e.selected /\ d.installed = e.installed
        /\ d.queued = e.queued /\ d.failed = e.failed /\ d.seq = e.seq
        /\ d.active = act /\ d.changed = c
    BY <2>2, <2>3, Zenon DEF Entry
  <2> HIDE DEF d
  <2> QED BY <2>1, <2>4, Zenon DEF c, act, e
<1> QED BY <1>1, <1>2, <1>3, Zenon

\* Moving SELECTED leaves the rest but CHANGED alone.
LEMMA ChosenIs ==
  ASSUME NEW rts, \A i \in DOMAIN rts : rts[i] \in Entry, NEW n
  PROVE  /\ DOMAIN Chosen(rts, n) = DOMAIN rts
         /\ \A i \in DOMAIN rts :
              LET d == Chosen(rts, n)[i]
              IN /\ d \in Entry /\ Same(rts[i], d)
                 /\ d.selected = Selected(rts, n, i)
                 /\ d.installed = rts[i].installed
                 /\ d.queued = rts[i].queued
                 /\ d.failed = rts[i].failed
                 /\ d.seq = rts[i].seq
<1>1. DOMAIN Chosen(rts, n) = DOMAIN rts
  BY Zenon DEF Chosen
<1> SUFFICES ASSUME NEW i \in DOMAIN rts
             PROVE  LET d == Chosen(rts, n)[i]
                    IN /\ d \in Entry /\ Same(rts[i], d)
                       /\ d.selected = Selected(rts, n, i)
                       /\ d.installed = rts[i].installed
                       /\ d.queued = rts[i].queued
                       /\ d.failed = rts[i].failed
                       /\ d.seq = rts[i].seq
  BY <1>1, Zenon
<1> DEFINE e == rts[i]
           b == Selected(rts, n, i)
           c == e.changed /\ ~e.active /\ i # selected_fib
           d == [e EXCEPT !.selected = b, !.changed = c]
<1>2. Chosen(rts, n)[i] = d
  BY Zenon DEF Chosen
<1>3. e \in Entry /\ b \in BOOLEAN /\ c \in BOOLEAN
  BY DEF Selected
<1> HIDE DEF e, b, c
<1>4. /\ d \in Entry /\ d.adv = e.adv /\ d.active = e.active
      /\ d.removed = e.removed /\ d.selected = b
      /\ d.installed = e.installed /\ d.queued = e.queued
      /\ d.failed = e.failed /\ d.seq = e.seq
  BY <1>3, Zenon DEF Entry
<1> HIDE DEF d
<1> QED BY <1>2, <1>4, Zenon DEF b, e, Same

\* Stamping leaves all but the sequence number, QUEUED and ROUTE_REPLACING alone.
LEMMA StampIs ==
  ASSUME seq \in Nat, NEW rts, \A i \in DOMAIN rts : rts[i] \in Entry,
         NEW op, NEW new, NEW old
  PROVE  /\ DOMAIN Stamp(rts, op, new, old) = DOMAIN rts
         /\ \A i \in DOMAIN rts :
              LET d == Stamp(rts, op, new, old)[i]
              IN /\ Same(rts[i], d)
                 /\ d.selected = rts[i].selected
                 /\ d.changed = rts[i].changed
                 /\ d.installed = rts[i].installed
                 /\ d.failed = rts[i].failed
                 /\ d.seq = IF i = new THEN seq + 1
                            ELSE IF i = old /\ op = "UPDATE" THEN seq + 2
                            ELSE rts[i].seq
<1>1. DOMAIN Stamp(rts, op, new, old) = DOMAIN rts
  BY Zenon DEF Stamp
<1>2. ASSUME NEW i \in DOMAIN rts, i = new
      PROVE  LET d == Stamp(rts, op, new, old)[i]
             IN /\ Same(rts[i], d)
                /\ d.selected = rts[i].selected
                /\ d.changed = rts[i].changed
                /\ d.installed = rts[i].installed
                /\ d.failed = rts[i].failed
                /\ d.seq = seq + 1
  BY <1>2, Zenon DEF Stamp, Same, Entry
<1>3. ASSUME NEW i \in DOMAIN rts, i # new, i = old, op = "UPDATE"
      PROVE  LET d == Stamp(rts, op, new, old)[i]
             IN /\ Same(rts[i], d)
                /\ d.selected = rts[i].selected
                /\ d.changed = rts[i].changed
                /\ d.installed = rts[i].installed
                /\ d.failed = rts[i].failed
                /\ d.seq = seq + 2
  BY <1>3, Zenon DEF Stamp, Same, Entry
<1>4. ASSUME NEW i \in DOMAIN rts, i # new, ~(i = old /\ op = "UPDATE")
      PROVE  Stamp(rts, op, new, old)[i] = rts[i]
  BY <1>4, Zenon DEF Stamp
<1> QED BY <1>1, <1>2, <1>3, <1>4, Zenon DEF Same

-----------------------------------------------------------------------------
(* What the kernel will hold when the contexts on their way have been served. *)

Kernel == KernelRoute \cup {None}

\* The kernel's table k after context c: an update to the same nexthop group is
\* answered without asking the kernel.
Put(c, k) ==
  LET deleted == IF k # None /\ k.type = c.old_type THEN None ELSE k
  IN IF c.same_nhg THEN k
     ELSE IF c.type \in SystemTypes
     THEN IF c.op = "UPDATE" /\ c.old_type \notin SystemTypes THEN deleted ELSE k
     ELSE IF c.op = "DELETE" THEN deleted
     ELSE [type |-> c.type, nh |-> c.nh]

\* The contexts of queue q, served in order, take the kernel from a to b.
Leads(q, a, b) ==
  \E e \in [0..Len(q) -> Kernel] :
    /\ e[0] = a /\ e[Len(q)] = b
    /\ \A n \in 1..Len(q) : e[n] = Put(q[n], e[n - 1])

LEMMA PutKernel ==
  ASSUME NEW c \in Ctx, NEW k \in Kernel
  PROVE  Put(c, k) \in Kernel
BY Zenon DEF Put, Kernel, KernelRoute, Ctx

LEMMA LeadsNil ==
  ASSUME NEW a, NEW b
  PROVE  Leads(<< >>, a, b) <=> a = b /\ a \in Kernel
<1>1. ASSUME Leads(<< >>, a, b) PROVE a = b /\ a \in Kernel
  BY <1>1 DEF Leads
<1>2. ASSUME a = b, a \in Kernel PROVE Leads(<< >>, a, b)
  <2> DEFINE e == [n \in 0..0 |-> a]
  <2>1. Len(<< >>) = 0 /\ e \in [0..0 -> Kernel] /\ e[0] = a
    BY <1>2
  <2> HIDE DEF e
  <2>2. /\ e \in [0..Len(<< >>) -> Kernel] /\ e[0] = a /\ e[Len(<< >>)] = b
        /\ \A n \in 1..Len(<< >>) : e[n] = Put(<< >>[n], e[n - 1])
    BY <1>2, <2>1
  <2> QED BY <2>2, Zenon DEF Leads
<1> QED BY <1>1, <1>2, Zenon

LEMMA LeadsAppend ==
  ASSUME NEW q \in Seq(Ctx), NEW c \in Ctx, NEW a, NEW b, Leads(q, a, b)
  PROVE  Leads(Append(q, c), a, Put(c, b))
<1>1. PICK e \in [0..Len(q) -> Kernel] :
        /\ e[0] = a /\ e[Len(q)] = b
        /\ \A n \in 1..Len(q) : e[n] = Put(q[n], e[n - 1])
  BY Zenon DEF Leads
<1> DEFINE m == Len(q) + 1
           p == Append(q, c)
           x == Put(c, b)
           f == [n \in 0..m |-> IF n = m THEN x ELSE e[n]]
<1>0. Len(q) \in Nat /\ Len(p) = m /\ p[m] = c /\ \A n \in 1..Len(q) : p[n] = q[n]
  OBVIOUS
<1>2. b \in Kernel
  BY <1>0, <1>1
<1>3. x \in Kernel
  BY <1>2, PutKernel, Zenon
<1> HIDE DEF x, p
<1>4. f \in [0..m -> Kernel]
  BY <1>0, <1>1, <1>3
<1>5. f[0] = a /\ f[m] = x /\ f[Len(q)] = b
  BY <1>0, <1>1
<1>6. \A n \in 0..Len(q) : f[n] = e[n]
  BY <1>0
<1>7. ASSUME NEW n \in 1..m PROVE f[n] = Put(p[n], f[n - 1])
  <2> HIDE DEF f
  <2>1. CASE n = m
    BY <1>0, <1>5, <2>1 DEF x
  <2>2. CASE n # m
    <3>1. n \in 1..Len(q) /\ n \in 0..Len(q) /\ n - 1 \in 0..Len(q)
      BY <1>0, <2>2
    <3> QED BY <1>0, <1>1, <1>6, <3>1, Zenon
  <2> QED BY <2>1, <2>2, Zenon
<1> HIDE DEF f
<1> QED BY <1>0, <1>4, <1>5, <1>7, Zenon DEF Leads, x, p

LEMMA LeadsTail ==
  ASSUME NEW q \in Seq(Ctx), q # << >>, NEW a, NEW b, Leads(q, a, b)
  PROVE  Leads(Tail(q), Put(Head(q), a), b)
<1>1. PICK e \in [0..Len(q) -> Kernel] :
        /\ e[0] = a /\ e[Len(q)] = b
        /\ \A n \in 1..Len(q) : e[n] = Put(q[n], e[n - 1])
  BY Zenon DEF Leads
<1> DEFINE m == Len(q) - 1
           p == Tail(q)
           f == [n \in 0..m |-> e[n + 1]]
<1>0. /\ Len(q) \in Nat /\ m \in Nat /\ Len(p) = m /\ Head(q) = q[1]
      /\ \A n \in 1..m : p[n] = q[n + 1]
  OBVIOUS
<1> HIDE DEF p
<1>2. \A n \in 0..m : n + 1 \in 1..Len(q) /\ n + 1 \in 0..Len(q) /\ f[n] = e[n + 1]
  BY <1>0
<1>3. f \in [0..m -> Kernel]
  BY <1>0, <1>1, <1>2, Zenon
<1> HIDE DEF f
<1>4. f[0] = Put(Head(q), a) /\ f[m] = b
  <2>1. f[0] = e[1] /\ f[m] = e[Len(q)]
    BY <1>0, <1>2
  <2>2. e[1] = Put(q[1], e[1 - 1]) /\ 1 - 1 = 0
    BY <1>0, <1>1
  <2> QED BY <1>0, <1>1, <2>1, <2>2, Zenon
<1>5. ASSUME NEW n \in 1..m PROVE f[n] = Put(p[n], f[n - 1])
  <2>1. n \in 0..m /\ n - 1 \in 0..m /\ (n - 1) + 1 = n /\ n + 1 \in 1..Len(q)
        /\ (n + 1) - 1 = n
    BY <1>0
  <2>2. f[n] = e[n + 1] /\ f[n - 1] = e[n] /\ p[n] = q[n + 1]
    BY <1>0, <1>2, <2>1, Zenon
  <2> QED BY <1>1, <2>1, <2>2, Zenon
<1> QED BY <1>0, <1>3, <1>4, <1>5, Zenon DEF Leads, p

-----------------------------------------------------------------------------
(* Best-path selection. *)

\* What the FIB should hold for the entries rts.
WantedIn(rts, i) ==
  LET usable == Usable(rts)
      over   == {j \in usable : rts[j].adv.override}
  IN IsBest(rts, i, IF over = {} THEN usable ELSE over)

\* The verdict depends on the live entries only, and on what Same compares.
LEMMA WantedSame ==
  ASSUME NEW r, NEW s, DOMAIN s \subseteq DOMAIN r,
         \A i \in DOMAIN r \ DOMAIN s : r[i].removed,
         \A i \in DOMAIN s : Same(r[i], s[i])
  PROVE  /\ Usable(s) = Usable(r)
         /\ \A i : WantedIn(s, i) <=> WantedIn(r, i)
<1>1. Usable(s) = Usable(r)
  BY Zenon DEF Usable, Same
<1>2. Usable(r) \subseteq DOMAIN s /\ \A i \in Usable(r) : s[i].adv = r[i].adv
  BY <1>1, Zenon DEF Usable, Same
<1>3. {j \in Usable(s) : s[j].adv.override} = {j \in Usable(r) : r[j].adv.override}
  BY <1>1, <1>2, Zenon
<1>4. ASSUME NEW S \in SUBSET Usable(r), NEW i
      PROVE  IsBest(s, i, S) <=> IsBest(r, i, S)
  <2>1. \A j \in S : s[j].adv = r[j].adv
    BY <1>2, Zenon
  <2> QED BY <2>1, Zenon DEF IsBest
<1> QED BY <1>1, <1>3, <1>4, Zenon DEF WantedIn

\* A wanted entry is usable; nothing is wanted when nothing is usable.
LEMMA WantedUsable ==
  ASSUME NEW r, NEW i, WantedIn(r, i)
  PROVE  /\ i # NULL => i \in Usable(r)
         /\ i = NULL /\ NULL \notin DOMAIN r => Usable(r) = {}
BY Zenon DEF WantedIn, IsBest, Usable

\* The two winners of the loop make up the entry the FIB should hold.
LEMMA NewFibWanted ==
  ASSUME NEW r, NULL \notin DOMAIN r, NEW n, NEW o,
         IsBest(r, n, {i \in Usable(r) : ~r[i].adv.override}),
         IsBest(r, o, {i \in Usable(r) : r[i].adv.override})
  PROVE  WantedIn(r, NewFib(n, o))
<1> DEFINE over == {i \in Usable(r) : r[i].adv.override}
           rest == {i \in Usable(r) : ~r[i].adv.override}
<1>1. CASE over = {}
  <2>1. o = NULL
    BY <1>1, Zenon DEF IsBest
  <2>2. rest = Usable(r)
    BY <1>1, Zenon
  <2> HIDE DEF rest
  <2>3. IsBest(r, n, Usable(r))
    BY <2>2, Zenon DEF rest
  <2>4. NewFib(n, o) = n
    BY <2>1, Zenon DEF NewFib
  <2> QED BY <1>1, <2>3, <2>4, Zenon DEF WantedIn
<1>2. CASE over # {}
  <2>1. o \in over
    BY <1>2, Zenon DEF IsBest
  <2>2. o # NULL
    BY <2>1, Zenon DEF Usable
  <2>3. NewFib(n, o) = o
    BY <2>2, Zenon DEF NewFib
  <2> QED BY <1>2, <2>3, Zenon DEF WantedIn
<1> QED BY <1>1, <1>2, Zenon

\* rib_process hands this context to the dataplane, and stamps the entries.
Handed(rts, n, op, new, old) ==
  LET ch == Chosen(rts, n)
  IN /\ dg_update_list' = Append(dg_update_list, MkCtx(ch, op, new, old))
     /\ seq' = seq + (IF op = "UPDATE" /\ old # new THEN 2 ELSE 1)
     /\ routes' = Drop(Stamp(ch, op, new, old), Removed(rts))

\* It leaves the dataplane alone.
Nothing(rts, n) ==
  /\ routes' = Drop(Chosen(rts, n), Removed(rts))
  /\ UNCHANGED <<dg_update_list, seq>>

\* The outcomes of rib_process when every request is accepted: an installation,
\* an update of one entry to another (or to itself), the same route again, nothing
\* to do, or a deletion.
LEMMA ProcessCases ==
  ASSUME TypeInv, "enqueue" \notin Faults, rib_process
  PROVE  \E n \in Re \cup {NULL}, f \in Re \cup {NULL} :
    /\ WantedIn(Examined, f)
    /\ \E o \in Re \cup {NULL} :
         /\ IsBest(Examined, n, {i \in Usable(Examined) : ~Examined[i].adv.override})
         /\ IsBest(Examined, o, {i \in Usable(Examined) : Examined[i].adv.override})
         /\ f = NewFib(n, o)
    /\ owner' = ProcessNotes(Examined, OldSelected(Examined), n, f)
    /\ redist' = redistribute_delete(OldSelected(Examined), n)
    /\ \/ /\ f # NULL /\ selected_fib = NULL
          /\ Handed(Examined, n, "INSTALL", f, NULL) /\ selected_fib' = f
       \/ /\ f # NULL /\ selected_fib # NULL
          /\ f # selected_fib \/ Examined[f].changed
          /\ Handed(Examined, n, "UPDATE", f, selected_fib) /\ selected_fib' = f
       \/ /\ f # NULL /\ selected_fib = f /\ ~Examined[f].changed
          /\ ~Examined[f].installed \/ Examined[f].adv.type \in SystemTypes
          /\ Handed(Examined, n, "INSTALL", f, NULL) /\ selected_fib' = f
       \/ /\ f # NULL /\ selected_fib = f /\ ~Examined[f].changed
          /\ Examined[f].installed /\ Examined[f].adv.type \notin SystemTypes
          /\ Nothing(Examined, n) /\ selected_fib' = f
       \/ /\ f = NULL /\ selected_fib # NULL
          /\ Handed(Examined, n, "DELETE", selected_fib, NULL)
          /\ selected_fib' = IF routes[selected_fib].removed THEN NULL ELSE selected_fib
       \/ /\ f = NULL /\ selected_fib = NULL
          /\ Nothing(Examined, n) /\ selected_fib' = NULL
<1> DEFINE rts == Examined
           old_selected == OldSelected(rts)
<1>1. PICK n \in Re \cup {NULL}, o \in Re \cup {NULL} :
        /\ IsBest(rts, n, {i \in Usable(rts) : ~rts[i].adv.override})
        /\ IsBest(rts, o, {i \in Usable(rts) : rts[i].adv.override})
        /\ UpdateFib(rts, n, NewFib(n, o))
        /\ owner' = ProcessNotes(rts, old_selected, n, NewFib(n, o))
        /\ redist' = redistribute_delete(old_selected, n)
  BY Zenon DEF rib_process
<1> DEFINE f == NewFib(n, o)
<1>2. DOMAIN rts = Re /\ \A i \in Re : rts[i] \in Entry /\ rts[i].removed = routes[i].removed
  BY ExaminedIs, Zenon
<1>3. NULL \notin Re /\ (selected_fib # NULL => selected_fib \in Re)
  BY DEF NULL, TypeInv, TypeOK, SelectedFibLinked
<1> HIDE DEF rts
<1>4. WantedIn(rts, f)
  BY <1>1, <1>2, <1>3, NewFibWanted, Zenon
<1>5. f \in Re \cup {NULL}
  BY <1>1, Zenon DEF NewFib
<1>6. f # NULL => f \in Usable(rts)
  BY <1>4, WantedUsable, Zenon
<1>7. f # NULL => /\ rts[f].active /\ ~rts[f].removed
                  /\ Chosen(rts, n)[f].active
  <2> SUFFICES ASSUME f # NULL PROVE rts[f].active /\ ~rts[f].removed
                                     /\ Chosen(rts, n)[f].active
    OBVIOUS
  <2>1. rts[f].active /\ ~rts[f].removed
    BY <1>6, Zenon DEF Usable
  <2>2. Same(rts[f], Chosen(rts, n)[f])
    BY <1>2, <1>5, ChosenIs
  <2> QED BY <2>1, <2>2, Zenon DEF Same
<1> HIDE DEF f
<1>8. ASSUME NEW op, NEW new, NEW old, op = "DELETE" \/ (new = f /\ f # NULL),
             Enqueue(Chosen(rts, n), op, new, old, Removed(rts))
      PROVE  Handed(rts, n, op, new, old)
  BY <1>7, <1>8, Zenon DEF Enqueue, Handed
<1>9. UpdateFib(rts, n, f)
  BY <1>1, Zenon DEF f
<1>10. CASE f # NULL /\ selected_fib = NULL
  <2>1. Enqueue(Chosen(rts, n), "INSTALL", f, NULL, Removed(rts)) /\ selected_fib' = f
    BY <1>9, <1>10, Zenon DEF UpdateFib
  <2>2. Handed(rts, n, "INSTALL", f, NULL)
    BY <1>8, <1>10, <2>1, Zenon
  <2> QED BY <1>1, <1>4, <1>5, <1>10, <2>1, <2>2, Zenon DEF rts, f
<1>11. CASE f # NULL /\ selected_fib # NULL /\ (f # selected_fib \/ rts[f].changed)
  <2>1. Enqueue(Chosen(rts, n), "UPDATE", f, selected_fib, Removed(rts))
        /\ selected_fib' = f
    BY <1>9, <1>11, Zenon DEF UpdateFib
  <2>2. Handed(rts, n, "UPDATE", f, selected_fib)
    BY <1>8, <1>11, <2>1, Zenon
  <2> QED BY <1>1, <1>4, <1>5, <1>11, <2>1, <2>2, Zenon DEF rts, f
<1>12. CASE /\ f # NULL /\ selected_fib = f /\ ~rts[f].changed
            /\ ~rts[f].installed \/ rts[f].adv.type \in SystemTypes
  <2>1. Enqueue(Chosen(rts, n), "INSTALL", f, NULL, Removed(rts)) /\ selected_fib' = f
    BY <1>9, <1>12, Zenon DEF UpdateFib
  <2>2. Handed(rts, n, "INSTALL", f, NULL)
    BY <1>8, <1>12, <2>1, Zenon
  <2> QED BY <1>1, <1>4, <1>5, <1>12, <2>1, <2>2, Zenon DEF rts, f
<1>13. CASE /\ f # NULL /\ selected_fib = f /\ ~rts[f].changed
            /\ ~(~rts[f].installed \/ rts[f].adv.type \in SystemTypes)
  <2>1. /\ routes' = Drop(Chosen(rts, n), Removed(rts))
        /\ selected_fib' = FibAfter(rts, selected_fib)
        /\ UNCHANGED <<dg_update_list, seq>>
    BY <1>9, <1>13, Zenon DEF UpdateFib
  <2>2. FibAfter(rts, selected_fib) = f
    BY <1>7, <1>13, Zenon DEF FibAfter
  <2>3. /\ Nothing(rts, n) /\ selected_fib' = f
        /\ rts[f].installed /\ rts[f].adv.type \notin SystemTypes
    BY <1>13, <2>1, <2>2, Zenon DEF Nothing
  <2> QED BY <1>1, <1>4, <1>5, <1>13, <2>3, Zenon DEF rts, f
<1>14. CASE f = NULL /\ selected_fib # NULL
  <2>1. /\ Enqueue(Chosen(rts, n), "DELETE", selected_fib, NULL, Removed(rts))
        /\ selected_fib' = FibAfter(rts, selected_fib)
    BY <1>9, <1>14, Zenon DEF UpdateFib
  <2>2. Handed(rts, n, "DELETE", selected_fib, NULL)
    BY <1>8, <2>1, Zenon
  <2>3. selected_fib' = IF routes[selected_fib].removed THEN NULL ELSE selected_fib
    BY <1>2, <1>3, <1>14, <2>1, Zenon DEF FibAfter
  <2> QED BY <1>1, <1>4, <1>5, <1>14, <2>2, <2>3, Zenon DEF rts, f
<1>15. CASE f = NULL /\ selected_fib = NULL
  <2>1. Nothing(rts, n) /\ selected_fib' = NULL
    BY <1>3, <1>9, <1>15, Zenon DEF UpdateFib, FibAfter, Nothing
  <2> QED BY <1>1, <1>4, <1>5, <1>15, <2>1, Zenon DEF rts, f
<1> QED BY <1>10, <1>11, <1>12, <1>13, <1>14, <1>15, Zenon

\* In every case the node is left with the chosen entries, stamped or not.
Processed(n) ==
  LET ch == Chosen(Examined, n)
  IN \/ routes' = Drop(ch, Removed(Examined))
     \/ \E op, new, old : routes' = Drop(Stamp(ch, op, new, old), Removed(Examined))

\* Whatever the outcome, the removed entries go and the others keep the verdict of
\* the selection loop.
LEMMA ProcessKeeps ==
  ASSUME TypeInv, NEW n, Processed(n)
  PROVE  /\ DOMAIN routes' = Re \ Removed(routes)
         /\ \A i \in DOMAIN routes' :
              /\ i \in Re /\ ~routes[i].removed
              /\ Same(Examined[i], routes'[i])
              /\ routes'[i].selected = Selected(Examined, n, i)
              /\ routes'[i].installed = routes[i].installed
              /\ routes'[i].failed = routes[i].failed
<1> DEFINE ch == Chosen(Examined, n)
<1>1. /\ DOMAIN Examined = Re
      /\ \A i \in Re : /\ Examined[i] \in Entry
                       /\ Examined[i].removed = routes[i].removed
                       /\ Examined[i].installed = routes[i].installed
                       /\ Examined[i].failed = routes[i].failed
  BY ExaminedIs, Zenon
<1>2. Removed(Examined) = Removed(routes)
  BY <1>1, Zenon DEF Removed, Re
<1>3. /\ DOMAIN ch = Re
      /\ \A i \in Re : /\ ch[i] \in Entry /\ Same(Examined[i], ch[i])
                       /\ ch[i].selected = Selected(Examined, n, i)
                       /\ ch[i].installed = routes[i].installed
                       /\ ch[i].failed = routes[i].failed
  BY <1>1, ChosenIs
<1> HIDE DEF ch
<1>4. seq \in Nat
  BY Zenon DEF TypeInv, TypeOK
<1>5. ASSUME NEW s, DOMAIN s = Re, routes' = Drop(s, Removed(Examined)),
             \A i \in Re : /\ Same(ch[i], s[i]) /\ s[i].selected = ch[i].selected
                           /\ s[i].installed = ch[i].installed
                           /\ s[i].failed = ch[i].failed
      PROVE  /\ DOMAIN routes' = Re \ Removed(routes)
             /\ \A i \in DOMAIN routes' :
                  /\ i \in Re /\ ~routes[i].removed
                  /\ Same(Examined[i], routes'[i])
                  /\ routes'[i].selected = Selected(Examined, n, i)
                  /\ routes'[i].installed = routes[i].installed
                  /\ routes'[i].failed = routes[i].failed
  <2>1. DOMAIN routes' = Re \ Removed(routes) /\ \A i \in DOMAIN routes' : routes'[i] = s[i]
    BY <1>2, <1>5, Zenon DEF Drop
  <2>2. \A i \in DOMAIN routes' : i \in Re /\ ~routes[i].removed
    BY <2>1, Zenon DEF Removed, Re
  <2>3. \A i \in Re : Same(Examined[i], s[i])
    BY <1>3, <1>5 DEF Same
  <2>4. \A i \in Re : /\ s[i].selected = Selected(Examined, n, i)
                      /\ s[i].installed = routes[i].installed
                      /\ s[i].failed = routes[i].failed
    BY <1>3, <1>5, Zenon
  <2> QED BY <2>1, <2>2, <2>3, <2>4, Zenon
<1>6. CASE routes' = Drop(ch, Removed(Examined))
  <2>2. \A i \in Re : Same(ch[i], ch[i])
    BY Zenon DEF Same
  <2> QED BY <1>3, <1>5, <1>6, <2>2, Zenon
<1>7. ASSUME NEW op, NEW new, NEW old,
             routes' = Drop(Stamp(ch, op, new, old), Removed(Examined))
      PROVE  /\ DOMAIN routes' = Re \ Removed(routes)
             /\ \A i \in DOMAIN routes' :
                  /\ i \in Re /\ ~routes[i].removed
                  /\ Same(Examined[i], routes'[i])
                  /\ routes'[i].selected = Selected(Examined, n, i)
                  /\ routes'[i].installed = routes[i].installed
                  /\ routes'[i].failed = routes[i].failed
  <2> DEFINE s == Stamp(ch, op, new, old)
  <2>1. routes' = Drop(s, Removed(Examined))
    BY <1>7, Zenon
  <2>2. /\ DOMAIN s = Re
        /\ \A i \in Re : /\ Same(ch[i], s[i]) /\ s[i].selected = ch[i].selected
                         /\ s[i].installed = ch[i].installed
                         /\ s[i].failed = ch[i].failed
    <3>1. \A i \in DOMAIN ch : ch[i] \in Entry
      BY <1>3, Zenon
    <3>2. /\ DOMAIN Stamp(ch, op, new, old) = DOMAIN ch
          /\ \A i \in DOMAIN ch :
               LET d == Stamp(ch, op, new, old)[i]
               IN /\ Same(ch[i], d)
                  /\ d.selected = ch[i].selected
                  /\ d.changed = ch[i].changed
                  /\ d.installed = ch[i].installed
                  /\ d.failed = ch[i].failed
                  /\ d.seq = IF i = new THEN seq + 1
                             ELSE IF i = old /\ op = "UPDATE" THEN seq + 2
                             ELSE ch[i].seq
      BY <1>4, <3>1, StampIs
    <3> QED BY <1>3, <3>2, Zenon
  <2> HIDE DEF s
  <2> QED BY <1>5, <2>1, <2>2, Zenon
<1> QED BY <1>6, <1>7, Zenon DEF Processed, ch

LEMMA ProcessDone ==
  ASSUME rib_process
  PROVE  \E n \in Re \cup {NULL} : Processed(n)
<1>1. PICK n \in Re \cup {NULL}, o \in Re \cup {NULL} :
        UpdateFib(Examined, n, NewFib(n, o))
  BY Zenon DEF rib_process
<1>2. ASSUME NEW op, NEW new, NEW old,
             Enqueue(Chosen(Examined, n), op, new, old, Removed(Examined))
      PROVE  Processed(n)
  BY <1>2, Zenon DEF Enqueue, Processed
<1>3. ASSUME routes' = Drop(Chosen(Examined, n), Removed(Examined))
      PROVE  Processed(n)
  BY <1>3, Zenon DEF Processed
<1> QED BY <1>1, <1>2, <1>3, Zenon DEF UpdateFib

=============================================================================
