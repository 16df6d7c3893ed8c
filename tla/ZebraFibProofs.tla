---------------------------- MODULE ZebraFibProofs ----------------------------
(* Proofs about ZebraRib: the kernel and the FIB once both pthreads are idle,  *)
(* and the route-maps the entry in the FIB has been through.                   *)
EXTENDS ZebraRibProofs

-----------------------------------------------------------------------------
(* The invariant behind FibMatchesRib. *)

\* What the kernel holds once everything handed over has been served: the route
\* of selected_fib, or nothing if that entry was withdrawn with its nexthop or is
\* connected.
Intended ==
  IF selected_fib = NULL THEN None
  ELSE IF ~routes[selected_fib].active \/ System(selected_fib) THEN None
  ELSE [type |-> TypeOf(selected_fib), nh |-> routes[selected_fib].adv.nh]

OnItsWay ==
  /\ \A k \in 1..Len(work_list) : ~work_list[k].same_nhg
  /\ \E mid : Leads(work_list, kern, mid) /\ Leads(dg_update_list, mid, Intended)

\* Nothing but announcements, withdrawals and results on the way in, and no refusal
\* unless the kernel may refuse.
NothingLost ==
  /\ nlq = << >>
  /\ \A k \in 1..Len(early) : early[k].kind # "lost"
  /\ \A k \in 1..Len(rib_dplane_q) :
       /\ rib_dplane_q[k].kind = "result"
       /\ Faults = {} => rib_dplane_q[k].success

\* An announcement replaces the entry it compares equal to.
OneOfAKind ==
  \A i, j \in Re :
    ~routes[i].removed /\ ~routes[j].removed
    /\ rib_compare_routes(routes[i].adv, routes[j].adv) => i = j

\* The entry in the FIB was usable when it was put there, and is still active
\* unless a route-map took its nexthop.
FibUsable ==
  /\ selected_fib # NULL => routes[selected_fib].adv.distance # DISTANCE_INFINITY
  /\ "rmap" \notin Events =>
       /\ \A t \in Types : permit[t]
       /\ selected_fib # NULL => routes[selected_fib].active

\* The selection is up to date unless it is due.
Settled ==
  ~Queued => \E i \in Re \cup {NULL} :
    WantedIn(routes, i) /\ (i # NULL => selected_fib = i)

FibInv == NothingLost /\ OneOfAKind /\ FibUsable /\ Settled

\* No two usable announcements live side by side with one nexthop group, or the
\* short cut of the kernel provider is off, or no route-map changes.
NoTwins ==
  KernelNexthops /\ "rmap" \in Events =>
    \A a, b \in Adverts :
      /\ a.type = b.type /\ a.nh = b.nh
      /\ a.distance # DISTANCE_INFINITY /\ b.distance # DISTANCE_INFINITY
      => rib_compare_routes(a, b)

LEMMA AppendAll ==
  ASSUME NEW S, NEW q \in Seq(S), NEW x \in S
  PROVE  /\ \A k \in 1..Len(Append(q, x)) :
              \/ k \in 1..Len(q) /\ Append(q, x)[k] = q[k]
              \/ Append(q, x)[k] = x
BY DEF Kernel

LEMMA HeadMember ==
  ASSUME NEW S, NEW q \in Seq(S), q # << >>
  PROVE  Head(q) \in S
OBVIOUS

LEMMA TailAll ==
  ASSUME NEW S, NEW q \in Seq(S), q # << >>
  PROVE  \A k \in 1..Len(Tail(q)) : k + 1 \in 1..Len(q) /\ Tail(q)[k] = q[k + 1]
OBVIOUS

-----------------------------------------------------------------------------
\* What the result at the head of rib_dplane_q does to an entry: INSTALLED and
\* FAILED of the two entries it names follow its status; a system entry may be
\* marked INSTALLED besides.
ResultFlags(i, d) ==
  LET ctx == Head(rib_dplane_q).ctx
      ok  == Head(rib_dplane_q).success
      e   == routes[i]
  IN IF i = ResultRe
     THEN /\ d.installed = (IF ctx.op = "DELETE" THEN e.installed /\ ~ok ELSE ok)
          /\ d.failed = ~ok
     ELSE IF i = ResultOldRe
     THEN d.installed = (e.installed /\ ~ok) /\ d.failed = ~ok
     ELSE d.installed = e.installed /\ d.failed = e.failed

LEMMA ResultIs ==
  ASSUME TypeInv, rib_process_result
  PROVE  /\ DOMAIN routes' = Re
         /\ \A i \in Re : /\ Same(routes[i], routes'[i])
                          /\ routes'[i].seq = routes[i].seq
                          /\ routes'[i].changed = routes[i].changed
                          /\ ~System(i) => ResultFlags(i, routes'[i])
<1> DEFINE ctx == Head(rib_dplane_q).ctx
           ok  == Head(rib_dplane_q).success
           rts == [i \in Re |-> IF i = ResultRe THEN NewSide(routes[i], ctx.op, ok)
                                ELSE IF i = ResultOldRe THEN OldSide(routes[i], ok)
                                ELSE routes[i]]
<1>1. \A i \in Re : routes[i] \in Entry
  BY Zenon DEF TypeInv, TypeOK
<1>2. ASSUME NEW e \in Entry, NEW op, NEW k
      PROVE  LET d == NewSide(e, op, k)
             IN /\ Same(e, d) /\ d.seq = e.seq /\ d.changed = e.changed
                /\ d.failed = ~k
                /\ DOMAIN d = DOMAIN e
                /\ d.installed = (IF op = "DELETE" THEN e.installed /\ ~k ELSE k)
  BY <1>2, Zenon DEF NewSide, Same, Entry
<1>3. ASSUME NEW e \in Entry, NEW k
      PROVE  LET d == OldSide(e, k)
             IN /\ Same(e, d) /\ d.seq = e.seq /\ d.changed = e.changed
                /\ d.failed = ~k
                /\ DOMAIN d = DOMAIN e
                /\ d.installed = (e.installed /\ ~k)
  BY <1>3, Zenon DEF OldSide, Same, Entry
<1> HIDE DEF ok, ctx
<1>4. DOMAIN rts = Re
  OBVIOUS
<1>5. ASSUME NEW i \in Re
      PROVE  /\ Same(routes[i], rts[i]) /\ rts[i].seq = routes[i].seq
             /\ rts[i].changed = routes[i].changed
             /\ DOMAIN rts[i] = DOMAIN routes[i] /\ ResultFlags(i, rts[i])
  <2>1. CASE i = ResultRe
    <3>1. rts[i] = NewSide(routes[i], ctx.op, ok)
      BY <2>1, Zenon
    <3> HIDE DEF rts
    <3>2. /\ Same(routes[i], rts[i]) /\ rts[i].seq = routes[i].seq
          /\ rts[i].changed = routes[i].changed
          /\ rts[i].failed = ~ok /\ DOMAIN rts[i] = DOMAIN routes[i]
          /\ rts[i].installed = (IF ctx.op = "DELETE" THEN routes[i].installed /\ ~ok
                                 ELSE ok)
      BY <1>1, <1>2, <3>1
    <3> QED BY <2>1, <3>2, Zenon DEF ResultFlags, ctx, ok
  <2>2. CASE i # ResultRe /\ i = ResultOldRe
    <3>1. rts[i] = OldSide(routes[i], ok)
      BY <2>2, Zenon
    <3> HIDE DEF rts
    <3>2. /\ Same(routes[i], rts[i]) /\ rts[i].seq = routes[i].seq
          /\ rts[i].changed = routes[i].changed
          /\ rts[i].failed = ~ok /\ DOMAIN rts[i] = DOMAIN routes[i]
          /\ rts[i].installed = (routes[i].installed /\ ~ok)
      BY <1>1, <1>3, <3>1
    <3> QED BY <2>2, <3>2, Zenon DEF ResultFlags, ctx, ok
  <2>3. CASE i # ResultRe /\ i # ResultOldRe
    <3>1. rts[i] = routes[i]
      BY <2>3, Zenon
    <3> HIDE DEF rts
    <3> QED BY <2>3, <3>1, Zenon DEF ResultFlags, Same
  <2> QED BY <2>1, <2>2, <2>3, Zenon
<1> HIDE DEF rts
<1>6. /\ DOMAIN FixupSystem(rts) = Re
      /\ \A i \in Re : FixupSystem(rts)[i] =
           IF rts[i].adv.type \in SystemTypes /\ ~rts[i].removed
           THEN [rts[i] EXCEPT !.installed = TRUE, !.queued = FALSE, !.replacing = FALSE]
           ELSE rts[i]
  BY <1>4, Zenon DEF FixupSystem
<1>7. ASSUME NEW i \in Re
      PROVE  LET d == FixupSystem(rts)[i]
             IN /\ Same(rts[i], d) /\ d.seq = rts[i].seq /\ d.changed = rts[i].changed
                /\ ~System(i) => d = rts[i]
  <2>1. CASE rts[i].adv.type \in SystemTypes /\ ~rts[i].removed
    <3>1. System(i)
      BY <1>5, <2>1, Zenon DEF Same, System, TypeOf
    <3> DEFINE e == rts[i]
               d == [e EXCEPT !.installed = TRUE, !.queued = FALSE, !.replacing = FALSE]
    <3>2. FixupSystem(rts)[i] = d
      BY <1>6, <2>1, Zenon
    <3>0. {"adv", "active", "removed", "changed", "seq"} \subseteq DOMAIN e
      <4>1. {"adv", "active", "removed", "changed", "seq"} \subseteq DOMAIN routes[i]
        BY <1>1, Zenon DEF Entry
      <4> QED BY <1>5, <4>1, Zenon
    <3> HIDE DEF e
    <3>3. d.adv = e.adv /\ d.active = e.active /\ d.removed = e.removed /\ d.seq = e.seq
          /\ d.changed = e.changed
      BY <3>0, Zenon
    <3> HIDE DEF d
    <3> QED BY <3>1, <3>2, <3>3, Zenon DEF Same, e
  <2>2. CASE ~(rts[i].adv.type \in SystemTypes /\ ~rts[i].removed)
    BY <1>6, <2>2, Zenon DEF Same
  <2> QED BY <2>1, <2>2, Zenon
<1>8. routes' = rts \/ routes' = FixupSystem(rts)
  BY Zenon DEF rib_process_result, rts, ctx, ok, ResultRe, ResultOldRe
<1>9. CASE routes' = rts
  BY <1>4, <1>5, <1>9, Zenon
<1>10. CASE routes' = FixupSystem(rts)
  <2>1. \A i \in Re : /\ Same(routes[i], routes'[i]) /\ routes'[i].seq = routes[i].seq
                      /\ routes'[i].changed = routes[i].changed
    BY <1>5, <1>7, <1>10, Zenon DEF Same
  <2>2. \A i \in Re : ~System(i) => ResultFlags(i, routes'[i])
    BY <1>5, <1>7, <1>10, Zenon
  <2> QED BY <1>6, <1>10, <2>1, <2>2, Zenon
<1> QED BY <1>8, <1>9, <1>10, Zenon

-----------------------------------------------------------------------------
(* The steps that hand nothing over. *)

LEMMA IntendedSame ==
  ASSUME SelectedFibLinked, selected_fib' = selected_fib,
         selected_fib \in Re => /\ routes'[selected_fib].adv = routes[selected_fib].adv
                                /\ routes'[selected_fib].active = routes[selected_fib].active
  PROVE  Intended' = Intended
<1>1. CASE selected_fib = NULL
  BY <1>1, Zenon DEF Intended
<1>2. CASE selected_fib # NULL
  <2>1. /\ routes'[selected_fib].adv = routes[selected_fib].adv
        /\ routes'[selected_fib].active = routes[selected_fib].active
    BY <1>2, Zenon DEF SelectedFibLinked
  <2> QED BY <1>2, <2>1, Zenon DEF Intended, System, TypeOf
<1> QED BY <1>1, <1>2, Zenon

\* A step of the main pthread that only marks entries, and leaves the node queued
\* if it marks one REMOVED.
LEMMA FibMarked ==
  ASSUME TypeInv, FibInv,
         UNCHANGED <<selected_fib, dg_update_list, work_list, kern>>,
         DOMAIN routes' = Re,
         \A i \in Re : /\ routes'[i].adv = routes[i].adv
                       /\ routes'[i].active = routes[i].active
                       /\ routes[i].removed => routes'[i].removed,
         \/ Queued'
         \/ qindex' = qindex /\ \A i \in Re : routes'[i].removed = routes[i].removed,
         "rmap" \notin Events => permit' = permit,
         NothingLost'
  PROVE  FibInv' /\ (OnItsWay => OnItsWay')
<1>0. SelectedFibLinked
  BY Zenon DEF TypeInv
<1>1. ASSUME OnItsWay PROVE OnItsWay'
  <2>1. Intended' = Intended
    BY <1>0, IntendedSame, Zenon
  <2> QED BY <1>1, <2>1, Zenon DEF OnItsWay
<1>2. OneOfAKind'
  <2>1. OneOfAKind
    BY Zenon DEF FibInv
  <2>2. ASSUME NEW i \in Re, NEW j \in Re, ~routes'[i].removed, ~routes'[j].removed,
               rib_compare_routes(routes'[i].adv, routes'[j].adv)
        PROVE  i = j
    <3>1. /\ ~routes[i].removed /\ ~routes[j].removed
          /\ rib_compare_routes(routes[i].adv, routes[j].adv)
      BY <2>2, Zenon
    <3> QED BY <2>1, <3>1, Zenon DEF OneOfAKind
  <2> QED BY <2>2, Zenon DEF OneOfAKind, Re
<1>3. FibUsable'
  <2>1. selected_fib # NULL => selected_fib \in Re
    BY <1>0, Zenon DEF SelectedFibLinked
  <2> QED BY <2>1, Zenon DEF FibInv, FibUsable
<1>4. Settled'
  <2>1. CASE Queued'
    BY <2>1, Zenon DEF Settled
  <2>2. CASE ~Queued' /\ ~Queued
    <3>0. qindex' = qindex /\ \A i \in Re : routes'[i].removed = routes[i].removed
      BY <2>2, Zenon
    <3>1. \A i \in DOMAIN routes' : Same(routes[i], routes'[i])
      BY <3>0, Zenon DEF Same
    <3>2. \A i : WantedIn(routes', i) <=> WantedIn(routes, i)
      <4>1. DOMAIN routes' = DOMAIN routes
        BY Zenon DEF Re
      <4>2. /\ \A i \in DOMAIN routes \ DOMAIN routes' : routes[i].removed
            /\ DOMAIN routes' \subseteq DOMAIN routes
        BY <4>1, Zenon
      <4> HIDE DEF Same
      <4> QED BY <3>1, <4>2, WantedSame, Zenon
    <3>3. PICK i \in Re \cup {NULL} : WantedIn(routes, i) /\ (i # NULL => selected_fib = i)
      BY <2>2, Zenon DEF FibInv, Settled
    <3>4. WantedIn(routes', i) /\ i \in Re' \cup {NULL}
      BY <3>2, <3>3, Zenon DEF Re
    <3> QED BY <3>3, <3>4, Zenon DEF Settled
  <2>3. CASE ~Queued' /\ Queued
    BY <2>3, Zenon DEF Queued
  <2> QED BY <2>1, <2>2, <2>3, Zenon
<1> QED BY <1>1, <1>2, <1>3, <1>4, Zenon DEF FibInv

\* The inputs.
LEMMA FibInput ==
  ASSUME TypeInv, FibInv, "lost" \notin Events, Input
  PROVE  FibInv' /\ (OnItsWay => OnItsWay')
<1>1. early \in Seq(EarlyRoute) /\ \A i \in Re : routes[i] \in Entry
  BY Zenon DEF TypeInv, TypeOK
<1>2. ASSUME NEW a \in Adverts, rib_add_multipath(a) \/ rib_delete(a)
      PROVE  FibInv' /\ (OnItsWay => OnItsWay')
  <2>1. PICK k \in {"add", "del"} : early' = Append(early, [kind |-> k, adv |-> a])
    BY <1>2, Zenon DEF rib_add_multipath, rib_delete
  <2>2. UNCHANGED <<routes, selected_fib, qindex, permit, dg_update_list, work_list,
                    rib_dplane_q, kern, nlq>>
    BY <1>2, Zenon DEF rib_add_multipath, rib_delete, dplane
  <2> DEFINE x == [kind |-> k, adv |-> a]
  <2>3. x \in EarlyRoute /\ x.kind # "lost"
    BY Zenon DEF EarlyRoute
  <2> HIDE DEF x
  <2>4. \A n \in 1..Len(early') : early'[n].kind # "lost"
    BY <1>1, <2>1, <2>3, AppendAll DEF x, FibInv, NothingLost
  <2>5. NothingLost'
    BY <2>2, <2>4, Zenon DEF FibInv, NothingLost
  <2> QED BY <2>2, <2>5, FibMarked, Zenon DEF Re
<1>3. ASSUME NEW t \in Types, ip_protocol_rm(t)
      PROVE  FibInv' /\ (OnItsWay => OnItsWay')
  <2>1. /\ UNCHANGED <<selected_fib, early, dg_update_list, work_list,
                       rib_dplane_q, kern, nlq>>
        /\ "rmap" \in Events
    BY <1>3, Zenon DEF ip_protocol_rm, External, dplane
  <2>2. NothingLost'
    BY <2>1, Zenon DEF FibInv, NothingLost
  <2>3. CASE UNCHANGED <<routes, qindex>>
    BY <2>1, <2>2, <2>3, FibMarked, Zenon DEF Re
  <2>4. CASE /\ \E i \in Re : TypeOf(i) = t
             /\ routes' = [i \in Re |-> IF TypeOf(i) = t
                              THEN [routes[i] EXCEPT !.changed = TRUE]
                              ELSE routes[i]]
             /\ qindex' = QueueAdd(routes)
    <3>1. Queued'
      <4>1. QueueAdd(routes) < MQ_SIZE
        BY <1>1, <2>4, QueueAddType, Zenon DEF Re, TypeInv, TypeOK
      <4> QED BY <2>4, <4>1, Zenon DEF Queued
    <3>2. \A e \in Entry : /\ [e EXCEPT !.changed = TRUE].adv = e.adv
                           /\ [e EXCEPT !.changed = TRUE].active = e.active
                           /\ [e EXCEPT !.changed = TRUE].removed = e.removed
      BY Zenon DEF Entry
    <3>3. /\ DOMAIN routes' = Re
          /\ \A i \in Re : /\ routes'[i].adv = routes[i].adv
                           /\ routes'[i].active = routes[i].active
                           /\ routes'[i].removed = routes[i].removed
      BY <1>1, <2>4, <3>2, Zenon
    <3> QED BY <2>1, <2>2, <3>1, <3>3, FibMarked, Zenon
  <2> QED BY <1>3, <2>3, <2>4, Zenon DEF ip_protocol_rm, rib_update_table
<1>4. ~KernelRouteLost
  BY Zenon DEF KernelRouteLost, External
<1> QED BY <1>2, <1>3, <1>4, Zenon DEF Input

\* A result.
LEMMA FibResult ==
  ASSUME TypeInv, FibInv, rib_process_result
  PROVE  FibInv' /\ (OnItsWay => OnItsWay')
<1>1. /\ UNCHANGED <<selected_fib, qindex, early, permit, dg_update_list, work_list,
                     kern, nlq>>
      /\ rib_dplane_q # << >> /\ rib_dplane_q' = Tail(rib_dplane_q)
  BY Zenon DEF rib_process_result
<1>2. /\ DOMAIN routes' = Re
      /\ \A i \in Re : /\ routes'[i].adv = routes[i].adv
                       /\ routes'[i].active = routes[i].active
                       /\ routes'[i].removed = routes[i].removed
  BY ResultIs, Zenon DEF Same
<1>3. rib_dplane_q \in Seq(Result)
  BY Zenon DEF TypeInv, TypeOK
<1>4. NothingLost'
  BY <1>1, <1>3, TailAll DEF FibInv, NothingLost
<1> QED BY <1>1, <1>2, <1>4, FibMarked, Zenon

\* A withdrawal.
LEMMA FibEarlyDelete ==
  ASSUME TypeInv, FibInv, process_subq_early_route_delete
  PROVE  FibInv' /\ (OnItsWay => OnItsWay')
<1>1. /\ UNCHANGED <<permit, work_list, rib_dplane_q, kern, nlq>>
      /\ early # << >> /\ early' = Tail(early)
  BY Zenon DEF process_subq_early_route_delete
<1>2. /\ early \in Seq(EarlyRoute) /\ \A i \in Re : routes[i] \in Entry
      /\ qindex \in {MQ_SIZE} \cup {meta_q_map[t] : t \in Types}
  BY Zenon DEF TypeInv, TypeOK
<1>3. NothingLost'
  BY <1>1, <1>2, TailAll DEF FibInv, NothingLost
<1>4. Head(early).kind # "lost"
  BY <1>1, <1>2 DEF FibInv, NothingLost
<1>5. CASE UNCHANGED <<routes, selected_fib, qindex, dg_update_list, seq>>
  BY <1>1, <1>3, <1>5, FibMarked, Zenon DEF Re
<1>6. ASSUME NEW k \in Re, Delnode(k)
      PROVE  FibInv' /\ (OnItsWay => OnItsWay')
  <2>1. /\ routes' = [routes EXCEPT ![k].removed = TRUE]
        /\ qindex' = QueueAdd(routes)
        /\ UNCHANGED <<selected_fib, dg_update_list>>
    BY <1>6, Zenon DEF Delnode
  <2>2. Queued'
    <3>1. QueueAdd(routes) < MQ_SIZE
      BY <1>2, QueueAddType, Zenon DEF Re
    <3> QED BY <2>1, <3>1, Zenon DEF Queued
  <2>3. \A e \in Entry : /\ [e EXCEPT !.removed = TRUE].adv = e.adv
                         /\ [e EXCEPT !.removed = TRUE].active = e.active
                         /\ [e EXCEPT !.removed = TRUE].removed
    BY Zenon DEF Entry
  <2>4. /\ DOMAIN routes' = Re
        /\ \A i \in Re : routes'[i] = IF i = k THEN [routes[i] EXCEPT !.removed = TRUE]
                                      ELSE routes[i]
    BY <2>1, Zenon DEF Re
  <2>5. \A i \in Re : /\ routes'[i].adv = routes[i].adv
                      /\ routes'[i].active = routes[i].active
                      /\ routes[i].removed => routes'[i].removed
    BY <1>2, <2>3, <2>4, Zenon
  <2> QED BY <1>1, <1>3, <2>1, <2>2, <2>4, <2>5, FibMarked, Zenon
<1>7. Deleted(Head(early)) # NULL => Deleted(Head(early)) \in Re
  BY FirstMember, Zenon DEF Deleted, TypeInv, TypeOK
<1> QED BY <1>4, <1>5, <1>6, <1>7, Zenon DEF process_subq_early_route_delete

\* The dataplane pthread brings the kernel a step closer.
LEMMA FibDplane ==
  ASSUME TypeInv, FibInv, DplaneThread
  PROVE  FibInv'
<1>0. /\ dg_update_list \in Seq(Ctx) /\ work_list \in Seq(Ctx)
      /\ rib_dplane_q \in Seq(Result)
  BY Zenon DEF TypeInv, TypeOK
<1>1. UNCHANGED <<routes, selected_fib, qindex, early, permit>>
  BY Zenon DEF DplaneThread, kernel_dplane_process_func, kernel_update_multi,
         dplane_incoming_read
<1>2. OneOfAKind' /\ FibUsable' /\ Settled'
  BY <1>1, Zenon DEF FibInv, OneOfAKind, FibUsable, Settled, Queued, Re
<1>3. nlq = << >> /\ \A k \in 1..Len(early) : early[k].kind # "lost"
  BY Zenon DEF FibInv, NothingLost
<1>4. \A k \in 1..Len(rib_dplane_q) :
        rib_dplane_q[k].kind = "result" /\ (Faults = {} => rib_dplane_q[k].success)
  BY Zenon DEF FibInv, NothingLost
<1>5. nlq' = nlq
  BY <1>3, Zenon DEF DplaneThread, kernel_dplane_process_func, kernel_update_multi,
              dplane_incoming_read
<1>6. \/ rib_dplane_q' = rib_dplane_q
      \/ \E c \in Ctx, ok \in BOOLEAN :
           /\ Faults = {} => ok
           /\ rib_dplane_q' = Append(rib_dplane_q,
                               [kind |-> "result", ctx |-> c, success |-> ok])
  <2>1. CASE kernel_dplane_process_func
    <3>1. dg_update_list # << >> /\ Head(dg_update_list) \in Ctx
      BY <1>0, <2>1, HeadMember, Zenon DEF kernel_dplane_process_func
    <3> QED BY <2>1, <3>1, Zenon DEF kernel_dplane_process_func
  <2>2. CASE kernel_update_multi
    <3>1. work_list # << >> /\ Head(work_list) \in Ctx
      BY <1>0, <2>2, HeadMember, Zenon DEF kernel_update_multi
    <3> QED BY <2>2, <3>1, Zenon DEF kernel_update_multi
  <2>3. ~dplane_incoming_read
    BY <1>3, Zenon DEF dplane_incoming_read
  <2> QED BY <2>1, <2>2, <2>3, Zenon DEF DplaneThread
<1>7. ASSUME NEW c \in Ctx, NEW ok \in BOOLEAN, Faults = {} => ok,
             rib_dplane_q' = Append(rib_dplane_q,
                               [kind |-> "result", ctx |-> c, success |-> ok])
      PROVE  NothingLost'
  <2> DEFINE r == [kind |-> "result", ctx |-> c, success |-> ok]
  <2>1. r \in Result /\ r.kind = "result" /\ (Faults = {} => r.success)
    BY <1>7, Zenon DEF Result
  <2> HIDE DEF r
  <2>2. \A k \in 1..Len(rib_dplane_q') :
          /\ rib_dplane_q'[k].kind = "result"
          /\ Faults = {} => rib_dplane_q'[k].success
    BY <1>0, <1>4, <1>7, <2>1, AppendAll DEF r
  <2> QED BY <1>1, <1>3, <1>5, <2>2, Zenon DEF NothingLost
<1>8. ASSUME rib_dplane_q' = rib_dplane_q
      PROVE  NothingLost'
  BY <1>1, <1>3, <1>4, <1>5, <1>8, Zenon DEF NothingLost
<1> QED BY <1>2, <1>6, <1>7, <1>8, Zenon DEF FibInv

\* It brings the kernel a step closer to what is intended.
LEMMA WayDplane ==
  ASSUME TypeInv, FibInv, OnItsWay, "kernel" \notin Faults, DplaneThread
  PROVE  OnItsWay'
<1>0. dg_update_list \in Seq(Ctx) /\ work_list \in Seq(Ctx)
  BY Zenon DEF TypeInv, TypeOK
<1>1. UNCHANGED <<routes, selected_fib>>
  BY Zenon DEF DplaneThread, kernel_dplane_process_func, kernel_update_multi,
         dplane_incoming_read
<1>2. Intended' = Intended
  BY <1>1, Zenon DEF Intended, System, TypeOf
<1>3. PICK mid : Leads(work_list, kern, mid) /\ Leads(dg_update_list, mid, Intended)
  BY Zenon DEF OnItsWay
<1>4. \A k \in 1..Len(work_list) : ~work_list[k].same_nhg
  BY Zenon DEF OnItsWay
<1>5. CASE kernel_dplane_process_func
  <2> DEFINE ctx == Head(dg_update_list)
  <2>1. /\ dg_update_list # << >> /\ dg_update_list' = Tail(dg_update_list)
        /\ kern' = kern
        /\ IF ctx.same_nhg THEN UNCHANGED work_list
           ELSE work_list' = Append(work_list, ctx)
    BY <1>5, Zenon DEF kernel_dplane_process_func
  <2>2. ctx \in Ctx
    BY <1>0, <2>1
  <2>3. Leads(dg_update_list', Put(ctx, mid), Intended)
    BY <1>0, <1>3, <2>1, LeadsTail, Zenon
  <2> HIDE DEF ctx
  <2>4. CASE ctx.same_nhg
    <3>1. Put(ctx, mid) = mid
      BY <2>4, Zenon DEF Put
    <3> QED BY <1>2, <1>3, <1>4, <2>1, <2>3, <2>4, <3>1, Zenon DEF OnItsWay
  <2>5. CASE ~ctx.same_nhg
    <3>1. Leads(work_list', kern', Put(ctx, mid))
      BY <1>0, <1>3, <2>1, <2>2, <2>5, LeadsAppend, Zenon
    <3>2. \A k \in 1..Len(work_list') : ~work_list'[k].same_nhg
      <4>1. work_list' = Append(work_list, ctx)
        BY <2>1, <2>5, Zenon
      <4>2. \A k \in 1..Len(work_list') :
              \/ k \in 1..Len(work_list) /\ work_list'[k] = work_list[k]
              \/ work_list'[k] = ctx
        BY <1>0, <2>2, <4>1, AppendAll
      <4> QED BY <1>4, <2>5, <4>2, Zenon
    <3> QED BY <1>2, <2>3, <3>1, <3>2, Zenon DEF OnItsWay
  <2> QED BY <2>4, <2>5, Zenon
<1>6. CASE kernel_update_multi
  <2> DEFINE ctx == Head(work_list)
  <2>1. /\ work_list # << >> /\ work_list' = Tail(work_list)
        /\ dg_update_list' = dg_update_list
        /\ kern' = AfterRequest(ctx)
    BY <1>6, Zenon DEF kernel_update_multi
  <2>2. ctx \in Ctx /\ ~ctx.same_nhg
    BY <1>0, <1>4, <2>1
  <2>3. Leads(work_list', Put(ctx, kern), mid)
    BY <1>0, <1>3, <2>1, LeadsTail, Zenon
  <2> HIDE DEF ctx
  <2>4. Put(ctx, kern) = AfterRequest(ctx)
    BY <2>2, Zenon DEF Put, AfterRequest
  <2>5. \A k \in 1..Len(work_list') : ~work_list'[k].same_nhg
    BY <1>0, <1>4, <2>1, TailAll, Zenon
  <2>6. Leads(work_list', kern', mid) /\ Leads(dg_update_list', mid, Intended')
    BY <1>2, <1>3, <2>1, <2>3, <2>4, Zenon
  <2> QED BY <2>5, <2>6, Zenon DEF OnItsWay
<1>7. ~dplane_incoming_read
  BY Zenon DEF dplane_incoming_read, FibInv, NothingLost
<1> QED BY <1>5, <1>6, <1>7, Zenon DEF DplaneThread

\* An announcement takes the place of the entry it compares equal to.
LEMMA EarlyAddIs ==
  ASSUME TypeInv, process_subq_early_route_add
  PROVE  \E a \in Adverts :
    /\ DOMAIN routes' \subseteq Re \cup {nre + 1}
    /\ routes'[nre + 1] = NewEntry(a)
    /\ \A i \in DOMAIN routes' \ {nre + 1} :
         /\ i \in Re
         /\ routes'[i].adv = routes[i].adv
         /\ routes'[i].active = routes[i].active
         /\ routes'[i].changed = routes[i].changed
         /\ routes'[i].installed = routes[i].installed
         /\ routes'[i].failed = routes[i].failed
         /\ routes[i].removed => routes'[i].removed
    /\ LET S == {i \in Re : ~routes[i].removed /\ rib_compare_routes(a, routes[i].adv)}
       IN S # {} => \E s \in S : s \in DOMAIN routes' => routes'[s].removed
<1>0. early # << >> /\ Head(early).kind = "add"
  BY Zenon DEF process_subq_early_route_add
<1>2. /\ early \in Seq(EarlyRoute) /\ Re \subseteq 1..nre /\ nre \in Nat
      /\ \A i \in Re : routes[i] \in Entry
  BY Zenon DEF TypeInv, TypeOK
<1>a. Head(early) \in EarlyRoute
  BY <1>0, <1>2, HeadMember, Zenon
<1>3. Head(early).adv \in Adverts
  BY <1>0, <1>a, Zenon DEF EarlyRoute
<1> DEFINE a    == Head(early).adv
           S    == {i \in Re : ~routes[i].removed /\ rib_compare_routes(a, routes[i].adv)}
           same == First(S)
           new  == nre + 1
           linked == [i \in Re \cup {new} |->
                        IF i = new THEN NewEntry(a)
                        ELSE IF i = same
                        THEN [routes[i] EXCEPT !.removed = TRUE,
                                     !.replacing = @ \/ i = selected_fib]
                        ELSE routes[i]]
<1>1. routes' = Reap(linked, selected_fib)
  BY Zenon DEF process_subq_early_route_add
<1> HIDE DEF linked
<1>4. new \notin Re
  BY <1>2
<1>5. S # {} => same \in S
  BY <1>2, FirstMember, Zenon
<1> HIDE DEF same, a
<1> USE DEF linked
<1>6. ASSUME NEW i \in Re
      PROVE  /\ linked[i].adv = routes[i].adv
             /\ linked[i].active = routes[i].active
             /\ linked[i].changed = routes[i].changed
             /\ linked[i].installed = routes[i].installed
             /\ linked[i].failed = routes[i].failed
             /\ routes[i].removed => linked[i].removed
             /\ i = same => linked[i].removed
  <2>1. CASE i # same
    BY <1>4, <2>1, Zenon
  <2>2. CASE i = same
    <3> DEFINE e == routes[i]
               c == e.replacing \/ i = selected_fib
               d == [e EXCEPT !.removed = TRUE, !.replacing = c]
    <3>1. linked[i] = d
      BY <1>4, <2>2, Zenon
    <3>2. e \in Entry
      BY <1>2, Zenon
    <3> HIDE DEF c, e, linked
    <3>3. /\ d.adv = e.adv /\ d.active = e.active /\ d.changed = e.changed
          /\ d.installed = e.installed /\ d.failed = e.failed /\ d.removed
      BY <3>2, Zenon DEF Entry
    <3> HIDE DEF d
    <3> QED BY <3>1, <3>3, Zenon DEF e
  <2> QED BY <2>1, <2>2, Zenon
<1>7. DOMAIN linked = Re \cup {new} /\ linked[new] = NewEntry(a)
  OBVIOUS
<1> HIDE DEF linked
<1>8. /\ DOMAIN routes' = (Re \cup {new}) \ (Removed(linked) \ {selected_fib})
      /\ \A i \in DOMAIN routes' : routes'[i] = linked[i]
  BY <1>1, <1>7, Zenon DEF Reap, Drop
<1>9. new \in DOMAIN routes'
  BY <1>7, <1>8 DEF Removed, NewEntry
<1>10. /\ DOMAIN routes' \subseteq Re \cup {new}
       /\ routes'[new] = NewEntry(a)
       /\ \A i \in DOMAIN routes' \ {new} :
            /\ i \in Re
            /\ routes'[i].adv = routes[i].adv
            /\ routes'[i].active = routes[i].active
            /\ routes'[i].changed = routes[i].changed
            /\ routes'[i].installed = routes[i].installed
            /\ routes'[i].failed = routes[i].failed
            /\ routes[i].removed => routes'[i].removed
  BY <1>6, <1>7, <1>8, <1>9
<1>11. S # {} => \E s \in S : s \in DOMAIN routes' => routes'[s].removed
  BY <1>5, <1>6, <1>8
<1> QED BY <1>3, <1>10, <1>11, Zenon DEF a

LEMMA FibEarlyAdd ==
  ASSUME TypeInv, FibInv, process_subq_early_route_add
  PROVE  FibInv' /\ (OnItsWay => OnItsWay')
<1> DEFINE new == nre + 1
<1>1. PICK a \in Adverts :
    /\ DOMAIN routes' \subseteq Re \cup {new}
    /\ routes'[new] = NewEntry(a)
    /\ \A i \in DOMAIN routes' \ {new} :
         /\ i \in Re
         /\ routes'[i].adv = routes[i].adv
         /\ routes'[i].active = routes[i].active
         /\ routes[i].removed => routes'[i].removed
    /\ LET S == {i \in Re : ~routes[i].removed /\ rib_compare_routes(a, routes[i].adv)}
       IN S # {} => \E s \in S : s \in DOMAIN routes' => routes'[s].removed
  BY EarlyAddIs, Zenon
<1>2. /\ UNCHANGED <<selected_fib, permit, dg_update_list, work_list, rib_dplane_q,
                     kern, nlq>>
      /\ early # << >> /\ early' = Tail(early)
  BY Zenon DEF process_subq_early_route_add, dplane
<1>3. early \in Seq(EarlyRoute) /\ new \notin Re /\ SelectedFibLinked
  BY DEF TypeInv, TypeOK
<1>4. selected_fib \in Re => selected_fib \in DOMAIN routes' \ {new}
  BY <1>3, EarlyAddEffect, Zenon
<1>5. qindex' < MQ_SIZE
  BY EarlyAddEffect, Zenon
<1> HIDE DEF new
<1>6. NothingLost'
  BY <1>2, <1>3, TailAll, Zenon DEF FibInv, NothingLost
<1>7. ASSUME OnItsWay PROVE OnItsWay'
  <2>1. Intended' = Intended
    BY <1>1, <1>2, <1>3, <1>4, IntendedSame, Zenon
  <2> QED BY <1>2, <1>7, <2>1, Zenon DEF OnItsWay
<1>8. FibUsable'
  <2>1. selected_fib # NULL => selected_fib \in DOMAIN routes' \ {new}
    BY <1>3, <1>4, Zenon DEF SelectedFibLinked
  <2>2. selected_fib # NULL => /\ routes'[selected_fib].adv = routes[selected_fib].adv
                               /\ routes'[selected_fib].active = routes[selected_fib].active
    BY <1>1, <2>1, Zenon
  <2> QED BY <1>2, <2>2, Zenon DEF FibInv, FibUsable
<1>9. Settled'
  BY <1>5, Zenon DEF Settled, Queued
<1>10. OneOfAKind'
  <2> DEFINE S == {i \in Re : ~routes[i].removed /\ rib_compare_routes(a, routes[i].adv)}
  <2>0. OneOfAKind
    BY Zenon DEF FibInv
  <2>1. routes'[new].adv = a
    BY <1>1 DEF NewEntry
  <2>2. \A x, y : rib_compare_routes(x, y) => rib_compare_routes(y, x)
    BY Zenon DEF rib_compare_routes
  <2>3. \A x, y, z : rib_compare_routes(x, y) /\ rib_compare_routes(x, z)
                       => rib_compare_routes(y, z)
    BY Zenon DEF rib_compare_routes
  <2>4. \A i, j \in S : i = j
    BY <2>0, <2>3, Zenon DEF OneOfAKind
  <2>5. ASSUME NEW j \in DOMAIN routes', j # new, ~routes'[j].removed,
               rib_compare_routes(a, routes'[j].adv)
        PROVE  FALSE
    <3>1. j \in S
      BY <1>1, <2>5, Zenon
    <3>2. PICK s \in S : s \in DOMAIN routes' => routes'[s].removed
      BY <1>1, <3>1, Zenon
    <3>3. s = j
      BY <2>4, <3>1, <3>2, Zenon
    <3> QED BY <2>5, <3>2, <3>3, Zenon
  <2>6. ASSUME NEW i \in DOMAIN routes', NEW j \in DOMAIN routes',
               ~routes'[i].removed, ~routes'[j].removed,
               rib_compare_routes(routes'[i].adv, routes'[j].adv), i # j
        PROVE  FALSE
    <3>1. CASE i = new
      BY <2>1, <2>5, <2>6, <3>1, Zenon
    <3>2. CASE j = new
      BY <2>1, <2>2, <2>5, <2>6, <3>2, Zenon
    <3>3. CASE i # new /\ j # new
      <4>1. /\ i \in Re /\ j \in Re /\ ~routes[i].removed /\ ~routes[j].removed
            /\ rib_compare_routes(routes[i].adv, routes[j].adv)
        BY <1>1, <2>6, <3>3, Zenon
      <4> QED BY <2>0, <2>6, <4>1, Zenon DEF OneOfAKind
    <3> QED BY <3>1, <3>2, <3>3, Zenon
  <2> HIDE DEF S
  <2> QED BY <2>6, Zenon DEF OneOfAKind, Re
<1> QED BY <1>6, <1>7, <1>8, <1>9, <1>10, Zenon DEF FibInv

-----------------------------------------------------------------------------
(* rib_process. *)

\* The context handed over takes the kernel from what the old entry meant to what
\* the new one means.
Route(e) == IF e.adv.type \in SystemTypes \/ ~e.active THEN None
            ELSE [type |-> e.adv.type, nh |-> e.adv.nh]

LEMMA PutInstall ==
  ASSUME NEW rts, NEW new, rts[new].active, NEW k,
         rts[new].adv.type \in SystemTypes => k = None
  PROVE  Put(MkCtx(rts, "INSTALL", new, NULL), k) = Route(rts[new])
<1> DEFINE c == MkCtx(rts, "INSTALL", new, NULL)
<1>1. /\ c.op = "INSTALL" /\ ~c.same_nhg /\ c.type = rts[new].adv.type
      /\ c.nh = rts[new].adv.nh
  BY Zenon DEF MkCtx
<1> HIDE DEF c
<1>2. Put(c, k) = Route(rts[new])
  BY <1>1, Zenon DEF Put, Route
<1> QED BY <1>2, Zenon DEF c

LEMMA PutUpdate ==
  ASSUME NEW rts, NEW new, NEW old, rts[new].active, NEW k,
         k = None \/ (k = [type |-> rts[old].adv.type, nh |-> rts[old].adv.nh]
                      /\ rts[old].adv.type \notin SystemTypes),
         MkCtx(rts, "UPDATE", new, old).same_nhg => k = Route(rts[new])
  PROVE  Put(MkCtx(rts, "UPDATE", new, old), k) = Route(rts[new])
<1> DEFINE c == MkCtx(rts, "UPDATE", new, old)
<1>1. /\ c.op = "UPDATE" /\ c.type = rts[new].adv.type
      /\ c.nh = rts[new].adv.nh /\ c.old_type = rts[old].adv.type
  BY Zenon DEF MkCtx
<1>2. c.same_nhg => k = Route(rts[new])
  OBVIOUS
<1> HIDE DEF c
<1>3. k # None => k.type = c.old_type /\ c.old_type \notin SystemTypes
  BY <1>1
<1>4. Put(c, k) = Route(rts[new])
  BY <1>1, <1>2, <1>3, Zenon DEF Put, Route
<1> QED BY <1>4, Zenon DEF c

LEMMA PutDelete ==
  ASSUME NEW rts, NEW new, NEW k,
         k = None \/ (k = [type |-> rts[new].adv.type, nh |-> rts[new].adv.nh]
                      /\ rts[new].adv.type \notin SystemTypes)
  PROVE  Put(MkCtx(rts, "DELETE", new, NULL), k) = None
<1> DEFINE c == MkCtx(rts, "DELETE", new, NULL)
<1>1. /\ c.op = "DELETE" /\ ~c.same_nhg /\ c.type = rts[new].adv.type
      /\ c.old_type = rts[new].adv.type
  BY Zenon DEF MkCtx
<1> HIDE DEF c
<1>2. k # None => k.type = c.old_type /\ c.type \notin SystemTypes
  BY <1>1
<1>3. Put(c, k) = None
  BY <1>1, <1>2, Zenon DEF Put
<1> QED BY <1>3, Zenon DEF c

LEMMA IntendedRoute ==
  Intended = IF selected_fib = NULL THEN None ELSE Route(routes[selected_fib])
BY Zenon DEF Intended, Route, System, TypeOf

\* The short cut of the kernel provider is sound: an update to the same nexthop
\* group starts from a route that is in the kernel, or on its way there.
LEMMA ShortCut ==
  ASSUME TypeInv, FibInv, NoTwins, selected_fib # NULL, NEW n,
         NEW f \in Usable(Examined),
         MkCtx(Chosen(Examined, n), "UPDATE", f, selected_fib).same_nhg
  PROVE  Intended = Route(Chosen(Examined, n)[f])
<1> DEFINE old == selected_fib
           ch  == Chosen(Examined, n)
<1>1. /\ DOMAIN Examined = Re
      /\ \A i \in Re : /\ Examined[i] \in Entry
                       /\ Examined[i].adv = routes[i].adv
                       /\ Examined[i].removed = routes[i].removed
                       /\ routes[i].removed \/ ~routes[i].changed
                            => Examined[i] = routes[i]
  BY ExaminedIs, Zenon
<1>2. old \in Re /\ f \in Re /\ \A i \in Re : routes[i].adv \in Adverts
  BY <1>1, EntryParts, Zenon DEF TypeInv, TypeOK, SelectedFibLinked, Usable
<1>3. \A i \in Re : Same(Examined[i], ch[i])
  BY <1>1, ChosenIs
<1>4. /\ KernelNexthops /\ old # f
      /\ ch[old].adv.type = ch[f].adv.type /\ ch[old].adv.nh = ch[f].adv.nh
      /\ ch[old].active = ch[f].active
  BY Zenon DEF MkCtx
<1> HIDE DEF ch
<1>5. /\ ch[f].active /\ ~routes[f].removed
      /\ routes[f].adv.distance # DISTANCE_INFINITY
      /\ ch[f].adv = routes[f].adv /\ ch[old].adv = routes[old].adv
      /\ ch[old].active = Examined[old].active
  BY <1>1, <1>2, <1>3, Zenon DEF Usable, Same
<1>6. routes[old].active
  <2> SUFFICES ASSUME ~routes[old].active PROVE FALSE
    OBVIOUS
  <2>1. ~routes[old].removed
    BY <1>1, <1>2, <1>4, <1>5, Zenon
  <2>2. "rmap" \in Events /\ routes[old].adv.distance # DISTANCE_INFINITY
    BY Zenon DEF FibInv, FibUsable
  <2>3. rib_compare_routes(routes[old].adv, routes[f].adv)
    BY <1>2, <1>4, <1>5, <2>2, Zenon DEF NoTwins
  <2>4. OneOfAKind
    BY Zenon DEF FibInv
  <2> QED BY <1>2, <1>4, <1>5, <2>1, <2>3, <2>4, Zenon DEF OneOfAKind
<1>7. Intended = Route(routes[old])
  BY IntendedRoute, Zenon
<1>8. Route(routes[old]) = Route(ch[f])
  BY <1>4, <1>5, <1>6, Zenon DEF Route
<1> QED BY <1>7, <1>8, Zenon DEF ch

LEMMA FibProcess ==
  ASSUME TypeInv, FibInv, "enqueue" \notin Faults, rib_process
  PROVE  FibInv' /\ (OnItsWay /\ NoTwins => OnItsWay')
<1>1. PICK n \in Re \cup {NULL}, f \in Re \cup {NULL} :
    /\ WantedIn(Examined, f)
    /\ \/ /\ f # NULL /\ selected_fib = NULL
          /\ Handed(Examined, n, "INSTALL", f, NULL) /\ selected_fib' = f
       \/ /\ f # NULL /\ selected_fib # NULL
          /\ f # selected_fib \/ Examined[f].changed
          /\ Handed(Examined, n, "UPDATE", f, selected_fib) /\ selected_fib' = f
       \/ /\ f # NULL /\ selected_fib = f /\ ~Examined[f].changed
          /\ ~Examined[f].installed \/ Examined[f].adv.type \in SystemTypes
          /\ Handed(Examined, n, "INSTALL", f, NULL) /\ selected_fib' = f
       \/ /\ f # NULL /\ selected_fib = f /\ ~Examined[f].changed
          /\ Examined[f].installed /\ Examined[f].adv.type \notin SystemTypes
          /\ Nothing(Examined, n) /\ selected_fib' = f
       \/ /\ f = NULL /\ selected_fib # NULL
          /\ Handed(Examined, n, "DELETE", selected_fib, NULL)
          /\ selected_fib' = IF routes[selected_fib].removed THEN NULL ELSE selected_fib
       \/ /\ f = NULL /\ selected_fib = NULL
          /\ Nothing(Examined, n) /\ selected_fib' = NULL
  BY ProcessCases, Zenon
<1> DEFINE ch == Chosen(Examined, n)
           old == selected_fib
<1>2. UNCHANGED <<early, permit, work_list, rib_dplane_q, kern, nlq>>
  BY Zenon DEF rib_process
<1>3. /\ \A i \in Re : routes[i] \in Entry /\ routes[i].adv.type \in Types
      /\ NULL \notin Re /\ (old # NULL => old \in Re)
      /\ dg_update_list \in Seq(Ctx) /\ seq \in Nat
  BY EntryParts DEF TypeInv, TypeOK, SelectedFibLinked, NULL
<1>4. /\ DOMAIN Examined = Re
      /\ \A i \in Re :
           /\ Examined[i] \in Entry
           /\ Examined[i].adv = routes[i].adv
           /\ Examined[i].removed = routes[i].removed
           /\ IF ~routes[i].removed /\ routes[i].changed
              THEN /\ Examined[i].active = permit[TypeOf(i)]
                   /\ Examined[i].changed = (Examined[i].active # routes[i].active)
              ELSE Examined[i] = routes[i]
  BY ExaminedIs, Zenon
<1>5. /\ DOMAIN ch = Re
      /\ \A i \in Re : ch[i] \in Entry /\ Same(Examined[i], ch[i])
  BY <1>4, ChosenIs
<1>6. Processed(n)
  <2>1. \/ \E op, new, o : Handed(Examined, n, op, new, o)
        \/ Nothing(Examined, n)
    BY <1>1, Zenon
  <2> QED BY <2>1, Zenon DEF Handed, Nothing, Processed
<1>7. /\ DOMAIN routes' = Re \ Removed(routes)
      /\ \A i \in DOMAIN routes' : /\ i \in Re /\ ~routes[i].removed
                                   /\ Same(Examined[i], routes'[i])
  BY <1>6, ProcessKeeps, Zenon
<1> HIDE DEF ch, old
<1>8. f # NULL => f \in Usable(Examined)
  BY <1>1, WantedUsable, Zenon
<1>9. f = NULL => Usable(Examined) = {}
  BY <1>1, <1>3, <1>4, WantedUsable, Zenon
<1>10. f # NULL => f \in DOMAIN routes' /\ Examined[f].active
                   /\ routes[f].adv.distance # DISTANCE_INFINITY
  BY <1>4, <1>7, <1>8, Zenon DEF Usable, Removed, Re
<1>11. selected_fib' \in {f, old} /\ (selected_fib' # NULL => selected_fib' \in DOMAIN routes')
       /\ (f # NULL => selected_fib' = f)
  <2>1. selected_fib' \in {f, old} /\ (f # NULL => selected_fib' = f)
        /\ (f = NULL /\ selected_fib' # NULL => old # NULL /\ ~routes[old].removed
              /\ selected_fib' = old)
    BY <1>1, Zenon DEF old, NULL
  <2>2. ASSUME f = NULL, selected_fib' # NULL PROVE selected_fib' \in DOMAIN routes'
    BY <1>3, <1>7, <2>1, <2>2, Zenon DEF Removed, Re
  <2> QED BY <1>10, <2>1, <2>2, Zenon
<1>12. NothingLost'
  BY <1>2, Zenon DEF FibInv, NothingLost
<1>13. OneOfAKind'
  <2>0. OneOfAKind
    BY Zenon DEF FibInv
  <2>1. \A i \in DOMAIN routes' : i \in Re /\ ~routes[i].removed
                                  /\ routes'[i].adv = routes[i].adv
    BY <1>4, <1>7, Zenon DEF Same
  <2> QED BY <2>0, <2>1, Zenon DEF OneOfAKind, Re
<1>14. FibUsable'
  <2>1. ASSUME selected_fib' # NULL
        PROVE  /\ routes'[selected_fib'].adv.distance # DISTANCE_INFINITY
               /\ "rmap" \notin Events => routes'[selected_fib'].active
    <3>1. CASE f # NULL
      BY <1>4, <1>7, <1>10, <1>11, <3>1, Zenon DEF Same
    <3>2. CASE f = NULL
      <4>1. selected_fib' = old /\ old \in Re /\ old # NULL /\ old \in DOMAIN routes'
        BY <1>3, <1>11, <2>1, <3>2, Zenon
      <4>2. /\ routes[old].adv.distance # DISTANCE_INFINITY
            /\ "rmap" \notin Events => routes[old].active /\ permit[TypeOf(old)]
        BY <1>3, <4>1, Zenon DEF FibInv, FibUsable, old, TypeOf
      <4> QED BY <1>4, <1>7, <4>1, <4>2, Zenon DEF Same
    <3> QED BY <3>1, <3>2, Zenon
  <2> QED BY <1>2, <2>1, Zenon DEF FibInv, FibUsable
<1>15. Settled'
  <2>1. /\ DOMAIN routes' \subseteq DOMAIN Examined
        /\ \A i \in DOMAIN Examined \ DOMAIN routes' : Examined[i].removed
        /\ \A i \in DOMAIN routes' : Same(Examined[i], routes'[i])
    BY <1>4, <1>7, Zenon DEF Removed, Re
  <2>2. WantedIn(routes', f)
    BY <1>1, <2>1, WantedSame, Zenon
  <2>3. f \in DOMAIN routes' \cup {NULL}
    BY <1>10, Zenon
  <2> QED BY <1>11, <2>2, <2>3, Zenon DEF Settled, Re
<1>16. ASSUME OnItsWay, NoTwins PROVE OnItsWay'
  <2>1. PICK mid : Leads(work_list, kern, mid) /\ Leads(dg_update_list, mid, Intended)
    BY <1>16, Zenon DEF OnItsWay
  <2>2. \A k \in 1..Len(work_list) : ~work_list[k].same_nhg
    BY <1>16, Zenon DEF OnItsWay
  <2>3. ASSUME Leads(dg_update_list', mid, Intended') PROVE OnItsWay'
    BY <1>2, <2>1, <2>2, <2>3, Zenon DEF OnItsWay
  <2>4. ASSUME NEW op \in DPLANE_OPS, NEW new \in Re, NEW o, op = "UPDATE" => o \in Re,
               Handed(Examined, n, op, new, o),
               Put(MkCtx(ch, op, new, o), Intended) = Intended'
        PROVE  OnItsWay'
    <3> DEFINE c == MkCtx(ch, op, new, o)
    <3>1. c \in Ctx
      BY <1>3, <1>5, <2>4, MkCtxType, Zenon
    <3>2. dg_update_list' = Append(dg_update_list, c)
      BY <2>4, Zenon DEF Handed, ch
    <3> HIDE DEF c
    <3>3. Leads(dg_update_list', mid, Put(c, Intended))
      BY <1>3, <2>1, <3>1, <3>2, LeadsAppend, Zenon
    <3> QED BY <2>3, <2>4, <3>3, Zenon DEF c
  <2>5. Intended = IF old = NULL THEN None ELSE Route(routes[old])
    BY IntendedRoute, Zenon DEF old
  <2>6. Intended' = IF selected_fib' = NULL THEN None ELSE Route(routes'[selected_fib'])
    BY Zenon DEF Intended, Route, System, TypeOf
  <2>7. \A i \in DOMAIN routes' : Route(routes'[i]) = Route(ch[i])
    BY <1>5, <1>7, Zenon DEF Same, Route
  <2>8. old # NULL => \/ Intended = None
                      \/ /\ Intended = [type |-> ch[old].adv.type, nh |-> ch[old].adv.nh]
                         /\ ch[old].adv.type \notin SystemTypes
    BY <1>3, <1>4, <1>5, <2>5, Zenon DEF Same, Route
  <2>9. f # NULL => f \in Re /\ Intended' = Route(ch[f]) /\ ch[f].active
    BY <1>5, <1>7, <1>10, <1>11, <2>6, <2>7 DEF Same
  <2>10. DPLANE_OPS = {"INSTALL", "UPDATE", "DELETE"}
    BY Zenon DEF DPLANE_OPS
  <2>11. CASE f # NULL /\ old = NULL /\ Handed(Examined, n, "INSTALL", f, NULL)
    <3>1. Intended = None
      BY <2>5, <2>11, Zenon
    <3>2. Put(MkCtx(ch, "INSTALL", f, NULL), Intended) = Route(ch[f])
      BY <2>9, <2>11, <3>1, PutInstall, Zenon
    <3> QED BY <2>4, <2>9, <2>10, <2>11, <3>2, Zenon
  <2>12. CASE f # NULL /\ old # NULL /\ Handed(Examined, n, "UPDATE", f, old)
    <3>1. MkCtx(ch, "UPDATE", f, old).same_nhg => Intended = Route(ch[f])
      BY <1>8, <1>16, <2>12, ShortCut, Zenon DEF ch, old
    <3>2. Put(MkCtx(ch, "UPDATE", f, old), Intended) = Route(ch[f])
      BY <2>8, <2>9, <2>12, <3>1, PutUpdate, Zenon
    <3> QED BY <1>3, <2>4, <2>9, <2>10, <2>12, <3>2, Zenon
  <2>13. CASE f # NULL /\ old = f /\ Handed(Examined, n, "INSTALL", f, NULL)
    <3>1. ch[f].adv.type \in SystemTypes => Intended = None
      BY <2>8, <2>13, Zenon
    <3>2. Put(MkCtx(ch, "INSTALL", f, NULL), Intended) = Route(ch[f])
      BY <2>9, <2>13, <3>1, PutInstall, Zenon
    <3> QED BY <2>4, <2>9, <2>10, <2>13, <3>2, Zenon
  <2>14. CASE f # NULL /\ old = f /\ ~Examined[f].changed /\ Nothing(Examined, n)
    <3>1. Examined[f].active = routes[f].active
      BY <1>4, <2>9, <2>14, Zenon
    <3>2. Route(ch[f]) = Route(routes[f])
      <4>1. ch[f].adv = routes[f].adv /\ ch[f].active = routes[f].active
        BY <1>4, <1>5, <2>9, <2>14, <3>1, Zenon DEF Same
      <4> QED BY <4>1, Zenon DEF Route
    <3>3. Intended' = Intended
      BY <2>5, <2>9, <2>14, <3>2, Zenon
    <3> QED BY <2>1, <2>3, <2>14, <3>3, Zenon DEF Nothing
  <2>15. CASE /\ f = NULL /\ old # NULL /\ Handed(Examined, n, "DELETE", old, NULL)
              /\ selected_fib' = IF routes[old].removed THEN NULL ELSE old
    <3>1. Intended' = None
      <4>1. CASE routes[old].removed
        BY <2>6, <2>15, <4>1, Zenon
      <4>2. CASE ~routes[old].removed
        <5>1. selected_fib' = old /\ old \in Re /\ old \in DOMAIN routes'
          BY <1>3, <1>11, <2>15, <4>2, Zenon
        <5>2. ~Examined[old].active
          <6>1. routes[old].adv.distance # DISTANCE_INFINITY
            BY <2>15, Zenon DEF FibInv, FibUsable, old
          <6> QED BY <1>4, <1>9, <2>15, <4>2, <5>1, <6>1, Zenon DEF Usable
        <5>3. ~routes'[old].active
          BY <1>7, <5>1, <5>2, Zenon DEF Same
        <5> QED BY <2>6, <2>15, <5>1, <5>3, Zenon DEF Route
      <4> QED BY <4>1, <4>2, Zenon
    <3>2. Put(MkCtx(ch, "DELETE", old, NULL), Intended) = None
      BY <2>8, <2>15, PutDelete, Zenon
    <3> QED BY <1>3, <2>4, <2>10, <2>15, <3>1, <3>2, Zenon
  <2>16. CASE f = NULL /\ old = NULL /\ Nothing(Examined, n) /\ selected_fib' = NULL
    BY <2>1, <2>3, <2>5, <2>6, <2>16, Zenon DEF Nothing
  <2> QED BY <1>1, <2>11, <2>12, <2>13, <2>14, <2>15, <2>16, Zenon DEF old
<1> QED BY <1>12, <1>13, <1>14, <1>15, <1>16, Zenon DEF FibInv

LEMMA FibStep ==
  ASSUME TypeInv, FibInv, "enqueue" \notin Faults, "lost" \notin Events, [Next]_vars
  PROVE  FibInv' /\ (OnItsWay /\ NoTwins /\ "kernel" \notin Faults => OnItsWay')
<1>1. CASE Input
  BY <1>1, FibInput, Zenon
<1>2. CASE DplaneThread
  BY <1>2, FibDplane, WayDplane, Zenon
<1>3. CASE MainThread
  <2>1. ASSUME rib_process_kernel_route_notif PROVE FALSE
    <3>1. rib_dplane_q \in Seq(Result) /\ rib_dplane_q # << >>
          /\ Head(rib_dplane_q).kind # "result"
      BY <2>1, Zenon DEF rib_process_kernel_route_notif, TypeInv, TypeOK
    <3>2. 1 \in 1..Len(rib_dplane_q) /\ Head(rib_dplane_q) = rib_dplane_q[1]
      BY <3>1
    <3> QED BY <3>1, <3>2, Zenon DEF FibInv, NothingLost
  <2> QED BY <1>3, <2>1, FibEarlyAdd, FibEarlyDelete, FibProcess, FibResult, Zenon
          DEF MainThread
<1>4. CASE UNCHANGED vars
  <2>1. UNCHANGED <<routes, selected_fib, qindex, early, permit, dg_update_list,
                    work_list, rib_dplane_q, kern, nlq>>
    BY <1>4, Zenon DEF vars, dplane
  <2> QED BY <2>1, Zenon DEF FibInv, OnItsWay, Intended, System, TypeOf, NothingLost,
                      OneOfAKind, FibUsable, Settled, Queued, Re
<1> QED BY <1>1, <1>2, <1>3, <1>4, Zenon DEF Next

LEMMA InitFibInv == Init => FibInv /\ OnItsWay
<1> SUFFICES ASSUME Init PROVE FibInv /\ OnItsWay
  OBVIOUS
<1>1. Intended = None /\ kern = None /\ None \in Kernel
  BY Zenon DEF Init, Intended, Kernel
<1>2. work_list = << >> /\ dg_update_list = << >> /\ Len(<< >>) = 0
  BY Zenon DEF Init
<1>3. OnItsWay
  BY <1>1, <1>2, LeadsNil DEF OnItsWay
<1>4. NothingLost
  BY DEF Init, NothingLost
<1>5. Re = {}
  BY Zenon DEF Init, Re
<1>6. OneOfAKind
  BY <1>5, Zenon DEF OneOfAKind
<1>7. FibUsable
  BY Zenon DEF Init, FibUsable
<1>8. Settled
  <2>1. Usable(routes) = {}
    BY <1>5, Zenon DEF Usable, Re
  <2>2. WantedIn(routes, NULL)
    BY <2>1, Zenon DEF WantedIn, IsBest
  <2> QED BY <2>2, Zenon DEF Settled, Init
<1> QED BY <1>3, <1>4, <1>6, <1>7, <1>8, Zenon DEF FibInv

\* At rest the queues hand the kernel nothing more, so it holds what selected_fib
\* stands for, and the selection is up to date.
LEMMA FibAtRest ==
  ASSUME TypeInv, FibInv, OnItsWay, RemovedQueued
  PROVE  FibMatchesRib
<1> SUFFICES ASSUME Quiet PROVE FibMatchesRib!2
  BY Zenon DEF FibMatchesRib
<1>1. kern = Intended
  <2>1. PICK mid : Leads(<< >>, kern, mid) /\ Leads(<< >>, mid, Intended)
    BY Zenon DEF Quiet, OnItsWay
  <2> QED BY <2>1, LeadsNil, Zenon
<1>2. PICK i \in Re \cup {NULL} : WantedIn(routes, i) /\ (i # NULL => selected_fib = i)
  BY Zenon DEF FibInv, Settled, Quiet
<1>3. Wanted(i)
  BY <1>2, Zenon DEF Wanted, WantedIn
<1>4. CASE i # NULL
  <2>1. i \in Usable(routes)
    BY <1>2, <1>4, WantedUsable, Zenon
  <2> QED BY <1>1, <1>2, <1>3, <1>4, <2>1, Zenon DEF Usable, Intended
<1>5. CASE i = NULL
  <2>1. Usable(routes) = {}
    <3>1. NULL \notin DOMAIN routes
      BY DEF TypeInv, TypeOK, Re, NULL
    <3> QED BY <1>2, <1>5, <3>1, WantedUsable, Zenon
  <2>2. kern = None
    <3>1. ASSUME selected_fib # NULL PROVE ~routes[selected_fib].active
      <4>1. selected_fib \in Re /\ ~routes[selected_fib].removed
        BY <3>1, Zenon DEF TypeInv, SelectedFibLinked, RemovedQueued, Quiet
      <4>2. routes[selected_fib].adv.distance # DISTANCE_INFINITY
        BY <3>1, Zenon DEF FibInv, FibUsable
      <4> QED BY <2>1, <4>1, <4>2, Zenon DEF Usable, Re
    <3> QED BY <1>1, <3>1, Zenon DEF Intended
  <2> QED BY <1>3, <1>5, <2>2, Zenon
<1> QED BY <1>4, <1>5, Zenon

\* Once both pthreads are idle the kernel holds exactly the nexthop of the best
\* usable entry, and that entry is dest->selected_fib: for any set of protocols and
\* announcements, any number of inputs and any interleaving of the two pthreads, if
\* the kernel accepts what it is given and loses nothing, and no two usable
\* announcements of a protocol share a nexthop group while route-maps change.  Its
\* answers may be lost.
THEOREM RibFibMatches ==
  ASSUME "kernel" \notin Faults, "enqueue" \notin Faults, "lost" \notin Events, NoTwins
  PROVE  Spec => []FibMatchesRib
<1>1. Init => FibInv /\ OnItsWay
  BY InitFibInv, Zenon
<1>2. TypeInv /\ FibInv /\ OnItsWay /\ [Next]_vars => FibInv' /\ OnItsWay'
  BY FibStep, Zenon
<1>3. TypeInv /\ FibInv /\ OnItsWay /\ RemovedQueued => FibMatchesRib
  BY FibAtRest, Zenon
<1>4. Init => TypeInv
  BY InitTypeInv, Zenon
<1>5. TypeInv /\ [Next]_vars => TypeInv'
  BY TypeInvStep, Zenon
<1>6. Spec => []RemovedQueued
  BY RibRemovedQueued, PTL
<1> QED BY <1>1, <1>2, <1>3, <1>4, <1>5, <1>6, PTL DEF Spec

-----------------------------------------------------------------------------
(* Which entries carry the verdict of the current route-map. *)

\* Every type is filed behind the sub-queues the mask covers.
BehindMask == \A t \in Types : meta_q_map[t] > 5

AllJudged == \A i \in Re : Judged(i)

\* A step loses no verdict that was in force or due, or is the route-map change that
\* passes over a node it sees queued.
Kept(i) == \/ Judged(i)'
           \/ i \in Re /\ ~Judged(i)
           \/ AnyQueued /\ permit'[TypeOf(i)'] # permit[TypeOf(i)']

\* What a deletion leaves alone, whether it came from a client or from the kernel.
LEMMA EarlyDeleteKeeps ==
  ASSUME TypeInv, process_subq_early_route_delete
  PROVE  /\ DOMAIN routes' = Re
         /\ \A i \in Re : /\ routes'[i].adv = routes[i].adv
                          /\ routes'[i].active = routes[i].active
                          /\ routes'[i].changed = routes[i].changed
                          /\ routes[i].removed => routes'[i].removed
<1> DEFINE Spared(s) == /\ DOMAIN s = Re
                        /\ \A i \in Re : /\ s[i].adv = routes[i].adv
                                         /\ s[i].active = routes[i].active
                                         /\ s[i].changed = routes[i].changed
                                         /\ routes[i].removed => s[i].removed
<1>1. \A i \in Re : routes[i] \in Entry
  BY Zenon DEF TypeInv, TypeOK
<1>2. ASSUME NEW k \in Re
      PROVE  Spared([routes EXCEPT ![k].removed = TRUE])
  <2> DEFINE s == [routes EXCEPT ![k].removed = TRUE]
  <2>1. /\ DOMAIN s = Re
        /\ \A i \in Re : s[i] = IF i = k THEN [routes[i] EXCEPT !.removed = TRUE]
                                 ELSE routes[i]
    BY Zenon DEF Re
  <2>2. \A e \in Entry : LET d == [e EXCEPT !.removed = TRUE]
                         IN /\ d.adv = e.adv /\ d.active = e.active
                            /\ d.changed = e.changed /\ d.removed
    BY Zenon DEF Entry
  <2> HIDE DEF s
  <2> QED BY <1>1, <2>1, <2>2 DEF s
<1>3. ASSUME NEW k \in Re
      PROVE  /\ Spared([routes EXCEPT ![k].installed = FALSE])
             /\ \A i \in Re : [routes EXCEPT ![k].installed = FALSE][i] \in Entry
  <2> DEFINE s == [routes EXCEPT ![k].installed = FALSE]
  <2>1. /\ DOMAIN s = Re
        /\ \A i \in Re : s[i] = IF i = k THEN [routes[i] EXCEPT !.installed = FALSE]
                                 ELSE routes[i]
    BY Zenon DEF Re
  <2>2. \A e \in Entry : LET d == [e EXCEPT !.installed = FALSE]
                         IN /\ d \in Entry /\ d.adv = e.adv /\ d.active = e.active
                            /\ d.changed = e.changed /\ d.removed = e.removed
    BY Zenon DEF Entry
  <2> HIDE DEF s
  <2> QED BY <1>1, <2>1, <2>2 DEF s
<1>4. ASSUME NEW k \in Re, Reinstall(k)
      PROVE  Spared(routes')
  <2> DEFINE s == [routes EXCEPT ![k].installed = FALSE]
             d == Stamp(s, "INSTALL", k, NULL)
  <2>1. routes' = Drop(d, {}) \/ routes' = Drop(s, {})
    BY <1>4, Zenon DEF Reinstall, Enqueue
  <2>2. Spared(s) /\ \A i \in Re : s[i] \in Entry
    BY <1>3, Zenon
  <2>3. seq \in Nat
    BY Zenon DEF TypeInv, TypeOK
  <2> HIDE DEF s
  <2>4. DOMAIN d = Re /\ \A i \in Re : Same(s[i], d[i]) /\ d[i].changed = s[i].changed
    BY <2>2, <2>3, StampIs
  <2> HIDE DEF d
  <2>5. Spared(d)
    BY <2>2, <2>4, Zenon DEF Same
  <2>6. ASSUME NEW x, Spared(x) PROVE Spared(Drop(x, {}))
    BY <2>6, Zenon DEF Drop
  <2> HIDE DEF Spared
  <2> QED BY <2>1, <2>2, <2>5, <2>6, Zenon
<1>5. Deleted(Head(early)) # NULL => Deleted(Head(early)) \in Re
  BY FirstMember, Zenon DEF Deleted, TypeInv, TypeOK
<1>6. selected_fib # NULL => selected_fib \in Re
  BY Zenon DEF TypeInv, SelectedFibLinked
<1>7. ASSUME routes' = routes PROVE Spared(routes')
  BY <1>7, Zenon DEF Re
<1>8. ASSUME NEW k \in Re, Delnode(k) PROVE Spared(routes')
  BY <1>2, <1>8, Zenon DEF Delnode
<1> HIDE DEF Spared
<1>9. Spared(routes')
  BY <1>3, <1>4, <1>5, <1>6, <1>7, <1>8, Zenon DEF process_subq_early_route_delete
<1> QED BY <1>9, Zenon DEF Spared

LEMMA JudgedStep ==
  ASSUME TypeInv, [Next]_vars, NEW i \in DOMAIN routes'
  PROVE  Kept(i)
<1>0. /\ \A k \in Re : routes[k] \in Entry /\ TypeOf(k) \in Types
      /\ qindex \in {MQ_SIZE} \cup {meta_q_map[t] : t \in Types}
      /\ permit \in [Types -> BOOLEAN]
  BY EntryParts, Zenon DEF TypeInv, TypeOK, TypeOf
<1>1. ASSUME DOMAIN routes' = Re, permit' = permit,
             \A k \in Re : /\ routes'[k].adv = routes[k].adv
                           /\ routes'[k].active = routes[k].active
                           /\ routes'[k].changed = routes[k].changed
                           /\ routes[k].removed => routes'[k].removed,
             qindex' = qindex \/ Queued'
      PROVE  Kept(i)
  BY <1>1, Zenon DEF Kept, Judged, TypeOf, Queued, Re
<1>2. CASE UNCHANGED <<routes, permit, qindex>>
  BY <1>2, Zenon DEF Kept, Judged, TypeOf, Queued, Re
<1>3. ASSUME NEW t \in Types, ip_protocol_rm(t)
      PROVE  Kept(i)
  <2>1. permit' = [permit EXCEPT ![t] = ~@]
    BY <1>3, Zenon DEF ip_protocol_rm
  <2>2. \A k \in Re : IF TypeOf(k) # t THEN permit'[TypeOf(k)] = permit[TypeOf(k)]
                                       ELSE permit'[TypeOf(k)] # permit[TypeOf(k)]
    BY <1>0, <2>1, Zenon
  <2>3. CASE AnyQueued \/ {k \in Re : TypeOf(k) = t} = {}
    <3>1. UNCHANGED <<routes, qindex>>
      BY <1>3, <2>3, Zenon DEF ip_protocol_rm, rib_update_table
    <3>2. i \in Re /\ (AnyQueued \/ TypeOf(i) # t)
      BY <2>3, <3>1, Zenon DEF Re
    <3> QED BY <2>2, <3>1, <3>2, Zenon DEF Kept, Judged, TypeOf, Queued, Re
  <2>4. CASE ~AnyQueued /\ {k \in Re : TypeOf(k) = t} # {}
    <3>1. /\ routes' = [k \in Re |-> IF TypeOf(k) = t
                                     THEN [routes[k] EXCEPT !.changed = TRUE]
                                     ELSE routes[k]]
          /\ qindex' = QueueAdd(routes)
      BY <1>3, <2>4, Zenon DEF ip_protocol_rm, rib_update_table
    <3>2. Queued'
      <4>1. QueueAdd(routes) < MQ_SIZE
        BY <1>0, <2>4, QueueAddType, Zenon DEF Re
      <4> QED BY <3>1, <4>1, Zenon DEF Queued
    <3>3. \A e \in Entry : [e EXCEPT !.changed = TRUE].changed
      BY Zenon DEF Entry
    <3>4. i \in Re
      BY <3>1, Zenon
    <3>5. CASE TypeOf(i) = t
      <4>1. routes'[i].changed
        BY <1>0, <3>1, <3>3, <3>4, <3>5, Zenon
      <4> QED BY <3>2, <4>1, Zenon DEF Kept, Judged
    <3>6. CASE TypeOf(i) # t
      <4>1. routes'[i] = routes[i]
        BY <3>1, <3>4, <3>6, Zenon
      <4> QED BY <2>2, <3>2, <3>4, <3>6, <4>1, Zenon DEF Kept, Judged, TypeOf
    <3> QED BY <3>5, <3>6, Zenon
  <2> QED BY <2>3, <2>4, Zenon
<1>4. CASE Input
  BY <1>2, <1>3, <1>4, Zenon DEF Input, rib_add_multipath, rib_delete, KernelRouteLost
<1>5. CASE DplaneThread
  BY <1>2, <1>5, Zenon DEF DplaneThread, kernel_dplane_process_func, kernel_update_multi,
                    dplane_incoming_read
<1>6. CASE process_subq_early_route_delete
  <2>1. permit' = permit
    BY <1>6, Zenon DEF process_subq_early_route_delete
  <2>2. qindex' = qindex \/ Queued'
    BY <1>6, EarlyDeleteEffect, Zenon DEF Queued
  <2> QED BY <1>1, <1>6, <2>1, <2>2, EarlyDeleteKeeps, Zenon
<1>7. CASE process_subq_early_route_add
  <2> DEFINE new == nre + 1
  <2>1. PICK a \in Adverts :
      /\ DOMAIN routes' \subseteq Re \cup {new}
      /\ routes'[new] = NewEntry(a)
      /\ \A k \in DOMAIN routes' \ {new} :
           /\ k \in Re
           /\ routes'[k].adv = routes[k].adv
           /\ routes'[k].active = routes[k].active
           /\ routes'[k].changed = routes[k].changed
           /\ routes[k].removed => routes'[k].removed
    BY <1>7, EarlyAddIs, Zenon
  <2>2. permit' = permit /\ Queued'
    BY <1>7, EarlyAddEffect, Zenon DEF process_subq_early_route_add, Queued
  <2> HIDE DEF new
  <2>3. routes'[new].changed
    BY <2>1 DEF NewEntry
  <2> QED BY <2>1, <2>2, <2>3, Zenon DEF Kept, Judged, TypeOf, Re
<1>8. CASE rib_process
  <2>1. PICK n : Processed(n)
    BY <1>8, ProcessDone, Zenon
  <2>2. i \in Re /\ ~routes[i].removed /\ Same(Examined[i], routes'[i])
    BY <2>1, ProcessKeeps, Zenon
  <2>3. /\ Examined[i].adv = routes[i].adv
        /\ IF ~routes[i].removed /\ routes[i].changed
           THEN Examined[i].active = permit[TypeOf(i)]
           ELSE Examined[i] = routes[i]
    BY <2>2, ExaminedIs, Zenon
  <2>4. permit' = permit
    BY <1>8, Zenon DEF rib_process
  <2> SUFFICES ASSUME Judged(i) PROVE Judged(i)'
    BY <2>2, Zenon DEF Kept
  <2>5. Examined[i].active = permit[TypeOf(i)]
    BY <2>2, <2>3, Zenon DEF Judged
  <2> QED BY <2>2, <2>3, <2>4, <2>5, Zenon DEF Judged, Same, TypeOf
<1>9. CASE rib_process_kernel_route_notif
  BY <1>2, <1>9, Zenon DEF rib_process_kernel_route_notif
<1>10. CASE rib_process_result
  <2>1. UNCHANGED <<permit, qindex>>
    BY <1>10, Zenon DEF rib_process_result
  <2>2. /\ DOMAIN routes' = Re
        /\ \A k \in Re : /\ routes'[k].adv = routes[k].adv
                         /\ routes'[k].active = routes[k].active
                         /\ routes'[k].changed = routes[k].changed
                         /\ routes'[k].removed = routes[k].removed
    BY <1>10, ResultIs, Zenon DEF Same
  <2> QED BY <1>1, <2>1, <2>2, Zenon
<1>11. CASE UNCHANGED vars
  BY <1>2, <1>11, Zenon DEF vars
<1> QED BY <1>4, <1>5, <1>6, <1>7, <1>8, <1>9, <1>10, <1>11, Zenon DEF Next, MainThread

\* No step loses a route-map verdict that is in force or due, for any protocols in
\* any sub-queues and whatever the kernel refuses, loses or answers: an entry comes
\* to carry a stale verdict only in rib_update_table, when the mask
\* RIB_ROUTE_ANY_QUEUED makes a route-map change pass over a queued node.
THEOREM RibVerdictsKept == Spec => VerdictsKept
<1>1. TypeInv /\ [Next]_vars => [\A i \in Re' :
        \/ Judged(i)'
        \/ i \in Re /\ ~Judged(i)
        \/ AnyQueued /\ permit'[TypeOf(i)'] # permit[TypeOf(i)']]_vars
  BY JudgedStep, Zenon DEF Kept, Re
<1>2. Init => TypeInv
  BY InitTypeInv, Zenon
<1>3. TypeInv /\ [Next]_vars => TypeInv'
  BY TypeInvStep, Zenon
<1> QED BY <1>1, <1>2, <1>3, PTL DEF Spec, VerdictsKept

\* If every type is filed behind the mask, no route-map change is passed over.
LEMMA AllJudgedStep ==
  ASSUME TypeInv, AllJudged, BehindMask, [Next]_vars
  PROVE  AllJudged'
<1>1. ~AnyQueued
  <2>1. qindex \in {MQ_SIZE} \cup {meta_q_map[t] : t \in Types}
    BY Zenon DEF TypeInv, TypeOK
  <2> QED BY <2>1, RibAssumption DEF BehindMask, AnyQueued, MQ_SIZE
<1> QED BY <1>1, JudgedStep, Zenon DEF AllJudged, Kept, Re

-----------------------------------------------------------------------------
(* What the other proofs take from here: what a result, a request and the
   other steps do. *)

\* The entries a result finds are the ones that carry its numbers.
LEMMA ResultNames ==
  ASSUME TypeInv, SeqInv, rib_process_result
  PROVE  LET ctx == Head(rib_dplane_q).ctx
         IN /\ ctx \in InFlight /\ InFlight = InFlight' \cup {ctx}
            /\ \A i \in Re : /\ i = ResultRe <=> routes[i].seq = ctx.seq
                             /\ i = ResultOldRe <=> /\ routes[i].seq = ctx.old_seq
                                                    /\ ctx.old_seq # 0
<1> DEFINE ctx == Head(rib_dplane_q).ctx
           S(n) == {j \in Re : routes[j].seq = n}
<1>0. rib_dplane_q \in Seq(Result) /\ Re \subseteq 1..nre /\ nre \in Nat
  BY Zenon DEF TypeInv, TypeOK
<1>1. /\ rib_dplane_q # << >> /\ Head(rib_dplane_q).kind = "result"
      /\ rib_dplane_q' = Tail(rib_dplane_q)
      /\ UNCHANGED <<dg_update_list, work_list>>
  BY Zenon DEF rib_process_result
<1>2. InFlight = InFlight' \cup {ctx}
  <2>1. Answered(rib_dplane_q) = Answered(rib_dplane_q') \cup {ctx}
    BY <1>0, <1>1, AnsweredTail, Zenon
  <2> QED BY <1>1, <2>1, Zenon DEF InFlight
<1>3. ctx.seq # 0
  BY <1>2, Zenon DEF SeqInv, SeqBound
<1>4. ASSUME NEW n, n # 0, NEW i \in Re
      PROVE  i = First(S(n)) <=> routes[i].seq = n
  <2>1. CASE routes[i].seq = n
    <3>1. S(n) = {i}
      BY <1>4, <2>1, Zenon DEF SeqInv, SequenceIdentity
    <3> QED BY <2>1, <3>1 DEF First
  <2>2. CASE routes[i].seq # n
    <3>1. S(n) # {} => First(S(n)) \in S(n)
      BY <1>0, FirstMember, Zenon
    <3>2. S(n) = {} => First(S(n)) \notin Re
      BY <1>0 DEF First, NULL
    <3> QED BY <2>2, <3>1, <3>2, Zenon
  <2> QED BY <2>1, <2>2, Zenon
<1>5. ResultRe = First(S(ctx.seq))
  BY Zenon DEF ResultRe
<1>6. ResultOldRe = IF ctx.old_seq = 0 THEN NULL ELSE First(S(ctx.old_seq))
  BY Zenon DEF ResultOldRe
<1>7. NULL \notin Re
  BY <1>0 DEF NULL
<1> HIDE DEF S, ctx
<1>8. \A i \in Re : i = ResultRe <=> routes[i].seq = ctx.seq
  BY <1>3, <1>4, <1>5, Zenon
<1>9. \A i \in Re : i = ResultOldRe <=> routes[i].seq = ctx.old_seq /\ ctx.old_seq # 0
  BY <1>4, <1>6, <1>7, Zenon
<1> QED BY <1>2, <1>8, <1>9, Zenon DEF ctx

\* What a context handed over by rib_process puts in flight, and on which entries
\* its numbers go.
LEMMA HandedIs ==
  ASSUME TypeInv, NEW n, NEW op \in DPLANE_OPS, NEW new \in Re, NEW old,
         op = "UPDATE" => old \in Re, Handed(Examined, n, op, new, old),
         UNCHANGED <<work_list, rib_dplane_q>>
  PROVE  \E c \in Ctx :
           /\ InFlight' = InFlight \cup {c}
           /\ c.op = op /\ c.seq = seq + 1
           /\ c.old_seq = IF op = "UPDATE" /\ old # new THEN seq + 2 ELSE 0
           /\ c.type = TypeOf(new) /\ c.nh = routes[new].adv.nh
           /\ \A i \in DOMAIN routes' :
                routes'[i].seq = IF i = new THEN seq + 1
                                 ELSE IF i = old /\ op = "UPDATE" THEN seq + 2
                                 ELSE routes[i].seq
<1> DEFINE ch == Chosen(Examined, n)
           c  == MkCtx(ch, op, new, old)
           s  == Stamp(ch, op, new, old)
<1>1. /\ DOMAIN Examined = Re
      /\ \A i \in Re : /\ Examined[i] \in Entry
                       /\ Examined[i].adv = routes[i].adv
                       /\ Examined[i].seq = routes[i].seq
  BY ExaminedIs, Zenon
<1>2. /\ DOMAIN ch = Re
      /\ \A i \in Re : /\ ch[i] \in Entry /\ ch[i].adv = routes[i].adv
                       /\ ch[i].seq = routes[i].seq
  BY <1>1, ChosenIs DEF Same
<1> HIDE DEF ch
<1>3. seq \in Nat /\ dg_update_list \in Seq(Ctx)
  BY Zenon DEF TypeInv, TypeOK
<1>4. c \in Ctx
  BY <1>2, <1>3, MkCtxType, Zenon
<1>5. /\ c.op = op /\ c.seq = seq + 1
      /\ c.old_seq = IF op = "UPDATE" /\ old # new THEN seq + 2 ELSE 0
      /\ c.type = TypeOf(new) /\ c.nh = routes[new].adv.nh
  BY <1>2, Zenon DEF MkCtx, TypeOf
<1>6. /\ DOMAIN s = Re
      /\ \A i \in Re : s[i].seq = IF i = new THEN seq + 1
                                   ELSE IF i = old /\ op = "UPDATE" THEN seq + 2
                                   ELSE ch[i].seq
  <2>1. \A i \in DOMAIN ch : ch[i] \in Entry
    BY <1>2, Zenon
  <2>2. /\ DOMAIN Stamp(ch, op, new, old) = DOMAIN ch
        /\ \A i \in DOMAIN ch :
             LET d == Stamp(ch, op, new, old)[i]
             IN /\ Same(ch[i], d)
                /\ d.selected = ch[i].selected
                /\ d.changed = ch[i].changed
                /\ d.installed = ch[i].installed
                /\ d.failed = ch[i].failed
                /\ d.seq = IF i = new THEN seq + 1
                           ELSE IF i = old /\ op = "UPDATE" THEN seq + 2
                           ELSE ch[i].seq
    BY <1>3, <2>1, StampIs
  <2> QED BY <1>2, <2>2, Zenon
<1>7. dg_update_list' = Append(dg_update_list, c) /\ routes' = Drop(s, Removed(Examined))
  BY Zenon DEF Handed, ch
<1> HIDE DEF c, s
<1>8. Contents(dg_update_list') = Contents(dg_update_list) \cup {c}
  BY <1>3, <1>4, <1>7, ContentsAppend
<1>9. InFlight' = InFlight \cup {c}
  BY <1>8, Zenon DEF InFlight
<1>10. \A i \in DOMAIN routes' : i \in Re /\ routes'[i] = s[i]
  BY <1>6, <1>7, Zenon DEF Drop
<1>11. \A i \in DOMAIN routes' :
         routes'[i].seq = IF i = new THEN seq + 1
                          ELSE IF i = old /\ op = "UPDATE" THEN seq + 2
                          ELSE routes[i].seq
  BY <1>2, <1>6, <1>10, Zenon
<1> QED BY <1>4, <1>5, <1>9, <1>11, Zenon

\* What rib_process leaves in the FIB: the winner, which is usable, or else the old
\* entry, which has lost its nexthop.
LEMMA ProcessFib ==
  ASSUME TypeInv, FibInv, "enqueue" \notin Faults, rib_process
  PROVE  \E n \in Re \cup {NULL}, f \in Re \cup {NULL} :
    /\ WantedIn(Examined, f) /\ Processed(n)
    /\ n # NULL => n \in Usable(Examined) /\ ~routes[n].adv.override
    /\ f # n => f # NULL /\ routes[f].adv.override
    /\ redist' = redistribute_delete(OldSelected(Examined), n)
    /\ owner' = ProcessNotes(Examined, OldSelected(Examined), n, f)
    /\ f # NULL => /\ f \in DOMAIN routes' /\ routes'[f].active /\ selected_fib' = f
    /\ f = NULL /\ selected_fib' # NULL =>
         /\ selected_fib' \in DOMAIN routes' /\ ~routes'[selected_fib'].active
         /\ selected_fib' = selected_fib
    /\ \/ /\ f # NULL /\ selected_fib = NULL
          /\ Handed(Examined, n, "INSTALL", f, NULL)
       \/ /\ f # NULL /\ selected_fib # NULL
          /\ Handed(Examined, n, "UPDATE", f, selected_fib)
       \/ /\ f # NULL /\ selected_fib = f
          /\ Handed(Examined, n, "INSTALL", f, NULL)
       \/ /\ f # NULL /\ selected_fib = f /\ routes'[f].active = routes[f].active
          /\ routes[f].installed /\ ~System(f) /\ Nothing(Examined, n)
       \/ /\ f = NULL /\ selected_fib # NULL
          /\ Handed(Examined, n, "DELETE", selected_fib, NULL)
       \/ /\ f = NULL /\ selected_fib = NULL
          /\ Nothing(Examined, n) /\ selected_fib' = NULL
<1>1. PICK n \in Re \cup {NULL}, f \in Re \cup {NULL} :
    /\ WantedIn(Examined, f)
    /\ \E o \in Re \cup {NULL} :
         /\ IsBest(Examined, n, {i \in Usable(Examined) : ~Examined[i].adv.override})
         /\ IsBest(Examined, o, {i \in Usable(Examined) : Examined[i].adv.override})
         /\ f = NewFib(n, o)
    /\ owner' = ProcessNotes(Examined, OldSelected(Examined), n, f)
    /\ redist' = redistribute_delete(OldSelected(Examined), n)
    /\ \/ /\ f # NULL /\ selected_fib = NULL
          /\ Handed(Examined, n, "INSTALL", f, NULL) /\ selected_fib' = f
       \/ /\ f # NULL /\ selected_fib # NULL
          /\ f # selected_fib \/ Examined[f].changed
          /\ Handed(Examined, n, "UPDATE", f, selected_fib) /\ selected_fib' = f
       \/ /\ f # NULL /\ selected_fib = f /\ ~Examined[f].changed
          /\ ~Examined[f].installed \/ Examined[f].adv.type \in SystemTypes
          /\ Handed(Examined, n, "INSTALL", f, NULL) /\ selected_fib' = f
       \/ /\ f # NULL /\ selected_fib = f /\ ~Examined[f].changed
          /\ Examined[f].installed /\ Examined[f].adv.type \notin SystemTypes
          /\ Nothing(Examined, n) /\ selected_fib' = f
       \/ /\ f = NULL /\ selected_fib # NULL
          /\ Handed(Examined, n, "DELETE", selected_fib, NULL)
          /\ selected_fib' = IF routes[selected_fib].removed THEN NULL ELSE selected_fib
       \/ /\ f = NULL /\ selected_fib = NULL
          /\ Nothing(Examined, n) /\ selected_fib' = NULL
  BY ProcessCases, Zenon
<1> DEFINE old == selected_fib
<1>2. NULL \notin Re /\ (old # NULL => old \in Re)
  BY DEF TypeInv, TypeOK, SelectedFibLinked, NULL
<1>3. /\ DOMAIN Examined = Re
      /\ \A i \in Re :
           /\ Examined[i].adv = routes[i].adv
           /\ Examined[i].removed = routes[i].removed
           /\ IF ~routes[i].removed /\ routes[i].changed
              THEN Examined[i].changed = (Examined[i].active # routes[i].active)
              ELSE Examined[i] = routes[i]
  BY ExaminedIs, Zenon
<1>4. Processed(n)
  <2>1. \/ \E op, new, o : Handed(Examined, n, op, new, o)
        \/ Nothing(Examined, n)
    BY <1>1, Zenon
  <2> QED BY <2>1, Zenon DEF Handed, Nothing, Processed
<1>5. /\ DOMAIN routes' = Re \ Removed(routes)
      /\ \A i \in DOMAIN routes' : /\ i \in Re /\ ~routes[i].removed
                                   /\ routes'[i].active = Examined[i].active
  BY <1>4, ProcessKeeps, Zenon DEF Same
<1>6. f # NULL => f \in Usable(Examined)
  BY <1>1, WantedUsable, Zenon
<1>7. f = NULL => Usable(Examined) = {}
  BY <1>1, <1>2, <1>3, WantedUsable, Zenon
<1> HIDE DEF old
<1>8. f # NULL => f \in DOMAIN routes' /\ routes'[f].active /\ selected_fib' = f
  <2>1. f # NULL => f \in DOMAIN routes' /\ routes'[f].active
    BY <1>3, <1>5, <1>6, Zenon DEF Usable, Removed, Re
  <2> QED BY <1>1, <2>1, Zenon
<1>9. ASSUME f = NULL, selected_fib' # NULL
      PROVE  /\ selected_fib' \in DOMAIN routes' /\ ~routes'[selected_fib'].active
             /\ selected_fib' = old
  <2>1. selected_fib' = old /\ old # NULL /\ ~routes[old].removed
    BY <1>1, <1>9, Zenon DEF old, NULL
  <2>2. old \in DOMAIN routes' /\ old \in Re
    BY <1>2, <1>5, <2>1, Zenon DEF Removed, Re
  <2>3. routes[old].adv.distance # DISTANCE_INFINITY
    BY <2>1, Zenon DEF FibInv, FibUsable, old
  <2>4. ~Examined[old].active
    BY <1>3, <1>7, <1>9, <2>1, <2>2, <2>3, Zenon DEF Usable
  <2> QED BY <1>5, <2>1, <2>2, <2>4, Zenon
<1>10. f # NULL /\ ~Examined[f].changed => routes'[f].active = routes[f].active
  BY <1>3, <1>5, <1>8, Zenon
<1>11. n # NULL => n \in Usable(Examined) /\ ~routes[n].adv.override
  BY <1>1, <1>3, Zenon DEF IsBest
<1>12. ASSUME f # n PROVE f # NULL /\ routes[f].adv.override
  <2>1. PICK o : /\ IsBest(Examined, o, {i \in Usable(Examined) : Examined[i].adv.override})
                 /\ f = NewFib(n, o)
    BY <1>1, Zenon
  <2>2. f = o /\ o # NULL
    BY <1>12, <2>1, Zenon DEF NewFib
  <2> QED BY <1>1, <1>3, <2>1, <2>2, Zenon DEF IsBest
<1>13. f # NULL => /\ routes[f].installed = Examined[f].installed
                   /\ System(f) => Examined[f].adv.type \in SystemTypes
  BY <1>1, ExaminedIs, Zenon DEF System, TypeOf
<1>14. \/ /\ f # NULL /\ selected_fib = NULL
          /\ Handed(Examined, n, "INSTALL", f, NULL)
       \/ /\ f # NULL /\ selected_fib # NULL
          /\ Handed(Examined, n, "UPDATE", f, selected_fib)
       \/ /\ f # NULL /\ selected_fib = f
          /\ Handed(Examined, n, "INSTALL", f, NULL)
       \/ /\ f # NULL /\ selected_fib = f /\ routes'[f].active = routes[f].active
          /\ routes[f].installed /\ ~System(f) /\ Nothing(Examined, n)
       \/ /\ f = NULL /\ selected_fib # NULL
          /\ Handed(Examined, n, "DELETE", selected_fib, NULL)
       \/ /\ f = NULL /\ selected_fib = NULL
          /\ Nothing(Examined, n) /\ selected_fib' = NULL
  BY <1>1, <1>10, <1>13, Zenon
<1> QED BY <1>1, <1>4, <1>8, <1>9, <1>11, <1>12, <1>14, Zenon DEF old

\* No notification of a loss ever reaches the main pthread.
LEMMA NoLoss ==
  ASSUME TypeInv, FibInv
  PROVE  /\ ~rib_process_kernel_route_notif
         /\ process_subq_early_route_delete => Head(early).kind # "lost"
<1>1. rib_dplane_q \in Seq(Result) /\ early \in Seq(EarlyRoute)
  BY Zenon DEF TypeInv, TypeOK
<1>2. rib_dplane_q # << >> => Head(rib_dplane_q).kind = "result"
  BY <1>1 DEF FibInv, NothingLost
<1>3. early # << >> => Head(early).kind # "lost"
  BY <1>1 DEF FibInv, NothingLost
<1> QED BY <1>2, <1>3, Zenon DEF rib_process_kernel_route_notif, process_subq_early_route_delete

\* The marks CHANGED and REMOVED apart.
Alike(e, d) ==
  /\ d.adv = e.adv /\ d.active = e.active /\ d.installed = e.installed
  /\ d.failed = e.failed /\ d.seq = e.seq /\ d.selected = e.selected

\* A step that neither hands over nor takes out of flight leaves the numbers and
\* flags of the entries alone, and the entry in the FIB linked.
LEMMA CalmStep ==
  ASSUME TypeInv, FibInv, "lost" \notin Events,
         \/ Input \/ DplaneThread \/ UNCHANGED vars
         \/ process_subq_early_route_add \/ process_subq_early_route_delete
  PROVE  /\ InFlight' = InFlight /\ UNCHANGED <<selected_fib, redist, seq>>
         /\ DOMAIN routes' \subseteq Re \cup {nre + 1}
         /\ nre + 1 \in DOMAIN routes' =>
              /\ routes'[nre + 1].seq = 0 /\ ~routes'[nre + 1].installed
              /\ ~routes'[nre + 1].active /\ ~routes'[nre + 1].selected
         /\ \A i \in DOMAIN routes' \ {nre + 1} :
              /\ i \in Re
              /\ routes'[i].adv = routes[i].adv
              /\ routes'[i].active = routes[i].active
              /\ routes'[i].installed = routes[i].installed
              /\ routes'[i].failed = routes[i].failed
              /\ routes'[i].seq = routes[i].seq
              /\ routes'[i].selected = routes[i].selected
<1> DEFINE Calm(r) == DOMAIN r = Re /\ \A i \in Re : Alike(routes[i], r[i])
<1>1. \A i \in Re : routes[i] \in Entry
  BY Zenon DEF TypeInv, TypeOK
<1>2. nre + 1 \notin Re
  BY DEF TypeInv, TypeOK
<1>3. Calm(routes)
  BY Zenon DEF Re, Alike
<1>4. ASSUME Calm(routes'), InFlight' = InFlight, UNCHANGED <<selected_fib, redist, seq>>
      PROVE  /\ InFlight' = InFlight /\ UNCHANGED <<selected_fib, redist, seq>>
             /\ DOMAIN routes' \subseteq Re \cup {nre + 1}
             /\ nre + 1 \in DOMAIN routes' =>
                  /\ routes'[nre + 1].seq = 0 /\ ~routes'[nre + 1].installed
                  /\ ~routes'[nre + 1].active /\ ~routes'[nre + 1].selected
             /\ \A i \in DOMAIN routes' \ {nre + 1} :
                  /\ i \in Re
                  /\ routes'[i].adv = routes[i].adv
                  /\ routes'[i].active = routes[i].active
                  /\ routes'[i].installed = routes[i].installed
                  /\ routes'[i].failed = routes[i].failed
                  /\ routes'[i].seq = routes[i].seq
                  /\ routes'[i].selected = routes[i].selected
  BY <1>2, <1>4, Zenon DEF Alike
<1>5. ASSUME UNCHANGED <<routes, selected_fib, redist, seq>>, InFlight' = InFlight
      PROVE  Calm(routes') /\ InFlight' = InFlight /\ UNCHANGED <<selected_fib, redist, seq>>
  BY <1>3, <1>5, Zenon
<1>6. ASSUME NEW t \in Types, ip_protocol_rm(t)
      PROVE  Calm(routes') /\ InFlight' = InFlight /\ UNCHANGED <<selected_fib, redist, seq>>
  <2>1. InFlight' = InFlight /\ UNCHANGED <<selected_fib, redist, seq>>
    BY <1>6, Zenon DEF ip_protocol_rm, dplane, InFlight
  <2>2. \A e \in Entry : Alike(e, [e EXCEPT !.changed = TRUE]) /\ Alike(e, e)
    BY Zenon DEF Entry, Alike
  <2>3. \/ routes' = routes
        \/ routes' = [i \in Re |-> IF TypeOf(i) = t
                                   THEN [routes[i] EXCEPT !.changed = TRUE]
                                   ELSE routes[i]]
    BY <1>6, Zenon DEF ip_protocol_rm, rib_update_table
  <2>4. CASE routes' = [i \in Re |-> IF TypeOf(i) = t
                                    THEN [routes[i] EXCEPT !.changed = TRUE]
                                    ELSE routes[i]]
    <3>1. /\ DOMAIN routes' = Re
          /\ \A i \in Re : routes'[i] \in {routes[i], [routes[i] EXCEPT !.changed = TRUE]}
      BY <2>4, Zenon
    <3> QED BY <1>1, <2>1, <2>2, <3>1, Zenon
  <2> QED BY <1>3, <2>1, <2>3, <2>4, Zenon
<1>7. ASSUME NEW k \in Re, Delnode(k)
      PROVE  Calm(routes')
  <2>1. /\ DOMAIN routes' = Re
        /\ \A i \in Re : routes'[i] = IF i = k THEN [routes[i] EXCEPT !.removed = TRUE]
                                       ELSE routes[i]
    BY <1>7, Zenon DEF Delnode, Re
  <2>2. \A e \in Entry : Alike(e, [e EXCEPT !.removed = TRUE]) /\ Alike(e, e)
    BY Zenon DEF Entry, Alike
  <2> QED BY <1>1, <2>1, <2>2, Zenon
<1> HIDE DEF Calm
<1>8. CASE Input
  <2>1. ~KernelRouteLost
    BY Zenon DEF KernelRouteLost, External
  <2>2. ASSUME NEW a \in Adverts, rib_add_multipath(a) \/ rib_delete(a)
        PROVE  UNCHANGED <<routes, selected_fib, redist, seq>> /\ InFlight' = InFlight
    BY <2>2, Zenon DEF rib_add_multipath, rib_delete, dplane, InFlight
  <2> QED BY <1>4, <1>5, <1>6, <1>8, <2>1, <2>2, Zenon DEF Input
<1>9. CASE DplaneThread
  <2>1. InFlight' = InFlight
    BY <1>9, InFlightDplane, Zenon
  <2>2. UNCHANGED <<routes, selected_fib, redist, seq>>
    BY <1>9, Zenon DEF DplaneThread, kernel_dplane_process_func, kernel_update_multi,
                dplane_incoming_read
  <2> QED BY <1>4, <1>5, <2>1, <2>2, Zenon
<1>10. CASE UNCHANGED vars
  <2>1. UNCHANGED <<routes, selected_fib, redist, seq>> /\ InFlight' = InFlight
    BY <1>10, Zenon DEF vars, InFlight
  <2> QED BY <1>4, <1>5, <2>1, Zenon
<1>11. CASE process_subq_early_route_add
  <2>1. PICK a \in Adverts :
      /\ DOMAIN routes' \subseteq Re \cup {nre + 1}
      /\ routes'[nre + 1] = NewEntry(a)
      /\ \A i \in DOMAIN routes' \ {nre + 1} :
           /\ i \in Re
           /\ routes'[i].adv = routes[i].adv
           /\ routes'[i].active = routes[i].active
           /\ routes'[i].installed = routes[i].installed
           /\ routes'[i].failed = routes[i].failed
    BY <1>11, EarlyAddIs, Zenon
  <2>2. \A i \in DOMAIN routes' \ {nre + 1} : /\ routes'[i].seq = routes[i].seq
                                             /\ routes'[i].selected = routes[i].selected
    BY <1>11, EarlyAddEffect, Zenon
  <2>3. InFlight' = InFlight /\ UNCHANGED <<selected_fib, redist, seq>>
    BY <1>11, Zenon DEF process_subq_early_route_add, dplane, InFlight
  <2>4. /\ routes'[nre + 1].seq = 0 /\ ~routes'[nre + 1].installed
        /\ ~routes'[nre + 1].active /\ ~routes'[nre + 1].selected
    BY <2>1 DEF NewEntry
  <2> QED BY <2>1, <2>2, <2>3, <2>4, Zenon
<1>12. CASE process_subq_early_route_delete
  <2>1. Head(early).kind # "lost"
    BY <1>12, NoLoss, Zenon
  <2>2. Deleted(Head(early)) # NULL => Deleted(Head(early)) \in Re
    BY FirstMember, Zenon DEF Deleted, TypeInv, TypeOK
  <2>3. \/ Deleted(Head(early)) # NULL /\ Delnode(Deleted(Head(early)))
        \/ UNCHANGED <<routes, selected_fib, qindex, dg_update_list, seq>>
    BY <1>12, <2>1, Zenon DEF process_subq_early_route_delete
  <2>4. /\ UNCHANGED <<selected_fib, redist, seq, dg_update_list, work_list,
                       rib_dplane_q>>
    BY <1>12, <2>3, Zenon DEF process_subq_early_route_delete, Delnode
  <2>5. InFlight' = InFlight
    BY <2>4, Zenon DEF InFlight
  <2>6. Calm(routes')
    BY <1>3, <1>7, <2>2, <2>3, Zenon
  <2> QED BY <1>4, <2>4, <2>5, <2>6, Zenon
<1> QED BY <1>8, <1>9, <1>10, <1>11, <1>12, Zenon

=============================================================================
