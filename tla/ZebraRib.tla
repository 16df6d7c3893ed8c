------------------------------- MODULE ZebraRib -------------------------------
(***************************************************************************)
(* zebra's routing information base for one prefix (one route_node) and    *)
(* the asynchronous dataplane below it.                                     *)
(*                                                                          *)
(* Protocol daemons announce and withdraw routes; every announcement waits  *)
(* in the EARLY_ROUTE sub-queue of the meta queue, becomes a route_entry of *)
(* the node, and the node itself is queued for rib_process(), which picks   *)
(* the best entry and hands an install, update or delete to the dataplane   *)
(* pthread.  The result comes back later through rib_dplane_q and is        *)
(* matched to its entry by sequence number.  Everything on the zebra main   *)
(* pthread is one action per handler; the dataplane pthread, the kernel and *)
(* the clients interleave with it freely.                                   *)
(*                                                                          *)
(* The re_list of the node is ordered newest first (re_list_add_head), so   *)
(* entries are numbered in the order they are linked and the list order is  *)
(* the descending order of the numbers.                                     *)
(***************************************************************************)
EXTENDS Naturals, Sequences, FiniteSets

CONSTANTS Types,        \* route types (ZEBRA_ROUTE_*)
          SystemTypes,  \* those for which RSYSTEM_ROUTE() holds
          StaticTypes,  \* those told apart by metric (ZEBRA_ROUTE_STATIC) and by
                        \* distance: staticd sets ZEBRA_FLAG_RR_USE_DISTANCE
          meta_q_map,   \* route_info[type].meta_q_map: a type's sub-queue
          Nhs,          \* nexthop-group ids
          Adverts,      \* the announcements the clients make
          RedistTypes,  \* the types a redistribution client subscribed to
          AllowDelete,  \* zrouter.allow_delete
          KernelNexthops, \* zebra_nhg_kernel_nexthops_enabled()
          Faults,       \* subset of {"kernel", "ack", "enqueue"}
          Events,       \* subset of {"add", "del", "rmap", "lost"}
          MaxEnv,       \* bound: number of external events
          DplaneLimit,  \* dplane_get_in_queue_limit()
          None          \* "no route" in the kernel, in redistribution

DISTANCE_INFINITY == 255
ROUTE_INSTALLATION_METRIC == 20
MQ_SIZE == 12
NULL == 0

ASSUME RibAssumption ==
  /\ SystemTypes \subseteq Types /\ StaticTypes \subseteq Types
  /\ SystemTypes \cap StaticTypes = {}
  /\ meta_q_map \in [Types -> 4..9]
  /\ Adverts \subseteq [type: Types, distance: Nat, metric: Nat, nh: Nhs,
                        override: BOOLEAN]
  /\ AllowDelete \in BOOLEAN
  /\ KernelNexthops \in BOOLEAN
  \* a kernel notification names the group of the lost route, not a nexthop
  /\ "lost" \in Events => KernelNexthops
  /\ MaxEnv \in Nat /\ DplaneLimit \in Nat
  /\ None \notin [type: Types, nh: Nhs]

VARIABLES
  routes,          \* dest->routes: linked entry number |-> route_entry
  selected_fib,    \* dest->selected_fib (an entry number or NULL)
  qindex,          \* the route sub-queue the node is in, MQ_SIZE if none
  early,           \* META_QUEUE_EARLY_ROUTE sub-queue
  permit,          \* verdict of the "ip protocol" route-map, per type
  dg_update_list,  \* contexts on their way to the dataplane pthread
  work_list,       \* contexts the kernel provider has dequeued
  rib_dplane_q,    \* results and kernel notifications on their way back
  seq,             \* zebra_router_get_next_sequence()
  nre,             \* number of entries linked so far
  kern,            \* the route of this prefix zebra has in the kernel
  nlq,             \* kernel notifications in the netlink socket
  owner,           \* last ZAPI notification sent to the owner, per type
  redist,          \* what the redistribution client holds for the prefix
  env              \* external events so far

dplane == <<dg_update_list, work_list, rib_dplane_q, kern, nlq>>
vars == <<routes, selected_fib, qindex, early, permit, dg_update_list,
          work_list, rib_dplane_q, seq, nre, kern, nlq, owner, redist, env>>

-----------------------------------------------------------------------------
(* State. *)

Entry == [adv: Adverts, active: BOOLEAN, selected: BOOLEAN,
          changed: BOOLEAN, removed: BOOLEAN, installed: BOOLEAN,
          queued: BOOLEAN, failed: BOOLEAN, replacing: BOOLEAN, seq: Nat]

KernelRoute == [type: Types, nh: Nhs]

\* struct zebra_early_route; "lost" is a deletion read from the kernel for a
\* route zebra itself installed (fromkernel and ZEBRA_FLAG_SELFROUTE).
EarlyRoute == [kind: {"add", "del"}, adv: Adverts]
              \cup [kind: {"lost"}, type: Types]

DPLANE_OPS == {"INSTALL", "UPDATE", "DELETE"}

\* struct zebra_dplane_ctx, route part.  same_nhg: the old side has the type
\* and the nexthop-group id of the new one (an active and an inactive group of
\* the same nexthop are different groups: nhg_compare_nexthops).
Ctx == [op: DPLANE_OPS, seq: Nat, old_seq: Nat, type: Types, nh: Nhs,
        old_type: Types, same_nhg: BOOLEAN]
Result == [kind: {"result"}, ctx: Ctx, success: BOOLEAN]
          \cup [kind: {"lost"}, type: Types]

ZapiNotes == {"none", "INSTALLED", "FAIL_INSTALL", "BETTER_ADMIN_WON",
              "REMOVED", "REMOVE_FAIL"}

Re == DOMAIN routes
TypeOf(i) == routes[i].adv.type
System(i) == TypeOf(i) \in SystemTypes

\* The first entry of the list in S, NULL if there is none.
First(S) == IF S = {} THEN NULL ELSE CHOOSE i \in S : \A j \in S : j <= i

\* Entries marked ROUTE_ENTRY_REMOVED, and rib_unlink of some entries.
Removed(rts) == {i \in DOMAIN rts : rts[i].removed}
Drop(rts, gone) == [i \in DOMAIN rts \ gone |-> rts[i]]

Queued == qindex < MQ_SIZE

\* dest->flags & RIB_ROUTE_ANY_QUEUED, whose mask is 0x3F.
AnyQueued == qindex <= 5

\* Filed one sub-queue too late.
QueueAdd_OffByOne(rts) ==
  IF Queued THEN qindex
  ELSE LET S == {meta_q_map[rts[i].adv.type] : i \in DOMAIN rts}
       IN 1 + CHOOSE q \in S : \A r \in S : q <= r

\* rib_meta_queue_add: the node goes to the best sub-queue of its entries,
\* unless it is in one already.
QueueAdd(rts) ==
  IF Queued THEN qindex
  ELSE LET S == {meta_q_map[rts[i].adv.type] : i \in DOMAIN rts}
       IN CHOOSE q \in S : \A r \in S : q <= r

Init ==
  /\ routes = [i \in {} |-> {}]
  /\ selected_fib = NULL
  /\ qindex = MQ_SIZE
  /\ early = << >>
  /\ permit = [t \in Types |-> TRUE]
  /\ dg_update_list = << >>
  /\ work_list = << >>
  /\ rib_dplane_q = << >>
  /\ seq = 0
  /\ nre = 0
  /\ kern = None
  /\ nlq = << >>
  /\ owner = [t \in Types |-> "none"]
  /\ redist = None
  /\ env = 0

-----------------------------------------------------------------------------
(* The clients, the operator and the kernel: inputs of the program. *)

External(kind) == kind \in Events /\ env < MaxEnv /\ env' = env + 1

\* zread_route_add -> rib_add_multipath_nhe
rib_add_multipath(a) ==
  /\ External("add")
  /\ early' = Append(early, [kind |-> "add", adv |-> a])
  /\ UNCHANGED <<routes, selected_fib, qindex, permit, dplane, seq, nre,
                 owner, redist>>

\* zread_route_del -> rib_delete(fromkernel = false)
rib_delete(a) ==
  /\ External("del")
  /\ early' = Append(early, [kind |-> "del", adv |-> a])
  /\ UNCHANGED <<routes, selected_fib, qindex, permit, dplane, seq, nre,
                 owner, redist>>

\* Another process deletes zebra's route from the kernel.
KernelRouteLost ==
  /\ External("lost")
  /\ kern # None
  /\ kern' = None
  /\ nlq' = Append(nlq, kern.type)
  /\ UNCHANGED <<routes, selected_fib, qindex, early, permit, dg_update_list,
                 work_list, rib_dplane_q, seq, nre, owner, redist>>

\* With a mask that covers every sub-queue.
rib_update_table_AnySubq(t) ==
  LET hit == {i \in Re : TypeOf(i) = t}
  IN IF Queued \/ hit = {}
     THEN UNCHANGED <<routes, qindex>>
     ELSE /\ routes' = [i \in Re |-> IF i \in hit
                                     THEN [routes[i] EXCEPT !.changed = TRUE]
                                     ELSE routes[i]]
          /\ qindex' = QueueAdd(routes)

\* rib_update_table + rib_update_route_node for a route-map change: a node
\* seen as queued is skipped altogether.
rib_update_table(t) ==
  LET hit == {i \in Re : TypeOf(i) = t}
  IN IF AnyQueued \/ hit = {}
     THEN UNCHANGED <<routes, qindex>>
     ELSE /\ routes' = [i \in Re |-> IF i \in hit
                                     THEN [routes[i] EXCEPT !.changed = TRUE]
                                     ELSE routes[i]]
          /\ qindex' = QueueAdd(routes)

\* "[no] ip protocol PROTO route-map NAME"
ip_protocol_rm(t) ==
  /\ External("rmap")
  /\ permit' = [permit EXCEPT ![t] = ~@]
  /\ rib_update_table(t)
  /\ UNCHANGED <<selected_fib, early, dplane, seq, nre, owner, redist>>

-----------------------------------------------------------------------------
(* Handing a route to the dataplane. *)

\* dplane_route_update_internal: the context carries the next sequence number,
\* and a second one for a distinct old side.
MkCtx(rts, op, new, old) ==
  [op |-> op, seq |-> seq + 1,
   old_seq |-> IF op = "UPDATE" /\ old # new THEN seq + 2 ELSE 0,
   type |-> rts[new].adv.type, nh |-> rts[new].adv.nh,
   old_type |-> IF op = "UPDATE" THEN rts[old].adv.type
                ELSE rts[new].adv.type,
   same_nhg |-> /\ KernelNexthops /\ op = "UPDATE" /\ old # new
                /\ rts[old].adv.type = rts[new].adv.type
                /\ rts[old].adv.nh = rts[new].adv.nh
                /\ rts[old].active = rts[new].active]

\* The old side shares the sequence number of the new one.
Stamp_SharedSeq(rts, op, new, old) ==
  [i \in DOMAIN rts |->
     IF i = new \/ (i = old /\ op = "UPDATE")
     THEN [rts[i] EXCEPT !.seq = seq + 1, !.queued = @ \/ op # "DELETE"]
     ELSE rts[i]]

\* The entries after that call and after the ZEBRA_DPLANE_REQUEST_QUEUED
\* branch of rib_install_kernel (rib_uninstall_kernel sets no flag).
Stamp(rts, op, new, old) ==
  [i \in DOMAIN rts |->
     IF i = new
     THEN [rts[i] EXCEPT !.seq = seq + 1,
                         !.queued = @ \/ op # "DELETE",
                         !.replacing = @ \/ op = "UPDATE"]
     ELSE IF i = old /\ op = "UPDATE"
     THEN [rts[i] EXCEPT !.seq = seq + 2, !.queued = TRUE]
     ELSE rts[i]]

\* The whole call: either the context is queued, or dplane_ctx_route_init
\* refuses because the nexthop group is neither installed nor queued (always
\* for an inactive group, otherwise with the "enqueue" fault) and the entries
\* are left alone.  The caller goes on to unlink the entries in gone.
Enqueue(rts, op, new, old, gone) ==
  \/ /\ op = "DELETE" \/ rts[new].active
     /\ dg_update_list' = Append(dg_update_list, MkCtx(rts, op, new, old))
     /\ seq' = seq + IF op = "UPDATE" /\ old # new THEN 2 ELSE 1
     /\ routes' = Drop(Stamp(rts, op, new, old), gone)
  \/ /\ op # "DELETE" /\ (~rts[new].active \/ "enqueue" \in Faults)
     /\ routes' = Drop(rts, gone)
     /\ UNCHANGED <<dg_update_list, seq>>

\* Off by one at the limit.
DplaneHasRoom_Strict == Len(dg_update_list) < DplaneLimit

\* meta_queue_process stops while the dataplane has too much work.
DplaneHasRoom == Len(dg_update_list) <= DplaneLimit

-----------------------------------------------------------------------------
(* Early routes: process_subq_early_route_add / _delete. *)

\* rib_compare_routes(re, same): an announcement replaces this entry.  A type
\* stands for one instance of a protocol.
rib_compare_routes(a, b) ==
  /\ a.type = b.type
  /\ a.type \in StaticTypes => a.metric = b.metric /\ a.distance = b.distance
  /\ a.type \in SystemTypes => a.nh = b.nh

NewEntry(a) ==
  [adv |-> a, active |-> FALSE, selected |-> FALSE, changed |-> TRUE,
   removed |-> FALSE, installed |-> FALSE, queued |-> FALSE,
   failed |-> FALSE, replacing |-> FALSE, seq |-> 0]

\* The entry in the FIB is reaped, too.
Reap_Fib(rts, fib) == Drop(rts, Removed(rts))

\* Removed entries that are not in the FIB are reaped at once.
Reap(rts, fib) == Drop(rts, Removed(rts) \ {fib})

process_subq_early_route_add ==
  /\ DplaneHasRoom
  /\ early # << >> /\ Head(early).kind = "add"
  /\ LET a    == Head(early).adv
         same == First({i \in Re : /\ ~routes[i].removed
                                   /\ rib_compare_routes(a, routes[i].adv)})
         new  == nre + 1
         linked == [i \in Re \cup {new} |->
                      IF i = new THEN NewEntry(a)
                      ELSE IF i = same
                      THEN [routes[i] EXCEPT !.removed = TRUE,
                                   !.replacing = @ \/ i = selected_fib]
                      ELSE routes[i]]
     IN /\ nre' = new
        /\ qindex' = QueueAdd(linked)
        /\ routes' = Reap(linked, selected_fib)
  /\ early' = Tail(early)
  /\ UNCHANGED <<selected_fib, permit, dplane, seq, owner, redist, env>>

\* The entry a deletion names: the first live one of its type (and metric and
\* distance, for a static route; the kernel reports every zebra route with the
\* metric ROUTE_INSTALLATION_METRIC and the distance 0).
Deleted(ere) ==
  First({i \in Re :
    /\ ~routes[i].removed
    /\ IF ere.kind = "lost"
       THEN /\ TypeOf(i) = ere.type
            /\ TypeOf(i) \in StaticTypes =>
                 /\ routes[i].adv.metric = ROUTE_INSTALLATION_METRIC
                 /\ routes[i].adv.distance = 0
       ELSE /\ TypeOf(i) = ere.adv.type
            /\ TypeOf(i) \in StaticTypes =>
                 /\ routes[i].adv.metric = ere.adv.metric
                 /\ routes[i].adv.distance = ere.adv.distance
            /\ TypeOf(i) \in SystemTypes => routes[i].adv.nh = ere.adv.nh})

\* rib_queue_add forgotten.
Delnode_NotQueued(same) ==
  /\ routes' = [routes EXCEPT ![same].removed = TRUE]
  /\ UNCHANGED <<selected_fib, qindex, dg_update_list, seq>>

\* rib_delnode
Delnode(same) ==
  /\ routes' = [routes EXCEPT ![same].removed = TRUE]
  /\ qindex' = QueueAdd(routes)
  /\ UNCHANGED <<selected_fib, dg_update_list, seq>>

\* Someone else deleted a zebra route: put it back.
Reinstall(re) ==
  /\ Enqueue([routes EXCEPT ![re].installed = FALSE], "INSTALL", re, NULL, {})
  /\ selected_fib' = re
  /\ UNCHANGED qindex

process_subq_early_route_delete ==
  /\ DplaneHasRoom
  /\ early # << >> /\ Head(early).kind \in {"del", "lost"}
  /\ LET ere  == Head(early)
         same == Deleted(ere)
     IN IF same # NULL
        THEN IF ere.kind = "lost" /\ ~AllowDelete
             THEN Reinstall(same)
             ELSE Delnode(same)
        ELSE IF ere.kind = "lost" /\ selected_fib # NULL
        THEN IF AllowDelete \/ AnyQueued
             THEN /\ routes' = [routes EXCEPT ![selected_fib].installed = FALSE]
                  /\ selected_fib' = NULL
                  /\ UNCHANGED <<qindex, dg_update_list, seq>>
             ELSE Reinstall(selected_fib)
        ELSE UNCHANGED <<routes, selected_fib, qindex, dg_update_list, seq>>
  /\ early' = Tail(early)
  /\ UNCHANGED <<permit, work_list, rib_dplane_q, nre, kern, nlq, owner,
                 redist, env>>

-----------------------------------------------------------------------------
(* rib_process: best-path selection. *)

\* rib_choose_best(b, a) = a: the alternate a beats the current b.  System
\* types are connected routes (no loopback interface among them).
Better(a, b) ==
  IF a.type \in SystemTypes
  THEN b.type \in SystemTypes => a.metric < b.metric
  ELSE /\ b.type \notin SystemTypes
       /\ \/ a.distance < b.distance
          \/ a.distance = b.distance /\ a.metric < b.metric

\* The outcome of folding rib_choose_best over the list: the current entry is
\* kept unless the alternate is strictly better, so of equals the first met
\* (the newest) wins.
IsBest(rts, i, S) ==
  IF S = {} THEN i = NULL
  ELSE /\ i \in S
       /\ \A j \in S \ {i} :
            \/ Better(rts[i].adv, rts[j].adv)
            \/ ~Better(rts[j].adv, rts[i].adv) /\ j < i

\* nexthop_active_update: clears CHANGED, sets it again if the verdict on the
\* nexthop differs from the recorded one.
nexthop_active_update(e) ==
  LET act == permit[e.adv.type]
  IN [e EXCEPT !.active = act, !.changed = (act # e.active)]

\* The entries after the selection loop re-evaluated the changed ones.
Examined ==
  [i \in Re |-> IF ~routes[i].removed /\ routes[i].changed
                THEN nexthop_active_update(routes[i]) ELSE routes[i]]

\* Entries that take part in the selection.
Usable(rts) ==
  {i \in DOMAIN rts : /\ ~rts[i].removed /\ rts[i].active
                      /\ rts[i].adv.distance # DISTANCE_INFINITY}

\* old_selected: the entry the selection loop finds with ZEBRA_FLAG_SELECTED.
OldSelected(rts) == First({i \in Re : rts[i].selected})

\* The flag is cleared only if nothing is selected in its place.
Selected_OnlyIfNone(rts, new_selected, i) ==
  i = new_selected \/ (rts[i].selected /\ (i # OldSelected(rts) \/ new_selected # NULL))

\* SELECTED is set on new_selected and cleared on old_selected; the loop has
\* asserted that no other entry carries it, and none is looked at.
Selected(rts, new_selected, i) ==
  i = new_selected \/ (rts[i].selected /\ i # OldSelected(rts))

\* The entries once SELECTED has moved; CHANGED survives only on an entry whose
\* nexthop has just become unusable.
Chosen(rts, new_selected) ==
  [i \in DOMAIN rts |->
     [rts[i] EXCEPT !.selected = Selected(rts, new_selected, i),
                    !.changed = @ /\ ~rts[i].active /\ i # selected_fib]]

\* rib_unlink clears dest->selected_fib when it drops that entry.
FibAfter(rts, fib) == IF fib \in DOMAIN rts /\ rts[fib].removed THEN NULL ELSE fib

\* rib_process_add_fib, rib_process_update_fib, rib_process_del_fib.
UpdateFib(rts, new_selected, new_fib) ==
  LET old_fib == selected_fib
      chosen  == Chosen(rts, new_selected)
      install(old) == /\ Enqueue(chosen, IF old = NULL THEN "INSTALL" ELSE "UPDATE",
                                 new_fib, old, Removed(rts))
                      /\ selected_fib' = new_fib
      keep(fib) == /\ routes' = Drop(chosen, Removed(rts))
                   /\ selected_fib' = FibAfter(rts, fib)
                   /\ UNCHANGED <<dg_update_list, seq>>
  IN CASE new_fib # NULL /\ old_fib = NULL -> install(NULL)
       [] new_fib # NULL /\ old_fib # NULL ->
            IF new_fib # old_fib \/ rts[new_fib].changed THEN install(old_fib)
            ELSE IF ~rts[new_fib].installed \/ rts[new_fib].adv.type \in SystemTypes
            THEN install(NULL)
            ELSE keep(old_fib)
       [] new_fib = NULL /\ old_fib # NULL ->
            /\ Enqueue(chosen, "DELETE", old_fib, NULL, Removed(rts))
            /\ selected_fib' = FibAfter(rts, old_fib)
       [] OTHER -> keep(NULL)

\* Only the entries with an unusable nexthop are reported.
ProcessNotes_NoLoser(rts, old_selected, new_selected, new_fib) ==
  [t \in Types |->
     IF \E i \in Re : /\ ~routes[i].removed /\ routes[i].changed
                      /\ ~rts[i].active /\ TypeOf(i) = t
     THEN "FAIL_INSTALL" ELSE owner[t]]

\* ZAPI notifications of one pass, in order: entries whose nexthop is unusable,
\* the last changed entry if another protocol won, the owner that lost the FIB
\* (rib_install_kernel).
ProcessNotes(rts, old_selected, new_selected, new_fib) ==
  LET examined == {i \in Re : ~routes[i].removed /\ routes[i].changed}
      refused  == {TypeOf(i) : i \in {j \in examined : ~rts[j].active}}
      last     == {i \in examined : \A j \in examined : i <= j}
      beaten   == {TypeOf(i) : i \in {j \in last : j # old_selected}}
      won(t)   == rts[new_selected].adv.type # t
  IN [t \in Types |->
        IF \/ new_selected # NULL /\ t \in beaten /\ won(t)
           \/ /\ new_fib # NULL /\ selected_fib # NULL
              /\ t = TypeOf(selected_fib) /\ t # TypeOf(new_fib)
        THEN "BETTER_ADMIN_WON"
        ELSE IF t \in refused THEN "FAIL_INSTALL" ELSE owner[t]]

\* redistribute_delete(old_selected, new_selected) as seen by the client.
redistribute_delete(old_selected, new_selected) ==
  IF /\ old_selected # NULL /\ old_selected # new_selected
     /\ new_selected = NULL \/ routes[old_selected].removed
     /\ new_selected # NULL => TypeOf(new_selected) \notin RedistTypes
     /\ redist # None /\ redist = TypeOf(old_selected)
  THEN None ELSE redist

\* Without the FIB override.
NewFib_NoOverride(new_selected, over) == new_selected

\* A usable FIB-override entry goes to the FIB instead of the selected one.
NewFib(new_selected, over) == IF over = NULL THEN new_selected ELSE over

rib_process ==
  /\ DplaneHasRoom
  /\ early = << >> /\ Queued
  /\ LET rts == Examined
         old_selected == OldSelected(rts)
         usable == Usable(rts)
     IN \E new_selected, over \in Re \cup {NULL} :
          LET new_fib == NewFib(new_selected, over)
          IN /\ IsBest(rts, new_selected,
                       {i \in usable : ~rts[i].adv.override})
             /\ IsBest(rts, over, {i \in usable : rts[i].adv.override})
             /\ UpdateFib(rts, new_selected, new_fib)
             /\ owner' = ProcessNotes(rts, old_selected, new_selected, new_fib)
             /\ redist' = redistribute_delete(old_selected, new_selected)
  /\ qindex' = MQ_SIZE
  /\ UNCHANGED <<early, permit, work_list, rib_dplane_q, nre, kern, nlq, env>>

-----------------------------------------------------------------------------
(* The dataplane pthread and the kernel. *)

\* kernel_dplane_process_func, first half: an update that changes neither the
\* type nor the nexthop group is answered at once, ahead of the contexts that
\* still wait in work_list for the netlink batch.
kernel_dplane_process_func ==
  /\ dg_update_list # << >>
  /\ LET ctx == Head(dg_update_list)
     IN IF ctx.same_nhg
        THEN /\ rib_dplane_q' = Append(rib_dplane_q,
                  [kind |-> "result", ctx |-> ctx, success |-> TRUE])
             /\ UNCHANGED work_list
        ELSE /\ work_list' = Append(work_list, ctx)
             /\ UNCHANGED rib_dplane_q
  /\ dg_update_list' = Tail(dg_update_list)
  /\ UNCHANGED <<routes, selected_fib, qindex, early, permit, seq, nre, kern,
                 nlq, owner, redist, env>>

\* The kernel's table after a request of zebra (netlink_put_route_update_msg):
\* system routes are never sent, an update to one withdraws the old route.
AfterRequest(ctx) ==
  LET deleted == IF kern # None /\ kern.type = ctx.old_type THEN None ELSE kern
  IN IF ctx.type \in SystemTypes
     THEN IF ctx.op = "UPDATE" /\ ctx.old_type \notin SystemTypes
          THEN deleted ELSE kern
     ELSE IF ctx.op = "DELETE" THEN deleted
     ELSE [type |-> ctx.type, nh |-> ctx.nh]

\* The contexts that failed are not marked.
kernel_update_multi_Assumed ==
  /\ work_list # << >>
  /\ \/ kern' = AfterRequest(Head(work_list))
     \/ "kernel" \in Faults /\ kern' = kern
  /\ rib_dplane_q' = Append(rib_dplane_q,
       [kind |-> "result", ctx |-> Head(work_list), success |-> TRUE])
  /\ work_list' = Tail(work_list)
  /\ UNCHANGED <<routes, selected_fib, qindex, early, permit, dg_update_list,
                 seq, nre, nlq, owner, redist, env>>

\* kernel_update_multi for one context of the batch.  With the "kernel" fault
\* the request may be refused, with the "ack" fault its answer may be lost
\* (nl_batch_read_resp then marks it failed, too).
kernel_update_multi ==
  /\ work_list # << >>
  /\ LET ctx == Head(work_list)
     IN \E ok \in BOOLEAN :
          /\ \/ (ok \/ "ack" \in Faults) /\ kern' = AfterRequest(ctx)
             \/ ~ok /\ "kernel" \in Faults /\ kern' = kern
          /\ rib_dplane_q' = Append(rib_dplane_q,
               [kind |-> "result", ctx |-> ctx, success |-> ok])
  /\ work_list' = Tail(work_list)
  /\ UNCHANGED <<routes, selected_fib, qindex, early, permit, dg_update_list,
                 seq, nre, nlq, owner, redist, env>>

\* The dataplane pthread reads a notification from its netlink socket.
dplane_incoming_read ==
  /\ nlq # << >>
  /\ nlq' = Tail(nlq)
  /\ rib_dplane_q' = Append(rib_dplane_q, [kind |-> "lost", type |-> Head(nlq)])
  /\ UNCHANGED <<routes, selected_fib, qindex, early, permit, dg_update_list,
                 work_list, seq, nre, kern, owner, redist, env>>

-----------------------------------------------------------------------------
(* Results, on the zebra main pthread: rib_process_dplane_results. *)

\* rib_process_kernel_route_notif: rib_delete(fromkernel = true).
rib_process_kernel_route_notif ==
  /\ rib_dplane_q # << >> /\ Head(rib_dplane_q).kind = "lost"
  /\ early' = Append(early, [kind |-> "lost", type |-> Head(rib_dplane_q).type])
  /\ rib_dplane_q' = Tail(rib_dplane_q)
  /\ UNCHANGED <<routes, selected_fib, qindex, permit, dg_update_list,
                 work_list, seq, nre, kern, nlq, owner, redist, env>>

\* A failure leaves the flags alone; a deletion leaves INSTALLED; a failure is not
\* recorded.
NewSide_FailureKept(e, op, ok) ==
  IF ok THEN [e EXCEPT !.queued = FALSE, !.replacing = FALSE,
                       !.installed = (op # "DELETE"), !.failed = FALSE]
  ELSE [e EXCEPT !.failed = TRUE]
NewSide_DeleteKept(e, op, ok) ==
  [e EXCEPT !.queued = FALSE, !.replacing = FALSE,
            !.installed = IF op = "DELETE" THEN @ ELSE ok, !.failed = ~ok]
NewSide_NoFailed(e, op, ok) ==
  [e EXCEPT !.queued = FALSE, !.replacing = FALSE,
            !.installed = IF op = "DELETE" THEN @ /\ ~ok ELSE ok]

\* The flags of the entry the operation was issued for, and of the old side.
NewSide(e, op, ok) ==
  [e EXCEPT !.queued = FALSE, !.replacing = FALSE,
            !.installed = IF op = "DELETE" THEN @ /\ ~ok ELSE ok,
            !.failed = ~ok]
OldSide(e, ok) ==
  [e EXCEPT !.queued = FALSE, !.installed = @ /\ ~ok, !.failed = ~ok]

\* zebra_rib_fixup_system
FixupSystem(rts) ==
  [i \in DOMAIN rts |->
     IF rts[i].adv.type \in SystemTypes /\ ~rts[i].removed
     THEN [rts[i] EXCEPT !.installed = TRUE, !.queued = FALSE,
                         !.replacing = FALSE]
     ELSE rts[i]]

\* Nothing is sent when the new route replaces another.
redistribute_update_FirstOnly(re, old_re) ==
  IF TypeOf(re) \in RedistTypes /\ old_re = NULL THEN TypeOf(re) ELSE redist

\* redistribute_update(re, old_re)
redistribute_update(re, old_re) ==
  IF TypeOf(re) \in RedistTypes THEN TypeOf(re)
  ELSE IF old_re # NULL /\ redist # None /\ redist = TypeOf(old_re) THEN None
  ELSE redist

rib_process_result ==
  /\ rib_dplane_q # << >> /\ Head(rib_dplane_q).kind = "result"
  /\ LET ctx == Head(rib_dplane_q).ctx
         ok  == Head(rib_dplane_q).success
         delete == ctx.op = "DELETE"
         re  == First({i \in Re : routes[i].seq = ctx.seq})
         old_re == IF ctx.old_seq = 0 THEN NULL
                   ELSE First({i \in Re : routes[i].seq = ctx.old_seq})
         rts == [i \in Re |-> IF i = re THEN NewSide(routes[i], ctx.op, ok)
                              ELSE IF i = old_re THEN OldSide(routes[i], ok)
                              ELSE routes[i]]
         system == \E i \in {re, old_re} \cap Re : System(i)
         in_fib == re # NULL /\ re = selected_fib
     IN /\ routes' = IF system /\ (ok \/ delete) THEN FixupSystem(rts) ELSE rts
        /\ redist' = IF ~delete /\ ok /\ in_fib
                     THEN redistribute_update(re, old_re) ELSE redist
        /\ owner' = CASE delete ->
                           [owner EXCEPT ![ctx.type] =
                              IF ok THEN "REMOVED" ELSE "REMOVE_FAIL"]
                      [] ~delete /\ ok /\ in_fib ->
                           [owner EXCEPT ![ctx.type] = "INSTALLED"]
                      [] ~delete /\ ~ok /\ re # NULL ->
                           [owner EXCEPT ![ctx.type] = "FAIL_INSTALL"]
                      [] OTHER -> owner
  /\ rib_dplane_q' = Tail(rib_dplane_q)
  /\ UNCHANGED <<selected_fib, qindex, early, permit, dg_update_list,
                 work_list, seq, nre, kern, nlq, env>>

-----------------------------------------------------------------------------
(* The specification. *)

Input == \/ \E a \in Adverts : rib_add_multipath(a) \/ rib_delete(a)
         \/ \E t \in Types : ip_protocol_rm(t)
         \/ KernelRouteLost

\* The main pthread: the meta queue, then the dataplane's answers.
MainThread == \/ process_subq_early_route_add
              \/ process_subq_early_route_delete
              \/ rib_process
              \/ rib_process_kernel_route_notif
              \/ rib_process_result

\* The dataplane pthread.
DplaneThread == \/ kernel_dplane_process_func
                \/ kernel_update_multi
                \/ dplane_incoming_read

Next == Input \/ MainThread \/ DplaneThread

Spec == Init /\ [][Next]_vars

\* Each pthread runs its event loop for ever and gets CPU time; nothing is
\* assumed of which of its runnable tasks it picks.
FairSpec == Spec /\ WF_vars(MainThread) /\ WF_vars(DplaneThread)

-----------------------------------------------------------------------------
(* Properties. *)

\* Contexts that have been handed over and whose result is still to come.
Contents(q) == {q[n] : n \in 1..Len(q)}
Answered(q) == {r.ctx : r \in {x \in Contents(q) : x.kind = "result"}}
InFlight == Contents(dg_update_list) \cup Contents(work_list)
            \cup Answered(rib_dplane_q)

\* Nothing is left to do on either pthread.
Quiet == /\ early = << >> /\ ~Queued
         /\ dg_update_list = << >> /\ work_list = << >>
         /\ rib_dplane_q = << >> /\ nlq = << >>

\* Type invariant: the shape of the node, of the queues and of the contexts.
TypeOK ==
  /\ Re \subseteq 1..nre
  /\ \A i \in Re : routes[i] \in Entry
  /\ selected_fib \in Nat
  /\ qindex \in {MQ_SIZE} \cup {meta_q_map[t] : t \in Types}
  /\ early \in Seq(EarlyRoute)
  /\ permit \in [Types -> BOOLEAN]
  /\ dg_update_list \in Seq(Ctx) /\ work_list \in Seq(Ctx)
  /\ rib_dplane_q \in Seq(Result)
  /\ seq \in Nat /\ nre \in Nat /\ env \in Nat
  /\ kern \in KernelRoute \cup {None}
  /\ nlq \in Seq(Types)
  /\ owner \in [Types -> ZapiNotes]
  /\ redist \in Types \cup {None}

\* The assertion of rib_process: at most one entry carries
\* ZEBRA_FLAG_SELECTED, whatever was linked, removed and unlinked meanwhile.
SelectedUnique ==
  \A i, j \in Re : routes[i].selected /\ routes[j].selected => i = j

\* dest->selected_fib never points to an entry that has been unlinked and
\* freed, although entries are freed by two handlers.
SelectedFibLinked == selected_fib # NULL => selected_fib \in Re

\* The assertion of process_subq_route: a queued node has a dest, i.e. entries.
\* An entry marked REMOVED waits in a queued node, so it will be unlinked.
RemovedQueued ==
  /\ Queued => Re # {}
  /\ \A i \in Re : routes[i].removed => Queued

\* ROUTE_ENTRY_QUEUED is cleared only by a result: a queued entry still owns a
\* context in flight, as its new or as its old side.
QueuedInFlight ==
  \A i \in Re : routes[i].queued =>
    \E c \in InFlight : routes[i].seq \in {c.seq, c.old_seq} /\ routes[i].seq # 0

\* The sequence number is an exact identity: a result in flight finds at most
\* one entry, of the type and nexthop it was issued for, and never the same
\* entry for both sides.
SequenceIdentity ==
  /\ \A i, j \in Re : routes[i].seq = routes[j].seq /\ i # j => routes[i].seq = 0
  /\ \A c \in InFlight : c.seq # c.old_seq
  /\ \A c \in InFlight, i \in Re :
       /\ routes[i].seq = c.seq =>
            TypeOf(i) = c.type /\ routes[i].adv.nh = c.nh
       /\ routes[i].seq = c.old_seq /\ c.old_seq # 0 => TypeOf(i) = c.old_type

\* What the FIB should hold for these entries: an override if one is usable,
\* the best entry otherwise.
Wanted(i) ==
  LET usable == Usable(routes)
      over   == {j \in usable : routes[j].adv.override}
  IN IsBest(routes, i, IF over = {} THEN usable ELSE over)

\* Once both pthreads are idle the kernel holds exactly the nexthop of the best
\* usable entry (nothing for a connected one), and that entry is selected_fib.
FibMatchesRib ==
  Quiet => \E i \in Re \cup {NULL} :
    /\ Wanted(i)
    /\ i # NULL => selected_fib = i
    /\ kern = IF i = NULL \/ (i # NULL /\ System(i)) THEN None
              ELSE [type |-> TypeOf(i), nh |-> routes[i].adv.nh]

\* Once both pthreads are idle, ROUTE_ENTRY_INSTALLED tells the truth: the flag
\* is on the entry in the FIB and, system routes aside, on no other.
InstalledTruth ==
  Quiet => \A i \in Re : ~System(i) =>
    (routes[i].installed <=> i = selected_fib /\ kern # None)

\* The last word an owner heard agrees with the FIB once both pthreads are
\* idle, whatever the kernel refused: INSTALLED exactly for the owner of the
\* best entry, if that entry was installed.
OwnerTold ==
  Quiet => \A t \in Types :
    owner[t] = "INSTALLED"
      <=> \E i \in Re : Wanted(i) /\ TypeOf(i) = t /\ routes[i].installed

\* ROUTE_ENTRY_INSTALLED means "Route is installed into the Data Plane": even
\* when the kernel refuses requests, the best entry, when it carries the flag,
\* is the route the kernel has once both pthreads are idle.
InstalledInKernel ==
  Quiet => \A i \in Re : Wanted(i) /\ routes[i].installed /\ ~System(i) =>
    kern = [type |-> TypeOf(i), nh |-> routes[i].adv.nh]

\* A refusal by the kernel is never reported as a success.  Once both pthreads
\* are idle the route the RIB wants is in the kernel, or its entry is FAILED and
\* its owner knows; no owner was told INSTALLED falsely.
FailureReported ==
  Quiet =>
    /\ \A i \in Re : Wanted(i) =>
         \/ System(i)
         \/ kern = [type |-> TypeOf(i), nh |-> routes[i].adv.nh]
         \/ routes[i].failed /\ owner[TypeOf(i)] = "FAIL_INSTALL"
    /\ \A t \in Types \ SystemTypes :
         owner[t] = "INSTALLED" => kern # None /\ kern.type = t

\* An entry was judged by the current route-map, or is marked CHANGED for a
\* selection that is due, or is about to go.
Judged(i) == \/ routes[i].removed
             \/ routes[i].active = permit[TypeOf(i)]
             \/ routes[i].changed /\ Queued

\* No handler loses a verdict: an entry comes to keep an outdated one only if the
\* route-map of its type changes while the node is in a sub-queue that
\* RIB_ROUTE_ANY_QUEUED covers, when rib_update_table skips it.
VerdictsKept ==
  [][\A i \in Re' :
       \/ Judged(i)'
       \/ i \in Re /\ ~Judged(i)
       \/ AnyQueued /\ permit'[TypeOf(i)'] # permit[TypeOf(i)']]_vars

\* Whatever is queued towards or from a dataplane whose incoming queue is at its
\* limit, the two pthreads never wait for each other: they come to rest again.
Converges == []<>Quiet

\* While both pthreads are idle no client that subscribed to the type of the
\* route in the FIB is left without it, whatever the withdrawals suppressed.
RedistAnnounced ==
  Quiet => \A i \in Re : Wanted(i) /\ TypeOf(i) \in RedistTypes
                         => redist = TypeOf(i)

=============================================================================
