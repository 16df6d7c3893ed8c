-------------------------- MODULE ZebraReportProofs -------------------------
(* Proofs about ZebraRib: what zebra reports of a route once both pthreads are *)
(* idle.  The flag INSTALLED, the client that asked for redistribution and the *)
(* owners of the routes agree with the FIB, and with the kernel when it        *)
(* refuses requests.                                                           *)
EXTENDS ZebraFibProofs

-----------------------------------------------------------------------------
(* The invariant behind InstalledTruth. *)

\* A context is found by its number: no two in flight share one.
Tags ==
  \A c, d \in InFlight :
    /\ c.seq = d.seq => c = d
    /\ c.old_seq # 0 => c.old_seq # d.seq

\* Entry e will be INSTALLED once the contexts F have been answered.
Lands(F, e) ==
  \/ \E c \in F : c.seq = e.seq /\ c.op # "DELETE"
  \/ /\ e.installed
     /\ e.seq = 0 \/ \A c \in F : e.seq \notin {c.seq, c.old_seq}

LandsRight ==
  \A i \in Re : ~System(i) =>
    (Lands(InFlight, routes[i]) <=> i = selected_fib /\ routes[i].active)

FlagInv == Tags /\ LandsRight

\* A step that hands nothing over and takes nothing out of flight.
LEMMA FlagKept ==
  ASSUME TypeInv, FlagInv, InFlight' = InFlight, selected_fib' = selected_fib,
         NEW new, new \notin Re, DOMAIN routes' \subseteq Re \cup {new},
         new \in DOMAIN routes' => /\ routes'[new].seq = 0 /\ ~routes'[new].installed
                                   /\ ~routes'[new].active,
         \A c \in InFlight : c.seq # 0,
         \A i \in DOMAIN routes' \ {new} :
            /\ routes'[i].adv = routes[i].adv
            /\ routes'[i].active = routes[i].active
            /\ routes'[i].installed = routes[i].installed
            /\ routes'[i].seq = routes[i].seq
  PROVE  FlagInv'
<1>1. Tags'
  BY Zenon DEF FlagInv, Tags
<1>2. ASSUME NEW i \in DOMAIN routes', ~System(i)'
      PROVE  Lands(InFlight, routes'[i]) <=> i = selected_fib /\ routes'[i].active
  <2>1. CASE i = new
    BY <1>2, <2>1, Zenon DEF Lands
  <2>2. CASE i # new
    <3>1. i \in Re /\ ~System(i)
      BY <1>2, <2>2, Zenon DEF System, TypeOf
    <3>2. Lands(InFlight, routes'[i]) <=> Lands(InFlight, routes[i])
      BY <1>2, <2>2, Zenon DEF Lands
    <3> QED BY <1>2, <2>2, <3>1, <3>2, Zenon DEF FlagInv, LandsRight
  <2> QED BY <2>1, <2>2, Zenon
<1>3. LandsRight'
  BY <1>2, Zenon DEF LandsRight, Re
<1> QED BY <1>1, <1>3, Zenon DEF FlagInv

\* A success sets and clears INSTALLED as its context announced.
LEMMA FlagResult ==
  ASSUME TypeInv, SeqInv, FibInv, FlagInv, Faults = {}, rib_process_result
  PROVE  FlagInv'
<1> DEFINE ctx == Head(rib_dplane_q).ctx
<1>1. /\ ctx \in InFlight /\ InFlight = InFlight' \cup {ctx}
      /\ \A i \in Re : /\ i = ResultRe <=> routes[i].seq = ctx.seq
                       /\ i = ResultOldRe <=> /\ routes[i].seq = ctx.old_seq
                                              /\ ctx.old_seq # 0
  BY ResultNames, Zenon
<1>2. Head(rib_dplane_q).success
  <2>1. rib_dplane_q \in Seq(Result) /\ rib_dplane_q # << >>
    BY Zenon DEF TypeInv, TypeOK, rib_process_result
  <2> QED BY <2>1 DEF FibInv, NothingLost
<1>3. /\ DOMAIN routes' = Re
      /\ \A i \in Re : /\ routes'[i].adv = routes[i].adv
                       /\ routes'[i].active = routes[i].active
                       /\ routes'[i].seq = routes[i].seq
                       /\ ~System(i) => ResultFlags(i, routes'[i])
  BY ResultIs, Zenon DEF Same
<1>4. Tags' /\ \A c \in InFlight : c.seq # 0
  BY <1>1, Zenon DEF FlagInv, Tags, SeqInv, SeqBound
<1>5. selected_fib' = selected_fib
  BY Zenon DEF rib_process_result
<1>6. ASSUME NEW i \in Re, ~System(i)
      PROVE  Lands(InFlight', routes'[i]) <=> Lands(InFlight, routes[i])
  <2> DEFINE e == routes[i]
             d == routes'[i]
             F == InFlight
             G == InFlight'
  <2>0. /\ d.seq = e.seq /\ ResultFlags(i, d)
        /\ \A c, k \in F : (c.seq = k.seq => c = k) /\ (c.old_seq # 0 => c.old_seq # k.seq)
        /\ F = G \cup {ctx} /\ \A c \in F : c.seq # 0
    BY <1>1, <1>3, <1>4, <1>6, Zenon DEF FlagInv, Tags
  <2>1. CASE i = ResultRe
    <3>1. e.seq = ctx.seq /\ d.installed = (ctx.op # "DELETE")
      BY <1>1, <1>2, <2>0, <2>1, Zenon DEF ResultFlags
    <3> HIDE DEF e, d, F, G, ctx
    <3>2. Lands(F, e) <=> ctx.op # "DELETE"
      BY <2>0, <3>1, Zenon DEF Lands
    <3>3. CASE ctx \in G
      <4>1. Lands(G, d) <=> ctx.op # "DELETE"
        BY <2>0, <3>1, <3>3, Zenon DEF Lands
      <4> QED BY <3>2, <4>1, Zenon DEF e, d, F, G
    <3>4. CASE ctx \notin G
      <4>1. \A c \in G : d.seq \notin {c.seq, c.old_seq}
        BY <2>0, <3>1, <3>4, Zenon
      <4>2. Lands(G, d) <=> ctx.op # "DELETE"
        BY <3>1, <4>1, Zenon DEF Lands
      <4> QED BY <3>2, <4>2, Zenon DEF e, d, F, G
    <3> QED BY <3>3, <3>4, Zenon
  <2>2. CASE i # ResultRe /\ i = ResultOldRe
    <3>1. e.seq = ctx.old_seq /\ ctx.old_seq # 0 /\ ~d.installed
      BY <1>1, <1>2, <2>0, <2>2, Zenon DEF ResultFlags
    <3> HIDE DEF e, d, F, G, ctx
    <3>2. ~Lands(F, e) /\ ~Lands(G, d)
      BY <2>0, <3>1 DEF Lands
    <3> QED BY <3>2, Zenon DEF e, d, F, G
  <2>3. CASE i # ResultRe /\ i # ResultOldRe
    <3>1. /\ e.seq # ctx.seq /\ (e.seq = ctx.old_seq => e.seq = 0)
          /\ d.installed = e.installed
      BY <1>1, <2>0, <2>3, Zenon DEF ResultFlags
    <3> HIDE DEF e, d, F, G, ctx
    <3>2. Lands(F, e) <=> Lands(G, d)
      BY <2>0, <3>1, Zenon DEF Lands
    <3> QED BY <3>2, Zenon DEF e, d, F, G
  <2> QED BY <2>1, <2>2, <2>3, Zenon
<1> HIDE DEF ctx
<1>7. ASSUME NEW i \in Re, ~System(i)'
      PROVE  Lands(InFlight', routes'[i]) <=> i = selected_fib' /\ routes'[i].active
  <2>1. ~System(i)
    BY <1>3, <1>7, Zenon DEF System, TypeOf
  <2> QED BY <1>3, <1>5, <1>6, <1>7, <2>1, Zenon DEF FlagInv, LandsRight
<1>8. LandsRight'
  BY <1>3, <1>7, Zenon DEF LandsRight, Re
<1> QED BY <1>4, <1>8, Zenon DEF FlagInv

\* The new numbers are nobody else's, so only the entries handed over are affected.
LEMMA LandsHanded ==
  ASSUME TypeInv, SeqInv, Tags, NEW n, NEW op \in DPLANE_OPS, NEW new \in Re, NEW old,
         op = "UPDATE" => old \in Re, Handed(Examined, n, op, new, old),
         UNCHANGED <<work_list, rib_dplane_q>>
  PROVE  /\ Tags'
         /\ \A i \in DOMAIN routes' :
              Lands(InFlight', routes'[i]) <=>
                IF i = new THEN op # "DELETE"
                ELSE IF i = old /\ op = "UPDATE" THEN FALSE
                ELSE Lands(InFlight, routes[i])
<1>1. PICK c \in Ctx :
           /\ InFlight' = InFlight \cup {c}
           /\ c.op = op /\ c.seq = seq + 1
           /\ c.old_seq = IF op = "UPDATE" /\ old # new THEN seq + 2 ELSE 0
           /\ \A i \in DOMAIN routes' :
                routes'[i].seq = IF i = new THEN seq + 1
                                 ELSE IF i = old /\ op = "UPDATE" THEN seq + 2
                                 ELSE routes[i].seq
  BY HandedIs
<1>2. /\ seq \in Nat
      /\ \A d \in InFlight : /\ d.seq \in Nat /\ d.old_seq \in Nat
                             /\ d.seq # 0 /\ d.seq <= seq /\ d.old_seq <= seq
      /\ \A i \in Re : routes[i].seq \in Nat /\ routes[i].seq <= seq
  <2>1. \A i \in Re : routes[i] \in Entry
    BY Zenon DEF TypeInv, TypeOK
  <2>2. \A i \in Re : routes[i].seq \in Nat
    BY <2>1, Zenon DEF Entry
  <2> QED BY <2>2, InFlightCtx, Zenon DEF TypeInv, TypeOK, SeqInv, SeqBound
<1>3. \A d \in InFlight : /\ d.seq # seq + 1 /\ d.seq # seq + 2
                          /\ d.old_seq # seq + 1 /\ d.old_seq # seq + 2
  BY <1>2
<1>4. seq + 1 # seq + 2 /\ seq + 1 # 0 /\ seq + 2 # 0
      /\ \A i \in Re : routes[i].seq # seq + 1 /\ routes[i].seq # seq + 2
  BY <1>2
<1>5. Tags'
  <2>1. ASSUME NEW d \in InFlight \cup {c}, NEW e \in InFlight \cup {c}
        PROVE  (d.seq = e.seq => d = e) /\ (d.old_seq # 0 => d.old_seq # e.seq)
    <3>1. CASE d = c /\ e = c
      BY <1>1, <1>4, <3>1, Zenon
    <3>2. CASE d = c /\ e \in InFlight
      BY <1>1, <1>3, <3>2, Zenon
    <3>3. CASE d \in InFlight /\ e = c
      BY <1>1, <1>3, <3>3, Zenon
    <3>4. CASE d \in InFlight /\ e \in InFlight
      BY <3>4, Zenon DEF Tags
    <3> QED BY <2>1, <3>1, <3>2, <3>3, <3>4, Zenon
  <2> QED BY <1>1, <2>1, Zenon DEF Tags
<1>6. /\ DOMAIN routes' = Re \ Removed(routes)
      /\ \A i \in DOMAIN routes' : i \in Re /\ routes'[i].installed = routes[i].installed
  <2>1. Processed(n)
    BY Zenon DEF Handed, Processed
  <2> QED BY <2>1, ProcessKeeps, Zenon
<1>7. ASSUME NEW i \in DOMAIN routes'
      PROVE  Lands(InFlight', routes'[i]) <=>
                IF i = new THEN op # "DELETE"
                ELSE IF i = old /\ op = "UPDATE" THEN FALSE
                ELSE Lands(InFlight, routes[i])
  <2> DEFINE d == routes'[i]
             e == routes[i]
             F == InFlight
  <2>0. i \in Re /\ d.installed = e.installed /\ e.seq # seq + 1 /\ e.seq # seq + 2
    BY <1>4, <1>6, Zenon
  <2>1. CASE i = new
    <3>1. d.seq = seq + 1
      BY <1>1, <2>1, Zenon
    <3> HIDE DEF d, F
    <3>2. Lands(F \cup {c}, d) <=> op # "DELETE"
      BY <1>1, <1>3, <1>4, <3>1, Zenon DEF Lands, F
    <3> QED BY <1>1, <2>1, <3>2, Zenon DEF d, F
  <2>2. CASE i # new /\ i = old /\ op = "UPDATE"
    <3>1. d.seq = seq + 2 /\ c.old_seq = seq + 2
      BY <1>1, <2>2, Zenon
    <3> HIDE DEF d, F
    <3>2. ~Lands(F \cup {c}, d)
      BY <1>1, <1>3, <1>4, <3>1, Zenon DEF Lands, F
    <3> QED BY <1>1, <2>2, <3>2, Zenon DEF d, F
  <2>3. CASE i # new /\ ~(i = old /\ op = "UPDATE")
    <3>1. d.seq = e.seq
      BY <1>1, <2>3, Zenon
    <3>2. e.seq # c.seq /\ (e.seq # 0 => e.seq # c.old_seq)
      BY <1>1, <2>0, Zenon
    <3> HIDE DEF d, e, F
    <3>3. Lands(F \cup {c}, d) <=> Lands(F, e)
      BY <2>0, <3>1, <3>2, Zenon DEF Lands
    <3> QED BY <1>1, <2>3, <3>3, Zenon DEF d, e, F
  <2> QED BY <2>1, <2>2, <2>3, Zenon
<1> QED BY <1>5, <1>7, Zenon

LEMMA FlagProcess ==
  ASSUME TypeInv, SeqInv, FibInv, FlagInv, "enqueue" \notin Faults, rib_process
  PROVE  FlagInv'
<1>1. PICK n \in Re \cup {NULL}, f \in Re \cup {NULL} :
    /\ Processed(n)
    /\ f # NULL => /\ f \in DOMAIN routes' /\ routes'[f].active /\ selected_fib' = f
    /\ f = NULL /\ selected_fib' # NULL =>
         /\ selected_fib' \in DOMAIN routes' /\ ~routes'[selected_fib'].active
         /\ selected_fib' = selected_fib
    /\ \/ /\ f # NULL /\ selected_fib = NULL
          /\ Handed(Examined, n, "INSTALL", f, NULL)
       \/ /\ f # NULL /\ selected_fib # NULL
          /\ Handed(Examined, n, "UPDATE", f, selected_fib)
       \/ /\ f # NULL /\ selected_fib = f
          /\ Handed(Examined, n, "INSTALL", f, NULL)
       \/ /\ f # NULL /\ selected_fib = f /\ routes'[f].active = routes[f].active
          /\ Nothing(Examined, n)
       \/ /\ f = NULL /\ selected_fib # NULL
          /\ Handed(Examined, n, "DELETE", selected_fib, NULL)
       \/ /\ f = NULL /\ selected_fib = NULL
          /\ Nothing(Examined, n) /\ selected_fib' = NULL
  BY ProcessFib, Zenon
<1> DEFINE old == selected_fib
<1>2. UNCHANGED <<work_list, rib_dplane_q>>
  BY Zenon DEF rib_process
<1>3. NULL \notin Re /\ (old # NULL => old \in Re)
  BY DEF TypeInv, TypeOK, SelectedFibLinked, NULL
<1>4. \A i \in DOMAIN routes' :
        /\ i \in Re /\ ~routes[i].removed /\ routes'[i].installed = routes[i].installed
        /\ routes'[i].adv = routes[i].adv
  <2>1. \A i \in DOMAIN routes' :
          /\ i \in Re /\ ~routes[i].removed /\ routes'[i].installed = routes[i].installed
          /\ routes'[i].adv = Examined[i].adv
    BY <1>1, ProcessKeeps, Zenon DEF Same
  <2> QED BY <2>1, ExaminedIs, Zenon
<1>5. ASSUME NEW i \in DOMAIN routes', ~System(i)', i # old
      PROVE  ~Lands(InFlight, routes[i])
  <2>1. i \in Re /\ ~System(i)
    BY <1>4, <1>5, Zenon DEF System, TypeOf
  <2> QED BY <1>5, <2>1, Zenon DEF FlagInv, LandsRight
<1>6. f # NULL => f \in Re
  BY <1>1, <1>4, Zenon
<1> HIDE DEF old
<1>7. ASSUME NEW op \in DPLANE_OPS, NEW new \in Re, NEW o, op = "UPDATE" => o \in Re,
             Handed(Examined, n, op, new, o),
             \A i \in DOMAIN routes' \ {new} :
               /\ i # old \/ (i = o /\ op = "UPDATE")
               /\ i # selected_fib',
             new \in DOMAIN routes' =>
               (op # "DELETE" <=> new = selected_fib' /\ routes'[new].active)
      PROVE  FlagInv'
  <2>1. /\ Tags'
        /\ \A i \in DOMAIN routes' :
              Lands(InFlight', routes'[i]) <=>
                IF i = new THEN op # "DELETE"
                ELSE IF i = o /\ op = "UPDATE" THEN FALSE
                ELSE Lands(InFlight, routes[i])
    BY <1>2, <1>7, LandsHanded, Zenon DEF FlagInv
  <2>2. ASSUME NEW i \in DOMAIN routes', ~System(i)'
        PROVE  Lands(InFlight', routes'[i]) <=> i = selected_fib' /\ routes'[i].active
    <3>1. CASE i = new
      BY <1>7, <2>1, <3>1, Zenon
    <3>2. CASE i # new
      <4>1. i # selected_fib' /\ (i # old \/ (i = o /\ op = "UPDATE"))
        BY <1>7, <3>2, Zenon
      <4>2. ~Lands(InFlight', routes'[i])
        BY <1>5, <2>1, <2>2, <3>2, <4>1, Zenon
      <4> QED BY <4>1, <4>2, Zenon
    <3> QED BY <3>1, <3>2, Zenon
  <2> QED BY <2>1, <2>2, Zenon DEF FlagInv, LandsRight, Re
<1>8. ASSUME Nothing(Examined, n), selected_fib' = old,
             old # NULL => routes'[old].active = routes[old].active
      PROVE  FlagInv'
  <2>1. InFlight' = InFlight
    BY <1>2, <1>8, Zenon DEF Nothing, InFlight
  <2>2. \A i \in DOMAIN routes' : routes'[i].seq = routes[i].seq
    <3>1. /\ DOMAIN Examined = Re
          /\ \A i \in Re : Examined[i] \in Entry /\ Examined[i].seq = routes[i].seq
      BY ExaminedIs, Zenon
    <3> DEFINE ch == Chosen(Examined, n)
    <3>2. DOMAIN ch = Re /\ \A i \in Re : ch[i].seq = routes[i].seq
      BY <3>1, ChosenIs
    <3>3. routes' = Drop(ch, Removed(Examined))
      BY <1>8, Zenon DEF Nothing
    <3> HIDE DEF ch
    <3> QED BY <3>2, <3>3, Zenon DEF Drop
  <2>3. Tags'
    BY <2>1, Zenon DEF FlagInv, Tags
  <2>4. ASSUME NEW i \in DOMAIN routes', ~System(i)'
        PROVE  Lands(InFlight', routes'[i]) <=> i = selected_fib' /\ routes'[i].active
    <3>1. Lands(InFlight', routes'[i]) <=> Lands(InFlight, routes[i])
      BY <1>4, <2>1, <2>2, Zenon DEF Lands
    <3>2. CASE i # old
      BY <1>5, <1>8, <2>4, <3>1, <3>2, Zenon
    <3>3. CASE i = old
      <4>1. i \in Re /\ ~System(i) /\ i # NULL
        BY <1>3, <1>4, <2>4, Zenon DEF System, TypeOf
      <4> QED BY <1>8, <3>1, <3>3, <4>1, Zenon DEF FlagInv, LandsRight, old
    <3> QED BY <3>2, <3>3, Zenon
  <2> QED BY <2>3, <2>4, Zenon DEF FlagInv, LandsRight, Re
<1>9. DPLANE_OPS = {"INSTALL", "UPDATE", "DELETE"}
  BY Zenon DEF DPLANE_OPS
<1>10. CASE f # NULL /\ old \in {NULL, f} /\ Handed(Examined, n, "INSTALL", f, NULL)
  BY <1>1, <1>3, <1>4, <1>6, <1>7, <1>9, <1>10
<1>11. CASE f # NULL /\ old # NULL /\ Handed(Examined, n, "UPDATE", f, old)
  BY <1>1, <1>3, <1>4, <1>6, <1>7, <1>9, <1>11, Zenon
<1>12. CASE /\ f # NULL /\ old = f /\ routes'[f].active = routes[f].active
            /\ Nothing(Examined, n)
  BY <1>1, <1>8, <1>12, Zenon
<1>13. CASE f = NULL /\ old # NULL /\ Handed(Examined, n, "DELETE", old, NULL)
  <2>1. \A i \in DOMAIN routes' \ {old} : i # selected_fib'
    BY <1>1, <1>3, <1>4, <1>13, Zenon DEF old
  <2>2. old \in DOMAIN routes' => ~(old = selected_fib' /\ routes'[old].active)
    BY <1>1, <1>3, <1>13, Zenon
  <2> QED BY <1>3, <1>7, <1>9, <1>13, <2>1, <2>2
<1>14. CASE f = NULL /\ old = NULL /\ Nothing(Examined, n) /\ selected_fib' = NULL
  BY <1>8, <1>14, Zenon
<1> QED BY <1>1, <1>10, <1>11, <1>12, <1>13, <1>14 DEF old

LEMMA FlagStep ==
  ASSUME TypeInv, SeqInv, FibInv, FlagInv, Faults = {}, "lost" \notin Events,
         [Next]_vars
  PROVE  FlagInv'
<1>1. CASE \/ Input \/ DplaneThread \/ UNCHANGED vars
           \/ process_subq_early_route_add \/ process_subq_early_route_delete
  <2> DEFINE new == nre + 1
  <2>1. new \notin Re
    BY DEF TypeInv, TypeOK
  <2>2. \A c \in InFlight : c.seq # 0
    BY Zenon DEF SeqInv, SeqBound
  <2>3. /\ InFlight' = InFlight /\ UNCHANGED selected_fib
        /\ DOMAIN routes' \subseteq Re \cup {new}
        /\ new \in DOMAIN routes' =>
              /\ routes'[new].seq = 0 /\ ~routes'[new].installed
              /\ ~routes'[new].active
        /\ \A i \in DOMAIN routes' \ {new} :
              /\ routes'[i].adv = routes[i].adv
              /\ routes'[i].active = routes[i].active
              /\ routes'[i].installed = routes[i].installed
              /\ routes'[i].seq = routes[i].seq
    BY <1>1, CalmStep, Zenon
  <2> HIDE DEF new
  <2> QED BY <2>1, <2>2, <2>3, FlagKept, Zenon
<1>2. ~rib_process_kernel_route_notif
  BY NoLoss, Zenon
<1> QED BY <1>1, <1>2, FlagProcess, FlagResult, Zenon DEF Next, MainThread

\* At rest nothing is in flight.
LEMMA FlagAtRest ==
  ASSUME TypeInv, OnItsWay, FlagInv
  PROVE  InstalledTruth
<1> SUFFICES ASSUME Quiet, NEW i \in Re, ~System(i)
             PROVE  routes[i].installed <=> i = selected_fib /\ kern # None
  BY Zenon DEF InstalledTruth
<1>1. InFlight = {}
  BY DEF Quiet, InFlight, Contents, Answered
<1>2. Lands(InFlight, routes[i]) <=> routes[i].installed
  BY <1>1, Zenon DEF Lands
<1>3. routes[i].installed <=> i = selected_fib /\ routes[i].active
  BY <1>2, Zenon DEF FlagInv, LandsRight
<1>4. kern = Intended
  <2>1. PICK mid : Leads(<< >>, kern, mid) /\ Leads(<< >>, mid, Intended)
    BY Zenon DEF Quiet, OnItsWay
  <2> QED BY <2>1, LeadsNil, Zenon
<1>5. i # NULL
  BY DEF TypeInv, TypeOK, NULL
<1>6. ASSUME i = selected_fib PROVE kern # None <=> routes[i].active
  <2>1. kern = IF ~routes[i].active THEN None
               ELSE [type |-> TypeOf(i), nh |-> routes[i].adv.nh]
    BY <1>4, <1>5, <1>6, Zenon DEF Intended
  <2>2. TypeOf(i) \in Types /\ routes[i].adv.nh \in Nhs
    <3>1. routes[i] \in Entry
      BY Zenon DEF TypeInv, TypeOK
    <3> QED BY <3>1, RibAssumption, Zenon DEF TypeOf, Entry
  <2>3. [type |-> TypeOf(i), nh |-> routes[i].adv.nh] # None
    BY <2>2, RibAssumption
  <2> QED BY <2>1, <2>3, Zenon
<1> QED BY <1>3, <1>6, Zenon

\* Once both pthreads are idle ROUTE_ENTRY_INSTALLED tells the truth: it is on the
\* entry the kernel holds and, connected entries aside, on no other, under the
\* assumptions of RibFibMatches.
THEOREM RibInstalledTruth ==
  ASSUME Faults = {}, "lost" \notin Events, NoTwins
  PROVE  Spec => []InstalledTruth
<1>1. ASSUME Init PROVE TypeInv /\ SeqInv /\ FibInv /\ OnItsWay /\ FlagInv
  <2>1. Re = {} /\ InFlight = {}
    BY <1>1 DEF Init, Re, InFlight, Contents, Answered
  <2>2. FlagInv
    BY <2>1, Zenon DEF FlagInv, Tags, LandsRight
  <2> QED BY <1>1, <2>2, InitTypeInv, SeqInvInit, InitFibInv, Zenon
<1>2. TypeInv /\ SeqInv /\ FibInv /\ OnItsWay /\ FlagInv /\ [Next]_vars
        => TypeInv' /\ SeqInv' /\ FibInv' /\ OnItsWay' /\ FlagInv'
  BY TypeInvStep, SeqInvStep, FibStep, FlagStep, Zenon
<1>3. TypeInv /\ OnItsWay /\ FlagInv => InstalledTruth
  BY FlagAtRest, Zenon
<1> QED BY <1>1, <1>2, <1>3, PTL DEF Spec

-----------------------------------------------------------------------------
(* The invariant behind RedistAnnounced. *)

\* The selection has one outcome.
LEMMA WantedUnique ==
  ASSUME NEW r, DOMAIN r \subseteq Nat, NULL \notin DOMAIN r,
         \A i \in DOMAIN r : r[i].adv \in Adverts,
         NEW i, NEW j, WantedIn(r, i), WantedIn(r, j)
  PROVE  i = j
<1> DEFINE over == {k \in Usable(r) : r[k].adv.override}
           S == IF over = {} THEN Usable(r) ELSE over
<1>1. S \subseteq DOMAIN r
  BY Zenon DEF Usable
<1>2. IsBest(r, i, S) /\ IsBest(r, j, S)
  BY Zenon DEF WantedIn
<1> HIDE DEF S
<1>3. CASE S = {}
  BY <1>2, <1>3, Zenon DEF IsBest
<1>4. ASSUME S # {}, i # j PROVE FALSE
  <2>1. /\ i \in S /\ j \in S
        /\ Better(r[i].adv, r[j].adv) \/ (~Better(r[j].adv, r[i].adv) /\ j < i)
        /\ Better(r[j].adv, r[i].adv) \/ (~Better(r[i].adv, r[j].adv) /\ i < j)
    BY <1>2, <1>4, Zenon DEF IsBest
  <2>2. ASSUME NEW a \in Adverts, NEW b \in Adverts PROVE ~(Better(a, b) /\ Better(b, a))
    <3>1. /\ a.metric \in Nat /\ a.distance \in Nat
          /\ b.metric \in Nat /\ b.distance \in Nat
      BY <2>2, RibAssumption, Zenon
    <3> QED BY <3>1 DEF Better
  <2>3. i \in Nat /\ j \in Nat /\ r[i].adv \in Adverts /\ r[j].adv \in Adverts
    BY <1>1, <2>1, Zenon
  <2>4. ~(j < i /\ i < j)
    BY <2>3
  <2>5. ~(Better(r[i].adv, r[j].adv) /\ Better(r[j].adv, r[i].adv))
    BY <2>2, <2>3, Zenon
  <2> HIDE DEF Better
  <2> QED BY <2>1, <2>4, <2>5, Zenon
<1> QED BY <1>3, <1>4, Zenon

\* At rest the entry the FIB should hold is the one in the FIB.
LEMMA WantedInFib ==
  ASSUME TypeInv, FibInv, Quiet, NEW i \in Re, Wanted(i)
  PROVE  selected_fib = i /\ i # NULL /\ routes[i].active
<1>1. PICK j \in Re \cup {NULL} : WantedIn(routes, j) /\ (j # NULL => selected_fib = j)
  BY Zenon DEF FibInv, Settled, Quiet
<1>2. WantedIn(routes, i)
  BY Zenon DEF Wanted, WantedIn
<1>3. /\ DOMAIN routes \subseteq Nat /\ NULL \notin DOMAIN routes /\ i # NULL
      /\ \A k \in DOMAIN routes : routes[k].adv \in Adverts
  BY EntryParts DEF TypeInv, TypeOK, Re, NULL
<1>4. i = j
  BY <1>1, <1>2, <1>3, WantedUnique, Zenon
<1>5. i \in Usable(routes)
  BY <1>2, <1>3, WantedUsable, Zenon
<1> QED BY <1>1, <1>3, <1>4, <1>5, Zenon DEF Usable

\* The client has the route in the FIB, or a result that will announce it is still
\* to come.
Announced ==
  (/\ selected_fib # NULL /\ routes[selected_fib].active
   /\ TypeOf(selected_fib) \in RedistTypes)
  => \/ redist = TypeOf(selected_fib)
     \/ \E c \in InFlight : c.seq = routes[selected_fib].seq /\ c.op # "DELETE"

\* An announcement that overrides the FIB replaces whatever else its owner announced,
\* as NHRP's do: only NHRP sets the flag.
OverridesReplace ==
  \A a \in Adverts : a.override => a.type \notin StaticTypes

\* The entry marked SELECTED does not override the FIB, and if it is not the one in the
\* FIB it has another owner, system routes apart.
Apart ==
  \A i \in Re : routes[i].selected =>
    /\ ~routes[i].adv.override
    /\ selected_fib # NULL /\ TypeOf(i) = TypeOf(selected_fib) /\ ~System(i)
         => i = selected_fib

\* The winner and the entry that overrides it are both usable, so they differ in type.
LEMMA ApartProcess ==
  ASSUME TypeInv, FibInv, SelectedUnique, OverridesReplace, "enqueue" \notin Faults,
         rib_process
  PROVE  Apart'
<1>1. PICK n \in Re \cup {NULL}, f \in Re \cup {NULL} :
    /\ WantedIn(Examined, f) /\ Processed(n)
    /\ n # NULL => n \in Usable(Examined) /\ ~routes[n].adv.override
    /\ f # n => f # NULL /\ routes[f].adv.override
    /\ f # NULL => f \in DOMAIN routes' /\ selected_fib' = f
  BY ProcessFib, Zenon
<1>2. /\ \A i \in Re : /\ Examined[i].adv = routes[i].adv /\ routes[i].adv \in Adverts
                       /\ Examined[i].removed = routes[i].removed
      /\ NULL \notin Re
  BY ExaminedIs, EntryParts DEF TypeInv, TypeOK, NULL
<1>3. \A i \in DOMAIN routes' : /\ i \in Re /\ routes'[i].adv = routes[i].adv
                                /\ routes'[i].selected => i = n
  <2>1. \A i \in DOMAIN routes' : /\ i \in Re /\ routes'[i].adv = Examined[i].adv
                                  /\ routes'[i].selected = Selected(Examined, n, i)
    BY <1>1, ProcessKeeps, Zenon DEF Same
  <2> QED BY <1>2, <2>1, SelectedMoves, Zenon
<1> SUFFICES ASSUME NEW i \in DOMAIN routes', routes'[i].selected
             PROVE  /\ ~routes'[i].adv.override
                    /\ selected_fib' # NULL /\ TypeOf(i)' = TypeOf(selected_fib)' /\ ~System(i)'
                         => i = selected_fib'
  BY Zenon DEF Apart, Re
<1>4. i = n /\ n \in Re /\ n # NULL
  BY <1>2, <1>3, Zenon
<1>5. ASSUME f # n, TypeOf(i)' = TypeOf(selected_fib)', ~System(i)' PROVE FALSE
  <2>1. f \in Re /\ f \in DOMAIN routes' /\ selected_fib' = f /\ routes[f].adv.override
    BY <1>1, <1>2, <1>5, Zenon
  <2>2. routes[n].adv.type = routes[f].adv.type /\ routes[n].adv.type \notin SystemTypes
    BY <1>3, <1>4, <1>5, <2>1, Zenon DEF TypeOf, System
  <2>3. n \in Usable(Examined) /\ f \in Usable(Examined)
    BY <1>1, <1>4, <2>1, WantedUsable, Zenon DEF NULL
  <2>4. ~routes[n].removed /\ ~routes[f].removed
    BY <1>2, <2>1, <2>3, <1>4, Zenon DEF Usable
  <2>5. rib_compare_routes(routes[n].adv, routes[f].adv)
    BY <1>2, <2>1, <2>2, Zenon DEF rib_compare_routes, OverridesReplace
  <2> QED BY <1>4, <1>5, <2>1, <2>4, <2>5, Zenon DEF FibInv, OneOfAKind
<1> QED BY <1>1, <1>3, <1>4, <1>5, Zenon

LEMMA ApartStep ==
  ASSUME TypeInv, FibInv, SelectedUnique, Apart, OverridesReplace,
         "enqueue" \notin Faults, "lost" \notin Events, [Next]_vars
  PROVE  Apart'
<1>0. selected_fib # NULL => selected_fib \in Re /\ selected_fib # nre + 1
  BY DEF TypeInv, TypeOK, SelectedFibLinked
<1>1. ASSUME /\ selected_fib' = selected_fib
             /\ selected_fib # NULL => selected_fib \in DOMAIN routes'
             /\ \A i \in DOMAIN routes' : routes'[i].selected => i \in Re /\ routes[i].selected
             /\ \A i \in DOMAIN routes' : i \in Re => routes'[i].adv = routes[i].adv
      PROVE  Apart'
  <2> SUFFICES ASSUME NEW i \in DOMAIN routes', routes'[i].selected
               PROVE  /\ ~routes'[i].adv.override
                      /\ selected_fib # NULL /\ TypeOf(i)' = TypeOf(selected_fib)' /\ ~System(i)'
                           => i = selected_fib
    BY <1>1, Zenon DEF Apart, Re
  <2>1. i \in Re /\ routes[i].selected /\ routes'[i].adv = routes[i].adv
    BY <1>1, Zenon
  <2>2. selected_fib # NULL => routes'[selected_fib].adv = routes[selected_fib].adv
    BY <1>0, <1>1, Zenon
  <2> QED BY <1>1, <2>1, <2>2, Zenon DEF Apart, TypeOf, System
<1>2. TypeInv'
  BY TypeInvStep, Zenon
<1>3. CASE \/ Input \/ DplaneThread \/ UNCHANGED vars
           \/ process_subq_early_route_add \/ process_subq_early_route_delete
  <2>1. /\ UNCHANGED selected_fib
        /\ DOMAIN routes' \subseteq Re \cup {nre + 1}
        /\ nre + 1 \in DOMAIN routes' => ~routes'[nre + 1].selected
        /\ \A i \in DOMAIN routes' \ {nre + 1} :
              /\ i \in Re /\ routes'[i].adv = routes[i].adv
              /\ routes'[i].selected = routes[i].selected
    BY <1>3, CalmStep, Zenon
  <2>2. nre + 1 \notin Re
    BY DEF TypeInv, TypeOK
  <2>3. selected_fib # NULL => selected_fib \in DOMAIN routes'
    BY <1>2, <2>1, Zenon DEF TypeInv, SelectedFibLinked, Re
  <2> QED BY <1>1, <2>1, <2>2, <2>3, Zenon
<1>4. CASE rib_process_result
  <2>1. DOMAIN routes' = Re /\ \A i \in Re : /\ routes'[i].adv = routes[i].adv
                                            /\ routes'[i].selected = routes[i].selected
    BY <1>4, ResultEffect, Zenon
  <2>2. selected_fib' = selected_fib
    BY <1>4, Zenon DEF rib_process_result
  <2> QED BY <1>0, <1>1, <2>1, <2>2, Zenon
<1>5. ~rib_process_kernel_route_notif
  BY NoLoss, Zenon
<1> QED BY <1>3, <1>4, <1>5, ApartProcess, Zenon DEF Next, MainThread

LEMMA AnnouncedResult ==
  ASSUME TypeInv, SeqInv, FibInv, Announced, Faults = {}, rib_process_result
  PROVE  Announced'
<1> DEFINE ctx == Head(rib_dplane_q).ctx
           fib == selected_fib
<1>1. /\ ctx \in InFlight /\ InFlight = InFlight' \cup {ctx}
      /\ \A i \in Re : i = ResultRe <=> routes[i].seq = ctx.seq
  BY ResultNames, Zenon
<1>2. Head(rib_dplane_q).success
  <2>1. rib_dplane_q \in Seq(Result) /\ rib_dplane_q # << >>
    BY Zenon DEF TypeInv, TypeOK, rib_process_result
  <2> QED BY <2>1 DEF FibInv, NothingLost
<1>3. \A i \in Re : /\ routes'[i].adv = routes[i].adv
                    /\ routes'[i].active = routes[i].active
                    /\ routes'[i].seq = routes[i].seq
  BY ResultIs, Zenon DEF Same
<1>4. /\ selected_fib' = fib
      /\ redist' = IF ctx.op # "DELETE" /\ ResultRe # NULL /\ ResultRe = fib
                   THEN redistribute_update(ResultRe, ResultOldRe) ELSE redist
  BY <1>2, Zenon DEF rib_process_result, ResultRe, ResultOldRe
<1>5. fib # NULL => fib \in Re
  BY Zenon DEF TypeInv, SelectedFibLinked
<1> HIDE DEF ctx, fib
<1> SUFFICES ASSUME fib # NULL, routes'[fib].active, TypeOf(fib)' \in RedistTypes
             PROVE  \/ redist' = TypeOf(fib)'
                    \/ \E c \in InFlight' : c.seq = routes'[fib].seq /\ c.op # "DELETE"
  BY <1>4, Zenon DEF Announced, TypeOf, fib
<1>6. /\ TypeOf(fib)' = TypeOf(fib) /\ TypeOf(fib) \in RedistTypes
      /\ routes[fib].active /\ routes'[fib].seq = routes[fib].seq
  <2>1. fib' = fib
    BY <1>4, Zenon DEF fib
  <2>2. /\ routes'[fib].adv = routes[fib].adv
        /\ routes'[fib].active = routes[fib].active
        /\ routes'[fib].seq = routes[fib].seq
    BY <1>3, <1>5, Zenon
  <2>3. TypeOf(fib)' = routes'[fib].adv.type
    BY <2>1, Zenon DEF TypeOf
  <2>4. TypeOf(fib)' = TypeOf(fib)
    BY <2>2, <2>3, Zenon DEF TypeOf
  <2> QED BY <2>2, <2>4, Zenon
<1>7. \/ redist = TypeOf(fib)
      \/ \E c \in InFlight : c.seq = routes[fib].seq /\ c.op # "DELETE"
  BY <1>6, Zenon DEF Announced, fib
<1>8. redist' \in {redist, TypeOf(fib)}
  BY <1>4, <1>6, Zenon DEF redistribute_update
<1>9. CASE redist = TypeOf(fib)
  BY <1>6, <1>8, <1>9, Zenon
<1>10. ASSUME NEW c \in InFlight, c.seq = routes[fib].seq, c.op # "DELETE"
       PROVE  \/ redist' = TypeOf(fib)'
              \/ \E d \in InFlight' : d.seq = routes'[fib].seq /\ d.op # "DELETE"
  <2>1. CASE c = ctx
    BY <1>1, <1>4, <1>5, <1>6, <1>10, <2>1, Zenon DEF redistribute_update
  <2>2. CASE c # ctx
    BY <1>1, <1>6, <1>10, <2>2, Zenon
  <2> QED BY <2>1, <2>2, Zenon
<1> QED BY <1>7, <1>9, <1>10, Zenon

LEMMA AnnouncedProcess ==
  ASSUME TypeInv, FibInv, Announced, Apart, "enqueue" \notin Faults, rib_process
  PROVE  Announced'
<1>1. PICK n \in Re \cup {NULL}, f \in Re \cup {NULL} :
    /\ WantedIn(Examined, f) /\ Processed(n)
    /\ f # n => f # NULL /\ routes[f].adv.override
    /\ redist' = redistribute_delete(OldSelected(Examined), n)
    /\ f # NULL => /\ f \in DOMAIN routes' /\ routes'[f].active /\ selected_fib' = f
    /\ f = NULL /\ selected_fib' # NULL =>
         /\ selected_fib' \in DOMAIN routes' /\ ~routes'[selected_fib'].active
         /\ selected_fib' = selected_fib
    /\ \/ /\ f # NULL /\ selected_fib = NULL
          /\ Handed(Examined, n, "INSTALL", f, NULL)
       \/ /\ f # NULL /\ selected_fib # NULL
          /\ Handed(Examined, n, "UPDATE", f, selected_fib)
       \/ /\ f # NULL /\ selected_fib = f
          /\ Handed(Examined, n, "INSTALL", f, NULL)
       \/ /\ f # NULL /\ selected_fib = f /\ routes'[f].active = routes[f].active
          /\ ~System(f) /\ Nothing(Examined, n)
       \/ /\ f = NULL /\ selected_fib # NULL
          /\ Handed(Examined, n, "DELETE", selected_fib, NULL)
       \/ /\ f = NULL /\ selected_fib = NULL
          /\ Nothing(Examined, n) /\ selected_fib' = NULL
  BY ProcessFib, Zenon
<1>2. UNCHANGED <<work_list, rib_dplane_q>>
  BY Zenon DEF rib_process
<1>3. \A i \in DOMAIN routes' : i \in Re /\ routes'[i].adv = routes[i].adv
  <2>1. \A i \in DOMAIN routes' : i \in Re /\ routes'[i].adv = Examined[i].adv
    BY <1>1, ProcessKeeps, Zenon DEF Same
  <2> QED BY <2>1, ExaminedIs, Zenon
<1>4. selected_fib # NULL => selected_fib \in Re
  BY Zenon DEF TypeInv, SelectedFibLinked
<1>5. CASE f = NULL
  BY <1>1, <1>5, Zenon DEF Announced
<1>6. CASE f # NULL
  <2> SUFFICES ASSUME TypeOf(f)' \in RedistTypes
               PROVE  \/ redist' = TypeOf(f)'
                      \/ \E c \in InFlight' : c.seq = routes'[f].seq /\ c.op # "DELETE"
    BY <1>1, <1>6, Zenon DEF Announced, TypeOf
  <2>1. f \in Re /\ TypeOf(f)' = TypeOf(f) /\ f \in DOMAIN routes'
    BY <1>1, <1>3, <1>6, Zenon DEF TypeOf
  <2>2. ASSUME NEW op \in {"INSTALL", "UPDATE"}, NEW o, op = "UPDATE" => o \in Re,
               Handed(Examined, n, op, f, o)
        PROVE  \E c \in InFlight' : c.seq = routes'[f].seq /\ c.op # "DELETE"
    <3>1. op \in DPLANE_OPS /\ op # "DELETE"
      BY Zenon DEF DPLANE_OPS
    <3>2. \E c \in Ctx :
            /\ InFlight' = InFlight \cup {c}
            /\ c.op = op /\ c.seq = seq + 1
            /\ c.old_seq = IF op = "UPDATE" /\ o # f THEN seq + 2 ELSE 0
            /\ c.type = TypeOf(f) /\ c.nh = routes[f].adv.nh
            /\ \A i \in DOMAIN routes' :
                 routes'[i].seq = IF i = f THEN seq + 1
                                  ELSE IF i = o /\ op = "UPDATE" THEN seq + 2
                                  ELSE routes[i].seq
      BY <1>2, <2>1, <2>2, <3>1, HandedIs
    <3>3. \E c \in Ctx : /\ InFlight' = InFlight \cup {c}
                         /\ c.op = op /\ c.seq = routes'[f].seq
      BY <2>1, <3>2, Zenon
    <3> QED BY <3>1, <3>3, Zenon
  <2>3. CASE /\ selected_fib = f /\ routes'[f].active = routes[f].active
             /\ ~System(f) /\ Nothing(Examined, n)
    <3>1. redist = TypeOf(f) => redist' = redist
      <4> SUFFICES ASSUME redist = TypeOf(f), redist' # redist PROVE FALSE
        OBVIOUS
      <4> DEFINE old == OldSelected(Examined)
      <4>1. /\ redist' = redistribute_delete(old, n) /\ redist' # redist
        BY <1>1, Zenon
      <4> HIDE DEF old
      <4>2. /\ old # NULL /\ TypeOf(old) = TypeOf(f)
            /\ n # NULL => TypeOf(n) \notin RedistTypes
        BY <4>1, Zenon DEF redistribute_delete
      <4>3. old \in Re /\ routes[old].selected
        <5>1. old \in {i \in Re : Examined[i].selected}
          BY <4>2, FirstMember, Zenon DEF old, OldSelected, TypeInv, TypeOK
        <5> QED BY <5>1, ExaminedIs, Zenon
      <4>4. old = f /\ ~routes[f].adv.override
        BY <1>6, <2>3, <4>2, <4>3, Zenon DEF Apart, System
      <4> QED BY <1>1, <1>6, <2>1, <4>2, <4>4, Zenon
    <3>2. InFlight' = InFlight
      BY <1>2, <2>3, Zenon DEF Nothing, InFlight
    <3>3. routes'[f].seq = routes[f].seq
      <4> DEFINE ch == Chosen(Examined, n)
      <4>1. /\ DOMAIN Examined = Re
            /\ \A i \in Re : Examined[i] \in Entry /\ Examined[i].seq = routes[i].seq
        BY ExaminedIs, Zenon
      <4>2. DOMAIN ch = Re /\ \A i \in Re : ch[i].seq = routes[i].seq
        BY <4>1, ChosenIs
      <4>3. routes' = Drop(ch, Removed(Examined))
        BY <2>3, Zenon DEF Nothing
      <4> HIDE DEF ch
      <4> QED BY <2>1, <4>2, <4>3, Zenon DEF Drop
    <3>4. routes[f].active
      BY <1>1, <1>6, <2>3, Zenon
    <3> QED BY <1>6, <2>1, <2>3, <3>1, <3>2, <3>3, <3>4, Zenon DEF Announced
  <2> QED BY <1>1, <1>4, <1>6, <2>2, <2>3, Zenon
<1> QED BY <1>5, <1>6, Zenon

LEMMA AnnouncedStep ==
  ASSUME TypeInv, SeqInv, FibInv, Announced, Apart, Faults = {},
         "lost" \notin Events, [Next]_vars
  PROVE  Announced'
<1>1. CASE \/ Input \/ DplaneThread \/ UNCHANGED vars
           \/ process_subq_early_route_add \/ process_subq_early_route_delete
  <2> DEFINE fib == selected_fib
  <2>1. /\ InFlight' = InFlight /\ UNCHANGED <<selected_fib, redist>>
        /\ \A i \in DOMAIN routes' \ {nre + 1} :
              /\ routes'[i].adv = routes[i].adv
              /\ routes'[i].active = routes[i].active
              /\ routes'[i].seq = routes[i].seq
    BY <1>1, CalmStep, Zenon
  <2>2. fib # NULL => fib \in Re /\ fib # nre + 1
    BY DEF TypeInv, TypeOK, SelectedFibLinked
  <2>3. TypeInv'
    BY TypeInvStep, Zenon
  <2>4. fib # NULL => fib \in DOMAIN routes'
    BY <2>1, <2>3, Zenon DEF TypeInv, SelectedFibLinked, Re
  <2>5. fib # NULL => /\ routes'[fib].adv = routes[fib].adv
                      /\ routes'[fib].active = routes[fib].active
                      /\ routes'[fib].seq = routes[fib].seq
    BY <2>1, <2>2, <2>4, Zenon
  <2> QED BY <2>1, <2>5, Zenon DEF Announced, TypeOf
<1>2. ~rib_process_kernel_route_notif
  BY NoLoss, Zenon
<1> QED BY <1>1, <1>2, AnnouncedProcess, AnnouncedResult, Zenon DEF Next, MainThread

\* While both pthreads are idle a redistribution client that subscribed to the type
\* of the route in the FIB has been told of it, whatever withdrawals were suppressed
\* on the way, if an announcement that overrides the FIB replaces its owner's others
\* and the kernel accepts what it is given and loses nothing.
THEOREM RibRedistAnnounced ==
  ASSUME Faults = {}, "lost" \notin Events, OverridesReplace
  PROVE  Spec => []RedistAnnounced
<1> DEFINE Inv == TypeInv /\ SeqInv /\ FibInv /\ SelectedUnique /\ Announced /\ Apart
<1>1. Init => Inv
  <2>1. Init => SelectedUnique /\ Announced /\ Apart
    BY Zenon DEF Init, SelectedUnique, Announced, Apart, Re
  <2> QED BY <2>1, InitTypeInv, SeqInvInit, InitFibInv, Zenon
<1>2. Inv /\ [Next]_vars => Inv'
  BY TypeInvStep, SeqInvStep, FibStep, SelectedUniqueStep, AnnouncedStep, ApartStep, Zenon
<1>3. ASSUME TypeInv, FibInv, Announced PROVE RedistAnnounced
  <2> SUFFICES ASSUME Quiet, NEW i \in Re, Wanted(i), TypeOf(i) \in RedistTypes
               PROVE  redist = TypeOf(i)
    BY Zenon DEF RedistAnnounced
  <2>1. selected_fib = i /\ routes[i].active /\ i # NULL
    BY <1>3, WantedInFib, Zenon
  <2>2. InFlight = {}
    BY DEF Quiet, InFlight, Contents, Answered
  <2> QED BY <1>3, <2>1, <2>2, Zenon DEF Announced
<1> QED BY <1>1, <1>2, <1>3, PTL DEF Spec

-----------------------------------------------------------------------------
(* The queues are in the order of the sequence numbers. *)

Rising(q) == \A m, n \in 1..Len(q) : m < n => q[m].seq < q[n].seq

RisingResults(q) == \A m, n \in 1..Len(q) : m < n => q[m].ctx.seq < q[n].ctx.seq

\* Requests are answered in the order they were made.
InOrder ==
  /\ Rising(dg_update_list) /\ Rising(work_list) /\ RisingResults(rib_dplane_q)
  /\ \A c \in Contents(dg_update_list) : ~c.same_nhg
  /\ \A c \in Contents(dg_update_list) :
       \A d \in Contents(work_list) \cup Answered(rib_dplane_q) : d.seq < c.seq
  /\ \A c \in Contents(work_list) : \A d \in Answered(rib_dplane_q) : d.seq < c.seq

LEMMA RisingAppend ==
  ASSUME NEW q \in Seq(Ctx), NEW c \in Ctx, Rising(q),
         \A d \in Contents(q) : d.seq < c.seq
  PROVE  Rising(Append(q, c))
<1>1. /\ Len(Append(q, c)) = Len(q) + 1 /\ Append(q, c)[Len(q) + 1] = c
      /\ \A n \in 1..Len(q) : Append(q, c)[n] = q[n]
  OBVIOUS
<1>2. \A n \in 1..Len(q) : q[n].seq < c.seq
  BY Zenon DEF Contents
<1>3. \A m, n \in 1..(Len(q) + 1) :
        m < n => m \in 1..Len(q) /\ (n \in 1..Len(q) \/ n = Len(q) + 1)
  OBVIOUS
<1> QED BY <1>1, <1>2, <1>3, Zenon DEF Rising

LEMMA RisingTail ==
  ASSUME NEW q \in Seq(Ctx), q # << >>, Rising(q)
  PROVE  Rising(Tail(q)) /\ \A d \in Contents(Tail(q)) : Head(q).seq < d.seq
<1>1. /\ Head(q) = q[1] /\ Len(Tail(q)) = Len(q) - 1 /\ Len(q) \in Nat
      /\ \A n \in 1..Len(Tail(q)) : n + 1 \in 1..Len(q) /\ Tail(q)[n] = q[n + 1]
  OBVIOUS
<1>2. ASSUME NEW m \in 1..Len(Tail(q)), NEW n \in 1..Len(Tail(q)), m < n
      PROVE  Tail(q)[m].seq < Tail(q)[n].seq
  <2>1. m + 1 \in 1..Len(q) /\ n + 1 \in 1..Len(q) /\ m + 1 < n + 1
    BY <1>1, <1>2
  <2> QED BY <1>1, <2>1, Zenon DEF Rising
<1>3. ASSUME NEW n \in 1..Len(Tail(q)) PROVE Head(q).seq < Tail(q)[n].seq
  <2>1. n + 1 \in 1..Len(q) /\ 1 \in 1..Len(q) /\ 1 < n + 1
    BY <1>1
  <2> QED BY <1>1, <2>1, Zenon DEF Rising
<1> QED BY <1>2, <1>3, Zenon DEF Rising, Contents

LEMMA RisingResultsAppend ==
  ASSUME NEW q \in Seq(Result), NEW r \in Result, RisingResults(q),
         \A k \in 1..Len(q) : q[k].ctx.seq < r.ctx.seq
  PROVE  RisingResults(Append(q, r))
<1>1. /\ Len(Append(q, r)) = Len(q) + 1 /\ Append(q, r)[Len(q) + 1] = r
      /\ \A n \in 1..Len(q) : Append(q, r)[n] = q[n]
  OBVIOUS
<1>2. \A m, n \in 1..(Len(q) + 1) :
        m < n => m \in 1..Len(q) /\ (n \in 1..Len(q) \/ n = Len(q) + 1)
  OBVIOUS
<1> QED BY <1>1, <1>2, Zenon DEF RisingResults

LEMMA RisingResultsTail ==
  ASSUME NEW q \in Seq(Result), q # << >>, RisingResults(q)
  PROVE  /\ RisingResults(Tail(q))
         /\ \A d \in Answered(Tail(q)) : Head(q).ctx.seq < d.seq
<1>1. /\ Head(q) = q[1] /\ Len(Tail(q)) = Len(q) - 1 /\ Len(q) \in Nat
      /\ \A n \in 1..Len(Tail(q)) : n + 1 \in 1..Len(q) /\ Tail(q)[n] = q[n + 1]
  OBVIOUS
<1>2. ASSUME NEW m \in 1..Len(Tail(q)), NEW n \in 1..Len(Tail(q)), m < n
      PROVE  Tail(q)[m].ctx.seq < Tail(q)[n].ctx.seq
  <2>1. m + 1 \in 1..Len(q) /\ n + 1 \in 1..Len(q) /\ m + 1 < n + 1
    BY <1>1, <1>2
  <2> QED BY <1>1, <2>1, Zenon DEF RisingResults
<1>3. ASSUME NEW n \in 1..Len(Tail(q)) PROVE Head(q).ctx.seq < Tail(q)[n].ctx.seq
  <2>1. n + 1 \in 1..Len(q) /\ 1 \in 1..Len(q) /\ 1 < n + 1
    BY <1>1
  <2> QED BY <1>1, <2>1, Zenon DEF RisingResults
<1> QED BY <1>2, <1>3, Zenon DEF RisingResults, Answered, Contents

LEMMA InitInOrder == Init => InOrder
BY DEF Init, InOrder, Rising, RisingResults, Contents, Answered

\* The dataplane pthread moves a context from the head of one queue to the tail of
\* the next.
LEMMA InOrderDplane ==
  ASSUME TypeInv, FibInv, InOrder, DplaneThread
  PROVE  InOrder'
<1>0. /\ dg_update_list \in Seq(Ctx) /\ work_list \in Seq(Ctx)
      /\ rib_dplane_q \in Seq(Result)
  BY Zenon DEF TypeInv, TypeOK
<1>1. CASE kernel_dplane_process_func
  <2> DEFINE c == Head(dg_update_list)
  <2>1. /\ dg_update_list # << >> /\ dg_update_list' = Tail(dg_update_list)
        /\ c.same_nhg \/ (work_list' = Append(work_list, c)
                          /\ rib_dplane_q' = rib_dplane_q)
    BY <1>1, Zenon DEF kernel_dplane_process_func
  <2>2. /\ Contents(dg_update_list) = {c} \cup Contents(dg_update_list') /\ c \in Ctx
        /\ Rising(dg_update_list')
        /\ \A d \in Contents(dg_update_list') : c.seq < d.seq
    BY <1>0, <2>1, ContentsTail, RisingTail, HeadMember, Zenon DEF InOrder
  <2>3. ~c.same_nhg
    BY <2>2, Zenon DEF InOrder
  <2> HIDE DEF c
  <2>4. /\ Contents(work_list') = Contents(work_list) \cup {c}
        /\ Rising(work_list')
    <3>1. work_list' = Append(work_list, c)
      BY <2>1, <2>3, Zenon
    <3>2. Rising(work_list) /\ \A d \in Contents(work_list) : d.seq < c.seq
      BY <2>2, Zenon DEF InOrder
    <3> QED BY <1>0, <2>2, <3>1, <3>2, ContentsAppend, RisingAppend
  <2> QED BY <2>1, <2>2, <2>3, <2>4, Zenon DEF InOrder
<1>2. CASE kernel_update_multi
  <2> DEFINE c == Head(work_list)
  <2>1. PICK ok \in BOOLEAN :
          /\ work_list # << >> /\ work_list' = Tail(work_list)
          /\ dg_update_list' = dg_update_list
          /\ rib_dplane_q' = Append(rib_dplane_q,
               [kind |-> "result", ctx |-> c, success |-> ok])
    BY <1>2, Zenon DEF kernel_update_multi
  <2>2. /\ Contents(work_list) = {c} \cup Contents(work_list') /\ c \in Ctx
        /\ Rising(work_list')
        /\ \A d \in Contents(work_list') : c.seq < d.seq
    BY <1>0, <2>1, ContentsTail, RisingTail, HeadMember, Zenon DEF InOrder
  <2> DEFINE r == [kind |-> "result", ctx |-> c, success |-> ok]
  <2> HIDE DEF c
  <2>3. r \in Result /\ r.kind = "result" /\ r.ctx = c
    BY <2>2, Zenon DEF Result
  <2>4. rib_dplane_q' = Append(rib_dplane_q, r)
    BY <2>1, Zenon DEF c
  <2> HIDE DEF r
  <2>5. Answered(rib_dplane_q') = Answered(rib_dplane_q) \cup {c}
    BY <1>0, <2>3, <2>4, AnsweredAppend, Zenon
  <2>6. \A k \in 1..Len(rib_dplane_q) : rib_dplane_q[k].ctx \in Answered(rib_dplane_q)
    BY Zenon DEF FibInv, NothingLost, Answered, Contents
  <2>7. RisingResults(rib_dplane_q')
    <3>1. \A k \in 1..Len(rib_dplane_q) : rib_dplane_q[k].ctx.seq < r.ctx.seq
      BY <2>2, <2>3, <2>6, Zenon DEF InOrder
    <3> QED BY <1>0, <2>3, <2>4, <3>1, RisingResultsAppend, Zenon DEF InOrder
  <2> QED BY <2>1, <2>2, <2>5, <2>7, Zenon DEF InOrder
<1>3. ~dplane_incoming_read
  BY Zenon DEF FibInv, NothingLost, dplane_incoming_read
<1> QED BY <1>1, <1>2, <1>3, Zenon DEF DplaneThread

\* A request gets the next number.
LEMMA InOrderHanded ==
  ASSUME TypeInv, SeqInv, InOrder, ~KernelNexthops,
         NEW n, NEW op \in DPLANE_OPS, NEW new \in Re, NEW old,
         op = "UPDATE" => old \in Re, Handed(Examined, n, op, new, old),
         UNCHANGED <<work_list, rib_dplane_q>>
  PROVE  InOrder'
<1> DEFINE ch == Chosen(Examined, n)
           c  == MkCtx(ch, op, new, old)
<1>1. /\ DOMAIN Examined = Re /\ \A i \in Re : Examined[i] \in Entry
  BY ExaminedIs, Zenon
<1>2. DOMAIN ch = Re /\ \A i \in Re : ch[i] \in Entry
  BY <1>1, ChosenIs, Zenon
<1>3. dg_update_list' = Append(dg_update_list, c)
  BY Zenon DEF Handed
<1> HIDE DEF ch
<1>4. seq \in Nat /\ dg_update_list \in Seq(Ctx)
  BY Zenon DEF TypeInv, TypeOK
<1>5. c \in Ctx
  BY <1>2, <1>4, MkCtxType, Zenon
<1>6. c.seq = seq + 1 /\ ~c.same_nhg
  BY Zenon DEF MkCtx
<1> HIDE DEF c
<1>7. \A d \in InFlight : d.seq < c.seq
  <2>1. \A d \in InFlight : d.seq \in Nat /\ d.seq <= seq
    BY InFlightCtx, Zenon DEF SeqInv, SeqBound, Ctx
  <2> QED BY <1>4, <1>6, <2>1
<1>8. Contents(dg_update_list') = Contents(dg_update_list) \cup {c}
  BY <1>3, <1>4, <1>5, ContentsAppend
<1>9. Rising(dg_update_list')
  BY <1>3, <1>4, <1>5, <1>7, RisingAppend, Zenon DEF InOrder, InFlight
<1> QED BY <1>6, <1>7, <1>8, <1>9, Zenon DEF InOrder, InFlight

LEMMA InOrderStep ==
  ASSUME TypeInv, SeqInv, FibInv, InOrder, ~KernelNexthops, "enqueue" \notin Faults,
         "lost" \notin Events, [Next]_vars
  PROVE  InOrder'
<1>1. ASSUME UNCHANGED <<dg_update_list, work_list, rib_dplane_q>> PROVE InOrder'
  BY <1>1 DEF InOrder, Rising, RisingResults, Contents, Answered
<1>2. CASE Input
  <2>1. UNCHANGED <<dg_update_list, work_list, rib_dplane_q>>
    BY <1>2, Zenon DEF Input, rib_add_multipath, rib_delete, ip_protocol_rm,
                KernelRouteLost, dplane
  <2> QED BY <1>1, <2>1, Zenon
<1>3. CASE process_subq_early_route_add
  BY <1>1, <1>3, Zenon DEF process_subq_early_route_add, dplane
<1>4. CASE process_subq_early_route_delete
  <2>1. Head(early).kind # "lost"
    BY <1>4, NoLoss, Zenon
  <2> QED BY <1>1, <1>4, <2>1, Zenon DEF process_subq_early_route_delete, Delnode
<1>5. CASE rib_process_result
  <2>1. /\ rib_dplane_q # << >> /\ rib_dplane_q' = Tail(rib_dplane_q)
        /\ UNCHANGED <<dg_update_list, work_list>> /\ rib_dplane_q \in Seq(Result)
    BY <1>5, Zenon DEF rib_process_result, TypeInv, TypeOK
  <2>2. Answered(rib_dplane_q') \subseteq Answered(rib_dplane_q)
    BY <2>1, AnsweredTail, Zenon
  <2>3. RisingResults(rib_dplane_q')
    BY <2>1, RisingResultsTail, Zenon DEF InOrder
  <2> QED BY <2>1, <2>2, <2>3, Zenon DEF InOrder
<1>6. CASE rib_process
  <2>1. UNCHANGED <<work_list, rib_dplane_q>>
    BY <1>6, Zenon DEF rib_process
  <2>2. selected_fib # NULL => selected_fib \in Re
    BY Zenon DEF TypeInv, SelectedFibLinked
  <2>3. PICK n \in Re \cup {NULL} :
          \/ Nothing(Examined, n)
          \/ \E op \in DPLANE_OPS, new \in Re, old \in Re \cup {NULL} :
               /\ op = "UPDATE" => old \in Re
               /\ Handed(Examined, n, op, new, old)
    <3>1. "INSTALL" \in DPLANE_OPS /\ "UPDATE" \in DPLANE_OPS /\ "DELETE" \in DPLANE_OPS
      BY Zenon DEF DPLANE_OPS
    <3> QED BY <1>6, <2>2, <3>1, ProcessFib, Zenon
  <2>4. CASE Nothing(Examined, n)
    BY <1>1, <2>1, <2>4, Zenon DEF Nothing
  <2> QED BY <2>1, <2>3, <2>4, InOrderHanded, Zenon
<1>7. CASE UNCHANGED vars
  BY <1>1, <1>7, Zenon DEF vars, dplane
<1> QED BY <1>2, <1>3, <1>4, <1>5, <1>6, <1>7, InOrderDplane, NoLoss, Zenon DEF Next, MainThread

-----------------------------------------------------------------------------
(* What the steps do to the entry in the FIB and to the owners. *)

\* The answer is to the earliest request.
LEMMA EarliestAnswered ==
  ASSUME TypeInv, FibInv, InOrder, rib_process_result
  PROVE  \A d \in InFlight' : Head(rib_dplane_q).ctx.seq < d.seq
<1>1. /\ rib_dplane_q # << >> /\ rib_dplane_q' = Tail(rib_dplane_q)
      /\ UNCHANGED <<dg_update_list, work_list>> /\ rib_dplane_q \in Seq(Result)
      /\ Head(rib_dplane_q).kind = "result"
  BY Zenon DEF rib_process_result, TypeInv, TypeOK
<1>2. Head(rib_dplane_q).ctx \in Answered(rib_dplane_q)
  BY <1>1, AnsweredTail, Zenon
<1>3. \A d \in Answered(rib_dplane_q') : Head(rib_dplane_q).ctx.seq < d.seq
  BY <1>1, RisingResultsTail, Zenon DEF InOrder
<1> QED BY <1>1, <1>2, <1>3, Zenon DEF InOrder, InFlight

\* The owners hear of the result of the request that came first.
LEMMA ResultTells ==
  ASSUME TypeInv, SeqInv, FibInv, InOrder, rib_process_result
  PROVE  LET ctx == Head(rib_dplane_q).ctx
             ok  == Head(rib_dplane_q).success
             fib == selected_fib
         IN /\ ctx \in InFlight /\ InFlight = InFlight' \cup {ctx}
            /\ ctx.type \in Types /\ \A d \in InFlight : d.seq \in Nat
            /\ \A d \in InFlight' : ctx.seq < d.seq
            /\ selected_fib' = fib
            /\ fib # NULL => /\ fib \in Re
                             /\ routes'[fib].adv = routes[fib].adv
                             /\ routes'[fib].active = routes[fib].active
                             /\ routes'[fib].seq = routes[fib].seq
                             /\ ResultRe = fib <=> routes[fib].seq = ctx.seq
                             /\ ResultRe = fib => TypeOf(fib) = ctx.type
            /\ \A t \in Types : owner'[t] =
                 IF t # ctx.type THEN owner[t]
                 ELSE IF ctx.op = "DELETE"
                 THEN IF ok THEN "REMOVED" ELSE "REMOVE_FAIL"
                 ELSE IF ok /\ ResultRe # NULL /\ ResultRe = fib THEN "INSTALLED"
                 ELSE IF ~ok /\ ResultRe # NULL THEN "FAIL_INSTALL"
                 ELSE owner[t]
<1> DEFINE ctx == Head(rib_dplane_q).ctx
           ok  == Head(rib_dplane_q).success
           fib == selected_fib
<1>1. /\ ctx \in InFlight /\ InFlight = InFlight' \cup {ctx}
      /\ \A i \in Re : i = ResultRe <=> routes[i].seq = ctx.seq
  BY ResultNames, Zenon
<1>2. \A d \in InFlight' : ctx.seq < d.seq
  BY EarliestAnswered, Zenon
<1>3. \A i \in Re : /\ routes'[i].adv = routes[i].adv
                    /\ routes'[i].active = routes[i].active
                    /\ routes'[i].seq = routes[i].seq
  BY ResultIs, Zenon DEF Same
<1>4. /\ selected_fib' = fib
      /\ owner' = IF ctx.op = "DELETE"
                  THEN [owner EXCEPT ![ctx.type] =
                          IF ok THEN "REMOVED" ELSE "REMOVE_FAIL"]
                  ELSE IF ok /\ ResultRe # NULL /\ ResultRe = fib
                  THEN [owner EXCEPT ![ctx.type] = "INSTALLED"]
                  ELSE IF ~ok /\ ResultRe # NULL
                  THEN [owner EXCEPT ![ctx.type] = "FAIL_INSTALL"]
                  ELSE owner
  BY Zenon DEF rib_process_result, ResultRe
<1>5. fib # NULL => fib \in Re
  BY Zenon DEF TypeInv, SelectedFibLinked
<1>6. ctx.type \in Types /\ \A d \in InFlight : d.seq \in Nat
  BY <1>1, InFlightCtx, Zenon DEF Ctx
<1>7. DOMAIN owner = Types
  BY Zenon DEF TypeInv, TypeOK
<1>8. fib # NULL /\ ResultRe = fib => TypeOf(fib) = ctx.type
  BY <1>1, <1>5, Zenon DEF SeqInv, SequenceIdentity
<1> HIDE DEF ctx, ok, fib
<1>9. \A t \in Types : owner'[t] =
        IF t # ctx.type THEN owner[t]
        ELSE IF ctx.op = "DELETE" THEN IF ok THEN "REMOVED" ELSE "REMOVE_FAIL"
        ELSE IF ok /\ ResultRe # NULL /\ ResultRe = fib THEN "INSTALLED"
        ELSE IF ~ok /\ ResultRe # NULL THEN "FAIL_INSTALL"
        ELSE owner[t]
  BY <1>4, <1>6, <1>7, Zenon
<1> QED BY <1>1, <1>2, <1>3, <1>4, <1>5, <1>6, <1>8, <1>9, Zenon DEF ctx, ok, fib

\* Until a result or a selection the owners hear nothing, and the entry in the FIB
\* stays as it is.
LEMMA CalmTells ==
  ASSUME TypeInv, FibInv, "lost" \notin Events, [Next]_vars,
         \/ Input \/ DplaneThread \/ UNCHANGED vars
         \/ process_subq_early_route_add \/ process_subq_early_route_delete
  PROVE  LET fib == selected_fib
         IN /\ InFlight' = InFlight /\ UNCHANGED <<selected_fib, owner>>
            /\ fib # NULL => /\ routes'[fib].adv = routes[fib].adv
                             /\ routes'[fib].active = routes[fib].active
                             /\ routes'[fib].installed = routes[fib].installed
                             /\ routes'[fib].failed = routes[fib].failed
                             /\ routes'[fib].seq = routes[fib].seq
<1> DEFINE fib == selected_fib
<1>1. /\ InFlight' = InFlight /\ UNCHANGED selected_fib
      /\ \A i \in DOMAIN routes' \ {nre + 1} :
            /\ routes'[i].adv = routes[i].adv
            /\ routes'[i].active = routes[i].active
            /\ routes'[i].installed = routes[i].installed
            /\ routes'[i].failed = routes[i].failed
            /\ routes'[i].seq = routes[i].seq
  BY CalmStep, Zenon
<1>2. owner' = owner
  BY Zenon DEF Input, rib_add_multipath, rib_delete, ip_protocol_rm, KernelRouteLost,
         DplaneThread, kernel_dplane_process_func, kernel_update_multi,
         dplane_incoming_read, process_subq_early_route_add,
         process_subq_early_route_delete, vars
<1>3. fib # NULL => fib \in Re /\ fib # nre + 1
  BY DEF TypeInv, TypeOK, SelectedFibLinked
<1>4. TypeInv'
  BY TypeInvStep, Zenon
<1>5. fib # NULL => fib \in DOMAIN routes'
  BY <1>1, <1>4, Zenon DEF TypeInv, SelectedFibLinked, Re
<1> QED BY <1>1, <1>2, <1>3, <1>5, Zenon

\* What a pass tells the owners: never INSTALLED, and the owner of the winner only
\* that another entry of its own is refused.
LEMMA NotesAre ==
  ASSUME NEW o, NEW n, NEW f, NEW t \in Types,
         owner' = ProcessNotes(Examined, o, n, f)
  PROVE  /\ owner'[t] = "INSTALLED" =>
              /\ owner[t] = "INSTALLED"
              /\ ~(/\ f # NULL /\ selected_fib # NULL
                   /\ t = TypeOf(selected_fib) /\ t # TypeOf(f))
         /\ (/\ n # NULL => Examined[n].adv.type = t
             /\ f # NULL => TypeOf(f) = t
             /\ owner'[t] # owner[t])
            => /\ owner'[t] = "FAIL_INSTALL"
               /\ \E j \in Re : /\ ~routes[j].removed /\ routes[j].changed
                                /\ ~Examined[j].active /\ TypeOf(j) = t
BY Zenon DEF ProcessNotes

NoOverrides == \A a \in Adverts : ~a.override

\* Entry f wins, handed over with context c; or it is in place; or there is no winner,
\* and the entry in the FIB is withdrawn with c.
Wins(f, c) ==
  /\ f # NULL /\ InFlight' = InFlight \cup {c}
  /\ c.op # "DELETE" /\ c.seq = seq + 1 /\ c.old_seq # seq + 1
  /\ routes'[f].seq = seq + 1
Stays(f) ==
  /\ f # NULL /\ selected_fib = f /\ routes[f].installed
  /\ UNCHANGED <<InFlight, dg_update_list>>
  /\ routes'[f].active = routes[f].active
  /\ routes'[f].installed = routes[f].installed
  /\ routes'[f].failed = routes[f].failed
  /\ routes'[f].seq = routes[f].seq
Goes(c) ==
  /\ selected_fib # NULL /\ InFlight' = InFlight \cup {c}
  /\ c.op = "DELETE" /\ c.type = TypeOf(selected_fib)
  /\ c.seq = seq + 1
  /\ selected_fib' # NULL => routes'[selected_fib].seq = seq + 1
Pass(n, f) ==
  /\ \E o : owner' = ProcessNotes(Examined, o, n, f)
  /\ NoOverrides => n = f
  /\ f # NULL => /\ f \in Re /\ selected_fib' = f /\ routes'[f].active
                 /\ routes'[f].adv = routes[f].adv
                 /\ Examined[f].adv = routes[f].adv
                 /\ Examined[f].active /\ ~routes[f].removed
  /\ f = NULL /\ selected_fib' # NULL =>
       selected_fib' = selected_fib /\ ~routes'[selected_fib'].active
  /\ \/ \E c \in Ctx : Wins(f, c)
     \/ Stays(f)
     \/ f = NULL /\ \E c \in Ctx : Goes(c)
     \/ f = NULL /\ selected_fib = NULL /\ selected_fib' = NULL /\ InFlight' = InFlight

LEMMA ProcessTells ==
  ASSUME TypeInv, FibInv, "enqueue" \notin Faults, rib_process
  PROVE  \E n, f \in Re \cup {NULL} : Pass(n, f)
<1>0. NoOverrides => \A i \in Re : ~routes[i].adv.override
  BY EntryParts, Zenon DEF TypeInv, TypeOK, NoOverrides
<1>1. PICK n \in Re \cup {NULL}, f \in Re \cup {NULL} :
    /\ Processed(n) /\ (NoOverrides => f = n)
    /\ owner' = ProcessNotes(Examined, OldSelected(Examined), n, f)
    /\ f # NULL => /\ f \in DOMAIN routes' /\ routes'[f].active /\ selected_fib' = f
    /\ f = NULL /\ selected_fib' # NULL =>
         /\ selected_fib' \in DOMAIN routes' /\ ~routes'[selected_fib'].active
         /\ selected_fib' = selected_fib
    /\ \/ /\ f # NULL /\ selected_fib = NULL
          /\ Handed(Examined, n, "INSTALL", f, NULL)
       \/ /\ f # NULL /\ selected_fib # NULL
          /\ Handed(Examined, n, "UPDATE", f, selected_fib)
       \/ /\ f # NULL /\ selected_fib = f
          /\ Handed(Examined, n, "INSTALL", f, NULL)
       \/ /\ f # NULL /\ selected_fib = f /\ routes'[f].active = routes[f].active
          /\ routes[f].installed /\ Nothing(Examined, n)
       \/ /\ f = NULL /\ selected_fib # NULL
          /\ Handed(Examined, n, "DELETE", selected_fib, NULL)
       \/ /\ f = NULL /\ selected_fib = NULL
          /\ Nothing(Examined, n) /\ selected_fib' = NULL
  BY <1>0, ProcessFib, ZenonT(30)
<1>2. UNCHANGED <<work_list, rib_dplane_q>>
  BY Zenon DEF rib_process
<1>3. selected_fib # NULL => selected_fib \in Re
  BY Zenon DEF TypeInv, SelectedFibLinked
<1>4. seq \in Nat
  BY Zenon DEF TypeInv, TypeOK
<1>5. /\ "INSTALL" \in DPLANE_OPS /\ "UPDATE" \in DPLANE_OPS /\ "DELETE" \in DPLANE_OPS
      /\ "INSTALL" # "UPDATE" /\ "DELETE" # "UPDATE"
      /\ "INSTALL" # "DELETE"
  BY Zenon DEF DPLANE_OPS
<1>6. \E o : owner' = ProcessNotes(Examined, o, n, f)
  BY <1>1, Zenon
<1>7. NoOverrides => n = f
  BY <1>1, Zenon
<1>8. ASSUME f # NULL
      PROVE  /\ f \in Re /\ selected_fib' = f /\ routes'[f].active
             /\ routes'[f].adv = routes[f].adv
             /\ Examined[f].adv = routes[f].adv
             /\ Examined[f].active /\ ~routes[f].removed
  <2>1. f \in DOMAIN routes' /\ f \in Re /\ selected_fib' = f /\ routes'[f].active
    BY <1>1, <1>8, Zenon
  <2>2. Processed(n)
    BY <1>1, Zenon
  <2>3. Same(Examined[f], routes'[f]) /\ ~routes[f].removed
    BY <2>1, <2>2, ProcessKeeps, Zenon
  <2> QED BY <2>1, <2>3, ExaminedIs, Zenon DEF Same
<1>9. f = NULL /\ selected_fib' # NULL =>
        selected_fib' = selected_fib /\ ~routes'[selected_fib'].active
  BY <1>1, Zenon
<1>10. ASSUME NEW op \in {"INSTALL", "UPDATE"}, NEW old, op = "UPDATE" => old \in Re,
              f # NULL, Handed(Examined, n, op, f, old)
       PROVE  \E c \in Ctx : Wins(f, c)
  <2>1. op \in DPLANE_OPS /\ op # "DELETE" /\ f \in Re /\ f \in DOMAIN routes'
    BY <1>1, <1>5, <1>10, Zenon
  <2>2. PICK c \in Ctx :
          /\ InFlight' = InFlight \cup {c}
          /\ c.op = op /\ c.seq = seq + 1
          /\ c.old_seq = IF op = "UPDATE" /\ old # f THEN seq + 2 ELSE 0
          /\ routes'[f].seq = seq + 1
    BY <1>2, <1>10, <2>1, HandedIs
  <2>3. c.old_seq # seq + 1
    BY <1>4, <2>2
  <2> QED BY <1>10, <2>1, <2>2, <2>3, Zenon DEF Wins
<1>11. ASSUME f # NULL, selected_fib = f, routes'[f].active = routes[f].active,
              routes[f].installed, Nothing(Examined, n)
       PROVE  Stays(f)
  <2> DEFINE ch == Chosen(Examined, n)
  <2>1. /\ DOMAIN Examined = Re
        /\ \A i \in Re : /\ Examined[i] \in Entry /\ Examined[i].seq = routes[i].seq
                         /\ Examined[i].installed = routes[i].installed
                         /\ Examined[i].failed = routes[i].failed
    BY ExaminedIs, Zenon
  <2>2. /\ DOMAIN ch = Re
        /\ \A i \in Re : /\ ch[i].seq = routes[i].seq
                         /\ ch[i].installed = routes[i].installed
                         /\ ch[i].failed = routes[i].failed
    BY <2>1, ChosenIs
  <2>3. routes' = Drop(ch, Removed(Examined)) /\ dg_update_list' = dg_update_list
    BY <1>11, Zenon DEF Nothing
  <2>4. f \in Re /\ f \in DOMAIN routes'
    BY <1>1, <1>11, Zenon
  <2> HIDE DEF ch
  <2>5. routes'[f] = ch[f]
    BY <2>2, <2>3, <2>4, Zenon DEF Drop
  <2>6. InFlight' = InFlight
    BY <1>2, <2>3, Zenon DEF InFlight
  <2> QED BY <1>11, <2>2, <2>3, <2>4, <2>5, <2>6, Zenon DEF Stays
<1>12. ASSUME f = NULL, selected_fib # NULL,
              Handed(Examined, n, "DELETE", selected_fib, NULL)
       PROVE  \E c \in Ctx : Goes(c)
  <2>1. PICK c \in Ctx :
          /\ InFlight' = InFlight \cup {c}
          /\ c.op = "DELETE" /\ c.seq = seq + 1 /\ c.type = TypeOf(selected_fib)
          /\ \A i \in DOMAIN routes' : i = selected_fib => routes'[i].seq = seq + 1
    BY <1>2, <1>3, <1>5, <1>12, HandedIs, SMTT(30)
  <2>2. selected_fib' # NULL => selected_fib \in DOMAIN routes'
    BY <1>1, <1>12, Zenon
  <2> QED BY <1>12, <2>1, <2>2, Zenon DEF Goes
<1>13. Nothing(Examined, n) => InFlight' = InFlight
  BY <1>2, Zenon DEF Nothing, InFlight
<1>14. \/ \E c \in Ctx : Wins(f, c)
       \/ Stays(f)
       \/ f = NULL /\ \E c \in Ctx : Goes(c)
       \/ f = NULL /\ selected_fib = NULL /\ selected_fib' = NULL /\ InFlight' = InFlight
  BY <1>1, <1>3, <1>10, <1>11, <1>12, <1>13, Zenon
<1>15. Pass(n, f)
  BY <1>6, <1>7, <1>8, <1>9, <1>14, Zenon DEF Pass
<1> QED BY <1>15, Zenon

\* A new request is the youngest.
LEMMA RequestYoungest ==
  ASSUME TypeInv, SeqInv
  PROVE  /\ seq \in Nat
         /\ \A d \in InFlight : d.seq \in Nat /\ d.seq < seq + 1 /\ d.old_seq # seq + 1
<1>1. seq \in Nat
  BY Zenon DEF TypeInv, TypeOK
<1>2. \A d \in InFlight : d.seq \in Nat /\ d.old_seq \in Nat /\ d.seq <= seq /\ d.old_seq <= seq
  BY InFlightCtx, Zenon DEF SeqInv, SeqBound, Ctx
<1> QED BY <1>1, <1>2

-----------------------------------------------------------------------------
(* The owners of the routes that are not in the FIB. *)

\* The route in the FIB belongs to t.
Live(t) == /\ selected_fib # NULL /\ routes[selected_fib].active
           /\ TypeOf(selected_fib) = t

\* A withdrawal of a route of t is still to be answered.
Leaving(t) == \E d \in InFlight : d.op = "DELETE" /\ d.type = t

\* An entry whose nexthop a route-map took waits for its withdrawal at most, and an
\* owner without a route in the FIB has not heard INSTALLED last, or will hear more.
Retracted ==
  /\ selected_fib # NULL /\ ~routes[selected_fib].active =>
       \A c \in InFlight : c.seq = routes[selected_fib].seq => c.op = "DELETE"
  /\ \A t \in Types : ~Live(t) /\ owner[t] = "INSTALLED" => Leaving(t)

LEMMA RetractedResult ==
  ASSUME TypeInv, SeqInv, FibInv, InOrder, Retracted, rib_process_result
  PROVE  Retracted'
<1> DEFINE ctx == Head(rib_dplane_q).ctx
           ok  == Head(rib_dplane_q).success
           fib == selected_fib
<1>1. /\ ctx \in InFlight /\ InFlight = InFlight' \cup {ctx} /\ selected_fib' = fib
      /\ fib # NULL => /\ routes'[fib].adv = routes[fib].adv
                       /\ routes'[fib].active = routes[fib].active
                       /\ routes'[fib].seq = routes[fib].seq
                       /\ ResultRe = fib <=> routes[fib].seq = ctx.seq
                       /\ ResultRe = fib => TypeOf(fib) = ctx.type
  BY ResultTells, Zenon
<1>2. \A t \in Types : owner'[t] =
        IF t # ctx.type THEN owner[t]
        ELSE IF ctx.op = "DELETE" THEN IF ok THEN "REMOVED" ELSE "REMOVE_FAIL"
        ELSE IF ok /\ ResultRe # NULL /\ ResultRe = fib THEN "INSTALLED"
        ELSE IF ~ok /\ ResultRe # NULL THEN "FAIL_INSTALL"
        ELSE owner[t]
  BY ResultTells, Zenon
<1> HIDE DEF ctx, ok
<1>3. \A t \in Types : Live(t)' <=> Live(t)
  BY <1>1, Zenon DEF Live, TypeOf
<1>4. ASSUME NEW t \in Types, ~Live(t)', owner'[t] = "INSTALLED" PROVE Leaving(t)'
  <2>1. ~(/\ ctx.op # "DELETE" /\ ctx.type = t /\ ResultRe # NULL /\ ResultRe = fib)
    BY <1>1, <1>3, <1>4, Zenon DEF Live, Retracted
  <2>2. owner[t] = "INSTALLED" /\ ~(ctx.op = "DELETE" /\ ctx.type = t)
    BY <1>2, <1>4, <2>1, Zenon
  <2>3. Leaving(t)
    BY <1>3, <1>4, <2>2, Zenon DEF Retracted
  <2> QED BY <1>1, <2>2, <2>3, Zenon DEF Leaving
<1>5. ASSUME fib # NULL, ~routes'[fib].active, NEW c \in InFlight',
             c.seq = routes'[fib].seq
      PROVE  c.op = "DELETE"
  BY <1>1, <1>5, Zenon DEF Retracted
<1> QED BY <1>1, <1>4, <1>5, Zenon DEF Retracted

LEMMA RetractedProcess ==
  ASSUME TypeInv, SeqInv, FibInv, Retracted, "enqueue" \notin Faults, rib_process
  PROVE  Retracted'
<1>1. PICK n, f \in Re \cup {NULL} : Pass(n, f)
  BY ProcessTells, Zenon
<1>2. PICK o : owner' = ProcessNotes(Examined, o, n, f)
  BY <1>1, Zenon DEF Pass
<1>3. InFlight \subseteq InFlight'
  BY <1>1, Zenon DEF Pass, Wins, Stays, Goes
<1>4. ASSUME NEW t \in Types, ~Live(t)', owner'[t] = "INSTALLED" PROVE Leaving(t)'
  <2>1. owner[t] = "INSTALLED"
    BY <1>2, <1>4, NotesAre, Zenon
  <2>2. CASE ~Live(t)
    BY <1>3, <2>1, <2>2, Zenon DEF Retracted, Leaving
  <2>3. CASE Live(t)
    <3>1. f = NULL
      <4> SUFFICES ASSUME f # NULL PROVE FALSE
        OBVIOUS
      <4>1. TypeOf(f) = t
        BY <1>2, <1>4, <2>3, NotesAre DEF Live
      <4>2. /\ selected_fib' = f /\ routes'[f].active
            /\ routes'[f].adv = routes[f].adv
        BY <1>1, Zenon DEF Pass
      <4> QED BY <1>4, <4>1, <4>2, Zenon DEF Live, TypeOf
    <3>2. PICK c \in Ctx : Goes(c)
      BY <1>1, <2>3, <3>1, Zenon DEF Pass, Live, Wins, Stays
    <3> QED BY <2>3, <3>2, Zenon DEF Goes, Live, Leaving
  <2> QED BY <2>2, <2>3, Zenon
<1>5. ASSUME selected_fib' # NULL, ~routes'[selected_fib'].active, NEW d \in InFlight',
             d.seq = routes'[selected_fib'].seq
      PROVE  d.op = "DELETE"
  <2>1. f = NULL /\ selected_fib' = selected_fib
    BY <1>1, <1>5, Zenon DEF Pass
  <2>2. PICK c \in Ctx : Goes(c)
    BY <1>1, <1>5, <2>1, Zenon DEF Pass, Wins, Stays
  <2>3. d.seq = seq + 1 /\ InFlight' = InFlight \cup {c} /\ c.op = "DELETE"
    BY <1>5, <2>1, <2>2, Zenon DEF Goes
  <2> QED BY <2>3, RequestYoungest
<1> QED BY <1>4, <1>5, Zenon DEF Retracted

LEMMA RetractedStep ==
  ASSUME TypeInv, SeqInv, FibInv, InOrder, Retracted, "enqueue" \notin Faults,
         "lost" \notin Events, [Next]_vars
  PROVE  Retracted'
<1>1. CASE \/ Input \/ DplaneThread \/ UNCHANGED vars
           \/ process_subq_early_route_add \/ process_subq_early_route_delete
  <2>1. /\ InFlight' = InFlight /\ UNCHANGED <<selected_fib, owner>>
        /\ selected_fib # NULL => /\ routes'[selected_fib].adv = routes[selected_fib].adv
                                  /\ routes'[selected_fib].active = routes[selected_fib].active
                                  /\ routes'[selected_fib].seq = routes[selected_fib].seq
    BY <1>1, CalmTells, Zenon
  <2>2. \A t \in Types : (Live(t)' <=> Live(t)) /\ (Leaving(t)' <=> Leaving(t))
    BY <2>1, Zenon DEF Live, Leaving, TypeOf
  <2> QED BY <2>1, <2>2, Zenon DEF Retracted
<1>2. ~rib_process_kernel_route_notif
  BY NoLoss, Zenon
<1> QED BY <1>1, <1>2, RetractedProcess, RetractedResult, Zenon DEF Next, MainThread

-----------------------------------------------------------------------------
(* The kernel and the entry in the FIB when requests may be refused. *)

LiveFib == selected_fib # NULL /\ routes[selected_fib].active

\* The kernel has the route of the entry in the FIB.
InKernel ==
  kern = [type |-> TypeOf(selected_fib), nh |-> routes[selected_fib].adv.nh]

\* The last request was made for the entry in the FIB.
Newest ==
  LiveFib => \A c \in InFlight :
    /\ c.seq <= routes[selected_fib].seq
    /\ c.seq = routes[selected_fib].seq => c.op # "DELETE"

\* That request waits for the kernel; or it was the last the kernel served, and its
\* answer is on the way; or it was answered, and the flags and the owner show how.
Waiting ==
  \E c \in Contents(dg_update_list) \cup Contents(work_list) :
    c.seq = routes[selected_fib].seq
Served ==
  /\ Contents(dg_update_list) = {} /\ Contents(work_list) = {}
  /\ \E r \in Contents(rib_dplane_q) :
       r.ctx.seq = routes[selected_fib].seq /\ (r.success => InKernel)
Shown ==
  /\ InFlight = {}
  /\ routes[selected_fib].installed => InKernel
  /\ \/ InKernel
     \/ /\ routes[selected_fib].failed
        /\ owner[TypeOf(selected_fib)] = "FAIL_INSTALL"

Lasting == LiveFib /\ ~System(selected_fib) => Waiting \/ Served \/ Shown

\* A step that leaves the queues, the kernel and the owners alone.
LEMMA LastingKept ==
  ASSUME TypeInv, FibInv, Newest, Lasting, "lost" \notin Events, [Next]_vars,
         \/ Input \/ UNCHANGED vars
         \/ process_subq_early_route_add \/ process_subq_early_route_delete
  PROVE  Newest' /\ Lasting'
<1>1. /\ InFlight' = InFlight /\ UNCHANGED <<selected_fib, owner>>
      /\ selected_fib # NULL =>
           /\ routes'[selected_fib].adv = routes[selected_fib].adv
           /\ routes'[selected_fib].active = routes[selected_fib].active
           /\ routes'[selected_fib].installed = routes[selected_fib].installed
           /\ routes'[selected_fib].failed = routes[selected_fib].failed
           /\ routes'[selected_fib].seq = routes[selected_fib].seq
  BY CalmTells, Zenon
<1>2. UNCHANGED <<dg_update_list, work_list, rib_dplane_q, kern>>
  <2>1. CASE Input
    <3>1. ~KernelRouteLost
      BY Zenon DEF KernelRouteLost, External
    <3> QED BY <2>1, <3>1, Zenon DEF Input, rib_add_multipath, rib_delete, ip_protocol_rm, dplane
  <2>2. CASE process_subq_early_route_add
    BY <2>2, Zenon DEF process_subq_early_route_add, dplane
  <2>3. CASE process_subq_early_route_delete
    <3>1. Head(early).kind # "lost"
      BY <2>3, NoLoss, Zenon
    <3> QED BY <2>3, <3>1, Zenon DEF process_subq_early_route_delete, Delnode
  <2>4. CASE UNCHANGED vars
    BY <2>4, Zenon DEF vars, dplane
  <2> QED BY <2>1, <2>2, <2>3, <2>4, Zenon
<1>3. Newest'
  BY <1>1, Zenon DEF Newest, LiveFib
<1>4. ASSUME LiveFib', ~System(selected_fib)' PROVE Waiting' \/ Served' \/ Shown'
  <2>1. LiveFib /\ selected_fib # NULL
    BY <1>1, <1>4, Zenon DEF LiveFib
  <2>2. TypeOf(selected_fib)' = TypeOf(selected_fib)
    BY <1>1, <2>1, Zenon DEF TypeOf
  <2>3. Waiting \/ Served \/ Shown
    BY <1>4, <2>1, <2>2, Zenon DEF Lasting, System
  <2>4. InKernel' <=> InKernel
    BY <1>1, <1>2, <2>1, <2>2, Zenon DEF InKernel
  <2>5. Waiting => Waiting'
    BY <1>1, <1>2, <2>1, Zenon DEF Waiting, Contents
  <2>6. Served => Served'
    BY <1>1, <1>2, <2>1, <2>4, Zenon DEF Served, Contents
  <2>7. Shown => Shown'
    BY <1>1, <2>1, <2>2, <2>4, Zenon DEF Shown
  <2> QED BY <2>3, <2>5, <2>6, <2>7, Zenon
<1> QED BY <1>3, <1>4, Zenon DEF Lasting

\* The kernel is left with the last request it served.
LEMMA LastingDplane ==
  ASSUME TypeInv, SeqInv, FibInv, InOrder, Newest, Lasting, "lost" \notin Events,
         [Next]_vars, DplaneThread
  PROVE  Newest' /\ Lasting'
<1> DEFINE fib == selected_fib
<1>0. /\ dg_update_list \in Seq(Ctx) /\ work_list \in Seq(Ctx)
      /\ rib_dplane_q \in Seq(Result)
  BY Zenon DEF TypeInv, TypeOK
<1>1. InFlight' = InFlight
  BY CalmTells, Zenon
<1>2. UNCHANGED <<selected_fib, routes, owner>>
  BY Zenon DEF DplaneThread, kernel_dplane_process_func, kernel_update_multi,
         dplane_incoming_read
<1>3. Newest'
  BY <1>1, <1>2, Zenon DEF Newest, LiveFib
<1> SUFFICES ASSUME LiveFib, ~System(fib)
             PROVE  Waiting' \/ Served' \/ Shown'
  BY <1>2, <1>3, Zenon DEF Lasting, LiveFib, System, TypeOf
<1>4. fib \in Re /\ fib # NULL
  BY Zenon DEF LiveFib, TypeInv, SelectedFibLinked
<1>5. \A c \in InFlight : /\ c.seq <= routes[fib].seq /\ c.seq \in Nat
                          /\ c.seq = routes[fib].seq => c.op # "DELETE"
  BY InFlightCtx, Zenon DEF Newest, Ctx
<1>6. CASE kernel_dplane_process_func
  <2> DEFINE c == Head(dg_update_list)
  <2>1. /\ dg_update_list # << >> /\ dg_update_list' = Tail(dg_update_list)
        /\ c.same_nhg \/ work_list' = Append(work_list, c)
    BY <1>6, Zenon DEF kernel_dplane_process_func
  <2>2. Contents(dg_update_list) = {c} \cup Contents(dg_update_list') /\ c \in Ctx
    BY <1>0, <2>1, ContentsTail, HeadMember, Zenon
  <2>3. ~c.same_nhg /\ c \in InFlight
    BY <2>2, Zenon DEF InOrder, InFlight
  <2> HIDE DEF c
  <2>4. Contents(work_list') = Contents(work_list) \cup {c}
    <3>1. work_list' = Append(work_list, c)
      BY <2>1, <2>3, Zenon
    <3> QED BY <1>0, <2>2, <3>1, ContentsAppend
  <2>5. Waiting
    BY <2>2, <2>3, Zenon DEF Lasting, Served, Shown
  <2> QED BY <1>2, <2>2, <2>4, <2>5, Zenon DEF Waiting
<1>7. CASE kernel_update_multi
  <2> DEFINE c == Head(work_list)
  <2>1. PICK ok \in BOOLEAN :
          /\ work_list # << >> /\ work_list' = Tail(work_list)
          /\ dg_update_list' = dg_update_list
          /\ ok => kern' = AfterRequest(c)
          /\ rib_dplane_q' = Append(rib_dplane_q,
               [kind |-> "result", ctx |-> c, success |-> ok])
    BY <1>7, Zenon DEF kernel_update_multi
  <2>2. /\ Contents(work_list) = {c} \cup Contents(work_list') /\ c \in Ctx
        /\ \A d \in Contents(work_list') : c.seq < d.seq
    BY <1>0, <2>1, ContentsTail, RisingTail, HeadMember, Zenon DEF InOrder
  <2> DEFINE r == [kind |-> "result", ctx |-> c, success |-> ok]
  <2>3. ok => kern' = AfterRequest(c)
    BY <2>1, Zenon
  <2>4. rib_dplane_q' = Append(rib_dplane_q, r)
    BY <2>1, Zenon
  <2> HIDE DEF c
  <2>5. r \in Result /\ r.ctx = c /\ r.success = ok
    BY <2>2, Zenon DEF Result
  <2> HIDE DEF r
  <2>6. r \in Contents(rib_dplane_q')
    BY <1>0, <2>4, <2>5, ContentsAppend
  <2>7. c \in InFlight /\ Waiting
    BY <2>2, Zenon DEF Lasting, Served, Shown, InFlight
  <2>8. CASE c.seq # routes[fib].seq
    BY <1>2, <2>1, <2>2, <2>7, <2>8, Zenon DEF Waiting
  <2>9. CASE c.seq = routes[fib].seq
    <3>1. \A d \in Contents(dg_update_list') \cup Contents(work_list') :
            d \in InFlight /\ c.seq < d.seq
      BY <2>1, <2>2, Zenon DEF InOrder, InFlight
    <3>2. Contents(dg_update_list') = {} /\ Contents(work_list') = {}
      BY <1>5, <2>7, <2>9, <3>1
    <3>3. c.type = TypeOf(fib) /\ c.nh = routes[fib].adv.nh /\ c.op # "DELETE"
      BY <1>4, <1>5, <2>7, <2>9, Zenon DEF SeqInv, SequenceIdentity
    <3>4. ok => InKernel'
      BY <1>2, <2>3, <3>3, Zenon DEF AfterRequest, InKernel, System, TypeOf
    <3> QED BY <1>2, <2>5, <2>6, <2>9, <3>2, <3>4, Zenon DEF Served
  <2> QED BY <2>8, <2>9, Zenon
<1>8. ~dplane_incoming_read
  BY Zenon DEF FibInv, NothingLost, dplane_incoming_read
<1> QED BY <1>6, <1>7, <1>8, Zenon DEF DplaneThread

\* The answer to the last request sets the flags and tells the owner.
LEMMA LastingResult ==
  ASSUME TypeInv, SeqInv, FibInv, InOrder, Newest, Lasting, rib_process_result
  PROVE  Newest' /\ Lasting'
<1> DEFINE ctx == Head(rib_dplane_q).ctx
           ok  == Head(rib_dplane_q).success
           fib == selected_fib
<1>1. /\ ctx \in InFlight /\ InFlight = InFlight' \cup {ctx} /\ selected_fib' = fib
      /\ ctx.type \in Types /\ \A d \in InFlight : d.seq \in Nat
      /\ \A d \in InFlight' : ctx.seq < d.seq
      /\ fib # NULL => /\ fib \in Re
                       /\ routes'[fib].adv = routes[fib].adv
                       /\ routes'[fib].active = routes[fib].active
                       /\ routes'[fib].seq = routes[fib].seq
                       /\ ResultRe = fib <=> routes[fib].seq = ctx.seq
                       /\ ResultRe = fib => TypeOf(fib) = ctx.type
  BY ResultTells, Zenon
<1>2. \A t \in Types : owner'[t] =
        IF t # ctx.type THEN owner[t]
        ELSE IF ctx.op = "DELETE" THEN IF ok THEN "REMOVED" ELSE "REMOVE_FAIL"
        ELSE IF ok /\ ResultRe # NULL /\ ResultRe = fib THEN "INSTALLED"
        ELSE IF ~ok /\ ResultRe # NULL THEN "FAIL_INSTALL"
        ELSE owner[t]
  BY ResultTells, Zenon
<1>3. /\ rib_dplane_q # << >> /\ rib_dplane_q' = Tail(rib_dplane_q)
      /\ UNCHANGED <<dg_update_list, work_list, kern>> /\ rib_dplane_q \in Seq(Result)
  BY Zenon DEF rib_process_result, TypeInv, TypeOK
<1>4. Newest'
  BY <1>1, Zenon DEF Newest, LiveFib
<1> SUFFICES ASSUME LiveFib, ~System(fib)
             PROVE  Waiting' \/ Served' \/ Shown'
  BY <1>1, <1>4, Zenon DEF Lasting, LiveFib, System, TypeOf
<1>5. fib # NULL /\ TypeOf(fib)' = TypeOf(fib) /\ (InKernel' <=> InKernel)
  BY <1>1, <1>3, Zenon DEF LiveFib, TypeOf, InKernel
<1>6. Waiting \/ Served
  BY <1>1, Zenon DEF Lasting, Shown
<1>7. CASE Waiting
  BY <1>1, <1>3, <1>5, <1>7, Zenon DEF Waiting
<1>8. CASE Served
  <2>1. PICK r \in Contents(rib_dplane_q) :
          r.ctx.seq = routes[fib].seq /\ (r.success => InKernel)
    BY <1>8, Zenon DEF Served
  <2>2. Contents(rib_dplane_q) = {Head(rib_dplane_q)} \cup Contents(rib_dplane_q')
    BY <1>3, ContentsTail, Zenon
  <2>3. CASE r # Head(rib_dplane_q)
    BY <1>1, <1>3, <1>5, <1>8, <2>1, <2>2, <2>3, SMTT(30) DEF Served
  <2>4. CASE r = Head(rib_dplane_q)
    <3>1. ctx.seq = routes[fib].seq /\ (ok => InKernel)
      BY <2>1, <2>4, Zenon
    <3>2. InFlight' = {}
      <4>1. ASSUME NEW d \in InFlight'
            PROVE  d.seq \in Nat /\ ctx.seq \in Nat /\ ctx.seq < d.seq /\ d.seq <= ctx.seq
        <5>1. d \in InFlight /\ ctx \in InFlight /\ ctx.seq < d.seq
          BY <1>1, Zenon
        <5>2. d.seq \in Nat /\ ctx.seq \in Nat
          BY <1>1, <5>1, Zenon
        <5> QED BY <3>1, <5>1, <5>2, Zenon DEF Newest
      <4> HIDE DEF ctx
      <4> QED BY <4>1
    <3>3. ResultFlags(fib, routes'[fib]) /\ ResultRe = fib /\ ctx.op # "DELETE"
      BY <1>1, <1>5, <3>1, ResultIs, Zenon DEF Newest
    <3>4. routes'[fib].installed = ok /\ routes'[fib].failed = ~ok
      BY <3>3, Zenon DEF ResultFlags
    <3> HIDE DEF ctx, ok
    <3>5. ~ok => owner'[TypeOf(fib)] = "FAIL_INSTALL"
      BY <1>1, <1>2, <1>5, <3>3, Zenon
    <3> QED BY <1>1, <1>5, <3>1, <3>2, <3>4, <3>5, Zenon DEF Shown
  <2> QED BY <2>3, <2>4, Zenon
<1> QED BY <1>6, <1>7, <1>8, Zenon

\* A pass makes the next request, or leaves the entry in the FIB as it is.
LEMMA LastingProcess ==
  ASSUME TypeInv, SeqInv, FibInv, Newest, Lasting, "enqueue" \notin Faults, rib_process
  PROVE  Newest' /\ Lasting'
<1>1. PICK n, f \in Re \cup {NULL} : Pass(n, f)
  BY ProcessTells, Zenon
<1>2. UNCHANGED <<work_list, rib_dplane_q, kern>>
  BY Zenon DEF rib_process
<1> SUFFICES ASSUME LiveFib' PROVE Newest' /\ Lasting'
  BY Zenon DEF Newest, Lasting
<1>3. /\ f # NULL /\ selected_fib' = f /\ f \in Re /\ routes'[f].active
      /\ routes'[f].adv = routes[f].adv
  BY <1>1, Zenon DEF Pass, LiveFib
<1>4. ASSUME NEW c \in Ctx, Wins(f, c) PROVE Newest' /\ Waiting'
  <2>1. /\ InFlight' = InFlight \cup {c} /\ c.op # "DELETE"
        /\ c.seq = seq + 1 /\ routes'[f].seq = seq + 1
    BY <1>4, Zenon DEF Wins
  <2>2. /\ seq \in Nat /\ c \notin InFlight
        /\ \A d \in InFlight : d.seq \in Nat /\ d.seq < seq + 1
    BY <2>1, RequestYoungest
  <2>3. Newest'
    BY <1>3, <2>1, <2>2 DEF Newest
  <2>4. c \in Contents(dg_update_list')
    BY <1>2, <2>1, <2>2, Zenon DEF InFlight
  <2> QED BY <1>3, <2>1, <2>3, <2>4, Zenon DEF Waiting
<1>5. ASSUME Stays(f) PROVE Newest' /\ Lasting'
  <2>1. /\ selected_fib = f /\ InFlight' = InFlight /\ dg_update_list' = dg_update_list
        /\ routes'[f].active = routes[f].active /\ routes[f].installed
        /\ routes'[f].installed = routes[f].installed
        /\ routes'[f].failed = routes[f].failed /\ routes'[f].seq = routes[f].seq
    BY <1>5, Zenon DEF Stays
  <2>2. LiveFib /\ TypeOf(f)' = TypeOf(f) /\ (InKernel' <=> InKernel)
    BY <1>2, <1>3, <2>1, Zenon DEF LiveFib, TypeOf, InKernel
  <2>3. Newest'
    BY <1>3, <2>1, <2>2, Zenon DEF Newest
  <2>4. ASSUME ~System(f)' PROVE Waiting' \/ Served' \/ Shown'
    <3>1. Waiting \/ Served \/ Shown
      BY <2>1, <2>2, <2>4, Zenon DEF Lasting, System
    <3>2. Waiting => Waiting'
      BY <1>2, <1>3, <2>1, Zenon DEF Waiting, Contents
    <3>3. Served => Served'
      BY <1>2, <1>3, <2>1, <2>2, Zenon DEF Served, Contents
    <3>4. Shown => Shown'
      BY <1>3, <2>1, <2>2, Zenon DEF Shown
    <3> QED BY <3>1, <3>2, <3>3, <3>4, Zenon
  <2> QED BY <1>3, <2>3, <2>4, Zenon DEF Lasting
<1> QED BY <1>1, <1>3, <1>4, <1>5, Zenon DEF Pass, Lasting

LEMMA LastingStep ==
  ASSUME TypeInv, SeqInv, FibInv, InOrder, Newest, Lasting, "enqueue" \notin Faults,
         "lost" \notin Events, [Next]_vars
  PROVE  Newest' /\ Lasting'
<1>1. ~rib_process_kernel_route_notif
  BY NoLoss, Zenon
<1> QED BY <1>1, LastingKept, LastingDplane, LastingResult, LastingProcess, Zenon
        DEF Next, MainThread

\* At rest the last request was answered.
LEMMA LastingAtRest ==
  ASSUME TypeInv, FibInv, Lasting, Quiet, LiveFib, ~System(selected_fib)
  PROVE  Shown
<1>1. /\ Contents(dg_update_list) = {} /\ Contents(work_list) = {}
      /\ Contents(rib_dplane_q) = {}
  BY DEF Quiet, Contents
<1> QED BY <1>1, Zenon DEF Lasting, Waiting, Served

\* Whenever both pthreads are idle the best entry, if it is INSTALLED, is the route
\* the kernel has, whatever the kernel refused and whichever answers were lost, if
\* every request found room and the kernel provider has no short cut, which also
\* excludes that the kernel loses a route by itself.
THEOREM RibInstalledInKernel ==
  ASSUME "enqueue" \notin Faults, ~KernelNexthops
  PROVE  Spec => []InstalledInKernel
<1>0. "lost" \notin Events
  BY RibAssumption, Zenon
<1> DEFINE Inv == TypeInv /\ SeqInv /\ FibInv /\ InOrder /\ Newest /\ Lasting
<1>1. Init => Inv
  <2>1. Init => Newest /\ Lasting
    BY Zenon DEF Init, Newest, Lasting, LiveFib
  <2> QED BY <2>1, InitTypeInv, SeqInvInit, InitFibInv, InitInOrder, Zenon
<1>2. Inv /\ [Next]_vars => Inv'
  BY <1>0, TypeInvStep, SeqInvStep, FibStep, InOrderStep, LastingStep, Zenon
<1>3. Inv => InstalledInKernel
  <2> SUFFICES ASSUME Inv, Quiet, NEW i \in Re, Wanted(i), routes[i].installed, ~System(i)
               PROVE  kern = [type |-> TypeOf(i), nh |-> routes[i].adv.nh]
    BY Zenon DEF InstalledInKernel
  <2>1. selected_fib = i /\ routes[i].active /\ i # NULL
    BY WantedInFib, Zenon
  <2>2. Shown
    BY <2>1, LastingAtRest, Zenon DEF LiveFib
  <2> QED BY <2>1, <2>2, Zenon DEF Shown, InKernel
<1> QED BY <1>1, <1>2, <1>3, PTL DEF Spec

\* Whenever both pthreads are idle the best entry is in the kernel, or it is FAILED
\* and its owner was told; and no owner believes a route INSTALLED that the kernel
\* does not have.  As before.
THEOREM RibFailureReported ==
  ASSUME "enqueue" \notin Faults, ~KernelNexthops
  PROVE  Spec => []FailureReported
<1>0. "lost" \notin Events
  BY RibAssumption, Zenon
<1> DEFINE Inv == /\ TypeInv /\ SeqInv /\ FibInv /\ InOrder
                  /\ Retracted /\ Newest /\ Lasting
<1>1. Init => Inv
  <2>1. Init => Retracted /\ Newest /\ Lasting
    BY Zenon DEF Init, Retracted, Newest, Lasting, LiveFib
  <2> QED BY <2>1, InitTypeInv, SeqInvInit, InitFibInv, InitInOrder, Zenon
<1>2. Inv /\ [Next]_vars => Inv'
  BY <1>0, TypeInvStep, SeqInvStep, FibStep, InOrderStep, RetractedStep, LastingStep, Zenon
<1>3. Inv => FailureReported
  <2> SUFFICES ASSUME Inv, Quiet PROVE FailureReported
    BY Zenon DEF FailureReported
  <2>1. ASSUME NEW i \in Re, Wanted(i), ~System(i)
        PROVE  \/ kern = [type |-> TypeOf(i), nh |-> routes[i].adv.nh]
               \/ routes[i].failed /\ owner[TypeOf(i)] = "FAIL_INSTALL"
    <3>1. selected_fib = i /\ routes[i].active /\ i # NULL
      BY <2>1, WantedInFib, Zenon
    <3>2. Shown
      BY <2>1, <3>1, LastingAtRest, Zenon DEF LiveFib
    <3> QED BY <3>1, <3>2, Zenon DEF Shown, InKernel
  <2>2. ASSUME NEW t \in Types \ SystemTypes, owner[t] = "INSTALLED"
        PROVE  kern # None /\ kern.type = t
    <3>1. ~Leaving(t)
      BY DEF Quiet, Leaving, InFlight, Contents, Answered
    <3>2. Live(t)
      BY <2>2, <3>1, Zenon DEF Retracted
    <3>3. Shown
      BY <2>2, <3>2, LastingAtRest, Zenon DEF LiveFib, Live, System
    <3>4. InKernel
      BY <2>2, <3>2, <3>3, Zenon DEF Shown, Live
    <3>5. routes[selected_fib].adv.nh \in Nhs
      BY <3>2, EntryParts, Zenon DEF Live, TypeInv, TypeOK, SelectedFibLinked
    <3> QED BY <2>2, <3>2, <3>4, <3>5, RibAssumption DEF Live, InKernel
  <2> QED BY <2>1, <2>2, Zenon DEF FailureReported
<1> QED BY <1>1, <1>2, <1>3, PTL DEF Spec

-----------------------------------------------------------------------------
(* The owner of the route in the FIB. *)

\* The answer to the request for the entry in the FIB is still to come, or nothing is
\* and what its owner heard agrees with the flag of the entry.
Told ==
  LiveFib =>
    \/ \E c \in InFlight : c.seq = routes[selected_fib].seq
    \/ /\ InFlight = {}
       /\ owner[TypeOf(selected_fib)] = "INSTALLED" <=> routes[selected_fib].installed

\* The entry a request was made for is INSTALLED if it succeeded, and not if it failed,
\* connected entries included.
LEMMA ResultInstalled ==
  ASSUME TypeInv, rib_process_result, ResultRe \in Re,
         Head(rib_dplane_q).ctx.op # "DELETE"
  PROVE  routes'[ResultRe].installed = Head(rib_dplane_q).success
<1> DEFINE op  == Head(rib_dplane_q).ctx.op
           ok  == Head(rib_dplane_q).success
           rts == [i \in Re |-> IF i = ResultRe THEN NewSide(routes[i], op, ok)
                                ELSE IF i = ResultOldRe THEN OldSide(routes[i], ok)
                                ELSE routes[i]]
<1>1. (routes' = FixupSystem(rts) /\ ok) \/ routes' = rts
  BY Zenon DEF rib_process_result, ResultRe, ResultOldRe
<1>2. routes[ResultRe] \in Entry /\ ok \in BOOLEAN
  <2>1. rib_dplane_q \in Seq(Result) /\ rib_dplane_q # << >>
    BY Zenon DEF TypeInv, TypeOK, rib_process_result
  <2>2. Head(rib_dplane_q) \in Result
    BY <2>1, HeadMember, Zenon
  <2>3. Head(rib_dplane_q).kind = "result"
    BY Zenon DEF rib_process_result
  <2>4. ok \in BOOLEAN
    BY <2>2, <2>3 DEF Result
  <2> QED BY <2>4, Zenon DEF TypeInv, TypeOK
<1> HIDE DEF ok
<1>3. rts[ResultRe] = NewSide(routes[ResultRe], op, ok) /\ DOMAIN rts = Re
  BY Zenon
<1>4. rts[ResultRe].installed = ok /\ rts[ResultRe] \in Entry
  BY <1>2, <1>3, Zenon DEF NewSide, Entry
<1> HIDE DEF rts
<1>5. CASE routes' = FixupSystem(rts) /\ ok
  <2>1. \A e \in Entry :
          [e EXCEPT !.installed = TRUE, !.queued = FALSE, !.replacing = FALSE].installed
    BY Zenon DEF Entry
  <2>2. \/ routes'[ResultRe] = rts[ResultRe]
        \/ routes'[ResultRe] = [rts[ResultRe] EXCEPT !.installed = TRUE, !.queued = FALSE,
                                                      !.replacing = FALSE]
    BY <1>3, <1>5, Zenon DEF FixupSystem
  <2>3. routes'[ResultRe].installed
    BY <1>4, <1>5, <2>1, <2>2, Zenon
  <2> QED BY <1>2, <1>5, <2>3, Zenon DEF ok
<1> QED BY <1>1, <1>4, <1>5, Zenon DEF ok

LEMMA ToldResult ==
  ASSUME TypeInv, SeqInv, FibInv, InOrder, Newest, Told, rib_process_result
  PROVE  Told'
<1> DEFINE ctx == Head(rib_dplane_q).ctx
           ok  == Head(rib_dplane_q).success
           fib == selected_fib
<1>1. /\ ctx \in InFlight /\ InFlight = InFlight' \cup {ctx} /\ selected_fib' = fib
      /\ ctx.type \in Types /\ \A d \in InFlight : d.seq \in Nat
      /\ \A d \in InFlight' : ctx.seq < d.seq
      /\ fib # NULL => /\ fib \in Re
                       /\ routes'[fib].adv = routes[fib].adv
                       /\ routes'[fib].active = routes[fib].active
                       /\ routes'[fib].seq = routes[fib].seq
                       /\ ResultRe = fib <=> routes[fib].seq = ctx.seq
                       /\ ResultRe = fib => TypeOf(fib) = ctx.type
  BY ResultTells, Zenon
<1>2. \A t \in Types : owner'[t] =
        IF t # ctx.type THEN owner[t]
        ELSE IF ctx.op = "DELETE" THEN IF ok THEN "REMOVED" ELSE "REMOVE_FAIL"
        ELSE IF ok /\ ResultRe # NULL /\ ResultRe = fib THEN "INSTALLED"
        ELSE IF ~ok /\ ResultRe # NULL THEN "FAIL_INSTALL"
        ELSE owner[t]
  BY ResultTells, Zenon
<1> SUFFICES ASSUME LiveFib
             PROVE  \/ \E c \in InFlight' : c.seq = routes[fib].seq
                    \/ /\ InFlight' = {}
                       /\ owner'[TypeOf(fib)] = "INSTALLED" <=> routes'[fib].installed
  BY <1>1, Zenon DEF Told, LiveFib, TypeOf
<1>3. PICK c \in InFlight : c.seq = routes[fib].seq
  BY <1>1, Zenon DEF Told
<1>4. CASE c \in InFlight'
  BY <1>3, <1>4, Zenon
<1>5. CASE c = ctx
  <2>1. fib # NULL /\ fib \in Re /\ ctx.seq = routes[fib].seq
    BY <1>1, <1>3, <1>5, Zenon DEF LiveFib
  <2>2. InFlight' = {}
    <3>1. ASSUME NEW d \in InFlight'
          PROVE  d.seq \in Nat /\ ctx.seq \in Nat /\ ctx.seq < d.seq /\ d.seq <= ctx.seq
      <4>1. d \in InFlight /\ ctx \in InFlight /\ ctx.seq < d.seq
        BY <1>1, Zenon
      <4>2. d.seq \in Nat /\ ctx.seq \in Nat
        BY <1>1, <4>1, Zenon
      <4> QED BY <2>1, <4>1, <4>2, Zenon DEF Newest
    <3> HIDE DEF ctx
    <3> QED BY <3>1
  <2>3. ResultRe = fib /\ ctx.op # "DELETE"
    BY <1>1, <2>1, Zenon DEF Newest
  <2>4. routes'[fib].installed = ok
    BY <2>1, <2>3, ResultInstalled, Zenon
  <2> HIDE DEF ctx, ok
  <2>5. owner'[TypeOf(fib)] = IF ok THEN "INSTALLED" ELSE "FAIL_INSTALL"
    BY <1>1, <1>2, <2>1, <2>3, Zenon
  <2> QED BY <2>2, <2>4, <2>5, Zenon
<1> QED BY <1>1, <1>4, <1>5, Zenon

LEMMA ToldProcess ==
  ASSUME TypeInv, SeqInv, FibInv, AllJudged, Told, NoOverrides, "enqueue" \notin Faults,
         rib_process
  PROVE  Told'
<1>1. PICK n, f \in Re \cup {NULL} : Pass(n, f)
  BY ProcessTells, Zenon
<1>2. PICK o : owner' = ProcessNotes(Examined, o, n, f)
  BY <1>1, Zenon DEF Pass
<1> SUFFICES ASSUME LiveFib'
             PROVE  \/ \E c \in InFlight' : c.seq = routes'[selected_fib'].seq
                    \/ /\ InFlight' = {}
                       /\ owner'[TypeOf(selected_fib)'] = "INSTALLED"
                            <=> routes'[selected_fib'].installed
  BY Zenon DEF Told
<1>3. /\ f # NULL /\ n = f /\ selected_fib' = f /\ f \in Re
      /\ routes'[f].adv = routes[f].adv /\ Examined[f].adv = routes[f].adv
      /\ Examined[f].active /\ ~routes[f].removed
  BY <1>1, Zenon DEF Pass, LiveFib
<1> DEFINE t == TypeOf(f)
<1>4. TypeOf(selected_fib)' = t /\ t \in Types
  BY <1>3, EntryParts, Zenon DEF TypeOf, TypeInv, TypeOK
<1>5. ASSUME NEW c \in Ctx, Wins(f, c)
      PROVE  \E b \in InFlight' : b.seq = routes'[f].seq
  BY <1>5, Zenon DEF Wins
<1>6. ASSUME Stays(f)
      PROVE  \/ \E c \in InFlight' : c.seq = routes'[f].seq
             \/ /\ InFlight' = {}
                /\ owner'[t] = "INSTALLED" <=> routes'[f].installed
  <2>1. /\ selected_fib = f /\ InFlight' = InFlight
        /\ routes'[f].active = routes[f].active /\ routes'[f].seq = routes[f].seq
        /\ routes'[f].installed = routes[f].installed
    BY <1>6, Zenon DEF Stays
  <2>2. LiveFib
    BY <1>1, <1>3, <2>1, Zenon DEF LiveFib, Pass
  <2>3. permit[t]
    BY <1>3, <2>1, <2>2, ExaminedIs, Zenon DEF AllJudged, Judged, LiveFib
  <2>4. owner'[t] = owner[t]
    <3> SUFFICES ASSUME owner'[t] # owner[t] PROVE FALSE
      OBVIOUS
    <3>1. n # NULL => Examined[n].adv.type = t
      BY <1>3, Zenon DEF TypeOf
    <3>2. PICK j \in Re : /\ ~routes[j].removed /\ routes[j].changed
                          /\ ~Examined[j].active /\ TypeOf(j) = t
      BY <1>2, <1>4, <3>1, NotesAre
    <3>3. Examined[j].active = permit[TypeOf(j)]
      BY <3>2, ExaminedIs, Zenon
    <3> QED BY <2>3, <3>2, <3>3, Zenon
  <2> QED BY <2>1, <2>2, <2>4, Zenon DEF Told
<1> HIDE DEF t
<1> QED BY <1>1, <1>3, <1>4, <1>5, <1>6, Zenon DEF Pass

LEMMA ToldStep ==
  ASSUME TypeInv, SeqInv, FibInv, AllJudged, InOrder, Newest, Told, NoOverrides,
         "enqueue" \notin Faults, "lost" \notin Events, [Next]_vars
  PROVE  Told'
<1>1. CASE \/ Input \/ DplaneThread \/ UNCHANGED vars
           \/ process_subq_early_route_add \/ process_subq_early_route_delete
  <2>1. /\ InFlight' = InFlight /\ UNCHANGED <<selected_fib, owner>>
        /\ selected_fib # NULL =>
             /\ routes'[selected_fib].adv = routes[selected_fib].adv
             /\ routes'[selected_fib].active = routes[selected_fib].active
             /\ routes'[selected_fib].installed = routes[selected_fib].installed
             /\ routes'[selected_fib].seq = routes[selected_fib].seq
    BY <1>1, CalmTells, Zenon
  <2> QED BY <2>1, Zenon DEF Told, LiveFib, TypeOf
<1>2. ~rib_process_kernel_route_notif
  BY NoLoss, Zenon
<1> QED BY <1>1, <1>2, ToldProcess, ToldResult, Zenon DEF Next, MainThread

LEMMA OwnerAtRest ==
  ASSUME TypeInv, FibInv, Retracted, Told, RemovedQueued
  PROVE  OwnerTold
<1> SUFFICES ASSUME Quiet, NEW t \in Types
             PROVE  owner[t] = "INSTALLED"
                      <=> \E i \in Re : Wanted(i) /\ TypeOf(i) = t /\ routes[i].installed
  BY Zenon DEF OwnerTold
<1>1. InFlight = {}
  BY DEF Quiet, InFlight, Contents, Answered
<1>2. Live(t) => (owner[t] = "INSTALLED" <=> routes[selected_fib].installed)
  BY <1>1, Zenon DEF Told, Live, LiveFib
<1>3. owner[t] = "INSTALLED" => Live(t)
  BY <1>1, Zenon DEF Retracted, Leaving
<1>4. ASSUME NEW i \in Re, Wanted(i), TypeOf(i) = t
      PROVE  Live(t) /\ selected_fib = i
  <2>1. selected_fib = i /\ i # NULL /\ routes[i].active
    BY <1>4, WantedInFib, Zenon
  <2> QED BY <1>4, <2>1, Zenon DEF Live
<1>5. ASSUME Live(t) PROVE selected_fib \in Re /\ Wanted(selected_fib) /\ TypeOf(selected_fib) = t
  <2>1. /\ selected_fib \in Re /\ ~routes[selected_fib].removed
        /\ routes[selected_fib].active /\ TypeOf(selected_fib) = t
    BY <1>5, Zenon DEF Live, TypeInv, SelectedFibLinked, RemovedQueued, Quiet
  <2>2. routes[selected_fib].adv.distance # DISTANCE_INFINITY
    BY <1>5, Zenon DEF FibInv, FibUsable, Live
  <2>3. selected_fib \in Usable(routes)
    BY <2>1, <2>2, Zenon DEF Usable, Re
  <2>4. PICK j \in Re \cup {NULL} : WantedIn(routes, j) /\ (j # NULL => selected_fib = j)
    BY Zenon DEF FibInv, Settled, Quiet
  <2>5. j # NULL
    <3>1. NULL \notin DOMAIN routes
      BY DEF TypeInv, TypeOK, Re, NULL
    <3> QED BY <2>3, <2>4, <3>1, WantedUsable, Zenon
  <2>6. Wanted(selected_fib)
    BY <2>4, <2>5, Zenon DEF Wanted, WantedIn
  <2> QED BY <2>1, <2>6, Zenon
<1> QED BY <1>2, <1>3, <1>4, <1>5, Zenon

\* Whenever both pthreads are idle, the owner whose last word from zebra was
\* INSTALLED is the owner of the best usable route, and it was told so exactly if that
\* route is INSTALLED, whatever the kernel refused and whichever answers were lost, if
\* no announcement overrides the FIB, every request found room, the kernel provider
\* has no short cut (which also excludes lost routes), and no type is filed in a
\* sub-queue that RIB_ROUTE_ANY_QUEUED covers.
THEOREM RibOwnerTold ==
  ASSUME "enqueue" \notin Faults, NoOverrides, BehindMask, ~KernelNexthops
  PROVE  Spec => []OwnerTold
<1>0. "lost" \notin Events
  BY RibAssumption, Zenon
<1> DEFINE Inv == /\ TypeInv /\ SeqInv /\ FibInv /\ AllJudged /\ InOrder
                  /\ Retracted /\ Newest /\ Lasting /\ Told
<1>1. Init => Inv
  <2>1. Init => AllJudged
    BY Zenon DEF Init, AllJudged, Re
  <2>2. Init => Retracted /\ Newest /\ Lasting /\ Told
    BY Zenon DEF Init, Retracted, Newest, Lasting, Told, LiveFib
  <2> QED BY <2>1, <2>2, InitTypeInv, SeqInvInit, InitFibInv, InitInOrder, Zenon
<1>2. Inv /\ [Next]_vars => Inv'
  BY <1>0, TypeInvStep, SeqInvStep, FibStep, AllJudgedStep, InOrderStep, RetractedStep,
     LastingStep, ToldStep, Zenon
<1>3. Inv /\ RemovedQueued => OwnerTold
  BY OwnerAtRest, Zenon
<1> QED BY <1>1, <1>2, <1>3, RibRemovedQueued, PTL DEF Spec

=============================================================================
