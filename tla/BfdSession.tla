------------------------------ MODULE BfdSession ------------------------------
(***************************************************************************)
(* Two bfdd processes and the BFD session between them: the control-packet *)
(* state machine of RFC 5880 as bfdd/bfd.c and bfdd/bfd_packet.c implement *)
(* it, with poll sequences, demand mode, passive role, echo, shutdown,      *)
(* interface loss and process restart.                                      *)
(*                                                                          *)
(* Every C function that works on a struct bfd_session is an operator from  *)
(* a session to the session it leaves behind; a packet it sends goes to the *)
(* session's txq, a message to the clients to its note.  bfdd is single     *)
(* threaded, so one timer callback, one received packet or one              *)
(* configuration change is one step.                                        *)
(*                                                                          *)
(* A timer holds the ticks left, or Off.  With Timed = FALSE every armed    *)
(* timer may expire at any moment; with Timed = TRUE time advances by Tick, *)
(* packets arrive within the tick they are sent in and a timer that is due  *)
(* is served before time goes on.                                           *)
(***************************************************************************)
EXTENDS Integers, Sequences

CONSTANTS Nodes,      \* the two ends
          Configs,    \* effective configurations bfd_session_apply may install
          Initial,    \* the configuration each end starts with
          SlowTx,     \* BFD_DEF_SLOWTX, in ticks
          Timed,      \* see above
          Events,     \* subset of {"apply", "settled", "disable", "restart"}
          Faults,     \* subset of {"loss", "dup", "reorder"}
          MaxEnv,     \* bound: external events
          MaxLoss,    \* bound: packets lost in a timed run
          MaxQ        \* bound: packets in flight in one direction

BFD_DEFDETECTMULT == 3
Off == -1

ADM_DOWN == "AdminDown"
DOWN == "Down"
INIT == "Init"
UP == "Up"
States == {ADM_DOWN, DOWN, INIT, UP}

Config == [tx: Nat, rx: Nat, mult: Nat \ {0}, echo: BOOLEAN, echo_rx: Nat,
           demand: BOOLEAN, passive: BOOLEAN, shutdown: BOOLEAN]

ASSUME BfdAssumption ==
  /\ Configs \subseteq Config /\ Initial \in [Nodes -> Configs]
  /\ \A n \in Nodes : \E m \in Nodes : Nodes = {n, m} /\ n # m
  /\ SlowTx \in Nat \ {0} /\ MaxEnv \in Nat /\ MaxQ \in Nat \ {0}
  /\ MaxLoss \in Nat /\ Timed \in BOOLEAN

VARIABLES bs,      \* the session of each end
          heard,   \* history: discriminators each end ever received
          ndiscr,  \* discriminators given out so far
          env,     \* external events so far
          lost     \* packets lost so far, counted in timed runs

vars == <<bs, heard, ndiscr, env, lost>>

Peer(n) == CHOOSE m \in Nodes : m # n
Max(a, b) == IF a > b THEN a ELSE b

-----------------------------------------------------------------------------
(* Timers (event.c). *)

Arm(t) == IF Timed THEN t ELSE 0

\* "Don't add event if peer is deactivated."
Timer(s, t) == IF s.shutdown \/ ~s.sock THEN Off ELSE Arm(t)

bfd_recvtimer_update(s) == [s EXCEPT !.recv = Timer(s, s.detect_TO)]
bfd_echo_recvtimer_update(s) ==
  [s EXCEPT !.echo_recv = Timer(s, s.remote_mult * s.echo_xmt_TO)]

\* ptm_bfd_start_xmt_timer; the jitter is in the guard of bfd_xmt_cb.
ptm_bfd_start_xmt_timer(s) == [s EXCEPT !.xmt = Timer(s, s.xmt_TO)]
ptm_bfd_start_echo_xmt_timer(s) == [s EXCEPT !.echo_xmt = Timer(s, s.echo_xmt_TO)]

-----------------------------------------------------------------------------
(* Sending. *)

BothUp(s) == s.ses_state = UP /\ s.remote_ses_state = UP

Packet_PollFinal(s, fbit) ==
  [state |-> s.ses_state, d |-> s.demand /\ BothUp(s), f |-> fbit, p |-> s.polling,
   my |-> s.my_discr, your |-> s.remote_discr, mult |-> s.mult,
   tx |-> IF s.ses_state = UP THEN s.tx ELSE Max(s.tx, SlowTx),
   rx |-> IF s.ses_state = UP THEN s.rx ELSE Max(s.rx, SlowTx),
   echo |-> s.echo_rx]

\* The fields of a control packet.
Packet(s, fbit) ==
  [state |-> s.ses_state, d |-> s.demand /\ BothUp(s),
   f |-> fbit, p |-> ~fbit /\ s.polling,
   my |-> s.my_discr, your |-> s.remote_discr, mult |-> s.mult,
   tx |-> IF s.ses_state = UP THEN s.tx ELSE Max(s.tx, SlowTx),
   rx |-> IF s.ses_state = UP THEN s.rx ELSE Max(s.rx, SlowTx),
   echo |-> s.echo_rx]

ptm_bfd_snd(s, fbit) ==
  IF \/ s.remote_discr = 0 /\ s.passive
     \/ ~s.sock \/ Len(s.txq) >= MaxQ
  THEN s ELSE [s EXCEPT !.txq = Append(@, Packet(s, fbit))]

ptm_bfd_xmt_TO_NoPoll(s) ==
  IF s.remote_demand /\ BothUp(s)
  THEN ptm_bfd_start_xmt_timer(s)
  ELSE ptm_bfd_start_xmt_timer(ptm_bfd_snd(s, FALSE))

\* The scheduled packet; periodic transmission ceases in demand mode.
ptm_bfd_xmt_TO(s) ==
  IF s.remote_demand /\ BothUp(s) /\ ~s.polling
  THEN ptm_bfd_start_xmt_timer(s)
  ELSE ptm_bfd_start_xmt_timer(ptm_bfd_snd(s, FALSE))

\* ptm_bfd_echo_snd and the restart of its timer.
ptm_bfd_echo_xmt_TO(s) ==
  ptm_bfd_start_echo_xmt_timer(
    IF s.sock THEN [s EXCEPT !.echo_active = TRUE, !.echoes = TRUE] ELSE s)

-----------------------------------------------------------------------------
(* The state machine. *)

ptm_bfd_notify(s, state) == [s EXCEPT !.note = state]

bfd_set_polling_Immediate(s) ==
  ptm_bfd_start_xmt_timer([s EXCEPT !.polling = TRUE, !.xmt_TO = Max(s.tx, s.remote_rx)])

bfd_set_polling(s) ==
  LET p == [s EXCEPT !.polling = TRUE]
  IN IF s.demand /\ BothUp(s) THEN bfd_recvtimer_update(p) ELSE p

bs_set_slow_timers(s) ==
  [s EXCEPT !.cur_rx = SlowTx, !.detect_TO = BFD_DEFDETECTMULT * SlowTx,
            !.xmt_TO = SlowTx]

ptm_bfd_echo_stop_StaysActive(s) ==
  [s EXCEPT !.echo_xmt_TO = 0, !.echo_xmt = Off, !.echo_recv = Off]

ptm_bfd_echo_stop(s) ==
  [s EXCEPT !.echo_xmt_TO = 0, !.echo_active = FALSE, !.echo_xmt = Off,
            !.echo_recv = Off]

ptm_bfd_echo_start(s) ==
  IF s.echo_xmt_TO > 0
  THEN ptm_bfd_echo_xmt_TO(bfd_echo_recvtimer_update(s)) ELSE s

ptm_bfd_sess_up(s) ==
  ptm_bfd_notify(ptm_bfd_snd(bfd_set_polling([s EXCEPT !.ses_state = UP]), FALSE), UP)

ptm_bfd_sess_dn_Quiet(s, notify_admin_down) ==
  LET down == [s EXCEPT !.remote_discr = 0, !.ses_state = DOWN, !.polling = FALSE,
                        !.remote_ses_state = ADM_DOWN, !.remote_demand = FALSE]
      slow == bs_set_slow_timers(ptm_bfd_snd(down, FALSE))
      mute == IF slow.echo_active THEN ptm_bfd_echo_stop(slow) ELSE slow
  IN IF s.passive THEN [mute EXCEPT !.recv = Off, !.xmt = Off] ELSE mute

ptm_bfd_sess_dn(s, notify_admin_down) ==
  LET down == [s EXCEPT !.remote_discr = 0, !.ses_state = DOWN, !.polling = FALSE,
                        !.remote_ses_state = ADM_DOWN, !.remote_demand = FALSE]
      slow == bs_set_slow_timers(ptm_bfd_snd(down, FALSE))
      told == IF s.ses_state = UP
              THEN ptm_bfd_notify(slow, IF notify_admin_down THEN ADM_DOWN ELSE DOWN)
              ELSE slow
      mute == IF told.echo_active THEN ptm_bfd_echo_stop(told) ELSE told
  IN IF s.passive THEN [mute EXCEPT !.recv = Off, !.xmt = Off] ELSE mute

bs_down_handler(s, nstate) ==
  CASE nstate = DOWN ->
         LET i == [s EXCEPT !.ses_state = INIT]
         IN IF s.passive THEN ptm_bfd_xmt_TO(i) ELSE i
    [] nstate = INIT -> ptm_bfd_sess_up(s)
    [] OTHER -> s

bs_init_handler(s, nstate) ==
  CASE nstate = ADM_DOWN -> ptm_bfd_sess_dn(s, TRUE)
    [] nstate \in {INIT, UP} -> ptm_bfd_sess_up(s)
    [] OTHER -> s

bs_up_handler(s, nstate) ==
  CASE nstate = ADM_DOWN -> ptm_bfd_sess_dn(s, TRUE)
    [] nstate = DOWN -> ptm_bfd_sess_dn(s, FALSE)
    [] OTHER -> s

bs_state_handler(s, nstate) ==
  CASE s.ses_state = ADM_DOWN -> s
    [] s.ses_state = DOWN -> bs_down_handler(s, nstate)
    [] s.ses_state = INIT -> bs_init_handler(s, nstate)
    [] OTHER -> bs_up_handler(s, nstate)

bs_echo_timer_handler(s) ==
  LET t == [s EXCEPT !.echo_xmt_TO = Max(s.remote_echo, 1)]
  IN CASE ~s.echo \/ s.ses_state # UP -> s
       [] s.echo /\ s.ses_state = UP /\ s.remote_echo = 0 ->
            IF s.echo_active THEN ptm_bfd_echo_stop(s) ELSE s
       [] OTHER -> IF ~s.echo_active \/ s.echo_xmt_TO # t.echo_xmt_TO
                   THEN ptm_bfd_echo_start(t) ELSE t

\* The timers of a finished poll sequence; "only apply increased transmission
\* interval after Poll Sequence".
bs_final_handler(s) ==
  LET xmt_TO == Max(s.tx, s.remote_rx)
      cur == [s EXCEPT !.cur_rx = s.rx]
  IN IF s.ses_state = UP /\ xmt_TO > s.xmt_TO /\ s.polling THEN cur
     ELSE ptm_bfd_start_xmt_timer([cur EXCEPT !.xmt_TO = xmt_TO])

-----------------------------------------------------------------------------
(* Receiving. *)

Accepted_AnyDiscr(s, cp) ==
  cp.your # 0 \/ (s.sock /\ cp.state \in {DOWN, ADM_DOWN})

\* ptm_bfd_sess_find and the checks on the discriminators.
Accepted(s, cp) ==
  IF cp.your # 0 THEN cp.your = s.my_discr
  ELSE s.sock /\ cp.state \in {DOWN, ADM_DOWN}

\* RFC 5880, Section 6.8.4.
bfd_detection_timeout_us(mult, rx, tx) == mult * Max(rx, tx)

bfd_recv_cb(s, cp) ==
  LET stored == [s EXCEPT !.remote_discr = cp.my, !.remote_tx = cp.tx,
                          !.remote_rx = cp.rx, !.remote_mult = cp.mult,
                          !.remote_echo = cp.echo, !.remote_ses_state = cp.state,
                          !.remote_demand = cp.d]
      moved == bs_state_handler(stored, cp.state)
      final == IF moved.polling /\ cp.f
               THEN bs_final_handler([moved EXCEPT !.polling = FALSE]) ELSE moved
      timed == [final EXCEPT !.detect_TO =
        bfd_detection_timeout_us(final.remote_mult, final.cur_rx, final.remote_tx)]
      watched == IF timed.demand /\ BothUp(timed) /\ ~timed.polling
                 THEN [timed EXCEPT !.recv = Off] ELSE bfd_recvtimer_update(timed)
      echoed == bs_echo_timer_handler(watched)
  IN CASE ~Accepted(s, cp) -> s
       [] Accepted(s, cp) /\ cp.p -> ptm_bfd_snd(bs_final_handler(echoed), TRUE)
       [] OTHER -> echoed

\* ptm_bfd_process_echo_pkt
ptm_bfd_process_echo_pkt(s) ==
  IF s.echo_active /\ s.echo_xmt_TO > 0 THEN bfd_echo_recvtimer_update(s) ELSE s

-----------------------------------------------------------------------------
(* Configuration. *)

bfd_set_echo(s, echo) ==
  CASE echo = s.echo -> s
    [] echo /\ ~s.echo -> bs_echo_timer_handler([s EXCEPT !.echo = TRUE])
    [] OTHER -> ptm_bfd_echo_stop([s EXCEPT !.echo = FALSE])

bfd_set_demand_Unwatched(s, demand) ==
  LET t == [s EXCEPT !.demand = demand]
  IN CASE demand = s.demand -> s
       [] demand /\ ~s.demand -> IF BothUp(t) THEN bfd_set_polling(t) ELSE t
       [] OTHER -> IF t.ses_state = UP THEN bfd_set_polling(t) ELSE t

bfd_set_demand(s, demand) ==
  LET t == [s EXCEPT !.demand = demand]
  IN CASE demand = s.demand -> s
       [] demand /\ ~s.demand -> IF BothUp(t) THEN bfd_set_polling(t) ELSE t
       [] OTHER ->
            IF t.ses_state = UP THEN bfd_recvtimer_update(bfd_set_polling(t)) ELSE t

bfd_set_passive_mode(s, passive) ==
  LET t == [s EXCEPT !.passive = passive]
  IN CASE s.ses_state # DOWN -> t
       [] s.ses_state = DOWN /\ passive -> [t EXCEPT !.recv = Off, !.xmt = Off]
       [] OTHER -> bfd_recvtimer_update(ptm_bfd_start_xmt_timer(t))

bfd_set_shutdown_Quiet(s, shutdown) ==
  LET is_shutdown == s.ses_state # UP /\ s.shutdown
      shut == [s EXCEPT !.shutdown = TRUE, !.recv = Off, !.xmt = Off,
                        !.echo_recv = Off, !.echo_xmt = Off, !.ses_state = ADM_DOWN]
      open == ptm_bfd_notify([s EXCEPT !.shutdown = FALSE, !.ses_state = DOWN], DOWN)
  IN CASE shutdown = is_shutdown -> s
       [] shutdown /\ ~is_shutdown -> ptm_bfd_snd(shut, FALSE)
       [] OTHER ->
            IF s.passive THEN [open EXCEPT !.recv = Off, !.xmt = Off]
            ELSE ptm_bfd_start_xmt_timer(bfd_recvtimer_update(open))

bfd_set_shutdown(s, shutdown) ==
  LET is_shutdown == s.ses_state # UP /\ s.shutdown
      shut == ptm_bfd_notify([s EXCEPT !.shutdown = TRUE, !.recv = Off, !.xmt = Off,
                                       !.echo_recv = Off, !.echo_xmt = Off,
                                       !.ses_state = ADM_DOWN], ADM_DOWN)
      open == ptm_bfd_notify([s EXCEPT !.shutdown = FALSE, !.ses_state = DOWN], DOWN)
  IN CASE shutdown = is_shutdown -> s
       [] shutdown /\ ~is_shutdown -> ptm_bfd_snd(shut, FALSE)
       [] OTHER ->
            IF s.passive THEN [open EXCEPT !.recv = Off, !.xmt = Off]
            ELSE ptm_bfd_start_xmt_timer(bfd_recvtimer_update(open))

\* The effective configuration of the peer and its profile is installed.
bfd_session_apply(s, c) ==
  LET timers == [s EXCEPT !.mult = c.mult, !.tx = c.tx, !.rx = c.rx,
                          !.echo_rx = c.echo_rx]
      echo == bfd_set_echo(timers, c.echo)
      role == bfd_set_passive_mode(bfd_set_demand(echo, c.demand), c.passive)
      shut == bfd_set_shutdown(role, c.shutdown)
  IN IF shut.ses_state = UP /\ (c.tx # s.tx \/ c.rx # s.rx)
     THEN bfd_set_polling(shut) ELSE shut

\* The interface or VRF is (again) there, or is gone.
bfd_session_enable(s) ==
  LET t == [s EXCEPT !.sock = TRUE]
  IN IF s.passive THEN t ELSE ptm_bfd_start_xmt_timer(bfd_recvtimer_update(t))

bfd_session_disable(s) ==
  ptm_bfd_sess_dn(ptm_bfd_echo_stop([s EXCEPT !.sock = FALSE, !.recv = Off,
                                              !.xmt = Off]), FALSE)

bfd_session_new(discr) ==
  [ses_state |-> DOWN, remote_ses_state |-> ADM_DOWN, my_discr |-> discr,
   remote_discr |-> 0, polling |-> FALSE, remote_demand |-> FALSE,
   demand |-> FALSE, passive |-> FALSE, shutdown |-> FALSE, echo |-> FALSE,
   echo_active |-> FALSE, sock |-> FALSE, tx |-> SlowTx, rx |-> SlowTx,
   mult |-> BFD_DEFDETECTMULT, echo_rx |-> 1, cur_rx |-> SlowTx, xmt_TO |-> SlowTx,
   detect_TO |-> BFD_DEFDETECTMULT * SlowTx, echo_xmt_TO |-> 0,
   remote_tx |-> SlowTx, remote_rx |-> SlowTx, remote_mult |-> BFD_DEFDETECTMULT,
   remote_echo |-> 0, recv |-> Off, xmt |-> Off, echo_recv |-> Off,
   echo_xmt |-> Off, txq |-> << >>, echoes |-> FALSE, note |-> DOWN]

\* ptm_bfd_sess_new / bs_registrate
bs_registrate(discr, c) ==
  bfd_session_apply(bfd_session_enable(bfd_session_new(discr)), c)

-----------------------------------------------------------------------------
(* The steps of the two processes and of the network. *)

Init ==
  /\ \E first \in Nodes :
        bs = [n \in Nodes |-> bs_registrate(IF n = first THEN 1 ELSE 2, Initial[n])]
  /\ heard = [n \in Nodes |-> {}]
  /\ ndiscr = 2
  /\ env = 0
  /\ lost = 0

\* The session of n becomes s; what it sends to an end without interface is lost.
Becomes(n, s) ==
  [bs EXCEPT ![n] = IF bs[Peer(n)].sock THEN s ELSE [s EXCEPT !.txq = bs[n].txq]]

Handle(n, s) == bs' = Becomes(n, s) /\ UNCHANGED <<heard, ndiscr, env, lost>>

External(e) == e \in Events /\ env < MaxEnv /\ env' = env + 1

\* The transmission timer, with its jitter of up to a quarter of the interval.
bfd_xmt_cb(n) ==
  /\ bs[n].xmt # Off
  /\ bs[n].xmt <= bs[n].xmt_TO \div 4
  /\ Handle(n, ptm_bfd_xmt_TO(bs[n]))

bfd_echo_xmt_cb(n) ==
  /\ bs[n].echo_xmt = 0
  /\ LET s == [bs[n] EXCEPT !.echo_xmt = Off]
     IN Handle(n, IF s.echo_xmt_TO > 0 THEN ptm_bfd_echo_xmt_TO(s) ELSE s)

\* The detection timer.
bfd_recvtimer_cb(n) ==
  /\ bs[n].recv = 0
  /\ LET s == [bs[n] EXCEPT !.recv = Off]
     IN Handle(n, CASE s.ses_state \in {INIT, UP} -> ptm_bfd_sess_dn(s, FALSE)
                    [] s.ses_state = DOWN -> [s EXCEPT !.remote_discr = 0]
                    [] OTHER -> s)

bfd_echo_recvtimer_cb(n) ==
  /\ bs[n].echo_recv = 0
  /\ LET s == [bs[n] EXCEPT !.echo_recv = Off]
     IN Handle(n, IF s.ses_state \in {INIT, UP} THEN ptm_bfd_sess_dn(s, FALSE) ELSE s)

\* A control packet arrives, in order and once unless the network may fault.
Receive(n) ==
  \E i \in DOMAIN bs[Peer(n)].txq, keep \in BOOLEAN :
    /\ i = 1 \/ "reorder" \in Faults
    /\ keep => "dup" \in Faults
    /\ LET q == bs[Peer(n)].txq
           rest == SubSeq(q, 1, i - 1) \o SubSeq(q, i + 1, Len(q))
       IN /\ bs' = [Becomes(n, bfd_recv_cb(bs[n], q[i])) EXCEPT
                      ![Peer(n)].txq = IF keep THEN q ELSE rest]
          /\ heard' = [heard EXCEPT ![n] =
                         IF Accepted(bs[n], q[i]) THEN @ \cup {q[i].my} ELSE @]
    /\ UNCHANGED <<ndiscr, env, lost>>

\* An echo packet comes back; it may be one of several in flight.
ReceiveEcho(n) ==
  /\ bs[n].echoes
  /\ \E more \in BOOLEAN :
       Handle(n, ptm_bfd_process_echo_pkt([bs[n] EXCEPT !.echoes = more]))

\* The network drops a packet; a timed run counts the losses.
Lose(n) ==
  /\ "loss" \in Faults
  /\ IF Timed THEN lost < MaxLoss /\ lost' = lost + 1 ELSE UNCHANGED lost
  /\ \/ bs[n].txq # << >> /\ bs' = [bs EXCEPT ![n].txq = Tail(@)]
     \/ bs[n].echoes /\ bs' = [bs EXCEPT ![n].echoes = FALSE]
  /\ UNCHANGED <<heard, ndiscr, env>>

\* The operator may configure at any time, or only between poll sequences.
NoPoll == \A n \in Nodes : ~bs[n].polling /\ bs[n].txq = << >>

Apply(n) ==
  /\ \/ External("apply")
     \/ External("settled") /\ NoPoll
  /\ \E c \in Configs : bs' = Becomes(n, bfd_session_apply(bs[n], c))
  /\ UNCHANGED <<heard, ndiscr, lost>>

Disable(n) ==
  /\ External("disable")
  /\ bs[n].sock
  /\ bs' = Becomes(n, bfd_session_disable(bs[n]))
  /\ UNCHANGED <<heard, ndiscr, lost>>

Enable(n) ==
  /\ ~bs[n].sock
  /\ Handle(n, bfd_session_enable(bs[n]))

\* bfdd dies and comes back with the same configuration and a new discriminator.
Restart(n) ==
  /\ External("restart")
  /\ bs[n].sock
  /\ ndiscr' = ndiscr + 1
  /\ LET s == bs_registrate(ndiscr', [tx |-> bs[n].tx, rx |-> bs[n].rx,
                mult |-> bs[n].mult, echo |-> bs[n].echo, echo_rx |-> bs[n].echo_rx,
                demand |-> bs[n].demand, passive |-> bs[n].passive,
                shutdown |-> bs[n].shutdown])
     IN bs' = Becomes(n, [s EXCEPT !.txq = bs[n].txq \o @])
  /\ UNCHANGED <<heard, lost>>

\* Time passes when nothing is due and no packet is on its way.
Tick ==
  /\ Timed
  /\ \A n \in Nodes : /\ bs[n].txq = << >> /\ ~bs[n].echoes
                      /\ 0 \notin {bs[n].recv, bs[n].xmt, bs[n].echo_recv, bs[n].echo_xmt}
  /\ LET Left(t) == IF t = Off THEN Off ELSE t - 1
     IN bs' = [n \in Nodes |->
                 [bs[n] EXCEPT !.recv = Left(@), !.xmt = Left(@),
                               !.echo_recv = Left(@), !.echo_xmt = Left(@)]]
  /\ UNCHANGED <<heard, ndiscr, env, lost>>

Timers(n) == \/ bfd_xmt_cb(n) \/ bfd_echo_xmt_cb(n)
             \/ bfd_recvtimer_cb(n) \/ bfd_echo_recvtimer_cb(n)
Network(n) == Receive(n) \/ ReceiveEcho(n) \/ Lose(n)
Operator(n) == Apply(n) \/ Disable(n) \/ Enable(n) \/ Restart(n)

Next == Tick \/ \E n \in Nodes : Timers(n) \/ Network(n) \/ Operator(n)

Spec == Init /\ [][Next]_vars

\* The event loop serves what is due and packets arrive, so time goes on; in a
\* timed run one weak fairness is enough, since Tick waits for all the others.
Progress ==
  Tick \/ \E n \in Nodes : Timers(n) \/ Receive(n) \/ ReceiveEcho(n) \/ Enable(n)

\* ENABLED <<Progress>>_vars of a timed run: a timer is armed, a packet is on its
\* way, or an interface is about to return.
Busy ==
  \E n \in Nodes : \/ bs[n].txq # << >> \/ bs[n].echoes \/ ~bs[n].sock
                  \/ \E t \in {bs[n].recv, bs[n].xmt, bs[n].echo_recv, bs[n].echo_xmt} :
                        t # Off

\* WF_vars(Progress), with its ENABLED spelled out.
FairSpec == Spec /\ ([]<>~Busy \/ []<><<Progress>>_vars)

-----------------------------------------------------------------------------
(* Properties. *)

Ticks == Int
Session ==
  [ses_state: States, remote_ses_state: States, my_discr: Nat \ {0},
   remote_discr: Nat, polling: BOOLEAN, remote_demand: BOOLEAN, demand: BOOLEAN,
   passive: BOOLEAN, shutdown: BOOLEAN, echo: BOOLEAN, echo_active: BOOLEAN,
   sock: BOOLEAN, tx: Nat, rx: Nat, mult: Nat, echo_rx: Nat, cur_rx: Nat,
   xmt_TO: Nat, detect_TO: Nat, echo_xmt_TO: Nat, remote_tx: Nat, remote_rx: Nat,
   remote_mult: Nat, remote_echo: Nat, recv: Ticks, xmt: Ticks, echo_recv: Ticks,
   echo_xmt: Ticks, txq: Seq([state: States, d: BOOLEAN, f: BOOLEAN, p: BOOLEAN,
     my: Nat, your: Nat, mult: Nat, tx: Nat, rx: Nat, echo: Nat]),
   echoes: BOOLEAN, note: States]

\* Type correctness; a packet never carries both the poll and the final bit.
TypeOK ==
  /\ bs \in [Nodes -> Session]
  /\ \A n \in Nodes : \A i \in DOMAIN bs[n].txq : ~(bs[n].txq[i].p /\ bs[n].txq[i].f)
  /\ heard \in [Nodes -> SUBSET (1..ndiscr)]
  /\ ndiscr \in Nat /\ env \in 0..MaxEnv /\ lost \in 0..MaxLoss

\* Whatever path a session takes, its clients were last told Up exactly when it
\* is Up (ptm_bfd_notify in ptm_bfd_sess_up, ptm_bfd_sess_dn, bfd_set_shutdown).
ClientView == \A n \in Nodes : bs[n].note = UP <=> bs[n].ses_state = UP

\* A session is Up only if it knows a discriminator of its peer and the peer
\* has received a packet of this very incarnation: no path of bs_state_handler
\* reaches Up on one-way connectivity, stale or duplicated packets included.
TwoWay ==
  \A n \in Nodes : bs[n].ses_state = UP =>
     bs[n].remote_discr # 0 /\ bs[n].my_discr \in heard[Peer(n)]

\* Outside demand mode, and during every poll in demand mode, a session that
\* counts on its peer has a detection timer running (bfd_recvtimer_update in
\* bfd_recv_cb, bfd_set_polling and bfd_set_demand).
DetectionArmed ==
  \A n \in Nodes :
     /\ bs[n].ses_state \in {INIT, UP} /\ bs[n].sock
     /\ ~(bs[n].demand /\ BothUp(bs[n]) /\ ~bs[n].polling)
     => bs[n].recv # Off

\* A session that is Up never comes down while both processes run and the
\* network loses at most the packets the run allows: neither bringing the
\* session up nor a poll sequence for new timers or for demand mode
\* (bfd_set_polling, "to change value without losing connection") trips the
\* detection timer.
StaysUp ==
  [][\A n \in Nodes : bs[n].ses_state = UP => bs'[n].ses_state = UP]_vars

Settled == \A n \in Nodes : bs[n].ses_state = UP /\ ~bs[n].polling

\* Once the operator and the network are quiet the session comes Up at both
\* ends, every poll sequence is answered, and it stays so; unless an end is shut
\* or both wait passively.
Recovers ==
  <>[](\/ Settled
       \/ \E n \in Nodes : bs[n].shutdown
       \/ \A n \in Nodes : bs[n].passive)

\* While the echo function is active its packets are sent and watched.
EchoRuns ==
  \A n \in Nodes : bs[n].ses_state = UP /\ bs[n].echo_active =>
     bs[n].echo_xmt # Off /\ bs[n].echo_recv # Off

===============================================================================
