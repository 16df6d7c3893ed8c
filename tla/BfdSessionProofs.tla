--------------------------- MODULE BfdSessionProofs ---------------------------
(***************************************************************************)
(* Proofs about BfdSession for all values of its constants: the clients are *)
(* told what the session is (ClientView), and no session is Up unless its   *)
(* peer has heard this incarnation of it (TwoWay), under loss, duplication, *)
(* reordering, restarts and every configuration change; the state is well   *)
(* typed, a session that counts on its peer has a detection timer running,  *)
(* and active echo is sent and watched.                                     *)
(*                                                                          *)
(* Each operator on sessions gets one lemma in each half.  For the          *)
(* handshake most of them are silent: they leave the state, the note and    *)
(* the discriminators alone and send at most sound packets.  The timers are *)
(* about one session at a time: what an operator leaves behind is typed and *)
(* keeps the two promises.                                                  *)
(***************************************************************************)
EXTENDS BfdSession, TLAPS

Fields ==
  {"ses_state", "remote_ses_state", "my_discr", "remote_discr", "polling",
   "remote_demand", "demand", "passive", "shutdown", "echo", "echo_active",
   "sock", "tx", "rx", "mult", "echo_rx", "cur_rx", "xmt_TO", "detect_TO",
   "echo_xmt_TO", "remote_tx", "remote_rx", "remote_mult", "remote_echo",
   "recv", "xmt", "echo_recv", "echo_xmt", "txq", "echoes", "note"}

\* A session is a record with these fields.
Rec(s) == s = [f \in Fields |-> s[f]]

\* A packet names its sender and echoes only a discriminator its sender heard.
SoundPacket(p, H) == p.my # 0 /\ (p.your # 0 => p.your \in H)

SoundQueue(q, H) == \E S : q \in Seq(S) /\ \A p \in S : SoundPacket(p, H)

\* The session of an end that has heard H.
Sound(s, H) ==
  /\ Rec(s)
  /\ s.my_discr # 0
  /\ s.remote_discr # 0 => s.remote_discr \in H
  /\ SoundQueue(s.txq, H)

Same(t, s) ==
  /\ t.ses_state = s.ses_state /\ t.note = s.note
  /\ t.my_discr = s.my_discr /\ t.remote_discr = s.remote_discr

\* What the silent operators do.
Silent(t, s, H) == Sound(t, H) /\ Same(t, s)

-----------------------------------------------------------------------------
(* Queues. *)

LEMMA QueueAppend ==
  ASSUME NEW q, NEW H, SoundQueue(q, H), NEW p, SoundPacket(p, H)
  PROVE  SoundQueue(Append(q, p), H)
<1>1. PICK S : q \in Seq(S) /\ \A x \in S : SoundPacket(x, H)
  BY Zenon DEF SoundQueue
<1> DEFINE T == S \cup {p}
<1>2. q \in Seq(T)
  BY <1>1
<1>3. p \in T
  OBVIOUS
<1>4. Append(q, p) \in Seq(T)
  <2> HIDE DEF T
  <2> QED BY <1>2, <1>3
<1>5. \A x \in T : SoundPacket(x, H)
  BY <1>1, Zenon
<1> HIDE DEF T
<1> QED BY <1>4, <1>5, Zenon DEF SoundQueue

LEMMA QueueConcat ==
  ASSUME NEW q, NEW r, NEW H, SoundQueue(q, H), SoundQueue(r, H)
  PROVE  SoundQueue(q \o r, H)
<1>1. PICK S : q \in Seq(S) /\ \A x \in S : SoundPacket(x, H)
  BY Zenon DEF SoundQueue
<1>2. PICK T : r \in Seq(T) /\ \A x \in T : SoundPacket(x, H)
  BY Zenon DEF SoundQueue
<1> DEFINE U == S \cup T
<1>3. q \in Seq(U) /\ r \in Seq(U)
  BY <1>1, <1>2
<1>4. q \o r \in Seq(U)
  <2> HIDE DEF U
  <2> QED BY <1>3
<1>5. \A x \in U : SoundPacket(x, H)
  BY <1>1, <1>2, Zenon
<1> HIDE DEF U
<1> QED BY <1>4, <1>5, Zenon DEF SoundQueue

LEMMA QueueTail ==
  ASSUME NEW q, NEW H, SoundQueue(q, H), q # << >>
  PROVE  SoundQueue(Tail(q), H)
  BY DEF SoundQueue

LEMMA QueueSub ==
  ASSUME NEW q, NEW H, SoundQueue(q, H), NEW i \in DOMAIN q
  PROVE  /\ SoundQueue(SubSeq(q, 1, i - 1), H)
         /\ SoundQueue(SubSeq(q, i + 1, Len(q)), H)
         /\ SoundPacket(q[i], H)
<1>1. PICK S : q \in Seq(S) /\ \A x \in S : SoundPacket(x, H)
  BY Zenon DEF SoundQueue
<1>2. i \in 1..Len(q) /\ Len(q) \in Nat
  BY <1>1
<1>3. SubSeq(q, 1, i - 1) \in Seq(S)
  BY <1>1, <1>2
<1>4. SubSeq(q, i + 1, Len(q)) \in Seq(S)
  BY <1>1, <1>2
<1>5. q[i] \in S
  BY <1>1, <1>2
<1> QED BY <1>1, <1>3, <1>4, <1>5, Zenon DEF SoundQueue

LEMMA QueueEmpty ==
  ASSUME NEW H
  PROVE  SoundQueue(<< >>, H)
<1> DEFINE S == {}
<1>1. << >> \in Seq(S) /\ \A x \in S : SoundPacket(x, H)
  OBVIOUS
<1> HIDE DEF S
<1> QED BY <1>1, Zenon DEF SoundQueue

LEMMA QueueGrow ==
  ASSUME NEW q, NEW H, NEW G, SoundQueue(q, H), H \subseteq G
  PROVE  SoundQueue(q, G)
<1>1. PICK S : q \in Seq(S) /\ \A x \in S : SoundPacket(x, H)
  BY Zenon DEF SoundQueue
<1>2. \A x \in S : SoundPacket(x, G)
  BY <1>1, Zenon DEF SoundPacket
<1> QED BY <1>1, <1>2, Zenon DEF SoundQueue

-----------------------------------------------------------------------------
(* The silent operators. *)

\* An update of fields the invariant does not look at.
LEMMA TimersSilent ==
  ASSUME NEW s, NEW H, Sound(s, H)
  PROVE  /\ Silent(bfd_recvtimer_update(s), s, H)
         /\ Silent(bfd_echo_recvtimer_update(s), s, H)
         /\ Silent(ptm_bfd_start_xmt_timer(s), s, H)
         /\ Silent(ptm_bfd_start_echo_xmt_timer(s), s, H)
         /\ Silent(bs_set_slow_timers(s), s, H)
         /\ Silent(ptm_bfd_echo_stop(s), s, H)
<1> USE DEF Silent, Sound, Rec, Same, Fields
<1>1. Silent(bfd_recvtimer_update(s), s, H)
  BY Zenon DEF bfd_recvtimer_update
<1>2. Silent(bfd_echo_recvtimer_update(s), s, H)
  BY Zenon DEF bfd_echo_recvtimer_update
<1>3. Silent(ptm_bfd_start_xmt_timer(s), s, H)
  BY Zenon DEF ptm_bfd_start_xmt_timer
<1>4. Silent(ptm_bfd_start_echo_xmt_timer(s), s, H)
  BY Zenon DEF ptm_bfd_start_echo_xmt_timer
<1>5. Silent(bs_set_slow_timers(s), s, H)
  BY ZenonT(60) DEF bs_set_slow_timers
<1>6. Silent(ptm_bfd_echo_stop(s), s, H)
  BY ZenonT(60) DEF ptm_bfd_echo_stop
<1> QED BY <1>1, <1>2, <1>3, <1>4, <1>5, <1>6, Zenon

LEMMA SndSilent ==
  ASSUME NEW s, NEW H, Sound(s, H), NEW fbit
  PROVE  Silent(ptm_bfd_snd(s, fbit), s, H)
<1>1. SoundPacket(Packet(s, fbit), H)
  BY Zenon DEF SoundPacket, Packet, Sound
<1>2. SoundQueue(Append(s.txq, Packet(s, fbit)), H)
  BY <1>1, QueueAppend, Zenon DEF Sound
<1> DEFINE q == Append(s.txq, Packet(s, fbit))
           t == [s EXCEPT !.txq = q]
<1>3. ptm_bfd_snd(s, fbit) \in {s, t}
  BY Zenon DEF ptm_bfd_snd
<1>4. SoundQueue(q, H)
  BY <1>2, Zenon
<1> HIDE DEF q
<1>5. Silent(t, s, H)
  BY <1>4, Zenon DEF Silent, Sound, Rec, Same, Fields
<1>6. Silent(s, s, H)
  BY Zenon DEF Silent, Same
<1> HIDE DEF t
<1> QED BY <1>3, <1>5, <1>6, Zenon

LEMMA SilentTrans ==
  ASSUME NEW s, NEW t, NEW u, NEW H, Silent(t, s, H), Silent(u, t, H)
  PROVE  Silent(u, s, H)
  BY Zenon DEF Silent, Same

LEMMA XmtSilent ==
  ASSUME NEW s, NEW H, Sound(s, H)
  PROVE  Silent(ptm_bfd_xmt_TO(s), s, H)
<1>1. Silent(ptm_bfd_snd(s, FALSE), s, H)
  BY SndSilent, Zenon
<1>2. Silent(ptm_bfd_start_xmt_timer(ptm_bfd_snd(s, FALSE)), ptm_bfd_snd(s, FALSE), H)
  BY <1>1, TimersSilent, Zenon DEF Silent
<1>3. Silent(ptm_bfd_start_xmt_timer(s), s, H)
  BY TimersSilent, Zenon
<1> QED BY <1>1, <1>2, <1>3, SilentTrans, Zenon DEF ptm_bfd_xmt_TO

LEMMA EchoSilent ==
  ASSUME NEW s, NEW H, Sound(s, H)
  PROVE  /\ Silent(ptm_bfd_echo_xmt_TO(s), s, H)
         /\ Silent(ptm_bfd_echo_start(s), s, H)
         /\ Silent(bs_echo_timer_handler(s), s, H)
         /\ Silent(ptm_bfd_process_echo_pkt(s), s, H)
<1>0. \A x : Sound(x, H) => Silent(x, x, H)
  BY Zenon DEF Silent, Same
<1>1. ASSUME NEW x, Sound(x, H) PROVE Silent(ptm_bfd_echo_xmt_TO(x), x, H)
  <2> DEFINE y == [x EXCEPT !.echo_active = TRUE, !.echoes = TRUE]
             z == IF x.sock THEN y ELSE x
  <2>1. Silent(y, x, H)
    BY <1>1, ZenonT(60) DEF Silent, Sound, Rec, Same, Fields
  <2>2. Silent(z, x, H)
    BY <1>0, <1>1, <2>1, Zenon
  <2>3. ptm_bfd_echo_xmt_TO(x) = ptm_bfd_start_echo_xmt_timer(z)
    BY Zenon DEF ptm_bfd_echo_xmt_TO
  <2> HIDE DEF z
  <2>4. Silent(ptm_bfd_start_echo_xmt_timer(z), z, H)
    BY <2>2, TimersSilent, Zenon DEF Silent
  <2> QED BY <2>2, <2>3, <2>4, SilentTrans, Zenon
<1>2. ASSUME NEW x, Sound(x, H) PROVE Silent(ptm_bfd_echo_start(x), x, H)
  <2> DEFINE y == bfd_echo_recvtimer_update(x)
  <2>1. Silent(y, x, H)
    BY <1>2, TimersSilent, Zenon
  <2>2. Silent(ptm_bfd_echo_xmt_TO(y), y, H)
    BY <2>1, <1>1, Zenon DEF Silent
  <2>3. Silent(ptm_bfd_echo_xmt_TO(y), x, H)
    BY <2>1, <2>2, SilentTrans, Zenon
  <2> QED BY <1>0, <1>2, <2>3, Zenon DEF ptm_bfd_echo_start
<1>3. Silent(bs_echo_timer_handler(s), s, H)
  <2> DEFINE t == [s EXCEPT !.echo_xmt_TO = Max(s.remote_echo, 1)]
  <2>1. Silent(t, s, H)
    BY DEF Silent, Sound, Rec, Same, Fields
  <2>2. bs_echo_timer_handler(s) \in {s, ptm_bfd_echo_stop(s), ptm_bfd_echo_start(t), t}
    BY Zenon DEF bs_echo_timer_handler
  <2> HIDE DEF t
  <2>3. Silent(ptm_bfd_echo_start(t), t, H)
    BY <2>1, <1>2, Zenon DEF Silent
  <2>4. Silent(ptm_bfd_echo_start(t), s, H)
    BY <2>1, <2>3, SilentTrans, Zenon
  <2>5. Silent(ptm_bfd_echo_stop(s), s, H)
    BY TimersSilent, Zenon
  <2> QED BY <1>0, <2>1, <2>2, <2>4, <2>5, Zenon
<1>4. Silent(ptm_bfd_process_echo_pkt(s), s, H)
  BY <1>0, TimersSilent, Zenon DEF ptm_bfd_process_echo_pkt
<1> QED BY <1>1, <1>2, <1>3, <1>4, Zenon

LEMMA PollingSilent ==
  ASSUME NEW s, NEW H, Sound(s, H)
  PROVE  Silent(bfd_set_polling(s), s, H)
<1> DEFINE p == [s EXCEPT !.polling = TRUE]
<1>1. Silent(p, s, H)
  BY Zenon DEF Silent, Sound, Rec, Same, Fields
<1>2. bfd_set_polling(s) \in {p, bfd_recvtimer_update(p)}
  BY Zenon DEF bfd_set_polling
<1> HIDE DEF p
<1>3. Silent(bfd_recvtimer_update(p), p, H)
  BY <1>1, TimersSilent, Zenon DEF Silent
<1> QED BY <1>1, <1>2, <1>3, SilentTrans, Zenon

LEMMA FinalSilent ==
  ASSUME NEW s, NEW H, Sound(s, H)
  PROVE  Silent(bs_final_handler(s), s, H)
<1> DEFINE cur == [s EXCEPT !.cur_rx = s.rx]
           new == [cur EXCEPT !.xmt_TO = Max(s.tx, s.remote_rx)]
<1>1. Silent(cur, s, H) /\ Silent(new, s, H)
  BY ZenonT(60) DEF Silent, Sound, Rec, Same, Fields
<1>2. bs_final_handler(s) \in {cur, ptm_bfd_start_xmt_timer(new)}
  BY Zenon DEF bs_final_handler
<1> HIDE DEF cur, new
<1>3. Silent(ptm_bfd_start_xmt_timer(new), new, H)
  BY <1>1, TimersSilent, Zenon DEF Silent
<1> QED BY <1>1, <1>2, <1>3, SilentTrans, Zenon

-----------------------------------------------------------------------------
(* The operators that change the state. *)

\* The clients were told Up exactly when the session is Up, and then it knows
\* its peer.
Fine(s, H) ==
  /\ Sound(s, H)
  /\ s.note = UP <=> s.ses_state = UP
  /\ s.ses_state = UP => s.remote_discr # 0

\* A step of the session that does not bring it Up.
Moves(t, s, H) ==
  Fine(t, H) /\ t.my_discr = s.my_discr /\ (t.ses_state = UP => s.ses_state = UP)

LEMMA SilentMoves ==
  ASSUME NEW s, NEW t, NEW H, Fine(s, H), Silent(t, s, H)
  PROVE  Moves(t, s, H)
  BY Zenon DEF Moves, Fine, Silent, Same

LEMMA FineMoves ==
  ASSUME NEW s, NEW H, Fine(s, H)
  PROVE  Moves(s, s, H)
  BY Zenon DEF Moves

LEMMA MovesTrans ==
  ASSUME NEW s, NEW t, NEW u, NEW H, Moves(t, s, H), Moves(u, t, H)
  PROVE  Moves(u, s, H)
  BY Zenon DEF Moves

LEMMA SessUp ==
  ASSUME NEW s, NEW H, Sound(s, H), s.remote_discr # 0
  PROVE  /\ Fine(ptm_bfd_sess_up(s), H)
         /\ ptm_bfd_sess_up(s).my_discr = s.my_discr
<1> DEFINE a == [s EXCEPT !.ses_state = UP]
           b == bfd_set_polling(a)
           c == ptm_bfd_snd(b, FALSE)
           d == [c EXCEPT !.note = UP]
<1>1. Sound(a, H) /\ a.remote_discr = s.remote_discr /\ a.my_discr = s.my_discr
      /\ a.ses_state = UP
  BY Zenon DEF Sound, Rec, Fields
<1>2. ptm_bfd_sess_up(s) = d
  BY Zenon DEF ptm_bfd_sess_up, ptm_bfd_notify
<1> HIDE DEF a
<1>3. Silent(b, a, H)
  BY <1>1, PollingSilent, Zenon
<1> HIDE DEF b
<1>4. Silent(c, b, H)
  BY <1>3, SndSilent, Zenon DEF Silent
<1> HIDE DEF c
<1>5. Sound(c, H) /\ c.ses_state = UP /\ c.my_discr = s.my_discr /\ c.remote_discr # 0
  BY <1>1, <1>3, <1>4, Zenon DEF Silent, Same
<1>6. Fine(d, H) /\ d.my_discr = s.my_discr
  BY <1>5, Zenon DEF Fine, Sound, Rec, Fields
<1> QED BY <1>2, <1>6, Zenon

LEMMA SessDn ==
  ASSUME NEW s, NEW H, Sound(s, H), s.note = UP => s.ses_state = UP, NEW admin
  PROVE  /\ Fine(ptm_bfd_sess_dn(s, admin), H)
         /\ ptm_bfd_sess_dn(s, admin).my_discr = s.my_discr
         /\ ptm_bfd_sess_dn(s, admin).ses_state = DOWN
<1> DEFINE down == [s EXCEPT !.remote_discr = 0, !.ses_state = DOWN, !.polling = FALSE,
                        !.remote_ses_state = ADM_DOWN, !.remote_demand = FALSE]
           sent == ptm_bfd_snd(down, FALSE)
           slow == bs_set_slow_timers(sent)
           n == IF admin THEN ADM_DOWN ELSE DOWN
           told == IF s.ses_state = UP THEN [slow EXCEPT !.note = n] ELSE slow
           mute == IF told.echo_active THEN ptm_bfd_echo_stop(told) ELSE told
           off == [mute EXCEPT !.recv = Off, !.xmt = Off]
<1>1. ptm_bfd_sess_dn(s, admin) \in {mute, off}
  BY Zenon DEF ptm_bfd_sess_dn, ptm_bfd_notify
<1>2. Sound(down, H) /\ down.my_discr = s.my_discr /\ down.ses_state = DOWN
      /\ down.note = s.note
  BY ZenonT(60) DEF Sound, Rec, Fields
<1> HIDE DEF down
<1>3. Silent(sent, down, H)
  BY <1>2, SndSilent, Zenon
<1> HIDE DEF sent
<1>4. Silent(slow, sent, H)
  BY <1>3, TimersSilent, Zenon DEF Silent
<1> HIDE DEF slow
<1>5. Sound(slow, H) /\ slow.my_discr = s.my_discr /\ slow.ses_state = DOWN
      /\ slow.note = s.note
  BY <1>2, <1>3, <1>4, Zenon DEF Silent, Same
<1>6. n # UP
  BY Zenon DEF ADM_DOWN, DOWN, UP
<1> HIDE DEF n
<1> DEFINE Done(x) == Fine(x, H) /\ x.my_discr = s.my_discr /\ x.ses_state = DOWN
<1>7. Done(told)
  <2>1. CASE s.ses_state = UP
    BY <1>5, <1>6, <2>1 DEF Fine, Sound, Rec, Fields, DOWN, UP
  <2>2. CASE s.ses_state # UP
    BY <1>5, <2>2, Zenon DEF Fine, DOWN, UP
  <2> QED BY <2>1, <2>2, Zenon
<1> HIDE DEF told
<1>8. Done(mute)
  <2>1. Silent(ptm_bfd_echo_stop(told), told, H)
    BY <1>7, TimersSilent, Zenon DEF Fine
  <2>2. Done(ptm_bfd_echo_stop(told))
    BY <1>7, <2>1, Zenon DEF Fine, Silent, Same
  <2> QED BY <1>7, <2>2, Zenon
<1> HIDE DEF mute
<1>9. Done(off)
  BY <1>8, ZenonT(60) DEF Fine, Sound, Rec, Fields
<1> HIDE DEF off
<1> QED BY <1>1, <1>8, <1>9, Zenon

LEMMA StateHandler ==
  ASSUME NEW s, NEW H, Fine(s, H), s.remote_discr # 0, NEW nstate
  PROVE  /\ Fine(bs_state_handler(s, nstate), H)
         /\ bs_state_handler(s, nstate).my_discr = s.my_discr
         /\ bs_state_handler(s, nstate).ses_state = UP =>
               s.ses_state = UP \/ nstate \in {INIT, UP}
<1> DEFINE Done(x) == /\ Fine(x, H)
                      /\ x.my_discr = s.my_discr
                      /\ x.ses_state = UP => s.ses_state = UP \/ nstate \in {INIT, UP}
<1>1. Done(s)
  OBVIOUS
<1>2. nstate \in {INIT, UP} => Done(ptm_bfd_sess_up(s))
  BY SessUp, Zenon DEF Fine
<1>3. Done(ptm_bfd_sess_dn(s, TRUE)) /\ Done(ptm_bfd_sess_dn(s, FALSE))
  BY SessDn, Zenon DEF Fine, DOWN, UP
<1>4. s.ses_state = DOWN => Done(bs_down_handler(s, nstate))
  <2> SUFFICES ASSUME s.ses_state = DOWN PROVE Done(bs_down_handler(s, nstate))
    OBVIOUS
  <2> DEFINE i == [s EXCEPT !.ses_state = INIT]
  <2>1. Fine(i, H) /\ i.my_discr = s.my_discr /\ i.ses_state = INIT
    BY Zenon DEF Fine, Sound, Rec, Fields, DOWN, INIT, UP
  <2> HIDE DEF i
  <2>2. Silent(ptm_bfd_xmt_TO(i), i, H)
    BY <2>1, XmtSilent, Zenon DEF Fine
  <2>3. Done(i) /\ Done(ptm_bfd_xmt_TO(i))
    BY <2>1, <2>2, Zenon DEF Fine, Silent, Same, INIT, UP
  <2>4. \/ bs_down_handler(s, nstate) \in {s, i, ptm_bfd_xmt_TO(i)}
        \/ nstate = INIT /\ bs_down_handler(s, nstate) = ptm_bfd_sess_up(s)
    BY Zenon DEF bs_down_handler, i, DOWN, INIT
  <2> HIDE DEF Done
  <2> QED BY <1>1, <1>2, <2>3, <2>4, Zenon
<1> HIDE DEF Done
<1>5. Done(bs_init_handler(s, nstate))
  BY <1>1, <1>2, <1>3, Zenon DEF bs_init_handler, ADM_DOWN, INIT, UP
<1>6. Done(bs_up_handler(s, nstate))
  BY <1>1, <1>3, Zenon DEF bs_up_handler, ADM_DOWN, DOWN
<1>7. Done(bs_state_handler(s, nstate))
  BY <1>1, <1>4, <1>5, <1>6, Zenon DEF bs_state_handler
<1> QED BY <1>7, Zenon DEF Done

LEMMA FineGrow ==
  ASSUME NEW s, NEW H, NEW G, Fine(s, H), H \subseteq G
  PROVE  Fine(s, G)
  BY QueueGrow, Zenon DEF Fine, Sound

LEMMA Recv ==
  ASSUME NEW s, NEW H, NEW cp, Fine(s, H), cp.my # 0,
         Accepted(s, cp) => cp.my \in H
  PROVE  /\ Fine(bfd_recv_cb(s, cp), H)
         /\ bfd_recv_cb(s, cp).my_discr = s.my_discr
         /\ bfd_recv_cb(s, cp).ses_state = UP =>
               s.ses_state = UP \/ (Accepted(s, cp) /\ cp.state \in {INIT, UP})
<1>1. CASE ~Accepted(s, cp)
  BY <1>1, Zenon DEF bfd_recv_cb
<1>2. CASE Accepted(s, cp)
  <2> DEFINE stored == [s EXCEPT !.remote_discr = cp.my, !.remote_tx = cp.tx,
                          !.remote_rx = cp.rx, !.remote_mult = cp.mult,
                          !.remote_echo = cp.echo, !.remote_ses_state = cp.state,
                          !.remote_demand = cp.d]
             moved == bs_state_handler(stored, cp.state)
             calm == [moved EXCEPT !.polling = FALSE]
             final == IF moved.polling /\ cp.f THEN bs_final_handler(calm) ELSE moved
             to == bfd_detection_timeout_us(final.remote_mult, final.cur_rx, final.remote_tx)
             timed == [final EXCEPT !.detect_TO = to]
             quiet == [timed EXCEPT !.recv = Off]
             watched == IF timed.demand /\ BothUp(timed) /\ ~timed.polling
                        THEN quiet ELSE bfd_recvtimer_update(timed)
             echoed == bs_echo_timer_handler(watched)
             settled == bs_final_handler(echoed)
             answered == ptm_bfd_snd(settled, TRUE)
  <2>1. bfd_recv_cb(s, cp) \in {echoed, answered}
    BY <1>2, Zenon DEF bfd_recv_cb
  <2>2. cp.my \in H /\ cp.my # 0
    BY <1>2, Zenon
  <2>3. /\ Fine(stored, H) /\ stored.my_discr = s.my_discr
        /\ stored.ses_state = s.ses_state /\ stored.remote_discr # 0
    BY <2>2, ZenonT(60) DEF Fine, Sound, Rec, Fields
  <2> HIDE DEF stored
  <2>4. /\ Fine(moved, H) /\ moved.my_discr = s.my_discr
        /\ moved.ses_state = UP => s.ses_state = UP \/ cp.state \in {INIT, UP}
    BY <2>3, StateHandler, Zenon
  <2> HIDE DEF moved
  <2>5. Silent(final, moved, H)
    <3>1. Silent(calm, moved, H)
      BY <2>4, Zenon DEF Silent, Fine, Sound, Rec, Same, Fields
    <3> HIDE DEF calm
    <3>2. Silent(bs_final_handler(calm), calm, H)
      BY <3>1, FinalSilent, Zenon DEF Silent
    <3>3. Silent(moved, moved, H)
      BY <2>4, Zenon DEF Silent, Fine, Same
    <3> QED BY <3>1, <3>2, <3>3, SilentTrans, Zenon
  <2> HIDE DEF final, to
  <2>6. Silent(timed, final, H)
    BY <2>5, Zenon DEF Silent, Sound, Rec, Same, Fields
  <2> HIDE DEF timed
  <2>7. Silent(watched, timed, H)
    <3>1. Silent(quiet, timed, H)
      BY <2>6, Zenon DEF Silent, Sound, Rec, Same, Fields
    <3>2. Silent(bfd_recvtimer_update(timed), timed, H)
      BY <2>6, TimersSilent, Zenon DEF Silent
    <3> QED BY <3>1, <3>2, Zenon
  <2> HIDE DEF watched
  <2>8. Silent(echoed, watched, H)
    BY <2>7, EchoSilent, Zenon DEF Silent
  <2> HIDE DEF echoed
  <2>9. Silent(settled, echoed, H)
    BY <2>8, FinalSilent, Zenon DEF Silent
  <2> HIDE DEF settled
  <2>10. Silent(answered, settled, H)
    BY <2>9, SndSilent, Zenon DEF Silent
  <2> HIDE DEF answered
  <2>11. Silent(echoed, moved, H) /\ Silent(answered, moved, H)
    BY <2>5, <2>6, <2>7, <2>8, <2>9, <2>10, SilentTrans, Zenon
  <2>12. Moves(bfd_recv_cb(s, cp), moved, H)
    BY <2>1, <2>4, <2>11, SilentMoves, Zenon
  <2> QED BY <1>2, <2>4, <2>12, Zenon DEF Moves
<1> QED BY <1>1, <1>2, Zenon

LEMMA SetEcho ==
  ASSUME NEW s, NEW H, Fine(s, H), NEW echo
  PROVE  Moves(bfd_set_echo(s, echo), s, H)
<1> DEFINE on == [s EXCEPT !.echo = TRUE]
           off == [s EXCEPT !.echo = FALSE]
<1>1. bfd_set_echo(s, echo) \in {s, bs_echo_timer_handler(on), ptm_bfd_echo_stop(off)}
  BY Zenon DEF bfd_set_echo
<1>2. Silent(on, s, H) /\ Silent(off, s, H)
  BY ZenonT(60) DEF Silent, Fine, Sound, Rec, Same, Fields
<1> HIDE DEF on, off
<1>3. Silent(bs_echo_timer_handler(on), on, H) /\ Silent(ptm_bfd_echo_stop(off), off, H)
  BY <1>2, EchoSilent, TimersSilent, Zenon DEF Silent
<1>4. Silent(bs_echo_timer_handler(on), s, H) /\ Silent(ptm_bfd_echo_stop(off), s, H)
  BY <1>2, <1>3, SilentTrans, Zenon
<1> QED BY <1>1, <1>4, SilentMoves, FineMoves, Zenon

LEMMA SetDemand ==
  ASSUME NEW s, NEW H, Fine(s, H), NEW demand
  PROVE  Moves(bfd_set_demand(s, demand), s, H)
<1> DEFINE t == [s EXCEPT !.demand = demand]
           p == bfd_set_polling(t)
           r == bfd_recvtimer_update(p)
<1>1. bfd_set_demand(s, demand) \in {s, t, p, r}
  BY Zenon DEF bfd_set_demand
<1>2. Silent(t, s, H)
  BY Zenon DEF Silent, Fine, Sound, Rec, Same, Fields
<1> HIDE DEF t
<1>3. Silent(p, t, H)
  BY <1>2, PollingSilent, Zenon DEF Silent
<1> HIDE DEF p
<1>4. Silent(r, p, H)
  BY <1>3, TimersSilent, Zenon DEF Silent
<1> HIDE DEF r
<1>5. Silent(p, s, H) /\ Silent(r, s, H)
  BY <1>2, <1>3, <1>4, SilentTrans, Zenon
<1> QED BY <1>1, <1>2, <1>5, SilentMoves, FineMoves, Zenon

LEMMA SetPassive ==
  ASSUME NEW s, NEW H, Fine(s, H), NEW passive
  PROVE  Moves(bfd_set_passive_mode(s, passive), s, H)
<1> DEFINE t == [s EXCEPT !.passive = passive]
           o == [t EXCEPT !.recv = Off, !.xmt = Off]
           x == ptm_bfd_start_xmt_timer(t)
           r == bfd_recvtimer_update(x)
<1>1. bfd_set_passive_mode(s, passive) \in {t, o, r}
  BY Zenon DEF bfd_set_passive_mode
<1>2. Silent(t, s, H) /\ Silent(o, s, H)
  BY ZenonT(60) DEF Silent, Fine, Sound, Rec, Same, Fields
<1> HIDE DEF t, o
<1>3. Silent(x, t, H)
  BY <1>2, TimersSilent, Zenon DEF Silent
<1> HIDE DEF x
<1>4. Silent(r, x, H)
  BY <1>3, TimersSilent, Zenon DEF Silent
<1> HIDE DEF r
<1>5. Silent(r, s, H)
  BY <1>2, <1>3, <1>4, SilentTrans, Zenon
<1> QED BY <1>1, <1>2, <1>5, SilentMoves, Zenon

LEMMA SetShutdown ==
  ASSUME NEW s, NEW H, Fine(s, H), NEW shutdown
  PROVE  Moves(bfd_set_shutdown(s, shutdown), s, H)
<1> DEFINE a == [s EXCEPT !.shutdown = TRUE, !.recv = Off, !.xmt = Off,
                          !.echo_recv = Off, !.echo_xmt = Off, !.ses_state = ADM_DOWN]
           shut == [a EXCEPT !.note = ADM_DOWN]
           sent == ptm_bfd_snd(shut, FALSE)
           b == [s EXCEPT !.shutdown = FALSE, !.ses_state = DOWN]
           open == [b EXCEPT !.note = DOWN]
           off == [open EXCEPT !.recv = Off, !.xmt = Off]
           r == bfd_recvtimer_update(open)
           x == ptm_bfd_start_xmt_timer(r)
<1>1. bfd_set_shutdown(s, shutdown) \in {s, sent, off, x}
  BY Zenon DEF bfd_set_shutdown, ptm_bfd_notify
<1>2. Moves(shut, s, H)
  BY ZenonT(60) DEF Moves, Fine, Sound, Rec, Fields, ADM_DOWN, UP
<1>3. Moves(open, s, H)
  BY ZenonT(60) DEF Moves, Fine, Sound, Rec, Fields, DOWN, UP
<1> HIDE DEF shut, open
<1>4. Silent(sent, shut, H)
  BY <1>2, SndSilent, Zenon DEF Moves, Fine
<1>5. Silent(off, open, H)
  BY <1>3, ZenonT(60) DEF Moves, Silent, Fine, Sound, Rec, Same, Fields
<1>6. Silent(r, open, H)
  BY <1>3, TimersSilent, Zenon DEF Moves, Fine
<1> HIDE DEF sent, off, r
<1>7. Silent(x, r, H)
  BY <1>6, TimersSilent, Zenon DEF Silent
<1> HIDE DEF x
<1>8. Moves(sent, shut, H) /\ Moves(off, open, H) /\ Moves(x, open, H)
  BY <1>2, <1>3, <1>4, <1>5, <1>6, <1>7, SilentMoves, SilentTrans, Zenon DEF Moves
<1>9. Moves(sent, s, H) /\ Moves(off, s, H) /\ Moves(x, s, H)
  BY <1>2, <1>3, <1>8, MovesTrans, Zenon
<1> QED BY <1>1, <1>9, FineMoves, Zenon

LEMMA SessionApply ==
  ASSUME NEW s, NEW H, Fine(s, H), NEW c
  PROVE  Moves(bfd_session_apply(s, c), s, H)
<1> DEFINE timers == [s EXCEPT !.mult = c.mult, !.tx = c.tx, !.rx = c.rx,
                               !.echo_rx = c.echo_rx]
           echo == bfd_set_echo(timers, c.echo)
           dem == bfd_set_demand(echo, c.demand)
           role == bfd_set_passive_mode(dem, c.passive)
           shut == bfd_set_shutdown(role, c.shutdown)
           poll == bfd_set_polling(shut)
<1>1. bfd_session_apply(s, c) \in {shut, poll}
  BY Zenon DEF bfd_session_apply
<1>2. Silent(timers, s, H)
  BY ZenonT(60) DEF Silent, Fine, Sound, Rec, Same, Fields
<1> HIDE DEF timers
<1>3. Moves(timers, s, H)
  BY <1>2, SilentMoves, Zenon
<1>4. Moves(echo, timers, H)
  BY <1>3, SetEcho, Zenon DEF Moves
<1> HIDE DEF echo
<1>5. Moves(dem, echo, H)
  BY <1>4, SetDemand, Zenon DEF Moves
<1> HIDE DEF dem
<1>6. Moves(role, dem, H)
  BY <1>5, SetPassive, Zenon DEF Moves
<1> HIDE DEF role
<1>7. Moves(shut, role, H)
  BY <1>6, SetShutdown, Zenon DEF Moves
<1> HIDE DEF shut
<1>8. Fine(shut, H) /\ Silent(poll, shut, H)
  BY <1>7, PollingSilent, Zenon DEF Moves, Fine
<1> HIDE DEF poll
<1>9. Moves(poll, shut, H)
  BY <1>8, SilentMoves, Zenon
<1>10. Moves(shut, s, H)
  BY <1>3, <1>4, <1>5, <1>6, <1>7, MovesTrans, Zenon
<1>11. Moves(poll, s, H)
  BY <1>9, <1>10, MovesTrans, Zenon
<1> QED BY <1>1, <1>10, <1>11, Zenon

LEMMA SessionEnable ==
  ASSUME NEW s, NEW H, Fine(s, H)
  PROVE  Moves(bfd_session_enable(s), s, H)
<1> DEFINE t == [s EXCEPT !.sock = TRUE]
           r == bfd_recvtimer_update(t)
           x == ptm_bfd_start_xmt_timer(r)
<1>1. bfd_session_enable(s) \in {t, x}
  BY Zenon DEF bfd_session_enable
<1>2. Silent(t, s, H)
  BY Zenon DEF Silent, Fine, Sound, Rec, Same, Fields
<1> HIDE DEF t
<1>3. Silent(r, t, H)
  BY <1>2, TimersSilent, Zenon DEF Silent
<1> HIDE DEF r
<1>4. Silent(x, r, H)
  BY <1>3, TimersSilent, Zenon DEF Silent
<1> HIDE DEF x
<1>5. Silent(x, s, H)
  BY <1>2, <1>3, <1>4, SilentTrans, Zenon
<1> QED BY <1>1, <1>2, <1>5, SilentMoves, Zenon

LEMMA SessionDisable ==
  ASSUME NEW s, NEW H, Fine(s, H)
  PROVE  Moves(bfd_session_disable(s), s, H)
<1> DEFINE t == [s EXCEPT !.sock = FALSE, !.recv = Off, !.xmt = Off]
           e == ptm_bfd_echo_stop(t)
           d == ptm_bfd_sess_dn(e, FALSE)
<1>1. bfd_session_disable(s) = d
  BY Zenon DEF bfd_session_disable
<1>2. Silent(t, s, H)
  BY ZenonT(60) DEF Silent, Fine, Sound, Rec, Same, Fields
<1> HIDE DEF t
<1>3. Silent(e, t, H)
  BY <1>2, TimersSilent, Zenon DEF Silent
<1> HIDE DEF e
<1>4. Sound(e, H) /\ (e.note = UP => e.ses_state = UP) /\ e.my_discr = s.my_discr
  BY <1>2, <1>3, Zenon DEF Fine, Silent, Same
<1>5. Fine(d, H) /\ d.my_discr = e.my_discr /\ d.ses_state = DOWN
  BY <1>4, SessDn, Zenon
<1> HIDE DEF d
<1> QED BY <1>1, <1>4, <1>5, Zenon DEF Moves, DOWN, UP

LEMMA Registrate ==
  ASSUME NEW d, d # 0, NEW H, NEW c
  PROVE  /\ Fine(bs_registrate(d, c), H)
         /\ bs_registrate(d, c).my_discr = d
         /\ bs_registrate(d, c).ses_state # UP
<1> DEFINE n == bfd_session_new(d)
           e == bfd_session_enable(n)
           a == bfd_session_apply(e, c)
<1>1. bs_registrate(d, c) = a
  BY Zenon DEF bs_registrate
<1>2. SoundQueue(<< >>, H)
  BY QueueEmpty, Zenon
<1>3. Rec(n) /\ n.my_discr = d /\ n.remote_discr = 0 /\ n.txq = << >>
      /\ n.note = DOWN /\ n.ses_state = DOWN
  BY Zenon DEF bfd_session_new, Rec, Fields
<1> HIDE DEF n
<1>4. Fine(n, H) /\ n.my_discr = d /\ n.ses_state # UP
  BY <1>2, <1>3, Zenon DEF Fine, Sound, DOWN, UP
<1>5. Moves(e, n, H)
  BY <1>4, SessionEnable, Zenon
<1> HIDE DEF e
<1>6. Moves(a, e, H)
  BY <1>5, SessionApply, Zenon DEF Moves
<1> HIDE DEF a
<1> QED BY <1>1, <1>4, <1>5, <1>6, Zenon DEF Moves

-----------------------------------------------------------------------------
(* The inductive invariant. *)

Heard(n) == bs[n].ses_state = UP => bs[n].my_discr \in heard[Peer(n)]

HandshakeInv ==
  /\ bs = [n \in Nodes |-> bs[n]]
  /\ heard = [n \in Nodes |-> heard[n]]
  /\ ndiscr \in Nat
  /\ \A n \in Nodes : Fine(bs[n], heard[n]) /\ Heard(n)

LEMMA PeerFacts ==
  ASSUME NEW n \in Nodes
  PROVE  Peer(n) \in Nodes /\ Peer(n) # n /\ \A m \in Nodes : m = n \/ m = Peer(n)
<1>1. PICK m \in Nodes : Nodes = {n, m} /\ n # m
  BY BfdAssumption, Zenon
<1>2. \E x \in Nodes : x # n
  BY <1>1, Zenon
<1>3. Peer(n) \in Nodes /\ Peer(n) # n
  BY <1>2, Zenon DEF Peer
<1> QED BY <1>1, <1>3, Zenon

LEMMA PeerPeer ==
  ASSUME NEW n \in Nodes
  PROVE  Peer(Peer(n)) = n
<1>1. Peer(n) \in Nodes /\ Peer(n) # n /\ \A m \in Nodes : m = n \/ m = Peer(n)
  BY PeerFacts, Zenon
<1>2. Peer(Peer(n)) \in Nodes /\ Peer(Peer(n)) # Peer(n)
  BY <1>1, PeerFacts, Zenon
<1> QED BY <1>1, <1>2, Zenon

\* What reaches an end without interface is dropped from the queue again.
LEMMA BecomesFine ==
  ASSUME HandshakeInv, NEW n \in Nodes, NEW s, NEW H, Fine(s, H), heard[n] \subseteq H
  PROVE  /\ Fine(Becomes(n, s)[n], H)
         /\ Becomes(n, s)[n].ses_state = s.ses_state
         /\ Becomes(n, s)[n].my_discr = s.my_discr
         /\ \A m \in Nodes : m # n => Becomes(n, s)[m] = bs[m]
         /\ Becomes(n, s) = [m \in Nodes |-> Becomes(n, s)[m]]
<1> DEFINE q == bs[n].txq
           d == [s EXCEPT !.txq = q]
           t == IF bs[Peer(n)].sock THEN s ELSE d
<1>1. SoundQueue(q, H)
  BY QueueGrow, Zenon DEF HandshakeInv, Fine, Sound
<1>2. Becomes(n, s) = [bs EXCEPT ![n] = t]
  BY Zenon DEF Becomes
<1> HIDE DEF q
<1>3. Fine(d, H) /\ d.ses_state = s.ses_state /\ d.my_discr = s.my_discr
  BY <1>1 DEF Fine, Sound, Rec, Fields
<1> HIDE DEF d
<1>4. Fine(t, H) /\ t.ses_state = s.ses_state /\ t.my_discr = s.my_discr
  BY <1>3, Zenon
<1> HIDE DEF t
<1>5. DOMAIN bs = Nodes
  BY Zenon DEF HandshakeInv
<1> QED BY <1>2, <1>4, <1>5, Zenon

LEMMA StepInv ==
  ASSUME HandshakeInv, NEW n \in Nodes, NEW s, Fine(s, heard[n]),
         s.ses_state = UP => s.my_discr \in heard[Peer(n)],
         bs' = Becomes(n, s), heard' = heard, ndiscr' \in Nat
  PROVE  HandshakeInv'
<1> DEFINE b == Becomes(n, s)
<1>1. /\ Fine(b[n], heard[n]) /\ b[n].ses_state = s.ses_state
      /\ b[n].my_discr = s.my_discr
      /\ \A m \in Nodes : m # n => b[m] = bs[m]
      /\ b = [m \in Nodes |-> b[m]]
  BY BecomesFine
<1>2. bs' = b
  OBVIOUS
<1> HIDE DEF b
<1>3. ASSUME NEW m \in Nodes PROVE Fine(bs'[m], heard'[m]) /\ Heard(m)'
  <2>1. CASE m = n
    BY <1>1, <1>2, <2>1, Zenon DEF HandshakeInv, Heard
  <2>2. CASE m # n
    BY <1>1, <1>2, <2>2, Zenon DEF HandshakeInv, Heard
  <2> QED BY <2>1, <2>2, Zenon
<1> QED BY <1>1, <1>2, <1>3, Zenon DEF HandshakeInv

\* A callback, or a change by the operator, that does not bring the session Up.
LEMMA MovesInv ==
  ASSUME HandshakeInv, NEW n \in Nodes, NEW s, Moves(s, bs[n], heard[n]),
         bs' = Becomes(n, s), UNCHANGED <<heard, ndiscr>>
  PROVE  HandshakeInv'
<1>1. Fine(s, heard[n]) /\ (s.ses_state = UP => s.my_discr \in heard[Peer(n)])
  BY Zenon DEF Moves, HandshakeInv, Heard
<1>2. heard' = heard /\ ndiscr' \in Nat
  BY Zenon DEF HandshakeInv
<1> QED BY <1>1, <1>2, StepInv, Zenon

LEMMA TimersInv ==
  ASSUME HandshakeInv, NEW n \in Nodes, Timers(n)
  PROVE  HandshakeInv'
<1> DEFINE H == heard[n]
<1>0. Fine(bs[n], H)
  BY Zenon DEF HandshakeInv
<1>1. CASE bfd_xmt_cb(n)
  <2>1. Silent(ptm_bfd_xmt_TO(bs[n]), bs[n], H)
    BY <1>0, XmtSilent, Zenon DEF Fine
  <2>2. Moves(ptm_bfd_xmt_TO(bs[n]), bs[n], H)
    BY <1>0, <2>1, SilentMoves, Zenon
  <2>3. bs' = Becomes(n, ptm_bfd_xmt_TO(bs[n])) /\ UNCHANGED <<heard, ndiscr>>
    BY <1>1, Zenon DEF bfd_xmt_cb, Handle
  <2> QED BY <2>2, <2>3, MovesInv, Zenon
<1>2. CASE bfd_echo_xmt_cb(n)
  <2> DEFINE s == [bs[n] EXCEPT !.echo_xmt = Off]
             t == IF s.echo_xmt_TO > 0 THEN ptm_bfd_echo_xmt_TO(s) ELSE s
  <2>1. bs' = Becomes(n, t) /\ UNCHANGED <<heard, ndiscr>>
    BY <1>2, Zenon DEF bfd_echo_xmt_cb, Handle
  <2>2. Silent(s, bs[n], H)
    BY <1>0 DEF Silent, Fine, Sound, Rec, Same, Fields
  <2> HIDE DEF s
  <2>3. Silent(ptm_bfd_echo_xmt_TO(s), s, H)
    BY <2>2, EchoSilent, Zenon DEF Silent
  <2>4. Silent(ptm_bfd_echo_xmt_TO(s), bs[n], H)
    BY <2>2, <2>3, SilentTrans, Zenon
  <2>5. Silent(t, bs[n], H)
    BY <2>2, <2>4, Zenon
  <2> HIDE DEF t
  <2>6. Moves(t, bs[n], H)
    BY <1>0, <2>5, SilentMoves, Zenon
  <2> QED BY <2>1, <2>6, MovesInv, Zenon
<1>3. CASE bfd_recvtimer_cb(n)
  <2> DEFINE s == [bs[n] EXCEPT !.recv = Off]
             z == [s EXCEPT !.remote_discr = 0]
             t == CASE s.ses_state \in {INIT, UP} -> ptm_bfd_sess_dn(s, FALSE)
                    [] s.ses_state = DOWN -> z
                    [] OTHER -> s
  <2>1. bs' = Becomes(n, t) /\ UNCHANGED <<heard, ndiscr>>
    BY <1>3, Zenon DEF bfd_recvtimer_cb, Handle
  <2>2. Silent(s, bs[n], H)
    BY <1>0 DEF Silent, Fine, Sound, Rec, Same, Fields
  <2> HIDE DEF s
  <2>3. Moves(s, bs[n], H)
    BY <1>0, <2>2, SilentMoves, Zenon
  <2>4. s.ses_state = DOWN => Moves(z, s, H)
    BY <2>3 DEF Moves, Fine, Sound, Rec, Fields, DOWN, UP
  <2>5. Moves(ptm_bfd_sess_dn(s, FALSE), s, H)
    BY <2>3, SessDn, Zenon DEF Moves, Fine, DOWN, UP
  <2>6. Moves(s, s, H)
    BY <2>3, FineMoves, Zenon DEF Moves
  <2> HIDE DEF z
  <2>7. Moves(t, s, H)
    BY <2>4, <2>5, <2>6, Zenon DEF INIT, UP, DOWN
  <2> HIDE DEF t
  <2>8. Moves(t, bs[n], H)
    BY <2>3, <2>7, MovesTrans, Zenon
  <2> QED BY <2>1, <2>8, MovesInv, Zenon
<1>4. CASE bfd_echo_recvtimer_cb(n)
  <2> DEFINE s == [bs[n] EXCEPT !.echo_recv = Off]
             t == IF s.ses_state \in {INIT, UP} THEN ptm_bfd_sess_dn(s, FALSE) ELSE s
  <2>1. bs' = Becomes(n, t) /\ UNCHANGED <<heard, ndiscr>>
    BY <1>4, Zenon DEF bfd_echo_recvtimer_cb, Handle
  <2>2. Silent(s, bs[n], H)
    BY <1>0, Zenon DEF Silent, Fine, Sound, Rec, Same, Fields
  <2> HIDE DEF s
  <2>3. Moves(s, bs[n], H)
    BY <1>0, <2>2, SilentMoves, Zenon
  <2>4. Moves(ptm_bfd_sess_dn(s, FALSE), s, H)
    BY <2>3, SessDn, Zenon DEF Moves, Fine, DOWN, UP
  <2>5. Moves(t, bs[n], H)
    BY <2>3, <2>4, MovesTrans, Zenon
  <2> HIDE DEF t
  <2> QED BY <2>1, <2>5, MovesInv, Zenon
<1> QED BY <1>1, <1>2, <1>3, <1>4, Zenon DEF Timers

\* The one step that brings a session Up: the packet was accepted for its
\* discriminator, so its sender had heard it.
LEMMA ReceiveInv ==
  ASSUME HandshakeInv, NEW n \in Nodes, Receive(n)
  PROVE  HandshakeInv'
<1> DEFINE p == Peer(n)
           q == bs[p].txq
<1>0. p \in Nodes /\ p # n /\ (\A m \in Nodes : m = n \/ m = p) /\ Peer(p) = n
  BY PeerFacts, PeerPeer, Zenon
<1>1. PICK i \in DOMAIN q, keep \in BOOLEAN :
        LET rest == SubSeq(q, 1, i - 1) \o SubSeq(q, i + 1, Len(q))
        IN /\ bs' = [Becomes(n, bfd_recv_cb(bs[n], q[i])) EXCEPT
                      ![p].txq = IF keep THEN q ELSE rest]
           /\ heard' = [heard EXCEPT ![n] =
                         IF Accepted(bs[n], q[i]) THEN @ \cup {q[i].my} ELSE @]
           /\ UNCHANGED ndiscr
  BY Zenon DEF Receive
<1> DEFINE cp == q[i]
           G == IF Accepted(bs[n], cp) THEN heard[n] \cup {cp.my} ELSE heard[n]
           r == bfd_recv_cb(bs[n], cp)
           b == Becomes(n, r)
           rest == SubSeq(q, 1, i - 1) \o SubSeq(q, i + 1, Len(q))
           nq == IF keep THEN q ELSE rest
           d == [bs[p] EXCEPT !.txq = nq]
<1>2. bs' = [b EXCEPT ![p].txq = nq] /\ heard' = [heard EXCEPT ![n] = G]
      /\ ndiscr' = ndiscr
  BY <1>1, Zenon
<1>3. SoundQueue(q, heard[p])
  BY <1>0, Zenon DEF HandshakeInv, Fine, Sound
<1>4. SoundPacket(cp, heard[p]) /\ SoundQueue(rest, heard[p])
  BY <1>3, QueueSub, QueueConcat, Zenon
<1>5. SoundQueue(nq, heard[p])
  BY <1>3, <1>4, Zenon
<1>6. Fine(bs[n], heard[n]) /\ heard[n] \subseteq G
  BY Zenon DEF HandshakeInv
<1>7. Accepted(bs[n], cp) => cp.my \in G
  OBVIOUS
<1> HIDE DEF G
<1>8. Fine(bs[n], G)
  BY <1>6, FineGrow, Zenon
<1>9. /\ Fine(r, G) /\ r.my_discr = bs[n].my_discr
      /\ r.ses_state = UP => bs[n].ses_state = UP
                             \/ (Accepted(bs[n], cp) /\ cp.state \in {INIT, UP})
  BY <1>4, <1>7, <1>8, Recv, Zenon DEF SoundPacket
<1>10. r.ses_state = UP => r.my_discr \in heard[p]
  <2>1. bs[n].ses_state = UP => bs[n].my_discr \in heard[p]
    BY Zenon DEF HandshakeInv, Heard
  <2>2. Accepted(bs[n], cp) /\ cp.state \in {INIT, UP} => cp.your # 0 /\ cp.your = bs[n].my_discr
    BY Zenon DEF Accepted, INIT, UP, DOWN, ADM_DOWN
  <2> HIDE DEF r, cp
  <2> QED BY <1>4, <1>9, <2>1, <2>2, Zenon DEF SoundPacket
<1> HIDE DEF r, nq, cp, rest
<1>11. /\ Fine(b[n], G) /\ b[n].ses_state = r.ses_state /\ b[n].my_discr = r.my_discr
       /\ \A m \in Nodes : m # n => b[m] = bs[m]
       /\ b = [m \in Nodes |-> b[m]]
  BY <1>6, <1>9, BecomesFine, Zenon
<1> HIDE DEF b
<1>12. bs'[n] = b[n] /\ bs'[p] = d /\ bs' = [m \in Nodes |-> bs'[m]]
  BY <1>0, <1>2, <1>11, Zenon
<1>13. heard'[n] = G /\ heard'[p] = heard[p] /\ heard' = [m \in Nodes |-> heard'[m]]
  BY <1>0, <1>2, Zenon DEF HandshakeInv
<1>14. Fine(bs[p], heard[p]) /\ (bs[p].ses_state = UP => bs[p].my_discr \in heard[n])
  BY <1>0, Zenon DEF HandshakeInv, Heard
<1>15. Fine(d, heard[p]) /\ d.ses_state = bs[p].ses_state /\ d.my_discr = bs[p].my_discr
  BY <1>5, <1>14, Zenon DEF Fine, Sound, Rec, Fields
<1> HIDE DEF d
<1>16. Fine(bs'[n], heard'[n]) /\ Heard(n)'
  BY <1>10, <1>11, <1>12, <1>13, Zenon DEF Heard
<1>17. Fine(bs'[p], heard'[p]) /\ Heard(p)'
  BY <1>0, <1>6, <1>12, <1>13, <1>14, <1>15, Zenon DEF Heard
<1> QED BY <1>0, <1>2, <1>12, <1>13, <1>16, <1>17, Zenon DEF HandshakeInv

LEMMA EchoLossInv ==
  ASSUME HandshakeInv, NEW n \in Nodes, ReceiveEcho(n) \/ Lose(n)
  PROVE  HandshakeInv'
<1> DEFINE H == heard[n]
<1>0. Fine(bs[n], H) /\ DOMAIN bs = Nodes
  BY Zenon DEF HandshakeInv
<1>1. CASE ReceiveEcho(n)
  <2>1. PICK more \in BOOLEAN :
          Handle(n, ptm_bfd_process_echo_pkt([bs[n] EXCEPT !.echoes = more]))
    BY <1>1, Zenon DEF ReceiveEcho
  <2> DEFINE s == [bs[n] EXCEPT !.echoes = more]
             t == ptm_bfd_process_echo_pkt(s)
  <2>2. bs' = Becomes(n, t) /\ UNCHANGED <<heard, ndiscr>>
    BY <2>1, Zenon DEF Handle
  <2>3. Silent(s, bs[n], H)
    BY <1>0, Zenon DEF Silent, Fine, Sound, Rec, Same, Fields
  <2> HIDE DEF s
  <2>4. Silent(t, s, H)
    BY <2>3, EchoSilent, Zenon DEF Silent
  <2> HIDE DEF t
  <2>5. Moves(t, bs[n], H)
    BY <1>0, <2>3, <2>4, SilentTrans, SilentMoves, Zenon
  <2> QED BY <2>2, <2>5, MovesInv, Zenon
<1>2. CASE Lose(n)
  <2> DEFINE q == Tail(bs[n].txq)
             c == [bs[n] EXCEPT !.txq = q]
             e == [bs[n] EXCEPT !.echoes = FALSE]
  <2>1. \/ bs[n].txq # << >> /\ bs' = [bs EXCEPT ![n] = c]
        \/ bs' = [bs EXCEPT ![n] = e]
    BY <1>2, Zenon DEF Lose
  <2>2. heard' = heard /\ ndiscr' = ndiscr
    BY <1>2, Zenon DEF Lose
  <2>3. bs[n].txq # << >> => SoundQueue(q, H)
    BY <1>0, QueueTail, Zenon DEF Fine, Sound
  <2> HIDE DEF q
  <2>4. bs[n].txq # << >> => Fine(c, H) /\ Same(c, bs[n])
    BY <1>0, <2>3, ZenonT(60) DEF Fine, Sound, Rec, Same, Fields
  <2>5. Fine(e, H) /\ Same(e, bs[n])
    BY <1>0, Zenon DEF Fine, Sound, Rec, Same, Fields
  <2> HIDE DEF c, e
  <2>6. Fine(bs'[n], H) /\ Same(bs'[n], bs[n])
        /\ (\A m \in Nodes : m # n => bs'[m] = bs[m]) /\ bs' = [m \in Nodes |-> bs'[m]]
    BY <1>0, <2>1, <2>4, <2>5, Zenon
  <2>7. ASSUME NEW m \in Nodes PROVE Fine(bs'[m], heard'[m]) /\ Heard(m)'
    <3>1. CASE m = n
      BY <2>2, <2>6, <3>1, Zenon DEF HandshakeInv, Heard, Same
    <3>2. CASE m # n
      BY <2>2, <2>6, <3>2, Zenon DEF HandshakeInv, Heard
    <3> QED BY <3>1, <3>2, Zenon
  <2> QED BY <2>2, <2>6, <2>7, Zenon DEF HandshakeInv
<1> QED BY <1>1, <1>2, Zenon

LEMMA OperatorInv ==
  ASSUME HandshakeInv, NEW n \in Nodes, Operator(n)
  PROVE  HandshakeInv'
<1> DEFINE H == heard[n]
<1>0. Fine(bs[n], H) /\ ndiscr \in Nat
  BY Zenon DEF HandshakeInv
<1>1. CASE Apply(n)
  <2>1. PICK c \in Configs : bs' = Becomes(n, bfd_session_apply(bs[n], c))
    BY <1>1, Zenon DEF Apply
  <2>2. UNCHANGED <<heard, ndiscr>>
    BY <1>1, Zenon DEF Apply
  <2>3. Moves(bfd_session_apply(bs[n], c), bs[n], H)
    BY <1>0, SessionApply, Zenon
  <2> QED BY <2>1, <2>2, <2>3, MovesInv, Zenon
<1>2. CASE Disable(n)
  <2>1. bs' = Becomes(n, bfd_session_disable(bs[n])) /\ UNCHANGED <<heard, ndiscr>>
    BY <1>2, Zenon DEF Disable
  <2>2. Moves(bfd_session_disable(bs[n]), bs[n], H)
    BY <1>0, SessionDisable, Zenon
  <2> QED BY <2>1, <2>2, MovesInv, Zenon
<1>3. CASE Enable(n)
  <2>1. bs' = Becomes(n, bfd_session_enable(bs[n])) /\ UNCHANGED <<heard, ndiscr>>
    BY <1>3, Zenon DEF Enable, Handle
  <2>2. Moves(bfd_session_enable(bs[n]), bs[n], H)
    BY <1>0, SessionEnable, Zenon
  <2> QED BY <2>1, <2>2, MovesInv, Zenon
<1>4. CASE Restart(n)
  <2> DEFINE c == [tx |-> bs[n].tx, rx |-> bs[n].rx,
                mult |-> bs[n].mult, echo |-> bs[n].echo, echo_rx |-> bs[n].echo_rx,
                demand |-> bs[n].demand, passive |-> bs[n].passive,
                shutdown |-> bs[n].shutdown]
             s == bs_registrate(ndiscr', c)
             q == bs[n].txq \o s.txq
             t == [s EXCEPT !.txq = q]
  <2>1. bs' = Becomes(n, t) /\ heard' = heard /\ ndiscr' = ndiscr + 1
    BY <1>4, Zenon DEF Restart
  <2>2. ndiscr' \in Nat /\ ndiscr' # 0
    BY <1>0, <2>1
  <2> HIDE DEF c
  <2>3. Fine(s, H) /\ s.ses_state # UP
    BY <2>2, Registrate, Zenon
  <2> HIDE DEF s
  <2>4. SoundQueue(q, H)
    BY <1>0, <2>3, QueueConcat, Zenon DEF Fine, Sound
  <2> HIDE DEF q
  <2>5. Fine(t, H) /\ t.ses_state # UP
    BY <2>3, <2>4, Zenon DEF Fine, Sound, Rec, Fields
  <2> HIDE DEF t
  <2> QED BY <2>1, <2>2, <2>5, StepInv, Zenon
<1> QED BY <1>1, <1>2, <1>3, <1>4, Zenon DEF Operator

LEMMA TickInv ==
  ASSUME HandshakeInv, Tick
  PROVE  HandshakeInv'
<1> DEFINE Left(t) == IF t = Off THEN Off ELSE t - 1
           s(n) == [bs[n] EXCEPT !.recv = Left(@), !.xmt = Left(@),
                                 !.echo_recv = Left(@), !.echo_xmt = Left(@)]
<1>1. bs' = [n \in Nodes |-> s(n)] /\ heard' = heard /\ ndiscr' = ndiscr
  BY Zenon DEF Tick
<1>2. ASSUME NEW n \in Nodes PROVE Fine(s(n), heard[n]) /\ Same(s(n), bs[n])
  <2>1. Fine(bs[n], heard[n])
    BY Zenon DEF HandshakeInv
  <2> HIDE DEF Left
  <2> QED BY <2>1, ZenonT(60) DEF Fine, Sound, Rec, Same, Fields
<1> HIDE DEF s
<1>3. ASSUME NEW n \in Nodes PROVE Fine(bs'[n], heard'[n]) /\ Heard(n)'
  BY <1>1, <1>2, Zenon DEF HandshakeInv, Heard, Same
<1> QED BY <1>1, <1>3, Zenon DEF HandshakeInv

LEMMA InitInv ==
  ASSUME Init
  PROVE  HandshakeInv
<1>1. PICK first \in Nodes :
        bs = [n \in Nodes |-> bs_registrate(IF n = first THEN 1 ELSE 2, Initial[n])]
  BY Zenon DEF Init
<1>2. heard = [n \in Nodes |-> {}] /\ ndiscr = 2
  BY Zenon DEF Init
<1>3. ASSUME NEW n \in Nodes PROVE Fine(bs[n], heard[n]) /\ Heard(n)
  <2> DEFINE d == IF n = first THEN 1 ELSE 2
  <2>1. d # 0 /\ bs[n] = bs_registrate(d, Initial[n])
    BY <1>1
  <2> HIDE DEF d
  <2>2. Fine(bs[n], heard[n]) /\ bs[n].ses_state # UP
    BY <2>1, Registrate
  <2> QED BY <2>2, Zenon DEF Heard
<1> QED BY <1>1, <1>2, <1>3, Zenon DEF HandshakeInv

LEMMA NextInv ==
  ASSUME HandshakeInv, [Next]_vars
  PROVE  HandshakeInv'
<1>1. CASE Tick
  BY <1>1, TickInv, Zenon
<1>2. ASSUME NEW n \in Nodes, Timers(n) \/ Network(n) \/ Operator(n) PROVE HandshakeInv'
  <2>1. CASE Timers(n)
    BY <2>1, TimersInv, Zenon
  <2>2. CASE Network(n)
    BY <2>2, ReceiveInv, EchoLossInv, Zenon DEF Network
  <2>3. CASE Operator(n)
    BY <2>3, OperatorInv, Zenon
  <2> QED BY <1>2, <2>1, <2>2, <2>3, Zenon
<1>3. CASE UNCHANGED vars
  BY <1>3, Zenon DEF vars, HandshakeInv, Heard
<1> QED BY <1>1, <1>2, <1>3, Zenon DEF Next

LEMMA HandshakeInvariant == Spec => []HandshakeInv
  BY InitInv, NextInv, PTL DEF Spec

\* No session is Up unless it knows its peer and the peer has accepted a packet
\* of this incarnation of it, whatever bs_state_handler, the network, restarts,
\* interface events and configuration changes do, for all constants.
THEOREM BfdTwoWay == Spec => []TwoWay
<1>1. HandshakeInv => TwoWay
  BY Zenon DEF HandshakeInv, Heard, Fine, TwoWay
<1> QED BY <1>1, HandshakeInvariant, PTL

\* The clients of bfdd were last told Up (ptm_bfd_notify) exactly when the
\* session is Up, after every handler and for all constants.
THEOREM BfdClientView == Spec => []ClientView
<1>1. HandshakeInv => ClientView
  BY Zenon DEF HandshakeInv, Fine, ClientView
<1> QED BY <1>1, HandshakeInvariant, PTL

-----------------------------------------------------------------------------
(* Sessions as functions on the names of their fields. *)

Flags == {"polling", "remote_demand", "demand", "passive", "shutdown", "echo",
          "echo_active", "sock", "echoes"}
Numbers == {"remote_discr", "tx", "rx", "mult", "echo_rx", "cur_rx", "xmt_TO",
            "detect_TO", "echo_xmt_TO", "remote_tx", "remote_rx", "remote_mult",
            "remote_echo"}
Clocks == {"recv", "xmt", "echo_recv", "echo_xmt"}
Words == {"ses_state", "remote_ses_state", "note"}
FieldNames == Flags \cup Numbers \cup Clocks \cup Words \cup {"my_discr", "txq"}

\* A packet, when N discriminators have been given out.
Packets(N) ==
  {p \in [state: States, d: BOOLEAN, f: BOOLEAN, p: BOOLEAN, my: 1..N,
          your: Nat, mult: Nat, tx: Nat, rx: Nat, echo: Nat] : ~(p.p /\ p.f)}

TypeOf(f, N) ==
  IF f \in Flags THEN BOOLEAN ELSE IF f \in Numbers THEN Nat
  ELSE IF f \in Clocks THEN Int ELSE IF f \in Words THEN States
  ELSE IF f = "my_discr" THEN 1..N ELSE Seq(Packets(N))

Typed(s, N) ==
  /\ DOMAIN s = FieldNames /\ s = [f \in FieldNames |-> s[f]]
  /\ \A f \in FieldNames : s[f] \in TypeOf(f, N)

LEMMA Names ==
  /\ "polling" \in FieldNames /\ "remote_demand" \in FieldNames /\ "demand" \in FieldNames
  /\ "passive" \in FieldNames /\ "shutdown" \in FieldNames /\ "echo" \in FieldNames
  /\ "echo_active" \in FieldNames /\ "sock" \in FieldNames /\ "echoes" \in FieldNames
  /\ "remote_discr" \in FieldNames /\ "tx" \in FieldNames /\ "rx" \in FieldNames
  /\ "mult" \in FieldNames /\ "echo_rx" \in FieldNames /\ "cur_rx" \in FieldNames
  /\ "xmt_TO" \in FieldNames /\ "detect_TO" \in FieldNames /\ "echo_xmt_TO" \in FieldNames
  /\ "remote_tx" \in FieldNames /\ "remote_rx" \in FieldNames /\ "remote_mult" \in FieldNames
  /\ "remote_echo" \in FieldNames /\ "recv" \in FieldNames /\ "xmt" \in FieldNames
  /\ "echo_recv" \in FieldNames /\ "echo_xmt" \in FieldNames /\ "ses_state" \in FieldNames
  /\ "remote_ses_state" \in FieldNames /\ "note" \in FieldNames /\ "my_discr" \in FieldNames
  /\ "txq" \in FieldNames
  BY Zenon DEF FieldNames, Flags, Numbers, Clocks, Words

LEMMA FlagTypes ==
  ASSUME NEW N
  PROVE  /\ TypeOf("polling", N) = BOOLEAN /\ TypeOf("remote_demand", N) = BOOLEAN
         /\ TypeOf("demand", N) = BOOLEAN /\ TypeOf("passive", N) = BOOLEAN
         /\ TypeOf("shutdown", N) = BOOLEAN /\ TypeOf("echo", N) = BOOLEAN
         /\ TypeOf("echo_active", N) = BOOLEAN /\ TypeOf("sock", N) = BOOLEAN
         /\ TypeOf("echoes", N) = BOOLEAN
<1>1. \A f \in Flags : TypeOf(f, N) = BOOLEAN
  BY Zenon DEF TypeOf
<1> QED  BY <1>1, Zenon DEF Flags

LEMMA NumberTypes ==
  ASSUME NEW N
  PROVE  /\ TypeOf("remote_discr", N) = Nat /\ TypeOf("tx", N) = Nat
         /\ TypeOf("rx", N) = Nat /\ TypeOf("mult", N) = Nat
         /\ TypeOf("echo_rx", N) = Nat /\ TypeOf("cur_rx", N) = Nat
         /\ TypeOf("xmt_TO", N) = Nat /\ TypeOf("detect_TO", N) = Nat
         /\ TypeOf("echo_xmt_TO", N) = Nat /\ TypeOf("remote_tx", N) = Nat
         /\ TypeOf("remote_rx", N) = Nat /\ TypeOf("remote_mult", N) = Nat
         /\ TypeOf("remote_echo", N) = Nat
<1>1. \A f \in Numbers : TypeOf(f, N) = Nat
  BY Zenon DEF TypeOf, Flags, Numbers
<1> QED  BY <1>1, Zenon DEF Numbers

LEMMA OtherTypes ==
  ASSUME NEW N
  PROVE  /\ TypeOf("recv", N) = Int /\ TypeOf("xmt", N) = Int
         /\ TypeOf("echo_recv", N) = Int /\ TypeOf("echo_xmt", N) = Int
         /\ TypeOf("ses_state", N) = States /\ TypeOf("remote_ses_state", N) = States
         /\ TypeOf("note", N) = States /\ TypeOf("my_discr", N) = 1..N
         /\ TypeOf("txq", N) = Seq(Packets(N))
<1>1. \A f \in Clocks : TypeOf(f, N) = Int
  BY Zenon DEF TypeOf, Flags, Numbers, Clocks
<1>2. \A f \in Words : TypeOf(f, N) = States
  BY Zenon DEF TypeOf, Flags, Numbers, Clocks, Words
<1>3. TypeOf("my_discr", N) = 1..N /\ TypeOf("txq", N) = Seq(Packets(N))
  BY Zenon DEF TypeOf, Flags, Numbers, Clocks, Words
<1> QED  BY <1>1, <1>2, <1>3, Zenon DEF Clocks, Words

\* The types of a session's fields, one by one.
LEMMA FieldTypes ==
  ASSUME NEW N, NEW s, Typed(s, N)
  PROVE  /\ s.polling \in BOOLEAN /\ s.remote_demand \in BOOLEAN /\ s.demand \in BOOLEAN
         /\ s.passive \in BOOLEAN /\ s.shutdown \in BOOLEAN /\ s.echo \in BOOLEAN
         /\ s.echo_active \in BOOLEAN /\ s.sock \in BOOLEAN /\ s.echoes \in BOOLEAN
         /\ s.remote_discr \in Nat /\ s.tx \in Nat /\ s.rx \in Nat /\ s.mult \in Nat
         /\ s.echo_rx \in Nat /\ s.cur_rx \in Nat /\ s.xmt_TO \in Nat
         /\ s.detect_TO \in Nat /\ s.echo_xmt_TO \in Nat /\ s.remote_tx \in Nat
         /\ s.remote_rx \in Nat /\ s.remote_mult \in Nat /\ s.remote_echo \in Nat
         /\ s.recv \in Int /\ s.xmt \in Int /\ s.echo_recv \in Int /\ s.echo_xmt \in Int
         /\ s.ses_state \in States /\ s.remote_ses_state \in States /\ s.note \in States
         /\ s.my_discr \in 1..N /\ s.txq \in Seq(Packets(N))
<1>0. \A f \in FieldNames : s[f] \in TypeOf(f, N)
  BY Zenon DEF Typed
<1>1. /\ s.polling \in BOOLEAN /\ s.remote_demand \in BOOLEAN /\ s.demand \in BOOLEAN
      /\ s.passive \in BOOLEAN /\ s.shutdown \in BOOLEAN /\ s.echo \in BOOLEAN
      /\ s.echo_active \in BOOLEAN /\ s.sock \in BOOLEAN /\ s.echoes \in BOOLEAN
  BY <1>0, Names, FlagTypes, Zenon
<1>2. /\ s.remote_discr \in Nat /\ s.tx \in Nat /\ s.rx \in Nat /\ s.mult \in Nat
      /\ s.echo_rx \in Nat /\ s.cur_rx \in Nat /\ s.xmt_TO \in Nat
      /\ s.detect_TO \in Nat /\ s.echo_xmt_TO \in Nat /\ s.remote_tx \in Nat
      /\ s.remote_rx \in Nat /\ s.remote_mult \in Nat /\ s.remote_echo \in Nat
  BY <1>0, Names, NumberTypes
<1>3. /\ s.recv \in Int /\ s.xmt \in Int /\ s.echo_recv \in Int /\ s.echo_xmt \in Int
      /\ s.ses_state \in States /\ s.remote_ses_state \in States /\ s.note \in States
      /\ s.my_discr \in 1..N /\ s.txq \in Seq(Packets(N))
  BY <1>0, Names, OtherTypes, Zenon
<1> QED  BY <1>1, <1>2, <1>3, Zenon

LEMMA SessionTyped ==
  ASSUME NEW N \in Nat, NEW s, Typed(s, N)
  PROVE  s \in Session /\ \A i \in DOMAIN s.txq : ~(s.txq[i].p /\ s.txq[i].f)
<1> DEFINE P == [state: States, d: BOOLEAN, f: BOOLEAN, p: BOOLEAN,
                 my: Nat, your: Nat, mult: Nat, tx: Nat, rx: Nat, echo: Nat]
<1>1. \A p \in Packets(N) : p \in P /\ ~(p.p /\ p.f)
  BY DEF Packets
<1> HIDE DEF P
<1>2. s.txq \in Seq(Packets(N))
  BY FieldTypes, Zenon
<1>3. s.txq \in Seq(P) /\ \A i \in DOMAIN s.txq : ~(s.txq[i].p /\ s.txq[i].f)
  BY <1>1, <1>2
<1>4. s.my_discr \in Nat \ {0}
  BY FieldTypes
<1>5. DOMAIN s = FieldNames /\ s = [f \in FieldNames |-> s[f]]
  BY Zenon DEF Typed
<1>6. s \in Session
  BY <1>3, <1>4, <1>5, FieldTypes, SMTT(30)
     DEF Session, P, Ticks, FieldNames, Flags, Numbers, Clocks, Words
<1> QED  BY <1>3, <1>6, Zenon

-----------------------------------------------------------------------------
(* The promises. *)

\* The interface is there, and a session that is shut is out of the game.
Ready(s) == s.sock /\ (s.shutdown => s.ses_state = ADM_DOWN)

\* DetectionArmed for one session.
Armed(s) ==
  /\ Ready(s)
  /\ s.ses_state \in {INIT, UP} /\ ~(s.demand /\ BothUp(s) /\ ~s.polling) => s.recv # Off

\* A session that is not shut, and whose echo timers are off unless echo is active.
Muted(s) ==
  /\ ~s.shutdown
  /\ ~s.echo_active => s.echo_xmt = Off /\ s.echo_recv = Off

\* EchoRuns for one session, with what keeps it so: echo is active only while the
\* session is Up, on an interface that is there, with an interval.
Echoing(s) ==
  /\ Muted(s)
  /\ s.echo_active => /\ s.ses_state = UP /\ s.sock /\ s.echo_xmt_TO > 0
                      /\ s.echo_xmt # Off /\ s.echo_recv # Off

\* t is typed, and keeps what s promises.
Keeps(t, s, N) ==
  /\ Typed(t, N)
  /\ Ready(s) => Ready(t)
  /\ Armed(s) => Armed(t)
  /\ Echoing(s) => Echoing(t)

\* t differs from s only in fields no promise is about.
Calm(t, s, N) ==
  /\ Typed(t, N)
  /\ t.ses_state = s.ses_state /\ t.remote_ses_state = s.remote_ses_state
  /\ t.shutdown = s.shutdown /\ t.sock = s.sock /\ t.demand = s.demand
  /\ t.polling = s.polling /\ t.recv = s.recv /\ t.echo_active = s.echo_active
  /\ t.echo_xmt = s.echo_xmt /\ t.echo_recv = s.echo_recv
  /\ t.echo_xmt_TO = s.echo_xmt_TO

LEMMA CalmKeeps ==
  ASSUME NEW N, NEW s, NEW t, Calm(t, s, N)
  PROVE  Keeps(t, s, N) /\ (Muted(s) => Muted(t))
  BY Zenon DEF Calm, Keeps, Ready, Armed, Echoing, Muted, BothUp

LEMMA CalmTrans ==
  ASSUME NEW N, NEW s, NEW t, NEW u, Calm(t, s, N), Calm(u, t, N)
  PROVE  Calm(u, s, N)
  BY Zenon DEF Calm

LEMMA CalmTyped ==
  ASSUME NEW N, NEW s, NEW t, Calm(t, s, N)
  PROVE  Typed(t, N)
  BY Zenon DEF Calm

LEMMA KeepsTrans ==
  ASSUME NEW N, NEW s, NEW t, NEW u, Keeps(t, s, N), Keeps(u, t, N)
  PROVE  Keeps(u, s, N)
  BY Zenon DEF Keeps

LEMMA KeepsSelf ==
  ASSUME NEW N, NEW s, Typed(s, N)
  PROVE  Calm(s, s, N) /\ Keeps(s, s, N)
  BY Zenon DEF Calm, Keeps

-----------------------------------------------------------------------------
(* Timers and packets. *)

LEMMA Product ==
  ASSUME NEW a \in Nat, NEW b \in Nat
  PROVE  a * b \in Nat
  OBVIOUS

LEMMA MaxNat ==
  ASSUME NEW a \in Nat, NEW b \in Nat
  PROVE  Max(a, b) \in Nat /\ Max(a, b) >= a /\ Max(a, b) >= b
  BY DEF Max

LEMMA SlowTxNat == SlowTx \in Nat /\ BFD_DEFDETECTMULT * SlowTx \in Nat
<1>1. SlowTx \in Nat
  BY BfdAssumption, Zenon
<1> QED  BY <1>1 DEF BFD_DEFDETECTMULT

LEMMA TimerFacts ==
  ASSUME NEW s, s.shutdown \in BOOLEAN, s.sock \in BOOLEAN, NEW t \in Nat
  PROVE  /\ Timer(s, t) \in Int
         /\ ~s.shutdown /\ s.sock => Timer(s, t) # Off
         /\ s.shutdown \/ ~s.sock => Timer(s, t) = Off
  BY DEF Timer, Arm, Off

\* One field gets a value of its type.
LEMMA PutTyped ==
  ASSUME NEW N, NEW s, Typed(s, N), NEW f \in FieldNames, NEW v \in TypeOf(f, N)
  PROVE  Typed([s EXCEPT ![f] = v], N)
<1> DEFINE t == [s EXCEPT ![f] = v]
<1>1. DOMAIN s = FieldNames
  BY Zenon DEF Typed
<1>2. DOMAIN t = FieldNames /\ t = [g \in FieldNames |-> t[g]]
  BY <1>1, Zenon
<1>3. \A g \in FieldNames : t[g] \in TypeOf(g, N)
  BY <1>1, Zenon DEF Typed
<1> QED  BY <1>2, <1>3, Zenon DEF Typed

LEMMA RecvTimer ==
  ASSUME NEW N, NEW s, Typed(s, N)
  PROVE  LET t == bfd_recvtimer_update(s)
         IN  /\ Keeps(t, s, N)
             /\ Ready(s) => Armed(t)
<1> DEFINE v == Timer(s, s.detect_TO)
           t == [s EXCEPT !.recv = v]
<1>0. bfd_recvtimer_update(s) = t
  BY Zenon DEF bfd_recvtimer_update
<1>1. v \in Int /\ (~s.shutdown /\ s.sock => v # Off)
  BY TimerFacts, FieldTypes
<1> HIDE DEF v
<1>2. Typed(t, N)
  BY <1>1, PutTyped, Names, OtherTypes
<1>3. /\ t.ses_state = s.ses_state /\ t.remote_ses_state = s.remote_ses_state
      /\ t.shutdown = s.shutdown /\ t.sock = s.sock /\ t.demand = s.demand
      /\ t.polling = s.polling /\ t.recv = v /\ t.echo_active = s.echo_active
      /\ t.echo_xmt = s.echo_xmt /\ t.echo_recv = s.echo_recv
      /\ t.echo_xmt_TO = s.echo_xmt_TO
  BY Names, Zenon DEF Typed
<1> HIDE DEF t
<1>4. Ready(s) => Armed(t)
  BY <1>1, <1>3, Zenon DEF Ready, Armed, ADM_DOWN, INIT, UP
<1>5. Keeps(t, s, N)
  BY <1>2, <1>3, <1>4, Zenon DEF Keeps, Ready, Armed, Echoing, Muted, BothUp
<1> QED  BY <1>0, <1>4, <1>5, Zenon

\* The updates that are calm, for any value of the right type.
LEMMA CalmPut ==
  ASSUME NEW N, NEW s, Typed(s, N), NEW v
  PROVE  /\ v \in Int => Calm([s EXCEPT !.xmt = v], s, N)
         /\ v \in Nat => Calm([s EXCEPT !.cur_rx = v], s, N)
         /\ v \in Nat => Calm([s EXCEPT !.xmt_TO = v], s, N)
         /\ v \in Nat => Calm([s EXCEPT !.detect_TO = v], s, N)
         /\ v \in Nat => Calm([s EXCEPT !.remote_discr = v], s, N)
         /\ v \in States => Calm([s EXCEPT !.note = v], s, N)
         /\ v \in BOOLEAN => Calm([s EXCEPT !.echoes = v], s, N)
         /\ v \in BOOLEAN => Calm([s EXCEPT !.passive = v], s, N)
         /\ v \in BOOLEAN => Calm([s EXCEPT !.echo = v], s, N)
         /\ v \in Seq(Packets(N)) => Calm([s EXCEPT !.txq = v], s, N)
<1> USE DEF Calm
<1>0. DOMAIN s = FieldNames
  BY Zenon DEF Typed
<1>1. v \in Int => Calm([s EXCEPT !.xmt = v], s, N)
  BY <1>0, PutTyped, Names, OtherTypes
<1>2. v \in Nat => Calm([s EXCEPT !.cur_rx = v], s, N)
  BY <1>0, PutTyped, Names, NumberTypes
<1>3. v \in Nat => Calm([s EXCEPT !.xmt_TO = v], s, N)
  BY <1>0, PutTyped, Names, NumberTypes
<1>4. v \in Nat => Calm([s EXCEPT !.detect_TO = v], s, N)
  BY <1>0, PutTyped, Names, NumberTypes
<1>5. v \in Nat => Calm([s EXCEPT !.remote_discr = v], s, N)
  BY <1>0, PutTyped, Names, NumberTypes
<1>6. v \in States => Calm([s EXCEPT !.note = v], s, N)
  BY <1>0, PutTyped, Names, OtherTypes
<1>7. v \in BOOLEAN => Calm([s EXCEPT !.echoes = v], s, N)
  BY <1>0, PutTyped, Names, FlagTypes, Zenon
<1>8. v \in BOOLEAN => Calm([s EXCEPT !.passive = v], s, N)
  BY <1>0, PutTyped, Names, FlagTypes, Zenon
<1>9. v \in BOOLEAN => Calm([s EXCEPT !.echo = v], s, N)
  BY <1>0, PutTyped, Names, FlagTypes, Zenon
<1>10. v \in Seq(Packets(N)) => Calm([s EXCEPT !.txq = v], s, N)
  BY <1>0, PutTyped, Names, OtherTypes, Zenon
<1> HIDE DEF Calm
<1> QED  BY <1>1, <1>2, <1>3, <1>4, <1>5, <1>6, <1>7, <1>8, <1>9, <1>10, Zenon

\* So are the updates of what is configured and of what the peer says.
LEMMA CalmConf ==
  ASSUME NEW N, NEW s, Typed(s, N), NEW v
  PROVE  /\ v \in Nat => Calm([s EXCEPT !.mult = v], s, N)
         /\ v \in Nat => Calm([s EXCEPT !.tx = v], s, N)
         /\ v \in Nat => Calm([s EXCEPT !.rx = v], s, N)
         /\ v \in Nat => Calm([s EXCEPT !.echo_rx = v], s, N)
         /\ v \in Nat => Calm([s EXCEPT !.remote_tx = v], s, N)
         /\ v \in Nat => Calm([s EXCEPT !.remote_rx = v], s, N)
         /\ v \in Nat => Calm([s EXCEPT !.remote_mult = v], s, N)
         /\ v \in Nat => Calm([s EXCEPT !.remote_echo = v], s, N)
         /\ v \in BOOLEAN => Calm([s EXCEPT !.remote_demand = v], s, N)
<1> USE DEF Calm
<1>0. DOMAIN s = FieldNames
  BY Zenon DEF Typed
<1>1. v \in Nat => Calm([s EXCEPT !.mult = v], s, N)
  BY <1>0, PutTyped, Names, NumberTypes
<1>2. v \in Nat => Calm([s EXCEPT !.tx = v], s, N)
  BY <1>0, PutTyped, Names, NumberTypes
<1>3. v \in Nat => Calm([s EXCEPT !.rx = v], s, N)
  BY <1>0, PutTyped, Names, NumberTypes
<1>4. v \in Nat => Calm([s EXCEPT !.echo_rx = v], s, N)
  BY <1>0, PutTyped, Names, NumberTypes
<1>5. v \in Nat => Calm([s EXCEPT !.remote_tx = v], s, N)
  BY <1>0, PutTyped, Names, NumberTypes
<1>6. v \in Nat => Calm([s EXCEPT !.remote_rx = v], s, N)
  BY <1>0, PutTyped, Names, NumberTypes
<1>7. v \in Nat => Calm([s EXCEPT !.remote_mult = v], s, N)
  BY <1>0, PutTyped, Names, NumberTypes
<1>8. v \in Nat => Calm([s EXCEPT !.remote_echo = v], s, N)
  BY <1>0, PutTyped, Names, NumberTypes
<1>9. v \in BOOLEAN => Calm([s EXCEPT !.remote_demand = v], s, N)
  BY <1>0, PutTyped, Names, FlagTypes, Zenon
<1> HIDE DEF Calm
<1> QED  BY <1>1, <1>2, <1>3, <1>4, <1>5, <1>6, <1>7, <1>8, <1>9, Zenon

\* The updates that are not calm are typed.
LEMMA PutField ==
  ASSUME NEW N, NEW s, Typed(s, N), NEW v
  PROVE  /\ v \in States => Typed([s EXCEPT !.ses_state = v], N)
         /\ v \in States => Typed([s EXCEPT !.remote_ses_state = v], N)
         /\ v \in BOOLEAN => Typed([s EXCEPT !.polling = v], N)
         /\ v \in BOOLEAN => Typed([s EXCEPT !.demand = v], N)
         /\ v \in BOOLEAN => Typed([s EXCEPT !.shutdown = v], N)
         /\ v \in BOOLEAN => Typed([s EXCEPT !.sock = v], N)
         /\ v \in Int => Typed([s EXCEPT !.recv = v], N)
<1>0. DOMAIN s = FieldNames
  BY Zenon DEF Typed
<1>1. v \in States => Typed([s EXCEPT !.ses_state = v], N)
  BY <1>0, PutTyped, Names, OtherTypes
<1>2. v \in States => Typed([s EXCEPT !.remote_ses_state = v], N)
  BY <1>0, PutTyped, Names, OtherTypes
<1>3. v \in BOOLEAN => Typed([s EXCEPT !.polling = v], N)
  BY <1>0, PutTyped, Names, FlagTypes, Zenon
<1>4. v \in BOOLEAN => Typed([s EXCEPT !.demand = v], N)
  BY <1>0, PutTyped, Names, FlagTypes, Zenon
<1>5. v \in BOOLEAN => Typed([s EXCEPT !.shutdown = v], N)
  BY <1>0, PutTyped, Names, FlagTypes, Zenon
<1>6. v \in BOOLEAN => Typed([s EXCEPT !.sock = v], N)
  BY <1>0, PutTyped, Names, FlagTypes, Zenon
<1>7. v \in Int => Typed([s EXCEPT !.recv = v], N)
  BY <1>0, PutTyped, Names, OtherTypes
<1> QED  BY <1>1, <1>2, <1>3, <1>4, <1>5, <1>6, <1>7, Zenon

LEMMA XmtTimer ==
  ASSUME NEW N, NEW s, Typed(s, N)
  PROVE  Calm(ptm_bfd_start_xmt_timer(s), s, N)
<1>1. Timer(s, s.xmt_TO) \in Int
  BY TimerFacts, FieldTypes
<1> QED  BY <1>1, CalmPut, Zenon DEF ptm_bfd_start_xmt_timer

LEMMA PacketTyped ==
  ASSUME NEW N, NEW s, Typed(s, N), NEW fbit \in BOOLEAN
  PROVE  Packet(s, fbit) \in Packets(N)
<1>1. /\ (IF s.ses_state = UP THEN s.tx ELSE Max(s.tx, SlowTx)) \in Nat
      /\ (IF s.ses_state = UP THEN s.rx ELSE Max(s.rx, SlowTx)) \in Nat
  BY FieldTypes, MaxNat, SlowTxNat, Zenon
<1>2. (s.demand /\ BothUp(s)) \in BOOLEAN /\ (~fbit /\ s.polling) \in BOOLEAN
  BY Zenon
<1> QED  BY <1>1, <1>2, FieldTypes, Zenon DEF Packet, Packets

LEMMA Snd ==
  ASSUME NEW N, NEW s, Typed(s, N), NEW fbit \in BOOLEAN
  PROVE  Calm(ptm_bfd_snd(s, fbit), s, N)
<1> DEFINE q == Append(s.txq, Packet(s, fbit))
<1>1. q \in Seq(Packets(N))
  BY PacketTyped, FieldTypes
<1> HIDE DEF q
<1>2. Calm([s EXCEPT !.txq = q], s, N)
  BY <1>1, CalmPut, Zenon
<1>3. ptm_bfd_snd(s, fbit) \in {s, [s EXCEPT !.txq = q]}
  BY Zenon DEF ptm_bfd_snd, q
<1> QED  BY <1>2, <1>3, KeepsSelf, Zenon

LEMMA Xmt ==
  ASSUME NEW N, NEW s, Typed(s, N)
  PROVE  Calm(ptm_bfd_xmt_TO(s), s, N)
<1> DEFINE t == ptm_bfd_snd(s, FALSE)
<1>1. Calm(t, s, N) /\ Typed(t, N)
  BY Snd, CalmTyped, Zenon
<1>2. ptm_bfd_xmt_TO(s) \in {ptm_bfd_start_xmt_timer(s), ptm_bfd_start_xmt_timer(t)}
  BY Zenon DEF ptm_bfd_xmt_TO
<1> HIDE DEF t
<1>3. Calm(ptm_bfd_start_xmt_timer(t), s, N)
  BY <1>1, XmtTimer, CalmTrans, Zenon
<1>4. Calm(ptm_bfd_start_xmt_timer(s), s, N)
  BY XmtTimer, Zenon
<1> QED  BY <1>2, <1>3, <1>4, Zenon

LEMMA SlowTimers ==
  ASSUME NEW N, NEW s, Typed(s, N)
  PROVE  Calm(bs_set_slow_timers(s), s, N)
<1> DEFINE a == [s EXCEPT !.cur_rx = SlowTx]
           b == [a EXCEPT !.detect_TO = BFD_DEFDETECTMULT * SlowTx]
           c == [b EXCEPT !.xmt_TO = SlowTx]
<1>0. SlowTx \in Nat /\ BFD_DEFDETECTMULT * SlowTx \in Nat
  BY SlowTxNat, Zenon
<1>1. bs_set_slow_timers(s) = c
  BY Zenon DEF bs_set_slow_timers
<1>2. Calm(a, s, N)
  BY <1>0, CalmPut, Zenon
<1> HIDE DEF a
<1>3. Calm(b, a, N)
  BY <1>0, <1>2, CalmPut, CalmTyped, Zenon
<1> HIDE DEF b
<1>4. Calm(c, b, N)
  BY <1>0, <1>3, CalmPut, CalmTyped, Zenon
<1> HIDE DEF c
<1> QED  BY <1>1, <1>2, <1>3, <1>4, CalmTrans, Zenon

LEMMA Final ==
  ASSUME NEW N, NEW s, Typed(s, N)
  PROVE  Calm(bs_final_handler(s), s, N)
<1> DEFINE cur == [s EXCEPT !.cur_rx = s.rx]
           m == Max(s.tx, s.remote_rx)
           new == [cur EXCEPT !.xmt_TO = m]
<1>0. s.rx \in Nat /\ m \in Nat
  BY FieldTypes, MaxNat, Zenon
<1>1. bs_final_handler(s) \in {cur, ptm_bfd_start_xmt_timer(new)}
  BY Zenon DEF bs_final_handler
<1>2. Calm(cur, s, N)
  BY <1>0, CalmPut, Zenon
<1> HIDE DEF cur, m
<1>3. Calm(new, cur, N)
  BY <1>0, <1>2, CalmPut, CalmTyped, Zenon
<1> HIDE DEF new
<1>4. Calm(ptm_bfd_start_xmt_timer(new), new, N)
  BY <1>3, XmtTimer, CalmTyped, Zenon
<1> QED  BY <1>1, <1>2, <1>3, <1>4, CalmTrans, Zenon

-----------------------------------------------------------------------------
(* Echo. *)

\* t differs from s only in the fields of the echo function.
EchoOnly(t, s, N) ==
  /\ Typed(t, N)
  /\ t.ses_state = s.ses_state /\ t.remote_ses_state = s.remote_ses_state
  /\ t.shutdown = s.shutdown /\ t.sock = s.sock /\ t.demand = s.demand
  /\ t.polling = s.polling /\ t.recv = s.recv

LEMMA EchoOnlyKeeps ==
  ASSUME NEW N, NEW s, NEW t, EchoOnly(t, s, N)
  PROVE  (Ready(s) => Ready(t)) /\ (Armed(s) => Armed(t))
  BY Zenon DEF EchoOnly, Ready, Armed, BothUp

LEMMA EchoTrans ==
  ASSUME NEW N, NEW s, NEW t, NEW u, EchoOnly(t, s, N), EchoOnly(u, t, N)
  PROVE  EchoOnly(u, s, N)
  BY Zenon DEF EchoOnly

LEMMA EchoPut ==
  ASSUME NEW N, NEW s, Typed(s, N), NEW v
  PROVE  /\ v \in Int => EchoOnly([s EXCEPT !.echo_recv = v], s, N)
         /\ v \in Int => EchoOnly([s EXCEPT !.echo_xmt = v], s, N)
         /\ v \in Nat => EchoOnly([s EXCEPT !.echo_xmt_TO = v], s, N)
         /\ v \in BOOLEAN => EchoOnly([s EXCEPT !.echo_active = v], s, N)
         /\ v \in BOOLEAN => EchoOnly([s EXCEPT !.echoes = v], s, N)
<1> USE DEF EchoOnly
<1>0. DOMAIN s = FieldNames
  BY Zenon DEF Typed
<1>1. v \in Int => EchoOnly([s EXCEPT !.echo_recv = v], s, N)
  BY <1>0, PutTyped, Names, OtherTypes
<1>2. v \in Int => EchoOnly([s EXCEPT !.echo_xmt = v], s, N)
  BY <1>0, PutTyped, Names, OtherTypes
<1>3. v \in Nat => EchoOnly([s EXCEPT !.echo_xmt_TO = v], s, N)
  BY <1>0, PutTyped, Names, NumberTypes
<1>4. v \in BOOLEAN => EchoOnly([s EXCEPT !.echo_active = v], s, N)
  BY <1>0, PutTyped, Names, FlagTypes, Zenon
<1>5. v \in BOOLEAN => EchoOnly([s EXCEPT !.echoes = v], s, N)
  BY <1>0, PutTyped, Names, FlagTypes, Zenon
<1> HIDE DEF EchoOnly
<1> QED  BY <1>1, <1>2, <1>3, <1>4, <1>5, Zenon

LEMMA EchoTyped ==
  ASSUME NEW N, NEW s, NEW t, EchoOnly(t, s, N)
  PROVE  Typed(t, N)
  BY Zenon DEF EchoOnly

LEMMA EchoStop ==
  ASSUME NEW N, NEW s, Typed(s, N)
  PROVE  LET t == ptm_bfd_echo_stop(s)
         IN  EchoOnly(t, s, N) /\ (~s.shutdown => Echoing(t)) /\ Keeps(t, s, N)
<1> DEFINE a == [s EXCEPT !.echo_xmt_TO = 0]
           b == [a EXCEPT !.echo_active = FALSE]
           c == [b EXCEPT !.echo_xmt = Off]
           t == [c EXCEPT !.echo_recv = Off]
<1>0. ptm_bfd_echo_stop(s) = t
  BY Zenon DEF ptm_bfd_echo_stop
<1>1. Off \in Int /\ 0 \in Nat
  BY DEF Off
<1>2. EchoOnly(a, s, N)
  BY <1>1, EchoPut, Zenon
<1> HIDE DEF a
<1>3. EchoOnly(b, a, N)
  BY <1>2, EchoPut, EchoTyped, Zenon
<1>4. b.echo_active = FALSE
  BY <1>2, EchoTyped, Names, Zenon DEF Typed
<1> HIDE DEF b
<1>5. EchoOnly(c, b, N)
  BY <1>1, <1>3, EchoPut, EchoTyped, Zenon
<1>6. c.echo_active = FALSE /\ c.echo_xmt = Off
  BY <1>3, <1>4, EchoTyped, Names, Zenon DEF Typed
<1> HIDE DEF c
<1>7. EchoOnly(t, c, N)
  BY <1>1, <1>5, EchoPut, EchoTyped, Zenon
<1>8. t.echo_active = FALSE /\ t.echo_xmt = Off /\ t.echo_recv = Off
  BY <1>5, <1>6, EchoTyped, Names, Zenon DEF Typed
<1> HIDE DEF t
<1>9. EchoOnly(t, s, N)
  BY <1>2, <1>3, <1>5, <1>7, EchoTrans, Zenon
<1>10. ~s.shutdown => Echoing(t)
  BY <1>8, <1>9, Zenon DEF EchoOnly, Echoing, Muted
<1>11. Keeps(t, s, N)
  BY <1>9, <1>10, EchoOnlyKeeps, EchoTyped, Zenon DEF Keeps, Echoing, Muted
<1> QED  BY <1>0, <1>9, <1>10, <1>11, Zenon

LEMMA EchoRecvTimer ==
  ASSUME NEW N, NEW s, Typed(s, N)
  PROVE  LET t == bfd_echo_recvtimer_update(s)
         IN  /\ EchoOnly(t, s, N)
             /\ t.echo_active = s.echo_active /\ t.echo_xmt = s.echo_xmt
             /\ t.echo_xmt_TO = s.echo_xmt_TO
             /\ ~s.shutdown /\ s.sock => t.echo_recv # Off
             /\ ~s.sock => t.echo_recv = Off
<1> DEFINE v == Timer(s, s.remote_mult * s.echo_xmt_TO)
           t == [s EXCEPT !.echo_recv = v]
<1>0. bfd_echo_recvtimer_update(s) = t
  BY Zenon DEF bfd_echo_recvtimer_update
<1>1. s.remote_mult * s.echo_xmt_TO \in Nat
  BY FieldTypes, Product, Zenon
<1>2. s.shutdown \in BOOLEAN /\ s.sock \in BOOLEAN
  BY FieldTypes, Zenon
<1>3. /\ v \in Int /\ (~s.shutdown /\ s.sock => v # Off)
      /\ ~s.sock => v = Off
  BY <1>1, <1>2, TimerFacts
<1> HIDE DEF v
<1>4. EchoOnly(t, s, N)
  BY <1>3, EchoPut, Zenon
<1>5. /\ t.echo_active = s.echo_active /\ t.echo_xmt = s.echo_xmt
      /\ t.echo_xmt_TO = s.echo_xmt_TO /\ t.echo_recv = v
  BY Names, Zenon DEF Typed
<1> HIDE DEF t
<1> QED  BY <1>0, <1>3, <1>4, <1>5, Zenon

\* Active echo stays watched when an echo comes back.
LEMMA ProcessEcho ==
  ASSUME NEW N, NEW s, Typed(s, N)
  PROVE  Keeps(ptm_bfd_process_echo_pkt(s), s, N)
<1> DEFINE t == bfd_echo_recvtimer_update(s)
<1>1. ptm_bfd_process_echo_pkt(s) = IF s.echo_active /\ s.echo_xmt_TO > 0 THEN t ELSE s
  BY Zenon DEF ptm_bfd_process_echo_pkt
<1>2. /\ EchoOnly(t, s, N)
      /\ t.echo_active = s.echo_active /\ t.echo_xmt = s.echo_xmt
      /\ t.echo_xmt_TO = s.echo_xmt_TO
      /\ ~s.shutdown /\ s.sock => t.echo_recv # Off
  BY EchoRecvTimer, Zenon
<1> HIDE DEF t
<1>3. s.echo_active => Keeps(t, s, N)
  <2> SUFFICES ASSUME s.echo_active PROVE Keeps(t, s, N)
    OBVIOUS
  <2>1. Echoing(s) => Echoing(t)
    BY <1>2, Zenon DEF Echoing, Muted, EchoOnly
  <2> QED  BY <1>2, <2>1, EchoOnlyKeeps, EchoTyped, Zenon DEF Keeps
<1> QED  BY <1>1, <1>3, KeepsSelf, Zenon

LEMMA EchoXmt ==
  ASSUME NEW N, NEW s, Typed(s, N)
  PROVE  LET t == ptm_bfd_echo_xmt_TO(s)
         IN  /\ EchoOnly(t, s, N)
             /\ t.echo_recv = s.echo_recv /\ t.echo_xmt_TO = s.echo_xmt_TO
             /\ ~s.shutdown /\ s.sock => t.echo_active /\ t.echo_xmt # Off
             /\ ~s.sock => t.echo_active = s.echo_active /\ t.echo_xmt = Off
<1> DEFINE a == [s EXCEPT !.echo_active = TRUE]
           b == [a EXCEPT !.echoes = TRUE]
           z == IF s.sock THEN b ELSE s
           v == Timer(z, z.echo_xmt_TO)
           t == [z EXCEPT !.echo_xmt = v]
<1>0. ptm_bfd_echo_xmt_TO(s) = t
  BY Zenon DEF ptm_bfd_echo_xmt_TO, ptm_bfd_start_echo_xmt_timer
<1>1. EchoOnly(a, s, N)
  BY EchoPut, Zenon
<1>2. a.echo_active = TRUE /\ a.echo_recv = s.echo_recv /\ a.echo_xmt_TO = s.echo_xmt_TO
  BY Names, Zenon DEF Typed
<1> HIDE DEF a
<1>3. EchoOnly(b, a, N)
  BY <1>1, EchoPut, EchoTyped, Zenon
<1>4. b.echo_active = TRUE /\ b.echo_recv = s.echo_recv /\ b.echo_xmt_TO = s.echo_xmt_TO
  BY <1>1, <1>2, EchoTyped, Names, Zenon DEF Typed
<1> HIDE DEF b
<1>5. EchoOnly(s, s, N) /\ EchoOnly(b, s, N)
  BY <1>1, <1>3, EchoTrans, Zenon DEF EchoOnly
<1>6. /\ EchoOnly(z, s, N)
      /\ z.echo_recv = s.echo_recv /\ z.echo_xmt_TO = s.echo_xmt_TO
      /\ z.echo_active = IF s.sock THEN TRUE ELSE s.echo_active
  BY <1>4, <1>5, Zenon
<1> HIDE DEF z
<1>7. Typed(z, N) /\ z.sock = s.sock /\ z.shutdown = s.shutdown
  BY <1>6, Zenon DEF EchoOnly
<1>8. z.shutdown \in BOOLEAN /\ z.sock \in BOOLEAN /\ z.echo_xmt_TO \in Nat
  BY <1>7, FieldTypes, Zenon
<1>9. v \in Int /\ (~s.shutdown /\ s.sock => v # Off) /\ (~s.sock => v = Off)
  BY <1>7, <1>8, TimerFacts
<1> HIDE DEF v
<1>10. EchoOnly(t, z, N)
  BY <1>7, <1>9, EchoPut, Zenon
<1>11. /\ t.echo_recv = z.echo_recv /\ t.echo_xmt_TO = z.echo_xmt_TO
       /\ t.echo_active = z.echo_active /\ t.echo_xmt = v
  BY <1>7, Names, Zenon DEF Typed
<1> HIDE DEF t
<1>12. EchoOnly(t, s, N)
  BY <1>6, <1>10, EchoTrans, Zenon
<1> QED  BY <1>0, <1>6, <1>9, <1>11, <1>12, Zenon

\* Echo of a session that is Up starts, with both timers, or stays off.
LEMMA EchoStart ==
  ASSUME NEW N, NEW s, Typed(s, N), s.ses_state = UP
  PROVE  Keeps(ptm_bfd_echo_start(s), s, N)
<1> DEFINE r == bfd_echo_recvtimer_update(s)
           t == ptm_bfd_echo_xmt_TO(r)
<1>0. ptm_bfd_echo_start(s) = IF s.echo_xmt_TO > 0 THEN t ELSE s
  BY Zenon DEF ptm_bfd_echo_start
<1>1. /\ EchoOnly(r, s, N)
      /\ r.echo_active = s.echo_active /\ r.echo_xmt_TO = s.echo_xmt_TO
      /\ ~s.shutdown /\ s.sock => r.echo_recv # Off
      /\ ~s.sock => r.echo_recv = Off
  BY EchoRecvTimer, Zenon
<1> HIDE DEF r
<1>2. Typed(r, N) /\ r.sock = s.sock /\ r.shutdown = s.shutdown
  BY <1>1, Zenon DEF EchoOnly
<1>3. /\ EchoOnly(t, r, N)
      /\ t.echo_recv = r.echo_recv /\ t.echo_xmt_TO = r.echo_xmt_TO
      /\ ~r.shutdown /\ r.sock => t.echo_active /\ t.echo_xmt # Off
      /\ ~r.sock => t.echo_active = r.echo_active /\ t.echo_xmt = Off
  BY <1>2, EchoXmt, Zenon
<1> HIDE DEF t
<1>4. EchoOnly(t, s, N)
  BY <1>1, <1>3, EchoTrans, Zenon
<1>5. s.echo_xmt_TO > 0 /\ Echoing(s) => Echoing(t)
  <2> SUFFICES ASSUME s.echo_xmt_TO > 0, Echoing(s) PROVE Echoing(t)
    OBVIOUS
  <2>1. ~s.shutdown /\ t.shutdown = s.shutdown /\ t.sock = s.sock /\ t.ses_state = UP
    BY <1>4, Zenon DEF Echoing, Muted, EchoOnly
  <2>2. CASE s.sock
    BY <1>1, <1>2, <1>3, <2>1, <2>2, Zenon DEF Echoing, Muted
  <2>3. CASE ~s.sock
    BY <1>1, <1>2, <1>3, <2>1, <2>3, Zenon DEF Echoing, Muted
  <2> QED  BY <2>2, <2>3, Zenon
<1>6. s.echo_xmt_TO > 0 => Keeps(t, s, N)
  BY <1>4, <1>5, EchoOnlyKeeps, EchoTyped, Zenon DEF Keeps
<1> QED  BY <1>0, <1>6, KeepsSelf, Zenon

LEMMA EchoTimerHandler ==
  ASSUME NEW N, NEW s, Typed(s, N)
  PROVE  Keeps(bs_echo_timer_handler(s), s, N)
<1> DEFINE v == Max(s.remote_echo, 1)
           t == [s EXCEPT !.echo_xmt_TO = v]
<1>0. \/ bs_echo_timer_handler(s) \in {s, ptm_bfd_echo_stop(s)}
      \/ s.ses_state = UP /\ bs_echo_timer_handler(s) \in {t, ptm_bfd_echo_start(t)}
  BY Zenon DEF bs_echo_timer_handler
<1>1. v \in Nat /\ v > 0
  <2>1. s.remote_echo \in Nat
    BY FieldTypes, Zenon
  <2> QED  BY <2>1 DEF Max
<1> HIDE DEF v
<1>2. EchoOnly(t, s, N)
  BY <1>1, EchoPut, Zenon
<1>3. /\ t.echo_active = s.echo_active /\ t.echo_xmt = s.echo_xmt
      /\ t.echo_recv = s.echo_recv /\ t.echo_xmt_TO = v
  BY Names, Zenon DEF Typed
<1> HIDE DEF t
<1>4. Keeps(t, s, N) /\ t.ses_state = s.ses_state /\ Typed(t, N)
  BY <1>1, <1>2, <1>3, EchoOnlyKeeps, Zenon DEF Keeps, Echoing, Muted, EchoOnly
<1>5. s.ses_state = UP => Keeps(ptm_bfd_echo_start(t), s, N)
  BY <1>4, EchoStart, KeepsTrans, Zenon
<1>6. Keeps(ptm_bfd_echo_stop(s), s, N)
  BY EchoStop, Zenon
<1> QED  BY <1>0, <1>4, <1>5, <1>6, KeepsSelf, Zenon

-----------------------------------------------------------------------------
(* The state machine. *)

LEMMA Polling ==
  ASSUME NEW N, NEW s, Typed(s, N)
  PROVE  /\ Keeps(bfd_set_polling(s), s, N)
         /\ bfd_set_polling(s).ses_state = s.ses_state
         /\ bfd_set_polling(s).shutdown = s.shutdown
<1> DEFINE p == [s EXCEPT !.polling = TRUE]
           r == bfd_recvtimer_update(p)
<1>0. bfd_set_polling(s) = IF s.demand /\ BothUp(s) THEN r ELSE p
  BY Zenon DEF bfd_set_polling
<1>1. Typed(p, N)
  BY PutField, Zenon
<1>2. /\ p.ses_state = s.ses_state /\ p.remote_ses_state = s.remote_ses_state
      /\ p.shutdown = s.shutdown /\ p.sock = s.sock /\ p.demand = s.demand
      /\ p.polling = TRUE /\ p.recv = s.recv /\ p.echo_active = s.echo_active
      /\ p.echo_xmt = s.echo_xmt /\ p.echo_recv = s.echo_recv
      /\ p.echo_xmt_TO = s.echo_xmt_TO
  BY Names, Zenon DEF Typed
<1> HIDE DEF p
<1>3. (Ready(s) => Ready(p)) /\ (Echoing(s) => Echoing(p))
  BY <1>2, Zenon DEF Ready, Echoing, Muted
<1>4. Keeps(r, p, N) /\ (Ready(p) => Armed(r))
  BY <1>1, RecvTimer, Zenon
<1>5. r.ses_state = p.ses_state /\ r.shutdown = p.shutdown
  BY <1>1, Names, Zenon DEF bfd_recvtimer_update, Typed
<1> HIDE DEF r
<1>6. CASE s.demand /\ BothUp(s)
  BY <1>0, <1>2, <1>3, <1>4, <1>5, <1>6, Zenon DEF Keeps, Armed
<1>7. CASE ~(s.demand /\ BothUp(s))
  <2>1. Armed(s) => Armed(p)
    BY <1>2, <1>3, <1>7, Zenon DEF Armed
  <2> QED  BY <1>0, <1>1, <1>2, <1>3, <1>7, <2>1, Zenon DEF Keeps
<1> QED  BY <1>6, <1>7, Zenon

\* The session comes Up; its detection timer is the caller's business.
LEMMA SessUpTimers ==
  ASSUME NEW N, NEW s, Typed(s, N), s.ses_state # ADM_DOWN
  PROVE  LET t == ptm_bfd_sess_up(s)
         IN  Typed(t, N) /\ (Ready(s) => Ready(t)) /\ (Echoing(s) => Echoing(t))
<1> DEFINE a == [s EXCEPT !.ses_state = UP]
           b == bfd_set_polling(a)
           c == ptm_bfd_snd(b, FALSE)
           t == [c EXCEPT !.note = UP]
<1>0. ptm_bfd_sess_up(s) = t
  BY Zenon DEF ptm_bfd_sess_up, ptm_bfd_notify
<1>1. UP \in States
  BY Zenon DEF States
<1>2. Typed(a, N)
  BY <1>1, PutField, Zenon
<1>3. /\ a.ses_state = UP
      /\ a.shutdown = s.shutdown /\ a.sock = s.sock /\ a.echo_active = s.echo_active
      /\ a.echo_xmt = s.echo_xmt /\ a.echo_recv = s.echo_recv
      /\ a.echo_xmt_TO = s.echo_xmt_TO
  BY Names, Zenon DEF Typed
<1> HIDE DEF a
<1>4. (Ready(s) => Ready(a)) /\ (Echoing(s) => Echoing(a))
  BY <1>3, Zenon DEF Ready, Echoing, Muted
<1>5. Keeps(b, a, N) /\ Typed(b, N)
  BY <1>2, Polling, Zenon DEF Keeps
<1> HIDE DEF b
<1>6. Keeps(c, b, N) /\ Typed(c, N)
  BY <1>5, Snd, CalmKeeps, CalmTyped, Zenon
<1> HIDE DEF c
<1>7. Keeps(t, c, N)
  BY <1>1, <1>6, CalmPut, CalmKeeps, Zenon
<1> HIDE DEF t
<1> QED  BY <1>0, <1>4, <1>5, <1>6, <1>7, Zenon DEF Keeps

\* The session goes Down: nothing needs watching, and echo stops.
LEMMA SessDnTimers ==
  ASSUME NEW N, NEW s, Typed(s, N), NEW admin \in BOOLEAN
  PROVE  LET t == ptm_bfd_sess_dn(s, admin)
         IN  /\ Typed(t, N) /\ t.ses_state = DOWN /\ t.sock = s.sock
             /\ Ready(s) /\ s.ses_state # ADM_DOWN => Armed(t)
             /\ Muted(s) => Echoing(t)
<1> DEFINE a == [s EXCEPT !.remote_discr = 0]
           b == [a EXCEPT !.ses_state = DOWN]
           c == [b EXCEPT !.polling = FALSE]
           d == [c EXCEPT !.remote_ses_state = ADM_DOWN]
           down == [d EXCEPT !.remote_demand = FALSE]
           sent == ptm_bfd_snd(down, FALSE)
           slow == bs_set_slow_timers(sent)
           told == IF s.ses_state = UP
                   THEN [slow EXCEPT !.note = IF admin THEN ADM_DOWN ELSE DOWN] ELSE slow
           mute == IF told.echo_active THEN ptm_bfd_echo_stop(told) ELSE told
           e == [mute EXCEPT !.recv = Off]
           t == IF s.passive THEN [e EXCEPT !.xmt = Off] ELSE mute
<1>0. ptm_bfd_sess_dn(s, admin) = t
  BY Zenon DEF ptm_bfd_sess_dn, ptm_bfd_notify
<1>1. DOWN \in States /\ ADM_DOWN \in States /\ 0 \in Nat /\ Off \in Int /\ FALSE \in BOOLEAN
  BY DEF States, Off
<1>2. Typed(a, N)
  BY <1>1, CalmPut, CalmTyped, Zenon
<1>3. a.sock = s.sock /\ a.shutdown = s.shutdown /\ a.echo_active = s.echo_active
      /\ a.echo_xmt = s.echo_xmt /\ a.echo_recv = s.echo_recv
  BY Names, Zenon DEF Typed
<1> HIDE DEF a
<1>4. Typed(b, N)
  BY <1>1, <1>2, PutField, Zenon
<1>5. /\ b.sock = a.sock /\ b.shutdown = a.shutdown /\ b.echo_active = a.echo_active
      /\ b.echo_xmt = a.echo_xmt /\ b.echo_recv = a.echo_recv /\ b.ses_state = DOWN
  BY <1>2, Names, Zenon DEF Typed
<1> HIDE DEF b
<1>6. Typed(c, N)
  BY <1>1, <1>4, PutField, Zenon
<1>7. /\ c.sock = b.sock /\ c.shutdown = b.shutdown /\ c.echo_active = b.echo_active
      /\ c.echo_xmt = b.echo_xmt /\ c.echo_recv = b.echo_recv /\ c.ses_state = b.ses_state
  BY <1>4, Names, Zenon DEF Typed
<1> HIDE DEF c
<1>8. Typed(d, N)
  BY <1>1, <1>6, PutField, Zenon
<1>9. /\ d.sock = c.sock /\ d.shutdown = c.shutdown /\ d.echo_active = c.echo_active
      /\ d.echo_xmt = c.echo_xmt /\ d.echo_recv = c.echo_recv /\ d.ses_state = c.ses_state
  BY <1>6, Names, Zenon DEF Typed
<1> HIDE DEF d
<1>10. Typed(down, N)
  BY <1>1, <1>8, CalmConf, CalmTyped, Zenon
<1>11. /\ down.sock = d.sock /\ down.shutdown = d.shutdown
       /\ down.echo_active = d.echo_active /\ down.echo_xmt = d.echo_xmt
       /\ down.echo_recv = d.echo_recv /\ down.ses_state = d.ses_state
  BY <1>8, Names, Zenon DEF Typed
<1> HIDE DEF down
<1>12. /\ Typed(down, N) /\ down.ses_state = DOWN /\ down.sock = s.sock
       /\ down.shutdown = s.shutdown /\ (Muted(s) => Muted(down))
  BY <1>3, <1>5, <1>7, <1>9, <1>10, <1>11, Zenon DEF Muted
<1>13. Calm(sent, down, N)
  BY <1>10, <1>1, Snd, Zenon
<1> HIDE DEF sent
<1>14. Calm(slow, sent, N)
  BY <1>13, SlowTimers, CalmTyped, Zenon
<1> HIDE DEF slow
<1>15. Calm([slow EXCEPT !.note = IF admin THEN ADM_DOWN ELSE DOWN], slow, N)
  BY <1>1, <1>14, CalmPut, CalmTyped, Zenon
<1>16. Calm(told, slow, N)
  BY <1>14, <1>15, CalmTyped, KeepsSelf, Zenon
<1> HIDE DEF told
<1>17. Calm(told, down, N)
  BY <1>13, <1>14, <1>16, CalmTrans, Zenon
<1>18. /\ Typed(told, N) /\ told.ses_state = DOWN /\ told.sock = s.sock
       /\ told.shutdown = s.shutdown /\ (Muted(s) => Muted(told))
  <2>1. Muted(down) => Muted(told)
    BY <1>17, CalmKeeps, Zenon
  <2> QED  BY <1>12, <1>17, <2>1, Zenon DEF Calm
<1>19. /\ Typed(mute, N) /\ mute.ses_state = DOWN /\ mute.sock = s.sock
       /\ mute.shutdown = s.shutdown /\ (Muted(s) => Echoing(mute))
  <2>1. CASE told.echo_active
    BY <1>18, <2>1, EchoStop, Zenon DEF EchoOnly, Muted
  <2>2. CASE ~told.echo_active
    BY <1>18, <2>2, Zenon DEF Muted, Echoing
  <2> QED  BY <2>1, <2>2, Zenon
<1> HIDE DEF mute
<1>20. Typed(e, N)
  BY <1>1, <1>19, PutField, Zenon
<1>21. /\ e.sock = mute.sock /\ e.shutdown = mute.shutdown
       /\ e.echo_active = mute.echo_active /\ e.echo_xmt = mute.echo_xmt
       /\ e.echo_recv = mute.echo_recv /\ e.ses_state = mute.ses_state
       /\ e.echo_xmt_TO = mute.echo_xmt_TO
  BY <1>19, Names, Zenon DEF Typed
<1> HIDE DEF e
<1>22. Echoing(mute) => Echoing(e)
  BY <1>21, Zenon DEF Echoing, Muted
<1>23. Calm([e EXCEPT !.xmt = Off], e, N)
  BY <1>1, <1>20, CalmPut, Zenon
<1>24. /\ Typed(t, N) /\ t.ses_state = DOWN /\ t.sock = s.sock
       /\ t.shutdown = s.shutdown /\ (Muted(s) => Echoing(t))
  <2>1. CASE s.passive
    <3>1. Calm(t, e, N) /\ (Echoing(e) => Echoing(t))
      BY <1>23, <2>1, CalmKeeps, Zenon DEF Keeps
    <3> QED  BY <1>19, <1>21, <1>22, <3>1, Zenon DEF Calm
  <2>2. CASE ~s.passive
    BY <1>19, <2>2, Zenon
  <2> QED  BY <2>1, <2>2, Zenon
<1> HIDE DEF t
<1>25. Ready(s) /\ s.ses_state # ADM_DOWN => Armed(t)
  <2>1. DOWN \notin {INIT, UP}
    BY Zenon DEF DOWN, INIT, UP
  <2> QED  BY <1>24, <2>1, Zenon DEF Ready, Armed
<1> QED  BY <1>0, <1>24, <1>25, Zenon

\* t is typed, and keeps what s promises but for the detection timer.
Follows(t, s, N) ==
  Typed(t, N) /\ (Ready(s) => Ready(t)) /\ (Echoing(s) => Echoing(t))

LEMMA FollowsFacts ==
  ASSUME NEW N, NEW s, NEW t
  PROVE  /\ Keeps(t, s, N) => Follows(t, s, N)
         /\ Calm(t, s, N) => Follows(t, s, N)
         /\ Follows(t, s, N) => Typed(t, N)
         /\ Follows(t, s, N) /\ (Ready(s) => Armed(t)) => Keeps(t, s, N)
<1>1. Calm(t, s, N) => Keeps(t, s, N)
  BY CalmKeeps, Zenon
<1> QED  BY <1>1, Zenon DEF Keeps, Follows, Armed

LEMMA FollowsTrans ==
  ASSUME NEW N, NEW s, NEW t, NEW u, Follows(t, s, N), Follows(u, t, N)
  PROVE  Follows(u, s, N)
  BY Zenon DEF Follows

LEMMA StateHandlerTimers ==
  ASSUME NEW N, NEW s, Typed(s, N), NEW nstate
  PROVE  Follows(bs_state_handler(s, nstate), s, N)
<1> DEFINE i == [s EXCEPT !.ses_state = INIT]
           t == bs_state_handler(s, nstate)
<1>0. \/ t = s
      \/ /\ s.ses_state # ADM_DOWN
         /\ \/ t = ptm_bfd_sess_up(s) \/ t = ptm_bfd_sess_dn(s, TRUE)
            \/ t = ptm_bfd_sess_dn(s, FALSE)
      \/ s.ses_state = DOWN /\ (t = i \/ t = ptm_bfd_xmt_TO(i))
  BY Zenon DEF bs_state_handler, bs_down_handler, bs_init_handler, bs_up_handler,
               ADM_DOWN, DOWN, INIT, UP
<1> HIDE DEF t
<1>1. INIT \in States /\ INIT # ADM_DOWN /\ DOWN # UP /\ DOWN # ADM_DOWN
  BY Zenon DEF States, INIT, UP, DOWN, ADM_DOWN
<1>2. Typed(i, N)
  BY <1>1, PutField, Zenon
<1>3. /\ i.shutdown = s.shutdown /\ i.sock = s.sock /\ i.echo_active = s.echo_active
      /\ i.echo_xmt = s.echo_xmt /\ i.echo_recv = s.echo_recv
      /\ i.echo_xmt_TO = s.echo_xmt_TO /\ i.ses_state = INIT
  BY Names, Zenon DEF Typed
<1> HIDE DEF i
<1>4. s.ses_state = DOWN => Follows(i, s, N)
  BY <1>1, <1>2, <1>3, Zenon DEF Follows, Ready, Echoing, Muted
<1>5. Follows(ptm_bfd_xmt_TO(i), i, N)
  BY <1>2, Xmt, FollowsFacts, Zenon
<1>6. CASE t = s
  BY <1>6, KeepsSelf, FollowsFacts, Zenon DEF t
<1>7. CASE s.ses_state # ADM_DOWN /\ t = ptm_bfd_sess_up(s)
  BY <1>7, SessUpTimers, Zenon DEF Follows, t
<1>8. CASE /\ s.ses_state # ADM_DOWN
           /\ t = ptm_bfd_sess_dn(s, TRUE) \/ t = ptm_bfd_sess_dn(s, FALSE)
  <2>1. PICK b \in BOOLEAN : t = ptm_bfd_sess_dn(s, b)
    BY <1>8, Zenon
  <2>2. /\ Typed(t, N) /\ (Ready(s) => Armed(t))
        /\ Muted(s) => Echoing(t)
    BY <1>8, <2>1, SessDnTimers, Zenon
  <2> QED  BY <2>2, Zenon DEF Follows, Armed, Echoing, t
<1>9. CASE s.ses_state = DOWN /\ (t = i \/ t = ptm_bfd_xmt_TO(i))
  BY <1>4, <1>5, <1>9, FollowsTrans, Zenon DEF t
<1> QED  BY <1>0, <1>6, <1>7, <1>8, <1>9, Zenon DEF t

-----------------------------------------------------------------------------
(* Receiving: whatever the packet says, the detection timer is set for it. *)

LEMMA Stored ==
  ASSUME NEW N \in Nat, NEW s, Typed(s, N), NEW cp \in Packets(N)
  PROVE  Follows([s EXCEPT !.remote_discr = cp.my, !.remote_tx = cp.tx,
                          !.remote_rx = cp.rx, !.remote_mult = cp.mult,
                          !.remote_echo = cp.echo, !.remote_ses_state = cp.state,
                          !.remote_demand = cp.d], s, N)
<1> DEFINE a == [s EXCEPT !.remote_discr = cp.my]
           b == [a EXCEPT !.remote_tx = cp.tx]
           c == [b EXCEPT !.remote_rx = cp.rx]
           d == [c EXCEPT !.remote_mult = cp.mult]
           e == [d EXCEPT !.remote_echo = cp.echo]
           f == [e EXCEPT !.remote_ses_state = cp.state]
           t == [f EXCEPT !.remote_demand = cp.d]
<1>0. /\ cp.my \in Nat /\ cp.tx \in Nat /\ cp.rx \in Nat /\ cp.mult \in Nat
      /\ cp.echo \in Nat /\ cp.state \in States /\ cp.d \in BOOLEAN
  BY DEF Packets
<1>1. Calm(a, s, N) /\ Typed(a, N)
  BY <1>0, CalmPut, CalmTyped, Zenon
<1> HIDE DEF a
<1>2. Calm(b, a, N) /\ Typed(b, N)
  BY <1>0, <1>1, CalmConf, CalmTyped, Zenon
<1> HIDE DEF b
<1>3. Calm(c, b, N) /\ Typed(c, N)
  BY <1>0, <1>2, CalmConf, CalmTyped, Zenon
<1> HIDE DEF c
<1>4. Calm(d, c, N) /\ Typed(d, N)
  BY <1>0, <1>3, CalmConf, CalmTyped, Zenon
<1> HIDE DEF d
<1>5. Calm(e, d, N) /\ Typed(e, N)
  BY <1>0, <1>4, CalmConf, CalmTyped, Zenon
<1> HIDE DEF e
<1>6. Follows(e, s, N)
  BY <1>1, <1>2, <1>3, <1>4, <1>5, CalmTrans, FollowsFacts, Zenon
<1>7. Typed(f, N)
  BY <1>0, <1>5, PutField, Zenon
<1>8. /\ f.ses_state = e.ses_state /\ f.shutdown = e.shutdown /\ f.sock = e.sock
      /\ f.echo_active = e.echo_active /\ f.echo_xmt = e.echo_xmt
      /\ f.echo_recv = e.echo_recv /\ f.echo_xmt_TO = e.echo_xmt_TO
  BY <1>5, Names, Zenon DEF Typed
<1> HIDE DEF f
<1>9. Follows(f, e, N)
  BY <1>7, <1>8, Zenon DEF Follows, Ready, Echoing, Muted
<1>10. Follows(t, f, N)
  BY <1>0, <1>7, CalmConf, FollowsFacts, Zenon
<1>11. t = [s EXCEPT !.remote_discr = cp.my, !.remote_tx = cp.tx,
                     !.remote_rx = cp.rx, !.remote_mult = cp.mult,
                     !.remote_echo = cp.echo, !.remote_ses_state = cp.state,
                     !.remote_demand = cp.d]
  BY Zenon DEF a, b, c, d, e, f
<1> HIDE DEF t
<1> QED  BY <1>6, <1>9, <1>10, <1>11, FollowsTrans, Zenon

LEMMA RecvCb ==
  ASSUME NEW N \in Nat, NEW s, Typed(s, N), NEW cp \in Packets(N)
  PROVE  Keeps(bfd_recv_cb(s, cp), s, N)
<1> DEFINE stored == [s EXCEPT !.remote_discr = cp.my, !.remote_tx = cp.tx,
                               !.remote_rx = cp.rx, !.remote_mult = cp.mult,
                               !.remote_echo = cp.echo, !.remote_ses_state = cp.state,
                               !.remote_demand = cp.d]
           moved == bs_state_handler(stored, cp.state)
           quiet == [moved EXCEPT !.polling = FALSE]
           final == IF moved.polling /\ cp.f THEN bs_final_handler(quiet) ELSE moved
           detect == bfd_detection_timeout_us(final.remote_mult, final.cur_rx,
                                              final.remote_tx)
           timed == [final EXCEPT !.detect_TO = detect]
           off == [timed EXCEPT !.recv = Off]
           idle == timed.demand /\ BothUp(timed) /\ ~timed.polling
           watched == IF idle THEN off ELSE bfd_recvtimer_update(timed)
           echoed == bs_echo_timer_handler(watched)
           polled == bs_final_handler(echoed)
           answer == ptm_bfd_snd(polled, TRUE)
<1>0. bfd_recv_cb(s, cp) \in {s, echoed, answer}
  BY Zenon DEF bfd_recv_cb
<1>1. Follows(stored, s, N) /\ Typed(stored, N)
  BY Stored, FollowsFacts, Zenon
<1> HIDE DEF stored
<1>2. Follows(moved, stored, N) /\ Typed(moved, N)
  BY <1>1, StateHandlerTimers, FollowsFacts, Zenon
<1> HIDE DEF moved
<1>3. Typed(quiet, N)
  BY <1>2, PutField, Zenon
<1>4. /\ quiet.ses_state = moved.ses_state /\ quiet.shutdown = moved.shutdown
      /\ quiet.sock = moved.sock /\ quiet.echo_active = moved.echo_active
      /\ quiet.echo_xmt = moved.echo_xmt /\ quiet.echo_recv = moved.echo_recv
      /\ quiet.echo_xmt_TO = moved.echo_xmt_TO
  BY <1>2, Names, Zenon DEF Typed
<1> HIDE DEF quiet
<1>5. Follows(quiet, moved, N)
  BY <1>3, <1>4, Zenon DEF Follows, Ready, Echoing, Muted
<1>6. Follows(bs_final_handler(quiet), quiet, N)
  BY <1>3, Final, FollowsFacts, Zenon
<1>7. Follows(final, moved, N) /\ Typed(final, N)
  BY <1>2, <1>5, <1>6, KeepsSelf, FollowsFacts, FollowsTrans, Zenon
<1> HIDE DEF final
<1>8. detect \in Nat
  <2>1. final.remote_mult \in Nat /\ final.cur_rx \in Nat /\ final.remote_tx \in Nat
    BY <1>7, FieldTypes, Zenon
  <2>2. Max(final.cur_rx, final.remote_tx) \in Nat
    BY <2>1, MaxNat, Zenon
  <2> QED  BY <2>1, <2>2, Product, Zenon DEF bfd_detection_timeout_us
<1> HIDE DEF detect
<1>9. Follows(timed, final, N) /\ Typed(timed, N)
  BY <1>7, <1>8, CalmPut, FollowsFacts, Zenon
<1> HIDE DEF timed
<1>10. Follows(timed, s, N)
  BY <1>1, <1>2, <1>7, <1>9, FollowsTrans, Zenon
<1>11. Keeps(watched, timed, N) /\ (Ready(timed) => Armed(watched))
  <2>1. CASE idle
    <3>1. Off \in Int
      BY DEF Off
    <3>2. Typed(off, N)
      BY <1>9, <3>1, PutField, Zenon
    <3>3. /\ off.ses_state = timed.ses_state /\ off.shutdown = timed.shutdown
          /\ off.remote_ses_state = timed.remote_ses_state
          /\ off.demand = timed.demand /\ off.polling = timed.polling
          /\ off.sock = timed.sock /\ off.echo_active = timed.echo_active
          /\ off.echo_xmt = timed.echo_xmt /\ off.echo_recv = timed.echo_recv
          /\ off.echo_xmt_TO = timed.echo_xmt_TO
      BY <1>9, Names, Zenon DEF Typed
    <3> HIDE DEF off
    <3>4. Ready(timed) => Armed(off)
      BY <2>1, <3>3, Zenon DEF Ready, Armed, BothUp
    <3>5. Follows(off, timed, N)
      BY <3>2, <3>3, Zenon DEF Follows, Ready, Echoing, Muted
    <3> QED  BY <2>1, <3>4, <3>5, FollowsFacts, Zenon
  <2>2. CASE ~idle
    BY <1>9, <2>2, RecvTimer, Zenon
  <2> QED  BY <2>1, <2>2, Zenon
<1> HIDE DEF watched, idle, off
<1>12. Keeps(watched, s, N) /\ Typed(watched, N)
  BY <1>10, <1>11, FollowsFacts, Zenon DEF Keeps, Follows, Armed
<1>13. Keeps(echoed, s, N) /\ Typed(echoed, N)
  <2>1. Keeps(echoed, watched, N)
    BY <1>12, EchoTimerHandler, Zenon
  <2> HIDE DEF echoed
  <2> QED  BY <1>12, <2>1, KeepsTrans, Zenon DEF Keeps
<1> HIDE DEF echoed
<1>14. Keeps(polled, echoed, N) /\ Typed(polled, N)
  BY <1>13, Final, CalmKeeps, CalmTyped, Zenon
<1> HIDE DEF polled
<1>15. Keeps(answer, polled, N)
  BY <1>14, Snd, CalmKeeps, Zenon
<1> HIDE DEF answer
<1> QED  BY <1>0, <1>13, <1>14, <1>15, KeepsTrans, KeepsSelf, Zenon

-----------------------------------------------------------------------------
(* Configuration. *)

LEMMA SetEchoTimers ==
  ASSUME NEW N, NEW s, Typed(s, N), NEW echo \in BOOLEAN
  PROVE  Keeps(bfd_set_echo(s, echo), s, N)
<1> DEFINE a == [s EXCEPT !.echo = TRUE]
           b == [s EXCEPT !.echo = FALSE]
<1>0. bfd_set_echo(s, echo) \in {s, bs_echo_timer_handler(a), ptm_bfd_echo_stop(b)}
  BY Zenon DEF bfd_set_echo
<1>1. Keeps(a, s, N) /\ Keeps(b, s, N) /\ Typed(a, N) /\ Typed(b, N)
  BY CalmPut, CalmKeeps, CalmTyped, Zenon
<1> HIDE DEF a, b
<1>2. Keeps(bs_echo_timer_handler(a), a, N) /\ Keeps(ptm_bfd_echo_stop(b), b, N)
  BY <1>1, EchoTimerHandler, EchoStop, Zenon
<1> QED  BY <1>0, <1>1, <1>2, KeepsTrans, KeepsSelf, Zenon

\* The detection timer is on again before the session leaves demand mode.
LEMMA SetDemandTimers ==
  ASSUME NEW N, NEW s, Typed(s, N), NEW demand \in BOOLEAN
  PROVE  Keeps(bfd_set_demand(s, demand), s, N)
<1> DEFINE t == [s EXCEPT !.demand = demand]
           p == bfd_set_polling(t)
           r == bfd_recvtimer_update(p)
<1>0. \/ bfd_set_demand(s, demand) = s
      \/ /\ demand /\ ~s.demand
         /\ bfd_set_demand(s, demand) = IF BothUp(t) THEN p ELSE t
      \/ /\ ~demand /\ s.demand
         /\ bfd_set_demand(s, demand) = IF t.ses_state = UP THEN r ELSE t
  <2>1. s.demand \in BOOLEAN
    BY FieldTypes, Zenon
  <2> QED  BY <2>1, Zenon DEF bfd_set_demand
<1>1. Typed(t, N)
  BY PutField, Zenon
<1>2. /\ t.ses_state = s.ses_state /\ t.shutdown = s.shutdown
      /\ t.remote_ses_state = s.remote_ses_state /\ t.polling = s.polling
      /\ t.sock = s.sock /\ t.echo_active = s.echo_active /\ t.recv = s.recv
      /\ t.echo_xmt = s.echo_xmt /\ t.echo_recv = s.echo_recv
      /\ t.echo_xmt_TO = s.echo_xmt_TO /\ t.demand = demand
  BY Names, Zenon DEF Typed
<1> HIDE DEF t
<1>3. Follows(t, s, N)
  BY <1>1, <1>2, Zenon DEF Follows, Ready, Echoing, Muted
<1>4. ~s.demand \/ t.ses_state # UP => (Armed(s) => Armed(t))
  BY <1>2, Zenon DEF Armed, Ready, BothUp
<1>5. Keeps(p, t, N) /\ Typed(p, N)
  BY <1>1, Polling, Zenon DEF Keeps
<1> HIDE DEF p
<1>6. Keeps(r, p, N) /\ (Ready(p) => Armed(r))
  BY <1>5, RecvTimer, Zenon
<1> HIDE DEF r
<1>7. ~s.demand \/ t.ses_state # UP => Keeps(t, s, N)
  BY <1>3, <1>4, Zenon DEF Keeps, Follows
<1>8. Keeps(r, s, N)
  BY <1>3, <1>5, <1>6, Zenon DEF Keeps, Follows, Armed
<1> QED  BY <1>0, <1>5, <1>7, <1>8, KeepsTrans, KeepsSelf, Zenon

LEMMA SetPassiveTimers ==
  ASSUME NEW N, NEW s, Typed(s, N), NEW passive \in BOOLEAN
  PROVE  Keeps(bfd_set_passive_mode(s, passive), s, N)
<1> DEFINE t == [s EXCEPT !.passive = passive]
           a == [t EXCEPT !.recv = Off]
           b == [a EXCEPT !.xmt = Off]
           x == ptm_bfd_start_xmt_timer(t)
           r == bfd_recvtimer_update(x)
<1>0. \/ bfd_set_passive_mode(s, passive) \in {t, r}
      \/ s.ses_state = DOWN /\ bfd_set_passive_mode(s, passive) = b
  BY Zenon DEF bfd_set_passive_mode
<1>1. Off \in Int /\ DOWN \notin {INIT, UP}
  BY DEF Off, DOWN, INIT, UP
<1>2. Calm(t, s, N) /\ Keeps(t, s, N) /\ Typed(t, N)
  BY CalmPut, CalmKeeps, CalmTyped, Zenon
<1>3. t.ses_state = s.ses_state
  BY <1>2, Zenon DEF Calm
<1> HIDE DEF t
<1>4. Typed(a, N)
  BY <1>1, <1>2, PutField, Zenon
<1>5. /\ a.ses_state = t.ses_state /\ a.shutdown = t.shutdown /\ a.sock = t.sock
      /\ a.echo_active = t.echo_active /\ a.echo_xmt = t.echo_xmt
      /\ a.echo_recv = t.echo_recv /\ a.echo_xmt_TO = t.echo_xmt_TO
  BY <1>2, Names, Zenon DEF Typed
<1> HIDE DEF a
<1>6. s.ses_state = DOWN => Keeps(a, t, N)
  BY <1>1, <1>3, <1>4, <1>5, Zenon DEF Keeps, Ready, Armed, Echoing, Muted
<1>7. Keeps(b, a, N)
  BY <1>1, <1>4, CalmPut, CalmKeeps, Zenon
<1> HIDE DEF b
<1>8. Keeps(x, t, N) /\ Typed(x, N)
  BY <1>2, XmtTimer, CalmKeeps, CalmTyped, Zenon
<1> HIDE DEF x
<1>9. Keeps(r, x, N)
  BY <1>8, RecvTimer, Zenon
<1> HIDE DEF r
<1> QED  BY <1>0, <1>2, <1>6, <1>7, <1>8, <1>9, KeepsTrans, Zenon

\* Shutdown by the operator ends the echo promise, and no other.
KeepsIf(ok, t, s, N) ==
  /\ Typed(t, N)
  /\ Ready(s) => Ready(t)
  /\ Armed(s) => Armed(t)
  /\ ok /\ Echoing(s) => Echoing(t)

LEMMA Shut ==
  ASSUME NEW N, NEW s, Typed(s, N)
  PROVE  LET t == [s EXCEPT !.shutdown = TRUE, !.recv = Off, !.xmt = Off,
                            !.echo_recv = Off, !.echo_xmt = Off,
                            !.ses_state = ADM_DOWN]
         IN  Typed(t, N) /\ (Ready(s) => Armed(t))
<1> DEFINE a == [s EXCEPT !.shutdown = TRUE]
           b == [a EXCEPT !.recv = Off]
           c == [b EXCEPT !.xmt = Off]
           d == [c EXCEPT !.echo_recv = Off]
           e == [d EXCEPT !.echo_xmt = Off]
           t == [e EXCEPT !.ses_state = ADM_DOWN]
<1>0. t = [s EXCEPT !.shutdown = TRUE, !.recv = Off, !.xmt = Off,
                    !.echo_recv = Off, !.echo_xmt = Off, !.ses_state = ADM_DOWN]
  OBVIOUS
<1>1. Off \in Int /\ ADM_DOWN \in States /\ ADM_DOWN \notin {INIT, UP}
  BY DEF Off, ADM_DOWN, INIT, UP, States
<1>2. Typed(a, N)
  BY PutField, Zenon
<1>3. a.sock = s.sock
  BY Names, Zenon DEF Typed
<1> HIDE DEF a
<1>4. Typed(b, N)
  BY <1>1, <1>2, PutField, Zenon
<1>5. b.sock = a.sock
  BY <1>2, Names, Zenon DEF Typed
<1> HIDE DEF b
<1>6. Calm(c, b, N) /\ Typed(c, N)
  BY <1>1, <1>4, CalmPut, CalmTyped, Zenon
<1> HIDE DEF c
<1>7. EchoOnly(d, c, N) /\ Typed(d, N)
  BY <1>1, <1>6, EchoPut, EchoTyped, Zenon
<1> HIDE DEF d
<1>8. EchoOnly(e, d, N) /\ Typed(e, N)
  BY <1>1, <1>7, EchoPut, EchoTyped, Zenon
<1> HIDE DEF e
<1>9. Typed(t, N)
  BY <1>1, <1>8, PutField, Zenon
<1>10. t.sock = e.sock /\ t.ses_state = ADM_DOWN
  BY <1>8, Names, Zenon DEF Typed
<1> HIDE DEF t
<1>11. t.sock = s.sock
  BY <1>3, <1>5, <1>6, <1>7, <1>8, <1>10, Zenon DEF Calm, EchoOnly
<1>12. Ready(s) => Armed(t)
  BY <1>1, <1>10, <1>11, Zenon DEF Ready, Armed
<1> QED  BY <1>0, <1>9, <1>12, Zenon

LEMMA Open ==
  ASSUME NEW N, NEW s, Typed(s, N)
  PROVE  LET t == [s EXCEPT !.shutdown = FALSE, !.ses_state = DOWN]
         IN  Typed(t, N) /\ (Ready(s) => Ready(t)) /\ t.ses_state = DOWN
<1> DEFINE a == [s EXCEPT !.shutdown = FALSE]
           t == [a EXCEPT !.ses_state = DOWN]
<1>1. DOWN \in States
  BY Zenon DEF States
<1>2. Typed(a, N)
  BY PutField, Zenon
<1>3. a.sock = s.sock /\ a.shutdown = FALSE
  BY Names, Zenon DEF Typed
<1> HIDE DEF a
<1>4. Typed(t, N)
  BY <1>1, <1>2, PutField, Zenon
<1>5. t.sock = a.sock /\ t.shutdown = a.shutdown /\ t.ses_state = DOWN
  BY <1>2, Names, Zenon DEF Typed
<1> HIDE DEF t
<1>6. Ready(s) => Ready(t)
  BY <1>3, <1>5, Zenon DEF Ready
<1> QED  BY <1>4, <1>5, <1>6, Zenon DEF t, a

LEMMA SetShutdownTimers ==
  ASSUME NEW N, NEW s, Typed(s, N), NEW shutdown \in BOOLEAN
  PROVE  KeepsIf(~shutdown, bfd_set_shutdown(s, shutdown), s, N)
<1> DEFINE t == bfd_set_shutdown(s, shutdown)
           a == [s EXCEPT !.shutdown = TRUE, !.recv = Off, !.xmt = Off,
                          !.echo_recv = Off, !.echo_xmt = Off, !.ses_state = ADM_DOWN]
           shut == [a EXCEPT !.note = ADM_DOWN]
           sent == ptm_bfd_snd(shut, FALSE)
           b == [s EXCEPT !.shutdown = FALSE, !.ses_state = DOWN]
           open == [b EXCEPT !.note = DOWN]
           c == [open EXCEPT !.recv = Off]
           d == [c EXCEPT !.xmt = Off]
           r == bfd_recvtimer_update(open)
           x == ptm_bfd_start_xmt_timer(r)
<1>0. \/ t = s
      \/ shutdown /\ t = sent
      \/ s.shutdown /\ t \in {d, x}
  <2>1. s.shutdown \in BOOLEAN
    BY FieldTypes, Zenon
  <2> QED  BY <2>1, Zenon DEF bfd_set_shutdown, ptm_bfd_notify
<1> HIDE DEF t
<1>1. /\ Off \in Int /\ DOWN \notin {INIT, UP} /\ DOWN \in States /\ ADM_DOWN \in States
      /\ FALSE \in BOOLEAN
  BY DEF Off, DOWN, INIT, UP, States
<1>2. Typed(a, N) /\ (Ready(s) => Armed(a))
  BY Shut, Zenon
<1> HIDE DEF a
<1>3. Keeps(shut, a, N) /\ Typed(shut, N)
  BY <1>1, <1>2, CalmPut, CalmKeeps, CalmTyped, Zenon
<1> HIDE DEF shut
<1>4. Keeps(sent, shut, N)
  BY <1>1, <1>3, Snd, CalmKeeps, Zenon
<1> HIDE DEF sent
<1>5. Typed(b, N) /\ (Ready(s) => Ready(b)) /\ b.ses_state = DOWN
  BY Open, Zenon
<1> HIDE DEF b
<1>6. Keeps(open, b, N) /\ Typed(open, N) /\ open.ses_state = DOWN
  <2>1. Calm(open, b, N)
    BY <1>1, <1>5, CalmPut, Zenon
  <2> HIDE DEF open
  <2>2. open.ses_state = b.ses_state
    BY <2>1, Zenon DEF Calm
  <2> QED  BY <1>5, <2>1, <2>2, CalmKeeps, CalmTyped, Zenon
<1> HIDE DEF open
<1>7. Typed(c, N)
  BY <1>1, <1>6, PutField, Zenon
<1>8. c.ses_state = open.ses_state /\ c.shutdown = open.shutdown /\ c.sock = open.sock
  BY <1>6, Names, Zenon DEF Typed
<1> HIDE DEF c
<1>9. Ready(open) => Armed(c)
  BY <1>1, <1>6, <1>8, Zenon DEF Ready, Armed
<1>10. Keeps(d, c, N)
  BY <1>1, <1>7, CalmPut, CalmKeeps, Zenon
<1> HIDE DEF d
<1>11. Typed(r, N) /\ (Ready(open) => Armed(r))
  BY <1>6, RecvTimer, Zenon DEF Keeps
<1> HIDE DEF r
<1>12. Keeps(x, r, N)
  BY <1>11, XmtTimer, CalmKeeps, Zenon
<1> HIDE DEF x
<1>13. CASE t = s
  BY <1>13, Zenon DEF KeepsIf, t
<1>14. CASE shutdown /\ t = sent
  BY <1>2, <1>3, <1>4, <1>14, Zenon DEF KeepsIf, Keeps, Armed, t
<1>15. CASE s.shutdown /\ t \in {d, x}
  <2>1. /\ Typed(d, N) /\ (Ready(s) => Armed(d))
        /\ Typed(x, N) /\ (Ready(s) => Armed(x))
    BY <1>5, <1>6, <1>9, <1>10, <1>11, <1>12, Zenon DEF Keeps
  <2> QED  BY <1>15, <2>1, Zenon DEF KeepsIf, Armed, Echoing, Muted, t
<1> QED  BY <1>0, <1>13, <1>14, <1>15, Zenon

\* What bfd_session_apply needs of a configuration.
ConfOK(c) ==
  /\ c.tx \in Nat /\ c.rx \in Nat /\ c.mult \in Nat /\ c.echo_rx \in Nat
  /\ c.echo \in BOOLEAN /\ c.demand \in BOOLEAN /\ c.passive \in BOOLEAN
  /\ c.shutdown \in BOOLEAN

LEMMA SessionApplyTimers ==
  ASSUME NEW N, NEW s, Typed(s, N), NEW c, ConfOK(c)
  PROVE  KeepsIf(~c.shutdown, bfd_session_apply(s, c), s, N)
<1> DEFINE a == [s EXCEPT !.mult = c.mult]
           b == [a EXCEPT !.tx = c.tx]
           d == [b EXCEPT !.rx = c.rx]
           timers == [d EXCEPT !.echo_rx = c.echo_rx]
           echo == bfd_set_echo(timers, c.echo)
           demand == bfd_set_demand(echo, c.demand)
           role == bfd_set_passive_mode(demand, c.passive)
           shut == bfd_set_shutdown(role, c.shutdown)
<1>0. bfd_session_apply(s, c) \in {shut, bfd_set_polling(shut)}
  BY Zenon DEF bfd_session_apply
<1>1. Calm(a, s, N) /\ Typed(a, N)
  BY CalmConf, CalmTyped, Zenon DEF ConfOK
<1> HIDE DEF a
<1>2. Calm(b, a, N) /\ Typed(b, N)
  BY <1>1, CalmConf, CalmTyped, Zenon DEF ConfOK
<1> HIDE DEF b
<1>3. Calm(d, b, N) /\ Typed(d, N)
  BY <1>2, CalmConf, CalmTyped, Zenon DEF ConfOK
<1> HIDE DEF d
<1>4. Calm(timers, d, N) /\ Typed(timers, N)
  BY <1>3, CalmConf, CalmTyped, Zenon DEF ConfOK
<1> HIDE DEF timers
<1>5. Keeps(timers, s, N)
  BY <1>1, <1>2, <1>3, <1>4, CalmTrans, CalmKeeps, Zenon
<1>6. Keeps(echo, timers, N) /\ Typed(echo, N)
  BY <1>4, SetEchoTimers, Zenon DEF ConfOK, Keeps
<1> HIDE DEF echo
<1>7. Keeps(demand, echo, N) /\ Typed(demand, N)
  BY <1>6, SetDemandTimers, Zenon DEF ConfOK, Keeps
<1> HIDE DEF demand
<1>8. Keeps(role, demand, N) /\ Typed(role, N)
  BY <1>7, SetPassiveTimers, Zenon DEF ConfOK, Keeps
<1> HIDE DEF role
<1>9. Keeps(role, s, N)
  BY <1>5, <1>6, <1>7, <1>8, KeepsTrans, Zenon
<1>10. KeepsIf(~c.shutdown, shut, role, N)
  BY <1>8, SetShutdownTimers, Zenon DEF ConfOK
<1> HIDE DEF shut
<1>11. KeepsIf(~c.shutdown, shut, s, N) /\ Typed(shut, N)
  BY <1>9, <1>10, Zenon DEF KeepsIf, Keeps
<1>12. Keeps(bfd_set_polling(shut), shut, N)
  BY <1>11, Polling, Zenon
<1>13. KeepsIf(~c.shutdown, bfd_set_polling(shut), s, N)
  BY <1>11, <1>12, Zenon DEF KeepsIf, Keeps
<1> QED  BY <1>0, <1>11, <1>13, Zenon

LEMMA SessionEnableTimers ==
  ASSUME NEW N, NEW s, Typed(s, N)
  PROVE  LET t == bfd_session_enable(s)
         IN  /\ Typed(t, N)
             /\ Echoing(s) => Echoing(t)
             /\ ~s.shutdown /\ s.ses_state = DOWN => Armed(t)
<1> DEFINE t == [s EXCEPT !.sock = TRUE]
           r == bfd_recvtimer_update(t)
           x == ptm_bfd_start_xmt_timer(r)
<1>0. bfd_session_enable(s) \in {t, x}
  BY Zenon DEF bfd_session_enable
<1>1. Typed(t, N)
  BY PutField, Zenon
<1>2. /\ t.sock = TRUE /\ t.shutdown = s.shutdown /\ t.ses_state = s.ses_state
      /\ t.echo_active = s.echo_active /\ t.echo_xmt = s.echo_xmt
      /\ t.echo_recv = s.echo_recv /\ t.echo_xmt_TO = s.echo_xmt_TO
  BY Names, Zenon DEF Typed
<1> HIDE DEF t
<1>3. DOWN \notin {INIT, UP}
  BY Zenon DEF DOWN, INIT, UP
<1>4. /\ Echoing(s) => Echoing(t)
      /\ ~s.shutdown /\ s.ses_state = DOWN => Armed(t)
  BY <1>2, <1>3, Zenon DEF Echoing, Muted, Armed, Ready
<1>5. Keeps(r, t, N) /\ Typed(r, N)
  BY <1>1, RecvTimer, Zenon DEF Keeps
<1> HIDE DEF r
<1>6. Keeps(x, r, N)
  BY <1>5, XmtTimer, CalmKeeps, Zenon
<1> HIDE DEF x
<1> QED  BY <1>0, <1>1, <1>4, <1>5, <1>6, Zenon DEF Keeps

LEMMA SessionDisableTimers ==
  ASSUME NEW N, NEW s, Typed(s, N)
  PROVE  LET t == bfd_session_disable(s)
         IN  Typed(t, N) /\ (Echoing(s) => Echoing(t))
<1> DEFINE a == [s EXCEPT !.sock = FALSE]
           b == [a EXCEPT !.recv = Off]
           c == [b EXCEPT !.xmt = Off]
           d == ptm_bfd_echo_stop(c)
           t == ptm_bfd_sess_dn(d, FALSE)
<1>0. bfd_session_disable(s) = t
  BY Zenon DEF bfd_session_disable
<1>1. Off \in Int /\ FALSE \in BOOLEAN
  BY DEF Off
<1>2. Typed(a, N)
  BY PutField, Zenon
<1>3. a.shutdown = s.shutdown
  BY Names, Zenon DEF Typed
<1> HIDE DEF a
<1>4. Typed(b, N)
  BY <1>1, <1>2, PutField, Zenon
<1>5. b.shutdown = a.shutdown
  BY <1>2, Names, Zenon DEF Typed
<1> HIDE DEF b
<1>6. Typed(c, N) /\ c.shutdown = b.shutdown
  <2>1. Calm(c, b, N)
    BY <1>1, <1>4, CalmPut, Zenon
  <2> QED  BY <2>1, Zenon DEF Calm
<1> HIDE DEF c
<1>7. Typed(d, N) /\ (~c.shutdown => Echoing(d))
  BY <1>6, EchoStop, Zenon DEF Keeps
<1> HIDE DEF d
<1>8. Typed(t, N) /\ (Muted(d) => Echoing(t))
  BY <1>1, <1>7, SessDnTimers, Zenon
<1> HIDE DEF t
<1>9. Echoing(s) => Echoing(t)
  BY <1>3, <1>5, <1>6, <1>7, <1>8, Zenon DEF Echoing, Muted
<1> QED  BY <1>0, <1>8, <1>9, Zenon

LEMMA SessionNew ==
  ASSUME NEW N \in Nat, NEW discr \in 1..N
  PROVE  LET t == bfd_session_new(discr)
         IN  Typed(t, N) /\ Echoing(t) /\ ~t.shutdown /\ t.ses_state = DOWN
<1> DEFINE t == bfd_session_new(discr)
<1>1. /\ DOMAIN t = FieldNames /\ t = [f \in FieldNames |-> t[f]]
  BY DEF bfd_session_new, FieldNames, Flags, Numbers, Clocks, Words
<1>2. \A f \in Flags : t[f] \in BOOLEAN
  <2>1. /\ t.polling = FALSE /\ t.remote_demand = FALSE /\ t.demand = FALSE
        /\ t.passive = FALSE /\ t.shutdown = FALSE /\ t.echo = FALSE
        /\ t.echo_active = FALSE /\ t.sock = FALSE /\ t.echoes = FALSE
    BY Zenon DEF bfd_session_new
  <2> HIDE DEF t
  <2> QED  BY <2>1, Zenon DEF Flags
<1>3. \A f \in Numbers : t[f] \in Nat
  <2> DEFINE detect == BFD_DEFDETECTMULT * SlowTx
  <2>1. SlowTx \in Nat /\ detect \in Nat /\ BFD_DEFDETECTMULT \in Nat /\ 0 \in Nat /\ 1 \in Nat
    BY SlowTxNat, Zenon DEF BFD_DEFDETECTMULT
  <2>2. /\ t.remote_discr = 0 /\ t.tx = SlowTx /\ t.rx = SlowTx
        /\ t.mult = BFD_DEFDETECTMULT /\ t.echo_rx = 1 /\ t.cur_rx = SlowTx
        /\ t.xmt_TO = SlowTx /\ t.detect_TO = detect /\ t.echo_xmt_TO = 0
        /\ t.remote_tx = SlowTx /\ t.remote_rx = SlowTx
        /\ t.remote_mult = BFD_DEFDETECTMULT /\ t.remote_echo = 0
    BY Zenon DEF bfd_session_new
  <2> HIDE DEF t, detect
  <2> QED  BY <2>1, <2>2, Zenon DEF Numbers
<1>4. \A f \in Clocks : t[f] \in Int
  BY DEF bfd_session_new, Clocks, Off
<1>5. \A f \in Words : t[f] \in States
  BY DEF bfd_session_new, Words, States
<1>6. t.my_discr \in 1..N /\ t.txq \in Seq(Packets(N))
  BY DEF bfd_session_new
<1>7. \A f \in FieldNames : t[f] \in TypeOf(f, N)
  BY <1>2, <1>3, <1>4, <1>5, <1>6, Zenon DEF TypeOf, FieldNames
<1>8. /\ t.shutdown = FALSE /\ t.echo_active = FALSE /\ t.echo_xmt = Off
      /\ t.echo_recv = Off /\ t.ses_state = DOWN
  BY Zenon DEF bfd_session_new
<1> HIDE DEF t
<1> QED  BY <1>1, <1>7, <1>8, Zenon DEF Typed, Echoing, Muted, t

LEMMA RegistrateTimers ==
  ASSUME NEW N \in Nat, NEW discr \in 1..N, NEW c, ConfOK(c)
  PROVE  LET t == bs_registrate(discr, c)
         IN  Typed(t, N) /\ Armed(t) /\ (~c.shutdown => Echoing(t))
<1> DEFINE a == bfd_session_new(discr)
           b == bfd_session_enable(a)
           t == bfd_session_apply(b, c)
<1>0. bs_registrate(discr, c) = t
  BY Zenon DEF bs_registrate
<1>1. Typed(a, N) /\ Echoing(a) /\ ~a.shutdown /\ a.ses_state = DOWN
  BY SessionNew, Zenon
<1> HIDE DEF a
<1>2. Typed(b, N) /\ Echoing(b) /\ Armed(b)
  BY <1>1, SessionEnableTimers, Zenon
<1> HIDE DEF b
<1>3. KeepsIf(~c.shutdown, t, b, N)
  BY <1>2, SessionApplyTimers, Zenon
<1> HIDE DEF t
<1> QED  BY <1>0, <1>2, <1>3, Zenon DEF KeepsIf

-----------------------------------------------------------------------------
(* Timers that expire. *)

LEMMA EchoXmtCb ==
  ASSUME NEW N, NEW z, Typed(z, N), z.echo_xmt = 0
  PROVE  LET s == [z EXCEPT !.echo_xmt = Off]
         IN  Keeps(IF s.echo_xmt_TO > 0 THEN ptm_bfd_echo_xmt_TO(s) ELSE s, z, N)
<1> DEFINE s == [z EXCEPT !.echo_xmt = Off]
           t == ptm_bfd_echo_xmt_TO(s)
           u == IF s.echo_xmt_TO > 0 THEN t ELSE s
<1>1. Off \in Int /\ 0 # Off
  BY DEF Off
<1>2. EchoOnly(s, z, N) /\ Typed(s, N)
  BY <1>1, EchoPut, EchoTyped, Zenon
<1>3. /\ s.echo_active = z.echo_active /\ s.echo_recv = z.echo_recv
      /\ s.echo_xmt_TO = z.echo_xmt_TO
  BY Names, Zenon DEF Typed
<1> HIDE DEF s
<1>4. /\ EchoOnly(t, s, N)
      /\ t.echo_recv = s.echo_recv /\ t.echo_xmt_TO = s.echo_xmt_TO
      /\ ~s.shutdown /\ s.sock => t.echo_active /\ t.echo_xmt # Off
  BY <1>2, EchoXmt, Zenon
<1> HIDE DEF t
<1>5. EchoOnly(t, z, N) /\ Typed(t, N)
  BY <1>2, <1>4, EchoTrans, EchoTyped, Zenon
<1>6. Typed(u, N) /\ (Ready(z) => Ready(u)) /\ (Armed(z) => Armed(u))
  BY <1>2, <1>5, EchoOnlyKeeps, Zenon
<1>7. Echoing(z) => Echoing(u)
  <2> SUFFICES ASSUME Echoing(z) PROVE Echoing(u)
    OBVIOUS
  <2>1. /\ z.ses_state = UP /\ z.sock /\ z.echo_xmt_TO > 0 /\ ~z.shutdown
        /\ z.echo_recv # Off
    BY <1>1, Zenon DEF Echoing, Muted
  <2>2. u = t
    BY <1>3, <2>1, Zenon
  <2>3. t.ses_state = UP /\ t.sock /\ ~t.shutdown /\ ~s.shutdown /\ s.sock
    BY <1>2, <1>5, <2>1, Zenon DEF EchoOnly
  <2> QED  BY <1>3, <1>4, <2>1, <2>2, <2>3, Zenon DEF Echoing, Muted
<1> HIDE DEF u
<1> QED  BY <1>6, <1>7, Zenon DEF Keeps, u, t, s

LEMMA RecvTimerCb ==
  ASSUME NEW N, NEW z, Typed(z, N)
  PROVE  LET s == [z EXCEPT !.recv = Off]
         IN  Keeps(CASE s.ses_state \in {INIT, UP} -> ptm_bfd_sess_dn(s, FALSE)
                     [] s.ses_state = DOWN -> [s EXCEPT !.remote_discr = 0]
                     [] OTHER -> s, z, N)
<1> DEFINE s == [z EXCEPT !.recv = Off]
           d == ptm_bfd_sess_dn(s, FALSE)
           e == [s EXCEPT !.remote_discr = 0]
           u == CASE s.ses_state \in {INIT, UP} -> d
                  [] s.ses_state = DOWN -> e
                  [] OTHER -> s
<1>1. /\ Off \in Int /\ 0 \in Nat /\ FALSE \in BOOLEAN
      /\ DOWN \notin {INIT, UP} /\ ADM_DOWN \notin {INIT, UP}
  BY DEF Off, ADM_DOWN, DOWN, INIT, UP
<1>2. Typed(s, N)
  BY <1>1, PutField, Zenon
<1>3. /\ s.ses_state = z.ses_state /\ s.shutdown = z.shutdown /\ s.sock = z.sock
      /\ s.echo_active = z.echo_active /\ s.echo_xmt = z.echo_xmt
      /\ s.echo_recv = z.echo_recv /\ s.echo_xmt_TO = z.echo_xmt_TO
  BY Names, Zenon DEF Typed
<1>4. Calm(e, s, N)
  BY <1>1, <1>2, CalmPut, Zenon
<1> HIDE DEF e, s
<1>5. /\ Typed(d, N)
      /\ Ready(s) /\ s.ses_state # ADM_DOWN => Armed(d)
      /\ Muted(s) => Echoing(d)
  BY <1>1, <1>2, SessDnTimers, Zenon
<1>6. Ready(z) => Ready(s)
  BY <1>3, Zenon DEF Ready
<1>7. Echoing(z) => Echoing(s) /\ Muted(s)
  BY <1>3, Zenon DEF Echoing, Muted
<1> HIDE DEF d
<1>8. CASE s.ses_state \in {INIT, UP}
  <2>1. u = d
    BY <1>1, <1>8, Zenon
  <2> HIDE DEF u
  <2>2. Keeps(u, z, N)
    BY <1>1, <1>5, <1>6, <1>7, <1>8, <2>1, Zenon DEF Keeps, Armed
  <2> QED  BY <2>2, Zenon DEF u, d, s, e
<1>9. CASE s.ses_state \notin {INIT, UP}
  <2>1. u \in {e, s}
    BY <1>9, Zenon
  <2> HIDE DEF u
  <2>2. Keeps(e, s, N) /\ Keeps(s, s, N)
    BY <1>2, <1>4, CalmKeeps, KeepsSelf, Zenon
  <2>3. Keeps(u, s, N)
    BY <2>1, <2>2, Zenon
  <2>4. Ready(s) => Armed(s)
    BY <1>9, Zenon DEF Armed
  <2>5. Keeps(u, z, N)
    BY <1>6, <1>7, <2>3, <2>4, Zenon DEF Keeps, Armed
  <2> QED  BY <2>5, Zenon DEF u, d, s, e
<1> QED  BY <1>8, <1>9, Zenon

LEMMA EchoRecvTimerCb ==
  ASSUME NEW N, NEW z, Typed(z, N), z.echo_recv = 0
  PROVE  LET s == [z EXCEPT !.echo_recv = Off]
         IN  Keeps(IF s.ses_state \in {INIT, UP} THEN ptm_bfd_sess_dn(s, FALSE) ELSE s, z, N)
<1> DEFINE s == [z EXCEPT !.echo_recv = Off]
           d == ptm_bfd_sess_dn(s, FALSE)
           u == IF s.ses_state \in {INIT, UP} THEN d ELSE s
<1>1. Off \in Int /\ 0 # Off /\ FALSE \in BOOLEAN /\ ADM_DOWN \notin {INIT, UP}
  BY DEF Off, ADM_DOWN, INIT, UP
<1>2. EchoOnly(s, z, N) /\ Typed(s, N)
  BY <1>1, EchoPut, EchoTyped, Zenon
<1>3. s.echo_active = z.echo_active /\ s.echo_xmt = z.echo_xmt /\ s.echo_recv = Off
  BY Names, Zenon DEF Typed
<1> HIDE DEF s
<1>4. /\ Typed(d, N)
      /\ Ready(s) /\ s.ses_state # ADM_DOWN => Armed(d)
      /\ Muted(s) => Echoing(d)
  BY <1>1, <1>2, SessDnTimers, Zenon
<1> HIDE DEF d
<1>5. (Ready(z) => Ready(s)) /\ (Armed(z) => Armed(s))
  BY <1>2, EchoOnlyKeeps, Zenon
<1>6. Echoing(z) => Muted(s) /\ s.ses_state = UP
  BY <1>1, <1>2, <1>3, Zenon DEF Echoing, Muted, EchoOnly
<1>7. Keeps(u, z, N)
  BY <1>1, <1>2, <1>4, <1>5, <1>6, Zenon DEF Keeps, Armed
<1> HIDE DEF u
<1> QED  BY <1>7, Zenon DEF u, d, s

-----------------------------------------------------------------------------
(* The steps. *)

NoDisable == "disable" \notin Events
NoShut == \A c \in Configs : ~c.shutdown

\* The session of an end goes from s to t in one step.
Carries(t, s, N) ==
  /\ Typed(t, N)
  /\ NoDisable /\ Armed(s) => Armed(t)
  /\ NoShut /\ Echoing(s) => Echoing(t)

Sessions == bs = [n \in Nodes |-> bs[n]] /\ \A n \in Nodes : Typed(bs[n], ndiscr)
Counts ==
  /\ heard \in [Nodes -> SUBSET (1..ndiscr)]
  /\ ndiscr \in Nat /\ env \in 0..MaxEnv /\ lost \in 0..MaxLoss

\* TypeOK with the discriminators that have been given out.
BfdTyped == Sessions /\ Counts

\* Every session moves.
AllMove == bs' = [n \in Nodes |-> bs'[n]] /\ \A n \in Nodes : Carries(bs'[n], bs[n], ndiscr')

LEMMA MovesFacts ==
  ASSUME NEW N, NEW s, NEW t
  PROVE  /\ Keeps(t, s, N) => Carries(t, s, N)
         /\ Calm(t, s, N) => Carries(t, s, N)
         /\ Typed(s, N) => Carries(s, s, N)
         /\ Carries(t, s, N) => Typed(t, N)
<1>1. Calm(t, s, N) => Keeps(t, s, N)
  BY CalmKeeps, Zenon
<1> QED  BY <1>1, Zenon DEF Keeps, Carries

LEMMA CarriesTrans ==
  ASSUME NEW N, NEW s, NEW t, NEW u, Carries(t, s, N), Carries(u, t, N)
  PROVE  Carries(u, s, N)
  BY Zenon DEF Carries

\* More discriminators, same session.
LEMMA TypedGrow ==
  ASSUME NEW N \in Nat, NEW s, Typed(s, N)
  PROVE  Typed(s, N + 1)
<1>1. \A p \in Packets(N) : p \in Packets(N + 1)
  BY DEF Packets
<1>2. s.txq \in Seq(Packets(N)) /\ s.my_discr \in 1..N
  BY FieldTypes, Zenon
<1>3. s.txq \in Seq(Packets(N + 1)) /\ s.my_discr \in 1..(N + 1)
  BY <1>1, <1>2
<1>4. ASSUME NEW f \in FieldNames PROVE s[f] \in TypeOf(f, N + 1)
  <2>1. s[f] \in TypeOf(f, N)
    BY Zenon DEF Typed
  <2>2. CASE f \in {"my_discr", "txq"}
    BY <1>3, <2>2, OtherTypes, Zenon
  <2>3. CASE f \notin {"my_discr", "txq"}
    BY <2>1, <2>3, Zenon DEF TypeOf, FieldNames
  <2> QED  BY <2>2, <2>3, Zenon
<1> QED  BY <1>4, Zenon DEF Typed

LEMMA BecomesMoves ==
  ASSUME Sessions, NEW n \in Nodes, NEW u, NEW N, Typed(bs[n], N), Carries(u, bs[n], N)
  PROVE  LET b == Becomes(n, u)
         IN  /\ b = [m \in Nodes |-> b[m]]
             /\ Carries(b[n], bs[n], N)
             /\ \A m \in Nodes : m # n => b[m] = bs[m]
<1> DEFINE q == bs[n].txq
           d == [u EXCEPT !.txq = q]
           v == IF bs[Peer(n)].sock THEN u ELSE d
           b == [bs EXCEPT ![n] = v]
<1>0. Becomes(n, u) = b
  BY Zenon DEF Becomes
<1>1. Typed(bs[n], N) /\ Typed(u, N)
  BY MovesFacts, Zenon
<1>2. q \in Seq(Packets(N))
  BY <1>1, FieldTypes, Zenon
<1> HIDE DEF q
<1>3. Carries(d, u, N)
  BY <1>1, <1>2, CalmPut, MovesFacts, Zenon
<1> HIDE DEF d
<1>4. Carries(v, bs[n], N)
  BY <1>3, CarriesTrans, Zenon
<1> HIDE DEF v
<1>5. DOMAIN bs = Nodes
  BY Zenon DEF Sessions
<1>6. b = [m \in Nodes |-> b[m]] /\ b[n] = v /\ \A m \in Nodes : m # n => b[m] = bs[m]
  BY <1>5, Zenon
<1> HIDE DEF b
<1> QED  BY <1>0, <1>4, <1>6, Zenon

\* One session changes, the other stays.
LEMMA OneMoves ==
  ASSUME Sessions, NEW n \in Nodes, NEW u, NEW N,
         \A m \in Nodes : Typed(bs[m], N), Carries(u, bs[n], N),
         bs' = Becomes(n, u), ndiscr' = N
  PROVE  AllMove
<1> DEFINE b == Becomes(n, u)
<1>1. /\ b = [m \in Nodes |-> b[m]]
      /\ Carries(b[n], bs[n], N)
      /\ \A m \in Nodes : m # n => b[m] = bs[m]
  BY BecomesMoves, Zenon
<1>2. bs' = b
  OBVIOUS
<1> HIDE DEF b
<1>3. \A m \in Nodes : Carries(bs[m], bs[m], N)
  BY MovesFacts, Zenon
<1>4. ASSUME NEW m \in Nodes PROVE Carries(bs'[m], bs[m], ndiscr')
  <2>1. CASE m = n
    BY <1>1, <1>2, <2>1, Zenon
  <2>2. CASE m # n
    BY <1>1, <1>2, <1>3, <2>2, Zenon
  <2> QED  BY <2>1, <2>2, Zenon
<1> QED  BY <1>1, <1>2, <1>4, Zenon DEF AllMove

LEMMA TimersMove ==
  ASSUME BfdTyped, NEW n \in Nodes, Timers(n)
  PROVE  AllMove /\ UNCHANGED <<heard, ndiscr, env, lost>>
<1> DEFINE z == bs[n]
<1>0. Typed(z, ndiscr) /\ Sessions
  BY Zenon DEF BfdTyped, Sessions
<1>1. \E u : Keeps(u, z, ndiscr) /\ Handle(n, u)
  <2>1. CASE bfd_xmt_cb(n)
    <3>1. Handle(n, ptm_bfd_xmt_TO(z))
      BY <2>1, Zenon DEF bfd_xmt_cb
    <3>2. Keeps(ptm_bfd_xmt_TO(z), z, ndiscr)
      BY <1>0, Xmt, CalmKeeps, Zenon
    <3> QED  BY <3>1, <3>2, Zenon
  <2>2. CASE bfd_echo_xmt_cb(n)
    <3> DEFINE s == [z EXCEPT !.echo_xmt = Off]
               u == IF s.echo_xmt_TO > 0 THEN ptm_bfd_echo_xmt_TO(s) ELSE s
    <3>1. Handle(n, u) /\ z.echo_xmt = 0
      BY <2>2, Zenon DEF bfd_echo_xmt_cb
    <3>2. Keeps(u, z, ndiscr)
      BY <1>0, <3>1, EchoXmtCb, Zenon
    <3> HIDE DEF u
    <3> QED  BY <3>1, <3>2, Zenon
  <2>3. CASE bfd_recvtimer_cb(n)
    <3> DEFINE s == [z EXCEPT !.recv = Off]
               u == CASE s.ses_state \in {INIT, UP} -> ptm_bfd_sess_dn(s, FALSE)
                      [] s.ses_state = DOWN -> [s EXCEPT !.remote_discr = 0]
                      [] OTHER -> s
    <3>1. Handle(n, u)
      BY <2>3, Zenon DEF bfd_recvtimer_cb
    <3>2. Keeps(u, z, ndiscr)
      BY <1>0, RecvTimerCb, Zenon
    <3> HIDE DEF u
    <3> QED  BY <3>1, <3>2, Zenon
  <2>4. CASE bfd_echo_recvtimer_cb(n)
    <3> DEFINE s == [z EXCEPT !.echo_recv = Off]
               u == IF s.ses_state \in {INIT, UP} THEN ptm_bfd_sess_dn(s, FALSE) ELSE s
    <3>1. Handle(n, u) /\ z.echo_recv = 0
      BY <2>4, Zenon DEF bfd_echo_recvtimer_cb
    <3>2. Keeps(u, z, ndiscr)
      BY <1>0, <3>1, EchoRecvTimerCb, Zenon
    <3> HIDE DEF u
    <3> QED  BY <3>1, <3>2, Zenon
  <2> QED  BY <2>1, <2>2, <2>3, <2>4, Zenon DEF Timers
<1>2. PICK u : Keeps(u, z, ndiscr) /\ Handle(n, u)
  BY <1>1, Zenon
<1>3. bs' = Becomes(n, u) /\ UNCHANGED <<heard, ndiscr, env, lost>>
  BY <1>2, Zenon DEF Handle
<1>4. Carries(u, z, ndiscr) /\ ndiscr' = ndiscr
  BY <1>2, <1>3, MovesFacts, Zenon
<1> QED  BY <1>0, <1>3, <1>4, OneMoves, Zenon DEF Sessions

LEMMA QueueTyped ==
  ASSUME NEW S, NEW q \in Seq(S), NEW i \in DOMAIN q
  PROVE  /\ q[i] \in S
         /\ SubSeq(q, 1, i - 1) \o SubSeq(q, i + 1, Len(q)) \in Seq(S)
<1>1. i \in 1..Len(q) /\ Len(q) \in Nat
  OBVIOUS
<1>2. SubSeq(q, 1, i - 1) \in Seq(S)
  BY <1>1
<1>3. SubSeq(q, i + 1, Len(q)) \in Seq(S)
  BY <1>1
<1> QED  BY <1>1, <1>2, <1>3

LEMMA ReceiveMoves ==
  ASSUME BfdTyped, NEW n \in Nodes, Receive(n)
  PROVE  AllMove /\ Counts'
<1> DEFINE p == Peer(n)
           q == bs[p].txq
<1>0. p \in Nodes /\ p # n /\ Sessions /\ Counts
  BY PeerFacts, Zenon DEF BfdTyped
<1>1. PICK i \in DOMAIN q, keep \in BOOLEAN :
        LET rest == SubSeq(q, 1, i - 1) \o SubSeq(q, i + 1, Len(q))
        IN /\ bs' = [Becomes(n, bfd_recv_cb(bs[n], q[i])) EXCEPT
                      ![p].txq = IF keep THEN q ELSE rest]
           /\ heard' = [heard EXCEPT ![n] =
                         IF Accepted(bs[n], q[i]) THEN @ \cup {q[i].my} ELSE @]
           /\ UNCHANGED <<ndiscr, env, lost>>
  BY ZenonT(30) DEF Receive
<1> DEFINE cp == q[i]
           rest == SubSeq(q, 1, i - 1) \o SubSeq(q, i + 1, Len(q))
           nq == IF keep THEN q ELSE rest
           r == bfd_recv_cb(bs[n], cp)
           b == Becomes(n, r)
           d == [bs[p] EXCEPT !.txq = nq]
           G == IF Accepted(bs[n], cp) THEN heard[n] \cup {cp.my} ELSE heard[n]
<1>2. bs' = [b EXCEPT ![p].txq = nq] /\ heard' = [heard EXCEPT ![n] = G]
      /\ ndiscr' = ndiscr /\ env' = env /\ lost' = lost
  BY <1>1, Zenon
<1>3. Typed(bs[n], ndiscr) /\ Typed(bs[p], ndiscr) /\ ndiscr \in Nat
  BY <1>0, Zenon DEF Sessions, Counts
<1>4. q \in Seq(Packets(ndiscr))
  BY <1>3, FieldTypes, Zenon
<1> HIDE DEF q
<1>5. cp \in Packets(ndiscr) /\ nq \in Seq(Packets(ndiscr))
  BY <1>4, QueueTyped, Zenon
<1>6. cp.my \in 1..ndiscr
  BY <1>5, Zenon DEF Packets
<1> HIDE DEF cp, nq, rest
<1>7. Carries(r, bs[n], ndiscr)
  BY <1>3, <1>5, RecvCb, MovesFacts, Zenon
<1> HIDE DEF r
<1>8. /\ b = [m \in Nodes |-> b[m]]
      /\ Carries(b[n], bs[n], ndiscr)
      /\ \A m \in Nodes : m # n => b[m] = bs[m]
  BY <1>0, <1>3, <1>7, BecomesMoves, Zenon
<1> HIDE DEF b
<1>9. Carries(d, bs[p], ndiscr)
  BY <1>3, <1>5, CalmPut, MovesFacts, Zenon
<1>10. /\ bs' = [m \in Nodes |-> bs'[m]] /\ bs'[n] = b[n] /\ bs'[p] = d
       /\ \A m \in Nodes : m # n /\ m # p => bs'[m] = bs[m]
  BY <1>0, <1>2, <1>8, Zenon
<1> HIDE DEF d
<1>11. \A m \in Nodes : Carries(bs[m], bs[m], ndiscr)
  BY <1>0, MovesFacts, Zenon DEF Sessions
<1>12. ASSUME NEW m \in Nodes PROVE Carries(bs'[m], bs[m], ndiscr')
  BY <1>2, <1>8, <1>9, <1>10, <1>11, Zenon
<1>13. Counts'
  <2>1. G \in SUBSET (1..ndiscr)
    BY <1>0, <1>6, Zenon DEF Counts
  <2> HIDE DEF G
  <2>2. [heard EXCEPT ![n] = G] \in [Nodes -> SUBSET (1..ndiscr)]
    BY <1>0, <2>1, Zenon DEF Counts
  <2> QED  BY <1>0, <1>2, <2>2, Zenon DEF Counts
<1> QED  BY <1>10, <1>12, <1>13, Zenon DEF AllMove

LEMMA EchoMoves ==
  ASSUME BfdTyped, NEW n \in Nodes, ReceiveEcho(n)
  PROVE  AllMove /\ UNCHANGED <<heard, ndiscr, env, lost>>
<1>0. Typed(bs[n], ndiscr) /\ Sessions
  BY Zenon DEF BfdTyped, Sessions
<1>1. PICK more \in BOOLEAN :
        Handle(n, ptm_bfd_process_echo_pkt([bs[n] EXCEPT !.echoes = more]))
  BY Zenon DEF ReceiveEcho
<1> DEFINE s == [bs[n] EXCEPT !.echoes = more]
           t == ptm_bfd_process_echo_pkt(s)
<1>2. bs' = Becomes(n, t) /\ UNCHANGED <<heard, ndiscr, env, lost>> /\ ndiscr' = ndiscr
  BY <1>1, Zenon DEF Handle
<1>3. Calm(s, bs[n], ndiscr) /\ Typed(s, ndiscr)
  BY <1>0, CalmPut, CalmTyped, Zenon
<1> HIDE DEF s
<1>4. Keeps(t, s, ndiscr)
  BY <1>3, ProcessEcho, Zenon
<1> HIDE DEF t
<1>5. Carries(t, bs[n], ndiscr)
  BY <1>3, <1>4, MovesFacts, CarriesTrans, Zenon
<1> QED  BY <1>0, <1>2, <1>5, OneMoves, Zenon DEF Sessions

LEMMA LoseMoves ==
  ASSUME BfdTyped, NEW n \in Nodes, Lose(n)
  PROVE  AllMove /\ Counts'
<1> DEFINE q == Tail(bs[n].txq)
           c == [bs[n] EXCEPT !.txq = q]
           e == [bs[n] EXCEPT !.echoes = FALSE]
<1>0. Typed(bs[n], ndiscr) /\ Sessions /\ Counts /\ DOMAIN bs = Nodes
  BY Zenon DEF BfdTyped, Sessions
<1>1. \/ bs[n].txq # << >> /\ bs' = [bs EXCEPT ![n] = c]
      \/ bs' = [bs EXCEPT ![n] = e]
  BY Zenon DEF Lose
<1>2. heard' = heard /\ ndiscr' = ndiscr /\ env' = env
  BY Zenon DEF Lose
<1>3. bs[n].txq \in Seq(Packets(ndiscr))
  BY <1>0, FieldTypes, Zenon
<1>4. bs[n].txq # << >> => q \in Seq(Packets(ndiscr))
  BY <1>3
<1> HIDE DEF q
<1>5. /\ bs[n].txq # << >> => Carries(c, bs[n], ndiscr)
      /\ Carries(e, bs[n], ndiscr)
  BY <1>0, <1>4, CalmPut, MovesFacts, Zenon
<1> HIDE DEF c, e
<1>6. PICK u : Carries(u, bs[n], ndiscr) /\ bs' = [bs EXCEPT ![n] = u]
  BY <1>1, <1>5, Zenon
<1>7. /\ bs' = [m \in Nodes |-> bs'[m]] /\ bs'[n] = u
      /\ \A m \in Nodes : m # n => bs'[m] = bs[m]
  BY <1>0, <1>6, Zenon
<1>8. \A m \in Nodes : Carries(bs[m], bs[m], ndiscr)
  BY <1>0, MovesFacts, Zenon DEF Sessions
<1>9. ASSUME NEW m \in Nodes PROVE Carries(bs'[m], bs[m], ndiscr')
  BY <1>2, <1>6, <1>7, <1>8, Zenon
<1>10. lost' \in 0..MaxLoss
  <2>1. lost \in 0..MaxLoss /\ MaxLoss \in Nat
    BY <1>0, BfdAssumption, Zenon DEF Counts
  <2>2. lost' = lost \/ (lost < MaxLoss /\ lost' = lost + 1)
    BY Zenon DEF Lose
  <2> QED  BY <2>1, <2>2
<1>11. Counts'
  BY <1>0, <1>2, <1>10, Zenon DEF Counts
<1> QED  BY <1>7, <1>9, <1>11, Zenon DEF AllMove

LEMMA EnvCounts ==
  ASSUME BfdTyped, NEW e, External(e)
  PROVE  env' \in 0..MaxEnv
<1>1. env \in 0..MaxEnv /\ MaxEnv \in Nat
  BY BfdAssumption, Zenon DEF BfdTyped, Counts
<1>2. env < MaxEnv /\ env' = env + 1
  BY Zenon DEF External
<1> QED  BY <1>1, <1>2

LEMMA ApplyMoves ==
  ASSUME BfdTyped, NEW n \in Nodes, Apply(n)
  PROVE  AllMove /\ Counts'
<1>0. Typed(bs[n], ndiscr) /\ Sessions /\ Counts
  BY Zenon DEF BfdTyped, Sessions
<1>1. PICK c \in Configs : bs' = Becomes(n, bfd_session_apply(bs[n], c))
  BY Zenon DEF Apply
<1>2. heard' = heard /\ ndiscr' = ndiscr /\ lost' = lost
  BY Zenon DEF Apply
<1>3. env' \in 0..MaxEnv
  BY EnvCounts, Zenon DEF Apply
<1> DEFINE t == bfd_session_apply(bs[n], c)
<1>4. ConfOK(c)
  <2>1. c \in Config
    BY BfdAssumption, Zenon
  <2> QED  BY <2>1, Zenon DEF Config, ConfOK
<1>5. KeepsIf(~c.shutdown, t, bs[n], ndiscr)
  BY <1>0, <1>4, SessionApplyTimers, Zenon
<1>6. bs' = Becomes(n, t)
  BY <1>1, Zenon
<1> HIDE DEF t
<1>7. Carries(t, bs[n], ndiscr)
  BY <1>5, Zenon DEF KeepsIf, Carries, NoShut
<1>8. AllMove
  BY <1>0, <1>2, <1>6, <1>7, OneMoves, Zenon DEF Sessions
<1>9. Counts'
  BY <1>0, <1>2, <1>3, Zenon DEF Counts
<1> QED  BY <1>8, <1>9, Zenon

LEMMA InterfaceMoves ==
  ASSUME BfdTyped, NEW n \in Nodes, Disable(n) \/ Enable(n)
  PROVE  AllMove /\ Counts'
<1>0. Typed(bs[n], ndiscr) /\ Sessions /\ Counts
  BY Zenon DEF BfdTyped, Sessions
<1>1. CASE Disable(n)
  <2> DEFINE t == bfd_session_disable(bs[n])
  <2>1. bs' = Becomes(n, t) /\ heard' = heard /\ ndiscr' = ndiscr /\ lost' = lost
    BY <1>1, Zenon DEF Disable
  <2>2. ~NoDisable /\ env' \in 0..MaxEnv
    BY <1>1, EnvCounts, Zenon DEF Disable, NoDisable, External
  <2>3. Typed(t, ndiscr) /\ (Echoing(bs[n]) => Echoing(t))
    BY <1>0, SessionDisableTimers, Zenon
  <2> HIDE DEF t
  <2>4. Carries(t, bs[n], ndiscr)
    BY <2>2, <2>3, Zenon DEF Carries
  <2>5. AllMove
    BY <1>0, <2>1, <2>4, OneMoves, Zenon DEF Sessions
  <2>6. Counts'
    BY <1>0, <2>1, <2>2, Zenon DEF Counts
  <2> QED  BY <2>5, <2>6, Zenon
<1>2. CASE Enable(n)
  <2> DEFINE t == bfd_session_enable(bs[n])
  <2>1. /\ bs' = Becomes(n, t) /\ heard' = heard /\ ndiscr' = ndiscr /\ lost' = lost
        /\ env' = env /\ ~bs[n].sock
    BY <1>2, Zenon DEF Enable, Handle
  <2>2. Typed(t, ndiscr) /\ (Echoing(bs[n]) => Echoing(t))
    BY <1>0, SessionEnableTimers, Zenon
  <2> HIDE DEF t
  <2>3. Carries(t, bs[n], ndiscr)
    BY <2>1, <2>2, Zenon DEF Carries, Armed, Ready
  <2>4. AllMove
    BY <1>0, <2>1, <2>3, OneMoves, Zenon DEF Sessions
  <2>5. Counts'
    BY <1>0, <2>1, Zenon DEF Counts
  <2> QED  BY <2>4, <2>5, Zenon
<1> QED  BY <1>1, <1>2, Zenon

LEMMA RestartMoves ==
  ASSUME BfdTyped, NEW n \in Nodes, Restart(n)
  PROVE  AllMove /\ Counts'
<1> DEFINE N == ndiscr + 1
           z == bs[n]
           c == [tx |-> z.tx, rx |-> z.rx, mult |-> z.mult, echo |-> z.echo,
                 echo_rx |-> z.echo_rx, demand |-> z.demand, passive |-> z.passive,
                 shutdown |-> z.shutdown]
           s == bs_registrate(N, c)
           q == z.txq \o s.txq
           t == [s EXCEPT !.txq = q]
<1>0. Typed(z, ndiscr) /\ Sessions /\ Counts /\ ndiscr \in Nat
  BY Zenon DEF BfdTyped, Sessions, Counts
<1>1. bs' = Becomes(n, t) /\ ndiscr' = N /\ heard' = heard /\ lost' = lost
  BY Zenon DEF Restart
<1>2. env' \in 0..MaxEnv
  BY EnvCounts, Zenon DEF Restart
<1>3. N \in Nat /\ N \in 1..N /\ 1..ndiscr \subseteq 1..N
  BY <1>0
<1>4. \A m \in Nodes : Typed(bs[m], N)
  BY <1>0, TypedGrow, Zenon DEF Sessions
<1> HIDE DEF N
<1>5. ConfOK(c) /\ c.shutdown = z.shutdown
  BY <1>0, FieldTypes, Zenon DEF ConfOK
<1> HIDE DEF c
<1>6. Typed(s, N) /\ Armed(s) /\ (~c.shutdown => Echoing(s))
  BY <1>3, <1>5, RegistrateTimers, Zenon
<1> HIDE DEF s
<1>7. z.txq \in Seq(Packets(N)) /\ s.txq \in Seq(Packets(N))
  BY <1>4, <1>6, FieldTypes, Zenon
<1>8. q \in Seq(Packets(N))
  BY <1>7
<1> HIDE DEF q
<1>9. Keeps(t, s, N)
  BY <1>6, <1>8, CalmPut, CalmKeeps, Zenon
<1> HIDE DEF t
<1>10. Carries(t, z, N)
  BY <1>5, <1>6, <1>9, Zenon DEF Carries, Keeps, Echoing, Muted
<1>11. AllMove
  BY <1>0, <1>1, <1>4, <1>10, OneMoves, Zenon
<1>12. heard \in [Nodes -> SUBSET (1..N)]
  BY <1>0, <1>3, Zenon DEF Counts
<1>13. Counts'
  BY <1>0, <1>1, <1>2, <1>3, <1>12, Zenon DEF Counts
<1> QED  BY <1>11, <1>13, Zenon

\* A tick leaves a timer that runs running: none that is due is passed over.
LEMMA TickMoves ==
  ASSUME BfdTyped, Tick
  PROVE  AllMove /\ UNCHANGED <<heard, ndiscr, env, lost>>
<1> DEFINE Left(x) == IF x = Off THEN Off ELSE x - 1
           a(n) == [bs[n] EXCEPT !.recv = Left(bs[n].recv)]
           b(n) == [a(n) EXCEPT !.xmt = Left(bs[n].xmt)]
           c(n) == [b(n) EXCEPT !.echo_recv = Left(bs[n].echo_recv)]
           t(n) == [c(n) EXCEPT !.echo_xmt = Left(bs[n].echo_xmt)]
<1>1. bs' = [n \in Nodes |-> t(n)] /\ UNCHANGED <<heard, ndiscr, env, lost>>
  <2>1. bs' = [n \in Nodes |->
                 [bs[n] EXCEPT !.recv = Left(@), !.xmt = Left(@),
                               !.echo_recv = Left(@), !.echo_xmt = Left(@)]]
    BY Zenon DEF Tick
  <2>2. ASSUME NEW n \in Nodes
        PROVE  [bs[n] EXCEPT !.recv = Left(@), !.xmt = Left(@),
                             !.echo_recv = Left(@), !.echo_xmt = Left(@)] = t(n)
    <3>1. DOMAIN bs[n] = FieldNames
      BY Zenon DEF BfdTyped, Sessions, Typed
    <3> HIDE DEF Left
    <3> QED  BY <3>1, Zenon
  <2> HIDE DEF t
  <2>3. bs' = [n \in Nodes |-> t(n)]
    BY <2>1, <2>2, Zenon
  <2> QED  BY <2>3, Zenon DEF Tick
<1>2. \A x \in Int : /\ Left(x) \in Int /\ (x = Off => Left(x) = Off)
                     /\ x # 0 /\ x # Off => Left(x) # Off
  BY DEF Off
<1> HIDE DEF Left
<1>3. ASSUME NEW n \in Nodes PROVE Carries(t(n), bs[n], ndiscr)
  <2> DEFINE z == bs[n]
  <2>0. Typed(z, ndiscr) /\ z.recv # 0 /\ z.xmt # 0 /\ z.echo_recv # 0 /\ z.echo_xmt # 0
    BY Zenon DEF BfdTyped, Sessions, Tick
  <2>1. z.recv \in Int /\ z.xmt \in Int /\ z.echo_recv \in Int /\ z.echo_xmt \in Int
    BY <2>0, FieldTypes, Zenon
  <2>2. /\ Left(z.recv) \in Int /\ Left(z.xmt) \in Int /\ Left(z.echo_recv) \in Int
        /\ Left(z.echo_xmt) \in Int
        /\ z.recv # Off => Left(z.recv) # Off
        /\ z.echo_recv = Off => Left(z.echo_recv) = Off
        /\ z.echo_recv # Off => Left(z.echo_recv) # Off
        /\ z.echo_xmt = Off => Left(z.echo_xmt) = Off
        /\ z.echo_xmt # Off => Left(z.echo_xmt) # Off
    BY <1>2, <2>0, <2>1, Zenon
  <2>3. Typed(a(n), ndiscr)
    BY <2>0, <2>2, PutField, Zenon
  <2>4. /\ a(n).ses_state = z.ses_state /\ a(n).remote_ses_state = z.remote_ses_state
        /\ a(n).shutdown = z.shutdown /\ a(n).sock = z.sock /\ a(n).demand = z.demand
        /\ a(n).polling = z.polling /\ a(n).recv = Left(z.recv)
        /\ a(n).echo_active = z.echo_active /\ a(n).echo_xmt = z.echo_xmt
        /\ a(n).echo_recv = z.echo_recv /\ a(n).echo_xmt_TO = z.echo_xmt_TO
    BY <2>0, Names, Zenon DEF Typed
  <2> HIDE DEF a
  <2>5. Keeps(a(n), z, ndiscr)
    BY <2>2, <2>3, <2>4, Zenon DEF Keeps, Ready, Armed, BothUp, Echoing, Muted
  <2>6. Keeps(b(n), a(n), ndiscr) /\ Typed(b(n), ndiscr)
    BY <2>2, <2>3, CalmPut, CalmKeeps, CalmTyped, Zenon
  <2>7. b(n).echo_recv = a(n).echo_recv /\ b(n).echo_xmt = a(n).echo_xmt
    BY <2>3, Names, Zenon DEF Typed
  <2> HIDE DEF b
  <2>8. EchoOnly(c(n), b(n), ndiscr) /\ Typed(c(n), ndiscr)
    BY <2>2, <2>6, EchoPut, EchoTyped, Zenon
  <2>9. /\ c(n).echo_recv = Left(z.echo_recv) /\ c(n).echo_xmt = b(n).echo_xmt
        /\ c(n).echo_active = b(n).echo_active /\ c(n).echo_xmt_TO = b(n).echo_xmt_TO
    BY <2>6, Names, Zenon DEF Typed
  <2> HIDE DEF c
  <2>10. EchoOnly(t(n), c(n), ndiscr)
    BY <2>2, <2>8, EchoPut, Zenon
  <2>11. /\ t(n).echo_recv = c(n).echo_recv /\ t(n).echo_xmt = Left(z.echo_xmt)
         /\ t(n).echo_active = c(n).echo_active /\ t(n).echo_xmt_TO = c(n).echo_xmt_TO
    BY <2>8, Names, Zenon DEF Typed
  <2> HIDE DEF t
  <2>12. EchoOnly(t(n), b(n), ndiscr) /\ Typed(t(n), ndiscr)
    BY <2>8, <2>10, EchoTrans, EchoTyped, Zenon
  <2>13. Echoing(b(n)) => Echoing(t(n))
    BY <2>2, <2>4, <2>7, <2>9, <2>11, <2>12, Zenon DEF Echoing, Muted, EchoOnly
  <2>14. Keeps(t(n), b(n), ndiscr)
    BY <2>12, <2>13, EchoOnlyKeeps, Zenon DEF Keeps
  <2>15. Keeps(b(n), z, ndiscr)
    BY <2>5, <2>6, KeepsTrans, Zenon
  <2>16. Keeps(t(n), z, ndiscr)
    BY <2>14, <2>15, KeepsTrans, Zenon
  <2> QED  BY <2>16, MovesFacts, Zenon
<1> HIDE DEF t
<1>4. \A n \in Nodes : Carries(bs'[n], bs[n], ndiscr')
  <2>1. ASSUME NEW n \in Nodes PROVE bs'[n] = t(n) /\ Carries(t(n), bs[n], ndiscr')
    BY <1>1, <1>3, Zenon
  <2> QED  BY <2>1, Zenon
<1>5. bs' = [n \in Nodes |-> bs'[n]]
  BY <1>1, Zenon
<1>6. AllMove
  BY <1>4, <1>5, Zenon DEF AllMove
<1> QED  BY <1>1, <1>6, Zenon

-----------------------------------------------------------------------------
(* The theorems. *)

\* What every reachable state satisfies.
TimerInv ==
  /\ BfdTyped
  /\ NoDisable => \A n \in Nodes : Armed(bs[n])
  /\ NoShut => \A n \in Nodes : Echoing(bs[n])

LEMMA NextMoves ==
  ASSUME BfdTyped, Next
  PROVE  AllMove /\ Counts'
<1>1. CASE Tick
  <2>1. AllMove /\ UNCHANGED <<heard, ndiscr, env, lost>>
    BY <1>1, TickMoves, Zenon
  <2> QED  BY <2>1, Zenon DEF Counts, BfdTyped
<1>2. ASSUME NEW n \in Nodes, Timers(n) \/ Network(n) \/ Operator(n)
      PROVE  AllMove /\ Counts'
  <2>1. CASE Timers(n) \/ ReceiveEcho(n)
    <3>1. AllMove /\ UNCHANGED <<heard, ndiscr, env, lost>>
      BY <2>1, TimersMove, EchoMoves, Zenon
    <3> QED  BY <3>1, Zenon DEF Counts, BfdTyped
  <2>2. CASE Receive(n)
    BY <2>2, ReceiveMoves, Zenon
  <2>3. CASE Lose(n)
    BY <2>3, LoseMoves, Zenon
  <2>4. CASE Apply(n)
    BY <2>4, ApplyMoves, Zenon
  <2>5. CASE Disable(n) \/ Enable(n)
    BY <2>5, InterfaceMoves, Zenon
  <2>6. CASE Restart(n)
    BY <2>6, RestartMoves, Zenon
  <2> QED  BY <1>2, <2>1, <2>2, <2>3, <2>4, <2>5, <2>6, Zenon DEF Network, Operator
<1> QED  BY <1>1, <1>2, Zenon DEF Next

LEMMA TimerStep ==
  ASSUME TimerInv, [Next]_vars
  PROVE  TimerInv'
<1>1. CASE Next
  <2>1. AllMove /\ Counts'
    BY <1>1, NextMoves, Zenon DEF TimerInv
  <2> QED  BY <2>1, Zenon DEF AllMove, Carries, TimerInv, BfdTyped, Sessions
<1>2. CASE UNCHANGED vars
  <2>1. bs' = bs /\ heard' = heard /\ ndiscr' = ndiscr /\ env' = env /\ lost' = lost
    BY <1>2, Zenon DEF vars
  <2>2. BfdTyped'
    BY <2>1, Zenon DEF TimerInv, BfdTyped, Sessions, Counts
  <2> QED  BY <2>1, <2>2, Zenon DEF TimerInv
<1> QED  BY <1>1, <1>2, Zenon

LEMMA TimerInit ==
  ASSUME Init
  PROVE  TimerInv
<1>1. PICK first \in Nodes :
        bs = [n \in Nodes |-> bs_registrate(IF n = first THEN 1 ELSE 2, Initial[n])]
  BY Zenon DEF Init
<1>2. /\ heard = [n \in Nodes |-> {}] /\ ndiscr = 2 /\ env = 0 /\ lost = 0
  BY Zenon DEF Init
<1>3. /\ \A n \in Nodes : Initial[n] \in Configs
      /\ \A c \in Configs : c \in Config
      /\ MaxEnv \in Nat /\ MaxLoss \in Nat
  BY BfdAssumption, Zenon
<1>4. 2 \in Nat /\ 1 \in 1..2 /\ 2 \in 1..2
  OBVIOUS
<1>5. ASSUME NEW n \in Nodes
      PROVE  Typed(bs[n], 2) /\ Armed(bs[n]) /\ (NoShut => Echoing(bs[n]))
  <2> DEFINE d == IF n = first THEN 1 ELSE 2
             c == Initial[n]
  <2>1. d \in 1..2 /\ c \in Configs
    BY <1>3, <1>4, Zenon
  <2>2. ConfOK(c)
    <3>1. c \in Config
      BY <1>3, <2>1, Zenon
    <3> HIDE DEF c
    <3> QED  BY <3>1, Zenon DEF Config, ConfOK
  <2>3. bs[n] = bs_registrate(d, c)
    BY <1>1, Zenon
  <2> HIDE DEF d, c
  <2>4. Typed(bs[n], 2) /\ Armed(bs[n]) /\ (~c.shutdown => Echoing(bs[n]))
    BY <1>4, <2>1, <2>2, <2>3, RegistrateTimers, Zenon
  <2> QED  BY <2>1, <2>4, Zenon DEF NoShut
<1>6. Counts
  <2>1. heard \in [Nodes -> SUBSET (1..2)]
    BY <1>2, Zenon
  <2>2. env \in 0..MaxEnv /\ lost \in 0..MaxLoss
    BY <1>2, <1>3
  <2> QED  BY <1>2, <1>4, <2>1, <2>2, Zenon DEF Counts
<1>7. Sessions
  BY <1>1, <1>2, <1>5, Zenon DEF Sessions
<1> QED  BY <1>5, <1>6, <1>7, Zenon DEF TimerInv, BfdTyped

LEMMA TimerAlways == Spec => []TimerInv
<1>1. Init => TimerInv
  BY TimerInit, Zenon
<1>2. TimerInv /\ [Next]_vars => TimerInv'
  BY TimerStep, Zenon
<1> QED  BY <1>1, <1>2, PTL DEF Spec

\* Every reachable state is well typed, and no packet carries both the poll and
\* the final bit, for any configurations, timers and faults (ptm_bfd_snd clears
\* one bit when it sets the other).
THEOREM BfdTypeCorrect == Spec => []TypeOK
<1>1. TimerInv => TypeOK
  <2> SUFFICES ASSUME TimerInv PROVE TypeOK
    OBVIOUS
  <2>1. Sessions /\ Counts /\ ndiscr \in Nat
    BY Zenon DEF TimerInv, BfdTyped, Counts
  <2>2. \A n \in Nodes : /\ bs[n] \in Session
                         /\ \A i \in DOMAIN bs[n].txq : ~(bs[n].txq[i].p /\ bs[n].txq[i].f)
    BY <2>1, SessionTyped, Zenon DEF Sessions
  <2>3. bs \in [Nodes -> Session]
    BY <2>1, <2>2, Zenon DEF Sessions
  <2> QED  BY <2>1, <2>2, <2>3, Zenon DEF TypeOK, Counts
<1> QED  BY <1>1, TimerAlways, PTL

\* While no interface is taken away, a session in state Init or Up always has its
\* detection timer running, except in demand mode between polls: every path of
\* bfd_recv_cb, bfd_set_polling, bfd_set_demand and bfd_session_apply sees to it.
THEOREM BfdDetectionArmed ==
  ASSUME "disable" \notin Events
  PROVE  Spec => []DetectionArmed
<1>1. TimerInv => DetectionArmed
  BY Zenon DEF TimerInv, NoDisable, Armed, DetectionArmed
<1> QED  BY <1>1, TimerAlways, PTL

\* While the operator shuts no session, echo that is active is sent and watched:
\* ptm_bfd_echo_start, bs_echo_timer_handler and the two echo timers never leave
\* it active with a timer off.
THEOREM BfdEchoRuns ==
  ASSUME \A c \in Configs : ~c.shutdown
  PROVE  Spec => []EchoRuns
<1>1. TimerInv => EchoRuns
  BY Zenon DEF TimerInv, NoShut, Echoing, EchoRuns
<1> QED  BY <1>1, TimerAlways, PTL

=============================================================================
