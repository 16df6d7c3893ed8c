------------------------------ MODULE Watchfrr ------------------------------
(***************************************************************************)
(* watchfrr/watchfrr.c and watchfrr_vty.c: the supervisor that connects to  *)
(* every daemon, sends it echoes, and runs a restart command when it is     *)
(* down or does not answer.                                                 *)
(*                                                                          *)
(* An action is one callback of watchfrr's event loop, with all it calls,   *)
(* or one step of the world outside: a daemon, a command, its exit, a       *)
(* second.  Timers fire when the loop gets to them; seconds are counted     *)
(* only where the code compares them, for the pause between restarts.       *)
(***************************************************************************)
EXTENDS Integers, FiniteSets

CONSTANTS Daemons,     \* gs.daemons, zebra among them
          MinRestart,  \* gs.min_restart_interval
          MaxRestart,  \* gs.max_restart_interval
          MaxFaults    \* bound: things that go wrong in a behaviour

ASSUME WatchfrrAssumption ==
  /\ "zebra" \in Daemons /\ "all" \notin Daemons
  /\ MinRestart \in Nat \ {0} /\ MaxRestart \in Nat /\ MinRestart <= MaxRestart
  /\ MaxFaults \in Nat /\ IsFiniteSet(Daemons)

Entries == Daemons \cup {"all"}     \* every struct restart_info
Long == 2 * MaxRestart + 1          \* more seconds than any comparison needs

VARIABLES gs,      \* watchfrr's memory: struct global_state, daemons included
          proc,    \* each daemon's process
          child,   \* the process of each entry's command
          iw,      \* the process of "write integrated"
          sigchld, \* SIGCHLD was caught and not yet handled
          due,     \* and a callback has run since: the loop handles it next
          ignored, \* history: the daemons an operator told watchfrr to ignore
          faults   \* how many things went wrong

vars == <<gs, proc, child, iw, sigchld, due, ignored, faults>>
world == <<proc, iw, sigchld, ignored>>

\* dmn.fd is what the socket behind the descriptor holds: nothing to read
\* ("idle"), an echo the daemon has yet to answer, an answer, an answer and
\* then the end, a wrong answer, the end, or an error.  tries counts to 2.
Daemon == [state : {"INIT", "DOWN", "CONNECTING", "UP", "UNRESPONSIVE"},
           fd : {"none", "idle", "asked", "answered", "final", "garbage",
                 "eof", "error"},
           tries : 0..2, late : BOOLEAN, ignore : BOOLEAN, t_read : BOOLEAN,
           t_wakeup : {"none", "init", "down", "hanging", "echo",
                       "no_answer", "unresponsive"}]
Restart == [pid : BOOLEAN, elapsed : 0..Long, interval : MinRestart..MaxRestart,
            kills : 0..1, t_kill : BOOLEAN]
Exited == {"ok", "bad"}

Typed ==
  /\ gs \in [phase : {"NONE", "INIT"}, numdown : Nat, numpids : Nat,
             ready : {"no", "ok", "timeout", "exit"}, reading : BOOLEAN,
             dmn : [Daemons -> Daemon],
             restart : [Entries -> Restart]]
  /\ proc \in [Daemons -> {"dead", "alive", "hung", "busy"}]
  /\ child \in [Entries -> {"none", "stopping", "starting", "stuck"} \cup Exited]
  /\ iw \in {"none", "run", "exited"}
  /\ sigchld \in BOOLEAN /\ ignored \subseteq Daemons /\ faults \in 0..MaxFaults

(* Every field of the state has its type. *)
TypeOK == Typed /\ due \in BOOLEAN

(* watchfrr_init; a time of zero is longer ago than any interval. *)
Init ==
  /\ gs = [phase |-> "INIT", numdown |-> Cardinality(Daemons), numpids |-> 0,
           ready |-> "no", reading |-> FALSE,
           dmn |-> [d \in Daemons |->
                      [state |-> "INIT", fd |-> "none", tries |-> 0,
                       late |-> FALSE, ignore |-> FALSE, t_read |-> FALSE,
                       t_wakeup |-> "init"]],
           restart |-> [r \in Entries |->
                          [pid |-> FALSE, elapsed |-> Long, kills |-> 0,
                           interval |-> MinRestart, t_kill |-> FALSE]]]
  /\ proc \in [Daemons -> {"dead", "alive"}]
  /\ child = [r \in Entries |-> "none"]
  /\ iw = "none" /\ sigchld = FALSE /\ due = FALSE /\ ignored = {} /\ faults = 0

-----------------------------------------------------------------------------
(* Restart commands.  g is watchfrr's memory; fork is whether fork() works. *)

IS_UP(x) == x.state \in {"UP", "UNRESPONSIVE"}

\* Mutant: the doubled interval is not capped.
NewInterval_uncapped(x) ==
  IF x.elapsed > 2 * MaxRestart THEN MinRestart ELSE 2 * x.interval

NewInterval(x) ==
  IF x.elapsed > 2 * MaxRestart THEN MinRestart
  ELSE IF 2 * x.interval > MaxRestart THEN MaxRestart ELSE 2 * x.interval

run_job(g, r, fork) ==
  LET x == g.restart[r]
  IN  IF x.pid \/ x.elapsed < x.interval THEN g
      ELSE [g EXCEPT !.restart[r] = [pid |-> fork, elapsed |-> 0, kills |-> 0,
                                     interval |-> NewInterval(x), t_kill |-> fork],
                     !.numpids = IF fork THEN @ + 1 ELSE @]

\* Mutant: the commands of single daemons are not waited for.
try_restart_hasty(g, d, fork) ==
  IF d = "zebra" THEN run_job(g, "all", fork)
  ELSE IF g.dmn["zebra"].state = "UP" THEN run_job(g, d, fork) ELSE g

try_restart(g, d, fork) ==
  IF d # "zebra"
  THEN IF g.dmn["zebra"].state = "UP" /\ g.phase = "NONE"
       THEN run_job(g, d, fork) ELSE g
  ELSE IF \/ g.phase # "NONE" \/ g.numpids # 0
          \/ g.restart["zebra"].elapsed < g.restart["zebra"].interval
       THEN g ELSE run_job(g, "all", fork)

-----------------------------------------------------------------------------
(* Connections.  to is what connect() does: "up", "fail", or "again" (a full  *)
(* accept queue), after which the socket is unconnected and reads fail.       *)

\* try_restart for every daemon of D, which are those in DOWN.  It changes no
\* daemon's state: with zebra among them no other daemon gets a command, and
\* without zebra none touches another's entry, whatever their order.
try_restart_each(g, D, fork) ==
  LET Tried(d) == try_restart(g, d, fork)
  IN  IF "zebra" \in D THEN Tried("zebra")
      ELSE [g EXCEPT !.restart = [r \in Entries |-> IF r \in D THEN Tried(r).restart[r]
                                                    ELSE @[r]],
                     !.numpids = @ + Cardinality({d \in D : Tried(d).numpids # g.numpids})]

\* The startup phase ends when no daemon is in INIT any more.
phase_check(g, fork) ==
  IF g.phase = "NONE" \/ \E d \in Daemons : g.dmn[d].state = "INIT" THEN g
  ELSE LET down == {d \in Daemons : g.dmn[d].state = "DOWN"}
           idle == [g EXCEPT !.phase = "NONE",
                             !.dmn = [d \in Daemons |->
                                IF d \in down THEN [@[d] EXCEPT !.t_wakeup = "down"]
                                ELSE @[d]]]
       IN  try_restart_each(idle, down, fork)

daemon_send_ready(g, exitcode) ==
  IF g.ready # "no" THEN g
  ELSE [g EXCEPT !.ready = IF exitcode = 0 THEN "ok"
                           ELSE IF g.numdown < Cardinality(Daemons) THEN "timeout"
                           ELSE "exit"]

daemon_up(g, d, fork) ==
  LET h == [g EXCEPT !.dmn[d].state = "UP", !.dmn[d].tries = 0, !.numdown = @ - 1]
      i == IF h.numdown = 0 THEN daemon_send_ready(h, 0) ELSE h
  IN  phase_check([i EXCEPT !.dmn[d].t_wakeup = "echo"], fork)

try_connect(g, d, to, fork) ==
  LET h == [g EXCEPT !.dmn[d].tries = IF @ = 2 THEN 2 ELSE @ + 1]
  IN  CASE to = "fail" -> h
        [] to = "again" ->
             [h EXCEPT !.dmn[d].state = "CONNECTING", !.dmn[d].fd = "error",
                       !.dmn[d].t_read = TRUE,
                       !.dmn[d].t_wakeup = IF @ = "none" THEN "hanging" ELSE @]
        [] to = "up" ->
             daemon_up([h EXCEPT !.dmn[d].fd = "idle", !.dmn[d].t_read = TRUE],
                       d, fork)

\* Mutant: the wake-up after a failed connect is forgotten.
connect_or_wait_once(g, d, to, fork) == try_connect(g, d, to, fork)

\* if (try_connect(dmn) < 0) SET_WAKEUP_DOWN(dmn)
connect_or_wait(g, d, to, fork) ==
  LET h == try_connect(g, d, to, fork)
  IN  IF to = "fail" THEN [h EXCEPT !.dmn[d].t_wakeup = "down"] ELSE h

\* Mutant: a daemon that was not up is counted as going down.
daemon_down_always(g, d, to, fork) ==
  IF g.dmn[d].ignore THEN g
  ELSE LET h == [g EXCEPT !.numdown = @ + 1,
                          !.dmn[d].state = "DOWN", !.dmn[d].fd = "none",
                          !.dmn[d].late = FALSE, !.dmn[d].t_read = FALSE,
                          !.dmn[d].t_wakeup = "none"]
       IN  phase_check(connect_or_wait(h, d, to, fork), fork)

daemon_down(g, d, to, fork) ==
  IF g.dmn[d].ignore THEN g
  ELSE LET h == [g EXCEPT !.numdown = IF IS_UP(g.dmn[d]) THEN @ + 1 ELSE @,
                          !.dmn[d].state = "DOWN", !.dmn[d].fd = "none",
                          !.dmn[d].late = FALSE, !.dmn[d].t_read = FALSE,
                          !.dmn[d].t_wakeup = "none"]
       IN  phase_check(connect_or_wait(h, d, to, fork), fork)

restart_done(g, d, to) ==
  IF g.dmn[d].state # "DOWN" THEN g
  ELSE connect_or_wait([g EXCEPT !.dmn[d].t_wakeup = "none"], d, to, TRUE)

-----------------------------------------------------------------------------
(* What surrounds a callback. *)

Fault(b) == faults' = faults + (IF b THEN 1 ELSE 0) /\ faults' <= MaxFaults

\* What connect() does.
Connects(d) == CASE proc[d] = "dead" -> "fail"
                 [] proc[d] = "busy" -> "again"
                 [] OTHER -> "up"

\* The children after a callback: new ones run, those reaped are gone.
Children(g) == [r \in Entries |-> IF ~g.restart[r].pid THEN "none"
                                  ELSE IF ~gs.restart[r].pid THEN "stopping"
                                  ELSE child[r]]

Running == gs.ready # "exit"
\* The zero-length timers of wakeup_init are all on the first ready list: no
\* other callback runs before the last of them.
Started == Running /\ \A d \in Daemons : gs.dmn[d].state # "INIT"

\* The loop looks for signals before every callback: one that is caught waits for
\* the callback that runs, and no longer.
Turn == Started /\ ~due
Turned == due' = sigchld

\* A callback that may connect and may fork.
Callback(d, Step(_, _, _)) ==
  \E fork \in BOOLEAN :
     LET to == Connects(d)
         g == Step(gs, to, fork)
     IN  /\ gs' = g /\ child' = Children(g)
         \* a fork that fails costs a fault; the choice matters only to a fork
         /\ fork \/ g # Step(gs, to, TRUE)
         /\ Fault(~fork)
         /\ Turned /\ UNCHANGED world

\* A timer or a read of d runs: the loop clears its reference first.
Fired(g, d) == [g EXCEPT !.dmn[d].t_wakeup = "none"]

wakeup_init(d) ==
  /\ Running /\ gs.dmn[d].t_wakeup = "init"
  /\ Callback(d, LAMBDA g, to, fork :
       LET h == try_connect(Fired(g, d), d, to, fork)
       IN  phase_check(IF to = "fail" THEN [h EXCEPT !.dmn[d].state = "DOWN"]
                       ELSE h, fork))

wakeup_down(d) ==
  /\ Turn /\ gs.dmn[d].t_wakeup = "down"
  /\ Callback(d, LAMBDA g, to, fork :
       LET h == connect_or_wait(Fired(g, d), d, to, fork)
       IN  IF h.dmn[d].tries > 1 /\ h.dmn[d].state # "UP"
           THEN try_restart(h, d, fork) ELSE h)

wakeup_send_echo(d) ==
  /\ Turn /\ gs.dmn[d].t_wakeup = "echo"
  /\ Callback(d, LAMBDA g, to, fork :
       IF g.dmn[d].fd # "idle" THEN daemon_down(Fired(g, d), d, to, fork)
       ELSE [g EXCEPT !.dmn[d].fd = "asked", !.dmn[d].late = FALSE,
                      !.dmn[d].t_wakeup = "no_answer"])

\* That a daemon which is not hung fails to answer in time is a fault.
wakeup_no_answer(d) ==
  /\ Turn /\ gs.dmn[d].t_wakeup = "no_answer"
  /\ \E fork \in BOOLEAN :
       LET g == [Fired(gs, d) EXCEPT !.dmn[d].state = "UNRESPONSIVE",
                                     !.dmn[d].late = TRUE]
           h == IF g.dmn[d].ignore THEN g
                ELSE try_restart([g EXCEPT !.dmn[d].t_wakeup = "unresponsive"],
                                 d, fork)
       IN  /\ gs' = h /\ child' = Children(h)
           /\ Fault(~fork \/ proc[d] = "alive")
  /\ Turned /\ UNCHANGED world

wakeup_unresponsive(d) ==
  /\ Turn /\ gs.dmn[d].t_wakeup = "unresponsive"
  /\ Callback(d, LAMBDA g, to, fork :
       IF g.dmn[d].state # "UNRESPONSIVE" THEN Fired(g, d)
       ELSE try_restart(g, d, fork))

\* Mutant: the wake-up of the unresponsive daemon is not cancelled.
handle_answer_uncancelled(g, d) ==
  [g EXCEPT !.dmn[d].fd = IF @ = "final" THEN "eof" ELSE "idle",
            !.dmn[d].late = FALSE,
            !.dmn[d].state = IF @ = "UNRESPONSIVE" /\ ~g.dmn[d].late THEN "UP" ELSE @]

\* An answer to an echo older than gs.timeout leaves the daemon unresponsive.
handle_answer(g, d) ==
  [g EXCEPT !.dmn[d].fd = IF @ = "final" THEN "eof" ELSE "idle",
            !.dmn[d].t_wakeup = "echo", !.dmn[d].late = FALSE,
            !.dmn[d].state = IF @ = "UNRESPONSIVE" /\ ~g.dmn[d].late THEN "UP" ELSE @]

Readable == {"answered", "final", "garbage", "eof", "error"}

NoInput == \A d \in Daemons : ~(gs.dmn[d].t_read /\ gs.dmn[d].fd \in Readable)

handle_read(d) ==
  /\ Turn /\ gs.dmn[d].t_read /\ gs.dmn[d].fd \in Readable
  /\ Callback(d, LAMBDA g, to, fork :
       IF g.dmn[d].fd \in {"answered", "final"} THEN handle_answer(g, d)
       ELSE daemon_down([g EXCEPT !.dmn[d].t_read = FALSE], d, to, fork))

-----------------------------------------------------------------------------
(* Children. *)

\* SIGTERM may be ignored, SIGKILL may not; a child that has exited takes no
\* notice.  A command that is not stuck ends within gs.restart_timeout.
restart_kill(r) ==
  /\ Turn /\ gs.restart[r].t_kill /\ child[r] \in {"stuck"} \cup Exited
  /\ IF gs.reading THEN UNCHANGED <<gs, child, sigchld>>
     ELSE /\ gs' = [gs EXCEPT !.restart[r].kills = 1]
          /\ \/ /\ child[r] = "stuck"
                /\ child' = [child EXCEPT ![r] = "bad"] /\ sigchld' = TRUE
             \/ /\ child[r] \in Exited \/ gs.restart[r].kills = 0
                /\ UNCHANGED <<child, sigchld>>
  /\ Turned /\ UNCHANGED <<proc, iw, ignored, faults>>

\* waitpid(-1) reaps one child, whichever; as every exit raises the signal
\* there is one.
Reap(g, r) == [g EXCEPT !.restart[r].pid = FALSE, !.restart[r].t_kill = FALSE,
                        !.restart[r].elapsed = 0, !.numpids = @ - 1]

\* restart_done for every daemon of D.  No daemon is in INIT any more, so that
\* each pass is about its daemon, numdown, and systemd when numdown gets to 0.
restart_done_each(g, D) ==
  LET Done(d) == restart_done(g, d, Connects(d))
      up == {d \in D : Done(d).numdown # g.numdown}
      h == [g EXCEPT !.dmn = [d \in Daemons |-> IF d \in D THEN Done(d).dmn[d] ELSE @[d]],
                     !.numdown = @ - Cardinality(up)]
  IN  IF up # {} /\ h.numdown = 0 THEN daemon_send_ready(h, 0) ELSE h

sigchild ==
  /\ Started /\ sigchld /\ sigchld' = FALSE /\ due' = FALSE
  /\ \/ /\ iw = "exited" /\ iw' = "none"
        /\ UNCHANGED <<gs, child, faults>>
     \/ \E r \in Entries :
          /\ child[r] \in Exited
          /\ LET Done == IF child[r] = "bad" THEN {}
                         ELSE IF r = "all" THEN Daemons ELSE {r}
                 g == phase_check(restart_done_each(Reap(gs, r), Done), TRUE)
             IN  gs' = g /\ child' = Children(g)
          /\ UNCHANGED <<iw, faults>>
  /\ UNCHANGED <<proc, ignored>>

-----------------------------------------------------------------------------
(* Timeouts and commands of the vty. *)

\* Once systemd has been told, the timer does nothing.
startup_timeout ==
  /\ Turn /\ gs.ready = "no" /\ gs' = daemon_send_ready(gs, 1)
  /\ Turned /\ UNCHANGED <<child, faults, world>>

watchfrr_set_ignore_daemon(d, ignore) ==
  /\ Turn /\ gs.dmn[d].ignore # ignore /\ gs.dmn[d].state # "CONNECTING"
  /\ proc[d] # "busy"
  /\ gs' = [gs EXCEPT !.dmn[d].ignore = ignore]
  /\ ignored' = ignored \cup {d} /\ Fault(ignore)
  /\ Turned /\ UNCHANGED <<proc, child, iw, sigchld>>

check_all_up == \A d \in Daemons : gs.dmn[d].state = "UP"

config_write_integrated ==
  /\ Turn /\ iw = "none" /\ check_all_up
  /\ iw' = "run" /\ Fault(TRUE)
  /\ Turned /\ UNCHANGED <<gs, proc, child, sigchld, ignored>>

watchfrr_start_config ==
  /\ Turn /\ ~gs.reading /\ gs' = [gs EXCEPT !.reading = TRUE] /\ Fault(TRUE)
  /\ Turned /\ UNCHANGED <<child, world>>

watchfrr_end_config ==
  /\ Turn /\ gs.reading /\ gs' = [gs EXCEPT !.reading = FALSE]
  /\ Turned /\ UNCHANGED <<child, faults, world>>

-----------------------------------------------------------------------------
(* The world outside watchfrr. *)

\* What is left in the sockets to daemons that end.
Ended(fd) == CASE fd \in {"idle", "asked"} -> "eof" [] fd = "answered" -> "final"
               [] OTHER -> fd

Closed(g, S) ==
  [g EXCEPT !.dmn = [d \in Daemons |-> IF d \notin S THEN g.dmn[d]
                                       ELSE [g.dmn[d] EXCEPT !.fd = Ended(@)]]]

Crash(d) ==
  /\ Running /\ proc[d] # "dead" /\ proc' = [proc EXCEPT ![d] = "dead"]
  /\ gs' = Closed(gs, {d}) /\ Fault(TRUE)
  /\ UNCHANGED <<due, child, iw, sigchld, ignored>>

Hang(d) ==
  /\ Running /\ proc[d] = "alive" /\ proc' = [proc EXCEPT ![d] = "hung"] /\ Fault(TRUE)
  /\ UNCHANGED <<due, gs, child, iw, sigchld, ignored>>

\* A burst of other clients fills the daemon's accept queue for a while.
Fill(d) ==
  /\ Running /\ proc[d] = "alive" /\ ~gs.dmn[d].ignore
  /\ proc' = [proc EXCEPT ![d] = "busy"] /\ Fault(TRUE)
  /\ UNCHANGED <<due, gs, child, iw, sigchld, ignored>>

Drain(d) ==
  /\ Running /\ proc[d] = "busy" /\ proc' = [proc EXCEPT ![d] = "alive"]
  /\ UNCHANGED <<due, gs, child, iw, sigchld, ignored, faults>>

Resume(d) ==
  /\ Running /\ proc[d] = "hung" /\ proc' = [proc EXCEPT ![d] = "alive"]
  /\ UNCHANGED <<due, gs, child, iw, sigchld, ignored, faults>>

Answer(d) ==
  /\ Running /\ proc[d] = "alive" /\ gs.dmn[d].fd = "asked"
  /\ \E a \in {"answered", "garbage"} :
       gs' = [gs EXCEPT !.dmn[d].fd = a] /\ Fault(a = "garbage")
  /\ UNCHANGED <<due, child, world>>

Targets(r) == IF r = "all" THEN Daemons ELSE {r}

\* A command does not get from stopping a daemon to starting it before the
\* loop sees the end of the old one's connection.
CommandStops(r) ==
  /\ Running /\ child[r] = "stopping" /\ child' = [child EXCEPT ![r] = "starting"]
  /\ proc' = [d \in Daemons |-> IF d \in Targets(r) THEN "dead" ELSE proc[d]]
  /\ gs' = Closed(gs, Targets(r))
  /\ UNCHANGED <<due, iw, sigchld, ignored, faults>>

CommandStarts(r) ==
  /\ Running /\ NoInput /\ child[r] = "starting"
  /\ child' = [child EXCEPT ![r] = "ok"] /\ sigchld' = TRUE
  /\ proc' = [d \in Daemons |-> IF d \in Targets(r) /\ proc[d] = "dead"
                                THEN "alive" ELSE proc[d]]
  /\ UNCHANGED <<due, gs, iw, ignored, faults>>

CommandFails(r) ==
  /\ Running /\ child[r] \in {"stopping", "starting"} /\ Fault(TRUE)
  /\ \/ child' = [child EXCEPT ![r] = "bad"] /\ sigchld' = TRUE
     \/ child' = [child EXCEPT ![r] = "stuck"] /\ UNCHANGED sigchld
  /\ UNCHANGED <<due, gs, proc, iw, ignored>>

WriteEnds ==
  /\ Running /\ iw = "run" /\ iw' = "exited" /\ sigchld' = TRUE
  /\ UNCHANGED <<due, gs, proc, child, ignored, faults>>

\* The loop handles signals and input within the second.  A command that runs
\* has its time set again when it is reaped.
Second ==
  /\ Started /\ ~sigchld /\ NoInput
  /\ \E r \in Entries : ~gs.restart[r].pid /\ gs.restart[r].elapsed < Long
  /\ gs' = [gs EXCEPT !.restart = [r \in Entries |->
              IF gs.restart[r].pid \/ gs.restart[r].elapsed = Long THEN gs.restart[r]
              ELSE [gs.restart[r] EXCEPT !.elapsed = @ + 1]]]
  /\ UNCHANGED <<due, child, faults, world>>

\* watchfrr has exited.
Gone == ~Running /\ UNCHANGED vars

Wakeup(d) == \/ wakeup_init(d) \/ wakeup_down(d) \/ wakeup_send_echo(d)
             \/ wakeup_no_answer(d) \/ wakeup_unresponsive(d)

Next ==
  \/ \E d \in Daemons :
       \/ wakeup_init(d) \/ wakeup_down(d) \/ wakeup_send_echo(d)
       \/ wakeup_no_answer(d) \/ wakeup_unresponsive(d) \/ handle_read(d)
       \/ Crash(d) \/ Hang(d) \/ Resume(d) \/ Answer(d)
       \/ Fill(d) \/ Drain(d)
       \/ \E b \in BOOLEAN : watchfrr_set_ignore_daemon(d, b)
  \/ \E r \in Entries :
       restart_kill(r) \/ CommandStops(r) \/ CommandStarts(r) \/ CommandFails(r)
  \/ sigchild \/ startup_timeout \/ config_write_integrated
  \/ watchfrr_start_config \/ watchfrr_end_config \/ WriteEnds \/ Second
  \/ Gone

Spec == Init /\ [][Next]_vars

(* The event loop runs every timer, every descriptor and every signal that  *)
(* is due; daemons that are not hung take and answer what is sent to them,  *)
(* commands that are not stuck end, vtysh gets to the end of the            *)
(* configuration, and time passes: what waits for the loop to have no input *)
(* left finds it so again and again.                                        *)
Fairness ==
  /\ \A d \in Daemons : /\ WF_vars(Wakeup(d)) /\ WF_vars(handle_read(d))
                        /\ WF_vars(Answer(d)) /\ WF_vars(Drain(d))
  /\ \A r \in Entries : /\ WF_vars(CommandStops(r)) /\ SF_vars(CommandStarts(r))
                        /\ WF_vars(restart_kill(r))
  /\ WF_vars(sigchild) /\ WF_vars(watchfrr_end_config) /\ WF_vars(WriteEnds)
  /\ SF_vars(Second)

LiveSpec == Spec /\ Fairness

-----------------------------------------------------------------------------
(* Properties. *)

(* numdown, which decides when systemd is told that all daemons are up, is  *)
(* the number of daemons that are neither up nor unresponsive, as its       *)
(* comment says, whatever order connects, ends and commands come in.        *)
NumdownExact ==
  Running => gs.numdown = Cardinality({d \in Daemons : ~IS_UP(gs.dmn[d])})

Starts(r) == child[r] = "none" /\ child'[r] # "none"

(* try_restart begins the restart of everything only when no command of     *)
(* any entry is left, not even one that has exited and is not yet reaped.   *)
GlobalAlone ==
  [][Starts("all") => \A r \in Entries : child[r] = "none"]_vars

(* A command is begun for a daemon that is dead or hung, or that has an     *)
(* echo watchfrr has not read the answer to; never for one that another     *)
(* command has just brought back or that has reconnected.                   *)
RestartJustified ==
  [][\A d \in Daemons :
       Starts(IF d = "zebra" THEN "all" ELSE d) =>
          \/ proc[d] # "alive" \/ d \in ignored
          \/ gs.dmn[d].fd \in {"asked", "answered", "final", "garbage"}]_vars

(* Exited and unnoticed: the SIGCHLD of its exit was taken for another's.   *)
Stranded == ~sigchld /\ \E r \in Entries : child[r] \in Exited

(* Once things stop going wrong every daemon comes back, up, and stays so,  *)
(* unless watchfrr gave up at startup, the daemon or zebra was once ignored *)
(* (daemon_down then does nothing), or sigchild left a child unreaped.      *)
Recovers ==
  \A d \in Daemons :
    \/ <>[](proc[d] = "alive" /\ gs.dmn[d].state = "UP")
    \/ <>[](Stranded \/ ~Running \/ ignored \cap {d, "zebra"} # {})

(* Every child that exits is reaped. *)
Reaped == \A r \in Entries : child[r] \in Exited ~> (child[r] = "none" \/ ~Running)
=============================================================================
