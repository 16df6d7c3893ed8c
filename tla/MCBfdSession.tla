---------------------------- MODULE MCBfdSession ----------------------------
(* Instances of BfdSession. *)
EXTENDS BfdSession, TLC

Ends == Permutations(Nodes)

Base == [tx |-> 1, rx |-> 1, mult |-> 3, echo |-> FALSE, echo_rx |-> 0,
         demand |-> FALSE, passive |-> FALSE, shutdown |-> FALSE]

BaseEach == [n \in Nodes |-> Base]

\* Role, demand mode and shutdown; the timers stay.
Roles == {Base, [Base EXCEPT !.demand = TRUE], [Base EXCEPT !.passive = TRUE],
          [Base EXCEPT !.shutdown = TRUE]}

\* Timers at half the rate, and demand mode.
HalfRate == {Base, [Base EXCEPT !.tx = 2, !.rx = 2], [Base EXCEPT !.demand = TRUE]}

\* Echo switched on and off at either end.
EchoBase == [Base EXCEPT !.echo = TRUE, !.echo_rx = 1]
EchoEach == [n \in Nodes |-> EchoBase]
EchoConfigs == {EchoBase, [EchoBase EXCEPT !.echo = FALSE], [EchoBase EXCEPT !.echo_rx = 0]}
=============================================================================
