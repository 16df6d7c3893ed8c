----------------------------- MODULE MCZebraRib -----------------------------
(* Small instances of ZebraRib for TLC. *)
EXTENDS ZebraRib

Advert(t, d, m, n, o) ==
  [type |-> t, distance |-> d, metric |-> m, nh |-> n, override |-> o]

\* route_info[]: sub-queues of the types used here.
MetaQMap == [t \in Types |-> CASE t = "connect" -> 4 [] t = "static" -> 6
                               [] t \in {"isis", "nhrp"} -> 7]

\* One protocol, two nexthops.
OneProtocol == {Advert("isis", 115, 10, "n1", FALSE),
                Advert("isis", 115, 20, "n2", FALSE)}

\* Two protocols: a static route that beats IS-IS, and an IS-IS route that
\* changes its nexthop.
TwoProtocols == {Advert("static", 1, 0, "n1", FALSE)} \cup OneProtocol

\* A prefix connected on two interfaces, an NHRP shortcut (FIB override) next to
\* a static and an IS-IS route, a floating static route of distance 200, which does
\* not replace the other one, and one of distance 255, which is never used.
Mixed == {Advert("connect", 0, 0, "n1", FALSE),
          Advert("connect", 0, 0, "n2", FALSE),
          Advert("static", 1, 0, "n1", FALSE),
          Advert("static", 200, 0, "n2", FALSE),
          Advert("static", 255, 0, "n1", FALSE),
          Advert("nhrp", 10, 0, "n2", TRUE),
          Advert("isis", 115, 10, "n1", FALSE)}
=============================================================================
