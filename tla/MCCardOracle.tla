---------------------------- MODULE MCCardOracle ----------------------------
(* CardOracle on small sets.                                               *)
EXTENDS CardInv
CONSTANTS c1, c2, p1, p2, p3, t1, t2, t3, t4
MCCards == {c1, c2}
MCOneCard == {c1}
MCPeers == {p1, p2}
MCPeersLow == {p1, p3}
MCLowOrder == {p3}
MCOnePeer == {p1}
MCTickets == {t1, t2, t3, t4}
MCTickets3 == {t1, t2, t3}
MCNone == {}
=============================================================================
