------------------------------ MODULE LoopInv ------------------------------
(***************************************************************************)
(* The inductive invariant of EventLoop.                                   *)
(***************************************************************************)
EXTENDS EventLoop

\* What waits on its way out is what the trie said.
PacketRouted ==
  /\ at # "build" => Built
  /\ at \in {"write", "send"} =>
       pkt.addr \in Addrs /\ pkt.peer \in Peers /\ Lookup(pkt.addr) = pkt.peer
  /\ at = "send" => pkt.to = ep[pkt.peer] /\ pkt.to # Nowhere
  /\ \A p \in keyed : ep[p] # Nowhere

\* last_sent is at most the interval and what the loop is behind ago; a tick in
\* progress has taken itself off that already.
OverdueBounded ==
  /\ at \in {"build", "greet"} => ~ticked
  /\ at \in {"select", "write", "send"} =>
       IF ticked THEN \A p \in Peers : Keepalive[p] > 0 => since[p] < Keepalive[p] + behind
       ELSE behind >= Second
  /\ at \in {"turn", "drain"} /\ ticked =>
       \A p \in Peers : Keepalive[p] > 0 => since[p] < Keepalive[p] + behind + Second
  /\ at = "keepalive" =>
       /\ ticked /\ lag <= behind
       /\ \A p \in Peers \ queue : Keepalive[p] > 0 => since[p] < Keepalive[p] + behind
       /\ \A p \in queue : Keepalive[p] > 0

\* last_sent is not ahead of the wire, but where it is known to be.
QuietTracked == \A p \in Peers \ missed : Keepalive[p] > 0 => quiet[p] <= since[p]

OwnSlot(p) == Endpoint[p] # Nowhere /\ p \in SlotOf(Endpoint[p])

\* last_sent is not behind the packets sent to the configured endpoint.
IdleTracked ==
  \A p \in Peers : OwnSlot(p) /\ Keepalive[p] > 0 =>
    /\ since[p] <= idle[p] \/ idle[p] >= Keepalive[p]
    /\ at = "keepalive" /\ p \in queue => idle[p] >= Keepalive[p]

\* The whole of it.
LInv ==
  /\ TypeOK
  /\ TrieIsLatest
  /\ PacketRouted
  /\ OverdueBounded
  /\ QuietTracked
  /\ IdleTracked
=============================================================================
