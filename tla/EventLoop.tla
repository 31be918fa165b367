----------------------------- MODULE EventLoop -----------------------------
(***************************************************************************)
(* The event loop of run_tunnel (smartguard/src/tunnel.rs) with the packet *)
(* handlers it calls (smartguard-crypto/src/session/handle.rs): the tick,  *)
(* datagrams from the network, packets from the tun device, and the        *)
(* persistent keepalive they postpone or miss.  Sessions are external:     *)
(* rustyguard answers with keys, without, or not at all.  What the loop    *)
(* does to routes is in Routes; here a recheck is time that passes.        *)
(***************************************************************************)
EXTENDS PeerNet, Framing

CONSTANTS
  Places,      \* UDP addresses peers send from
  Nowhere,
  Endpoint,    \* per peer: the configured endpoint, or Nowhere
  Second,      \* units of time from one tick to the next
  Keepalive,   \* per peer: persistent_keepalive in units of time, 0 for none
  Lengths,     \* of the packets the tun device hands over, up to its MTU
  MaxBacklog   \* bound: units of time the loop is behind its interval

ASSUME LoopAssumption ==
  /\ Nowhere \notin Places
  /\ Endpoint \in [Peers -> Places \cup {Nowhere}]
  /\ Second \in Nat \ {0}
  /\ Keepalive \in [Peers -> Nat]
  /\ Lengths \subseteq 0 .. MaxPacket
  /\ MaxBacklog \in Nat /\ MaxBacklog >= Second

VARIABLES
  at,          \* where run_tunnel is
  keyed,       \* the peers there is a transport session with
  ep,          \* per peer: where Sessions sends to
  since,       \* per peer with a keepalive: now minus last_sent
  behind,      \* time since the tick last served came due
  lag,         \* time since the keepalive pass took its `now`
  ticked,      \* the first tick has been served
  queue,       \* peers the greeting or the keepalive pass has still to serve
  buffer,      \* maintenance_buffer: the peers its messages are for
  pkt,         \* what a handler returned, on its way out
  quiet,       \* history, per peer: time since a datagram to it left
  idle,        \* history, per peer: since a packet went to its own endpoint
  missed       \* history: peers whose last_sent moved without a datagram

loopVars == <<at, keyed, ep, since, behind, lag, ticked, queue, buffer, pkt, quiet, idle, missed>>
vars == <<netVars, loopVars>>

NoPacket == [kind |-> "none", peer |-> 1, addr |-> Sentinel, to |-> Nowhere, len |-> 0]

-----------------------------------------------------------------------------
(* Time.                                                                   *)

\* quiet and idle stop where the properties no longer tell them apart.
Ceiling(p) == IF Keepalive[p] > 0 THEN Keepalive[p] + Second ELSE 0
Later(x, cap) == IF x < cap THEN x + 1 ELSE x

\* A unit of time goes by while the loop sleeps or a branch awaits the card, the
\* route commands or the socket.  A tick comes due each Second after the one
\* before, however late that was served (tokio's Burst), while a packet may leave
\* at any unit in between; the greeting comes before the first tick.
Pass ==
  /\ at \in {"greet", "select", "turn", "drain", "keepalive", "write", "send"}
  /\ behind < MaxBacklog /\ (at = "greet" => \A p \in Peers : since[p] < MaxBacklog)
  /\ behind' = IF at = "greet" THEN behind ELSE behind + 1
  /\ lag' = IF at = "keepalive" THEN lag + 1 ELSE lag
  /\ since' = [p \in Peers |-> IF Keepalive[p] > 0 THEN since[p] + 1 ELSE 0]
  /\ quiet' = [p \in Peers |-> Later(quiet[p], Ceiling(p))]
  /\ idle' = [p \in Peers |-> Later(idle[p], Keepalive[p])]
  /\ UNCHANGED <<netVars, at, keyed, ep, ticked, queue, buffer, pkt, missed>>

-----------------------------------------------------------------------------
(* Before the loop.                                                        *)

Build ==
  /\ at = "build"
  /\ Insert \/ NextPeer
  /\ UNCHANGED loopVars

SessionsBuilt ==
  /\ at = "build"
  /\ Built
  /\ at' = "greet"
  /\ queue' = Peers
  /\ UNCHANGED <<netVars, keyed, ep, since, behind, lag, ticked, buffer, pkt, quiet, idle, missed>>

\* Sessions::send_message: data with keys; without, a handshake, unless the
\* card fails or the last one is too recent; an error without an endpoint.
Answers(p) ==
  IF p \in keyed THEN {"data"}
  ELSE {"error"} \cup {m \in {"handshake"} : ep[p] # Nowhere}

Next1 == CHOOSE p \in queue : \A q \in queue : p <= q

Greet ==
  /\ at = "greet"
  /\ queue # {}
  /\ queue' = queue \ {Next1}
  /\ \/ "handshake" \in Answers(Next1) /\ quiet' = [quiet EXCEPT ![Next1] = 0]
     \/ UNCHANGED quiet
  /\ UNCHANGED <<netVars, at, keyed, ep, since, behind, lag, ticked, buffer, pkt, idle, missed>>

\* The first tick of the interval is due at once.
LoopBegins ==
  /\ at = "greet"
  /\ queue = {}
  /\ at' = "select"
  /\ behind' = Second
  /\ UNCHANGED <<netVars, keyed, ep, since, lag, ticked, queue, buffer, pkt, quiet, idle, missed>>

-----------------------------------------------------------------------------
(* The tick.                                                               *)

\* Mutant: the interval ticks when nothing is due.
TickUnasked ==
  /\ at = "select"
  /\ at' = "turn"
  /\ behind' = behind - Second
  /\ UNCHANGED <<netVars, keyed, ep, since, lag, ticked, queue, buffer, pkt, quiet, idle, missed>>

Tick ==
  /\ at = "select"
  /\ behind >= Second
  /\ at' = "turn"
  /\ behind' = behind - Second
  /\ UNCHANGED <<netVars, keyed, ep, since, lag, ticked, queue, buffer, pkt, quiet, idle, missed>>

\* Sessions::turn drops an old session or has something to say to a peer.
Turn(p) ==
  /\ at = "turn"
  /\ \/ p \in keyed /\ keyed' = keyed \ {p} /\ UNCHANGED buffer
     \/ ep[p] # Nowhere /\ p \notin buffer /\ buffer' = buffer \cup {p} /\ UNCHANGED keyed
  /\ UNCHANGED <<netVars, at, ep, since, behind, lag, ticked, queue, pkt, quiet, idle, missed>>

\* The recheck, if any, comes before the buffer is drained.
TurnDone ==
  /\ at = "turn"
  /\ at' = "drain"
  /\ UNCHANGED <<netVars, keyed, ep, since, behind, lag, ticked, queue, buffer, pkt, quiet, idle, missed>>

\* A maintenance message is sent, or its failure logged; last_sent stays.
SendMaintenance(p) ==
  /\ at = "drain"
  /\ p \in buffer
  /\ buffer' = buffer \ {p}
  /\ quiet' = [quiet EXCEPT ![p] = 0] \/ UNCHANGED quiet
  /\ UNCHANGED <<netVars, at, keyed, ep, since, behind, lag, ticked, queue, pkt, idle, missed>>

\* Mutant: a keepalive waits until its interval is exceeded.
OverdueStrictly == {p \in Peers : Keepalive[p] > 0 /\ since[p] > Keepalive[p]}

\* Mutant: a keepalive comes early.
OverdueEarly == {p \in Peers : Keepalive[p] > 0 /\ since[p] >= Keepalive[p] - 1}

Overdue == {p \in Peers : Keepalive[p] > 0 /\ since[p] >= Keepalive[p]}

\* `now` is taken once for the whole pass.
StartKeepalives ==
  /\ at = "drain"
  /\ buffer = {}
  /\ at' = "keepalive"
  /\ queue' = Overdue
  /\ lag' = 0
  /\ ticked' = TRUE
  /\ UNCHANGED <<netVars, keyed, ep, since, behind, buffer, pkt, quiet, idle, missed>>

\* Mutant: last_sent stays when the keepalive did not leave.
SendKeepaliveKeepsTime ==
  /\ at = "keepalive"
  /\ queue # {}
  /\ queue' = queue \ {Next1}
  /\ \/ /\ Answers(Next1) # {"error"}
        /\ quiet' = [quiet EXCEPT ![Next1] = 0]
        /\ missed' = missed \ {Next1}
        /\ since' = [since EXCEPT ![Next1] = lag]
     \/ UNCHANGED <<quiet, missed, since>>
  /\ UNCHANGED <<netVars, at, keyed, ep, behind, lag, ticked, buffer, pkt, idle>>

\* send_keepalive: last_sent becomes that `now` whether or not a datagram left.
SendKeepalive ==
  /\ at = "keepalive"
  /\ queue # {}
  /\ queue' = queue \ {Next1}
  /\ since' = [since EXCEPT ![Next1] = lag]
  /\ \/ /\ Answers(Next1) # {"error"}
        /\ quiet' = [quiet EXCEPT ![Next1] = 0]
        /\ missed' = missed \ {Next1}
     \/ /\ missed' = missed \cup {Next1}
        /\ UNCHANGED quiet
  /\ UNCHANGED <<netVars, at, keyed, ep, behind, lag, ticked, buffer, pkt, idle>>

KeepalivesDone ==
  /\ at = "keepalive"
  /\ queue = {}
  /\ at' = "select"
  /\ lag' = 0
  /\ UNCHANGED <<netVars, keyed, ep, since, behind, ticked, queue, buffer, pkt, quiet, idle, missed>>

-----------------------------------------------------------------------------
(* Datagrams from the network: handle_extern.                              *)

\* A handshake of peer p, from place f: its first message, which a reply to f
\* answers if it can be sent, or the end of one of ours.
Handshake(p, f) ==
  /\ at = "select"
  /\ ep' \in {ep, [ep EXCEPT ![p] = f]}
  /\ keyed' \in {keyed} \cup {keyed \cup {q \in {p} : ep'[q] # Nowhere}}
  /\ quiet' = [quiet EXCEPT ![p] = 0] \/ UNCHANGED quiet
  /\ UNCHANGED <<netVars, at, since, behind, lag, ticked, queue, buffer, pkt, idle, missed>>

\* Mutant: the packet of any peer is let through.
AcceptsAny(p, src) == Lookup(src) \in Peers

\* Cryptokey routing of what was decrypted.
Accepts(p, src) == Lookup(src) = p

\* A data message of p, with source address src.  It may be empty, a keepalive,
\* or too short to be a packet.
Data(p, f, src) ==
  /\ at = "select"
  /\ p \in keyed
  /\ ep' = [ep EXCEPT ![p] = f]
  /\ \/ /\ Accepts(p, src)
        /\ at' = "write"
        /\ pkt' = [kind |-> "inbound", peer |-> p, addr |-> src, to |-> Nowhere,
                    len |-> 0]
     \/ UNCHANGED <<at, pkt>>
  /\ UNCHANGED <<netVars, keyed, since, behind, lag, ticked, queue, buffer, quiet, idle, missed>>

WriteTun ==
  /\ at = "write"
  /\ at' \in {"select", "over"}
  /\ pkt' = NoPacket
  /\ UNCHANGED <<netVars, keyed, ep, since, behind, lag, ticked, queue, buffer, quiet, idle, missed>>

-----------------------------------------------------------------------------
(* Packets from the tun device: handle_intern.                             *)

\* Without keys a handshake goes out instead of the packet, which is lost; an
\* address nobody owns, and an error, are dropped.  The slices panic when they
\* do not fit.
Packet(dst, n) ==
  /\ at = "select"
  /\ Lookup(dst) \in Peers
  /\ \E m \in Answers(Lookup(dst)) \ {"error"} :
       /\ pkt' = [kind |-> m, peer |-> Lookup(dst), addr |-> dst, to |-> ep[Lookup(dst)],
                  len |-> n]
       /\ at' = IF PaddingFits(n) /\ (m = "data" => FrameFits(n)) THEN "send" ELSE "panicked"
  /\ UNCHANGED <<netVars, keyed, ep, since, behind, lag, ticked, queue, buffer, quiet, idle, missed>>

\* endpoint_to_idx: of peers with one endpoint the last has the slot.
SlotOf(place) ==
  {i \in Peers : Endpoint[i] = place /\ \A j \in Peers : Endpoint[j] = place => j <= i}

\* Mutant: a packet postpones the keepalive of every peer.
PostponedAll(place) == Peers
Postponed(place) == SlotOf(place)

\* A packet that left postpones the keepalive of the peer in the endpoint's
\* slot; after a failed send come a recheck and the next packet.
SendPacket ==
  /\ at = "send"
  /\ at' = "select"
  /\ pkt' = NoPacket
  /\ \/ UNCHANGED <<since, quiet, idle, missed>>
     \/ /\ since' = [p \in Peers |-> IF p \in Postponed(pkt.to) THEN 0 ELSE since[p]]
        /\ quiet' = [quiet EXCEPT ![pkt.peer] = 0]
        /\ idle' = [idle EXCEPT ![pkt.peer] = IF pkt.to = Endpoint[pkt.peer] THEN 0 ELSE @]
        /\ missed' = (missed \cup SlotOf(pkt.to)) \ {pkt.peer}
  /\ UNCHANGED <<netVars, keyed, ep, behind, lag, ticked, queue, buffer>>

\* A signal, or an error of the socket or the tun device.
LoopEnds ==
  /\ at = "select"
  /\ at' = "over"
  /\ UNCHANGED <<netVars, keyed, ep, since, behind, lag, ticked, queue, buffer, pkt, quiet, idle, missed>>

-----------------------------------------------------------------------------
Init ==
  /\ NetInit
  /\ at = "build"
  /\ keyed = {}
  /\ ep = Endpoint
  /\ since = [p \in Peers |-> 0]
  /\ behind = 0
  /\ lag = 0
  /\ ticked = FALSE
  /\ queue = {}
  /\ buffer = {}
  /\ pkt = NoPacket
  /\ quiet = [p \in Peers |-> 0]
  /\ idle = [p \in Peers |-> 0]
  /\ missed = {}

Next ==
  \/ Pass \/ Build \/ SessionsBuilt \/ Greet \/ LoopBegins
  \/ Tick \/ TurnDone \/ StartKeepalives \/ SendKeepalive \/ KeepalivesDone
  \/ \E p \in Peers : Turn(p) \/ SendMaintenance(p)
  \/ \E p \in Peers, f \in Places : Handshake(p, f)
  \/ \E p \in Peers, f \in Places, src \in Addrs : Data(p, f, src)
  \/ \E dst \in Addrs, n \in Lengths : Packet(dst, n)
  \/ WriteTun \/ SendPacket \/ LoopEnds

Spec == Init /\ [][Next]_vars

-----------------------------------------------------------------------------
(* Properties.                                                             *)

Stages == {"build", "greet", "select", "turn", "drain", "keepalive", "write", "send", "over", "panicked"}

\* Every variable keeps its type.
TypeOK ==
  /\ NetTypeOK
  /\ at \in Stages
  /\ keyed \subseteq Peers /\ queue \subseteq Peers /\ buffer \subseteq Peers /\ missed \subseteq Peers
  /\ ep \in [Peers -> Places \cup {Nowhere}]
  /\ since \in [Peers -> Nat] /\ quiet \in [Peers -> Nat] /\ idle \in [Peers -> Nat]
  /\ behind \in 0 .. MaxBacklog /\ lag \in Nat
  /\ ticked \in BOOLEAN
  /\ pkt \in [kind : {"none", "inbound", "data", "handshake"}, peer : Nat,
              addr : Addrs \cup {Sentinel}, to : Places \cup {Nowhere}, len : Nat]

\* No tick waits to be served.
Punctual == at = "select" /\ behind < Second

\* Whenever the loop has served its ticks, no peer had by last_sent been silent
\* for its interval when the last of them came due.  A packet that left between
\* two ticks may thus be followed by its keepalive up to one tick after the
\* interval is over, and never later: however long the card kept the branches
\* waiting, the ticks that are made up for reach every keepalive.
NobodyOverdue ==
  Punctual => \A p \in Peers : Keepalive[p] > 0 => since[p] < Keepalive[p] + behind

\* And it has been silent no longer on the wire, which is what keeps the NAT
\* mapping open, except where last_sent moved without a datagram to the peer: a
\* keepalive that could not be sent, or a packet to another peer in its slot.
MappingKeptOpen ==
  Punctual => \A p \in Peers \ missed : Keepalive[p] > 0 => quiet[p] < Keepalive[p] + behind

\* "a keepalive is only emitted after `keepalive` of silence, and every data
\* packet we send postpones it" (tunnel.rs): for a peer that has its endpoint's
\* slot, counting the packets sent to that endpoint.
KeepaliveOnlyAfterSilence ==
  [][\A p \in Peers :
       at = "keepalive" /\ p \in queue \ queue' /\ Endpoint[p] # Nowhere /\ p \in SlotOf(Endpoint[p]) =>
         idle[p] >= Keepalive[p]]_vars

\* What reaches the tun device came from the peer that owns its source address
\* by the configuration.
InboundOwned == at = "write" => Owns(pkt.peer, pkt.addr)

\* What leaves for an address goes to its owner, at the place it was last
\* authenticated from.
OutboundOwned == at = "send" => Owns(pkt.peer, pkt.addr) /\ pkt.to = ep[pkt.peer] /\ pkt.to # Nowhere

\* No packet of at most BufLen - 32 bytes panics handle_intern.  Longer ones, up
\* to what fits the buffer, do once there is a session; an mtu above 2016 admits
\* them, and nothing checks the one configured.
OnlyOversizedPanics == at = "panicked" => pkt.len > BufLen - 32
=============================================================================
