----------------------------- MODULE LoopProofs -----------------------------
(***************************************************************************)
(* Theorems about EventLoop, for any number of peers, prefixes, places and *)
(* intervals, any backlog of ticks, and units of time as fine as one likes. *)
(***************************************************************************)
EXTENDS LoopInv, PeerNetProofs, FramingProofs

LEMMA PeersAreNumbers == \A p \in Peers : p \in Nat
BY DEF Peers

(* The next peer of a queue.                                               *)
LEMMA NextServed ==
  ASSUME queue \subseteq Peers, queue # {}
  PROVE  Next1 \in queue /\ Next1 \in Peers
<1>1. queue \subseteq Nat
  BY PeersAreNumbers
<1>2. \E p \in queue : \A q \in queue : p <= q
  BY <1>1, LeastNumber
<1> QED
  BY <1>2 DEF Next1

(* Every step of the loop once the tries are built leaves them alone.      *)
LEMMA NetStep ==
  ASSUME [Next]_vars
  PROVE  [Insert \/ NextPeer]_netVars /\ (at # "build" => UNCHANGED netVars)
BY DEF Next, vars, Pass, Build, SessionsBuilt, Greet, LoopBegins, Tick, TurnDone, StartKeepalives,
       SendKeepalive, KeepalivesDone, Turn, SendMaintenance, Handshake, Data, Packet, WriteTun,
       SendPacket, LoopEnds

-----------------------------------------------------------------------------
(* Types.                                                                  *)

LEMMA LoopTypeInit == Init => TypeOK
<1> SUFFICES ASSUME Init PROVE TypeOK
  OBVIOUS
<1>1. NetTypeOK
  BY NetTypeInit DEF Init
<1>2. ep \in [Peers -> Places \cup {Nowhere}] /\ MaxBacklog \in Nat
  BY LoopAssumption DEF Init
<1>3. since \in [Peers -> Nat] /\ quiet \in [Peers -> Nat] /\ idle \in [Peers -> Nat]
  BY DEF Init
<1>4. /\ pkt = [kind |-> "none", peer |-> 1, addr |-> Sentinel, to |-> Nowhere, len |-> 0]
      /\ at = "build" /\ behind = 0 /\ lag = 0 /\ ticked = FALSE
      /\ keyed = {} /\ queue = {} /\ buffer = {} /\ missed = {}
  BY DEF Init, NoPacket
<1>5. pkt \in [kind : {"none", "inbound", "data", "handshake"}, peer : Nat,
                addr : Addrs \cup {Sentinel}, to : Places \cup {Nowhere}, len : Nat]
  BY <1>4
<1>6. behind \in 0 .. MaxBacklog
  BY <1>2, <1>4
<1> QED
  BY <1>1, <1>2, <1>3, <1>4, <1>5, <1>6 DEF TypeOK, Stages

LEMMA LaterTyped ==
  ASSUME NEW x \in Nat, NEW cap
  PROVE  Later(x, cap) \in Nat /\ Later(x, cap) <= x + 1 /\ Later(x, cap) >= x
BY DEF Later

LEMMA PassTyped == TypeOK /\ Pass => TypeOK'
<1> SUFFICES ASSUME TypeOK, Pass PROVE TypeOK'
  OBVIOUS
<1> USE DEF TypeOK
<1>1. /\ behind \in Nat /\ MaxBacklog \in Nat /\ behind < MaxBacklog
      /\ behind' \in 0 .. MaxBacklog
  BY LoopAssumption DEF Pass
<1>2. since' \in [Peers -> Nat] /\ quiet' \in [Peers -> Nat] /\ idle' \in [Peers -> Nat]
  BY LaterTyped DEF Pass
<1>3. NetTypeOK'
  BY DEF Pass, NetTypeOK, netVars
<1>4. lag' \in Nat
  BY DEF Pass
<1> QED
  BY <1>1, <1>2, <1>3, <1>4 DEF Pass

LEMMA LoopTypeStep == TypeOK /\ [Next]_vars => TypeOK'
<1> SUFFICES ASSUME TypeOK, [Next]_vars PROVE TypeOK'
  OBVIOUS
<1> USE DEF TypeOK
<1>n. NetTypeOK'
  BY NetStep, NetTypeStep
<1>b. /\ Second \in Nat \ {0} /\ MaxBacklog \in Nat /\ MaxBacklog >= Second
      /\ behind \in Nat /\ lag \in Nat
  BY LoopAssumption
<1>1. CASE Pass
  BY <1>1, PassTyped
<1>2. CASE Build
  BY <1>2, <1>n DEF Build, loopVars
<1>3. CASE SessionsBuilt \/ LoopBegins \/ Tick \/ TurnDone \/ KeepalivesDone \/ LoopEnds
  BY <1>3, <1>n, <1>b DEF SessionsBuilt, LoopBegins, Tick, TurnDone, KeepalivesDone, LoopEnds, Stages
<1>4. CASE Greet
  BY <1>4, <1>n, NextServed DEF Greet
<1>5. CASE StartKeepalives
  BY <1>5, <1>n, <1>b DEF StartKeepalives, Stages, Overdue
<1>6. CASE SendKeepalive
  <2>1. Next1 \in Peers /\ queue' \subseteq Peers
    BY <1>6, NextServed DEF SendKeepalive
  <2>2. since' \in [Peers -> Nat] /\ quiet' \in [Peers -> Nat] /\ missed' \subseteq Peers
    BY <1>6, <1>b, <2>1 DEF SendKeepalive
  <2> QED
    BY <1>6, <1>n, <2>1, <2>2 DEF SendKeepalive
<1>7. ASSUME NEW p \in Peers, Turn(p) \/ SendMaintenance(p) PROVE TypeOK'
  BY <1>7, <1>n DEF Turn, SendMaintenance
<1>8. ASSUME NEW p \in Peers, NEW f \in Places, Handshake(p, f) PROVE TypeOK'
  BY <1>8, <1>n DEF Handshake
<1>9. ASSUME NEW p \in Peers, NEW f \in Places, NEW src \in Addrs, Data(p, f, src) PROVE TypeOK'
  <2>1. p \in Nat
    BY <1>9, PeersAreNumbers
  <2> QED
    BY <1>9, <1>n, <2>1 DEF Data, Stages
<1>10. ASSUME NEW dst \in Addrs, NEW n \in Lengths, Packet(dst, n) PROVE TypeOK'
  <2>1. Lookup(dst) \in Peers /\ Lookup(dst) \in Nat
    BY <1>10, PeersAreNumbers DEF Packet
  <2>2. \A m \in Answers(Lookup(dst)) \ {"error"} : m \in {"data", "handshake"}
    BY DEF Answers
  <2>3. ep[Lookup(dst)] \in Places \cup {Nowhere} /\ n \in Nat
    BY <2>1, LoopAssumption
  <2> QED
    BY <1>10, <1>n, <2>1, <2>2, <2>3 DEF Packet, Stages
<1>11. CASE WriteTun
  BY <1>11, <1>n DEF WriteTun, NoPacket, Stages
<1>12. CASE SendPacket
  <2>1. since' \in [Peers -> Nat] /\ quiet' \in [Peers -> Nat] /\ idle' \in [Peers -> Nat]
    BY <1>12 DEF SendPacket
  <2>2. missed' \subseteq Peers
    BY <1>12 DEF SendPacket, Postponed, SlotOf
  <2> QED
    BY <1>12, <1>n, <2>1, <2>2 DEF SendPacket, NoPacket, Stages
<1>13. CASE UNCHANGED vars
  BY <1>13, <1>n DEF vars, loopVars
<1> QED
  BY <1>1, <1>2, <1>3, <1>4, <1>5, <1>6, <1>7, <1>8, <1>9, <1>10, <1>11, <1>12, <1>13 DEF Next

-----------------------------------------------------------------------------
(* Routing.                                                                *)

LEMMA TrieStep == LInv /\ [Next]_vars => TrieIsLatest'
BY NetStep, LatestStep DEF LInv, TypeOK

(* A lookup answers as before when the tries have not changed.             *)
LEMMA LookupStays ==
  ASSUME UNCHANGED netVars, NEW a
  PROVE  Lookup(a)' = Lookup(a)
BY DEF netVars, Lookup

LEMMA RoutedStep == LInv /\ [Next]_vars => PacketRouted'
<1> SUFFICES ASSUME LInv, [Next]_vars PROVE PacketRouted'
  OBVIOUS
<1> USE DEF LInv, PacketRouted
<1>t. ep \in [Peers -> Places \cup {Nowhere}] /\ keyed \subseteq Peers /\ Nowhere \notin Places
  BY LoopAssumption DEF TypeOK
<1>n. ASSUME at # "build" PROVE UNCHANGED netVars /\ Built' /\ \A a : Lookup(a)' = Lookup(a)
  <2>1. UNCHANGED netVars
    BY <1>n, NetStep
  <2>2. Built'
    BY <1>n, <2>1 DEF netVars, Built
  <2> QED
    BY <2>1, <2>2, LookupStays
<1>1. CASE Build \/ SessionsBuilt
  BY <1>1 DEF Build, SessionsBuilt, loopVars, netVars, Built
<1>8. CASE Pass
  BY <1>8, <1>n DEF Pass
<1>2. CASE Greet \/ LoopBegins \/ Tick \/ TurnDone \/ StartKeepalives \/ SendKeepalive
           \/ KeepalivesDone \/ LoopEnds \/ WriteTun \/ SendPacket
  <2>1. at # "build" /\ at' \notin {"write", "send", "build"} /\ UNCHANGED <<ep, keyed>>
    BY <1>2 DEF Greet, LoopBegins, Tick, TurnDone, StartKeepalives, SendKeepalive,
                KeepalivesDone, LoopEnds, WriteTun, SendPacket
  <2> QED
    BY <1>n, <2>1
<1>3. ASSUME NEW p \in Peers, Turn(p) \/ SendMaintenance(p) PROVE PacketRouted'
  <2>1. at # "build" /\ at' \notin {"write", "send", "build"} /\ ep' = ep /\ keyed' \subseteq keyed
    BY <1>3 DEF Turn, SendMaintenance
  <2> QED
    BY <1>n, <2>1
<1>4. ASSUME NEW p \in Peers, NEW f \in Places, Handshake(p, f) PROVE PacketRouted'
  <2>1. at = "select" /\ at' = at /\ ep' \in {ep, [ep EXCEPT ![p] = f]}
        /\ \A q \in keyed' : q \in keyed \/ ep'[q] # Nowhere
    BY <1>4 DEF Handshake
  <2>2. \A q \in keyed : ep'[q] # Nowhere
    BY <1>t, <2>1
  <2> QED
    BY <1>n, <2>1, <2>2
<1>5. ASSUME NEW p \in Peers, NEW f \in Places, NEW src \in Addrs, Data(p, f, src) PROVE PacketRouted'
  <2>1. /\ at = "select" /\ ep' = [ep EXCEPT ![p] = f] /\ keyed' = keyed
        /\ \/ at' = "write" /\ pkt'.peer = p /\ pkt'.addr = src /\ Lookup(src) = p
           \/ at' = at
    BY <1>5 DEF Data, Accepts
  <2>2. \A q \in keyed : ep'[q] # Nowhere
    BY <1>t, <2>1
  <2> QED
    BY <1>n, <2>1, <2>2
<1>6. ASSUME NEW dst \in Addrs, NEW n \in Lengths, Packet(dst, n) PROVE PacketRouted'
  <2>1. /\ at = "select" /\ UNCHANGED <<ep, keyed>> /\ Lookup(dst) \in Peers
        /\ \/ at' = "panicked"
           \/ /\ at' = "send" /\ Answers(Lookup(dst)) # {"error"}
              /\ pkt'.peer = Lookup(dst) /\ pkt'.addr = dst /\ pkt'.to = ep[Lookup(dst)]
    BY <1>6 DEF Packet
  <2>2. Answers(Lookup(dst)) # {"error"} => ep[Lookup(dst)] # Nowhere
    BY <2>1 DEF Answers
  <2> QED
    BY <1>n, <2>1, <2>2
<1>7. CASE UNCHANGED vars
  BY <1>7 DEF vars, netVars, loopVars, Built, Lookup
<1> QED
  BY <1>1, <1>2, <1>3, <1>4, <1>5, <1>6, <1>7, <1>8 DEF Next

-----------------------------------------------------------------------------
(* Time.                                                                   *)

LEMMA OverdueStep == LInv /\ [Next]_vars => OverdueBounded'
<1> SUFFICES ASSUME LInv, [Next]_vars PROVE OverdueBounded'
  OBVIOUS
<1> USE DEF LInv, OverdueBounded
<1>t. /\ since \in [Peers -> Nat] /\ behind \in Nat /\ lag \in Nat /\ Keepalive \in [Peers -> Nat]
      /\ queue \subseteq Peers /\ Second \in Nat \ {0}
  BY LoopAssumption DEF TypeOK
<1>1. CASE Pass
  <2>1. /\ at \notin {"build", "over", "panicked"} /\ UNCHANGED <<at, ticked, queue>>
        /\ at # "greet" => behind' = behind + 1
        /\ at = "keepalive" => lag' = lag + 1
        /\ \A p \in Peers : Keepalive[p] > 0 => since'[p] = since[p] + 1
    BY <1>1, <1>t DEF Pass
  <2> QED
    BY <1>t, <2>1
<1>2. CASE Build \/ SessionsBuilt \/ Greet \/ LoopEnds
  BY <1>2 DEF Build, SessionsBuilt, Greet, LoopEnds, loopVars
<1>3. CASE LoopBegins
  BY <1>3, <1>t DEF LoopBegins
<1>4. CASE Tick \/ TurnDone
  <2>1. /\ at \in {"select", "turn"} /\ at' \in {"turn", "drain"} /\ UNCHANGED <<since, ticked>>
        /\ at = "select" => behind >= Second /\ behind' = behind - Second
        /\ at = "turn" => behind' = behind
    BY <1>4 DEF Tick, TurnDone
  <2> QED
    BY <1>t, <2>1
<1>5. CASE StartKeepalives
  <2>1. /\ at' = "keepalive" /\ queue' = Overdue /\ lag' = 0 /\ ticked' /\ UNCHANGED <<since, behind>>
    BY <1>5 DEF StartKeepalives
  <2> QED
    BY <1>t, <2>1 DEF Overdue
<1>6. CASE SendKeepalive
  <2>1. /\ at = "keepalive" /\ at' = at /\ queue' = queue \ {Next1} /\ Next1 \in queue
        /\ since' = [since EXCEPT ![Next1] = lag] /\ UNCHANGED <<behind, lag, ticked>>
    BY <1>6, <1>t, NextServed DEF SendKeepalive
  <2> QED
    BY <1>t, <2>1
<1>7. CASE KeepalivesDone
  BY <1>7, <1>t DEF KeepalivesDone
<1>8. ASSUME NEW p \in Peers, Turn(p) \/ SendMaintenance(p) PROVE OverdueBounded'
  BY <1>8 DEF Turn, SendMaintenance
<1>9. ASSUME NEW p \in Peers, NEW f \in Places, Handshake(p, f) PROVE OverdueBounded'
  BY <1>9 DEF Handshake
<1>10. ASSUME NEW p \in Peers, NEW f \in Places, NEW src \in Addrs, Data(p, f, src) PROVE OverdueBounded'
  BY <1>10 DEF Data
<1>11. ASSUME NEW dst \in Addrs, NEW n \in Lengths, Packet(dst, n) PROVE OverdueBounded'
  BY <1>11 DEF Packet
<1>12. CASE WriteTun
  BY <1>12 DEF WriteTun
<1>13. CASE SendPacket
  <2>1. /\ at = "send" /\ at' = "select" /\ UNCHANGED <<behind, ticked>>
        /\ \A p \in Peers : since'[p] = since[p] \/ since'[p] = 0
    BY <1>13, <1>t DEF SendPacket
  <2> QED
    BY <1>t, <2>1
<1>14. CASE UNCHANGED vars
  BY <1>14 DEF vars, loopVars
<1> QED
  BY <1>1, <1>2, <1>3, <1>4, <1>5, <1>6, <1>7, <1>8, <1>9, <1>10, <1>11, <1>12, <1>13, <1>14 DEF Next

LEMMA QuietStep == LInv /\ [Next]_vars => QuietTracked'
<1> SUFFICES ASSUME LInv, [Next]_vars, NEW p \in Peers, p \notin missed', Keepalive[p] > 0
             PROVE  quiet'[p] <= since'[p]
  BY DEF QuietTracked
<1> USE DEF LInv, QuietTracked
<1>t. /\ since \in [Peers -> Nat] /\ quiet \in [Peers -> Nat] /\ lag \in Nat
      /\ Keepalive \in [Peers -> Nat] /\ queue \subseteq Peers
  BY LoopAssumption DEF TypeOK
\* A datagram to a peer leaves, and nothing else changes.
<1>q. ASSUME NEW q \in Peers, quiet' = [quiet EXCEPT ![q] = 0] \/ UNCHANGED quiet,
             UNCHANGED <<since, missed>>
      PROVE  quiet'[p] <= since'[p]
  BY <1>q, <1>t
<1>1. CASE Pass
  <2>1. /\ since'[p] = since[p] + 1 /\ quiet'[p] <= quiet[p] + 1 /\ missed' = missed
        /\ quiet'[p] \in Nat
    BY <1>1, <1>t, LaterTyped DEF Pass
  <2> QED
    BY <1>t, <2>1
<1>2. CASE Greet
  BY <1>2, <1>q, <1>t, NextServed DEF Greet
<1>3. CASE SendKeepalive
  <2>1. /\ Next1 \in Peers /\ since' = [since EXCEPT ![Next1] = lag]
        /\ \/ quiet' = [quiet EXCEPT ![Next1] = 0] /\ missed' = missed \ {Next1}
           \/ quiet' = quiet /\ missed' = missed \cup {Next1}
    BY <1>3, <1>t, NextServed DEF SendKeepalive
  <2> QED
    BY <1>t, <2>1
<1>4. ASSUME NEW q \in Peers, SendMaintenance(q) PROVE quiet'[p] <= since'[p]
  BY <1>4, <1>q DEF SendMaintenance
<1>5. ASSUME NEW q \in Peers, NEW f \in Places, Handshake(q, f) PROVE quiet'[p] <= since'[p]
  BY <1>5, <1>q DEF Handshake
<1>6. CASE SendPacket
  <2>1. CASE UNCHANGED <<since, quiet, missed>>
    BY <2>1
  <2>2. CASE /\ since' = [q \in Peers |-> IF q \in Postponed(pkt.to) THEN 0 ELSE since[q]]
             /\ quiet' = [quiet EXCEPT ![pkt.peer] = 0]
             /\ missed' = (missed \cup SlotOf(pkt.to)) \ {pkt.peer}
    <3>1. pkt.peer \in Peers
      BY <1>6 DEF PacketRouted, SendPacket
    <3>2. p # pkt.peer => p \notin missed /\ p \notin Postponed(pkt.to)
      BY <2>2 DEF Postponed
    <3> QED
      BY <1>t, <2>2, <3>1, <3>2
  <2> QED
    BY <1>6, <2>1, <2>2 DEF SendPacket
<1>7. CASE UNCHANGED <<since, quiet, missed>>
  BY <1>7
<1>8. CASE Build \/ UNCHANGED vars
  BY <1>7, <1>8 DEF Build, loopVars, vars
<1> QED
  BY <1>1, <1>2, <1>3, <1>4, <1>5, <1>6, <1>7, <1>8
    DEF Next, SessionsBuilt, LoopBegins, Tick, TurnDone, StartKeepalives, KeepalivesDone, Turn, Data,
        Packet, WriteTun, LoopEnds

LEMMA IdleStep == LInv /\ [Next]_vars => IdleTracked'
<1> SUFFICES ASSUME LInv, [Next]_vars, NEW p \in Peers, OwnSlot(p), Keepalive[p] > 0
             PROVE  /\ since'[p] <= idle'[p] \/ idle'[p] >= Keepalive[p]
                    /\ at' = "keepalive" /\ p \in queue' => idle'[p] >= Keepalive[p]
  BY DEF IdleTracked, OwnSlot, SlotOf
<1> USE DEF LInv
<1>t. /\ since \in [Peers -> Nat] /\ idle \in [Peers -> Nat] /\ lag \in Nat
      /\ Keepalive \in [Peers -> Nat] /\ queue \subseteq Peers
  BY LoopAssumption DEF TypeOK
<1>i. /\ since[p] <= idle[p] \/ idle[p] >= Keepalive[p]
      /\ at = "keepalive" /\ p \in queue => idle[p] >= Keepalive[p]
  BY DEF IdleTracked
<1>1. CASE Pass
  <2>1. /\ since'[p] = since[p] + 1 /\ idle'[p] = Later(idle[p], Keepalive[p]) /\ UNCHANGED <<at, queue>>
    BY <1>1, <1>t DEF Pass
  <2>2. idle'[p] = IF idle[p] < Keepalive[p] THEN idle[p] + 1 ELSE idle[p]
    BY <2>1 DEF Later
  <2> QED
    BY <1>t, <1>i, <2>1, <2>2
<1>2. CASE StartKeepalives
  <2>1. p \in queue' => since[p] >= Keepalive[p]
    BY <1>2 DEF StartKeepalives, Overdue
  <2> QED
    BY <1>2, <1>t, <1>i, <2>1 DEF StartKeepalives
<1>3. CASE SendKeepalive
  <2>1. /\ at = "keepalive" /\ Next1 \in queue /\ queue' = queue \ {Next1} /\ idle' = idle
        /\ since' = [since EXCEPT ![Next1] = lag]
    BY <1>3, <1>t, NextServed DEF SendKeepalive
  <2> QED
    BY <1>t, <1>i, <2>1
<1>4. CASE SendPacket
  <2>1. at' = "select"
    BY <1>4 DEF SendPacket
  <2>2. CASE UNCHANGED <<since, idle>>
    BY <2>1, <2>2, <1>i
  <2>3. CASE /\ since' = [q \in Peers |-> IF q \in Postponed(pkt.to) THEN 0 ELSE since[q]]
             /\ idle' = [idle EXCEPT ![pkt.peer] = IF pkt.to = Endpoint[pkt.peer] THEN 0 ELSE @]
    <3>1. CASE p \in Postponed(pkt.to)
      BY <1>t, <2>1, <2>3, <3>1
    <3>2. CASE p \notin Postponed(pkt.to)
      <4>1. pkt.peer = p => pkt.to # Endpoint[p]
        BY <3>2 DEF Postponed, OwnSlot
      <4>2. since'[p] = since[p] /\ idle'[p] = idle[p]
        BY <1>t, <2>3, <3>2, <4>1
      <4> QED
        BY <1>i, <2>1, <4>2
    <3> QED
      BY <3>1, <3>2
  <2> QED
    BY <1>4, <2>2, <2>3 DEF SendPacket
<1>5. CASE UNCHANGED <<since, idle>> /\ at' # "keepalive"
  BY <1>5, <1>i
<1>6. CASE Build \/ UNCHANGED vars
  BY <1>6, <1>i DEF Build, loopVars, vars
<1>7. ASSUME NEW q \in Peers, Turn(q) \/ SendMaintenance(q)
      PROVE  UNCHANGED <<since, idle>> /\ at' # "keepalive"
  BY <1>7 DEF Turn, SendMaintenance
<1>8. ASSUME NEW q \in Peers, NEW f \in Places, Handshake(q, f)
      PROVE  UNCHANGED <<since, idle>> /\ at' # "keepalive"
  BY <1>8 DEF Handshake
<1>9. ASSUME NEW q \in Peers, NEW f \in Places, NEW src \in Addrs, Data(q, f, src)
      PROVE  UNCHANGED <<since, idle>> /\ at' # "keepalive"
  BY <1>9 DEF Data
<1>10. ASSUME NEW dst \in Addrs, NEW n \in Lengths, Packet(dst, n)
       PROVE  UNCHANGED <<since, idle>> /\ at' # "keepalive"
  BY <1>10 DEF Packet
<1> QED
  BY <1>1, <1>2, <1>3, <1>4, <1>5, <1>6, <1>7, <1>8, <1>9, <1>10
    DEF Next, SessionsBuilt, Greet, LoopBegins, Tick, TurnDone, KeepalivesDone, WriteTun, LoopEnds

LEMMA LInvInit == Init => LInv
<1> SUFFICES ASSUME Init PROVE LInv
  OBVIOUS
<1>1. TypeOK /\ TrieIsLatest
  BY LoopTypeInit, LatestInit DEF Init
<1>2. /\ at = "build" /\ ~ticked /\ keyed = {} /\ missed = {}
      /\ \A p \in Peers : since[p] = 0 /\ quiet[p] = 0 /\ idle[p] = 0
  BY DEF Init
<1> QED
  BY <1>1, <1>2 DEF LInv, PacketRouted, OverdueBounded, QuietTracked, IdleTracked

-----------------------------------------------------------------------------
(* The theorems.                                                           *)

(* Every variable of EventLoop keeps its type.                             *)
THEOREM LoopTyped == Spec => []TypeOK
BY LoopTypeInit, LoopTypeStep, PTL DEF Spec

(* The conjuncts hold together: the types, the tries for what a handler    *)
(* was told, and the three clocks of a peer against the backlog of ticks.  *)
THEOREM LoopInvariant == Spec => []LInv
<1>1. LInv /\ [Next]_vars => LInv'
  BY LoopTypeStep, TrieStep, RoutedStep, OverdueStep, QuietStep, IdleStep DEF LInv
<1> QED
  BY <1>1, LInvInit, PTL DEF Spec

(* As long as the loop runs, cryptokey routing is the configuration's.     *)
THEOREM RoutingIsConfigured == Spec => []LookupIsOwner
<1>1. LInv => LookupIsOwner
  BY BuiltRight DEF LInv, TypeOK
<1> QED
  BY <1>1, LoopInvariant, PTL

(* A loop that is behind its interval catches up on every keepalive: once  *)
(* it has, none is later than one tick.                                    *)
THEOREM KeepalivesInTime == Spec => []NobodyOverdue
<1>1. LInv => NobodyOverdue
  <2>1. ASSUME LInv, Punctual, NEW p \in Peers, Keepalive[p] > 0
        PROVE  since[p] < Keepalive[p] + behind
    <3>1. ~(behind >= Second)
      BY <2>1, LoopAssumption DEF LInv, TypeOK, Punctual
    <3> QED
      BY <2>1, <3>1 DEF LInv, OverdueBounded, Punctual
  <2> QED
    BY <2>1 DEF NobodyOverdue
<1> QED
  BY <1>1, LoopInvariant, PTL

(* The silence a NAT sees is no longer than the one last_sent tells of.    *)
THEOREM MappingsKeptOpen == Spec => []MappingKeptOpen
<1>1. LInv => MappingKeptOpen
  <2>1. ASSUME LInv, Punctual, NEW p \in Peers \ missed, Keepalive[p] > 0
        PROVE  quiet[p] < Keepalive[p] + behind
    <3>0. ~(behind >= Second)
      BY <2>1, LoopAssumption DEF LInv, TypeOK, Punctual
    <3>1. since[p] < Keepalive[p] + behind /\ quiet[p] <= since[p]
      BY <2>1, <3>0 DEF LInv, OverdueBounded, QuietTracked, Punctual
    <3>2. since[p] \in Nat /\ quiet[p] \in Nat /\ Keepalive[p] \in Nat /\ behind \in Nat
      BY <2>1, LoopAssumption DEF LInv, TypeOK
    <3> QED
      BY <2>1, <3>1, <3>2
  <2> QED
    BY <2>1 DEF MappingKeptOpen
<1> QED
  BY <1>1, LoopInvariant, PTL

(* What the trie answered for a packet's address is what its owner is.     *)
LEMMA RoutedIsOwned ==
  ASSUME LInv, at \in {"write", "send"}
  PROVE  Owns(pkt.peer, pkt.addr)
<1>1. Built /\ pkt.addr \in Addrs /\ pkt.peer \in Peers /\ Lookup(pkt.addr) = pkt.peer
  BY DEF LInv, PacketRouted
<1> QED
  BY <1>1, BuiltRight DEF LInv, TypeOK, LookupIsOwner

(* No peer can speak for an address of another.                            *)
THEOREM InboundsOwned == Spec => []InboundOwned
<1>1. LInv => InboundOwned
  BY RoutedIsOwned DEF InboundOwned
<1> QED
  BY <1>1, LoopInvariant, PTL

(* No packet is encrypted for another peer than its owner or sent to       *)
(* another place than that peer's.                                         *)
THEOREM OutboundsOwned == Spec => []OutboundOwned
<1>1. LInv => OutboundOwned
  BY RoutedIsOwned DEF OutboundOwned, LInv, PacketRouted
<1> QED
  BY <1>1, LoopInvariant, PTL

(* A peer in its endpoint's slot gets no keepalive within its interval of  *)
(* a packet to that endpoint.                                              *)
THEOREM KeepalivesAfterSilence == Spec => KeepaliveOnlyAfterSilence
<1>1. LInv => [\A p \in Peers :
                 at = "keepalive" /\ p \in queue \ queue' /\ Endpoint[p] # Nowhere
                   /\ p \in SlotOf(Endpoint[p]) => idle[p] >= Keepalive[p]]_vars
  BY DEF LInv, IdleTracked, OwnSlot, OverdueBounded
<1> QED
  BY <1>1, LoopInvariant, PTL DEF KeepaliveOnlyAfterSilence

(* Whatever the MTU, only a packet of more than BufLen - 32 bytes panics   *)
(* handle_intern.                                                          *)
THEOREM PanicsAreOversized == Spec => []OnlyOversizedPanics
<1>1. Init => OnlyOversizedPanics
  BY DEF Init, OnlyOversizedPanics
<1>2. ASSUME NEW dst \in Addrs, NEW n \in Lengths, Packet(dst, n) PROVE OnlyOversizedPanics'
  <2>1. n \in Nat /\ n \in 0 .. MaxPacket
    BY LoopAssumption
  <2>2. PaddingFits(n) /\ (FrameFits(n) <=> n <= BufLen - 32)
    BY <2>1, FrameFitsExactly, PaddingAlwaysFits
  <2>3. pkt'.len = n /\ (at' = "panicked" => ~FrameFits(n))
    BY <1>2, <2>2 DEF Packet
  <2> QED
    BY <2>1, <2>2, <2>3, FramingAssumption DEF OnlyOversizedPanics
<1>3. OnlyOversizedPanics /\ [Next]_vars => OnlyOversizedPanics'
  BY <1>2 DEF OnlyOversizedPanics, Next, vars, loopVars, Pass, Build, SessionsBuilt, Greet, LoopBegins, Tick,
              TurnDone, StartKeepalives, SendKeepalive, KeepalivesDone, Turn, SendMaintenance,
              Handshake, Data, WriteTun, SendPacket, LoopEnds
<1> QED
  BY <1>1, <1>3, PTL DEF Spec
=============================================================================
