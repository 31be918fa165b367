------------------------------ MODULE PeerNet ------------------------------
(***************************************************************************)
(* Cryptokey routing: build_sessions (smartguard-crypto/src/lib.rs) fills  *)
(* the prefix tries of smartguard-crypto/src/session/peer_net.rs peer by   *)
(* peer, prefix by prefix.  A peer is its position in the configuration,   *)
(* which is the order of the ids.  Both families are one trie with two     *)
(* roots here: no prefix covers addresses of the two.                      *)
(***************************************************************************)
EXTENDS Naturals, Sequences

CONSTANTS
  PeerCount,
  Addrs,       \* the addresses looked up
  Prefixes,
  Roots,       \* 0.0.0.0/0 and ::/0
  Length,      \* of a prefix, at most MaxLength
  MaxLength,
  Covering,    \* per address: the prefixes that cover it
  AllowedIPs,  \* per peer: its prefixes in order, host bits masked
  Sentinel,    \* PeerId::sentinal()
  Empty        \* a prefix that is not in the trie

Peers == 1 .. PeerCount

ASSUME PeerNetAssumption ==
  /\ PeerCount \in Nat
  /\ Roots \subseteq Prefixes /\ \A r \in Roots : Length[r] = 0
  /\ MaxLength \in Nat /\ Length \in [Prefixes -> 0 .. MaxLength]
  /\ Covering \in [Addrs -> SUBSET Prefixes]
  /\ AllowedIPs \in [Peers -> Seq(Prefixes)]
  /\ \A a \in Addrs :
       /\ Covering[a] \cap Roots # {}
       /\ \A p, q \in Covering[a] : Length[p] = Length[q] => p = q
  /\ Sentinel \notin Peers /\ Empty \notin Peers /\ Sentinel # Empty

VARIABLES
  trie,        \* per prefix: the peer it leads to, the sentinel, or Empty
  slot,        \* the peer build_sessions is at
  nth          \* and which of its prefixes

netVars == <<trie, slot, nth>>

\* PeerNetBuilder::new.
NetInit ==
  /\ trie = [p \in Prefixes |-> IF p \in Roots THEN Sentinel ELSE Empty]
  /\ slot = 1
  /\ nth = 1

\* Mutant: the first peer that claims a prefix keeps it.
InsertFirstWins ==
  /\ slot \in Peers
  /\ nth \in DOMAIN AllowedIPs[slot]
  /\ LET p == AllowedIPs[slot][nth]
     IN trie' = IF trie[p] \in Peers THEN trie ELSE [trie EXCEPT ![p] = slot]
  /\ nth' = nth + 1
  /\ UNCHANGED slot

\* builder.insert: of a prefix inserted twice the later peer remains, and a
\* catch-all takes the sentinel's place at the root.
Insert ==
  /\ slot \in Peers
  /\ nth \in DOMAIN AllowedIPs[slot]
  /\ trie' = [trie EXCEPT ![AllowedIPs[slot][nth]] = slot]
  /\ nth' = nth + 1
  /\ UNCHANGED slot

NextPeer ==
  /\ slot \in Peers
  /\ nth \notin DOMAIN AllowedIPs[slot]
  /\ slot' = slot + 1
  /\ nth' = 1
  /\ UNCHANGED trie

Built == slot \notin Peers

NetSpec == NetInit /\ [][Insert \/ NextPeer]_netVars

\* Mutant: the shortest match.
LookupShortest(a) ==
  LET found == {p \in Covering[a] : trie[p] # Empty}
  IN trie[CHOOSE p \in found : \A q \in found : Length[p] <= Length[q]]

\* PeerNet::lookup: the longest prefix of the trie that covers a.
Lookup(a) ==
  LET found == {p \in Covering[a] : trie[p] # Empty}
  IN trie[CHOOSE p \in found : \A q \in found : Length[q] <= Length[p]]

-----------------------------------------------------------------------------
(* Properties.                                                             *)

\* The reference: what the configuration says, whatever order it is read in.
Claims(p) == {AllowedIPs[p][i] : i \in DOMAIN AllowedIPs[p]}

\* Peer p owns address a: none claims a longer prefix of it, and no peer below
\* p in the file the same.
Owns(p, a) ==
  \E own \in Claims(p) \cap Covering[a] :
    \A q \in Peers : \A other \in Claims(q) \cap Covering[a] :
      \/ Length[other] < Length[own]
      \/ other = own /\ q <= p

NetTypeOK ==
  /\ trie \in [Prefixes -> Peers \cup {Sentinel, Empty}]
  /\ slot \in 1 .. PeerCount + 1
  /\ nth \in Nat \ {0}
  /\ slot \in Peers => nth <= Len(AllowedIPs[slot]) + 1

\* The peers that have claimed prefix k when build_sessions is where it is.
ClaimedSoFar(k) ==
  {p \in Peers : \E i \in DOMAIN AllowedIPs[p] :
                   AllowedIPs[p][i] = k /\ (p < slot \/ (p = slot /\ i < nth))}

\* Each prefix leads to the last peer that claimed it so far.
TrieIsLatest ==
  \A k \in Prefixes :
    \/ ClaimedSoFar(k) = {} /\ trie[k] = IF k \in Roots THEN Sentinel ELSE Empty
    \/ trie[k] \in ClaimedSoFar(k) /\ \A p \in ClaimedSoFar(k) : p <= trie[k]

\* The trie that PeerNet::lookup answers from gives each address to the peer
\* the configuration does, and to the sentinel when no peer claims it.
LookupIsOwner ==
  Built => \A a \in Addrs :
    /\ \A p \in Peers : Lookup(a) = p <=> Owns(p, a)
    /\ Lookup(a) \in Peers \cup {Sentinel}
=============================================================================
