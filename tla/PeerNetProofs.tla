--------------------------- MODULE PeerNetProofs ---------------------------
(***************************************************************************)
(* The tries build_sessions fills answer as the configuration says, for    *)
(* any prefixes of any number of peers.                                    *)
(***************************************************************************)
EXTENDS PeerNet, TLAPS, WellFoundedInduction

(* A set of prefixes has a longest one.                                    *)
LEMMA LeastNumber ==
  ASSUME NEW T, T \subseteq Nat, T # {}
  PROVE  \E x \in T : \A y \in T : x <= y
<1> DEFINE R == {ss \in Nat \X Nat : ss[1] < ss[2]}
<1>1. IsWellFoundedOn(R, Nat)
  BY NatLessThanWellFounded DEF OpToRel
<1>2. \E x \in T : \A y \in T : <<y, x>> \notin R
  <2> HIDE DEF R
  <2> QED
    BY <1>1, WFMin
<1>3. PICK x \in T : \A y \in T : <<y, x>> \notin R
  BY <1>2
<1>4. \A y \in T : ~(y < x)
  BY <1>3
<1> QED
  BY <1>4

LEMMA LongestExists ==
  ASSUME NEW S, S \subseteq Prefixes, S # {}
  PROVE  \E p \in S : \A q \in S : Length[q] <= Length[p]
<1> DEFINE T == {MaxLength - Length[p] : p \in S}
<1>1. \A p \in S : Length[p] \in 0 .. MaxLength /\ MaxLength \in Nat
  BY PeerNetAssumption
<1>2. T \subseteq Nat /\ T # {}
  BY <1>1
<1>3. PICK x \in T : \A y \in T : x <= y
  <2> HIDE DEF T
  <2> QED
    BY <1>2, LeastNumber
<1>4. PICK p \in S : x = MaxLength - Length[p]
  BY <1>3
<1>5. \A q \in S : x <= MaxLength - Length[q]
  BY <1>3
<1> QED
  BY <1>1, <1>4, <1>5

LEMMA PrefixTyped ==
  ASSUME NEW p \in Peers, NEW i \in DOMAIN AllowedIPs[p]
  PROVE  AllowedIPs[p][i] \in Prefixes /\ i \in Nat /\ i >= 1 /\ i <= Len(AllowedIPs[p])
<1>1. AllowedIPs[p] \in Seq(Prefixes)
  BY PeerNetAssumption
<1> QED
  BY <1>1

LEMMA NetTypeInit == NetInit => NetTypeOK
<1> SUFFICES ASSUME NetInit PROVE NetTypeOK
  OBVIOUS
<1>1. 1 \in Peers => Len(AllowedIPs[1]) \in Nat
  BY PeerNetAssumption
<1> QED
  BY <1>1, PeerNetAssumption DEF NetInit, NetTypeOK, Peers

LEMMA NetTypeStep == NetTypeOK /\ [Insert \/ NextPeer]_netVars => NetTypeOK'
<1> SUFFICES ASSUME NetTypeOK, [Insert \/ NextPeer]_netVars PROVE NetTypeOK'
  OBVIOUS
<1> USE DEF NetTypeOK
<1>1. CASE Insert
  <2>1. /\ AllowedIPs[slot][nth] \in Prefixes /\ nth \in Nat /\ nth >= 1
        /\ nth <= Len(AllowedIPs[slot]) /\ Len(AllowedIPs[slot]) \in Nat
    BY <1>1, PrefixTyped, PeerNetAssumption DEF Insert
  <2> QED
    BY <1>1, <2>1 DEF Insert
<1>2. CASE NextPeer
  <2>1. slot' \in Peers => Len(AllowedIPs[slot']) \in Nat
    BY PeerNetAssumption
  <2> QED
    BY <1>2, <2>1, PeerNetAssumption DEF NextPeer, Peers
<1>3. CASE UNCHANGED netVars
  BY <1>3 DEF netVars
<1> QED
  BY <1>1, <1>2, <1>3

(* Which claims the next step adds.                                        *)
LEMMA ClaimsGrow ==
  ASSUME NetTypeOK, Insert, NEW k \in Prefixes
  PROVE  ClaimedSoFar(k)' =
           IF k = AllowedIPs[slot][nth] THEN ClaimedSoFar(k) \cup {slot} ELSE ClaimedSoFar(k)
<1>1. /\ slot \in Peers /\ slot \in Nat /\ nth \in Nat /\ nth \in DOMAIN AllowedIPs[slot]
      /\ slot' = slot /\ nth' = nth + 1
  BY DEF Insert, NetTypeOK, Peers
<1>2. ASSUME NEW p \in Peers, NEW i \in DOMAIN AllowedIPs[p]
      PROVE  (p < slot \/ (p = slot /\ i < nth + 1))
               <=> ((p < slot \/ (p = slot /\ i < nth)) \/ (p = slot /\ i = nth))
  BY <1>1, <1>2, PrefixTyped DEF Peers
<1> QED
  BY <1>1, <1>2 DEF ClaimedSoFar

LEMMA ClaimsStay ==
  ASSUME NetTypeOK, NextPeer, NEW k \in Prefixes
  PROVE  ClaimedSoFar(k)' = ClaimedSoFar(k)
<1>1. /\ slot \in Peers /\ slot \in Nat /\ nth \in Nat /\ nth \notin DOMAIN AllowedIPs[slot] /\ nth >= 1
      /\ slot' = slot + 1 /\ nth' = 1 /\ AllowedIPs[slot] \in Seq(Prefixes)
  BY PeerNetAssumption DEF NextPeer, NetTypeOK, Peers
<1>2. nth > Len(AllowedIPs[slot])
  BY <1>1
<1>3. ASSUME NEW p \in Peers, NEW i \in DOMAIN AllowedIPs[p]
      PROVE  (p < slot + 1 \/ (p = slot + 1 /\ i < 1)) <=> (p < slot \/ (p = slot /\ i < nth))
  BY <1>1, <1>2, <1>3, PrefixTyped DEF Peers
<1> QED
  BY <1>1, <1>3 DEF ClaimedSoFar

LEMMA LatestInit == NetInit => TrieIsLatest
<1> SUFFICES ASSUME NetInit, NEW k \in Prefixes
             PROVE  ClaimedSoFar(k) = {} /\ trie[k] = IF k \in Roots THEN Sentinel ELSE Empty
  BY DEF TrieIsLatest
<1>1. ASSUME NEW p \in Peers, NEW i \in DOMAIN AllowedIPs[p]
      PROVE  ~(p < 1 \/ (p = 1 /\ i < 1))
  BY PrefixTyped DEF Peers
<1> QED
  BY <1>1 DEF NetInit, ClaimedSoFar

LEMMA LatestStep == NetTypeOK /\ TrieIsLatest /\ [Insert \/ NextPeer]_netVars => TrieIsLatest'
<1> SUFFICES ASSUME NetTypeOK, TrieIsLatest, [Insert \/ NextPeer]_netVars, NEW k \in Prefixes
             PROVE  \/ ClaimedSoFar(k)' = {} /\ trie'[k] = IF k \in Roots THEN Sentinel ELSE Empty
                    \/ trie'[k] \in ClaimedSoFar(k)' /\ \A p \in ClaimedSoFar(k)' : p <= trie'[k]
  BY DEF TrieIsLatest
<1>1. CASE Insert
  <2>1. trie' = [trie EXCEPT ![AllowedIPs[slot][nth]] = slot] /\ slot \in Peers /\ slot \in Nat
        /\ trie \in [Prefixes -> Peers \cup {Sentinel, Empty}]
    BY <1>1 DEF Insert, NetTypeOK, Peers
  <2>2. CASE k = AllowedIPs[slot][nth]
    <3>1. trie'[k] = slot
      BY <2>1, <2>2
    <3>2. ClaimedSoFar(k)' = ClaimedSoFar(k) \cup {slot}
      BY <1>1, <2>2, ClaimsGrow
    <3>3. \A p \in ClaimedSoFar(k) : p <= slot
      BY <2>1 DEF ClaimedSoFar, Peers
    <3> QED
      BY <2>1, <3>1, <3>2, <3>3
  <2>3. CASE k # AllowedIPs[slot][nth]
    <3>1. trie'[k] = trie[k] /\ ClaimedSoFar(k)' = ClaimedSoFar(k)
      BY <1>1, <2>1, <2>3, ClaimsGrow
    <3> QED
      BY <3>1 DEF TrieIsLatest
  <2> QED
    BY <2>2, <2>3
<1>2. CASE NextPeer
  <2>1. trie' = trie /\ ClaimedSoFar(k)' = ClaimedSoFar(k)
    BY <1>2, ClaimsStay DEF NextPeer
  <2> QED
    BY <2>1 DEF TrieIsLatest
<1>3. CASE UNCHANGED netVars
  BY <1>3 DEF netVars, TrieIsLatest, ClaimedSoFar
<1> QED
  BY <1>1, <1>2, <1>3

-----------------------------------------------------------------------------
(* When all is inserted, every claim counts.                               *)
LEMMA AllClaimed ==
  ASSUME NetTypeOK, Built, NEW k \in Prefixes
  PROVE  ClaimedSoFar(k) = {p \in Peers : k \in Claims(p)}
<1>1. slot = PeerCount + 1 /\ \A p \in Peers : p < slot
  BY PeerNetAssumption DEF NetTypeOK, Built, Peers
<1> QED
  BY <1>1 DEF ClaimedSoFar, Claims

(* Where the trie leads, and with which prefix it was found.               *)
LEMMA LookupFinds ==
  ASSUME TrieIsLatest, NEW a \in Addrs
  PROVE  \E k \in Covering[a] :
           /\ k \in Prefixes /\ trie[k] # Empty /\ Lookup(a) = trie[k]
           /\ \A q \in Covering[a] : trie[q] # Empty => Length[q] <= Length[k]
<1> DEFINE found == {p \in Covering[a] : trie[p] # Empty}
<1>1. Covering[a] \subseteq Prefixes
  BY PeerNetAssumption
<1>2. \A p \in Covering[a] : p \in Roots => trie[p] # Empty
  BY <1>1, PeerNetAssumption DEF TrieIsLatest, ClaimedSoFar
<1>3. found # {}
  BY <1>2, PeerNetAssumption
<1>4. \E p \in found : \A q \in found : Length[q] <= Length[p]
  BY <1>1, <1>3, LongestExists
<1>5. DEFINE best == CHOOSE p \in found : \A q \in found : Length[q] <= Length[p]
<1>6. best \in found /\ \A q \in found : Length[q] <= Length[best]
  BY <1>4
<1> QED
  BY <1>1, <1>6 DEF Lookup

(* PeerNet::lookup and the configuration agree on every address: by then a *)
(* prefix leads to the last of the peers that claim it.                    *)
LEMMA BuiltRight == NetTypeOK /\ TrieIsLatest => LookupIsOwner
<1> SUFFICES ASSUME NetTypeOK, TrieIsLatest, Built, NEW a \in Addrs
             PROVE  /\ \A p \in Peers : Lookup(a) = p <=> Owns(p, a)
                    /\ Lookup(a) \in Peers \cup {Sentinel}
  BY DEF LookupIsOwner
<1>1. PICK k \in Covering[a] :
        /\ k \in Prefixes /\ trie[k] # Empty /\ Lookup(a) = trie[k]
        /\ \A q \in Covering[a] : trie[q] # Empty => Length[q] <= Length[k]
  BY LookupFinds
<1>2. /\ Covering[a] \subseteq Prefixes
      /\ \A q \in Prefixes : Length[q] \in Nat
      /\ \A q \in Covering[a] : Length[q] = Length[k] => q = k
      /\ \A p \in Peers : p \in Nat
  BY PeerNetAssumption DEF Peers
<1>3. ASSUME NEW q \in Prefixes, NEW p \in Peers, q \in Claims(p)
      PROVE  trie[q] \in Peers /\ q \in Claims(trie[q]) /\ p <= trie[q]
  <2>1. p \in ClaimedSoFar(q) /\ ClaimedSoFar(q) = {r \in Peers : q \in Claims(r)}
    BY <1>3, AllClaimed
  <2> QED
    BY <2>1 DEF TrieIsLatest
<1>4. trie[k] \in Peers => k \in Claims(trie[k])
  <2>1. ClaimedSoFar(k) = {r \in Peers : k \in Claims(r)}
    BY <1>1, AllClaimed
  <2> QED
    BY <1>1, <2>1, PeerNetAssumption DEF TrieIsLatest
<1>5. trie[k] \in Peers \cup {Sentinel}
  BY <1>1 DEF NetTypeOK
<1>6. ASSUME NEW q \in Covering[a], NEW p \in Peers, q \in Claims(p)
      PROVE  Length[q] < Length[k] \/ (q = k /\ p <= trie[k])
  <2>1. trie[q] # Empty /\ p <= trie[q]
    <3>1. q \in Prefixes
      BY <1>2
    <3>2. trie[q] \in Peers /\ p <= trie[q]
      BY <1>3, <1>6, <3>1
    <3> QED
      BY <3>2, PeerNetAssumption
  <2>2. Length[q] <= Length[k]
    BY <1>1, <2>1
  <2> QED
    BY <1>1, <1>2, <2>1, <2>2
<1>7. ASSUME NEW p \in Peers, Lookup(a) = p PROVE Owns(p, a)
  <2>1. trie[k] = p /\ k \in Claims(p)
    BY <1>1, <1>4, <1>7
  <2> QED
    BY <1>6, <2>1 DEF Owns
<1>8. ASSUME NEW p \in Peers, Owns(p, a) PROVE Lookup(a) = p
  <2>1. PICK own \in Claims(p) \cap Covering[a] :
          \A q \in Peers : \A other \in Claims(q) \cap Covering[a] :
            Length[other] < Length[own] \/ (other = own /\ q <= p)
    BY <1>8 DEF Owns
  <2>2. trie[own] \in Peers /\ own \in Claims(trie[own]) /\ p <= trie[own]
    BY <1>2, <1>3, <2>1
  <2>3. Length[own] <= Length[k]
    BY <1>1, <2>1, <2>2, PeerNetAssumption
  <2>4. trie[k] \in Peers
    <3>1. CASE own = k
      BY <2>2, <3>1
    <3>2. CASE own # k
      <4>1. Length[own] < Length[k]
        BY <1>1, <1>2, <2>1, <2>3, <3>2
      <4>2. k \notin Roots
        BY <1>1, <1>2, <2>1, <4>1, PeerNetAssumption
      <4> QED
        BY <1>1, <1>5, <4>2 DEF TrieIsLatest, ClaimedSoFar
    <3> QED
      BY <3>1, <3>2
  <2>5. k \in Claims(trie[k]) \cap Covering[a]
    BY <1>1, <1>4, <2>4
  <2>6. own = k /\ trie[k] <= p
    BY <1>1, <1>2, <2>1, <2>3, <2>4, <2>5
  <2> QED
    BY <1>1, <1>2, <2>2, <2>4, <2>6
<1> QED
  BY <1>1, <1>5, <1>7, <1>8

(* Whatever is claimed twice, whatever overlaps, and with or without a     *)
(* catch-all at the root: the tries are right when build_sessions is done. *)
THEOREM LookupsAreOwners == NetSpec => []LookupIsOwner
<1>1. NetInit => NetTypeOK /\ TrieIsLatest
  BY NetTypeInit, LatestInit
<1>2. NetTypeOK /\ TrieIsLatest /\ [Insert \/ NextPeer]_netVars => (NetTypeOK /\ TrieIsLatest)'
  BY NetTypeStep, LatestStep
<1> QED
  BY <1>1, <1>2, BuiltRight, PTL DEF NetSpec
=============================================================================
