----------------------------- MODULE RouteTable -----------------------------
(***************************************************************************)
(* The kernel routing table as smartguard/src/route.rs uses it through the *)
(* route(8) command: one route per destination, a default route for each   *)
(* address family, longest prefix first.  External: nothing here is code   *)
(* of the repository except what asks the table a question.                *)
(***************************************************************************)
EXTENDS Naturals, Sequences, FiniteSetsExt, Functions

CONSTANTS
  Families,
  Dests,        \* destinations a route can be for: hosts and prefixes
  FamilyOf,     \* the family of each
  Lower, Upper, \* the two /1 halves of each family
  Hosts,        \* the destinations that are single addresses
  Covering,     \* the prefixes around each host, longest first: a half comes last
  Gateways,
  Tun,          \* our utun interface
  Link,         \* a physical interface, for a route without a gateway
  None,         \* no route, no gateway
  Networks,     \* per family: what its default may be, on the networks visited
  UserDests,    \* destinations the user may have routes of their own for
  KernelDrops   \* the kernel may drop routes together with their interface

ASSUME TableAssumption ==
  /\ FamilyOf \in [Dests -> Families]
  /\ Lower \in [Families -> Dests] /\ Upper \in [Families -> Dests]
  /\ \A f \in Families : FamilyOf[Lower[f]] = f /\ FamilyOf[Upper[f]] = f
  /\ Hosts \subseteq Dests /\ \A f \in Families : {Lower[f], Upper[f]} \cap Hosts = {}
  /\ Covering \in [Hosts -> Seq(Dests \ Hosts)]
  /\ \A h \in Hosts : \A d \in Range(Covering[h]) : FamilyOf[d] = FamilyOf[h]
  /\ \A h \in Hosts : \E d \in Range(Covering[h]) : d \in {Lower[FamilyOf[h]], Upper[FamilyOf[h]]}
  /\ Networks \in [Families -> SUBSET (Gateways \cup {Link, None})]
  /\ UserDests \subseteq Dests
  /\ \A f \in Families : {Lower[f], Upper[f]} \cap UserDests = {}
  /\ KernelDrops \in BOOLEAN
  /\ {Tun, Link, None} \cap Gateways = {}
  /\ Tun # Link /\ Tun # None /\ Link # None

Split == {Lower[f] : f \in Families} \cup {Upper[f] : f \in Families}

VARIABLES
  default,      \* per family: the gateway, Link, or None when offline
  table         \* per destination: its route, or Absent

tableVars == <<default, table>>

Via == Gateways \cup {Tun, Link}
Absent == [via |-> None, ours |-> FALSE]
Route == [via : Via, ours : BOOLEAN]

TableTypeOK ==
  /\ default \in [Families -> Gateways \cup {Link, None}]
  /\ table \in [Dests -> Route \cup {Absent}]

TableInit ==
  /\ default \in [Families -> Gateways \cup {Link, None}]
  /\ \A f \in Families : default[f] \in Networks[f]
  /\ \E user \in [UserDests -> {Absent} \cup {[via |-> g, ours |-> FALSE] : g \in Gateways}] :
       table = [d \in Dests |-> IF d \in UserDests THEN user[d] ELSE Absent]

Ours == {d \in Dests : table[d].ours}
Foreign == {d \in Dests : table[d] # Absent /\ ~table[d].ours}

\* The interface or gateway a packet to host h takes, None for none: the
\* longest prefix that has a route, the default for want of one.
Lookup(h) ==
  LET path == <<h>> \o Covering[h]
      routed == {i \in DOMAIN path : table[path[i]] # Absent}
  IN IF routed = {} THEN default[FamilyOf[h]] ELSE table[path[Min(routed)]].via

\* `route add` of d via v: the kernel never overwrites, and may refuse.
Added(d, v) == table' = [table EXCEPT ![d] = [via |-> v, ours |-> TRUE]]
Addable(d) == table[d] = Absent

\* The laptop changes networks: a new default, and routes of ours through the
\* old one may go with its interface.
NetworkChanges ==
  \E f \in Families : \E v \in Networks[f] \ {default[f]} :
    /\ default' = [default EXCEPT ![f] = v]
    /\ \E lost \in SUBSET {d \in Ours : KernelDrops /\ FamilyOf[d] = f /\ table[d].via = default[f]} :
         table' = [d \in Dests |-> IF d \in lost THEN Absent ELSE table[d]]
=============================================================================
