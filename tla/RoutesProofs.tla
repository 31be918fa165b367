---------------------------- MODULE RoutesProofs ----------------------------
(***************************************************************************)
(* Theorems about Routes for every address plan, every configuration and   *)
(* every sequence of networks.                                             *)
(***************************************************************************)
EXTENDS PlanProofs

USE DEF tableVars

(* The first command and the rest.                                         *)
LEMMA HeadTail ==
  ASSUME NEW S, NEW q \in Seq(S), q # <<>>
  PROVE  /\ Head(q) \in S
         /\ Tail(q) \in Seq(S)
         /\ Head(q) = q[1]
         /\ \A i \in DOMAIN q : i = 1 \/ (i - 1 \in DOMAIN Tail(q) /\ Tail(q)[i - 1] = q[i])
         /\ \A i \in DOMAIN Tail(q) : i + 1 \in DOMAIN q /\ Tail(q)[i] = q[i + 1]
OBVIOUS

(* One entry is replaced.                                                  *)
LEMMA UpdateTyped ==
  ASSUME NEW S, NEW q \in Seq(S), NEW i \in DOMAIN q, NEW r \in S
  PROVE  [q EXCEPT ![i] = r] \in Seq(S)
OBVIOUS

(* A function on 1 .. n is a sequence.                                     *)
LEMMA SeqIntro ==
  ASSUME NEW S, NEW n \in Nat, NEW f \in [1 .. n -> S]
  PROVE  f \in Seq(S)
OBVIOUS

(* One entry is added.                                                     *)
LEMMA AppendFacts ==
  ASSUME NEW S, NEW q \in Seq(S), NEW r \in S
  PROVE  /\ Append(q, r) \in Seq(S)
         /\ Len(Append(q, r)) = Len(q) + 1
         /\ DOMAIN Append(q, r) = 1 .. Len(q) + 1
         /\ DOMAIN q = 1 .. Len(q)
         /\ Len(q) \in Nat
         /\ \A i \in DOMAIN q : Append(q, r)[i] = q[i]
         /\ Append(q, r)[Len(q) + 1] = r
OBVIOUS

LEMMA AppendNew ==
  ASSUME NEW S, NEW q \in Seq(S), NEW r, NEW p, p = Append(q, r),
         NEW i, i \in DOMAIN p, i \notin DOMAIN q
  PROVE  p[i] = r
OBVIOUS

\* A route was added and recorded.
Grown(kind, d, v, gw) ==
  /\ table[d] = Absent
  /\ table' = [table EXCEPT ![d] = [via |-> v, ours |-> TRUE]]
  /\ Len(added') = Len(added) + 1
  /\ DOMAIN added' = 1 .. Len(added) + 1
  /\ \A i \in DOMAIN added : added'[i] = added[i]
  /\ added'[Len(added) + 1] = [kind |-> kind, dest |-> d, gateway |-> gw]

(* What an add command does, done or failed.                               *)
LEMMA InstallFacts ==
  ASSUME TypeOK, NEW kind \in {"net", "host", "pass"}, NEW d \in Dests,
         NEW v \in Via, NEW gw \in Gateways \cup {None}, Install(kind, d, v, gw)
  PROVE  /\ table' \in [Dests -> Route \cup {Absent}]
         /\ added' \in Seq(AddedRoute)
         /\ UNCHANGED <<table, added>> \/ Grown(kind, d, v, gw)
<1>1. CASE UNCHANGED <<table, added>>
  BY <1>1 DEF TypeOK, TableTypeOK
<1>2. CASE /\ Addable(d) /\ Added(d, v)
           /\ added' = Append(added, [kind |-> kind, dest |-> d, gateway |-> gw])
  <2>1. [kind |-> kind, dest |-> d, gateway |-> gw] \in AddedRoute
    BY DEF AddedRoute
  <2>2. added \in Seq(AddedRoute) /\ table \in [Dests -> Route \cup {Absent}]
    BY DEF TypeOK, TableTypeOK
  <2>3. table' \in [Dests -> Route \cup {Absent}]
    BY <1>2, <2>2 DEF Added, Route
  <2> QED
    BY <1>2, <2>1, <2>2, <2>3, AppendFacts DEF Addable, Added, Grown
<1> QED
  BY <1>1, <1>2 DEF Install

(* The commands of the set-up are what the actions take them for.          *)
LEMMA Commands ==
  ASSUME TypeOK, NEW c, Doing(c)
  PROVE  /\ phase = "setup"
         /\ todo' \in Seq(Command)
         /\ Head(todo).dest \in Dests
         /\ c \in {"bypass", "probe"} => Head(todo).dest \in Hosts
         /\ c = "pass" => Head(todo).dest \notin Hosts \cup Split
<1>1. Head(todo) \in Command /\ Tail(todo) \in Seq(Command) /\ Head(todo).cmd = c
  BY HeadTail DEF TypeOK, Doing
<1> QED
  BY <1>1, TableAssumption DEF Doing, Command

(* The least of some numbers is one of them.                               *)
LEMMA LeastIsOne ==
  ASSUME NEW S, S \subseteq Nat, S # {}
  PROVE  Min(S) \in S
<1> DEFINE R == {ss \in Nat \X Nat : ss[1] < ss[2]}
<1>1. IsWellFoundedOn(R, Nat)
  BY NatLessThanWellFounded DEF OpToRel
<1>2. PICK x \in S : \A y \in S : <<y, x>> \notin R
  <2> HIDE DEF R
  <2> QED
    BY <1>1, WFMin
<1>3. \A y \in S : x <= y
  <2>1. SUFFICES ASSUME NEW y \in S PROVE x <= y
    OBVIOUS
  <2>2. y \in Nat /\ x \in Nat /\ ~(y < x)
    BY <1>2
  <2> QED
    BY <2>2
<1> QED
  BY <1>3 DEF Min

(* A lookup finds the route of the host or of a prefix around it, or the   *)
(* default.                                                                *)
LEMMA LookupFinds ==
  ASSUME NEW h \in Hosts
  PROVE  \/ Lookup(h) = default[FamilyOf[h]]
         \/ \E d \in {h} \cup Range(Covering[h]) : table[d] # Absent /\ Lookup(h) = table[d].via
<1> DEFINE path == <<h>> \o Covering[h]
           routed == {i \in DOMAIN path : table[path[i]] # Absent}
<1>1. Covering[h] \in Seq(Dests) /\ <<h>> \in Seq(Dests) /\ Len(<<h>>) = 1 /\ <<h>>[1] = h
  <2>1. Covering[h] \in Seq(Dests \ Hosts) /\ Dests \ Hosts \subseteq Dests /\ h \in Dests
    BY TableAssumption
  <2>2. Covering[h] \in Seq(Dests)
    BY <2>1, Widen
  <2> QED
    BY <2>1, <2>2
<1>2. /\ Len(Covering[h]) \in Nat /\ DOMAIN Covering[h] = 1 .. Len(Covering[h])
      /\ DOMAIN path = 1 .. 1 + Len(Covering[h])
      /\ \A i \in 1 .. 1 + Len(Covering[h]) :
           path[i] = IF i <= 1 THEN <<h>>[i] ELSE Covering[h][i - 1]
  BY <1>1, JoinTyped
<1>3. ASSUME NEW i \in DOMAIN path PROVE path[i] \in {h} \cup Range(Covering[h])
  <2>1. CASE i = 1
    BY <1>1, <1>2, <2>1
  <2>2. CASE i # 1
    <3>1. i - 1 \in DOMAIN Covering[h] /\ path[i] = Covering[h][i - 1]
      BY <1>2, <2>2
    <3> QED
      BY <3>1 DEF Range
  <2> QED
    BY <2>1, <2>2
<1>4. Lookup(h) = IF routed = {} THEN default[FamilyOf[h]] ELSE table[path[Min(routed)]].via
  BY DEF Lookup
<1>5. routed \subseteq Nat /\ routed \subseteq DOMAIN path
  BY <1>2
<1>6. \A i \in routed : table[path[i]] # Absent
  OBVIOUS
<1> HIDE DEF path, routed
<1>7. routed # {} => Min(routed) \in routed
  BY <1>5, LeastIsOne
<1> QED
  BY <1>3, <1>4, <1>5, <1>6, <1>7

\* An address and the prefixes around it are destinations, of its family.
LEMMA AroundTyped ==
  ASSUME NEW h \in Hosts
  PROVE  /\ h \in Dests /\ FamilyOf[h] \in Families
         /\ Range(Covering[h]) \subseteq Dests \ Hosts
<1>1. Covering[h] \in Seq(Dests \ Hosts)
  BY TableAssumption
<1>2. \A i \in DOMAIN Covering[h] : Covering[h][i] \in Dests \ Hosts
  BY <1>1, ElementTyped
<1> QED
  BY <1>2, TableAssumption DEF Range

(* What a lookup can yield.                                                *)
LEMMA LookupTyped ==
  ASSUME TypeOK, NEW h \in Hosts
  PROVE  Lookup(h) \in Via \cup {None}
<1>1. \A d \in Dests : table[d] = Absent \/ table[d].via \in Via
  BY DEF TypeOK, TableTypeOK, Route
<1>2. default[FamilyOf[h]] \in Via \cup {None}
  BY AroundTyped DEF TypeOK, TableTypeOK, Via
<1> QED
  BY <1>1, <1>2, AroundTyped, LookupFinds

(* A delete takes away the route or leaves it and says so.                 *)
LEMMA DeleteFacts ==
  ASSUME TypeOK, NEW d \in Dests, Delete(d)
  PROVE  /\ table' \in [Dests -> Route \cup {Absent}]
         /\ stuck' \subseteq Dests
         /\ \A x \in Dests \ {d} : table'[x] = table[x] /\ (x \in stuck' <=> x \in stuck)
         /\ \/ table'[d] = Absent
            \/ table' = table /\ d \in stuck'
<1>1. table \in [Dests -> Route \cup {Absent}] /\ stuck \subseteq Dests
  BY DEF TypeOK, TableTypeOK
<1>2. CASE table' = [table EXCEPT ![d] = Absent] /\ stuck' = stuck \ {d}
  BY <1>1, <1>2
<1>3. CASE UNCHANGED table /\ stuck' = stuck \cup {d}
  BY <1>1, <1>3
<1> QED
  BY <1>2, <1>3 DEF Delete

(* The tun device takes its routes along.                                  *)
LEMMA ClosedTyped ==
  ASSUME TypeOK
  PROVE  /\ TunClosed \in [Dests -> Route \cup {Absent}]
         /\ \A d \in Dests : TunClosed[d] = table[d] \/ TunClosed[d] = Absent
BY DEF TypeOK, TableTypeOK, TunClosed

(* Gateways asked for.                                                     *)
LEMMA GatewayTyped ==
  ASSUME NEW v
  PROVE  GatewayOf(v) \in Gateways \cup {None}
BY DEF GatewayOf

-----------------------------------------------------------------------------
(* Types.                                                                  *)

LEMMA TypeInit == Init => TypeOK
<1> SUFFICES ASSUME Init PROVE TypeOK
  OBVIOUS
<1>1. TableTypeOK
  <2>1. PICK user \in [UserDests -> {Absent} \cup {[via |-> g, ours |-> FALSE] : g \in Gateways}] :
          table = [d \in Dests |-> IF d \in UserDests THEN user[d] ELSE Absent]
    BY DEF Init, TableInit
  <2>2. \A g \in Gateways : [via |-> g, ours |-> FALSE] \in Route
    BY DEF Route, Via
  <2> QED
    BY <2>1, <2>2 DEF Init, TableInit, TableTypeOK
<1>2. todo \in Seq(Command)
  BY PlanTyped DEF Init
<1>3. /\ added = <<>> /\ next = 1 /\ unmended = {} /\ phase = "setup"
      /\ probed = [f \in Families |-> None] /\ current = [f \in Families |-> None] /\ stuck = {}
  BY DEF Init, Nowhere
<1> QED
  BY <1>1, <1>2, <1>3 DEF TypeOK

(* A set-up command.                                                       *)
LEMMA SetupTyped ==
  ASSUME TypeOK, AddBypass \/ ProbeDefault \/ AddPassthrough \/ AddNet
  PROVE  TypeOK'
<1>1. CASE AddBypass
  <2>1. /\ Doing("bypass") /\ Head(todo).dest \in Hosts /\ Head(todo).dest \in Dests
        /\ todo' \in Seq(Command)
    BY <1>1, Commands DEF AddBypass
  <2>2. Lookup(Head(todo).dest) \in Via \cup {None}
    BY <2>1, LookupTyped
  <2>3. /\ table' \in [Dests -> Route \cup {Absent}]
        /\ added' \in Seq(AddedRoute)
        /\ added' = added \/ (Len(added') = Len(added) + 1 /\ DOMAIN added' = 1 .. Len(added) + 1)
    <3>1. CASE Lookup(Head(todo).dest) = None
      BY <1>1, <3>1 DEF AddBypass, TypeOK, TableTypeOK
    <3>2. CASE Lookup(Head(todo).dest) # None
      <4>1. Install("host", Head(todo).dest, Lookup(Head(todo).dest), GatewayOf(Lookup(Head(todo).dest)))
        BY <1>1, <3>2 DEF AddBypass
      <4> QED
        BY <4>1, <2>1, <2>2, <3>2, GatewayTyped, InstallFacts DEF Grown
    <3> QED
      BY <3>1, <3>2
  <2> QED
    BY <1>1, <2>1, <2>3 DEF AddBypass, TypeOK, TableTypeOK
<1>2. CASE ProbeDefault
  <2>1. /\ Doing("probe") /\ Head(todo).dest \in Hosts /\ todo' \in Seq(Command)
    BY <1>2, Commands DEF ProbeDefault
  <2>2. Lookup(Head(todo).dest) \in Via \cup {None}
    BY <2>1, LookupTyped
  <2> QED
    BY <1>2, <2>1, <2>2 DEF ProbeDefault, TypeOK, TableTypeOK
<1>3. CASE AddPassthrough
  <2>1. /\ Doing("pass") /\ Head(todo).dest \in Dests /\ todo' \in Seq(Command)
    BY <1>3, Commands DEF AddPassthrough
  <2>2. probed[FamilyOf[Head(todo).dest]] \in Via \cup {None}
    BY <2>1, TableAssumption DEF TypeOK
  <2>3. /\ table' \in [Dests -> Route \cup {Absent}]
        /\ added' \in Seq(AddedRoute)
        /\ added' = added \/ (Len(added') = Len(added) + 1 /\ DOMAIN added' = 1 .. Len(added) + 1)
    <3>1. CASE probed[FamilyOf[Head(todo).dest]] = None
      BY <1>3, <3>1 DEF AddPassthrough, TypeOK, TableTypeOK
    <3>2. CASE probed[FamilyOf[Head(todo).dest]] # None
      <4>1. Install("pass", Head(todo).dest, probed[FamilyOf[Head(todo).dest]], None)
        BY <1>3, <3>2 DEF AddPassthrough
      <4> QED
        BY <4>1, <2>1, <2>2, <3>2, InstallFacts DEF Grown
    <3> QED
      BY <3>1, <3>2
  <2> QED
    BY <1>3, <2>1, <2>3 DEF AddPassthrough, TypeOK, TableTypeOK
<1>4. CASE AddNet
  <2>1. /\ Doing("net") /\ Head(todo).dest \in Dests /\ todo' \in Seq(Command)
    BY <1>4, Commands DEF AddNet
  <2>2. /\ table' \in [Dests -> Route \cup {Absent}]
        /\ added' \in Seq(AddedRoute)
        /\ added' = added \/ (Len(added') = Len(added) + 1 /\ DOMAIN added' = 1 .. Len(added) + 1)
    BY <1>4, <2>1, InstallFacts DEF AddNet, Via, Grown
  <2> QED
    BY <1>4, <2>1, <2>2 DEF AddNet, TypeOK, TableTypeOK
<1> QED
  BY <1>1, <1>2, <1>3, <1>4

(* What one entry of a recheck does to the list and the table.             *)
LEMMA RecheckFacts ==
  ASSUME TypeOK, RecheckEntry
  PROVE  LET d == added[next].dest
             gw == current[FamilyOf[d]]
         IN /\ next \in DOMAIN added /\ next' = next + 1
            /\ d \in Dests
            /\ gw \in Gateways \cup {None}
            /\ table' \in [Dests -> Route \cup {Absent}]
            /\ stuck' \subseteq Dests
            /\ \A x \in Dests \ {d} : table'[x] = table[x] /\ (x \in stuck' <=> x \in stuck)
            /\ added' = added \/ added' = [added EXCEPT ![next].gateway = gw]
            /\ unmended' = unmended \/ unmended' = unmended \cup {next}
            /\ \/ /\ UNCHANGED <<table, added, unmended, stuck>>
                  /\ added[next].kind # "host" \/ added[next].gateway = gw
               \/ table'[d] = Absent
               \/ table' = table /\ d \in stuck'
               \/ /\ added[next].kind = "host"
                  /\ gw \in Gateways
                  /\ table'[d] = [via |-> gw, ours |-> TRUE]
                  /\ added' = [added EXCEPT ![next].gateway = gw]
<1> DEFINE d == added[next].dest
           gw == current[FamilyOf[d]]
<1>1. added[next] \in AddedRoute /\ next \in DOMAIN added /\ next' = next + 1
  BY DEF RecheckEntry, TypeOK
<1>2. d \in Dests /\ gw \in Gateways \cup {None}
  BY <1>1, TableAssumption DEF AddedRoute, TypeOK
<1>3. table \in [Dests -> Route \cup {Absent}] /\ stuck \subseteq Dests
  BY DEF TypeOK, TableTypeOK
<1>4. CASE UNCHANGED <<table, added, unmended, stuck>> /\ (added[next].kind # "host" \/ added[next].gateway = gw)
  BY <1>1, <1>2, <1>3, <1>4
<1>5. CASE /\ Delete(d)
           /\ added' = added \/ added' = [added EXCEPT ![next].gateway = gw]
           /\ unmended' = unmended \/ unmended' = unmended \cup {next}
  BY <1>1, <1>2, <1>5, DeleteFacts
<1>6. CASE /\ gw # None /\ added[next].kind = "host"
           /\ table' = [table EXCEPT ![d] = [via |-> gw, ours |-> TRUE]]
           /\ stuck' = stuck \ {d}
           /\ added' = [added EXCEPT ![next].gateway = gw]
           /\ unmended' = unmended
  <2>1. gw \in Gateways /\ [via |-> gw, ours |-> TRUE] \in Route
    BY <1>2, <1>6 DEF Route, Via
  <2> QED
    BY <1>1, <1>2, <1>3, <1>6, <2>1
<1> QED
  BY <1>4, <1>5, <1>6 DEF RecheckEntry

LEMMA RecheckTyped ==
  ASSUME TypeOK, RecheckEntry
  PROVE  TypeOK'
<1> DEFINE gw == current[FamilyOf[added[next].dest]]
<1>1. /\ next \in DOMAIN added /\ next' = next + 1 /\ added[next].dest \in Dests
      /\ gw \in Gateways \cup {None}
      /\ table' \in [Dests -> Route \cup {Absent}] /\ stuck' \subseteq Dests
      /\ added' = added \/ added' = [added EXCEPT ![next].gateway = gw]
      /\ unmended' = unmended \/ unmended' = unmended \cup {next}
  BY RecheckFacts
<1>2. added \in Seq(AddedRoute) /\ next \in 1 .. Len(added) + 1 /\ DOMAIN added = 1 .. Len(added)
      /\ Len(added) \in Nat /\ unmended \subseteq DOMAIN added
  BY DEF TypeOK
<1>3. /\ added' \in Seq(AddedRoute) /\ Len(added') = Len(added) /\ DOMAIN added' = DOMAIN added
  <2>1. [added[next] EXCEPT !.gateway = gw] \in AddedRoute
    <3>1. added[next] \in AddedRoute
      BY <1>1, <1>2
    <3> QED
      BY <3>1, <1>1 DEF AddedRoute
  <2>2. /\ [added EXCEPT ![next].gateway = gw] = [added EXCEPT ![next] = [added[next] EXCEPT !.gateway = gw]]
        /\ [added EXCEPT ![next] = [added[next] EXCEPT !.gateway = gw]] \in Seq(AddedRoute)
        /\ DOMAIN [added EXCEPT ![next] = [added[next] EXCEPT !.gateway = gw]] = DOMAIN added
        /\ Len([added EXCEPT ![next] = [added[next] EXCEPT !.gateway = gw]]) = Len(added)
    BY <2>1, <1>1, <1>2, UpdateTyped
  <2> QED
    BY <1>1, <1>2, <2>2
<1>4. unmended' \subseteq DOMAIN added' /\ next' \in 1 .. Len(added') + 1
  BY <1>1, <1>2, <1>3
<1> QED
  BY <1>1, <1>3, <1>4 DEF RecheckEntry, TypeOK, TableTypeOK

(* A change of network moves one default and may drop routes of ours.      *)
LEMMA NetworkEffect ==
  ASSUME NetworkChanges
  PROVE  \E f \in Families : \E v \in Networks[f] :
           /\ default' = [default EXCEPT ![f] = v]
           /\ \E lost \in SUBSET Ours :
                table' = [d \in Dests |-> IF d \in lost THEN Absent ELSE table[d]]
<1>1. PICK f \in Families : \E v \in Networks[f] \ {default[f]} :
        /\ default' = [default EXCEPT ![f] = v]
        /\ \E lost \in SUBSET {d \in Ours : KernelDrops /\ FamilyOf[d] = f /\ table[d].via = default[f]} :
             table' = [d \in Dests |-> IF d \in lost THEN Absent ELSE table[d]]
  BY DEF NetworkChanges
<1>2. \E lost \in SUBSET Ours :
        table' = [d \in Dests |-> IF d \in lost THEN Absent ELSE table[d]]
  BY <1>1
<1> QED
  BY <1>1, <1>2

LEMMA TypeStep == TypeOK /\ [Next]_vars => TypeOK'
<1> SUFFICES ASSUME TypeOK, [Next]_vars PROVE TypeOK'
  OBVIOUS
<1> USE DEF TypeOK, TableTypeOK
<1>1. CASE AddBypass \/ ProbeDefault \/ AddPassthrough \/ AddNet
  BY <1>1, SetupTyped
<1>2. CASE SetupDone \/ LoopBegins \/ RecheckDone
  BY <1>2 DEF SetupDone, LoopBegins, RecheckDone, Nowhere
<1>3. ASSUME StartRecheck PROVE TypeOK'
  BY <1>3, GatewayTyped DEF StartRecheck
<1>4. CASE Tick \/ SendErr
  BY <1>3, <1>4 DEF Tick, SendErr
<1>5. CASE RecheckEntry
  BY <1>5, RecheckTyped
<1>6. CASE LoopEnds
  <2>1. todo' \in Seq(Command)
    <3>1. added \in Seq(AddedRoute) /\ Len(added) \in Nat /\ DOMAIN added = 1 .. Len(added)
      OBVIOUS
    <3>2. \A r \in AddedRoute : [cmd |-> "delete", dest |-> r.dest] \in Command
      BY DEF AddedRoute, Command
    <3>3. \A i \in 1 .. Len(added) : added[i] \in AddedRoute
      BY <3>1
    <3>4. todo' \in [1 .. Len(added) -> Command]
      BY <1>6, <3>1, <3>2, <3>3 DEF LoopEnds
    <3> QED
      BY <3>1, <3>4, SeqIntro
  <2> QED
    BY <1>6, <2>1 DEF LoopEnds, ForgetRecheck, Nowhere
<1>7. CASE DeleteRoute
  <2>1. todo' \in Seq(Command) /\ Head(todo) \in Command
    BY <1>7, HeadTail DEF DeleteRoute
  <2>2. Head(todo).dest \in Dests
    BY <2>1, TableAssumption DEF Command
  <2> QED
    BY <1>7, <2>1, <2>2, DeleteFacts DEF DeleteRoute
<1>8. CASE Exit
  BY <1>8, ClosedTyped DEF Exit
<1>11. CASE SignalKills
  BY <1>11, ClosedTyped DEF SignalKills, ForgetRecheck, Nowhere
<1>9. CASE NetworkChanges /\ UNCHANGED <<phase, todo, added, probed, current, next, unmended, stuck>>
  <2>0. PICK f \in Families : \E v \in Networks[f] :
          /\ default' = [default EXCEPT ![f] = v]
          /\ \E lost \in SUBSET Ours :
               table' = [d \in Dests |-> IF d \in lost THEN Absent ELSE table[d]]
    BY <1>9, NetworkEffect
  <2>1. PICK v \in Networks[f] :
          /\ default' = [default EXCEPT ![f] = v]
          /\ \E lost \in SUBSET Ours :
               table' = [d \in Dests |-> IF d \in lost THEN Absent ELSE table[d]]
    BY <2>0
  <2>2. v \in Gateways \cup {Link, None}
    BY <2>1, TableAssumption
  <2>3. default' \in [Families -> Gateways \cup {Link, None}]
    BY <2>1, <2>2
  <2>4. table' \in [Dests -> Route \cup {Absent}]
    BY <2>1
  <2> QED
    BY <1>9, <2>3, <2>4
<1>10. CASE UNCHANGED vars
  BY <1>10 DEF vars
<1> QED
  BY <1>1, <1>2, <1>4, <1>5, <1>6, <1>7, <1>8, <1>9, <1>10, <1>11 DEF Next, Step

(* Every variable of Routes keeps its type.                                *)
THEOREM RoutesTyped == Spec => []TypeOK
BY TypeInit, TypeStep, PTL DEF Spec

-----------------------------------------------------------------------------
(* What steps do to the table and to the list.                             *)

LEMMA SetupEffect ==
  ASSUME TypeOK, AddBypass \/ ProbeDefault \/ AddPassthrough \/ AddNet
  PROVE  /\ phase = "setup" /\ phase' = phase /\ next' = next /\ stuck' = stuck
         /\ \/ UNCHANGED <<table, added>>
            \/ \E d \in Hosts, v \in Via : Grown("host", d, v, GatewayOf(v))
            \/ \E d \in Dests \ Hosts, v \in Via : Grown("pass", d, v, None)
            \/ \E d \in Dests : Grown("net", d, Tun, None)
<1>1. CASE AddBypass
  <2>1. Doing("bypass") /\ Head(todo).dest \in Hosts /\ Head(todo).dest \in Dests
    BY <1>1, Commands DEF AddBypass
  <2>2. Lookup(Head(todo).dest) \in Via \cup {None}
    BY <2>1, LookupTyped
  <2>3. CASE Lookup(Head(todo).dest) = None
    BY <1>1, <2>1, <2>3 DEF AddBypass, Doing
  <2>4. CASE Lookup(Head(todo).dest) # None
    <3>1. Install("host", Head(todo).dest, Lookup(Head(todo).dest), GatewayOf(Lookup(Head(todo).dest)))
      BY <1>1, <2>4 DEF AddBypass
    <3>2. \/ UNCHANGED <<table, added>>
          \/ Grown("host", Head(todo).dest, Lookup(Head(todo).dest), GatewayOf(Lookup(Head(todo).dest)))
      BY <3>1, <2>1, <2>2, <2>4, GatewayTyped, InstallFacts
    <3> QED
      BY <1>1, <2>1, <2>2, <2>4, <3>2 DEF AddBypass, Doing
  <2> QED
    BY <2>3, <2>4
<1>2. CASE ProbeDefault
  BY <1>2 DEF ProbeDefault, Doing
<1>3. CASE AddPassthrough
  <2>1. Doing("pass") /\ Head(todo).dest \in Dests \ Hosts
    BY <1>3, Commands DEF AddPassthrough
  <2>2. probed[FamilyOf[Head(todo).dest]] \in Via \cup {None}
    BY <2>1, TableAssumption DEF TypeOK
  <2>3. CASE probed[FamilyOf[Head(todo).dest]] = None
    BY <1>3, <2>1, <2>3 DEF AddPassthrough, Doing
  <2>4. CASE probed[FamilyOf[Head(todo).dest]] # None
    <3>1. Install("pass", Head(todo).dest, probed[FamilyOf[Head(todo).dest]], None)
      BY <1>3, <2>4 DEF AddPassthrough
    <3>2. \/ UNCHANGED <<table, added>>
          \/ Grown("pass", Head(todo).dest, probed[FamilyOf[Head(todo).dest]], None)
      BY <3>1, <2>1, <2>2, <2>4, InstallFacts
    <3> QED
      BY <1>3, <2>1, <2>2, <2>4, <3>2 DEF AddPassthrough, Doing
  <2> QED
    BY <2>3, <2>4
<1>4. CASE AddNet
  <2>1. Doing("net") /\ Head(todo).dest \in Dests
    BY <1>4, Commands DEF AddNet
  <2>2. UNCHANGED <<table, added>> \/ Grown("net", Head(todo).dest, Tun, None)
    BY <1>4, <2>1, InstallFacts DEF AddNet, Via
  <2> QED
    BY <1>4, <2>1, <2>2 DEF AddNet, Doing
<1> QED
  BY <1>1, <1>2, <1>3, <1>4

(* A step only touches destinations the user has no route for, and adds a  *)
(* route only for a destination that is recorded.                          *)
LEMMA TableChanges ==
  ASSUME RInv, [Next]_vars
  PROVE  \A x \in Dests :
           \/ table'[x] = table[x]
           \/ x \notin Foreign /\ table'[x] = Absent
           \/ /\ x \notin Foreign /\ table'[x].ours /\ table'[x] # Absent
              /\ phase \in {"setup", "recheck"} /\ phase' = phase
              /\ x \in Destinations(added')
<1> USE DEF RInv
<1>t. table \in [Dests -> Route \cup {Absent}] /\ added \in Seq(AddedRoute) /\ Len(added) \in Nat
      /\ DOMAIN added = 1 .. Len(added)
  BY DEF TypeOK, TableTypeOK
<1>1. CASE AddBypass \/ ProbeDefault \/ AddPassthrough \/ AddNet
  <2>1. ASSUME NEW kind, NEW d \in Dests, NEW v, NEW gw, Grown(kind, d, v, gw), phase = "setup", phase' = phase
        PROVE  \A x \in Dests :
                 \/ table'[x] = table[x]
                 \/ /\ x \notin Foreign /\ table'[x].ours /\ table'[x] # Absent
                    /\ phase \in {"setup", "recheck"} /\ phase' = phase
                    /\ x \in Destinations(added')
    <3>1. d \notin Foreign /\ table'[d].ours /\ table'[d] # Absent
      BY <2>1, <1>t DEF Grown, Foreign, Absent
    <3>2. d \in Destinations(added')
      <4>1. Len(added) + 1 \in DOMAIN added' /\ added'[Len(added) + 1].dest = d
        BY <2>1, <1>t DEF Grown
      <4> QED
        BY <4>1 DEF Destinations
    <3>3. \A x \in Dests \ {d} : table'[x] = table[x]
      BY <2>1, <1>t DEF Grown
    <3> QED
      BY <2>1, <3>1, <3>2, <3>3
  <2>2. CASE UNCHANGED <<table, added>>
    BY <2>2
  <2>3. Hosts \subseteq Dests
    BY TableAssumption
  <2> QED
    BY <1>1, <2>1, <2>2, <2>3, SetupEffect
<1>2. CASE RecheckEntry
  <2>1. /\ next \in DOMAIN added /\ added[next].dest \in Dests
        /\ added[next].dest \in Destinations(added) /\ added[next].dest \notin Foreign
        /\ phase = "recheck" /\ phase' = phase
    BY <1>2, RecheckFacts DEF Destinations, Recorded, RecheckEntry
  <2>2. \A x \in Dests \ {added[next].dest} : table'[x] = table[x]
    BY <1>2, RecheckFacts
  <2>3. \/ table'[added[next].dest] = table[added[next].dest]
        \/ table'[added[next].dest] = Absent
        \/ /\ table'[added[next].dest].ours /\ table'[added[next].dest] # Absent
           /\ added' = [added EXCEPT ![next].gateway = current[FamilyOf[added[next].dest]]]
    BY <1>2, <1>t, <2>1, RecheckFacts DEF Absent
  <2>4. added' = [added EXCEPT ![next].gateway = current[FamilyOf[added[next].dest]]] =>
          added[next].dest \in Destinations(added')
    <3>1. added[next] \in AddedRoute
      BY <1>t, <2>1
    <3>2. [added[next] EXCEPT !.gateway = current[FamilyOf[added[next].dest]]].dest = added[next].dest
      BY <3>1 DEF AddedRoute
    <3>3. added' = [added EXCEPT ![next].gateway = current[FamilyOf[added[next].dest]]] =>
            next \in DOMAIN added' /\ added'[next].dest = added[next].dest
      BY <2>1, <3>2
    <3> QED
      BY <3>3 DEF Destinations
  <2> QED
    BY <2>1, <2>2, <2>3, <2>4
<1>3. CASE DeleteRoute
  <2>1. Head(todo).dest \in Destinations(todo) /\ Head(todo).dest \notin Foreign
    BY <1>3, HeadTail DEF DeleteRoute, Destinations, BeingRemoved, TypeOK
  <2>2. Delete(Head(todo).dest) /\ Head(todo).dest \in Dests
    BY <1>3, HeadTail, TableAssumption DEF DeleteRoute, TypeOK, Command
  <2> QED
    BY <2>1, <2>2, DeleteFacts
<1>4. CASE Exit \/ SignalKills
  BY <1>4 DEF Exit, SignalKills, TunClosed, Recorded
<1>5. CASE NetworkChanges
  <2>1. PICK lost \in SUBSET Ours : table' = [d \in Dests |-> IF d \in lost THEN Absent ELSE table[d]]
    BY <1>5, NetworkEffect
  <2> QED
    BY <2>1 DEF Ours, Foreign
<1>6. CASE UNCHANGED table
  BY <1>6
<1> QED
  BY <1>1, <1>2, <1>3, <1>4, <1>5, <1>6
    DEF Next, Step, vars, SetupDone, LoopBegins, RecheckDone, Tick, SendErr, StartRecheck, LoopEnds

(* The user's routes are those of the step before.                         *)
LEMMA ForeignKept ==
  ASSUME RInv, [Next]_vars
  PROVE  Foreign' = Foreign /\ \A d \in Foreign : table'[d] = table[d]
BY TableChanges DEF Foreign

(* As long as the process lives, the list keeps its entries and their      *)
(* kinds and destinations; what joins it is no route of the user.          *)
LEMMA ListChanges ==
  ASSUME RInv, [Next]_vars, ~SignalKills
  PROVE  /\ DOMAIN added \subseteq DOMAIN added'
         /\ \A i \in DOMAIN added : added'[i].kind = added[i].kind /\ added'[i].dest = added[i].dest
         /\ \A i \in DOMAIN added' \ DOMAIN added :
              /\ added'[i].dest \in Dests \ Foreign
              /\ added'[i].kind = "host" => added'[i].dest \in Hosts
              /\ added'[i].kind = "pass" => added'[i].dest \notin Hosts
              /\ phase = "setup" /\ phase' = "setup"
<1> USE DEF RInv
<1>t. added \in Seq(AddedRoute) /\ Len(added) \in Nat /\ DOMAIN added = 1 .. Len(added)
  BY DEF TypeOK
<1>1. CASE AddBypass \/ ProbeDefault \/ AddPassthrough \/ AddNet
  <2>1. ASSUME NEW kind, NEW d \in Dests, NEW v, NEW gw, Grown(kind, d, v, gw)
        PROVE  /\ DOMAIN added \subseteq DOMAIN added'
               /\ \A i \in DOMAIN added : added'[i] = added[i]
               /\ \A i \in DOMAIN added' \ DOMAIN added :
                    /\ added'[i].dest = d /\ added'[i].kind = kind
                    /\ d \notin Foreign
    BY <2>1, <1>t DEF Grown, Foreign
  <2>2. Hosts \subseteq Dests
    BY TableAssumption
  <2>3. CASE UNCHANGED <<table, added>>
    BY <2>3
  <2>4. CASE \E d \in Hosts, v \in Via : Grown("host", d, v, GatewayOf(v))
    BY <2>1, <2>2, <2>4, <1>1, SetupEffect
  <2>5. CASE \E d \in Dests \ Hosts, v \in Via : Grown("pass", d, v, None)
    BY <2>1, <2>5, <1>1, SetupEffect
  <2>6. CASE \E d \in Dests : Grown("net", d, Tun, None)
    BY <2>1, <2>6, <1>1, SetupEffect
  <2> QED
    BY <1>1, <2>3, <2>4, <2>5, <2>6, SetupEffect
<1>2. CASE RecheckEntry
  <2>1. \A i \in DOMAIN added : added[i] \in AddedRoute
    BY <1>t
  <2>2. \/ added' = added
        \/ added' = [added EXCEPT ![next].gateway = current[FamilyOf[added[next].dest]]]
    BY <1>2, RecheckFacts
  <2> QED
    BY <1>t, <2>1, <2>2 DEF AddedRoute
<1>3. CASE UNCHANGED added
  BY <1>3
<1> QED
  BY <1>1, <1>2, <1>3
    DEF Next, Step, vars, SetupDone, LoopBegins, RecheckDone, Tick, SendErr, StartRecheck,
        LoopEnds, DeleteRoute, Exit

-----------------------------------------------------------------------------
(* The invariant, conjunct by conjunct.                                    *)

LEMMA RecordedStep == RInv /\ [Next]_vars => Recorded'
<1> SUFFICES ASSUME RInv, [Next]_vars PROVE Recorded'
  OBVIOUS
<1>1. Foreign' = Foreign /\ \A d \in Foreign : table'[d] = table[d]
  BY ForeignKept
<1>2. \A i \in DOMAIN added' : /\ added'[i].kind = "host" => added'[i].dest \in Hosts
                               /\ added'[i].kind = "pass" => added'[i].dest \notin Hosts
                               /\ added'[i].dest \notin Foreign
  <2>1. CASE SignalKills
    BY <2>1 DEF SignalKills
  <2>2. CASE ~SignalKills
    BY <2>2, ListChanges DEF RInv, Recorded, Destinations
  <2> QED
    BY <2>1, <2>2
<1> QED
  BY <1>1, <1>2 DEF RInv, Recorded, Destinations

LEMMA LeakStep == RInv /\ [Next]_vars => NoRouteLeaked'
<1> SUFFICES ASSUME RInv, [Next]_vars, phase' # "killed" PROVE Ours' \subseteq Destinations(added')
  BY DEF NoRouteLeaked, Destinations
<1>1. Destinations(added) \subseteq Destinations(added')
  BY ListChanges DEF Destinations, SignalKills
<1>2. phase # "killed"
  BY DEF Next, Step, vars, SetupDone, LoopBegins, RecheckDone, RecheckEntry, Tick, SendErr,
         StartRecheck, LoopEnds, DeleteRoute, Exit, SignalKills, AddBypass, ProbeDefault,
         AddPassthrough, AddNet, Doing
<1>3. Ours \subseteq Destinations(added)
  BY <1>2 DEF RInv, NoRouteLeaked, Destinations
<1>4. ASSUME NEW x \in Dests, table'[x].ours PROVE x \in Destinations(added')
  <2>1. table'[x] = table[x] => x \in Ours
    BY <1>4 DEF Ours
  <2>2. table'[x] # Absent
    BY <1>4 DEF Absent
  <2> QED
    BY <1>1, <1>3, <1>4, <2>1, <2>2, TableChanges
<1> QED
  BY <1>4 DEF Ours

LEMMA RemovalStep == RInv /\ [Next]_vars => BeingRemoved'
<1> SUFFICES ASSUME RInv, [Next]_vars PROVE BeingRemoved'
  OBVIOUS
<1> USE DEF RInv
<1>t. /\ added \in Seq(AddedRoute) /\ DOMAIN added = 1 .. Len(added) /\ todo \in Seq(Command)
      /\ table \in [Dests -> Route \cup {Absent}]
  BY DEF TypeOK, TableTypeOK
<1>f. Foreign' = Foreign
  BY ForeignKept
<1>o. phase \in {"cleanup", "exited"} => Ours' \subseteq Ours
  <2>1. SUFFICES ASSUME phase \in {"cleanup", "exited"}, NEW x \in Dests, table'[x].ours
                 PROVE  table[x].ours
    BY DEF Ours
  <2> QED
    BY <2>1, TableChanges DEF Absent
<1>1. CASE LoopEnds
  <2>1. Destinations(todo') = Destinations(added) /\ Ours' = Ours /\ phase' = "cleanup" /\ phase # "killed"
    BY <1>1 DEF LoopEnds, Destinations, Ours
  <2> QED
    BY <2>1, <1>f DEF BeingRemoved, NoRouteLeaked, Recorded, Destinations
<1>2. CASE DeleteRoute
  <2>1. /\ phase = "cleanup" /\ phase' = phase /\ todo # <<>> /\ todo' = Tail(todo)
        /\ Delete(Head(todo).dest) /\ Head(todo).dest \in Dests
    BY <1>2, HeadTail, TableAssumption DEF DeleteRoute, TypeOK, Command
  <2>h. /\ Head(todo) = todo[1]
        /\ \A k \in DOMAIN todo : k = 1 \/ (k - 1 \in DOMAIN todo' /\ todo'[k - 1] = todo[k])
        /\ \A k \in DOMAIN todo' : k + 1 \in DOMAIN todo /\ todo'[k] = todo[k + 1]
    BY <1>t, <2>1, HeadTail
  <2>2. Destinations(todo') \subseteq Destinations(todo)
    BY <2>h DEF Destinations
  <2>3. ASSUME NEW x \in Destinations(todo)
        PROVE  x = Head(todo).dest \/ x \in Destinations(todo')
    <3>1. PICK k \in DOMAIN todo : x = todo[k].dest
      BY <2>3 DEF Destinations
    <3> QED
      BY <3>1, <2>h DEF Destinations
  <2>4. Head(todo).dest \notin Ours' \/ Head(todo).dest \in stuck'
    BY <2>1, DeleteFacts DEF Ours, Absent
  <2>5. \A x \in stuck : x \in stuck' \/ x = Head(todo).dest
    BY <2>1, DeleteFacts DEF TypeOK
  <2> QED
    BY <1>f, <1>o, <2>1, <2>2, <2>3, <2>4, <2>5 DEF BeingRemoved
<1>3. CASE Exit
  <2>1. phase = "cleanup" /\ phase' = "exited" /\ todo = <<>> /\ todo' = todo /\ stuck' = stuck
    BY <1>3 DEF Exit
  <2> QED
    BY <1>f, <1>o, <2>1 DEF BeingRemoved, Destinations
<1>4. CASE UNCHANGED <<phase, todo, stuck>>
  BY <1>4, <1>f, <1>o DEF BeingRemoved, Destinations
<1>5. CASE phase' \notin {"cleanup", "exited"}
  BY <1>5 DEF BeingRemoved
<1> QED
  BY <1>1, <1>2, <1>3, <1>4, <1>5
    DEF Next, Step, vars, SetupDone, LoopBegins, RecheckDone, RecheckEntry, Tick, SendErr,
        StartRecheck, SignalKills, AddBypass, ProbeDefault, AddPassthrough, AddNet, Doing

LEMMA StoredStep == RInv /\ [Next]_vars => StoredGatewayIsUsed'
<1> SUFFICES ASSUME RInv, [Next]_vars,
                    NEW i \in HostRoutes',
                    table'[added'[i].dest].ours, table'[added'[i].dest].via \in Gateways,
                    added'[i].dest \notin stuck'
             PROVE  \E j \in HostRoutes' : /\ added'[j].dest = added'[i].dest
                                           /\ added'[j].gateway = table'[added'[i].dest].via
  BY DEF StoredGatewayIsUsed
<1> USE DEF RInv
<1> DEFINE d == added'[i].dest
<1>k. ~SignalKills
  BY DEF SignalKills, HostRoutes
<1>t. /\ added \in Seq(AddedRoute) /\ Len(added) \in Nat /\ DOMAIN added = 1 .. Len(added)
      /\ table \in [Dests -> Route \cup {Absent}]
      /\ \A k \in DOMAIN added : added[k] \in AddedRoute
  BY DEF TypeOK, TableTypeOK
<1>h. Hosts \subseteq Dests /\ d \in Hosts /\ i \in DOMAIN added' /\ added'[i].kind = "host"
  BY TableAssumption, RecordedStep DEF HostRoutes, Recorded
\* Where neither the route nor the list changed, the state before settles it.
<1>s. ASSUME table'[d] = table[d], d \notin stuck, i \in DOMAIN added,
             \A k \in DOMAIN added : added[k].dest = d => k \in DOMAIN added' /\ added'[k] = added[k]
      PROVE  \E j \in HostRoutes' : added'[j].dest = d /\ added'[j].gateway = table'[d].via
  <2>1. i \in HostRoutes /\ added[i].dest = d
    BY <1>s, <1>h, <1>k, ListChanges DEF HostRoutes
  <2>2. PICK j \in HostRoutes : added[j].dest = d /\ added[j].gateway = table[d].via
    BY <1>s, <2>1 DEF StoredGatewayIsUsed
  <2>3. j \in DOMAIN added' /\ added'[j] = added[j]
    BY <1>s, <2>2 DEF HostRoutes
  <2> QED
    BY <1>s, <2>2, <2>3 DEF HostRoutes
<1>1. CASE AddBypass \/ ProbeDefault \/ AddPassthrough \/ AddNet
  <2>u. d \notin stuck
    BY <1>1, SetupEffect
  <2>1. CASE UNCHANGED <<table, added>>
    BY <2>1, <2>u, <1>s, <1>h
  <2>2. CASE \E e \in Hosts, v \in Via : Grown("host", e, v, GatewayOf(v))
    <3>1. PICK e \in Hosts, v \in Via : Grown("host", e, v, GatewayOf(v))
      BY <2>2
    <3>2. CASE d = e
      <4>1. table'[d].via = v /\ v \in Gateways
        BY <3>1, <3>2, <1>t, <1>h DEF Grown
      <4>2. /\ Len(added) + 1 \in DOMAIN added'
            /\ added'[Len(added) + 1] = [kind |-> "host", dest |-> e, gateway |-> v]
        BY <3>1, <4>1, <1>t DEF Grown, GatewayOf
      <4> QED
        BY <3>2, <4>1, <4>2 DEF HostRoutes
    <3>3. CASE d # e
      <4>1. table'[d] = table[d] /\ i \in DOMAIN added
        BY <3>1, <3>3, <1>t, <1>h DEF Grown
      <4> QED
        BY <3>1, <4>1, <2>u, <1>s, <1>t DEF Grown
    <3> QED
      BY <3>2, <3>3
  <2>3. CASE \E e \in Dests \ Hosts, v \in Via : Grown("pass", e, v, None)
    <3>1. PICK e \in Dests \ Hosts, v \in Via : Grown("pass", e, v, None)
      BY <2>3
    <3>2. table'[d] = table[d] /\ i \in DOMAIN added
      BY <3>1, <1>t, <1>h DEF Grown
    <3> QED
      BY <3>1, <3>2, <2>u, <1>s, <1>t DEF Grown
  <2>4. CASE \E e \in Dests : Grown("net", e, Tun, None)
    <3>1. PICK e \in Dests : Grown("net", e, Tun, None)
      BY <2>4
    <3>2. d # e
      BY <3>1, <1>t, <1>h, TableAssumption DEF Grown
    <3>3. table'[d] = table[d] /\ i \in DOMAIN added
      BY <3>1, <3>2, <1>t, <1>h DEF Grown
    <3> QED
      BY <3>1, <3>3, <2>u, <1>s, <1>t DEF Grown
  <2> QED
    BY <1>1, <2>1, <2>2, <2>3, <2>4, SetupEffect
<1>2. CASE RecheckEntry
  <2> DEFINE gw == current[FamilyOf[added[next].dest]]
  <2>1. next \in DOMAIN added /\ added[next] \in AddedRoute /\ added[next].dest \in Dests
        /\ gw \in Gateways \cup {None}
    BY <1>2, <1>t, RecheckFacts
  <2>k. [added[next] EXCEPT !.gateway = gw].dest = added[next].dest
        /\ [added[next] EXCEPT !.gateway = gw].kind = added[next].kind
        /\ [added[next] EXCEPT !.gateway = gw].gateway = gw
    BY <2>1 DEF AddedRoute
  <2>2. /\ DOMAIN added' = DOMAIN added
        /\ \A k \in DOMAIN added : added'[k].dest = added[k].dest
        /\ \A k \in DOMAIN added \ {next} : added'[k] = added[k]
    <3>1. CASE added' = added
      BY <3>1
    <3>2. CASE added' = [added EXCEPT ![next].gateway = gw]
      BY <3>2, <2>1, <2>k
    <3> QED
      BY <1>2, <3>1, <3>2, RecheckFacts
  <2>3. CASE d # added[next].dest
    <3>1. table'[d] = table[d] /\ d \notin stuck
      BY <1>2, <1>h, <2>3, RecheckFacts
    <3> QED
      BY <3>1, <2>2, <2>3, <1>s, <1>h
  <2>4. CASE d = added[next].dest
    <3>1. CASE UNCHANGED <<table, added, stuck>>
      BY <3>1, <1>s, <1>h
    <3>2. CASE table'[d] = Absent
      BY <3>2 DEF Absent
    <3>3. CASE /\ table'[added[next].dest] = [via |-> gw, ours |-> TRUE]
               /\ added' = [added EXCEPT ![next].gateway = gw]
               /\ added[next].kind = "host"
      <4>1. table'[d].via = gw
        BY <3>3, <2>4, <1>t, <2>1
      <4>2. added'[next].gateway = gw /\ added'[next].kind = "host" /\ added'[next].dest = d
        BY <3>3, <2>1, <2>4, <2>k
      <4> QED
        BY <4>1, <4>2, <2>1, <2>2 DEF HostRoutes
    <3> QED
      BY <1>2, <2>4, <3>1, <3>2, <3>3, RecheckFacts
  <2> QED
    BY <2>3, <2>4
<1>3. CASE UNCHANGED <<added, stuck>>
  <2>1. table'[d] = table[d] \/ phase \in {"setup", "recheck"}
    BY <1>h, TableChanges DEF Absent
  <2>2. CASE table'[d] = table[d]
    BY <1>3, <1>h, <1>s, <2>2
  <2>3. CASE table'[d] # table[d] /\ phase \in {"setup", "recheck"}
    <3>1. table'[d] # Absent
      BY DEF Absent
    <3>2. CASE RecheckEntry \/ AddBypass \/ ProbeDefault \/ AddPassthrough \/ AddNet
      BY <3>2, <1>1, <1>2
    <3>3. CASE NetworkChanges
      BY <3>3, <2>3, <3>1, <1>h, NetworkEffect
    <3> QED
      BY <2>3, <1>k, <3>2, <3>3
        DEF Next, Step, vars, SetupDone, LoopBegins, RecheckDone, Tick, SendErr, StartRecheck,
            LoopEnds, DeleteRoute, Exit
  <2> QED
    BY <2>1, <2>2, <2>3
<1>4. CASE DeleteRoute
  <2>1. Delete(Head(todo).dest) /\ Head(todo).dest \in Dests /\ added' = added
    BY <1>4, HeadTail, TableAssumption DEF DeleteRoute, TypeOK, Command
  <2>2. d # Head(todo).dest
    BY <2>1, DeleteFacts DEF Absent
  <2>3. table'[d] = table[d] /\ d \notin stuck
    BY <1>h, <2>1, <2>2, DeleteFacts
  <2> QED
    BY <1>h, <1>s, <2>1, <2>3
<1> QED
  BY <1>k, <1>1, <1>2, <1>3, <1>4
    DEF Next, Step, vars, SetupDone, LoopBegins, RecheckDone, Tick, SendErr, StartRecheck,
        LoopEnds, Exit

LEMMA RecheckedStep == RInv /\ [Next]_vars => Rechecked'
<1> SUFFICES ASSUME RInv, [Next]_vars PROVE Rechecked'
  OBVIOUS
<1> USE DEF RInv
<1>t. /\ added \in Seq(AddedRoute) /\ Len(added) \in Nat /\ DOMAIN added = 1 .. Len(added)
      /\ next \in 1 .. Len(added) + 1
  BY DEF TypeOK
<1>1. CASE AddBypass \/ ProbeDefault \/ AddPassthrough \/ AddNet
  BY <1>1 DEF AddBypass, ProbeDefault, AddPassthrough, AddNet, Doing, Rechecked
<1>2. CASE SetupDone \/ LoopBegins
  BY <1>2 DEF SetupDone, LoopBegins, Rechecked
<1>3. CASE Tick \/ SendErr
  <2>1. phase' = "recheck" /\ next' = 1 /\ UNCHANGED <<table, added, stuck>>
    BY <1>3 DEF Tick, SendErr, StartRecheck
  <2>2. \A j \in HostRoutes : j >= 1
    BY <1>t DEF HostRoutes
  <2> QED
    BY <2>1, <2>2 DEF Rechecked, StoredGatewayIsUsed, HostRoutes
<1>4. CASE RecheckEntry
  <2> DEFINE gw == current[FamilyOf[added[next].dest]]
  <2>1. /\ phase = "recheck" /\ phase' = phase /\ current' = current
        /\ next \in DOMAIN added /\ next' = next + 1 /\ added[next].dest \in Dests
        /\ \A x \in Dests \ {added[next].dest} : table'[x] = table[x] /\ (x \in stuck' <=> x \in stuck)
    BY <1>4, RecheckFacts DEF RecheckEntry
  <2>2. SUFFICES ASSUME NEW i \in HostRoutes',
                        table'[added'[i].dest].ours, table'[added'[i].dest].via \in Gateways,
                        added'[i].dest \notin stuck'
                 PROVE  \/ table'[added'[i].dest].via = current[FamilyOf[added'[i].dest]]
                        \/ \E j \in HostRoutes' : /\ j >= next + 1
                                                  /\ added'[j].dest = added'[i].dest
                                                  /\ added'[j].gateway = table'[added'[i].dest].via
    BY <2>1 DEF Rechecked
  <2> DEFINE d == added'[i].dest
  <2>3. /\ DOMAIN added' = DOMAIN added
        /\ \A k \in DOMAIN added \ {next} : added'[k] = added[k]
        /\ \A k \in DOMAIN added : added'[k].kind = added[k].kind /\ added'[k].dest = added[k].dest
    <3>1. added' = added \/ added' = [added EXCEPT ![next].gateway = gw]
      BY <1>4, RecheckFacts
    <3>2. \A k \in DOMAIN added : added'[k].kind = added[k].kind /\ added'[k].dest = added[k].dest
      BY <1>4, ListChanges DEF RecheckEntry, SignalKills
    <3> QED
      BY <3>1, <3>2
  <2>4. i \in HostRoutes /\ added[i].dest = d /\ d \in Hosts /\ d \in Dests
    BY <2>3, TableAssumption DEF HostRoutes, Recorded
  <2>5. CASE d # added[next].dest
    <3>1. table'[d] = table[d] /\ d \notin stuck
      BY <2>1, <2>2, <2>4, <2>5
    <3>2. CASE table[d].via = current[FamilyOf[d]]
      BY <3>1, <3>2
    <3>3. CASE table[d].via # current[FamilyOf[d]]
      <4>1. PICK j \in HostRoutes : j >= next /\ added[j].dest = d /\ added[j].gateway = table[d].via
        BY <2>1, <2>2, <2>4, <3>1, <3>3 DEF Rechecked
      <4>2. j \in DOMAIN added /\ j # next /\ j >= next + 1
        BY <1>t, <2>1, <2>5, <4>1 DEF HostRoutes
      <4>3. j \in HostRoutes' /\ added'[j] = added[j]
        BY <2>3, <4>2, <4>1 DEF HostRoutes
      <4> QED
        BY <3>1, <4>1, <4>2, <4>3
    <3> QED
      BY <3>2, <3>3
  <2>6. CASE d = added[next].dest
    <3>1. CASE /\ UNCHANGED <<table, added, stuck>>
               /\ added[next].kind # "host" \/ added[next].gateway = gw
      <4>1. CASE table[d].via = current[FamilyOf[d]]
        BY <3>1, <4>1
      <4>2. CASE table[d].via # current[FamilyOf[d]]
        <5>1. PICK j \in HostRoutes : j >= next /\ added[j].dest = d /\ added[j].gateway = table[d].via
          BY <2>1, <2>2, <2>4, <3>1, <4>2 DEF Rechecked
        <5>2. j # next
          BY <2>6, <3>1, <4>2, <5>1 DEF HostRoutes
        <5>3. j >= next + 1
          BY <1>t, <2>1, <5>1, <5>2 DEF HostRoutes
        <5> QED
          BY <3>1, <5>1, <5>3 DEF HostRoutes
      <4> QED
        BY <4>1, <4>2
    <3>2. CASE table'[d] = Absent
      BY <2>2, <3>2 DEF Absent
    <3>3. CASE d \in stuck'
      BY <2>2, <3>3
    <3>4. CASE table'[d] = [via |-> gw, ours |-> TRUE]
      BY <2>6, <3>4
    <3> QED
      BY <1>4, <2>6, <3>1, <3>2, <3>3, <3>4, RecheckFacts
  <2> QED
    BY <2>5, <2>6
<1>5. CASE RecheckDone
  <2>1. /\ phase = "recheck" /\ phase' = "loop" /\ next = Len(added) + 1
        /\ UNCHANGED <<table, added, current, next, stuck>>
    BY <1>5, <1>t DEF RecheckDone
  <2> QED
    BY <2>1 DEF Rechecked, HostRoutes
<1>6. CASE LoopEnds \/ DeleteRoute \/ Exit \/ SignalKills
  BY <1>6 DEF LoopEnds, DeleteRoute, Exit, SignalKills, Rechecked
<1>7. CASE /\ UNCHANGED <<phase, added, current, next, stuck>>
           /\ \A x \in Dests : table'[x] = table[x] \/ table'[x] = Absent
  <2>1. \A i \in HostRoutes : added[i].dest \in Dests
    BY TableAssumption DEF HostRoutes, Recorded
  <2>2. \A x \in Dests : table'[x].ours => table'[x] = table[x]
    BY <1>7 DEF Absent
  <2> QED
    BY <1>7, <2>1, <2>2 DEF Rechecked, HostRoutes
<1>8. CASE NetworkChanges /\ UNCHANGED <<phase, added, current, next, stuck>>
  <2>1. PICK lost \in SUBSET Ours : table' = [d \in Dests |-> IF d \in lost THEN Absent ELSE table[d]]
    BY <1>8, NetworkEffect
  <2> QED
    BY <1>7, <1>8, <2>1
<1> QED
  BY <1>1, <1>2, <1>3, <1>4, <1>5, <1>6, <1>7, <1>8 DEF Next, Step, vars

(* What gets a route into the tunnel: a tunnel route, or a pass-through     *)
(* whose probe found one.  A bypass asks where nothing captures it yet.     *)
LEMMA TunChanges ==
  ASSUME AsksFirst(Bypassed), RInv, [Next]_vars, NEW x \in Dests, table'[x].via = Tun
  PROVE  \/ table[x].via = Tun
         \/ Doing("net") /\ x = Head(todo).dest
         \/ Doing("pass") /\ x = Head(todo).dest
<1> USE DEF RInv
<1>t. /\ table \in [Dests -> Route \cup {Absent}] /\ todo \in Seq(Command)
      /\ default \in [Families -> Gateways \cup {Link, None}]
      /\ None # Tun /\ Tun \notin Gateways /\ Link # Tun
  BY TableAssumption DEF TypeOK, TableTypeOK
<1>1. CASE AddBypass
  <2> DEFINE h == Head(todo).dest
  <2>1. Doing("bypass") /\ phase = "setup" /\ h \in Hosts /\ h \in Dests
    BY <1>1, Commands, TableAssumption DEF AddBypass
  <2>2. h \in Bypassed /\ \A d \in Range(Covering[h]) : table[d].via # Tun
    <3>1. 1 \in DOMAIN todo /\ h = todo[1].dest /\ todo[1].cmd = "bypass"
      BY <1>t, <2>1, HeadTail DEF Doing
    <3> QED
      BY <2>1, <3>1 DEF BypassesFirst, FirstAsked, Asking
  <2>3. Lookup(h) # Tun
    <3>1. table[h].via # Tun
      BY <2>2 DEF BypassesFirst, FirstAsked
    <3>2. default[FamilyOf[h]] # Tun
      BY <1>t, <2>1, TableAssumption
    <3> QED
      BY <2>1, <2>2, <3>1, <3>2, LookupFinds
  <2>4. CASE UNCHANGED table
    BY <2>4
  <2>5. CASE table' = [table EXCEPT ![h] = [via |-> Lookup(h), ours |-> TRUE]]
    BY <1>t, <2>1, <2>3, <2>5
  <2> QED
    BY <1>1, <2>4, <2>5 DEF AddBypass, Install, Added
<1>2. CASE AddPassthrough
  BY <1>2, <1>t DEF AddPassthrough, Install, Added
<1>3. CASE AddNet
  BY <1>3, <1>t DEF AddNet, Install, Added
<1>4. CASE RecheckEntry
  <2>1. \/ table'[x] = table[x] \/ table'[x] = Absent
        \/ table'[x].via \in Gateways
    BY <1>4, RecheckFacts
  <2> QED
    BY <1>t, <2>1 DEF Absent
<1>5. CASE DeleteRoute
  BY <1>5, <1>t DEF DeleteRoute, Delete, Absent
<1>6. CASE Exit \/ SignalKills
  BY <1>6, <1>t DEF Exit, SignalKills, TunClosed, Absent
<1>7. CASE NetworkChanges
  <2>1. PICK lost \in SUBSET Ours : table' = [d \in Dests |-> IF d \in lost THEN Absent ELSE table[d]]
    BY <1>7, NetworkEffect
  <2> QED
    BY <1>t, <2>1 DEF Absent
<1>8. CASE UNCHANGED table
  BY <1>8
<1> QED
  BY <1>1, <1>2, <1>3, <1>4, <1>5, <1>6, <1>7, <1>8
    DEF Next, Step, vars, ProbeDefault, SetupDone, LoopBegins, RecheckDone, Tick, SendErr, StartRecheck,
        LoopEnds

(* Set-up takes its commands one by one, and bypasses what they ask for.    *)
LEMMA SetupTakes ==
  ASSUME RInv, [Next]_vars, phase' = "setup"
  PROVE  /\ phase = "setup"
         /\ \/ todo' = todo
            \/ (\E c : Doing(c)) /\ todo' = Tail(todo)
<1>1. CASE AddBypass \/ ProbeDefault \/ AddPassthrough \/ AddNet
  <2>1. \E c : Doing(c)
    BY <1>1 DEF AddBypass, ProbeDefault, AddPassthrough, AddNet
  <2> QED
    BY <2>1 DEF Doing
<1>2. CASE UNCHANGED <<phase, todo>>
  <2>1. phase = "setup" /\ todo' = todo
    BY <1>2
  <2> QED
    BY <2>1
<1>3. CASE DeleteRoute
  BY <1>3 DEF DeleteRoute
<1> QED
  BY <1>1, <1>2, <1>3
    DEF Next, Step, vars, SetupDone, LoopBegins, RecheckDone, RecheckEntry, Tick, SendErr,
        StartRecheck, LoopEnds, Exit, SignalKills

LEMMA SetupStays ==
  ASSUME RInv, [Next]_vars, phase' = "setup"
  PROVE  \E k \in {0, 1} : \A j \in DOMAIN todo' : j + k \in DOMAIN todo /\ todo'[j] = todo[j + k]
<1>1. todo \in Seq(Command)
  BY DEF RInv, TypeOK
<1>2. CASE todo' = todo
  BY <1>1, <1>2
<1>3. CASE todo # <<>> /\ todo' = Tail(todo)
  BY <1>1, <1>3, HeadTail
<1> QED
  BY <1>2, <1>3, SetupTakes DEF Doing

(* A bypass that joins the list is the one just asked for.                  *)
LEMMA HostsAdded ==
  ASSUME RInv, [Next]_vars, NEW i \in HostRoutes'
  PROVE  \/ i \in HostRoutes /\ added'[i].dest = added[i].dest
         \/ Doing("bypass") /\ added'[i].dest = Head(todo).dest
<1> USE DEF RInv
<1>0. ~SignalKills
  BY DEF SignalKills, HostRoutes
<1>t. added \in Seq(AddedRoute) /\ Len(added) \in Nat /\ DOMAIN added = 1 .. Len(added)
  BY DEF TypeOK
<1>1. CASE i \in DOMAIN added
  BY <1>0, <1>1, ListChanges DEF HostRoutes
<1>2. CASE i \notin DOMAIN added
  <2>1. i \in DOMAIN added' /\ added'[i].kind = "host" /\ added' # added
    BY <1>2 DEF HostRoutes
  <2>2. AddBypass
    <3>1. AddBypass \/ ProbeDefault \/ AddPassthrough \/ AddNet
      <4>1. ~RecheckEntry
        BY <1>t, <1>2, <2>1, RecheckFacts
      <4> QED
        BY <1>0, <2>1, <4>1
          DEF Next, Step, vars, SetupDone, LoopBegins, RecheckDone, Tick, SendErr, StartRecheck,
              LoopEnds, DeleteRoute, Exit
    <3>2. ~AddPassthrough /\ ~AddNet
      <4>1. ASSUME NEW kind \in {"net", "pass"}, NEW v, NEW d, Install(kind, d, v, None) PROVE FALSE
        <5> DEFINE r == [kind |-> kind, dest |-> d, gateway |-> None]
        <5>1. added' = Append(added, r)
          BY <2>1, <4>1 DEF Install
        <5>2. r.kind = kind
          OBVIOUS
        <5> HIDE DEF r
        <5>3. added'[i] = r
          BY <1>t, <1>2, <2>1, <5>1, AppendNew
        <5> QED
          BY <2>1, <5>2, <5>3
      <4> QED
        BY <2>1, <4>1 DEF AddPassthrough, AddNet
    <3> QED
      BY <2>1, <3>1, <3>2 DEF ProbeDefault
  <2> DEFINE r == [kind |-> "host", dest |-> Head(todo).dest, gateway |-> GatewayOf(Lookup(Head(todo).dest))]
  <2>3. added' = Append(added, r) /\ Doing("bypass")
    BY <2>1, <2>2 DEF AddBypass, Install
  <2>4. r.dest = Head(todo).dest
    OBVIOUS
  <2> HIDE DEF r
  <2>5. added'[i] = r
    BY <1>t, <1>2, <2>1, <2>3, AppendNew
  <2> QED
    BY <2>3, <2>4, <2>5
<1> QED
  BY <1>1, <1>2

(* Some asked addresses may be fewer.                                       *)
LEMMA FewerAsked ==
  ASSUME NEW H, NEW G, G \subseteq H, AsksFirst(H)
  PROVE  AsksFirst(G)
BY DEF AsksFirst

LEMMA FirstStep ==
  ASSUME NEW H, Bypassed \subseteq H, H \subseteq Hosts, RInv, FirstAsked(H), [Next]_vars
  PROVE  FirstAsked(H)'
<1> SUFFICES ASSUME AsksFirst(H) PROVE FirstAsked(H)'
  BY DEF FirstAsked, AsksFirst
<1> USE DEF RInv
<1>t. todo \in Seq(Command) /\ Hosts \subseteq Dests /\ AsksFirst(Bypassed)
  BY FewerAsked, TableAssumption DEF TypeOK
<1>d. ASSUME NEW c, Doing(c) PROVE 1 \in DOMAIN todo /\ Head(todo) = todo[1] /\ todo[1].cmd = c /\ phase = "setup"
  BY <1>t, <1>d, HeadTail DEF Doing
<1>1. ASSUME NEW i \in HostRoutes' PROVE added'[i].dest \in H
  BY <1>1, <1>d, HostsAdded DEF FirstAsked
<1>2. ASSUME NEW h \in H PROVE table'[h].via # Tun
  <2>1. table[h].via # Tun
    BY DEF FirstAsked
  <2>2. ~(Doing("net") /\ h = Head(todo).dest)
    BY <1>d DEF FirstAsked
  <2>3. ~(Doing("pass") /\ h = Head(todo).dest)
    BY <1>t, Commands
  <2> QED
    BY <1>t, <2>1, <2>2, <2>3, TunChanges
<1>3. ASSUME phase' = "setup", NEW i \in DOMAIN todo'
      PROVE  /\ todo'[i].cmd = "bypass" => todo'[i].dest \in H
             /\ todo'[i].cmd = "net" => todo'[i].dest \notin H
             /\ todo'[i].cmd \in Asking /\ todo'[i].dest \in H =>
                  /\ \A d \in Range(Covering[todo'[i].dest]) : table'[d].via # Tun
                  /\ \A j \in 1 .. i - 1 :
                       todo'[j].cmd \in {"net", "pass"} =>
                         todo'[j].dest \notin Range(Covering[todo'[i].dest])
  <2>1. PICK k \in {0, 1} : \A j \in DOMAIN todo' : j + k \in DOMAIN todo /\ todo'[j] = todo[j + k]
    BY SetupStays, <1>3
  <2>2. phase = "setup" /\ i + k \in DOMAIN todo /\ todo'[i] = todo[i + k]
    BY <1>3, <2>1, SetupTakes
  <2>t. /\ DOMAIN todo = 1 .. Len(todo) /\ Len(todo) \in Nat
        /\ DOMAIN todo' = 1 .. Len(todo') /\ Len(todo') \in Nat
    <3>1. todo' \in Seq(Command)
      BY TypeStep DEF TypeOK
    <3> QED
      BY <1>t, <3>1
  <2>3. ASSUME todo'[i].cmd \in Asking, todo'[i].dest \in H, NEW d \in Range(Covering[todo'[i].dest])
        PROVE  table'[d].via # Tun
    <3>1. table[d].via # Tun
      BY <2>2, <2>3 DEF FirstAsked
    <3>2. d \in Dests
      BY <2>3, AroundTyped
    <3>3. ASSUME NEW c \in {"net", "pass"}, Doing(c) PROVE d # Head(todo).dest
      <4>1. 1 \in DOMAIN todo /\ Head(todo) = todo[1] /\ todo[1].cmd = c
        BY <1>d, <3>3
      <4>2. i + k # 1
        BY <2>2, <2>3, <4>1 DEF Asking
      <4>3. 1 \in 1 .. (i + k) - 1
        BY <2>t, <2>2, <4>2
      <4> QED
        BY <2>2, <2>3, <4>1, <4>3 DEF FirstAsked
    <3> QED
      BY <1>t, <3>1, <3>2, <3>3, TunChanges
  <2>4. ASSUME todo'[i].cmd \in Asking, todo'[i].dest \in H,
               NEW j \in 1 .. i - 1, todo'[j].cmd \in {"net", "pass"}
        PROVE  todo'[j].dest \notin Range(Covering[todo'[i].dest])
    <3>1. j \in DOMAIN todo'
      BY <1>3, <2>t
    <3>2. todo'[j] = todo[j + k] /\ j + k \in 1 .. (i + k) - 1
      BY <2>t, <2>1, <3>1
    <3> QED
      BY <2>2, <2>4, <3>2 DEF FirstAsked
  <2>5. /\ todo'[i].cmd = "bypass" => todo'[i].dest \in H
        /\ todo'[i].cmd = "net" => todo'[i].dest \notin H
    BY <2>2 DEF FirstAsked
  <2> QED
    BY <2>3, <2>4, <2>5
<1> QED
  BY <1>1, <1>2, <1>3 DEF FirstAsked

LEMMA BypassesStep == RInv /\ [Next]_vars => BypassesFirst'
BY FirstStep, EndpointsAreHosts DEF RInv, BypassesFirst

(* What a probe finds, it finds before anything of ours could answer.       *)
LEMMA ProbesStep == RInv /\ [Next]_vars => ProbesFirst'
<1> SUFFICES ASSUME RInv, [Next]_vars PROVE ProbesFirst'
  OBVIOUS
<1> DEFINE H == Bypassed \cup Probes
<1> USE DEF RInv
<1>1. FirstAsked(H) /\ Bypassed \subseteq H /\ Probes \subseteq H /\ H \subseteq Hosts
  BY EndpointsAreHosts DEF ProbesFirst
<1> HIDE DEF H
<1>2. FirstAsked(H)'
  BY <1>1, FirstStep
<1>3. ASSUME phase' = "setup", NEW i \in DOMAIN todo', todo'[i].cmd = "probe"
      PROVE  todo'[i].dest \in Probes
  <2>1. PICK k \in {0, 1} : \A j \in DOMAIN todo' : j + k \in DOMAIN todo /\ todo'[j] = todo[j + k]
    BY SetupStays, <1>3
  <2> QED
    BY <1>3, <2>1, SetupTakes DEF ProbesFirst
<1>4. ASSUME AsksFirst(H), NEW f \in Families PROVE probed'[f] # Tun
  <2>1. probed[f] # Tun
    BY <1>4 DEF ProbesFirst, ProbeSeesOriginalDefault, H
  <2>2. CASE ProbeDefault
    <3> DEFINE h == Head(todo).dest
    <3>1. /\ h \in Hosts /\ FamilyOf[h] \in Families /\ phase = "setup"
          /\ 1 \in DOMAIN todo /\ h = todo[1].dest /\ todo[1].cmd = "probe"
      <4>1. Doing("probe") /\ h \in Hosts /\ h \in Dests /\ phase = "setup"
        BY <2>2, Commands DEF ProbeDefault
      <4> QED
        BY <4>1, HeadTail, TableAssumption DEF Doing, TypeOK
    <3>2. h \in H
      BY <1>1, <3>1 DEF ProbesFirst
    <3>3. table[h].via # Tun /\ \A d \in Range(Covering[h]) : table[d].via # Tun
      BY <1>1, <1>4, <3>1, <3>2 DEF FirstAsked, Asking
    <3>4. default[FamilyOf[h]] # Tun
      BY <3>1, TableAssumption DEF TypeOK, TableTypeOK
    <3>5. Lookup(h) # Tun
      BY <3>1, <3>3, <3>4, LookupFinds
    <3> QED
      BY <2>1, <2>2, <3>1, <3>5 DEF ProbeDefault, TypeOK
  <2>3. CASE SignalKills \/ SetupDone
    BY <2>3, TableAssumption DEF SignalKills, SetupDone, Nowhere
  <2>4. CASE UNCHANGED probed
    BY <2>1, <2>4
  <2> QED
    BY <2>2, <2>3, <2>4
      DEF Next, Step, vars, AddBypass, AddPassthrough, AddNet, LoopBegins, RecheckDone,
          RecheckEntry, Tick, SendErr, StartRecheck, LoopEnds, DeleteRoute, Exit
<1>5. AsksFirst(H) => ProbeSeesOriginalDefault'
  BY <1>4 DEF ProbeSeesOriginalDefault
<1> QED
  BY <1>2, <1>3, <1>5 DEF ProbesFirst, H, AsksFirst

LEMMA RInvInit == Init => RInv
<1> SUFFICES ASSUME Init PROVE RInv
  OBVIOUS
<1>1. added = <<>> /\ DOMAIN added = {} /\ phase = "setup" /\ next = 1
  BY DEF Init
<1>2. \A d \in Dests : ~table[d].ours /\ table[d].via # Tun
  <2>1. PICK user \in [UserDests -> {Absent} \cup {[via |-> g, ours |-> FALSE] : g \in Gateways}] :
          table = [d \in Dests |-> IF d \in UserDests THEN user[d] ELSE Absent]
    BY DEF Init, TableInit
  <2> QED
    BY <2>1, TableAssumption DEF Absent
<1>3. ASSUME NEW H, Bypassed \subseteq H, H \subseteq Hosts PROVE FirstAsked(H)
  <2>1. SUFFICES ASSUME AsksFirst(H) PROVE FirstAsked(H)
    BY DEF FirstAsked
  <2>2. todo \in Seq(Harmless(H)) /\ Sorted(todo, Capturing(H))
    BY <1>3, <2>1, PlanOrdered DEF Init
  <2>3. Hosts \subseteq Dests
    BY TableAssumption
  <2>4. HostRoutes = {}
    BY <1>1 DEF HostRoutes
  <2>5. ASSUME NEW i \in DOMAIN todo
        PROVE  /\ todo[i].cmd = "bypass" => todo[i].dest \in H
               /\ todo[i].cmd = "net" => todo[i].dest \notin H
               /\ todo[i].cmd \in Asking /\ todo[i].dest \in H =>
                    /\ \A d \in Range(Covering[todo[i].dest]) : table[d].via # Tun
                    /\ \A j \in 1 .. i - 1 :
                         todo[j].cmd \in {"net", "pass"} =>
                           todo[j].dest \notin Range(Covering[todo[i].dest])
    <3>1. \A j \in DOMAIN todo : todo[j] \in Harmless(H)
      BY <2>2, ElementTyped
    <3>2. ASSUME todo[i].dest \in H, NEW d \in Range(Covering[todo[i].dest]) PROVE table[d].via # Tun
      BY <1>2, <1>3, <3>2, AroundTyped
    <3>3. ASSUME todo[i].cmd \in Asking, todo[i].dest \in H,
                 NEW j \in 1 .. i - 1, todo[j].cmd \in {"net", "pass"}
          PROVE  todo[j].dest \notin Range(Covering[todo[i].dest])
      <4>1. j \in DOMAIN todo /\ j < i
        BY <2>2, <2>5
      <4>2. <<todo[j], todo[i]>> \notin Capturing(H) /\ todo[i] \in Command /\ todo[j] \in Command
        BY <2>2, <3>1, <4>1 DEF Sorted, Harmless
      <4> QED
        BY <3>3, <4>2 DEF Capturing
    <3> QED
      BY <1>3, <3>1, <3>2, <3>3 DEF Harmless
  <2> QED
    BY <1>2, <1>3, <2>3, <2>4, <2>5 DEF FirstAsked
<1>4. BypassesFirst /\ FirstAsked(Bypassed \cup Probes)
  BY <1>3, EndpointsAreHosts DEF BypassesFirst
<1>5. ProbesFirst
  <2>1. ASSUME NEW i \in DOMAIN todo, todo[i].cmd = "probe" PROVE todo[i].dest \in Probes
    BY <2>1, PlanTyped, ProbesPlanned, ElementTyped DEF Init, Harmless
  <2>2. ProbeSeesOriginalDefault
    BY TableAssumption DEF Init, Nowhere, ProbeSeesOriginalDefault
  <2> QED
    BY <1>4, <2>1, <2>2 DEF ProbesFirst
<1> QED
  BY <1>1, <1>2, <1>4, <1>5, TypeInit
    DEF RInv, Recorded, NoRouteLeaked, BeingRemoved, StoredGatewayIsUsed, Rechecked, HostRoutes,
        Destinations, Ours, Foreign

-----------------------------------------------------------------------------
(* The theorems.                                                           *)

(* The conjuncts hold together: the types for the values read, Recorded and *)
(* BeingRemoved for what a delete may hit, Rechecked for where a recheck    *)
(* has got to.                                                              *)
THEOREM RoutesInvariant == Spec => []RInv
<1>1. RInv /\ [Next]_vars => RInv'
  BY TypeStep, RecordedStep, LeakStep, RemovalStep, StoredStep, RecheckedStep, BypassesStep,
     ProbesStep DEF RInv
<1> QED
  BY <1>1, RInvInit, PTL DEF Spec

(* Whatever the commands and the networks do, the CleanupGuard's list holds *)
(* every route this program has in the table.                               *)
THEOREM RoutesRecorded == Spec => []NoRouteLeaked
<1>1. RInv => NoRouteLeaked
  BY DEF RInv
<1> QED
  BY <1>1, RoutesInvariant, PTL

(* cleanup_routes leaves nothing of ours behind but what the kernel would   *)
(* not delete.                                                              *)
THEOREM CleanExits == Spec => []CleanExit
<1>1. RInv => CleanExit
  <2>1. ASSUME RInv, phase = "exited" PROVE Ours \subseteq stuck
    BY <2>1 DEF RInv, BeingRemoved, Destinations
  <2> QED
    BY <2>1 DEF CleanExit
<1> QED
  BY <1>1, RoutesInvariant, PTL

(* Deleting by destination alone never hits a route of the user, since no   *)
(* add succeeds over one.                                                   *)
THEOREM UsersKeepRoutes == Spec => UserRoutesKept
<1>1. RInv /\ [Next]_vars => [\A d \in Foreign : table'[d] = table[d]]_vars
  BY ForeignKept
<1> QED
  BY <1>1, RoutesInvariant, PTL DEF Spec, UserRoutesKept

(* What a recheck compares against is what the bypass goes through, unless  *)
(* it is a bypass the kernel would not delete.                              *)
THEOREM StoredIsUsed == Spec => []StoredGatewayIsUsed
<1>1. RInv => StoredGatewayIsUsed
  BY DEF RInv
<1> QED
  BY <1>1, RoutesInvariant, PTL

(* A finished recheck leaves no bypass through another gateway than the one *)
(* it found, except where the old one could not be deleted: what it skips   *)
(* for its record already goes there.                                       *)
THEOREM RechecksLeaveNoneStale == Spec => []RecheckLeavesNoneStale
<1>1. RInv => RecheckLeavesNoneStale
  <2>1. ASSUME RInv, phase = "loop", next > 1 PROVE \A j \in HostRoutes : ~(j >= next)
    BY <2>1 DEF RInv, Rechecked, HostRoutes, TypeOK
  <2> QED
    BY <2>1 DEF RecheckLeavesNoneStale, RInv, Rechecked
<1> QED
  BY <1>1, RoutesInvariant, PTL

(* No bypass of an endpoint leads into the tunnel, on any network and after *)
(* any recheck: install_endpoint_bypass asks for the route before a         *)
(* catch-all of setup_routes or setup_unconfigured_family can answer.  So   *)
(* it is when no AllowedIP is an endpoint, and none is a prefix around an   *)
(* endpoint of a family without an address, whose bypasses come last.       *)
THEOREM BypassesAvoidTun ==
  ASSUME AsksFirst(Bypassed) PROVE Spec => []BypassAvoidsTun
<1>1. RInv => BypassAvoidsTun
  BY DEF RInv, BypassesFirst, FirstAsked, BypassAvoidsTun
<1> QED
  BY <1>1, RoutesInvariant, PTL

(* What the comment of install_passthroughs says of its probe is true where *)
(* no AllowedIP, catch-all or not, is or covers an address probed in a      *)
(* family without an address: then the pass-throughs leave the tunnel.      *)
THEOREM ProbesSeeDefault ==
  ASSUME AsksFirst(Bypassed \cup Probes) PROVE Spec => []ProbeSeesOriginalDefault
<1>1. RInv => ProbeSeesOriginalDefault
  BY DEF RInv, ProbesFirst
<1> QED
  BY <1>1, RoutesInvariant, PTL
=============================================================================
