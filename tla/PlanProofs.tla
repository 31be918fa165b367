----------------------------- MODULE PlanProofs -----------------------------
(***************************************************************************)
(* The commands that setup_routes and setup_unconfigured_family issue, for *)
(* every configuration: what they are, and in which order they come.  The  *)
(* plan is made of lists joined by FlattenSeq, so the facts about it rest  *)
(* on an induction over the lists, by their least counterexample.          *)
(***************************************************************************)
EXTENDS RoutesInv, TLAPS, WellFoundedInduction

(* What holds of one, and of each successor, holds of all up to n.         *)
LEMMA UpTo ==
  ASSUME NEW n \in Nat, NEW T, T \subseteq 1 .. n,
         1 \in 1 .. n => 1 \in T,
         \A m \in T : m + 1 \in 1 .. n => m + 1 \in T
  PROVE  T = 1 .. n
<1> DEFINE B == (1 .. n) \ T
           R == {ss \in Nat \X Nat : ss[1] < ss[2]}
<1>1. SUFFICES ASSUME B # {} PROVE FALSE
  OBVIOUS
<1>2. IsWellFoundedOn(R, Nat)
  BY NatLessThanWellFounded DEF OpToRel
<1>3. PICK x \in B : \A y \in B : <<y, x>> \notin R
  <2>1. B \subseteq Nat
    OBVIOUS
  <2> HIDE DEF B, R
  <2> QED
    BY <1>1, <1>2, <2>1, WFMin
<1>4. ASSUME NEW y \in B PROVE ~(y < x)
  <2>1. y \in Nat /\ x \in Nat /\ <<y, x>> \notin R
    BY <1>3, <1>4
  <2> QED
    BY <2>1
<1>5. x \in 1 .. n /\ x \notin T /\ x # 1
  BY <1>3
<1>6. x - 1 \in T /\ (x - 1) + 1 = x
  <2>1. x - 1 \in 1 .. n /\ x - 1 < x
    BY <1>5
  <2> QED
    BY <1>4, <2>1
<1> QED
  BY <1>5, <1>6

-----------------------------------------------------------------------------
(* Joining lists.                                                          *)

(* FlattenSeq's recursion has a solution, and so is what it says.          *)
LEMMA FlattenUnfolds ==
  ASSUME NEW n \in Nat \ {0}, NEW ss
  PROVE  \E g : g = [i \in 1 .. n |-> IF i = 1 THEN ss[i] ELSE g[i - 1] \o ss[i]]
<1> DEFINE Solves(g, m) == g = [i \in 1 .. m |-> IF i = 1 THEN ss[i] ELSE g[i - 1] \o ss[i]]
           T == {m \in 1 .. n : \E g : Solves(g, m)}
<1>1. 1 \in T
  <2>1. Solves([i \in 1 .. 1 |-> ss[i]], 1)
    OBVIOUS
  <2> HIDE DEF Solves
  <2> QED
    BY <2>1
<1>2. ASSUME NEW m \in T, m + 1 \in 1 .. n
      PROVE  m + 1 \in T
  <2>1. PICK g : Solves(g, m)
    BY <1>2
  <2> DEFINE h == [i \in 1 .. m + 1 |-> IF i = m + 1 THEN g[m] \o ss[m + 1] ELSE g[i]]
  <2>2. ASSUME NEW i \in 1 .. m + 1
        PROVE  h[i] = IF i = 1 THEN ss[i] ELSE h[i - 1] \o ss[i]
    <3>1. CASE i = m + 1
      <4>1. i - 1 = m /\ i # 1 /\ m \in 1 .. m + 1 /\ m # m + 1
        BY <1>2, <3>1
      <4>2. h[m] = g[m]
        BY <4>1
      <4> QED
        BY <3>1, <4>1, <4>2
    <3>2. CASE i # m + 1
      <4>1. i \in 1 .. m /\ h[i] = g[i] /\ m \in Nat
        BY <1>2, <2>2, <3>2
      <4>2. g[i] = IF i = 1 THEN ss[i] ELSE g[i - 1] \o ss[i]
        BY <2>1, <4>1
      <4>3. i # 1 => i - 1 \in 1 .. m + 1 /\ i - 1 # m + 1
        BY <4>1
      <4> QED
        BY <4>1, <4>2, <4>3
    <3> QED
      BY <3>1, <3>2
  <2>3. Solves(h, m + 1)
    BY <2>2
  <2> QED
    BY <1>2, <2>3
<1>3. T = 1 .. n
  <2> HIDE DEF T
  <2>1. T \subseteq 1 .. n
    BY DEF T
  <2> QED
    BY <1>1, <1>2, <2>1, UpTo
<1>4. n \in T
  <2> HIDE DEF T
  <2> QED
    BY <1>3
<1> QED
  BY <1>4

(* An element of a typed list.                                             *)
LEMMA ElementTyped ==
  ASSUME NEW S, NEW q \in Seq(S), NEW i \in DOMAIN q
  PROVE  q[i] \in S
OBVIOUS

LEMMA JoinTyped ==
  ASSUME NEW S, NEW p \in Seq(S), NEW q \in Seq(S)
  PROVE  /\ p \o q \in Seq(S)
         /\ Len(p) \in Nat /\ DOMAIN p = 1 .. Len(p)
         /\ Len(q) \in Nat /\ DOMAIN q = 1 .. Len(q)
         /\ DOMAIN (p \o q) = 1 .. Len(p) + Len(q)
         /\ \A i \in 1 .. Len(p) + Len(q) :
              (p \o q)[i] = IF i <= Len(p) THEN p[i] ELSE q[i - Len(p)]
OBVIOUS

\* No pair of R is in p in this order; none has its first in p and its second in q.
Sorted(p, R) == \A i, j \in DOMAIN p : i < j => <<p[i], p[j]>> \notin R
Apart(p, q, R) == \A i \in DOMAIN p, j \in DOMAIN q : <<p[i], q[j]>> \notin R

LEMMA JoinSorted ==
  ASSUME NEW S, NEW p \in Seq(S), NEW q \in Seq(S), NEW R,
         Sorted(p, R), Sorted(q, R), Apart(p, q, R)
  PROVE  Sorted(p \o q, R)
<1> SUFFICES ASSUME NEW i \in DOMAIN (p \o q), NEW j \in DOMAIN (p \o q), i < j
             PROVE  <<(p \o q)[i], (p \o q)[j]>> \notin R
  BY DEF Sorted
<1>1. /\ i \in 1 .. Len(p) + Len(q) /\ j \in 1 .. Len(p) + Len(q)
      /\ Len(p) \in Nat /\ DOMAIN p = 1 .. Len(p)
      /\ Len(q) \in Nat /\ DOMAIN q = 1 .. Len(q)
      /\ (p \o q)[i] = IF i <= Len(p) THEN p[i] ELSE q[i - Len(p)]
      /\ (p \o q)[j] = IF j <= Len(p) THEN p[j] ELSE q[j - Len(p)]
  BY JoinTyped
<1>2. CASE j <= Len(p)
  BY <1>1, <1>2 DEF Sorted
<1>3. CASE i <= Len(p) /\ j > Len(p)
  BY <1>1, <1>3 DEF Apart
<1>4. CASE i > Len(p)
  <2>1. /\ i - Len(p) \in DOMAIN q /\ j - Len(p) \in DOMAIN q /\ i - Len(p) < j - Len(p)
        /\ (p \o q)[i] = q[i - Len(p)] /\ (p \o q)[j] = q[j - Len(p)]
    BY <1>1, <1>4
  <2> QED
    BY <2>1 DEF Sorted
<1> QED
  BY <1>1, <1>2, <1>3, <1>4

LEMMA JoinApart ==
  ASSUME NEW S, NEW p \in Seq(S), NEW q \in Seq(S), NEW r, NEW R,
         Apart(p, r, R), Apart(q, r, R)
  PROVE  Apart(p \o q, r, R)
<1> SUFFICES ASSUME NEW i \in DOMAIN (p \o q), NEW j \in DOMAIN r
             PROVE  <<(p \o q)[i], r[j]>> \notin R
  BY DEF Apart
<1>1. /\ i \in 1 .. Len(p) + Len(q)
      /\ Len(p) \in Nat /\ DOMAIN p = 1 .. Len(p)
      /\ Len(q) \in Nat /\ DOMAIN q = 1 .. Len(q)
      /\ (p \o q)[i] = IF i <= Len(p) THEN p[i] ELSE q[i - Len(p)]
  BY JoinTyped
<1>2. CASE i <= Len(p)
  BY <1>1, <1>2 DEF Apart
<1>3. CASE i > Len(p)
  <2>1. i - Len(p) \in DOMAIN q /\ (p \o q)[i] = q[i - Len(p)]
    BY <1>1, <1>3
  <2> QED
    BY <2>1 DEF Apart
<1> QED
  BY <1>1, <1>2, <1>3

(* The join of a list of lists is a list, and sorted if each of them is    *)
(* and each is apart from those after it.                                  *)
LEMMA FlattenFacts ==
  ASSUME NEW S, NEW R, NEW n \in Nat, NEW ss \in [1 .. n -> Seq(S)],
         \A i \in 1 .. n : Sorted(ss[i], R),
         \A i, j \in 1 .. n : i < j => Apart(ss[i], ss[j], R)
  PROVE  FlattenSeq(ss) \in Seq(S) /\ Sorted(FlattenSeq(ss), R)
<1>0. Len(ss) = n
  OBVIOUS
<1>1. CASE n = 0
  <2>1. ss = <<>> /\ FlattenSeq(ss) = ss
    BY <1>0, <1>1 DEF FlattenSeq
  <2>2. <<>> \in Seq(S) /\ DOMAIN <<>> = {}
    OBVIOUS
  <2> QED
    BY <2>1, <2>2 DEF Sorted
<1>2. CASE n # 0
  <2> DEFINE Solves(g) == g = [i \in 1 .. n |-> IF i = 1 THEN ss[i] ELSE g[i - 1] \o ss[i]]
             fl == CHOOSE g : Solves(g)
             T == {m \in 1 .. n :
                     /\ fl[m] \in Seq(S)
                     /\ Sorted(fl[m], R)
                     /\ \A j \in 1 .. n : m < j => Apart(fl[m], ss[j], R)}
  <2>1. FlattenSeq(ss) = fl[n]
    BY <1>0, <1>2 DEF FlattenSeq
  <2>2. Solves(fl)
    <3>1. n \in Nat \ {0}
      BY <1>2
    <3>2. \E g : g = [i \in 1 .. n |-> IF i = 1 THEN ss[i] ELSE g[i - 1] \o ss[i]]
      BY <3>1, FlattenUnfolds
    <3>3. \E g : Solves(g)
      BY <3>2
    <3> HIDE DEF Solves
    <3> QED
      BY <3>3
  <2>3. ASSUME NEW i \in 1 .. n PROVE fl[i] = IF i = 1 THEN ss[i] ELSE fl[i - 1] \o ss[i]
    BY <2>2
  <2> HIDE DEF fl
  <2>4. 1 \in T
    <3>1. 1 \in 1 .. n /\ fl[1] = ss[1]
      BY <1>2, <2>3
    <3> QED
      BY <3>1
  <2>5. ASSUME NEW m \in T, m + 1 \in 1 .. n PROVE m + 1 \in T
    <3>1. /\ fl[m + 1] = fl[m] \o ss[m + 1]
          /\ fl[m] \in Seq(S) /\ ss[m + 1] \in Seq(S) /\ m < m + 1
      <4>1. m \in 1 .. n /\ m + 1 # 1 /\ (m + 1) - 1 = m /\ m < m + 1
        BY <2>5
      <4> QED
        BY <2>3, <2>5, <4>1
    <3>2. fl[m + 1] \in Seq(S)
      BY <3>1, JoinTyped
    <3>3. Sorted(fl[m + 1], R)
      BY <2>5, <3>1, JoinSorted
    <3>4. ASSUME NEW j \in 1 .. n, m + 1 < j PROVE Apart(fl[m + 1], ss[j], R)
      <4>1. m < j
        BY <2>5, <3>4
      <4> QED
        BY <2>5, <3>1, <3>4, <4>1, JoinApart
    <3> QED
      BY <2>5, <3>2, <3>3, <3>4
  <2>6. T = 1 .. n
    <3>1. T \subseteq 1 .. n
      OBVIOUS
    <3> HIDE DEF T
    <3> QED
      BY <2>4, <2>5, <3>1, UpTo
  <2>7. n \in T
    <3> HIDE DEF T
    <3> QED
      BY <1>2, <2>6
  <2> QED
    BY <2>1, <2>7
<1> QED
  BY <1>1, <1>2

LEMMA FlattenTyped ==
  ASSUME NEW S, NEW n \in Nat, NEW ss \in [1 .. n -> Seq(S)]
  PROVE  FlattenSeq(ss) \in Seq(S)
<1>1. \A p, q : Sorted(p, {}) /\ Apart(p, q, {})
  BY DEF Sorted, Apart
<1> QED
  BY <1>1, FlattenFacts

LEMMA Widen ==
  ASSUME NEW S, NEW T, S \subseteq T, NEW q \in Seq(S)
  PROVE  q \in Seq(T)
OBVIOUS

-----------------------------------------------------------------------------
(* The parts of the plan.                                                  *)

\* A route for a prefix, and a later lookup of an address of H that it covers.
Capturing(H) ==
  {p \in Command \X Command :
     /\ p[1].cmd \in {"net", "pass"} /\ p[2].cmd \in Asking
     /\ p[2].dest \in H /\ p[1].dest \in Range(Covering[p[2].dest])}

Capturers == {c \in Command : c.cmd \in {"net", "pass"}}
Askers == {c \in Command : c.cmd \in Asking}

(* Only the order of prefixes before what is asked for matters.            *)
LEMMA NoCapturers ==
  ASSUME NEW H, NEW p \in Seq(Command \ Capturers), NEW q
  PROVE  Sorted(p, Capturing(H)) /\ Apart(p, q, Capturing(H))
<1>1. \A i \in DOMAIN p : p[i] \notin Capturers
  BY ElementTyped
<1>2. \A c, d : <<c, d>> \in Capturing(H) => c \in Capturers
  BY DEF Capturing, Capturers
<1> QED
  BY <1>1, <1>2 DEF Sorted, Apart

LEMMA NoAskers ==
  ASSUME NEW H, NEW p, NEW q \in Seq(Command \ Askers)
  PROVE  Sorted(q, Capturing(H)) /\ Apart(p, q, Capturing(H))
<1>1. \A i \in DOMAIN q : q[i] \notin Askers
  BY ElementTyped
<1>2. \A c, d : <<c, d>> \in Capturing(H) => d \in Askers
  BY DEF Capturing, Askers
<1> QED
  BY <1>1, <1>2 DEF Sorted, Apart

(* One command for each destination of a list.                             *)
LEMMA EachTyped ==
  ASSUME NEW S, NEW c, NEW D, NEW dests \in Seq(D),
         \A d \in D : [cmd |-> c, dest |-> d] \in S
  PROVE  Each(c, dests) \in Seq(S)
<1>1. Len(dests) \in Nat /\ DOMAIN dests = 1 .. Len(dests)
  OBVIOUS
<1>2. Each(c, dests) \in [1 .. Len(dests) -> S]
  BY <1>1 DEF Each
<1> QED
  BY <1>1, <1>2

BypassesOf(f) == {c \in Command : c.cmd = "bypass" /\ c.dest \in Bypassed /\ FamilyOf[c.dest] = f}
ProbesOf(f) == {c \in Command : c.cmd = "probe" /\ c.dest = Probe[f]}
AsidesOf(f) == {c \in Command : c.cmd = "pass" /\ FamilyOf[c.dest] = f}
NetsOf(f) == {c \in Command : c.cmd = "net" /\ c.dest \in {Lower[f], Upper[f]}}

LEMMA BypassesTyped ==
  ASSUME NEW f
  PROVE  Bypasses(f) \in Seq(BypassesOf(f))
<1>1. /\ Len(Endpoints) \in Nat /\ DOMAIN Endpoints = 1 .. Len(Endpoints)
      /\ \A i \in DOMAIN Endpoints : Endpoints[i] \in Hosts
  BY RoutesAssumption, ElementTyped
<1> DEFINE ss == [i \in DOMAIN Endpoints |->
                    IF FamilyOf[Endpoints[i]] = f THEN Each("bypass", <<Endpoints[i]>>) ELSE <<>>]
<1>2. ASSUME NEW i \in DOMAIN Endpoints PROVE ss[i] \in Seq(BypassesOf(f))
  <2>1. CASE FamilyOf[Endpoints[i]] = f
    <3>1. [cmd |-> "bypass", dest |-> Endpoints[i]] \in BypassesOf(f)
      BY <1>1, <2>1 DEF BypassesOf, Command, Bypassed
    <3>2. <<Endpoints[i]>> \in Seq({Endpoints[i]})
      OBVIOUS
    <3>3. Each("bypass", <<Endpoints[i]>>) \in Seq(BypassesOf(f))
      BY <3>1, <3>2, EachTyped
    <3> QED
      BY <2>1, <3>3
  <2>2. CASE FamilyOf[Endpoints[i]] # f
    BY <2>2
  <2> QED
    BY <2>1, <2>2
<1>3. ss \in [1 .. Len(Endpoints) -> Seq(BypassesOf(f))]
  BY <1>1, <1>2
<1>4. FlattenSeq(ss) \in Seq(BypassesOf(f))
  <2> HIDE DEF ss
  <2> QED
    BY <1>1, <1>3, FlattenTyped
<1> QED
  BY <1>4 DEF Bypasses

(* The probe comes before what rests on its answer.                        *)
LEMMA PassthroughsOrdered ==
  ASSUME NEW H, NEW f \in Families
  PROVE  /\ Passthroughs(f) \in Seq(ProbesOf(f) \cup AsidesOf(f))
         /\ Sorted(Passthroughs(f), Capturing(H))
<1> DEFINE S == ProbesOf(f) \cup AsidesOf(f)
           pr == Each("probe", <<Probe[f]>>)
           ps == Each("pass", Exemptions[f])
<1>1. pr \in Seq(ProbesOf(f))
  <2>1. <<Probe[f]>> \in Seq({Probe[f]})
    OBVIOUS
  <2>2. \A d \in {Probe[f]} : [cmd |-> "probe", dest |-> d] \in ProbesOf(f)
    BY RoutesAssumption DEF ProbesOf, Command
  <2> QED
    BY <2>1, <2>2, EachTyped
<1>2. ps \in Seq(AsidesOf(f))
  <2> DEFINE D == {d \in Dests \ (Hosts \cup Split) : FamilyOf[d] = f}
  <2>1. Exemptions[f] \in Seq(D)
    <3>1. Exemptions[f] \in Seq(Dests \ (Hosts \cup Split))
      BY RoutesAssumption
    <3>2. \A i \in DOMAIN Exemptions[f] : Exemptions[f][i] \in D
      BY <3>1, ElementTyped, RoutesAssumption DEF Range
    <3> HIDE DEF D
    <3> QED
      BY <3>1, <3>2
  <2>2. \A d \in D : [cmd |-> "pass", dest |-> d] \in AsidesOf(f)
    BY DEF AsidesOf, Command
  <2> HIDE DEF D
  <2> QED
    BY <2>1, <2>2, EachTyped
<1>3. /\ ProbesOf(f) \subseteq Command \ Capturers /\ AsidesOf(f) \subseteq Command \ Askers
      /\ ProbesOf(f) \subseteq S /\ AsidesOf(f) \subseteq S
      /\ Command \ Capturers \subseteq Command /\ Command \ Askers \subseteq Command
  BY DEF ProbesOf, AsidesOf, Capturers, Askers, Asking
<1> HIDE DEF S, pr, ps
<1>4. /\ pr \in Seq(S) /\ pr \in Seq(Command \ Capturers) /\ pr \in Seq(Command)
      /\ ps \in Seq(S) /\ ps \in Seq(Command \ Askers) /\ ps \in Seq(Command)
  BY <1>1, <1>2, <1>3, Widen
<1>5. pr \o ps \in Seq(S) /\ Sorted(pr \o ps, Capturing(H))
  BY <1>4, JoinTyped, NoCapturers, NoAskers, JoinSorted
<1>6. <<>> \in Seq(S) /\ Sorted(<<>>, Capturing(H))
  BY DEF Sorted
<1> QED
  BY <1>5, <1>6 DEF Passthroughs, S, pr, ps

LEMMA HalvesTyped ==
  ASSUME NEW f \in Families
  PROVE  Halves(f) \in Seq(NetsOf(f))
<1>1. \A d \in {Lower[f], Upper[f]} : [cmd |-> "net", dest |-> d] \in NetsOf(f)
  BY TableAssumption DEF NetsOf, Command
<1>2. <<Lower[f], Upper[f]>> \in Seq({Lower[f], Upper[f]})
  OBVIOUS
<1> QED
  BY <1>1, <1>2, EachTyped DEF Halves

\* The tunnel's routes: halves of the families with a catch-all, and prefixes.
Nets ==
  {c \in Command : /\ c.cmd = "net"
                   /\ \/ \E f \in CatchAll : c.dest \in {Lower[f], Upper[f]}
                      \/ \E i \in DOMAIN AllowedIPs : c.dest = AllowedIPs[i]}

LEMMA TunRoutesTyped ==
  ASSUME NEW i \in DOMAIN AllowedIPs
  PROVE  TunRoutes(AllowedIPs[i]) \in Seq(Nets)
<1> DEFINE p == AllowedIPs[i]
<1>1. p \in Dests \cup {ZeroPrefix[f] : f \in Families}
  BY RoutesAssumption, ElementTyped
<1>2. CASE \E f \in Families : p = ZeroPrefix[f]
  <2> DEFINE f == CHOOSE f \in Families : p = ZeroPrefix[f]
  <2>1. f \in Families /\ p = ZeroPrefix[f]
    BY <1>2
  <2>2. f \in CatchAll
    BY <2>1 DEF CatchAll
  <2>3. TunRoutes(p) = Halves(f)
    BY <1>2 DEF TunRoutes
  <2> HIDE DEF f
  <2>4. NetsOf(f) \subseteq Nets
    BY <2>2 DEF Nets, NetsOf
  <2> QED
    BY <2>1, <2>3, <2>4, HalvesTyped, Widen
<1>3. CASE ~\E f \in Families : p = ZeroPrefix[f]
  <2>1. p \in Dests /\ TunRoutes(p) = Each("net", <<p>>)
    BY <1>1, <1>3 DEF TunRoutes
  <2>2. [cmd |-> "net", dest |-> p] \in Nets
    <3>1. [cmd |-> "net", dest |-> p] \in Command
      BY <2>1 DEF Command
    <3> QED
      BY <3>1 DEF Nets
  <2>3. <<p>> \in Seq({p})
    OBVIOUS
  <2> QED
    BY <2>1, <2>2, <2>3, EachTyped
<1> QED
  BY <1>2, <1>3

\* What setup_routes issues, and what setup_unconfigured_family does for f.
Asked == {c \in Command : c.cmd = "bypass" /\ c.dest \in Bypassed /\ FamilyOf[c.dest] \in CatchAll}
SetupCommands == Asked \cup Nets
UnconfiguredCommands(f) == BypassesOf(f) \cup ProbesOf(f) \cup AsidesOf(f) \cup NetsOf(f)

LEMMA FamiliesInOrder ==
  /\ Len(FamilyOrder) \in Nat /\ DOMAIN FamilyOrder = 1 .. Len(FamilyOrder)
  /\ \A i \in DOMAIN FamilyOrder : FamilyOrder[i] \in Families
BY RoutesAssumption, ElementTyped

(* Bypasses first, then the routes they bypass.                            *)
LEMMA SetupRoutesOrdered ==
  ASSUME NEW H
  PROVE  setup_routes \in Seq(SetupCommands) /\ Sorted(setup_routes, Capturing(H))
<1> DEFINE bs == [i \in DOMAIN FamilyOrder |->
                    IF FamilyOrder[i] \in CatchAll THEN Bypasses(FamilyOrder[i]) ELSE <<>>]
           ns == [i \in DOMAIN AllowedIPs |-> TunRoutes(AllowedIPs[i])]
<1>1. setup_routes = FlattenSeq(bs) \o FlattenSeq(ns)
  BY DEF setup_routes, InOrder
<1>2. FlattenSeq(bs) \in Seq(Asked)
  <2>1. ASSUME NEW i \in DOMAIN FamilyOrder PROVE bs[i] \in Seq(Asked)
    <3>1. CASE FamilyOrder[i] \in CatchAll
      <4>1. BypassesOf(FamilyOrder[i]) \subseteq Asked
        BY <3>1 DEF Asked, BypassesOf
      <4> QED
        BY <3>1, <4>1, BypassesTyped, Widen
    <3>2. CASE FamilyOrder[i] \notin CatchAll
      BY <3>2
    <3> QED
      BY <3>1, <3>2
  <2>2. bs \in [1 .. Len(FamilyOrder) -> Seq(Asked)]
    BY <2>1, FamiliesInOrder
  <2> HIDE DEF bs
  <2> QED
    BY <2>2, FamiliesInOrder, FlattenTyped
<1>3. FlattenSeq(ns) \in Seq(Nets)
  <2>1. ns \in [1 .. Len(AllowedIPs) -> Seq(Nets)] /\ Len(AllowedIPs) \in Nat
    BY TunRoutesTyped, RoutesAssumption
  <2> HIDE DEF ns
  <2> QED
    BY <2>1, FlattenTyped
<1>4. /\ Asked \subseteq Command \ Capturers /\ Asked \subseteq SetupCommands
      /\ Nets \subseteq Command \ Askers /\ Nets \subseteq SetupCommands
      /\ SetupCommands \subseteq Command
  <2>1. Asked \subseteq Askers /\ Nets \subseteq Capturers
    BY DEF Asked, Askers, Asking, Nets, Capturers
  <2>2. Askers \cap Capturers = {} /\ Askers \subseteq Command /\ Capturers \subseteq Command
    BY DEF Askers, Asking, Capturers
  <2> QED
    BY <2>1, <2>2 DEF SetupCommands
<1> HIDE DEF bs, ns
<1>5. /\ FlattenSeq(bs) \in Seq(Command \ Capturers) /\ FlattenSeq(bs) \in Seq(SetupCommands)
      /\ FlattenSeq(ns) \in Seq(Command \ Askers) /\ FlattenSeq(ns) \in Seq(SetupCommands)
  BY <1>2, <1>3, <1>4, Widen
<1>6. FlattenSeq(bs) \o FlattenSeq(ns) \in Seq(SetupCommands)
  BY <1>5, JoinTyped
<1>7. Sorted(FlattenSeq(bs) \o FlattenSeq(ns), Capturing(H))
  BY <1>5, NoCapturers, NoAskers, JoinSorted
<1> QED
  BY <1>1, <1>6, <1>7

LEMMA UnconfiguredOrdered ==
  ASSUME NEW H, NEW f \in Families
  PROVE  /\ setup_unconfigured_family(f) \in Seq(UnconfiguredCommands(f))
         /\ Sorted(setup_unconfigured_family(f), Capturing(H))
<1> DEFINE S == UnconfiguredCommands(f)
           bp == Bypasses(f) \o Passthroughs(f)
<1>1. /\ BypassesOf(f) \subseteq S /\ ProbesOf(f) \cup AsidesOf(f) \subseteq S /\ NetsOf(f) \subseteq S
      /\ S \subseteq Command
      /\ BypassesOf(f) \subseteq Command \ Capturers
      /\ NetsOf(f) \subseteq Command \ Askers
  BY DEF UnconfiguredCommands, BypassesOf, ProbesOf, AsidesOf, NetsOf, Askers, Asking, Capturers
<1> HIDE DEF S
<1>2. /\ Bypasses(f) \in Seq(S) /\ Bypasses(f) \in Seq(Command \ Capturers)
      /\ Passthroughs(f) \in Seq(S) /\ Sorted(Passthroughs(f), Capturing(H))
      /\ Halves(f) \in Seq(S) /\ Halves(f) \in Seq(Command \ Askers)
  BY <1>1, BypassesTyped, PassthroughsOrdered, HalvesTyped, Widen
<1>3. bp \in Seq(S) /\ Sorted(bp, Capturing(H))
  BY <1>2, JoinTyped, NoCapturers, JoinSorted
<1> HIDE DEF bp
<1>4. bp \o Halves(f) \in Seq(S) /\ Sorted(bp \o Halves(f), Capturing(H))
  BY <1>2, <1>3, JoinTyped, NoAskers, JoinSorted
<1>5. setup_unconfigured_family(f) = bp \o Halves(f)
  BY DEF setup_unconfigured_family, bp
<1> QED
  BY <1>4, <1>5 DEF S

-----------------------------------------------------------------------------
(* The whole plan.                                                         *)

\* The commands setup_unconfigured_family issues for any family without an address.
Unconfigured == UNION {UnconfiguredCommands(f) : f \in Families \ TunFamilies}

\* A bypass for a peer's endpoint, a probe of a probe's address, a tunnel route
\* for no address of H.
Harmless(H) ==
  {c \in Command : /\ c.cmd = "bypass" => c.dest \in Bypassed
                   /\ c.cmd = "probe" => c.dest \in Probes
                   /\ c.cmd = "net" => c.dest \notin H}

(* Who asks on behalf of a family, asks for an address of the family.      *)
LEMMA AskersOfFamily ==
  ASSUME NEW f \in Families, NEW c \in UnconfiguredCommands(f), c.cmd \in Asking
  PROVE  c.dest \in Hosts /\ FamilyOf[c.dest] = f
<1>1. c \in BypassesOf(f) \cup ProbesOf(f)
  BY DEF UnconfiguredCommands, NetsOf, AsidesOf, Askers, Asking, Capturers
<1>2. c \in Command /\ c.dest \in Hosts
  BY <1>1, RoutesAssumption DEF BypassesOf, ProbesOf, Command
<1>3. CASE c \in BypassesOf(f)
  BY <1>2, <1>3 DEF BypassesOf
<1>4. CASE c \in ProbesOf(f)
  BY <1>2, <1>4, RoutesAssumption DEF ProbesOf
<1> QED
  BY <1>1, <1>3, <1>4

\* A family's prefixes are never around an address of another.
LEMMA FamiliesApart ==
  ASSUME NEW H, NEW f \in Families, NEW g \in Families, f # g,
         NEW p \in Seq(UnconfiguredCommands(f)), NEW q \in Seq(UnconfiguredCommands(g))
  PROVE  Apart(p, q, Capturing(H))
<1> SUFFICES ASSUME NEW i \in DOMAIN p, NEW j \in DOMAIN q
             PROVE  <<p[i], q[j]>> \notin Capturing(H)
  BY DEF Apart
<1>1. p[i] \in UnconfiguredCommands(f) /\ q[j] \in UnconfiguredCommands(g)
  BY ElementTyped
<1>2. SUFFICES ASSUME p[i].cmd \in {"net", "pass"}, q[j].cmd \in Asking,
                      p[i].dest \in Range(Covering[q[j].dest])
               PROVE  FALSE
  BY DEF Capturing
<1>3. FamilyOf[p[i].dest] = f
  <2>1. p[i] \in NetsOf(f) \cup AsidesOf(f)
    BY <1>1, <1>2 DEF UnconfiguredCommands, BypassesOf, ProbesOf
  <2> QED
    BY <2>1, TableAssumption DEF NetsOf, AsidesOf
<1>4. FamilyOf[q[j].dest] = g /\ q[j].dest \in Hosts
  BY <1>1, <1>2, AskersOfFamily
<1>5. FamilyOf[p[i].dest] = g
  BY <1>2, <1>4, TableAssumption
<1> QED
  BY <1>3, <1>5

(* The families without an address, one after the other.                   *)
LEMMA UnconfiguredInOrder ==
  ASSUME NEW H
  PROVE  LET q == InOrder(Families \ TunFamilies, setup_unconfigured_family)
         IN  q \in Seq(Unconfigured) /\ Sorted(q, Capturing(H))
<1> DEFINE us == [i \in DOMAIN FamilyOrder |->
                    IF FamilyOrder[i] \in Families \ TunFamilies
                    THEN setup_unconfigured_family(FamilyOrder[i]) ELSE <<>>]
<1>1. ASSUME NEW i \in DOMAIN FamilyOrder
      PROVE  /\ us[i] \in Seq(UnconfiguredCommands(FamilyOrder[i]))
             /\ us[i] \in Seq(Unconfigured)
             /\ Sorted(us[i], Capturing(H))
  <2>1. CASE FamilyOrder[i] \in Families \ TunFamilies
    <3>1. UnconfiguredCommands(FamilyOrder[i]) \subseteq Unconfigured
      BY <2>1 DEF Unconfigured
    <3>2. us[i] = setup_unconfigured_family(FamilyOrder[i])
      BY <2>1
    <3> HIDE DEF us
    <3> QED
      BY <2>1, <3>1, <3>2, UnconfiguredOrdered, Widen
  <2>2. CASE FamilyOrder[i] \notin Families \ TunFamilies
    <3>1. us[i] = <<>>
      BY <2>2
    <3>2. \A S : <<>> \in Seq(S)
      OBVIOUS
    <3>3. Sorted(<<>>, Capturing(H))
      BY DEF Sorted
    <3> QED
      BY <3>1, <3>2, <3>3
  <2> QED
    BY <2>1, <2>2
<1>2. us \in [1 .. Len(FamilyOrder) -> Seq(Unconfigured)]
  BY <1>1, FamiliesInOrder
<1>3. ASSUME NEW i \in 1 .. Len(FamilyOrder), NEW j \in 1 .. Len(FamilyOrder), i < j
      PROVE  Apart(us[i], us[j], Capturing(H))
  <2>1. /\ FamilyOrder[i] \in Families /\ FamilyOrder[j] \in Families
        /\ i \in DOMAIN FamilyOrder /\ j \in DOMAIN FamilyOrder
    BY FamiliesInOrder
  <2>2. FamilyOrder[i] # FamilyOrder[j]
    BY <1>3, <2>1, FamiliesInOrder, RoutesAssumption
  <2> HIDE DEF us
  <2> QED
    BY <1>1, <2>1, <2>2, FamiliesApart
<1>4. InOrder(Families \ TunFamilies, setup_unconfigured_family) = FlattenSeq(us)
  BY DEF InOrder
<1> HIDE DEF us
<1>5. FlattenSeq(us) \in Seq(Unconfigured) /\ Sorted(FlattenSeq(us), Capturing(H))
  BY <1>1, <1>2, <1>3, FamiliesInOrder, FlattenFacts
<1> QED
  BY <1>4, <1>5

(* The plan is made of commands.                                           *)
LEMMA PlanTyped == SetupPlan \in Seq(Command)
<1>1. SetupCommands \subseteq Command
  BY DEF SetupCommands, Asked, Nets
<1>2. Unconfigured \subseteq Command
  BY DEF Unconfigured, UnconfiguredCommands, BypassesOf, ProbesOf, NetsOf, AsidesOf
<1>3. /\ setup_routes \in Seq(Command)
      /\ InOrder(Families \ TunFamilies, setup_unconfigured_family) \in Seq(Command)
  BY <1>1, <1>2, SetupRoutesOrdered, UnconfiguredInOrder, Widen
<1> QED
  BY <1>3, JoinTyped DEF SetupPlan

(* No tunnel route of setup_routes covers what is asked for in a family    *)
(* without an address, where the plan can ask first.                       *)
LEMMA ConfiguredApart ==
  ASSUME NEW H, AsksFirst(H), NEW p \in Seq(SetupCommands), NEW q \in Seq(Unconfigured)
  PROVE  Apart(p, q, Capturing(H))
<1> SUFFICES ASSUME NEW i \in DOMAIN p, NEW j \in DOMAIN q
             PROVE  <<p[i], q[j]>> \notin Capturing(H)
  BY DEF Apart
<1>1. p[i] \in SetupCommands /\ q[j] \in Unconfigured
  BY ElementTyped
<1>2. SUFFICES ASSUME p[i].cmd \in {"net", "pass"}, q[j].cmd \in Asking, q[j].dest \in H,
                      p[i].dest \in Range(Covering[q[j].dest])
               PROVE  FALSE
  BY DEF Capturing
<1>3. PICK g \in Families \ TunFamilies : q[j] \in UnconfiguredCommands(g)
  BY <1>1 DEF Unconfigured
<1>4. FamilyOf[q[j].dest] = g /\ q[j].dest \in Hosts
  BY <1>2, <1>3, AskersOfFamily
<1>5. FamilyOf[p[i].dest] = g
  BY <1>2, <1>4, TableAssumption
<1>6. p[i] \in Nets
  BY <1>1, <1>2 DEF SetupCommands, Asked
<1>7. \A k \in DOMAIN AllowedIPs : AllowedIPs[k] # ZeroPrefix[g] /\ AllowedIPs[k] # p[i].dest
  BY <1>2, <1>3, <1>4 DEF AsksFirst
<1>8. CASE \E f \in CatchAll : p[i].dest \in {Lower[f], Upper[f]}
  <2>1. PICK f \in CatchAll : p[i].dest \in {Lower[f], Upper[f]}
    BY <1>8
  <2>2. f = g
    BY <1>5, <2>1, TableAssumption DEF CatchAll
  <2> QED
    BY <1>7, <2>1, <2>2 DEF CatchAll
<1>9. CASE \E k \in DOMAIN AllowedIPs : p[i].dest = AllowedIPs[k]
  BY <1>7, <1>9
<1> QED
  BY <1>6, <1>8, <1>9 DEF Nets

LEMMA EndpointsAreHosts == Bypassed \subseteq Hosts /\ Probes \subseteq Hosts
<1>1. Bypassed \subseteq Hosts
  BY RoutesAssumption, ElementTyped DEF Bypassed
<1>2. Probes \subseteq Hosts
  BY RoutesAssumption DEF Probes
<1> QED
  BY <1>1, <1>2

(* Only the probes' own addresses are probed.                              *)
LEMMA ProbesPlanned == \A i \in DOMAIN SetupPlan : SetupPlan[i].cmd = "probe" => SetupPlan[i].dest \in Probes
<1> DEFINE Good == {c \in Command : c.cmd = "probe" => c.dest \in Probes}
<1>1. SetupCommands \subseteq Good
  BY DEF SetupCommands, Asked, Nets
<1>2. Unconfigured \subseteq Good
  BY DEF Unconfigured, UnconfiguredCommands, BypassesOf, ProbesOf, NetsOf, AsidesOf, Asking, Probes
<1> HIDE DEF Good
<1>3. /\ setup_routes \in Seq(Good)
      /\ InOrder(Families \ TunFamilies, setup_unconfigured_family) \in Seq(Good)
  BY <1>1, <1>2, SetupRoutesOrdered, UnconfiguredInOrder, Widen
<1>4. SetupPlan \in Seq(Good)
  BY <1>3, JoinTyped DEF SetupPlan
<1> QED
  BY <1>4, ElementTyped DEF Good

(* Each address of H is asked for before a route that captures it is added. *)
LEMMA PlanOrdered ==
  ASSUME NEW H, H \subseteq Hosts, AsksFirst(H)
  PROVE  SetupPlan \in Seq(Harmless(H)) /\ Sorted(SetupPlan, Capturing(H))
<1> DEFINE U == InOrder(Families \ TunFamilies, setup_unconfigured_family)
<1>2. SetupCommands \subseteq Harmless(H)
  <2>1. Asked \subseteq Harmless(H)
    BY DEF Asked, Harmless
  <2>2. Nets \subseteq Harmless(H)
    BY TableAssumption DEF Nets, Harmless, AsksFirst, CatchAll
  <2> QED
    BY <2>1, <2>2 DEF SetupCommands
<1>3. Unconfigured \subseteq Harmless(H)
  <2>1. SUFFICES ASSUME NEW f \in Families PROVE UnconfiguredCommands(f) \subseteq Harmless(H)
    BY DEF Unconfigured
  <2>2. BypassesOf(f) \subseteq Harmless(H) /\ ProbesOf(f) \subseteq Harmless(H)
    BY DEF BypassesOf, ProbesOf, Harmless, Probes
  <2>3. AsidesOf(f) \subseteq Harmless(H)
    BY DEF AsidesOf, Harmless
  <2>4. NetsOf(f) \subseteq Harmless(H)
    BY TableAssumption DEF NetsOf, Harmless
  <2> QED
    BY <2>2, <2>3, <2>4 DEF UnconfiguredCommands
<1>4. /\ setup_routes \in Seq(SetupCommands) /\ Sorted(setup_routes, Capturing(H))
      /\ U \in Seq(Unconfigured) /\ Sorted(U, Capturing(H))
  BY SetupRoutesOrdered, UnconfiguredInOrder
<1> HIDE DEF U
<1>5. setup_routes \in Seq(Harmless(H)) /\ U \in Seq(Harmless(H))
  BY <1>2, <1>3, <1>4, Widen
<1>6. Apart(setup_routes, U, Capturing(H))
  BY <1>4, ConfiguredApart
<1>7. setup_routes \o U \in Seq(Harmless(H)) /\ Sorted(setup_routes \o U, Capturing(H))
  BY <1>4, <1>5, <1>6, JoinSorted, JoinTyped
<1> QED
  BY <1>7 DEF SetupPlan, U
=============================================================================
