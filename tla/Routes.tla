------------------------------- MODULE Routes -------------------------------
(***************************************************************************)
(* The routes of a tunnel, from setup_routes to cleanup_routes, as         *)
(* smartguard/src/route.rs installs, rechecks and removes them and as      *)
(* run_tunnel (smartguard/src/tunnel.rs) calls for it.  Each fork of       *)
(* route(8) that changes the table is a step, so the network may change    *)
(* between any two.                                                        *)
(***************************************************************************)
EXTENDS RouteTable, SequencesExt

CONSTANTS
  FamilyOrder,  \* V4, then V6
  Endpoints,    \* the peers' endpoint addresses, in configuration order
  AllowedIPs,   \* the peers' prefixes, in order
  ZeroPrefix,   \* per family: 0.0.0.0/0, ::/0
  Exemptions,   \* per family: the exempt prefixes, in order
  Probe,        \* per family: the public address install_passthroughs asks for
  TunFamilies,  \* the families the interface has an address of
  BindFamily    \* the family the UDP socket is bound to: it is 0.0.0.0

ASSUME RoutesAssumption ==
  /\ FamilyOrder \in Seq(Families)
  /\ \A i, j \in DOMAIN FamilyOrder : FamilyOrder[i] = FamilyOrder[j] => i = j
  /\ Endpoints \in Seq(Hosts)
  /\ AllowedIPs \in Seq(Dests \cup {ZeroPrefix[f] : f \in Families})
  /\ Exemptions \in [Families -> Seq(Dests \ (Hosts \cup Split))]
  /\ \A f \in Families : \A d \in Range(Exemptions[f]) : FamilyOf[d] = f
  /\ Probe \in [Families -> Hosts] /\ \A f \in Families : FamilyOf[Probe[f]] = f
  /\ TunFamilies \subseteq Families
  /\ BindFamily \in Families

VARIABLES
  phase,        \* setup, greet, loop, recheck, cleanup, exited or killed
  todo,         \* the commands left of the set-up or of the clean-up
  added,        \* CleanupGuard::added_routes
  probed,       \* what install_passthroughs found, per family
  current,      \* recheck_routes' v4_current and v6_current
  next,         \* the entry recheck_routes looks at
  unmended,     \* history: entries the last recheck failed to reinstall
  stuck         \* history: destinations the last delete of which failed

vars == <<tableVars, phase, todo, added, probed, current, next, unmended, stuck>>

-----------------------------------------------------------------------------
(* What is to be done, in order.                                           *)

Command ==
  [cmd : {"bypass", "probe"}, dest : Hosts]
  \cup [cmd : {"pass"}, dest : Dests \ (Hosts \cup Split)]
  \cup [cmd : {"net", "delete"}, dest : Dests]
Each(c, dests) == [i \in DOMAIN dests |-> [cmd |-> c, dest |-> dests[i]]]

\* install_endpoint_bypass: one command per endpoint of the family.
Bypasses(f) ==
  FlattenSeq([i \in DOMAIN Endpoints |->
                IF FamilyOf[Endpoints[i]] = f THEN Each("bypass", <<Endpoints[i]>>) ELSE <<>>])

\* install_passthroughs: nothing to ask for when nothing is exempt.
Passthroughs(f) ==
  IF Exemptions[f] = <<>> THEN <<>>
  ELSE Each("probe", <<Probe[f]>>) \o Each("pass", Exemptions[f])

Halves(f) == Each("net", <<Lower[f], Upper[f]>>)

\* The tunnel routes of one AllowedIP: a catch-all is split in two.
TunRoutes(p) ==
  IF \E f \in Families : p = ZeroPrefix[f]
  THEN Halves(CHOOSE f \in Families : p = ZeroPrefix[f])
  ELSE Each("net", <<p>>)

InOrder(S, Op(_)) ==
  FlattenSeq([i \in DOMAIN FamilyOrder |-> IF FamilyOrder[i] \in S THEN Op(FamilyOrder[i]) ELSE <<>>])

CatchAll == {f \in Families : \E i \in DOMAIN AllowedIPs : AllowedIPs[i] = ZeroPrefix[f]}

\* Mutant: the catch-alls come first.
setup_routes_catchall_first ==
  FlattenSeq([i \in DOMAIN AllowedIPs |-> TunRoutes(AllowedIPs[i])])
  \o InOrder(CatchAll, Bypasses)

setup_routes ==
  InOrder(CatchAll, Bypasses)
  \o FlattenSeq([i \in DOMAIN AllowedIPs |-> TunRoutes(AllowedIPs[i])])

\* Mutant: the blackhole comes before what is exempt from it.
setup_blackhole_first(f) == Bypasses(f) \o Halves(f) \o Passthroughs(f)

setup_unconfigured_family(f) == Bypasses(f) \o Passthroughs(f) \o Halves(f)

SetupPlan == setup_routes \o InOrder(Families \ TunFamilies, setup_unconfigured_family)

-----------------------------------------------------------------------------
(* Set-up.                                                                 *)

AddedRoute == [kind : {"net", "host", "pass"}, dest : Dests, gateway : Gateways \cup {None}]

\* Mutant: a failed add is recorded like a successful one.
InstallUnchecked(kind, d, via, gw) ==
  /\ table' = IF Addable(d) THEN [table EXCEPT ![d] = [via |-> via, ours |-> TRUE]] ELSE table
  /\ added' = Append(added, [kind |-> kind, dest |-> d, gateway |-> gw])

\* Mutant: the route is not recorded.
InstallUnrecorded(kind, d, via, gw) ==
  /\ Addable(d)
  /\ Added(d, via)
  /\ UNCHANGED added

\* route_cmd(add): recorded when it succeeded, and only then.
Install(kind, d, via, gw) ==
  \/ /\ Addable(d)
     /\ Added(d, via)
     /\ added' = Append(added, [kind |-> kind, dest |-> d, gateway |-> gw])
  \/ UNCHANGED <<table, added>>

\* get_route_info names a gateway or just an interface; without either, and
\* without a route at all, nothing is installed.
GatewayOf(v) == IF v \in Gateways THEN v ELSE None
Nowhere == [f \in Families |-> None]

Doing(c) ==
  /\ phase = "setup"
  /\ todo # <<>>
  /\ Head(todo).cmd = c
  /\ todo' = Tail(todo)

AddBypass ==
  /\ Doing("bypass")
  /\ LET h == Head(todo).dest
         v == Lookup(h)
     IN IF v = None THEN UNCHANGED <<table, added>>
        ELSE Install("host", h, v, GatewayOf(v))
  /\ UNCHANGED <<default, phase, probed, current, next, unmended, stuck>>

ProbeDefault ==
  /\ Doing("probe")
  /\ LET h == Head(todo).dest IN probed' = [probed EXCEPT ![FamilyOf[h]] = Lookup(h)]
  /\ UNCHANGED <<tableVars, phase, added, current, next, unmended, stuck>>

AddPassthrough ==
  /\ Doing("pass")
  /\ LET d == Head(todo).dest
         v == probed[FamilyOf[d]]
     IN IF v = None THEN UNCHANGED <<table, added>> ELSE Install("pass", d, v, None)
  /\ UNCHANGED <<default, phase, probed, current, next, unmended, stuck>>

AddNet ==
  /\ Doing("net")
  /\ Install("net", Head(todo).dest, Tun, None)
  /\ UNCHANGED <<default, phase, probed, current, next, unmended, stuck>>

\* DNS and the first handshakes, whose send errors are only logged.  What
\* install_passthroughs found is gone with it.
SetupDone ==
  /\ phase = "setup"
  /\ todo = <<>>
  /\ phase' = "greet"
  /\ probed' = Nowhere
  /\ UNCHANGED <<tableVars, todo, added, current, next, unmended, stuck>>

\* The signal handlers are registered; the event loop begins.
LoopBegins ==
  /\ phase = "greet"
  /\ phase' = "loop"
  /\ UNCHANGED <<tableVars, todo, added, probed, current, next, unmended, stuck>>

-----------------------------------------------------------------------------
(* The event loop, as far as it touches routes.                            *)

\* Mutant: an interface-attached default counts as a gateway.
StartRecheckTakesInterface ==
  /\ phase' = "recheck"
  /\ current' = default
  /\ next' = 1
  /\ unmended' = {}
  /\ UNCHANGED <<tableVars, todo, added, probed, stuck>>

\* recheck_routes begins by asking for both default gateways: an interface-
\* attached default has none, and an answer that fails reads the same.
StartRecheck ==
  /\ phase' = "recheck"
  /\ \E unanswered \in SUBSET Families :
       current' = [f \in Families |-> IF f \in unanswered THEN None ELSE GatewayOf(default[f])]
  /\ next' = 1
  /\ unmended' = {}
  /\ UNCHANGED <<tableVars, todo, added, probed, stuck>>

HostRoutes == {i \in DOMAIN added : added[i].kind = "host"}

\* host_route_idx: the first Host entry, fixed when the loop begins.  Entries
\* are neither added, removed nor moved after that.
FirstHost == CHOOSE i \in HostRoutes : \A j \in HostRoutes : i <= j

\* A tick rechecks when the first bypass has no gateway.
Tick ==
  /\ phase = "loop"
  /\ HostRoutes # {}
  /\ added[FirstHost].gateway = None
  /\ StartRecheck

\* A datagram of the data path, or a handshake reply, fails to be sent, for
\* whatever reason and wherever it was to go.
SendErr ==
  /\ phase = "loop"
  /\ StartRecheck

\* Endpoint h cannot be reached: there is no route, or its gateway is not that
\* of the network we are on, or the socket is not of its family.
SendFails(h) ==
  /\ \/ FamilyOf[h] # BindFamily
     \/ Lookup(h) = None
     \/ Lookup(h) \in Gateways /\ Lookup(h) # default[FamilyOf[h]]
  /\ SendErr

\* `route delete` of d, whose failure is ignored: the route may stay.
Delete(d) ==
  \/ table' = [table EXCEPT ![d] = Absent] /\ stuck' = stuck \ {d}
  \/ table[d] # Absent /\ UNCHANGED table /\ stuck' = stuck \cup {d}

\* Mutant: the old route is not deleted, so the new one is refused.
RecheckEntryKeepsRoute ==
  /\ phase = "recheck"
  /\ next \in DOMAIN added
  /\ next' = next + 1
  /\ LET r == added[next]
         gw == current[FamilyOf[r.dest]]
     IN \/ (r.kind # "host" \/ r.gateway = gw) /\ UNCHANGED <<added, unmended>>
        \/ /\ r.kind = "host" /\ r.gateway # gw
           /\ IF gw = None THEN added' = [added EXCEPT ![next].gateway = gw] /\ UNCHANGED unmended
              ELSE unmended' = unmended \cup {next} /\ UNCHANGED added
  /\ UNCHANGED <<tableVars, phase, todo, probed, current, stuck>>

\* Mutant: the new route is added, the record kept.
RecheckEntryKeepsRecord ==
  /\ phase = "recheck"
  /\ next \in DOMAIN added
  /\ next' = next + 1
  /\ LET r == added[next]
         gw == current[FamilyOf[r.dest]]
     IN IF r.kind # "host" \/ r.gateway = gw \/ gw = None
        THEN UNCHANGED table
        ELSE table' = [table EXCEPT ![r.dest] = [via |-> gw, ours |-> TRUE]]
  /\ UNCHANGED <<default, phase, todo, added, probed, current, unmended, stuck>>

\* One entry of recheck_routes.  The old bypass is deleted first, whatever
\* comes next; with no gateway the tear-down itself counts as the update, even
\* if it failed; the add fails where the old bypass is still there.  The delete
\* and the add are one step: a network change between the two finds nothing of
\* this entry to drop, and `current` is fixed by then.
RecheckEntry ==
  /\ phase = "recheck"
  /\ next \in DOMAIN added
  /\ next' = next + 1
  /\ LET r == added[next]
         gw == current[FamilyOf[r.dest]]
         updated == [added EXCEPT ![next].gateway = gw]
     IN IF r.kind # "host" \/ r.gateway = gw
        THEN UNCHANGED <<table, added, unmended, stuck>>
        ELSE \/ gw = None /\ Delete(r.dest) /\ added' = updated /\ UNCHANGED unmended
             \/ /\ gw # None
                /\ table' = [table EXCEPT ![r.dest] = [via |-> gw, ours |-> TRUE]]
                /\ stuck' = stuck \ {r.dest}
                /\ added' = updated
                /\ UNCHANGED unmended
             \/ /\ gw # None
                /\ Delete(r.dest)
                /\ unmended' = unmended \cup {next}
                /\ UNCHANGED added
  /\ UNCHANGED <<default, phase, todo, probed, current>>

RecheckDone ==
  /\ phase = "recheck"
  /\ next \notin DOMAIN added
  /\ phase' = "loop"
  /\ UNCHANGED <<tableVars, todo, added, probed, current, next, unmended, stuck>>

-----------------------------------------------------------------------------
(* The end.                                                                *)

\* What recheck_routes held is gone with the loop.
ForgetRecheck ==
  /\ current' = Nowhere
  /\ next' = 1
  /\ unmended' = {}

\* Mutant: pass-throughs are not cleaned up.
LoopEndsKeepsPassthroughs ==
  /\ phase \in {"greet", "loop"}
  /\ phase' = "cleanup"
  /\ LET removed == SelectSeq(added, LAMBDA r : r.kind # "pass")
     IN todo' = [i \in DOMAIN removed |-> [cmd |-> "delete", dest |-> removed[i].dest]]
  /\ ForgetRecheck
  /\ UNCHANGED <<tableVars, added, probed, stuck>>

\* A signal handler cannot be registered, or the loop ends, by a signal or by
\* an error of the tun device or the socket: the CleanupGuard is dropped.
LoopEnds ==
  /\ phase \in {"greet", "loop"}
  /\ phase' = "cleanup"
  /\ todo' = [i \in DOMAIN added |-> [cmd |-> "delete", dest |-> added[i].dest]]
  /\ ForgetRecheck
  /\ UNCHANGED <<tableVars, added, probed, stuck>>

\* Mutant: bypasses are thought to go with the interface.
DeleteNetsOnly ==
  /\ phase = "cleanup"
  /\ todo # <<>>
  /\ todo' = Tail(todo)
  /\ table' = IF Head(todo).dest \in Hosts THEN table
              ELSE [table EXCEPT ![Head(todo).dest] = Absent]
  /\ UNCHANGED <<default, phase, added, probed, current, next, unmended, stuck>>

\* cleanup_routes: failures are ignored.
DeleteRoute ==
  /\ phase = "cleanup"
  /\ todo # <<>>
  /\ todo' = Tail(todo)
  /\ Delete(Head(todo).dest)
  /\ UNCHANGED <<default, phase, added, probed, current, next, unmended>>

\* The tun device closes with the process, and its routes go with it.
TunClosed == [d \in Dests |-> IF table[d].via = Tun THEN Absent ELSE table[d]]

Exit ==
  /\ phase = "cleanup"
  /\ todo = <<>>
  /\ phase' = "exited"
  /\ table' = TunClosed
  /\ UNCHANGED <<default, todo, added, probed, current, next, unmended, stuck>>

\* A signal without a handler kills the process: SIGINT and SIGTERM before they
\* have theirs, SIGHUP and SIGKILL at any time.  Its memory is gone.
SignalKills ==
  /\ phase \notin {"exited", "killed"}
  /\ phase' = "killed"
  /\ table' = TunClosed
  /\ todo' = <<>>
  /\ added' = <<>>
  /\ probed' = Nowhere
  /\ ForgetRecheck
  /\ stuck' = {}
  /\ UNCHANGED default

Init ==
  /\ TableInit
  /\ phase = "setup"
  /\ todo = SetupPlan
  /\ added = <<>>
  /\ probed = Nowhere
  /\ current = Nowhere
  /\ next = 1
  /\ unmended = {}
  /\ stuck = {}

Step ==
  \/ AddBypass \/ ProbeDefault \/ AddPassthrough \/ AddNet \/ SetupDone \/ LoopBegins
  \/ Tick \/ RecheckEntry \/ RecheckDone \/ DeleteRoute \/ Exit

Next ==
  \/ Step
  \/ SendErr \/ LoopEnds \/ SignalKills
  \/ NetworkChanges /\ UNCHANGED <<phase, todo, added, probed, current, next, unmended, stuck>>

Spec == Init /\ [][Next]_vars

\* The commands return and the loop is driven; an endpoint that keeps being out
\* of reach is sent to in the end.  Neither signals nor network changes are owed.
Fairness ==
  /\ WF_vars(Step)
  /\ \A i \in DOMAIN Endpoints : SF_vars(SendFails(Endpoints[i]))

FairSpec == Spec /\ Fairness

-----------------------------------------------------------------------------
(* Properties.                                                             *)

\* Every variable keeps its type.
TypeOK ==
  /\ TableTypeOK
  /\ phase \in {"setup", "greet", "loop", "recheck", "cleanup", "exited", "killed"}
  /\ todo \in Seq(Command)
  /\ added \in Seq(AddedRoute)
  /\ probed \in [Families -> Via \cup {None}]
  /\ current \in [Families -> Gateways \cup {None}]
  /\ next \in 1 .. Len(added) + 1
  /\ unmended \subseteq DOMAIN added
  /\ stuck \subseteq Dests

\* As long as the process can clean up, each route of ours is in added_routes,
\* the list the CleanupGuard works from.
NoRouteLeaked == phase # "killed" => Ours \subseteq {added[i].dest : i \in DOMAIN added}

\* A route of the user is never deleted or replaced, though clean-up and recheck
\* delete by destination alone.
UserRoutesKept == [][\A d \in Foreign : table'[d] = table[d]]_vars

\* After a clean exit none of our routes is left but those the kernel would not
\* delete, whatever the recheck tore down, reinstalled or failed to reinstall.
CleanExit == phase = "exited" => Ours \subseteq stuck

\* The gateway a bypass goes through is stored with it, or with another entry of
\* the same endpoint, unless the bypass is one the kernel would not delete:
\* recheck_routes compares against what is stored.
StoredGatewayIsUsed ==
  \A i \in HostRoutes :
    LET d == added[i].dest IN
    table[d].ours /\ table[d].via \in Gateways /\ d \notin stuck =>
      \E j \in HostRoutes : added[j].dest = d /\ added[j].gateway = table[d].via

\* Once a recheck is over, the table leads no endpoint through another gateway
\* than the one recheck_routes found for its family, whatever it skipped, tore
\* down or failed to reinstall: none it was able to delete is stale.
RecheckLeavesNoneStale ==
  phase = "loop" /\ next > 1 =>
    \A i \in HostRoutes :
      LET d == added[i].dest IN
      table[d].ours /\ table[d].via \in Gateways /\ d \notin stuck =>
        table[d].via = current[FamilyOf[d]]

\* Endpoints are asked for before a catch-all captures them: no bypass points
\* into the tunnel it is to bypass.
BypassAvoidsTun == \A i \in HostRoutes : table[added[i].dest].via # Tun

\* route.rs: "failed to install new bypass for {ip}; will retry".
FailedBypassRetried ==
  (phase = "loop" /\ unmended # {}) ~> (phase # "loop")

\* route.rs: the probe returns the original default route, "since at this point
\* we haven't touched the routing table for `family` yet".
ProbeSeesOriginalDefault == \A f \in Families : probed[f] # Tun
=============================================================================
