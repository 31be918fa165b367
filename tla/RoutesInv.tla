----------------------------- MODULE RoutesInv -----------------------------
(***************************************************************************)
(* The inductive invariant of Routes.                                      *)
(***************************************************************************)
EXTENDS Routes

Destinations(s) == {s[i].dest : i \in DOMAIN s}

\* What kind of destination an entry has, and none of them is a route of the
\* user; the user's routes do not lead into the tunnel.
Recorded ==
  /\ \A i \in DOMAIN added :
       /\ added[i].kind = "host" => added[i].dest \in Hosts
       /\ added[i].kind = "pass" => added[i].dest \notin Hosts
  /\ Destinations(added) \cap Foreign = {}
  /\ \A d \in Foreign : table[d].via # Tun

\* Clean-up still has a command for each route left, and for none of the user's.
BeingRemoved ==
  /\ phase \in {"cleanup", "exited"} => Ours \subseteq Destinations(todo) \cup stuck
  /\ phase = "cleanup" => Destinations(todo) \cap Foreign = {}
  /\ phase = "exited" => todo = <<>>

\* A bypass that leads elsewhere than the recheck found is one of an entry it
\* has not come to yet.
Rechecked ==
  /\ phase \in {"setup", "greet"} => next = 1
  /\ phase = "loop" /\ next > 1 => next = Len(added) + 1
  /\ (phase = "recheck" \/ (phase = "loop" /\ next > 1)) =>
       \A i \in HostRoutes :
         LET d == added[i].dest IN
         table[d].ours /\ table[d].via \in Gateways /\ d \notin stuck =>
           \/ table[d].via = current[FamilyOf[d]]
           \/ \E j \in HostRoutes :
                j >= next /\ added[j].dest = d /\ added[j].gateway = table[d].via

Bypassed == {Endpoints[i] : i \in DOMAIN Endpoints}

Probes == {Probe[f] : f \in Families}
Asking == {"bypass", "probe"}

\* Where set-up can ask for the addresses H before it captures them: no AllowedIP
\* is an address of H, and, for one of a family the interface has no address of,
\* none is a prefix around it.  For the other families setup_routes asks first.
AsksFirst(H) ==
  \A h \in H, i \in DOMAIN AllowedIPs :
    /\ AllowedIPs[i] # h
    /\ FamilyOf[h] \notin TunFamilies =>
         AllowedIPs[i] \notin Range(Covering[h]) \cup {ZeroPrefix[FamilyOf[h]]}

\* While an address of H is still to be asked for, no prefix around it leads into
\* the tunnel, and the commands left put none there before it is.
FirstAsked(H) ==
  AsksFirst(H) =>
    /\ \A i \in HostRoutes : added[i].dest \in H
    /\ \A h \in H : table[h].via # Tun
    /\ phase = "setup" => \A i \in DOMAIN todo :
         /\ todo[i].cmd = "bypass" => todo[i].dest \in H
         /\ todo[i].cmd = "net" => todo[i].dest \notin H
         /\ todo[i].cmd \in Asking /\ todo[i].dest \in H =>
              /\ \A d \in Range(Covering[todo[i].dest]) : table[d].via # Tun
              /\ \A j \in 1 .. i - 1 :
                   todo[j].cmd \in {"net", "pass"} => todo[j].dest \notin Range(Covering[todo[i].dest])

\* So it is for the endpoints, and then for the probes too.
BypassesFirst == FirstAsked(Bypassed)
ProbesFirst ==
  /\ FirstAsked(Bypassed \cup Probes)
  /\ phase = "setup" => \A i \in DOMAIN todo : todo[i].cmd = "probe" => todo[i].dest \in Probes
  /\ AsksFirst(Bypassed \cup Probes) => ProbeSeesOriginalDefault

\* The whole of it.
RInv ==
  /\ TypeOK
  /\ Recorded
  /\ NoRouteLeaked
  /\ BeingRemoved
  /\ StoredGatewayIsUsed
  /\ Rechecked
  /\ BypassesFirst
  /\ ProbesFirst
=============================================================================
