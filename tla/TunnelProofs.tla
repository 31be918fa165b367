---------------------------- MODULE TunnelProofs ----------------------------
(***************************************************************************)
(* Theorems about Tunnel for every configuration, every address plan and   *)
(* every behaviour of the card that DhOracle admits.                       *)
(***************************************************************************)
EXTENDS TunnelInv, RoutesProofs

USE DEF tunnelVars, lifeVars, oracleVars, tableVars

-----------------------------------------------------------------------------
(* The steps as steps of Routes.                                           *)

(* What a step of the life cycle is for the routing table, stage by stage.  *)
LEMMA RouteSteps == TunnelNext \/ UNCHANGED tunnelVars => [Next]_vars
<1> SUFFICES ASSUME TunnelNext \/ UNCHANGED tunnelVars PROVE [Next]_vars
  OBVIOUS
<1>1. CASE Starting
  BY <1>1 DEF Starting, ReadConfig, ObtainPin, OpenCard, ShowPubKey, Primed, BindSocket, CreateDevice,
              Setting, SetupRoute, ApplyDns, Registered, Next, Step
<1>2. CASE Looping
  BY <1>2 DEF Looping, Chosen, TurnDone, Recheck, Served, Signalled, SendFailed, Next, Step
<1>3. CASE Calling
  BY <1>3 DEF Calling, AskPubKey, AskPrime, AskDh, Ask, CardAnswers, PubKeyPanics
<1>4. CASE Ending
  BY <1>4 DEF Ending, Fails, CleanupDns, CleanupRoute, CloseDevice, DropSessions, Setting, Next, Step
<1>5. CASE SignalArrives \/ Killed
  BY <1>5 DEF SignalArrives, Killed, Next
<1>6. CASE NetworkMoves
  BY <1>6 DEF NetworkMoves, Next
<1>7. CASE UNCHANGED tunnelVars
  BY <1>7
<1> QED
  BY <1>1, <1>2, <1>3, <1>4, <1>5, <1>6, <1>7 DEF TunnelNext

-----------------------------------------------------------------------------
(* The invariant, conjunct by conjunct.                                    *)

(* A call takes one off what is left.                                      *)
LEMMA AskTyped ==
  ASSUME LifeTypeOK, NEW op, NEW pk, Ask(op, pk)
  PROVE  left' \in Nat /\ left' < left /\ UNCHANGED <<stage, branch, resolver, applied, signal>>
BY DEF Ask, LifeTypeOK

(* What a branch may call is a number.                                     *)
LEMMA CallsTyped ==
  ASSUME NEW b \in {"turn", "keepalive", "datagram", "packet"}
  PROVE  CallsOf(b) \in Nat
<1>1. Len(PeerKeys) \in Nat
  BY TunnelAssumption
<1> QED
  BY <1>1 DEF CallsOf

LEMMA LifeTypeStep == LifeTypeOK /\ [TunnelNext]_tunnelVars => LifeTypeOK'
<1> SUFFICES ASSUME LifeTypeOK, [TunnelNext]_tunnelVars PROVE LifeTypeOK'
  OBVIOUS
<1>l. Len(PeerKeys) \in Nat
  BY TunnelAssumption
<1>1. CASE Starting
  <2>1. CASE ReadConfig \/ ObtainPin \/ ShowPubKey \/ Primed \/ BindSocket \/ CreateDevice
    BY <2>1, <1>l DEF LifeTypeOK, ReadConfig, KeySources, ObtainPin, ShowPubKey, Primed, BindSocket, CreateDevice,
                      Enters, Setting
  <2>2. CASE OpenCard
    BY <2>2 DEF LifeTypeOK, OpenCard, Enters, Setting
  <2>3. CASE SetupRoute \/ Registered
    BY <2>3 DEF LifeTypeOK, SetupRoute, Registered
  <2>4. CASE ApplyDns
    BY <2>4, <1>l DEF LifeTypeOK, ApplyDns, apply_dns, set_resolver
  <2> QED
    BY <1>1, <2>1, <2>2, <2>3, <2>4 DEF Starting
<1>2. CASE Looping
  <2>1. CASE \E b \in {"turn", "datagram", "packet"} : Chosen(b)
    BY <2>1, CallsTyped DEF Chosen, LifeTypeOK
  <2>2. CASE TurnDone
    BY <2>2, CallsTyped DEF TurnDone, LifeTypeOK
  <2>3. CASE Recheck \/ Served \/ Signalled \/ SendFailed
    BY <2>3 DEF Recheck, Served, Signalled, SendFailed, Leaves, LifeTypeOK
  <2> QED
    BY <1>2, <2>1, <2>2, <2>3 DEF Looping
<1>3. CASE Calling
  <2>1. CASE AskPubKey \/ AskPrime \/ \E pk \in Peers : AskDh(pk)
    BY <2>1, AskTyped DEF AskPubKey, AskPrime, AskDh, LifeTypeOK
  <2>2. CASE CardAnswers \/ PubKeyPanics
    BY <2>2 DEF CardAnswers, PubKeyPanics, LifeTypeOK
  <2> QED
    BY <1>3, <2>1, <2>2 DEF Calling
<1>4. CASE Ending
  <2>1. CASE Fails \/ CleanupRoute
    BY <2>1 DEF LifeTypeOK, Fails, CleanupRoute, Leaves
  <2>2. CASE CleanupDns
    BY <2>2 DEF LifeTypeOK, CleanupDns
  <2>3. CASE CloseDevice \/ DropSessions
    BY <2>3 DEF LifeTypeOK, CloseDevice, DropSessions, Setting, Enters
  <2> QED
    BY <1>4, <2>1, <2>2, <2>3 DEF Ending
<1>5. CASE SignalArrives
  BY <1>5 DEF SignalArrives, LifeTypeOK
<1>6. CASE Killed
  BY <1>6 DEF Killed, Enters, LifeTypeOK
<1>7. CASE NetworkMoves \/ UNCHANGED tunnelVars
  BY <1>7 DEF NetworkMoves, LifeTypeOK
<1> QED
  BY <1>1, <1>2, <1>3, <1>4, <1>5, <1>6, <1>7 DEF TunnelNext

LEMMA StageStep == TInv /\ [TunnelNext]_tunnelVars => StageKnown'
<1> SUFFICES ASSUME TInv, [TunnelNext]_tunnelVars PROVE StageKnown'
  OBVIOUS
<1> USE DEF StageKnown, Unguarded
<1>k. StageKnown /\ LifeTypeOK
  BY DEF TInv
<1>1. CASE ReadConfig \/ ObtainPin \/ ShowPubKey \/ Primed \/ BindSocket \/ CreateDevice
  BY <1>1, <1>k DEF ReadConfig, ObtainPin, ShowPubKey, Primed, BindSocket, CreateDevice, Setting, At,
                    Enters, vars
<1>2. CASE OpenCard
  BY <1>2, <1>k DEF OpenCard, Setting, At, Enters, vars
<1>3. CASE SetupRoute
  <2>1. phase = "setup" /\ phase' = phase
    BY <1>3, SetupEffect DEF SetupRoute, TInv, RInv
  <2> QED
    BY <1>3, <2>1 DEF SetupRoute
<1>4. CASE ApplyDns \/ Registered
  BY <1>4 DEF ApplyDns, SetupDone, Registered, LoopBegins, At
<1>5. CASE Looping
  BY <1>5, <1>k DEF Looping, Chosen, TurnDone, Recheck, Served, Signalled, SendFailed, Polling, Serving, At,
              Tick, StartRecheck, RecheckEntry, RecheckDone, SendErr, LoopEnds, vars
<1>6. CASE Calling
  <2>1. CASE PubKeyPanics
    BY <2>1, <1>k DEF PubKeyPanics, TInv, CallKnown, Dh!Idle, Dh!Close, vars
  <2>2. CASE UNCHANGED <<vars, stage>>
    BY <2>2, <1>k DEF vars
  <2> QED
    BY <1>6, <2>1, <2>2 DEF Calling, AskPubKey, AskPrime, AskDh, Ask, CardAnswers
<1>7. CASE Ending
  BY <1>7, <1>k DEF Ending, Fails, CleanupDns, CleanupRoute, CloseDevice, DropSessions, Setting, Enters,
              LoopEnds, DeleteRoute, Exit, vars
<1>8. CASE SignalArrives \/ Killed \/ NetworkMoves \/ UNCHANGED tunnelVars
  BY <1>8, <1>k DEF SignalArrives, Killed, SignalKills, NetworkMoves, Enters, vars
<1> QED
  BY <1>1, <1>2, <1>3, <1>4, <1>5, <1>6, <1>7, <1>8 DEF TunnelNext, Starting

LEMMA AppliedStep == TInv /\ [TunnelNext]_tunnelVars => AppliedKnown'
<1> SUFFICES ASSUME TInv, [TunnelNext]_tunnelVars PROVE AppliedKnown'
  OBVIOUS
<1> USE DEF AppliedKnown
<1>k. AppliedKnown
  BY DEF TInv
<1>1. CASE ReadConfig \/ ObtainPin \/ OpenCard \/ ShowPubKey \/ Primed \/ BindSocket \/ CreateDevice
  BY <1>1, <1>k DEF ReadConfig, ObtainPin, OpenCard, ShowPubKey, Primed, BindSocket, CreateDevice, Setting, vars
<1>2. CASE SetupRoute
  <2>1. phase = "setup" /\ phase' = phase
    BY <1>2, SetupEffect DEF SetupRoute, TInv, RInv
  <2> QED
    BY <1>2, <1>k, <2>1 DEF SetupRoute
<1>3. CASE ApplyDns \/ Registered
  BY <1>3, <1>k DEF ApplyDns, SetupDone, apply_dns, set_resolver, Registered, LoopBegins
<1>4. CASE Looping
  BY <1>4, <1>k DEF Looping, Chosen, TurnDone, Recheck, Served, Signalled, SendFailed,
              Tick, StartRecheck, RecheckEntry, RecheckDone, SendErr, LoopEnds, vars
<1>5. CASE Calling
  <2>1. UNCHANGED <<vars, resolver, applied>>
    BY <1>5 DEF Calling, AskPubKey, AskPrime, AskDh, Ask, CardAnswers, PubKeyPanics
  <2> QED
    BY <1>k, <2>1 DEF vars
<1>6. CASE Ending
  BY <1>6, <1>k DEF Ending, Fails, CleanupDns, CleanupRoute, CloseDevice, DropSessions, Setting,
              LoopEnds, DeleteRoute, Exit, vars
<1>7. CASE SignalArrives \/ Killed \/ NetworkMoves \/ UNCHANGED tunnelVars
  BY <1>7, <1>k DEF SignalArrives, Killed, SignalKills, NetworkMoves, vars
<1> QED
  BY <1>1, <1>2, <1>3, <1>4, <1>5, <1>6, <1>7 DEF TunnelNext, Starting

(* Whatever the network, the set-up and a recheck do, a prefix that leads   *)
(* into the tunnel still does after the step.                               *)
LEMMA NetsKept ==
  ASSUME RInv, NetsLeadIn,
         \/ AddBypass \/ ProbeDefault \/ AddPassthrough \/ AddNet
         \/ RecheckEntry
         \/ NetworkChanges /\ UNCHANGED added
         \/ UNCHANGED <<table, added>>
  PROVE  NetsLeadIn'
<1>t. /\ table \in [Dests -> Route \cup {Absent}]
      /\ added \in Seq(AddedRoute) /\ Len(added) \in Nat /\ DOMAIN added = 1 .. Len(added)
      /\ \A i \in DOMAIN added : added[i].dest \in Dests
      /\ default \in [Families -> Gateways \cup {Link, None}]
  <2>1. added \in Seq(AddedRoute) /\ TableTypeOK
    BY DEF RInv, TypeOK
  <2>2. \A i \in DOMAIN added : added[i] \in AddedRoute
    BY <2>1
  <2> QED
    BY <2>1, <2>2 DEF TableTypeOK, AddedRoute
<1>1. CASE AddBypass \/ ProbeDefault \/ AddPassthrough \/ AddNet
  <2>1. ASSUME NEW kind, NEW d \in Dests, NEW v, NEW gw, Grown(kind, d, v, gw), kind = "net" => v = Tun
        PROVE  NetsLeadIn'
    <3>1. SUFFICES ASSUME NEW i \in DOMAIN added', added'[i].kind = "net", added'[i].dest \notin Hosts
                   PROVE  table'[added'[i].dest].via = Tun
      BY DEF NetsLeadIn
    <3>2. CASE i \in DOMAIN added
      <4>1. added'[i] = added[i] /\ table[added[i].dest].via = Tun
        BY <2>1, <3>1, <3>2 DEF Grown, NetsLeadIn
      <4>2. added[i].dest # d
        BY <2>1, <4>1, TableAssumption DEF Grown, Absent
      <4> QED
        BY <2>1, <1>t, <3>2, <4>1, <4>2 DEF Grown
    <3>3. CASE i \notin DOMAIN added
      <4>1. i = Len(added) + 1
        BY <2>1, <1>t, <3>1, <3>3 DEF Grown
      <4> QED
        BY <2>1, <1>t, <3>1, <4>1 DEF Grown
    <3> QED
      BY <3>2, <3>3
  <2>2. CASE UNCHANGED <<table, added>>
    BY <2>2 DEF NetsLeadIn
  <2>3. Hosts \subseteq Dests
    BY TableAssumption
  <2>4. CASE \E d \in Hosts, v \in Via : Grown("host", d, v, GatewayOf(v))
    BY <2>1, <2>3, <2>4
  <2>5. CASE \E d \in Dests \ Hosts, v \in Via : Grown("pass", d, v, None)
    BY <2>1, <2>5
  <2>6. CASE \E d \in Dests : Grown("net", d, Tun, None)
    BY <2>1, <2>6
  <2> QED
    BY <1>1, <2>2, <2>4, <2>5, <2>6, SetupEffect DEF RInv
<1>2. CASE RecheckEntry
  <2>1. CASE added[next].kind # "host"
    BY <1>2, <2>1 DEF RecheckEntry, NetsLeadIn
  <2>2. CASE added[next].kind = "host"
    <3>1. next \in DOMAIN added /\ added[next].dest \in Hosts
      BY <1>2, <2>2, RecheckFacts DEF RInv, Recorded
    <3>2. \A x \in Dests \ Hosts : table'[x] = table[x]
      BY <1>2, <1>t, <3>1, RecheckFacts DEF RInv
    <3>3. DOMAIN added' = DOMAIN added
          /\ \A i \in DOMAIN added : added'[i].kind = added[i].kind /\ added'[i].dest = added[i].dest
      <4>1. \A i \in DOMAIN added : added[i] \in AddedRoute
        BY <1>t
      <4>2. \/ added' = added
            \/ added' = [added EXCEPT ![next].gateway = current[FamilyOf[added[next].dest]]]
        <5>1. TypeOK
          BY DEF RInv
        <5> QED
          BY <1>2, <5>1, RecheckFacts
      <4> QED
        BY <1>t, <3>1, <4>1, <4>2 DEF AddedRoute
    <3> QED
      BY <1>t, <3>2, <3>3 DEF NetsLeadIn
  <2> QED
    BY <2>1, <2>2
<1>3. CASE NetworkChanges /\ UNCHANGED added
  <2>0. PICK f \in Families : \E v \in Networks[f] \ {default[f]} :
          /\ default' = [default EXCEPT ![f] = v]
          /\ \E lost \in SUBSET {d \in Ours : KernelDrops /\ FamilyOf[d] = f /\ table[d].via = default[f]} :
               table' = [d \in Dests |-> IF d \in lost THEN Absent ELSE table[d]]
    BY <1>3 DEF NetworkChanges
  <2>1. PICK lost \in SUBSET {d \in Ours : KernelDrops /\ FamilyOf[d] = f /\ table[d].via = default[f]} :
          table' = [d \in Dests |-> IF d \in lost THEN Absent ELSE table[d]]
    BY <2>0
  <2>2. default[f] # Tun
    BY <1>t, TableAssumption
  <2>3. \A d \in Dests : table[d].via = Tun => table'[d] = table[d]
    BY <2>1, <2>2
  <2> QED
    BY <1>3, <1>t, <2>3 DEF NetsLeadIn
<1>4. CASE UNCHANGED <<table, added>>
  BY <1>4 DEF NetsLeadIn
<1> QED
  BY <1>1, <1>2, <1>3, <1>4

LEMMA NetsStep == TInv /\ [TunnelNext]_tunnelVars => NetsInPlace'
<1> SUFFICES ASSUME TInv, [TunnelNext]_tunnelVars, stage' = "guarded", phase' # "cleanup" \/ applied'
             PROVE  NetsLeadIn'
  BY DEF NetsInPlace
<1>k. /\ stage = "guarded" /\ (phase # "cleanup" \/ applied) => NetsLeadIn
      /\ RInv
  BY DEF TInv, NetsInPlace
<1>1. CASE ReadConfig \/ ObtainPin \/ OpenCard \/ ShowPubKey \/ Primed \/ BindSocket \/ DropSessions
  BY <1>1 DEF ReadConfig, KeySources, ObtainPin, OpenCard, ShowPubKey, Primed, BindSocket, DropSessions, Enters
<1>2. CASE CreateDevice
  <2>1. added' = <<>>
    BY <1>2 DEF CreateDevice, Setting, At, vars, TInv, StageKnown, Unguarded
  <2> QED
    BY <2>1 DEF NetsLeadIn
<1>3. CASE SetupRoute
  <2>1. phase = "setup" /\ stage = "guarded"
    BY <1>3, <1>k, SetupEffect DEF SetupRoute, RInv
  <2> QED
    BY <1>3, <1>k, <2>1, NetsKept DEF SetupRoute
<1>4. CASE Recheck
  <2>1. /\ phase = "recheck" /\ stage = "guarded"
        /\ RecheckEntry \/ UNCHANGED <<table, added>>
    BY <1>4 DEF Recheck, RecheckEntry, RecheckDone
  <2> QED
    BY <1>k, <2>1, NetsKept
<1>5. CASE \/ ApplyDns \/ Registered \/ TurnDone \/ Served \/ Signalled \/ Fails
           \/ \E b \in {"turn", "datagram", "packet"} : Chosen(b)
           \/ SendFailed
  <2>1. phase # "cleanup" /\ stage = "guarded" /\ UNCHANGED <<table, added>>
    BY <1>5 DEF ApplyDns, SetupDone, Registered, LoopBegins, TurnDone, Tick, StartRecheck, Served, Signalled,
                Fails, LoopEnds, Chosen, SendFailed, SendErr, Polling, Serving, At, vars
  <2> QED
    BY <1>k, <2>1, NetsKept
<1>6. CASE CleanupDns \/ CleanupRoute \/ CloseDevice \/ Killed
  BY <1>6 DEF CleanupDns, CleanupRoute, DeleteRoute, CloseDevice, Killed, Enters, vars
<1>7. CASE Calling \/ SignalArrives \/ UNCHANGED tunnelVars
  <2>1. stage = "guarded" /\ UNCHANGED <<table, added, phase, applied>>
    BY <1>7 DEF Calling, AskPubKey, AskPrime, AskDh, Ask, CardAnswers, PubKeyPanics, SignalArrives, vars
  <2> QED
    BY <1>k, <2>1, NetsKept
<1>8. CASE NetworkMoves
  BY <1>8, <1>k, NetsKept DEF NetworkMoves
<1> QED
  BY <1>1, <1>2, <1>3, <1>4, <1>5, <1>6, <1>7, <1>8 DEF TunnelNext, Starting, Looping, Ending

(* Each call is asked in its stage and answered there.                     *)
LEMMA CallStep == TInv /\ [TunnelNext]_tunnelVars => CallKnown'
<1> SUFFICES ASSUME TInv, [TunnelNext]_tunnelVars PROVE CallKnown'
  OBVIOUS
<1>k. CallKnown /\ LifeTypeOK /\ Len(PeerKeys) \in Nat
  BY TunnelAssumption DEF TInv
<1> USE DEF CallKnown
<1>1. CASE ReadConfig \/ ObtainPin \/ ShowPubKey \/ Primed \/ BindSocket \/ CreateDevice
  BY <1>1, <1>k DEF ReadConfig, ObtainPin, ShowPubKey, Primed, BindSocket, CreateDevice, At, Resting, Enters
<1>2. CASE OpenCard
  BY <1>2, <1>k DEF OpenCard, At, Resting, Enters, Dh!Begin, Dh!GiveUp, Dh!Bind
<1>3. CASE SetupRoute \/ ApplyDns
  <2>1. /\ phase = "setup" /\ stage = "guarded" /\ stage' = stage
        /\ UNCHANGED oracleVars
    BY <1>3, SetupEffect DEF SetupRoute, ApplyDns, SetupDone, TInv, RInv
  <2> QED
    BY <1>k, <2>1
<1>4. CASE Registered \/ TurnDone \/ Served \/ Signalled \/ \E b \in {"turn", "datagram", "packet"} : Chosen(b)
  BY <1>4, <1>k DEF Registered, TurnDone, Served, Signalled, Chosen, Polling, Serving, At, Resting
<1>5. CASE Recheck
  BY <1>5, <1>k DEF Recheck, RecheckEntry, RecheckDone
<1>6. CASE SendFailed
  BY <1>6, <1>k DEF SendFailed, Serving, At, Resting
<1>7. ASSUME NEW op \in {"pubkey", "prime", "dh"}, NEW pk, Ask(op, pk),
             op = "pubkey" => stage \in {"pubkey", "build"},
             stage \in {"pubkey", "prime", "build"} \/
               (stage = "guarded" /\ (phase = "greet" \/ (phase = "loop" /\ branch # "none")))
      PROVE  CallKnown'
  <2>1. /\ oracle' = "open" /\ UNCHANGED <<stage, phase, branch>> /\ left' = left - 1
        /\ call' = [op |-> op, pk |-> pk] \/ call' = Dh!Idle
    BY <1>7 DEF Ask, Dh!Invoke, Dh!Immediate, vars
  <2> QED
    BY <1>7, <1>k, <2>1 DEF LifeTypeOK
<1>8. CASE CardAnswers \/ PubKeyPanics
  BY <1>8, <1>k DEF CardAnswers, PubKeyPanics, Dh!Answer, Dh!Close
<1>9. CASE Fails
  BY <1>9, <1>k DEF Fails, Polling, Serving, At, Resting
<1>10. CASE CleanupDns \/ CleanupRoute \/ CloseDevice
  BY <1>10, <1>k DEF CleanupDns, CleanupRoute, DeleteRoute, CloseDevice, Exit, Enters
<1>11. CASE DropSessions
  BY <1>11, <1>k DEF DropSessions, Dh!Close, Enters
<1>12. CASE Killed
  BY <1>12, <1>k DEF Killed, SignalKills, Enters, TInv, StageKnown
<1>13. CASE SignalArrives \/ NetworkMoves \/ UNCHANGED tunnelVars
  BY <1>13, <1>k DEF SignalArrives, NetworkMoves, vars
<1> QED
  BY <1>1, <1>2, <1>3, <1>4, <1>5, <1>6, <1>7, <1>8, <1>9, <1>10, <1>11, <1>12, <1>13
    DEF TunnelNext, Starting, Looping, Calling, Ending, AskPubKey, AskPrime, AskDh

LEMMA BranchStep == TInv /\ [TunnelNext]_tunnelVars => BranchKnown'
<1> SUFFICES ASSUME TInv, [TunnelNext]_tunnelVars PROVE BranchKnown'
  OBVIOUS
<1>k. BranchKnown
  BY DEF TInv
<1> USE DEF BranchKnown
<1>1. CASE ReadConfig \/ ObtainPin \/ OpenCard \/ ShowPubKey \/ Primed \/ BindSocket \/ CreateDevice \/ Calling
  <2>1. UNCHANGED <<phase, branch>>
    BY <1>1 DEF ReadConfig, ObtainPin, OpenCard, ShowPubKey, Primed, BindSocket, CreateDevice, Setting, vars,
          Calling, AskPubKey, AskPrime, AskDh, Ask, CardAnswers, PubKeyPanics
  <2> QED
    BY <1>k, <2>1
<1>2. CASE SetupRoute \/ ApplyDns \/ Registered
  <2>1. phase \in {"setup", "greet"} /\ branch' = branch
    BY <1>2, SetupEffect DEF SetupRoute, ApplyDns, SetupDone, Registered, LoopBegins, TInv, RInv
  <2> QED
    BY <1>k, <2>1
<1>3. CASE Looping
  <2>1. CASE \E b \in {"turn", "datagram", "packet"} : Chosen(b)
    BY <2>1 DEF Chosen, Polling, vars
  <2>2. CASE TurnDone
    BY <2>2 DEF TurnDone, Serving, Tick, StartRecheck, vars
  <2>3. CASE Recheck
    BY <2>3, <1>k DEF Recheck, RecheckEntry, RecheckDone
  <2>4. CASE Served \/ Signalled \/ SendFailed
    BY <2>4 DEF Served, Signalled, SendFailed, Leaves, Polling
  <2> QED
    BY <1>3, <2>1, <2>2, <2>3, <2>4 DEF Looping
<1>4. CASE Ending
  BY <1>4, <1>k DEF Ending, Fails, Leaves, CleanupDns, CleanupRoute, DeleteRoute, CloseDevice, Exit,
        DropSessions, Setting, vars
<1>5. CASE SignalArrives \/ Killed \/ NetworkMoves \/ UNCHANGED tunnelVars
  BY <1>5, <1>k DEF SignalArrives, Killed, NetworkMoves, vars
<1> QED
  BY <1>1, <1>2, <1>3, <1>4, <1>5 DEF TunnelNext, Starting

LEMMA TInvInit == TunnelInit => TInv
<1> SUFFICES ASSUME TunnelInit PROVE TInv
  OBVIOUS
<1>1. RInv
  BY RInvInit DEF TunnelInit
<1>2. phase = "setup" /\ added = <<>>
  BY DEF TunnelInit, Init
<1>3. LifeTypeOK /\ stage = "config" /\ call = Dh!Idle /\ resolver = "user" /\ ~applied
  BY DEF TunnelInit, LifeTypeOK, Dh!Init
<1>4. branch = "none"
  BY DEF TunnelInit
<1> QED
  BY <1>1, <1>2, <1>3, <1>4 DEF TInv, StageKnown, AppliedKnown, NetsInPlace, CallKnown, BranchKnown

-----------------------------------------------------------------------------
(* The theorems.                                                           *)

(* The tunnel's steps on routes are those of Routes, so what holds of       *)
(* Routes holds here.                                                       *)
THEOREM TunnelRoutes == TunnelSpec => RespectsRoutes
<1>1. TunnelInit => Init
  BY DEF TunnelInit
<1>2. [TunnelNext]_tunnelVars => [Next]_vars
  BY RouteSteps
<1> QED
  BY <1>1, <1>2, PTL DEF TunnelSpec, RespectsRoutes, Spec

(* Run as run_tunnel runs it, no bypass leads into the tunnel either.       *)
THEOREM TunnelBypasses ==
  ASSUME AsksFirst(Bypassed) PROVE TunnelSpec => []BypassAvoidsTun
BY TunnelRoutes, BypassesAvoidTun, PTL DEF RespectsRoutes

(* The stages say which part of the system is in the way of a call, a       *)
(* route or the resolver, and what is still to be put back.                 *)
THEOREM TunnelInvariant == TunnelSpec => []TInv
<1>1. TInv /\ [TunnelNext]_tunnelVars => RInv'
  <2>1. TInv /\ [TunnelNext]_tunnelVars => RInv /\ [Next]_vars
    BY RouteSteps DEF TInv
  <2> QED
    BY <2>1, TypeStep, RecordedStep, LeakStep, RemovalStep, StoredStep, RecheckedStep, BypassesStep,
       ProbesStep DEF RInv
<1>2. TInv /\ [TunnelNext]_tunnelVars => TInv'
  BY <1>1, LifeTypeStep, StageStep, AppliedStep, NetsStep, CallStep, BranchStep DEF TInv
<1> QED
  BY <1>2, TInvInit, PTL DEF TunnelSpec

(* The life cycle is typed.                                                *)
THEOREM TunnelTyped == TunnelSpec => []LifeTypeOK
<1>1. TInv => LifeTypeOK
  BY DEF TInv
<1> QED
  BY <1>1, TunnelInvariant, PTL

(* However a run ends, but for being killed: no route of ours is left but    *)
(* one whose delete failed, and the resolver of the tunnel is not left in    *)
(* place: the guard ran its clean-up, as far as the commands went.          *)
THEOREM ReturnRestores == TunnelSpec => []RestoredOnReturn
<1>1. TInv => RestoredOnReturn
  <2>1. SUFFICES ASSUME TInv, stage \in {"unwind", "gone"}, phase # "killed"
                 PROVE  Ours \subseteq stuck /\ resolver # "tunnel"
    BY DEF RestoredOnReturn
  <2>2. phase = "exited" \/ (phase = "setup" /\ added = <<>>)
    BY <2>1 DEF TInv, StageKnown
  <2>3. Ours \subseteq stuck
    <3>1. CASE phase = "exited"
      BY <2>1, <3>1 DEF TInv, RInv, BeingRemoved, Destinations
    <3>2. CASE phase = "setup" /\ added = <<>>
      BY <2>1, <3>2 DEF TInv, RInv, NoRouteLeaked
    <3> QED
      BY <2>2, <3>1, <3>2
  <2>4. resolver # "tunnel"
    BY <2>1, <2>2 DEF TInv, AppliedKnown, LifeTypeOK
  <2> QED
    BY <2>3, <2>4
<1> QED
  BY <1>1, TunnelInvariant, PTL

(* The resolver is set after the last route and put back before the first   *)
(* is removed.                                                              *)
THEOREM ResolverInside == TunnelSpec => []ResolverBehindRoutes
<1>1. TInv => ResolverBehindRoutes
  <2>1. SUFFICES ASSUME TInv, stage = "guarded", resolver = "tunnel"
                 PROVE  NetsLeadIn
    BY DEF ResolverBehindRoutes, NetsLeadIn
  <2>2. applied
    BY <2>1 DEF TInv, StageKnown, AppliedKnown
  <2> QED
    BY <2>1, <2>2 DEF TInv, NetsInPlace
<1> QED
  BY <1>1, TunnelInvariant, PTL

(* No branch of select! is left while it awaits the card, since calls are   *)
(* made in the branches' bodies and not in the futures that are polled.     *)
THEOREM CallsEndThemselves == TunnelSpec => CallsRunToTheirEnd
<1>1. TInv /\ [TunnelNext]_tunnelVars =>
        [call # Dh!Idle /\ call' # call => Dh!Answer \/ (call.op = "pubkey" /\ stage' = "gone")]_tunnelVars
  <2>1. SUFFICES ASSUME TInv, TunnelNext, call # Dh!Idle, call' # call
                 PROVE  Dh!Answer \/ (call.op = "pubkey" /\ stage' = "gone")
    OBVIOUS
  <2>2. CASE Starting
    BY <2>1, <2>2 DEF Starting, ReadConfig, ObtainPin, OpenCard, ShowPubKey, Primed, BindSocket, CreateDevice,
          SetupRoute, ApplyDns, Registered, Dh!Begin, Dh!GiveUp, Dh!Bind
  <2>3. CASE Looping
    BY <2>1, <2>3 DEF Looping, Chosen, TurnDone, Recheck, Served, Signalled, SendFailed
  <2>4. CASE Calling
    BY <2>1, <2>4 DEF Calling, AskPubKey, AskPrime, AskDh, Ask, CardAnswers, PubKeyPanics,
          Dh!Invoke, Dh!Immediate
  <2>5. CASE Ending
    BY <2>1, <2>5 DEF Ending, Fails, CleanupDns, CleanupRoute, CloseDevice, DropSessions, TInv, CallKnown
  <2>6. CASE SignalArrives \/ Killed \/ NetworkMoves
    BY <2>1, <2>6 DEF SignalArrives, Killed, NetworkMoves
  <2> QED
    BY <2>1, <2>2, <2>3, <2>4, <2>5, <2>6 DEF TunnelNext
<1> QED
  BY <1>1, TunnelInvariant, PTL DEF TunnelSpec, CallsRunToTheirEnd

(* With the card's side, where CardHandle implements the same oracle, the   *)
(* two fit: the tunnel asks when it may and of a handle it has.             *)
THEOREM TunnelRespectsOracle == TunnelSpec => RespectsOracle
<1>1. TunnelInit => Dh!Init
  BY DEF TunnelInit
<1>2. TInv /\ [TunnelNext]_tunnelVars => [Dh!Next]_(Dh!vars)
  <2>1. SUFFICES ASSUME TInv, [TunnelNext]_tunnelVars PROVE Dh!Next \/ UNCHANGED oracleVars
    BY DEF Dh!vars
  <2>2. CASE Starting
    BY <2>2 DEF Starting, ReadConfig, ObtainPin, OpenCard, ShowPubKey, Primed, BindSocket, CreateDevice,
          SetupRoute, ApplyDns, Registered, Dh!Next
  <2>3. CASE Looping
    BY <2>3 DEF Looping, Chosen, TurnDone, Recheck, Served, Signalled, SendFailed
  <2>4. CASE Calling
    <3>1. ASSUME NEW k \in Dh!Calls, Dh!Invoke(k) \/ Dh!Immediate(k) PROVE Dh!Next
      BY <3>1 DEF Dh!Next
    <3>2. CASE AskPubKey
      <4>1. [op |-> "pubkey", pk |-> NoPeer] \in Dh!Calls
        BY DEF Dh!Calls
      <4> QED
        BY <3>1, <3>2, <4>1 DEF AskPubKey, Ask
    <3>3. CASE AskPrime
      <4>1. PeerKeys[Len(PeerKeys) - left + 1] \in Peers
        <5>1. left \in Nat /\ left > 0 /\ left <= Len(PeerKeys) /\ Len(PeerKeys) \in Nat
          BY <2>1, <3>3, TunnelAssumption DEF AskPrime, Ask, TInv, CallKnown, LifeTypeOK
        <5>2. Len(PeerKeys) - left + 1 \in 1 .. Len(PeerKeys)
          BY <5>1
        <5> QED
          BY <5>2, TunnelAssumption
      <4>2. [op |-> "prime", pk |-> PeerKeys[Len(PeerKeys) - left + 1]] \in Dh!Calls
        BY <4>1 DEF Dh!Calls
      <4> QED
        BY <3>1, <3>3, <4>2 DEF AskPrime, Ask
    <3>4. CASE \E pk \in Peers : AskDh(pk)
      <4>1. \A pk \in Peers : [op |-> "dh", pk |-> pk] \in Dh!Calls
        BY DEF Dh!Calls
      <4> QED
        BY <3>1, <3>4, <4>1 DEF AskDh, Ask
    <3>5. CASE CardAnswers \/ PubKeyPanics
      BY <3>5 DEF CardAnswers, PubKeyPanics, Dh!Next
    <3> QED
      BY <2>4, <3>2, <3>3, <3>4, <3>5 DEF Calling
  <2>5. CASE Ending
    BY <2>5 DEF Ending, Fails, CleanupDns, CleanupRoute, CloseDevice, DropSessions, Dh!Next
  <2>6. CASE SignalArrives \/ Killed \/ NetworkMoves \/ UNCHANGED tunnelVars
    BY <2>6 DEF SignalArrives, Killed, NetworkMoves
  <2> QED
    BY <2>1, <2>2, <2>3, <2>4, <2>5, <2>6 DEF TunnelNext
<1> QED
  BY <1>1, <1>2, TunnelInvariant, PTL DEF TunnelSpec, RespectsOracle, Dh!Spec

-----------------------------------------------------------------------------
(* The variant of the guarded part.                                        *)

(* What is ahead is counted in natural numbers.                            *)
LEMMA CountsTyped ==
  ASSUME TInv
  PROVE  /\ Len(added) \in Nat /\ Len(todo) \in Nat /\ Len(PeerKeys) \in Nat
         /\ CallsOf("keepalive") \in Nat
         /\ left \in Nat /\ CallsAhead \in Nat
         /\ RecheckAhead \in Nat /\ BranchAhead \in Nat
<1>1. Len(added) \in Nat /\ Len(todo) \in Nat /\ Len(PeerKeys) \in Nat /\ left \in Nat
  BY TunnelAssumption DEF TInv, RInv, TypeOK, LifeTypeOK
<1>2. CallsOf("keepalive") \in Nat
  BY CallsTyped
<1>3. CallsAhead \in Nat
  BY <1>1 DEF CallsAhead
<1>4. RecheckAhead \in Nat
  <2>1. next \in 1 .. Len(added) + 1
    BY DEF TInv, RInv, TypeOK
  <2> QED
    BY <1>1, <2>1 DEF RecheckAhead
<1>5. branch \in {"none", "turn", "keepalive", "datagram", "packet"}
  BY DEF TInv, LifeTypeOK
<1>6. BranchAhead \in Nat
  BY <1>1, <1>2, <1>5 DEF BranchAhead
<1> QED
  BY <1>1, <1>2, <1>3, <1>4, <1>6

(* A call that is asked, or answered, is one less to come.                 *)
LEMMA CallsRunDown ==
  ASSUME TInv, stage = "guarded", Calling
  PROVE  Ahead' < Ahead
<1>1. ~PubKeyPanics /\ ~AskPubKey /\ ~AskPrime
  <2>1. call # Dh!Idle => call.op # "pubkey"
    BY DEF TInv, CallKnown
  <2>2. Dh!Idle.op = "none"
    BY DEF Dh!Idle
  <2> QED
    BY <2>1, <2>2 DEF PubKeyPanics, AskPubKey, AskPrime
<1>2. phase \in {"greet", "loop"}
  BY <1>1 DEF Calling, AskDh, CardAnswers, Dh!Answer, TInv, CallKnown
<1>3. UNCHANGED <<added, todo, phase, next, branch>>
  BY <1>1 DEF Calling, AskDh, Ask, CardAnswers, vars
<1>4. CallsAhead' \in Int /\ CallsAhead' < CallsAhead
  <2>1. CASE \E pk \in Peers : AskDh(pk)
    <3>1. left' = left - 1 /\ left \in Nat /\ call = Dh!Idle
      BY <2>1, CountsTyped DEF AskDh, Ask, Dh!Invoke, Dh!Immediate
    <3> QED
      BY <3>1 DEF CallsAhead, Resting
  <2>2. CASE CardAnswers
    <3>1. left' = left /\ left \in Nat /\ call # Dh!Idle /\ call' = Dh!Idle
      BY <2>2, CountsTyped DEF CardAnswers, Dh!Answer
    <3> QED
      BY <3>1 DEF CallsAhead, Resting
  <2> QED
    BY <1>1, <2>1, <2>2 DEF Calling
<1>5. RecheckAhead' = RecheckAhead /\ BranchAhead' = BranchAhead
  BY <1>3 DEF RecheckAhead, BranchAhead, CallsOf
<1>6. StageAhead \in Nat /\ StageAhead' = StageAhead
  BY <1>2, <1>3, <1>5, CountsTyped DEF StageAhead
<1> QED
  BY <1>2, <1>3, <1>4, <1>6, CountsTyped DEF Ahead

(* Set-up takes a command a step, and adds at most one route for it.        *)
LEMMA SetupRunsDown ==
  ASSUME TInv, stage = "guarded", SetupRoute \/ ApplyDns \/ Registered
  PROVE  Ahead' < Ahead
<1>1. CASE SetupRoute
  <2>1. phase = "setup" /\ phase' = phase /\ UNCHANGED <<left, call>>
    BY <1>1, SetupEffect DEF SetupRoute, TInv, RInv
  <2>2. Len(todo') \in Nat /\ Len(todo') < Len(todo)
    <3>1. todo # <<>> /\ todo' = Tail(todo) /\ todo \in Seq(Command)
      BY <1>1 DEF SetupRoute, AddBypass, ProbeDefault, AddPassthrough, AddNet, Doing, TInv, RInv, TypeOK
    <3> QED
      BY <3>1
  <2>3. Len(added') \in Nat /\ Len(added') <= Len(added) + 1
    <3>1. added \in Seq(AddedRoute)
      BY DEF TInv, RInv, TypeOK
    <3>2. added' = added \/ Len(added') = Len(added) + 1
      <4>1. TypeOK /\ (AddBypass \/ ProbeDefault \/ AddPassthrough \/ AddNet)
        BY <1>1 DEF SetupRoute, TInv, RInv
      <4> QED
        BY <4>1, SetupEffect DEF Grown
    <3> QED
      BY <3>1, <3>2
  <2>4. CallsAhead' = CallsAhead
    BY <2>1 DEF CallsAhead, Resting
  <2> QED
    BY <2>1, <2>2, <2>3, <2>4, CountsTyped DEF Ahead, StageAhead
<1>2. CASE ApplyDns
  <2>1. /\ phase = "setup" /\ phase' = "greet" /\ UNCHANGED <<added, todo, call>>
        /\ left' = Len(PeerKeys)
    BY <1>2 DEF ApplyDns, SetupDone
  <2>2. Resting /\ Resting'
    BY <2>1 DEF TInv, CallKnown, Resting
  <2>3. CallsAhead' = 2 * Len(PeerKeys)
    BY <2>1, <2>2, CountsTyped DEF CallsAhead
  <2> QED
    BY <2>1, <2>3, CountsTyped DEF Ahead, StageAhead
<1>3. CASE Registered
  <2>1. /\ phase = "greet" /\ phase' = "loop" /\ UNCHANGED <<added, branch, call>> /\ left' = 0
        /\ Resting
    BY <1>3 DEF Registered, LoopBegins, At
  <2>2. CallsAhead' = 0 /\ RecheckAhead' = 0
    BY <2>1 DEF CallsAhead, RecheckAhead, Resting
  <2>3. BranchAhead' = 0
    BY <2>1 DEF BranchAhead, TInv, BranchKnown
  <2> QED
    BY <2>1, <2>2, <2>3, CountsTyped DEF Ahead, StageAhead
<1> QED
  BY <1>1, <1>2, <1>3

(* A branch that was chosen ends, or goes on to the next part of its body:  *)
(* turn to the recheck and the keepalive pass, a failed send to the recheck, *)
(* a recheck from one entry to the next.                                    *)
LEMMA BranchesRunDown ==
  ASSUME TInv, stage = "guarded", Looping, ~Polling
  PROVE  Ahead' < Ahead
<1>t. added \in Seq(AddedRoute) /\ next \in 1 .. Len(added) + 1
  BY DEF TInv, RInv, TypeOK
<1>c. left' = 0 /\ Resting' => CallsAhead' = 0
  BY DEF CallsAhead
<1>1. CASE TurnDone
  <2>1. /\ phase = "loop" /\ branch = "turn" /\ branch' = "keepalive" /\ UNCHANGED <<call, added>>
        /\ left' = CallsOf("keepalive") /\ Resting
        /\ phase' = "loop" \/ (phase' = "recheck" /\ next' = 1)
    BY <1>1 DEF TurnDone, Serving, At, Tick, StartRecheck, vars
  <2>2. CallsAhead' = 2 * CallsOf("keepalive")
    BY <2>1, CountsTyped DEF CallsAhead, Resting
  <2>3. RecheckAhead' \in Nat /\ RecheckAhead' <= Len(added) + 1
    BY <2>1, CountsTyped DEF RecheckAhead
  <2>4. BranchAhead = Len(added) + 3 + 2 * CallsOf("keepalive") /\ BranchAhead' = 1
    BY <2>1 DEF BranchAhead
  <2>5. StageAhead = RecheckAhead + BranchAhead /\ StageAhead' = RecheckAhead' + BranchAhead'
    BY <2>1 DEF StageAhead
  <2>6. /\ Ahead = Len(added) + 2 + CallsAhead + (RecheckAhead + BranchAhead)
        /\ Ahead' = Len(added) + 2 + CallsAhead' + (RecheckAhead' + BranchAhead')
    BY <2>1, <2>5 DEF Ahead
  <2>7. \A n, c, r, a, k \in Nat : r <= n + 1 =>
          n + 2 + 2 * k + (r + 1) < n + 2 + c + (a + (n + 3 + 2 * k))
    OBVIOUS
  <2> QED
    BY <2>2, <2>3, <2>4, <2>6, <2>7, CountsTyped
<1>2. CASE Recheck
  <2>1. /\ phase = "recheck" /\ UNCHANGED <<branch, left, call>> /\ Len(added') = Len(added)
        /\ \/ phase' = phase /\ next \in DOMAIN added /\ next' = next + 1
           \/ phase' = "loop" /\ next' = next
    BY <1>2, <1>t DEF Recheck, RecheckEntry, RecheckDone
  <2>2. CallsAhead' = CallsAhead /\ BranchAhead' = BranchAhead
    BY <2>1 DEF CallsAhead, Resting, BranchAhead, CallsOf
  <2>3. RecheckAhead' \in Nat /\ RecheckAhead' < RecheckAhead
    BY <2>1, <1>t, CountsTyped DEF RecheckAhead
  <2> QED
    BY <2>1, <2>2, <2>3, CountsTyped DEF Ahead, StageAhead
<1>3. CASE Served
  <2>1. /\ phase = "loop" /\ branch \in {"keepalive", "datagram", "packet"} /\ Resting
        /\ UNCHANGED <<phase, added, call>> /\ branch' = "none" /\ left' = 0
    BY <1>3 DEF Served, Serving, At, Leaves, vars
  <2>2. CallsAhead' = 0 /\ RecheckAhead' = 0 /\ BranchAhead' = 0
    BY <2>1, <1>c DEF Resting, RecheckAhead, BranchAhead
  <2>3. BranchAhead > 0
    BY <2>1, CountsTyped DEF BranchAhead
  <2> QED
    BY <2>1, <2>2, <2>3, CountsTyped DEF Ahead, StageAhead
<1>4. CASE SendFailed
  <2>1. /\ phase = "loop" /\ branch \in {"datagram", "packet"} /\ Resting
        /\ phase' = "recheck" /\ next' = 1
        /\ UNCHANGED <<added, call>> /\ branch' = "none" /\ left' = 0
    BY <1>4 DEF SendFailed, Serving, At, Leaves, SendErr, StartRecheck
  <2>2. CallsAhead' = 0 /\ BranchAhead' = 0
    BY <2>1, <1>c DEF Resting, BranchAhead
  <2>3. RecheckAhead' = Len(added) + 1
    BY <2>1, CountsTyped DEF RecheckAhead
  <2>4. BranchAhead = Len(added) + 2
    BY <2>1 DEF BranchAhead
  <2> QED
    BY <2>1, <2>2, <2>3, <2>4, CountsTyped DEF Ahead, StageAhead
<1>5. ~Signalled /\ ~\E b \in {"turn", "datagram", "packet"} : Chosen(b)
  BY DEF Signalled, Chosen
<1> QED
  BY <1>1, <1>2, <1>3, <1>4, <1>5 DEF Looping

(* An error leaves the loop for good, and the guard's drop puts back one    *)
(* thing after the other.                                                   *)
LEMMA EndRunsDown ==
  ASSUME TInv, stage = "guarded", Ending, ~Polling
  PROVE  Ahead' < Ahead \/ stage' # "guarded"
<1>1. CASE Fails
  <2>1. /\ phase \in {"greet", "loop"} /\ phase' = "cleanup" /\ Len(todo') = Len(added)
        /\ UNCHANGED applied
        /\ phase = "loop" => branch = "datagram"
    <3>1. added \in Seq(AddedRoute)
      BY DEF TInv, RInv, TypeOK
    <3> QED
      BY <1>1, <3>1 DEF Fails, LoopEnds, Serving, At
  <2>2. StageAhead \in Nat
    BY <2>1, CountsTyped DEF StageAhead
  <2> QED
    BY <2>1, <2>2, CountsTyped DEF Ahead
<1>2. CASE CleanupDns
  <2>1. phase = "cleanup" /\ applied /\ ~applied' /\ UNCHANGED <<phase, todo>>
    BY <1>2 DEF CleanupDns, vars
  <2> QED
    BY <2>1, CountsTyped DEF Ahead
<1>3. CASE CleanupRoute
  <2>1. /\ phase = "cleanup" /\ UNCHANGED <<phase, applied>>
        /\ todo # <<>> /\ todo' = Tail(todo) /\ todo \in Seq(Command)
    BY <1>3 DEF CleanupRoute, DeleteRoute, TInv, RInv, TypeOK
  <2>2. Len(todo') \in Nat /\ Len(todo') < Len(todo)
    BY <2>1
  <2> QED
    BY <2>1, <2>2, CountsTyped DEF Ahead
<1>4. CASE CloseDevice \/ DropSessions
  BY <1>4 DEF CloseDevice, DropSessions, Enters
<1> QED
  BY <1>1, <1>2, <1>3, <1>4 DEF Ending

(* However signals, errors, the card and the network interleave with it,    *)
(* what the guarded part does between two polls is finite: this is the part *)
(* of SignalEndsTunnel that needs no fairness.                              *)
THEOREM GuardWindsDown == TunnelSpec => GuardRunsDown
<1>1. TInv /\ [TunnelNext]_tunnelVars =>
        [stage = "guarded" /\ ~Polling =>
           \/ Ahead' < Ahead
           \/ stage' # "guarded"
           \/ (SignalArrives \/ NetworkMoves) /\ Ahead' = Ahead]_tunnelVars
  <2>1. SUFFICES ASSUME TInv, TunnelNext, stage = "guarded", ~Polling, stage' = "guarded"
                 PROVE  Ahead' < Ahead \/ ((SignalArrives \/ NetworkMoves) /\ Ahead' = Ahead)
    OBVIOUS
  <2>2. CASE Starting
    BY <2>1, <2>2, SetupRunsDown
      DEF Starting, ReadConfig, ObtainPin, OpenCard, ShowPubKey, Primed, BindSocket, CreateDevice, At
  <2>3. CASE Looping
    BY <2>1, <2>3, BranchesRunDown
  <2>4. CASE Calling
    BY <2>1, <2>4, CallsRunDown
  <2>5. CASE Ending
    BY <2>1, <2>5, EndRunsDown
  <2>6. CASE SignalArrives \/ NetworkMoves
    <3>1. UNCHANGED <<phase, added, todo, next, branch, left, call, applied>>
      BY <2>6 DEF SignalArrives, NetworkMoves, vars
    <3>2. RecheckAhead' = RecheckAhead /\ BranchAhead' = BranchAhead /\ CallsAhead' = CallsAhead
      BY <3>1 DEF RecheckAhead, BranchAhead, CallsAhead, Resting, CallsOf
    <3> QED
      BY <2>6, <3>1, <3>2 DEF Ahead, StageAhead
  <2>7. CASE Killed
    BY <2>1, <2>7 DEF Killed, Enters
  <2> QED
    BY <2>1, <2>2, <2>3, <2>4, <2>5, <2>6, <2>7 DEF TunnelNext
<1> QED
  BY <1>1, TunnelInvariant, PTL DEF TunnelSpec, GuardRunsDown
=============================================================================
