------------------------------- MODULE Tunnel -------------------------------
(***************************************************************************)
(* A run of `smartguard up` from the configuration to the end of the       *)
(* process (smartguard/src/main.rs, tunnel.rs, dns.rs): the card, the UDP  *)
(* socket, the tun device, the routes, the resolver, the event loop and    *)
(* the CleanupGuard.  Routes gives the steps on the routing table and      *)
(* DhOracle what the card may answer.                                      *)
(***************************************************************************)
EXTENDS Routes

CONSTANTS
  Cards, NoCard, Eligible, Peers, NoPeer, LowOrder, Errors,  \* as in DhOracle
  PeerKeys     \* the static keys of the configured peers, in order

ASSUME TunnelAssumption ==
  /\ PeerKeys \in Seq(Peers)
  /\ NoCard \notin Cards /\ Eligible \subseteq Cards
  /\ NoPeer \notin Peers

VARIABLES
  stage,       \* where cmd_up is; guarded while there is a CleanupGuard
  branch,      \* the branch of select! that is being served, or none
  left,        \* the calls of the card this stage or branch can still make
  resolver,    \* the user's, the tunnel's, half set by a command that failed, or
               \* kept as the command that was to put it back left it
  applied,     \* CleanupGuard::applied_dns is Some
  signal,      \* SIGINT or SIGTERM waits to be received
  oracle, bound, call, outcome  \* as in DhOracle; new for a software key

lifeVars == <<stage, branch, left, resolver, applied, signal>>
oracleVars == <<oracle, bound, call, outcome>>
tunnelVars == <<vars, lifeVars, oracleVars>>

Dh == INSTANCE DhOracle WITH phase <- oracle

Resting == call = Dh!Idle

-----------------------------------------------------------------------------
(* Calls of the card.                                                      *)

\* The bound that the session layer sets on the DHs of a branch: turn and the
\* keepalive pass start at most one handshake per peer, a datagram takes two.
CallsOf(b) ==
  CASE b \in {"turn", "keepalive"} -> Len(PeerKeys) [] b = "datagram" -> 2 [] b = "packet" -> 1

\* Mutant: a failed call is tried again without an end.
AskAgain(op, pk) ==
  /\ left' = left - 1
  /\ Dh!Invoke([op |-> op, pk |-> pk]) \/ Dh!Immediate([op |-> op, pk |-> pk])
  /\ UNCHANGED <<vars, stage, branch, resolver, applied, signal>>

\* Mutant: the calls of a branch are made at once.
AskTogether(op, pk) ==
  /\ left > 0
  /\ left' = left - 1
  /\ oracle = "open"
  /\ call' = [op |-> op, pk |-> pk]
  /\ outcome' = Dh!Nothing
  /\ UNCHANGED <<vars, stage, branch, resolver, applied, signal, oracle, bound>>

Ask(op, pk) ==
  /\ left > 0
  /\ left' = left - 1
  /\ Dh!Invoke([op |-> op, pk |-> pk]) \/ Dh!Immediate([op |-> op, pk |-> pk])
  /\ UNCHANGED <<vars, stage, branch, resolver, applied, signal>>

\* The public key is asked for to be shown, and again by build_sessions.
AskPubKey == stage \in {"pubkey", "build"} /\ Ask("pubkey", NoPeer)

AskPrime == stage = "prime" /\ Ask("prime", PeerKeys[Len(PeerKeys) - left + 1])

\* The session layer's handshakes, with static and with ephemeral keys.
AskDh(pk) ==
  /\ stage = "guarded"
  /\ phase = "greet" \/ (phase = "loop" /\ branch # "none")
  /\ Ask("dh", pk)

CardAnswers ==
  /\ Dh!Answer
  /\ UNCHANGED <<vars, lifeVars>>

\* pubkey's expect: the handle goes with the main thread's stack.
PubKeyPanics ==
  /\ call.op = "pubkey"
  /\ Dh!Close
  /\ stage' = "gone"
  /\ UNCHANGED <<vars, branch, left, resolver, applied, signal>>

-----------------------------------------------------------------------------
(* Up to the guard.  A failure returns what there is to its owner.         *)

At(s) == stage = s /\ Resting
Enters(s, calls) == stage' = s /\ left' = calls
Setting == UNCHANGED <<vars, branch, resolver, applied, signal>>

\* PrivateKeyConfig: a card, named or found, or a key of the file itself.
KeySources == {"pin", "build"}

\* Config::from_file, interface.address, the prefixes, whose expect panics.
ReadConfig ==
  /\ At("config")
  /\ \E s \in KeySources \cup {"gone"} : Enters(s, 0)
  /\ Setting /\ UNCHANGED oracleVars

ObtainPin ==
  /\ At("pin")
  /\ Enters("gone", 0) \/ Enters("open", 0)
  /\ Setting /\ UNCHANGED oracleVars

OpenCard ==
  /\ At("open")
  /\ \/ Dh!Begin /\ IF oracle' = "opening" THEN Enters("open", 0) ELSE Enters("gone", 0)
     \/ Dh!GiveUp /\ Enters("gone", 0)
     \/ \E c \in Eligible : Dh!Bind(c) /\ Enters("pubkey", 1)
  /\ Setting

ShowPubKey ==
  /\ At("pubkey") /\ left = 0
  /\ Enters("prime", Len(PeerKeys))
  /\ Setting /\ UNCHANGED oracleVars

\* A peer that could not be primed costs a warning.
Primed ==
  /\ At("prime") /\ left = 0
  /\ Enters("build", 1)
  /\ Setting /\ UNCHANGED oracleVars

\* build_sessions and the socket.
BindSocket ==
  /\ At("build") /\ left = 0
  /\ Enters("unwind", 0) \/ Enters("device", 0)
  /\ Setting /\ UNCHANGED oracleVars

\* The tun device and its addresses; one that cannot be added is only logged.
CreateDevice ==
  /\ At("device")
  /\ Enters("unwind", 0) \/ Enters("guarded", 0)
  /\ Setting /\ UNCHANGED oracleVars

-----------------------------------------------------------------------------
(* Under the guard.                                                        *)

SetupRoute ==
  /\ stage = "guarded"
  /\ AddBypass \/ ProbeDefault \/ AddPassthrough \/ AddNet
  /\ UNCHANGED <<lifeVars, oracleVars>>

\* Mutant: the handle is not kept when the command went well.
apply_dns_unrecorded ==
  \/ UNCHANGED <<resolver, applied>>
  \/ resolver' = "tunnel" /\ UNCHANGED applied
  \/ resolver' = "half" /\ UNCHANGED applied

\* scutil or resolvconf: one that fails may have changed the resolver before.
set_resolver(ok) == resolver' \in IF ok THEN {"tunnel"} ELSE {resolver, "half"}

\* No servers, nothing to do; there is a handle only for a command that succeeds.
apply_dns ==
  \/ UNCHANGED <<resolver, applied>>
  \/ \E ok \in BOOLEAN : set_resolver(ok) /\ applied' = ok

ApplyDns ==
  /\ stage = "guarded"
  /\ SetupDone
  /\ apply_dns
  /\ left' = Len(PeerKeys)
  /\ UNCHANGED <<stage, branch, signal, oracleVars>>

\* Both signal handlers are registered.
Registered ==
  /\ At("guarded")
  /\ LoopBegins
  /\ left' = 0
  /\ UNCHANGED <<stage, branch, resolver, applied, signal, oracleVars>>

Polling == At("guarded") /\ phase = "loop" /\ branch = "none"
Serving(b) == At("guarded") /\ phase = "loop" /\ branch = b
Leaves == branch' = "none" /\ left' = 0

\* Mutant: a signal that came before the branch was chosen is dropped with its
\* future.
ChosenLosesSignal(b) ==
  /\ Polling
  /\ b # "keepalive"
  /\ branch' = b /\ left' = CallsOf(b)
  /\ signal' = FALSE
  /\ UNCHANGED <<vars, stage, resolver, applied, oracleVars>>

\* A branch of select! other than the signals is ready and chosen.
Chosen(b) ==
  /\ Polling
  /\ b # "keepalive"
  /\ branch' = b /\ left' = CallsOf(b)
  /\ UNCHANGED <<vars, stage, resolver, applied, signal, oracleVars>>

\* The recheck of the tick comes between turn and the messages.
TurnDone ==
  /\ Serving("turn")
  /\ IF HostRoutes # {} /\ added[FirstHost].gateway = None THEN Tick ELSE UNCHANGED vars
  /\ branch' = "keepalive" /\ left' = CallsOf("keepalive")
  /\ UNCHANGED <<stage, resolver, applied, signal, oracleVars>>

Recheck ==
  /\ stage = "guarded"
  /\ RecheckEntry \/ RecheckDone
  /\ UNCHANGED <<lifeVars, oracleVars>>

\* A handshake reply or a packet cannot be sent: a recheck, then the next poll.
SendFailed ==
  /\ Serving("datagram") \/ Serving("packet")
  /\ SendErr
  /\ Leaves
  /\ UNCHANGED <<stage, resolver, applied, signal, oracleVars>>

\* Mutant: a branch is served again as long as there is something to serve.
ServedRepeats ==
  /\ \E b \in {"keepalive", "datagram", "packet"} : Serving(b) /\ left' = CallsOf(b)
  /\ UNCHANGED <<vars, stage, branch, resolver, applied, signal, oracleVars>>

Served ==
  /\ \E b \in {"keepalive", "datagram", "packet"} : Serving(b)
  /\ Leaves
  /\ UNCHANGED <<vars, stage, resolver, applied, signal, oracleVars>>

\* Mutant: the calls are awaited in select!, so a signal drops them.
SignalledMidCall ==
  /\ stage = "guarded" /\ phase = "loop"
  /\ signal
  /\ LoopEnds
  /\ Leaves
  /\ call' = Dh!Idle
  /\ UNCHANGED <<stage, resolver, applied, signal, oracle, bound, outcome>>

Signalled ==
  /\ Polling
  /\ signal
  /\ LoopEnds
  /\ UNCHANGED <<lifeVars, oracleVars>>

\* A handler cannot be registered, the socket or the device cannot be read, or
\* the device written.
Fails ==
  /\ (At("guarded") /\ phase = "greet") \/ Polling \/ Serving("datagram")
  /\ LoopEnds
  /\ Leaves
  /\ UNCHANGED <<stage, resolver, applied, signal, oracleVars>>

-----------------------------------------------------------------------------
(* The end: the guard, the device and the sessions are dropped in turn.    *)

\* cleanup_dns: whether its command went well, nobody asks.
CleanupDns ==
  /\ stage = "guarded" /\ phase = "cleanup"
  /\ applied
  /\ applied' = FALSE
  /\ resolver' \in {"user", "kept"}
  /\ UNCHANGED <<vars, stage, branch, left, signal, oracleVars>>

\* Mutant: the routes are removed first.
CleanupRouteFirst ==
  /\ stage = "guarded"
  /\ DeleteRoute
  /\ UNCHANGED <<lifeVars, oracleVars>>

CleanupRoute ==
  /\ stage = "guarded"
  /\ ~applied
  /\ DeleteRoute
  /\ UNCHANGED <<lifeVars, oracleVars>>

\* Mutant: the process leaves before the guard is through.
CloseDeviceEarly ==
  /\ stage = "guarded" /\ phase = "cleanup"
  /\ ~applied
  /\ phase' = "exited"
  /\ table' = TunClosed
  /\ Enters("unwind", 0)
  /\ UNCHANGED <<default, todo, added, probed, current, next, unmended, stuck>>
  /\ UNCHANGED <<branch, resolver, applied, signal, oracleVars>>

CloseDevice ==
  /\ stage = "guarded"
  /\ ~applied
  /\ Exit
  /\ Enters("unwind", 0)
  /\ UNCHANGED <<branch, resolver, applied, signal, oracleVars>>

\* The sessions own the card handle.
DropSessions ==
  /\ stage = "unwind"
  /\ IF oracle = "open" THEN Dh!Close ELSE UNCHANGED oracleVars
  /\ Enters("gone", 0)
  /\ Setting

\* SIGINT and SIGTERM once they have handlers.
SignalArrives ==
  /\ stage = "guarded" /\ phase \in {"loop", "recheck"}
  /\ ~signal
  /\ signal' = TRUE
  /\ UNCHANGED <<vars, stage, branch, left, resolver, applied, oracleVars>>

\* The process is killed: nothing is dropped.
Killed ==
  /\ stage \notin {"unwind", "gone"}
  /\ SignalKills
  /\ Enters("gone", 0)
  /\ branch' = "none"
  /\ UNCHANGED <<resolver, applied, signal, oracleVars>>

NetworkMoves ==
  /\ NetworkChanges
  /\ UNCHANGED <<phase, todo, added, probed, current, next, unmended, stuck, lifeVars, oracleVars>>

-----------------------------------------------------------------------------
TunnelInit ==
  /\ Init
  /\ stage = "config"
  /\ branch = "none"
  /\ left = 0
  /\ resolver = "user"
  /\ applied = FALSE
  /\ signal = FALSE
  /\ Dh!Init

Starting ==
  \/ ReadConfig \/ ObtainPin \/ OpenCard \/ ShowPubKey \/ Primed \/ BindSocket \/ CreateDevice
  \/ SetupRoute \/ ApplyDns \/ Registered

Looping ==
  \/ \E b \in {"turn", "datagram", "packet"} : Chosen(b)
  \/ TurnDone \/ Recheck \/ SendFailed \/ Served \/ Signalled

Calling ==
  \/ AskPubKey \/ AskPrime \/ CardAnswers \/ PubKeyPanics
  \/ \E pk \in Peers : AskDh(pk)

Ending == Fails \/ CleanupDns \/ CleanupRoute \/ CloseDevice \/ DropSessions

TunnelNext ==
  \/ Starting \/ Looping \/ Calling \/ Ending
  \/ SignalArrives \/ Killed \/ NetworkMoves

TunnelSpec == TunnelInit /\ [][TunnelNext]_tunnelVars

\* The process runs: its commands return, and so do the calls of the card
\* (CardOracle's CallReturns).  select! polls its branches in random order, so
\* one that is ready again and again is chosen.
TunnelFairness ==
  /\ WF_tunnelVars(Starting \/ Looping \/ Calling \/ Ending)
  /\ SF_tunnelVars(Signalled)

FairTunnelSpec == TunnelSpec /\ TunnelFairness

-----------------------------------------------------------------------------
(* Properties.                                                             *)

\* Every variable of the life cycle keeps its type.
LifeTypeOK ==
  /\ stage \in {"config", "pin", "open", "pubkey", "prime", "build", "device", "guarded", "unwind", "gone"}
  /\ branch \in {"none", "turn", "keepalive", "datagram", "packet"}
  /\ left \in Nat
  /\ resolver \in {"user", "tunnel", "half", "kept"}
  /\ applied \in BOOLEAN /\ signal \in BOOLEAN

\* A process that ends by itself, wherever it failed or was told to stop, leaves
\* no route of its own and no resolver that it set, but for those the system
\* would not take back: routes that are stuck, a resolver whose command failed,
\* to set it (apply_dns then returns None) or to put it back.
RestoredOnReturn ==
  stage \in {"unwind", "gone"} /\ phase # "killed" =>
    Ours \subseteq stuck /\ resolver # "tunnel"

\* Until cleanup_dns has run, names resolved by the tunnel's servers find every
\* prefix the tunnel took still leading into it: the resolver comes last and is
\* the first to be put back.
ResolverBehindRoutes ==
  stage = "guarded" /\ resolver = "tunnel" =>
    \A i \in DOMAIN added :
      added[i].kind = "net" /\ added[i].dest \notin Hosts => table[added[i].dest].via = Tun

\* No call of the card is dropped in flight, though signals, ticks and packets
\* are ready meanwhile: each ends with its answer, or with pubkey's panic.
CallsRunToTheirEnd ==
  [][call # Dh!Idle /\ call' # call => Dh!Answer \/ (call.op = "pubkey" /\ stage' = "gone")]_tunnelVars

\* The tunnel is a client of the oracle that the card promises to be.
RespectsOracle == Dh!Spec

\* And its steps on routes are those of Routes.
RespectsRoutes == Spec

\* SIGINT or SIGTERM ends the process, whatever the loop is in the middle of.
SignalEndsTunnel == (signal /\ stage = "guarded") ~> (stage = "gone")

\* What the guarded part of run_tunnel has still to do before it polls again or
\* is through: commands, calls of the card, entries to recheck, and what follows
\* them; at the end, the resolver and the routes to put back.
CallsAhead == 2 * left + IF Resting THEN 0 ELSE 1
RecheckAhead == IF phase = "recheck" THEN Len(added) + 2 - next ELSE 0
BranchAhead ==
  CASE branch = "none" -> 0
    [] branch = "keepalive" -> 1
    [] branch \in {"datagram", "packet"} -> Len(added) + 2
    [] branch = "turn" -> Len(added) + 3 + 2 * CallsOf("keepalive")
StageAhead ==
  CASE phase = "setup" -> 2 * Len(todo) + 2 * Len(PeerKeys) + 2
    [] phase = "greet" -> 1
    [] OTHER -> RecheckAhead + BranchAhead
Ahead ==
  IF phase = "cleanup" THEN Len(todo) + IF applied THEN 1 ELSE 0
  ELSE Len(added) + 2 + CallsAhead + StageAhead

\* Between two polls of select! each step is one of finitely many, or is the
\* world's and adds nothing: no branch, recheck, set-up or clean-up goes round in
\* circles, so a signal that waits for the loop is only held up by calls.
GuardRunsDown ==
  [][stage = "guarded" /\ ~Polling =>
       \/ Ahead' < Ahead
       \/ stage' # "guarded"
       \/ (SignalArrives \/ NetworkMoves) /\ Ahead' = Ahead]_tunnelVars

\* tunnel.rs: "Guard to cleanup our networking settings when exiting for any
\* reason".
SettingsRestored == stage = "gone" => Ours \subseteq stuck /\ resolver # "tunnel"
=============================================================================
