# SmartGuard in TLA+

SmartGuard is a WireGuard client whose static private key may live on an
OpenPGP smart card. Two crates make it up: `smartguard-crypto` (the card, its
thread, the asynchronous Diffie-Hellman oracle, the packet handlers) and
`smartguard` (configuration, command line, the tunnel's event loop, routes, DNS).
The protocol itself is the external crate RustyGuard.

This directory specifies what the two crates do, from the configuration to the end of
the process, checks it with TLC on small instances and proves all but one of the safety
properties with TLAPS for all instances.

## 1. Inventory

| Component | Source | State it keeps | Operations | Talks to | Hard parts |
|---|---|---|---|---|---|
| `CardHandle` | `smartguard-crypto/src/card.rs` | request sender, `ss_cache`, `ident` | `open`, `prime_ss`, `forget_peer`, `dh`, `pubkey`, `async_x25519`, `async_x25519_pubkey`, drop | card thread: bounded MPSC channel, one one-shot per request | dropped futures, full or closed channel, panics |
| Card thread | `smartguard-crypto/src/thread.rs` | `Card<Open>`, ident, PIN | `run`, `open_and_verify`, `decipher_with_retry`, `try_decipher`, `reconnect` | PC/SC; replies through one-shots | card pulled at any time, one retry, PIN counter, replies nobody awaits |
| Session construction | `smartguard-crypto/src/lib.rs` | - | `build_sessions` | oracle, RustyGuard, PeerNet | order of peer ids |
| Packet handlers | `smartguard-crypto/src/session/handle.rs` | - | `handle_extern`, `handle_intern` | RustyGuard `Sessions`, PeerNet | source check, buffer arithmetic |
| PeerNet | `smartguard-crypto/src/session/peer_net.rs` | two tries | `insert`, `build`, `lookup` | - | longest prefix, duplicates |
| Tunnel life cycle | `smartguard/src/tunnel.rs`, `main.rs` | `CleanupGuard`, the order of what is open | start-up steps, signals, guard drop | all of the above, signals | every step may fail, cleanup on every exit |
| Tunnel event loop | `smartguard/src/tunnel.rs` | `PeerRuntime`, `endpoint_to_idx`, sessions | the branches of `select!`, `send_keepalive` | packet handlers, timers, sockets | five event sources, awaits inside branches |
| Routes | `smartguard/src/route.rs` | the list of `AddedRoute` | `setup_routes`, `setup_unconfigured_family`, `recheck_routes`, `cleanup_routes` | kernel table, through `route(8)` | commands that fail, networks that change between any two of them |
| DNS | `smartguard/src/dns.rs` | `AppliedDns` | `apply_dns`, `cleanup_dns` | scutil / resolvconf | half-applied changes |
| Configuration | `smartguard/src/config.rs` | - | `Config::from_file` | - | none: parsed once |
| Command line | `smartguard/src/main.rs` | - | `cmd_up`, `run_smartcard`, `obtain_pin` | CardHandle, `run_tunnel` | order of start-up |
| Card enumeration | `list_cards` in `card.rs` | - | one scan | PC/SC | none: a listing |
| PC/SC, the card, the kernel's routes, RustyGuard | external | | | | modelled from their use |

What makes each component correct:

* **CardHandle and thread.** A call returns the answer of the card that was
  opened to the question of that call, or an error. No reply is lost. A stale
  connection is repaired by the request that meets it. The thread outlives the
  handle and then lets go of the card.
* **Routes.** What is installed is recorded; bypasses avoid the tunnel and follow
  the default gateway; what the user had stays; nothing of ours is left at the end but what
  the kernel refuses to delete.
* **Life cycle and DNS.** A process that ends by itself has put routes and resolver back;
  the resolver never outlives the routes it needs; a handled signal ends the process; no
  call of the card is cut off by another branch of the loop.
* **Event loop.** Keepalives are sent after silence only, and at most one tick late, however
  long the card has kept a branch waiting, once the loop has caught up with its interval.
* **Data path.** Packets go to, and are accepted from, the peer that owns the address;
  framing stays within its buffers.

`PROJECT.json` lists the hazards behind these properties, each at its line, with
the properties that cover it or the reason why none does.

## 2. Modules

```
Pcsc         the card, the readers, the PIN          (external)
  CardThread   thread.rs                              EXTENDS Pcsc
    CardOracle   card.rs + thread + card              EXTENDS CardThread, INSTANCE DhOracle
      CardInv      the inductive invariant            EXTENDS CardOracle
        CardProofs   theorems                         EXTENDS CardInv, TLAPS
          OracleProofs the last layers, refinement    EXTENDS CardProofs
        MCCardOracle small sets for TLC               EXTENDS CardInv
DhOracle     what the session layer may rely on      (abstract)

RouteTable   the kernel's routing table              (external)
  Routes       route.rs and its callers in tunnel.rs  EXTENDS RouteTable
    RoutesInv    the inductive invariant              EXTENDS Routes
      PlanProofs   the plan of the set-up             EXTENDS RoutesInv, TLAPS
        RoutesProofs theorems                         EXTENDS PlanProofs
      MCRoutes     small address plans for TLC        EXTENDS RoutesInv
    Tunnel       the life cycle, main.rs to drop      EXTENDS Routes, INSTANCE DhOracle
      TunnelInv    the inductive invariant            EXTENDS Tunnel, RoutesInv
        TunnelProofs theorems                         EXTENDS TunnelInv, RoutesProofs
        MCTunnel     one family, two peers            EXTENDS TunnelInv

PeerNet      build_sessions, peer_net.rs
  PeerNetProofs  theorems                             EXTENDS PeerNet, TLAPS
Framing      buffers of handle.rs
  FramingProofs  theorems                             EXTENDS Framing, TLAPS
EventLoop    select! and the packet handlers          EXTENDS PeerNet, Framing
  LoopInv      the inductive invariant                EXTENDS EventLoop
    LoopProofs   theorems                             EXTENDS LoopInv, proofs above
    MCEventLoop  two peers, overlapping prefixes      EXTENDS LoopInv
```

`Tunnel` joins the two halves: its `select!` branches run the steps of `Routes` and are
the client of `DhOracle`, which `CardOracle` implements. `EventLoop` looks into the same
branches from the other side, at what they send and to whom; there, card, routes and
socket are time that passes.

### Pcsc, CardThread, CardOracle

*State.* `inserted` is the set of cards in readers. `held` and `live` are
the thread's `Card<Open>`: the card it was opened on and whether that connection
still reaches it (pulling the card kills it for good). `pinOk` and `tries` are the
User PIN and its retry counter. `wpc` is where the thread stands
(`scan`, `verify`: in `open_and_verify`; `recv`: in `req_rx.recv()`; `try`,
`reconnect`, `retry`: in `decipher_with_retry`; `pubkey`; `exited`; `panicked`).
`queue` is the `sync_channel`, `cur` the request taken from it, `ready` the readiness
one-shot. Reply one-shots are named by tickets: `chan[t]` tells which ends of the channel
are alive and which value, if any, it holds. `handle`, `call`, `outcome` and
`ssCache` are the handle, its call in progress, the last value returned and the
cache. A reply is not a bit string but the pair of card and peer whose shared
secret it is, which is what the properties have to tell apart.

*History variables.* `svc` notes what the request last taken came to, whether it is
`sound`, and how many VERIFYs the card rejected. A request is sound if the bound card was in
a reader and the cached PIN was right when it was taken, and nothing has gone wrong outside the
program since: the card pulled or its PIN changed (`Interferes`), a card operation or a
reconnect that failed. A card that was absent or a PIN that was changed before makes a
request unsound from the start; a connection that was stale does not. `wasReset` notes that a live connection was dropped
while the thread still served. Neither is read by any guard.

*Steps.* One per point where the thread or the executor can be interleaved with
something else. Thread: `ScanFound`, `ScanFails`, `VerifyOk`, `VerifyFails`,
`VerifyPanics` (`.expect("card available")`), `Recv`, `Try`, `ReconnectOk`,
`ReconnectFails`, `Retry`, `PubKeyOk`, `PubKeyFails`, `Exit`. Handle: `Open`,
`SpawnFails`, `Opened`, `AbandonOpen`, `CallDh` (both `prime_ss` and an
`async_x25519` that misses the cache), `CachedDh`, `CallPubKey`, `Receive`,
`Cancel`, `forget_peer`, `DropHandle`. World: `Insert`, `Remove`, `ChangePin`.

*Cancellation.* `CardHandle` is a public API and its thread is written for callers
that drop their future ("caller went away (e.g. its future was cancelled)",
`thread.rs:102`), so `Cancel` and `AbandonOpen` may happen at any await. SmartGuard's
own event loop awaits the oracle inside its branches and cancels nothing.

*Abstractions.* The 5 s sleep of the retry is the time the world has between `Try`
and `Reconnect*`. One `try_decipher` holds a PC/SC transaction and is one step.
A scan may fail although the card is there (a reader that does not respond). The thread
never looks at another card's PIN counter, so there is one counter.

### DhOracle

The contract: `Bind` one eligible card, then `Invoke` / `Answer` (or `Immediate`)
calls, each answered with `Answers(bound, call)`; `Abandon` a call; `Close`.
`CardOracle!Oracle` is the refinement mapping: `bound` is `ident` while the handle
is open, `phase` the handle, and `call` the call without its ticket.

### RouteTable, Routes

*State.* `default` is each family's default (a gateway, `Link` for an
interface-attached one, `None` offline), `table` the other routes: per destination
absent, or where it leads and whether we added it. `phase` is where `run_tunnel`
stands. `todo` holds the `route` commands left of the set-up or clean-up, computed by
`SetupPlan` in the order the code issues them. `added` is
`CleanupGuard::added_routes`; `probed`, `current`, `next` are the local variables of
`install_passthroughs` and `recheck_routes`; they are forgotten with their functions
(`ForgetRecheck`, `SetupDone`). Two history variables, read by no guard: `unmended`, the entries
the last recheck failed to add again, and `stuck`, the destinations the last
`route delete` of which failed.

*Steps.* Set-up: `AddBypass`, `ProbeDefault`, `AddPassthrough`, `AddNet`, `SetupDone`
(DNS and first handshakes), `LoopBegins`. Loop: `Tick` and `SendErr` start a recheck,
`RecheckEntry` handles one entry, `RecheckDone` returns. `SendErr` is any failing send of the
data path or of a handshake reply, whatever the destination. End: `LoopEnds`
(from the loop, or when a handler cannot be registered), `DeleteRoute`, `Exit`; or
`SignalKills`, at any time: SIGINT and SIGTERM before their handlers are registered,
SIGHUP and SIGKILL always. The
network changes (`NetworkChanges`) between any two steps; with `KernelDrops` the
kernel may drop routes of ours that led through the old default. Each `route add` may
fail; so may each `route delete` (`Delete`), which otherwise removes whatever the destination has;
and so may each question for a default gateway, which the code reads as no gateway.

*Abstractions.* Addresses are model values with a family; `Covering` gives the
prefixes of any length around a host, longest first and a /1 half last. `Lookup` is the kernel's
longest match over these: the host's own route, the longest prefix around it that has a route,
the default. The one UDP socket is bound to `BindFamily`: sends to endpoints of the other
always fail. The lookup and the add of one bypass
are one step, as are the delete and the add of one recheck, either of which may fail: what the
network does between the two is covered by the add failing and by the change happening after it.
The user's own routes are there from the start and stay; with a route added by
the user, while the tunnel is up, for a destination whose route of ours was torn down,
clean-up by destination would delete it. Routes for the tunnel disappear when
the tun device closes.

### Tunnel

*State.* `stage` is where `cmd_up` is: `config`, `pin`, `open`, `pubkey`, `prime`
(`run_smartcard`), `build` (`build_sessions` and the socket), `device`, `guarded` (there
is a `CleanupGuard`; `phase` of Routes tells where), `unwind` (it has been dropped,
the sessions not yet), `gone`. `branch` is the branch of `select!` being served; the
tick has two parts, `turn` and `keepalive`, with the recheck between them. `left` counts
the calls of the card a stage or branch can still make. `resolver` is the user's, the
tunnel's, `half` (a command that failed may have changed it) or `kept` (the command that
should put it back failed); `applied` says whether the guard holds an `AppliedDns`; `signal` that a
handled signal waits. `oracle`, `bound`, `call` and `outcome` are DhOracle's variables;
with a software key `oracle` stays `new`.

*Steps.* `ReadConfig` to `CreateDevice` each succeed or return what is open to its
owner. Under the guard `SetupRoute`, `ApplyDns`, `Registered`; in the loop `Chosen`,
`TurnDone`, `Recheck`, `SendFailed`, `Served`, `Signalled`, `Fails`; at the end
`CleanupDns`, `CleanupRoute`, `CloseDevice`, `DropSessions`, in the order of the drops.
`AskPubKey`, `AskPrime`, `AskDh`, `CardAnswers` and `PubKeyPanics` are the card's calls:
while one is in flight nothing else of the loop moves, but signals arrive, the network
changes and the process may be killed.

*Abstractions.* `CallsOf` bounds the DHs of a branch: one per peer for `turn` and the
keepalive pass, two for a datagram, one for a packet. A resolver command that fails may or
may not have changed the resolver. The undo commands (`route delete`, `cleanup_dns`) may fail
too, which the code ignores; what they then leave is `stuck` or `kept`.

### PeerNet, Framing

`PeerNet` inserts prefix by prefix as `build_sessions` does (`slot`, `nth`: the peer and
the prefix it is at) into a `trie` whose roots hold the sentinel; `Lookup` is the longest
match. The reference, `Owns`, is read off the configuration: the longest prefix, and of the
peers with the same prefix the last. The bits of an address are abstracted to the
set of prefixes that cover it; the assumption keeps what matters, that two
prefixes of one length do not cover the same address.

`Framing` is the arithmetic of offsets and lengths in `handle_intern`, `handle_extern`
and `send_keepalive`, without state.

### EventLoop

*State.* `at` is where `run_tunnel` is; `keyed` the peers with a transport session and `ep`
where `Sessions` sends to, which roams. `since` is `now - last_sent` of each peer with a
keepalive; `behind` the time since the tick last served came due, so that a tick waits when it is
a `Second` or more (tokio's default, Burst, makes up for each); `lag` the time since the keepalive pass took its `now`; `ticked` whether the first
tick was served. `queue` holds the peers a pass has still to serve, `buffer` is
`maintenance_buffer`, `pkt` what a handler returned.

*History variables.* `quiet`: time since a datagram to the peer left. `idle`: time since a
packet went to its configured endpoint. `missed`: peers whose `last_sent` moved without a
datagram to them. No guard reads them.

*Time.* Ticks come due each `Second` units of time, however late the one before was served. A unit
may pass between any two steps of a branch, so a packet leaves at any unit between two ticks, and
the tick at which its interval would be over in whole seconds may find less than that: the
keepalive then waits for the next tick. This is what `behind` in `NobodyOverdue` and
`MappingKeptOpen` allows for: at a time with all ticks served, what has passed since the last
of them came due, less than one `Second`.

*Steps.* `Pass` is one unit of time, and may come wherever the loop sleeps or a branch awaits
something. Otherwise one step per await or handler: `Build`, `SessionsBuilt`, `Greet`,
`LoopBegins`; `Tick`, `Turn`, `TurnDone`, `SendMaintenance`, `StartKeepalives`,
`SendKeepalive`, `KeepalivesDone`; `Handshake`, `Data`, `WriteTun`; `Packet`, `SendPacket`;
`LoopEnds`.

*Abstractions.* `Sessions` is external. With keys it answers data; without, a handshake
or an error; an error without an endpoint; it gains and loses keys as it likes. `Handshake`
stands for every handshake datagram, answered or not. A packet is its address and length; one too short to have an
address is dropped, which is no step. Datagrams that do not decrypt change nothing.

## 3. Runs

| Run | Instance | Shows |
|---|---|---|
| `card` | 2 cards, handle `auto`, 2 peers (one of low order), capacity 1, 3 tickets, PIN counter 2; 684 000 states | `TypeOK`, `AInv`, `AnswersOwnCall`, `StaysOnCard`, `WorkerOutlivesHandle`, `StaleHandleHeals`, `DhAlwaysAnswered`; `ImplementsOracle` |
| `card_queue` | 1 card, 1 peer, capacity 2, 4 tickets, with fairness; 350 000 states | `OnlyNewestAwaited`, `AnswerOnItsWay`; `ThreadRunsDown`, `CallReturns`, `ShutdownCompletes` |
| `routes` | IPv6 catch-all, IPv4 unconfigured with one exemption, an endpoint in each family, IPv4 networks with 2 gateways, an interface-attached default or none, a fixed IPv6 gateway, the exempt prefix around one of the endpoints and possibly routed by the user already; 1.3 M states | `TypeOK`, `RInv`, `NoRouteLeaked`, `CleanExit`, `StoredGatewayIsUsed`, `RecheckLeavesNoneStale`, `BypassAvoidsTun`, `ProbeSeesOriginalDefault`; `UserRoutesKept` |
| `traffic` | 2 peers with overlapping and coinciding prefixes, 3 addresses in two families, 2 places, 2 units of time to the tick, keepalives of 1 and 2 ticks, packets of 2016 and 2017 bytes, 2048-byte buffers with a 4-byte kernel header, `MaxBacklog` 3 units; 2.3 M states | `TypeOK`, `LInv`, `LookupIsOwner`, `NobodyOverdue`, `MappingKeptOpen`, `InboundOwned`, `OutboundOwned`, `OnlyOversizedPanics`; `KeepaliveOnlyAfterSilence` |
| `tunnel` | 2 peers, one of low order, 2 cards, one of them eligible, or a software key; one family with an endpoint and a catch-all, 2 gateways and offline, routes the kernel drops, with fairness; 236 000 states | `LifeTypeOK`, `TInv`, `RestoredOnReturn`, `ResolverBehindRoutes`; `CallsRunToTheirEnd`, `GuardRunsDown`, `RespectsOracle`, `RespectsRoutes`, `SignalEndsTunnel` |
| `card_ss`, `card_pubkey`, `card_pin`, `card_reset` | 1 card, 1 peer | disagreements, section 6 |
| `routes_retry`, `routes_probe` | IPv4 only; IPv4 with a catch-all for a family the interface has no address of | disagreements, section 6 |
| `tunnel_exit` | as `tunnel`, without fairness | disagreement, section 6 |

Bounds, and why they are enough:

* *Two cards, one of which is bound.* `StaysOnCard` needs a wrong card to
  choose; more cards are interchangeable with it.
* *Two peers.* One to ask for and one to be confused with; the second has a low-order key,
  which reaches `ZeroSharedSecret`.
* *Capacity 1 or 2 instead of 32, capacity + 2 tickets.* A cancelled request in
  service, cancelled ones in a full channel and a call in progress are all there
  with capacity 2; `TicketAssumption` says how many tickets can be in use at once.
  The theorems hold for any capacity.
* *`PinLimit` 2.* One request can exhaust it, and a counter of 0 is an initial state.
* *Two gateways* for IPv4: old and new, besides an interface-attached default, which the code treats
  as no gateway, and none at all. IPv6 keeps its gateway, which a question may still fail to
  find: a recheck that mixed up the families would move its bypass.
* *`Second` 2.* A packet can leave between two ticks, which is what makes a keepalive up to one
  tick late: the K-th tick after it finds less than the interval gone by. More units
  only divide the same delay more finely; the theorems hold for any number.
* *`MaxBacklog` 3.* One and a half ticks' time may pass while one branch is busy. One
  late tick and time behind it is what tells `lag`, `behind` and `since` apart; the theorems
  hold for any value.
* *Keepalives of 1 and 2 ticks.* An interval the loop can miss by being late once, and one it can
  miss only by being late twice. 0, no keepalive, is covered by the theorems.
* *Packets of 2016 and 2017 bytes.* The longest whose frame fits and the shortest whose frame does
  not. What shorter ones need of padding is in the theorems of `FramingProofs`.
* *A prefix around an endpoint, in `routes`.* It is the exempt one, and where the user has a route of
  their own for it the bypass goes where that leads, which is neither the default nor a half;
  the pass-through for it is then refused, and must be left to the user at the end. What an AllowedIP around an endpoint does is
  in the theorems `BypassesAvoidTun` and `ProbesSeeDefault`, and in `routes_probe`.
* *`CallsOf`.* No branch can make more calls, so the bound leaves nothing out; without one
  `SignalEndsTunnel` would fail in a branch that asks for ever.
* *One family in `tunnel`.* What two families add to the routes is in `routes`; the theorems
  on `Tunnel` hold for both.
* Time is bounded by `MaxBacklog`; the histories `quiet` and `idle` stop at
  `Ceiling(p)` and `Keepalive[p]`, beyond which no property tells values apart. Nothing else counts
  upward except positions in finite lists; no state constraint is used.

`CHECK_DEADLOCK FALSE` in every run: the system may stop (the handle is dropped and
the thread has exited; the process has exited).

Each property of a passing run has a mutant in `PROJECT.json`: an operator,
marked `Mutant` in the modules, that changes one definition the way a plausible
bug would, under which TLC finds the property violated.

## 4. Fairness

`CardOracle!FairSpec`: weak fairness of the thread's steps (the OS schedules the
thread; every PC/SC call returns), of `Opened` and of `Receive` (the executor polls a
task whose one-shot has resolved). Nothing obliges a caller to call, cancel or
drop, nor a card to come back.

`Routes!FairSpec`: weak fairness of what `run_tunnel` and its `route` commands do
next, and strong fairness of each `SendFails(h)`, the failing send to an endpoint that cannot be
reached: a peer whose datagrams keep
failing is met with a failing send in the end. Without strong fairness
`FailedBypassRetried` (run `routes_retry`) would fail for the wrong reason. Signals, errors and changes of
network are never owed.

`Tunnel!TunnelFairness`: weak fairness of the process as a whole (`Starting`, `Looping`,
`Calling`, `Ending`): its commands return, and so do the calls of the card, which is what
`CallReturns` shows of `CardOracle`. Strong fairness of `Signalled`: `select!` polls its
branches in random order, so a branch that is ready at poll after poll is chosen. With a
biased `select!` a busy tunnel could ignore its signals. Arrivals of signals,
`Killed` and changes of network are never owed.

`EventLoop` has no fairness: that keepalives come in time is stated as safety, about the
states in which the loop has served its ticks (`Punctual`).

## 5. Proofs

### The card

`CardProofs` proves, from `PcscAssumption`, `ThreadAssumption` and
`TicketAssumption` alone, for all values of the constants:

| Theorem | Statement |
|---|---|
| `TypeCorrect` | `Spec => []TypeOK` |
| `CardNeverChanges` | `Spec => []StaysOnCard` |
| `WorkerServesHandle` | `Spec => []WorkerOutlivesHandle` |
| `OnlyNewestIsAwaited` | `Spec => []OnlyNewestAwaited` |
| `InductiveInvariant` | `Spec => []IInv` |
| `CallsGetTheirOwnAnswer` | `Spec => []AnswersOwnCall` |

None of the safety properties is inductive by itself. `AnswersOwnCall`, for instance,
says nothing of a value that waits in a one-shot. `CardInv` strengthens them in layers,
each preserved by every step given the layers before it:

1. `Typed`: types, and the VERIFYs burned so far.
2. `Bound`: the readiness one-shot ties handle and thread together. It resolves `ok` only
   when the thread has reached its loop; the handle opens only on `ok`; while it is open its
   sender exists, so the thread cannot leave the loop; and every reconnect compares
   idents. Gives `StaysOnCard` and `WorkerOutlivesHandle`.
3. `Wired`: each request in flight has a reply channel of its own; the only receiver left is
   that of the call in progress, and its request is the last one sent.
   Gives `OnlyNewestAwaited`. Without the last clause a cancelled call's
   answer could reach its successor.
4. `Truthful`: what is sent, cached or returned is a secret of the bound card and of the
   key asked for. Gives `AnswersOwnCall`.

The proof of each layer has one lemma each for the thread's, the handle's and the
world's steps, with one step per action; `RequestDone`, `SendDone`, `RecvWires` and
`EnqueueWires` carry the reasoning about channels. The run `card` checks `IInv` too.

### The routes

`RoutesProofs` proves, from `TableAssumption` and `RoutesAssumption`, for all address
plans, configurations and networks:

| Theorem | Statement |
|---|---|
| `RoutesTyped` | `Spec => []TypeOK` |
| `RoutesInvariant` | `Spec => []RInv` |
| `RoutesRecorded` | `Spec => []NoRouteLeaked` |
| `CleanExits` | `Spec => []CleanExit` |
| `UsersKeepRoutes` | `Spec => UserRoutesKept` |
| `StoredIsUsed` | `Spec => []StoredGatewayIsUsed` |
| `RechecksLeaveNoneStale` | `Spec => []RecheckLeavesNoneStale` |
| `BypassesAvoidTun` | if `AsksFirst(Bypassed)`, `Spec => []BypassAvoidsTun` |
| `ProbesSeeDefault` | if `AsksFirst(Bypassed \cup Probes)`, `Spec => []ProbeSeesOriginalDefault` |

`AsksFirst(H)` is a condition on the configuration alone: no AllowedIP is an address of
`H`, and no AllowedIP, catch-all or not, is a prefix around an address of `H` of a family the
interface has no address of. For a family it has an address of, `setup_routes` asks for the
bypasses before it adds any prefix, so that prefixes around the endpoints do no harm, of whatever
length; for the others the bypasses and probes of `setup_unconfigured_family` come after the
prefixes of `setup_routes`. A route for 10.0.0.0/8 around an endpoint of such a family, or for
1.0.0.0/8 around a probe, answers the question instead of the original default, and so do
the halves of a catch-all. For probes that is the finding `routes_probe`, whose
configuration breaks the condition; so the theorem says how far the comment in `route.rs`
is true.

What the plan of the set-up looks like is not assumed but proved, in `PlanProofs`:

* `PlanTyped`: it is a sequence of commands, whatever the lists of the configuration.
* `PlanOrdered`: under `AsksFirst(H)` no command for an address of `H` comes after one
  that captures the address.
* `ProbesPlanned`: what is probed are the probes.

The plan is computed by folds over lists (`FlattenSeq`, `SelectSeq`). The induction this takes
is by least counterexample: `UpTo` turns the well-foundedness of the naturals, which the library
states without an operator parameter, into the principle that a property of lengths
that each step keeps holds up to the end. `FlattenUnfolds`, `FlattenTyped` and
`JoinSorted` use it on the partial results of the fold.

The parts of `RInv`:

* `Recorded`: no entry of `added_routes` names a destination the user has a route for, and the
  kinds of entries fit their destinations. A recheck and a clean-up delete by
  destination alone; this is why they hit no route of the user.
* `NoRouteLeaked` and `BeingRemoved`: a route of ours is in the list, then among the commands
  of the clean-up left to run, or stuck. Gives `CleanExit`.
* `StoredGatewayIsUsed`: inductive with `Recorded`, which keeps a `Pass` entry from sharing its
  destination with a bypass. It excepts what is stuck: with no gateway to go to, `recheck_routes`
  records the tear-down of a bypass even if the delete failed.
* `Rechecked`: a bypass that leads elsewhere than the gateways read at the start is of an entry not
  before `next`, or stuck. Gives `RecheckLeavesNoneStale`, about the table rather than the record.
* `BypassesFirst` and `ProbesFirst`: as long as an address is still to be asked for, nothing of
  ours captures it, and the commands that are left keep it so. `FirstAsked(H)` is the
  same formula for the endpoints and for endpoints and probes together; the second is not a
  consequence of the first, as a configuration may cover a probe address and no
  endpoint. Inductive with nothing but the order of the plan, which `FewerAsked`
  passes on from a plan to its tail.

`TableChanges` and `ListChanges` say once what any step may do to the table and to the list;
the conjuncts are proved from these.

### The card implements the oracle

`OracleProofs` adds three layers. `Answered`: what is sent is a secret or an error of the
thread, what is cached is no zero secret, and each DH the thread took has been answered or is
being served. `Healed`: as long as the request is sound, the bound card is there, its PIN is right
and a reconnected connection is alive; and what a request came to is noted at its end only. `Carried`: the
sender of a one-shot that is waited on is with the request in the channel or with the one being
served, or the value is there. Together with `IInv`
they are `AInv`, which the run `card` checks.

| Theorem | Statement |
|---|---|
| `OracleInvariant` | `Spec => []AInv` |
| `StaleHandlesHeal` | `Spec => []StaleHandleHeals` |
| `DhsAreAnswered` | `Spec => []DhAlwaysAnswered` |
| `CardImplementsOracle` | `Spec => ImplementsOracle` |
| `WaitingCallsAreInFlight` | `Spec => []AnswerOnItsWay` |
| `ThreadWindsDown` | `Spec => ThreadRunsDown` |
| `TicketsSuffice` | `Spec => [](call = NoCall => FreeTickets # {})` |

`CardImplementsOracle` is a step simulation: most steps of thread and world stutter; `Opened`, the
calls, `Receive` and the drop map to steps of `DhOracle`. That a received value is one of
`Answers(bound, call)` is where the layers come in.

Two theorems are what `CallReturns` and `ShutdownCompletes` need besides fairness. `AnswerOnItsWay`:
no call waits on a one-shot that nobody can resolve any more. `ThreadRunsDown`: each step of the
thread lowers `Work`, which counts the steps left for the request being served
and those in the channel, and only a new handle or a new call raises it; so the
thread, scheduled, gets to every request and to its exit. `TicketsSuffice` discharges a
modelling decision: with `TicketAssumption`'s number of tickets `oneshot::channel()`
never lacks one.

### Framing and cryptokey routing

`FramingProofs` proves, from `FramingAssumption`, for all lengths: `PaddingAlwaysFits` (of
whatever the device can have put into the buffer), `FrameFitsExactly` (the frame fits if and
only if the packet has at most `BufLen - 32` bytes), `PacketSurvives` (a frame is header,
padded packet, tag, with less than 16 bytes of padding), `InboundSliceFits`
(`handle_extern`'s slice lies in the datagram and has room for the kernel header) and
`KeepaliveIsEmpty`.

`PeerNetProofs` proves `LookupsAreOwners`, `NetSpec => []LookupIsOwner`, for any
prefixes in any order. The invariant behind it, `TrieIsLatest`, says that each prefix leads to
the last peer that has claimed it so far.

### The event loop

`LoopProofs` proves, from the assumptions of the three modules, for any number of peers, any
intervals, any backlog and any number of units of time to the tick:

| Theorem | Statement |
|---|---|
| `LoopTyped`, `LoopInvariant` | `Spec => []TypeOK`, `Spec => []LInv` |
| `KeepalivesInTime` | `Spec => []NobodyOverdue` |
| `MappingsKeptOpen` | `Spec => []MappingKeptOpen` |
| `KeepalivesAfterSilence` | `Spec => KeepaliveOnlyAfterSilence` |
| `RoutingIsConfigured` | `Spec => []LookupIsOwner` |
| `InboundsOwned`, `OutboundsOwned` | `Spec => []InboundOwned`, `Spec => []OutboundOwned` |
| `PanicsAreOversized` | `Spec => []OnlyOversizedPanics` |

The parts of `LInv` besides types and `TrieIsLatest`:

* `PacketRouted`: what waits to be sent or written is what the trie said, and the place
  is still the peer's; a peer with keys has a place.
* `OverdueBounded`: `last_sent` is less ago than the interval and `behind`, the time since the tick
  last served came due. During a pass `lag` is at most `behind`, so the old `now` that
  is stored does no harm. This is the whole reason `NobodyOverdue` survives a card that
  blocks the loop; with tokio's `Skip` or `Delay` it would not be inductive.
* `QuietTracked`: the wire has been silent no longer than `last_sent` says, outside
  `missed`.
* `IdleTracked`: and not shorter, for packets to a peer that has its endpoint's slot.

### The life cycle

`TunnelProofs` proves, from `TunnelAssumption` and those of Routes:

| Theorem | Statement |
|---|---|
| `TunnelRoutes` | `TunnelSpec => RespectsRoutes` |
| `TunnelRespectsOracle` | `TunnelSpec => RespectsOracle` |
| `TunnelTyped`, `TunnelInvariant` | `TunnelSpec => []LifeTypeOK`, `TunnelSpec => []TInv` |
| `ReturnRestores` | `TunnelSpec => []RestoredOnReturn` |
| `ResolverInside` | `TunnelSpec => []ResolverBehindRoutes` |
| `CallsEndThemselves` | `TunnelSpec => CallsRunToTheirEnd` |
| `TunnelBypasses` | if `AsksFirst(Bypassed)`, `TunnelSpec => []BypassAvoidsTun` |
| `GuardWindsDown` | `TunnelSpec => GuardRunsDown` |

`TunnelRoutes` makes the theorems about Routes hold of the tunnel, `RInv` among them, which
`TInv` includes. Its other parts: `StageKnown` (before the guard nothing of ours is
there, after it nothing is left but what is stuck), `AppliedKnown` (the guard knows of the resolver exactly
when it is set by a command that succeeded), `NetsInPlace` (the routes outlast the resolver), `CallKnown` (a call
is in flight only where it is awaited), `BranchKnown` (there is a branch only in the loop).

`GuardRunsDown` is what `SignalEndsTunnel` needs besides fairness. `Ahead` bounds what is left
until the next poll of `select!` or the end: calls of the card, entries of a recheck, the
parts of the branch that come after, and the undoing of what is installed. Each step of
the process lowers it, whatever fails; signals that arrive and changes of network leave
it as it is. What is left to fairness is that the calls return and that `select!` does not
pass over the signal at every poll.

### Only model-checked

* `CallReturns`, `ShutdownCompletes`, `SignalEndsTunnel`: liveness under fairness, and ENABLED,
  are out of the prover's reach. Their safety halves are theorems: `WaitingCallsAreInFlight`,
  `ThreadWindsDown`, `GuardWindsDown`.

Every other property of a passing run is stated by a theorem.

## 6. Where the code and what is said of it disagree

Each is a `violation` run that checks the statement as its source words it:

* `card_ss`. "`ss` is cached after the first hit" (`thread.rs:32`): only `prime_ss` caches.
  A peer whose priming failed pays two card operations per handshake.
* `card_pubkey`. `.expect("already got the public key when opening")` (`card.rs:144`):
  the key is asked of the card again, and a failed transaction drops the reply.
* `card_pin`. "One retry on transient errors" (`smartguard-crypto/README.md:193`): every
  error is retried, so a PIN the card rejects is presented twice per request.
* `card_reset`. The resetting drop of `Card<Open>` "only fires at shutdown"
  (`smartguard-crypto/README.md:197`): a reconnect drops the old connection in mid-session.
* `routes_retry`. "failed to install new bypass for {ip}; will retry" (`route.rs:469`):
  the endpoint's datagrams now leave through the tunnel's own routes, no send fails,
  and the tick only looks for a stored gateway of `None`.
* `routes_probe`. "At this point we haven't touched the routing table for `family` yet"
  (`route.rs:128`): `setup_routes` has, if an AllowedIP is a catch-all of that family.
* `tunnel_exit`. "Guard to cleanup our networking settings when exiting for any reason"
  (`tunnel.rs:31`), "Handles SIGINT/SIGTERM for graceful shutdown with route cleanup"
  (`tunnel.rs:100`): not before line 255, after routes, DNS and first handshakes, and never
  for SIGHUP.

Met while modelling, without a run of its own:

* `tunnel.rs:56` calls `last_sent` the "Last time we sent any packet" to the peer. It moves for a
  keepalive that failed, and for a packet to another peer with the same endpoint, and it
  does not move for handshakes and maintenance messages. `missed` is the exception
  `MappingKeptOpen` makes for the first two.
* While a bypass is torn down the /1 routes stay, so that the underlay's datagrams enter
  the tunnel, which `route.rs:8` says the bypasses prevent.
* "we don't track / refresh interface-based bypasses" (`route.rs:51`), and `recheck_routes` leaves
  them alone, "we don't know what to compare against" (`route.rs:413-415`): the code compares `None`
  with the gateway that has appeared, and deletes and replaces them. `RecheckEntry` does so;
  no property takes either side.
* An MTU above 2016 lets a packet through whose frame does not fit the buffer, and
  `handle_intern` panics (`FrameFitsExactly`); nothing checks the MTU.
* When the default returns to its old gateway after the kernel has dropped the bypass, the stored
  gateway equals the current one and the route stays missing. `README.md:9` of the repository
  lists "Stay connected if network gateway change" as done.
* The tick rechecks only if the first bypass has no gateway; a second endpoint's may have none for
  as long as all sends succeed.
* A bypass whose delete fails while there is no gateway is recorded as torn down
  (`route.rs:445-466`) and stays in the table (`stuck`).
* A resolver command that fails half-way leaves no `AppliedDns`, and nothing restores the
  resolver (`resolver = "half"`). One that fails to restore it is not tried again
  (`resolver = "kept"`), though `cleanup_dns` says "DNS restored".

## 7. Not modelled, and why

* The parsing of the configuration: sequential, without state. `ReadConfig` has its
  outcomes; what the parsed values admit is what the constants of the other modules
  range over. A prefix that does not parse panics (`main.rs:90`), which is one of those outcomes.
* `list_cards`: one scan without state. `cmd_down` and `cmd_status` are stubs.
* Cryptography, packet contents, RustyGuard's protocol: external, at the interface the code
  uses.
* The text handed to scutil, resolvconf and route, and the parsers of their output and of
  packet headers.
* Time finer than the units of `Second`, and the millisecond resolution of tokio's timer, by which a
  tick may be late.
* Key rotation on the card during a session: `ss_cache` would be stale, and nothing in
  the code reads the key again.

## 8. What could follow

* A backlog that is proved rather than given: `MaxBacklog` bounds the ticks that wait by
  assumption of the environment.
* The same variant for `EventLoop`: a tick's pass ends, however sessions come and go.
* `EventLoop` and `Tunnel` in one module, with the DHs of each branch as `Pass` steps, which
  would bound `MaxBacklog` by the time the card may take.
