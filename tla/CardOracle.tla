----------------------------- MODULE CardOracle -----------------------------
(***************************************************************************)
(* CardHandle (smartguard-crypto/src/card.rs) composed with the card       *)
(* thread and the card.  Every method takes &mut self, so a handle has at  *)
(* most one call in progress; but a future may be dropped while it waits,  *)
(* and then its request stays in the queue with no receiver.               *)
(***************************************************************************)
EXTENDS CardThread

VARIABLES
  handle,     \* new, opening, open, dropped, failed or panicked
  call,       \* the call in progress and the ticket it awaits, or NoCall
  outcome,    \* what the last completed call returned
  ssCache     \* CardHandle::ss_cache

oracleVars == <<handle, call, outcome, ssCache>>
vars == <<pcscVars, threadVars, oracleVars>>

Call == [op : {"dh", "prime", "pubkey"}, pk : Peers \cup {NoPeer}, reply : Tickets]
NoCall == [op |-> "none", pk |-> NoPeer, reply |-> NoTicket]
NotCached == [res |-> "none", card |-> NoCard, pk |-> NoPeer]
Outcome == [op : {"dh", "prime", "pubkey"}, pk : Peers \cup {NoPeer}, val : Reply]
NoOutcome == [op |-> "none", pk |-> NoPeer, val |-> NotCached]

ASSUME TicketAssumption == IsFiniteSet(Tickets) /\ Cardinality(Tickets) >= Capacity + 2

\* oneshot::channel(): a ticket both of whose ends are gone.  There always is
\* one: no more tickets are in use than the channel, the thread and a call hold.
FreeTickets == {t \in Tickets : chan[t].st = "free"}
NewTicket == CHOOSE t \in FreeTickets : TRUE

\* A call returns v to its caller.
Return(op, pk, v) == outcome' = [op |-> op, pk |-> pk, val |-> v]

\* dh's result as its two callers see it: async_x25519 maps every error.
Seen(op, v) == IF op = "dh" /\ v.res # "ok" THEN Failed("KeyExchangeError") ELSE v

WorkerGone == wpc \in {"exited", "panicked"}

-----------------------------------------------------------------------------
(* Opening.                                                                *)

\* CardHandle::open up to the await on the readiness one-shot.
Open ==
  /\ handle = "new"
  /\ handle' = "opening"
  /\ wpc' = "scan"
  /\ sender' = TRUE
  /\ ready' = "waiting"
  /\ UNCHANGED <<pcscVars, ident, queue, cur, chan, svc, wasReset, call, outcome, ssCache>>

\* Builder::spawn fails: there is no thread.
SpawnFails ==
  /\ handle = "new"
  /\ handle' = "failed"
  /\ UNCHANGED <<pcscVars, threadVars, call, outcome, ssCache>>

\* Mutant: a thread that died before it was ready counts as opened.
OpenedByAnyResolution ==
  /\ handle = "opening"
  /\ ready \in {"ok", "err", "dropped"}
  /\ ready' = "gone"
  /\ IF ready # "err"
     THEN handle' = "open" /\ UNCHANGED sender
     ELSE handle' = "failed" /\ sender' = FALSE
  /\ UNCHANGED <<pcscVars, wpc, ident, queue, cur, chan, svc, wasReset, call, outcome, ssCache>>

Opened ==
  /\ handle = "opening"
  /\ ready \in {"ok", "err", "dropped"}
  /\ ready' = "gone"
  /\ IF ready = "ok"
     THEN handle' = "open" /\ UNCHANGED sender
     ELSE handle' = "failed" /\ sender' = FALSE
  /\ UNCHANGED <<pcscVars, wpc, ident, queue, cur, chan, svc, wasReset, call, outcome, ssCache>>

\* The open future is dropped, and with it req_tx and ready_rx.
AbandonOpen ==
  /\ handle = "opening"
  /\ handle' = "dropped"
  /\ sender' = FALSE
  /\ ready' = IF ready = "waiting" THEN "orphaned" ELSE "gone"
  /\ UNCHANGED <<pcscVars, wpc, ident, queue, cur, chan, svc, wasReset, call, outcome, ssCache>>

-----------------------------------------------------------------------------
(* Calls.                                                                  *)

Ready2Call == handle = "open" /\ call = NoCall

\* sender.try_send succeeds.
Enqueue(op, pk) ==
  /\ FreeTickets # {}
  /\ queue' = Append(queue, [op |-> IF op = "pubkey" THEN "pubkey" ELSE "dh",
                             pk |-> pk, reply |-> NewTicket])
  /\ chan' = [chan EXCEPT ![NewTicket] = Empty("waiting")]
  /\ call' = [op |-> op, pk |-> pk, reply |-> NewTicket]
  /\ outcome' = NoOutcome

\* Mutant: the channel admits one request beyond its bound.
CallDhOverfull(op, pk) ==
  /\ Ready2Call
  /\ op = "dh" => ssCache[pk] = NotCached
  /\ Len(queue) <= Capacity /\ ~WorkerGone
  /\ Enqueue(op, pk)
  /\ UNCHANGED <<pcscVars, wpc, ident, sender, ready, cur, svc, wasReset, handle, ssCache>>

\* prime_ss, or async_x25519 on a cache miss, up to the await in dh.
CallDh(op, pk) ==
  /\ Ready2Call
  /\ op = "dh" => ssCache[pk] = NotCached
  /\ IF WorkerGone \/ Len(queue) = Capacity
     THEN /\ Return(op, pk, Seen(op, Failed(IF WorkerGone THEN "ThreadGone" ELSE "QueueFull")))
          /\ UNCHANGED <<queue, chan, call>>
     ELSE Enqueue(op, pk)
  /\ UNCHANGED <<pcscVars, wpc, ident, sender, ready, cur, svc, wasReset, handle, ssCache>>

\* async_x25519 on a cache hit.
CachedDh(pk) ==
  /\ Ready2Call
  /\ ssCache[pk] # NotCached
  /\ Return("dh", pk, ssCache[pk])
  /\ UNCHANGED <<pcscVars, threadVars, handle, call, ssCache>>

\* pubkey up to its await; .expect("... so queue not full") may panic, and the
\* unwinding caller takes the handle along.
CallPubKey ==
  /\ Ready2Call
  /\ IF WorkerGone \/ Len(queue) = Capacity
     THEN /\ handle' = "panicked"
          /\ sender' = FALSE
          /\ UNCHANGED <<queue, chan, call, outcome>>
     ELSE /\ Enqueue("pubkey", NoPeer)
          /\ UNCHANGED <<handle, sender>>
  /\ UNCHANGED <<pcscVars, wpc, ident, ready, cur, svc, wasReset, ssCache>>

\* What rx.await yields: the value sent, or an error once the sender is gone.
Awaited(t) == IF chan[t].st = "sent" THEN chan[t].val ELSE Failed("ReplyDropped")

\* Mutant: prime_ss caches whatever dh returned.
ReceiveCachesErrors ==
  /\ call # NoCall
  /\ chan[call.reply].st \in {"sent", "dropped"}
  /\ chan' = [chan EXCEPT ![call.reply] = Empty("free")]
  /\ call' = NoCall
  /\ Return(call.op, call.pk, Seen(call.op, Awaited(call.reply)))
  /\ ssCache' = IF call.op = "prime"
                THEN [ssCache EXCEPT ![call.pk] = Awaited(call.reply)]
                ELSE ssCache
  /\ UNCHANGED <<pcscVars, wpc, ident, sender, ready, queue, cur, svc, wasReset, handle>>

\* The await resolves and the call returns; prime_ss fills the cache first.
Receive ==
  /\ call # NoCall
  /\ chan[call.reply].st \in {"sent", "dropped"}
  /\ chan' = [chan EXCEPT ![call.reply] = Empty("free")]
  /\ call' = NoCall
  /\ LET v == Awaited(call.reply) IN
     IF call.op = "pubkey" /\ v.res # "ok"
     THEN /\ handle' = "panicked"
          /\ sender' = FALSE
          /\ UNCHANGED <<outcome, ssCache>>
     ELSE /\ Return(call.op, call.pk, Seen(call.op, v))
          /\ ssCache' = IF call.op = "prime" /\ v.res = "ok"
                        THEN [ssCache EXCEPT ![call.pk] = v]
                        ELSE ssCache
          /\ UNCHANGED <<handle, sender>>
  /\ UNCHANGED <<pcscVars, wpc, ident, ready, queue, cur, svc, wasReset>>

\* Mutant: one reply channel serves every call, so a cancelled call's is reused.
CancelReusesChannel ==
  /\ call # NoCall
  /\ chan' = [chan EXCEPT ![call.reply] = Empty("free")]
  /\ call' = NoCall
  /\ UNCHANGED <<pcscVars, wpc, ident, sender, ready, queue, cur, svc, wasReset,
                 handle, outcome, ssCache>>

\* Mutant: the receiver outlives the future.
CancelKeepsReceiver ==
  /\ call # NoCall
  /\ call' = NoCall
  /\ UNCHANGED <<pcscVars, threadVars, handle, outcome, ssCache>>

\* The caller drops the future: the receiver goes, the request does not.
Cancel ==
  /\ call # NoCall
  /\ chan' = [chan EXCEPT ![call.reply] =
                Empty(IF @.st = "waiting" THEN "orphaned" ELSE "free")]
  /\ call' = NoCall
  /\ UNCHANGED <<pcscVars, wpc, ident, sender, ready, queue, cur, svc, wasReset,
                 handle, outcome, ssCache>>

forget_peer(pk) ==
  /\ Ready2Call
  /\ ssCache' = [ssCache EXCEPT ![pk] = NotCached]
  /\ UNCHANGED <<pcscVars, threadVars, handle, call, outcome>>

\* Mutant: the sender is kept until the thread is joined.
DropHandleKeepsSender ==
  /\ Ready2Call
  /\ handle' = "dropped"
  /\ UNCHANGED <<pcscVars, threadVars, call, outcome, ssCache>>

\* Field order: the sender drops, then the join handle (which detaches).
DropHandle ==
  /\ Ready2Call
  /\ handle' = "dropped"
  /\ sender' = FALSE
  /\ UNCHANGED <<pcscVars, wpc, ident, ready, queue, cur, chan, svc, wasReset,
                 call, outcome, ssCache>>

Client ==
  \/ Open \/ SpawnFails \/ Opened \/ AbandonOpen
  \/ \E pk \in Peers, op \in {"dh", "prime"} : CallDh(op, pk)
  \/ \E pk \in Peers : CachedDh(pk) \/ forget_peer(pk)
  \/ CallPubKey \/ Receive \/ Cancel \/ DropHandle

-----------------------------------------------------------------------------
(* The world outside the program.  Pulling the card, or changing its PIN,  *)
(* is noted against the request in service.                                *)

Interferes(b) ==
  /\ svc' = [svc EXCEPT !.sound = @ /\ ~(b /\ cur # NoRequest)]
  /\ UNCHANGED <<wpc, ident, sender, ready, queue, cur, chan, wasReset>>

World ==
  \/ \E c \in Cards : Insert(c) /\ UNCHANGED threadVars
  \/ \E c \in Cards : Remove(c) /\ Interferes(c = held)
  \/ ChangePin /\ Interferes(TRUE)

Init ==
  /\ ThreadInit
  /\ handle = "new"
  /\ call = NoCall
  /\ outcome = NoOutcome
  /\ ssCache = [p \in Peers |-> NotCached]

Next ==
  \/ Client
  \/ (Worker /\ UNCHANGED oracleVars)
  \/ (World /\ UNCHANGED oracleVars)

Spec == Init /\ [][Next]_vars

\* The OS runs the thread, PC/SC calls return (each has its own timeout), and
\* the executor polls a task whose one-shot has resolved.  Nothing obliges the
\* caller to call, cancel or drop, nor the world to touch the card.
Fairness ==
  /\ WF_vars(Worker /\ UNCHANGED oracleVars)
  /\ WF_vars(Opened)
  /\ WF_vars(Receive)

FairSpec == Spec /\ Fairness

-----------------------------------------------------------------------------
(* Properties.                                                             *)

\* Every variable keeps its type, and the request channel its bound
\* (MAX_HANDSHAKE_REQUEST, thread.rs).
TypeOK ==
  /\ ThreadTypeOK
  /\ handle \in {"new", "opening", "open", "dropped", "failed", "panicked"}
  /\ call \in Call \cup {NoCall}
  /\ outcome \in Outcome \cup {NoOutcome}
  /\ ssCache \in [Peers -> Reply \cup {NotCached}]

\* A call that succeeds returns the secret of its own peer with the key of the
\* card the handle was opened on, from the queue or from the cache, whatever
\* requests were cancelled before it and whatever cards came and went.
AnswersOwnCall ==
  outcome.val.res = "ok" => outcome.val = Secret(ident, outcome.pk)

\* The thread never serves from another card than the one it reported when it
\* became ready, and that one is the one asked for: reconnect compares idents.
StaysOnCard ==
  /\ held \in {ident, NoCard}
  /\ wpc \in Serving => held = ident /\ ident \in KeyCards /\ Requested \in {ident, AutoIdent}

\* As long as a CardHandle is open the worker is in its loop, so try_send never
\* meets a disconnected channel.
WorkerOutlivesHandle == handle = "open" => wpc \in Serving

\* In the channel and in service, every request but the newest was cancelled,
\* and the newest is the one the call in progress awaits.
Pending == (IF cur = NoRequest THEN <<>> ELSE <<cur>>) \o queue
OnlyNewestAwaited ==
  \A i \in 1 .. Len(Pending) :
    chan[Pending[i].reply].st = "waiting" =>
      i = Len(Pending) /\ call.reply = Pending[i].reply

\* A call that waits has not been forgotten: its request is in the channel or in
\* service, and the thread is in the loop that answers it.
AnswerOnItsWay ==
  call # NoCall /\ chan[call.reply].st = "waiting" =>
    wpc \in Serving /\ \E i \in 1 .. Len(Pending) : Pending[i].reply = call.reply

\* How many steps the thread has left at most: each request costs it four, the
\* one retry included.
StepsLeft == [unborn |-> 0, scan |-> 3, verify |-> 2, recv |-> 1, try |-> 4, reconnect |-> 3,
              retry |-> 2, pubkey |-> 2, exited |-> 0, panicked |-> 0]
Work == StepsLeft[wpc] + 4 * Len(queue)

\* Each step of the thread brings it nearer to rest, and only opening and a call
\* give it work: no request keeps it busy for ever ("One retry on transient
\* errors", smartguard-crypto/README.md), not even one that nobody awaits.
ThreadRunsDown ==
  [][/\ Worker => Work' < Work
     /\ Work' > Work => handle = "new" \/ Ready2Call]_vars

\* A connection that went stale before a request was taken is healed within that
\* request.  If at that moment the card was in a reader and its PIN was the one
\* cached, the request fails only when the card is pulled, its PIN changed or an
\* exchange with it goes wrong while the request is served (thread.rs,
\* decipher_with_retry).
StaleHandleHeals ==
  wpc = "recv" /\ svc.res \in ThreadErrors \ {"ZeroSharedSecret"} => ~svc.sound

\* A prime_ss never ends with "card thread is gone" or "card thread dropped
\* reply": each DH request taken from the channel is answered.
DhAlwaysAnswered ==
  /\ outcome.val.res \notin {"ThreadGone", "ReplyDropped"}
  /\ call.op \in {"dh", "prime"} => chan[call.reply].st # "dropped"

\* thread.rs: "`ss` is cached after the first hit".  A DH that had to go to the
\* card leaves its secret in the cache.
SsCachedAfterFirstHit ==
  [][outcome' # outcome /\ outcome'.op = "dh" /\ outcome'.val.res = "ok"
       => ssCache'[outcome'.pk] # NotCached]_vars

\* card.rs: .expect("already got the public key when opening").  Once the card
\* was opened, a public key request is answered.
PubKeyAnswered == call.op = "pubkey" => chan[call.reply].st # "dropped"

\* smartguard-crypto/README.md: "One retry on transient errors".  One request
\* therefore costs the card at most one of its few VERIFY attempts.
OneRejectedVerifyPerRequest == svc.burned <= 1

\* smartguard-crypto/README.md: the ResetCard disposition of the drop of
\* Card<Open> "only fires at shutdown".
ResetOnlyAtShutdown == wasReset => WorkerGone

\* CardHandle implements the oracle it promises.
Oracle == INSTANCE DhOracle WITH
  Eligible <- {c \in KeyCards : Requested \in {c, AutoIdent}},
  phase <- IF handle \in {"new", "opening", "open"} THEN handle ELSE "over",
  bound <- IF handle = "open" THEN ident ELSE NoCard,
  call <- [op |-> call.op, pk |-> call.pk]
ImplementsOracle == Oracle!Spec

\* A call that is not cancelled returns (or panics): no reply is lost.
CallReturns == (call # NoCall) ~> (call = NoCall)

\* However the handle goes, the thread drains the channel, exits and lets go of
\* the card (thread.rs: "exits cleanly when the request-sender ... is dropped").
ShutdownCompletes ==
  (handle \in {"dropped", "failed", "panicked"})
    ~> (wpc \in {"unborn", "exited", "panicked"} /\ held = NoCard /\ queue = <<>>)
=============================================================================
