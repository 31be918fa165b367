------------------------------ MODULE CardInv ------------------------------
(***************************************************************************)
(* The inductive invariant of CardOracle, in the layers its proof follows: *)
(* each layer is preserved by every step from a state that satisfies it    *)
(* and the layers before it.                                               *)
(***************************************************************************)
EXTENDS CardOracle

\* Types, and how many VERIFYs the request in service has burned so far.
Typed ==
  /\ TypeOK
  /\ wpc = "try" => svc.burned = 0
  /\ wpc \in {"reconnect", "retry"} => svc.burned <= 1

\* The readiness one-shot ties the life of the handle to that of the thread.
Bound ==
  /\ held \in {ident, NoCard}
  /\ wpc \in Serving \cup {"verify"} =>
       held = ident /\ ident \in KeyCards /\ Requested \in {ident, AutoIdent}
  /\ handle = "new" => wpc = "unborn"
  /\ handle \in {"opening", "open"} => sender
  /\ ready \in {"waiting", "ok", "err", "dropped"} => handle = "opening"
  /\ ready = "ok" => wpc \in Serving
  /\ handle = "open" => wpc \in Serving
  /\ call # NoCall => handle = "open"

\* cur is a request exactly while the thread serves one.
InService ==
  /\ wpc \in {"try", "reconnect", "retry", "pubkey"} <=> cur # NoRequest
  /\ wpc = "pubkey" => cur.op = "pubkey"
  /\ wpc \in {"try", "reconnect", "retry"} => cur.op = "dh"

\* A request r that has its reply sender still is the one awaited only if it
\* is the request of the call in progress.
Owed(r) ==
  /\ chan[r.reply].st \in {"waiting", "orphaned"}
  /\ chan[r.reply].st = "waiting" =>
       /\ r.reply = call.reply
       /\ r.pk = call.pk
       /\ (r.op = "pubkey") <=> (call.op = "pubkey")

\* Each request in flight holds a ticket of its own; the ticket of the call in
\* progress is the only one a receiver still waits on, and it is the last one
\* handed out.
Wires ==
  /\ \A i \in 1 .. Len(queue) : Owed(queue[i])
  /\ cur # NoRequest => Owed(cur)
  /\ \A i, j \in 1 .. Len(queue) : queue[i].reply = queue[j].reply => i = j
  /\ cur # NoRequest => \A i \in 1 .. Len(queue) : queue[i].reply # cur.reply
  /\ \A t \in Tickets : chan[t].st \in {"waiting", "sent", "dropped"} => t = call.reply
  /\ call # NoCall => chan[call.reply].st \in {"waiting", "sent", "dropped"}
  /\ \A i \in 1 .. Len(queue) : queue[i].reply = call.reply => i = Len(queue)
  /\ cur # NoRequest /\ cur.reply = call.reply => queue = <<>>

Wired == InService /\ Wires

\* What is sent, cached or returned is a secret of the card bound and of the
\* key asked for.
Truthful ==
  /\ call.op = "pubkey" => call.pk = NoPeer
  /\ \A t \in Tickets : chan[t].st = "sent" /\ chan[t].val.res = "ok"
       => chan[t].val = Secret(ident, call.pk)
  /\ \A p \in Peers : ssCache[p] # NotCached => ssCache[p] = Secret(ident, p)
  /\ outcome.val.res = "ok" => outcome.val = Secret(ident, outcome.pk)
  /\ wpc \in {"unborn", "scan"} =>
       outcome = NoOutcome /\ \A p \in Peers : ssCache[p] = NotCached

\* The layers so far.
IInv == Typed /\ Bound /\ Wired /\ Truthful

\* A reply the thread may send: a secret that is not all zero, or an error of
\* its own.
Proper(v) == (v.res = "ok" /\ v.pk \notin LowOrder) \/ v \in {Failed(e) : e \in ThreadErrors}

\* Each DH is answered, and properly.
Answered ==
  /\ \A t \in Tickets : chan[t].st = "sent" => Proper(chan[t].val)
  /\ \A p \in Peers : ssCache[p] # NotCached => p \notin LowOrder
  /\ DhAlwaysAnswered

\* A request that nothing has disturbed finds the card in and the PIN good, and
\* after a reconnection a connection that works.
Healed ==
  /\ StaleHandleHeals
  /\ wpc \in {"try", "reconnect", "retry"} /\ svc.sound => ident \in inserted /\ PinAccepted
  /\ wpc = "retry" /\ svc.sound => live
  /\ wpc \in {"unborn", "scan", "verify", "pubkey"} => svc.res = "none"

\* A one-shot with its sender alive is that of a request in flight.
Carried ==
  \A t \in Tickets : chan[t].st \in {"waiting", "orphaned"} =>
    cur.reply = t \/ \E i \in 1 .. Len(queue) : queue[i].reply = t

\* The whole of it, from which the safety properties and the refinement follow.
AInv == IInv /\ Answered /\ Healed /\ Carried
=============================================================================
