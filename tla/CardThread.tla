----------------------------- MODULE CardThread -----------------------------
(***************************************************************************)
(* The "smartguard-pcsc" OS thread of smartguard-crypto/src/thread.rs: it  *)
(* opens the card, reports readiness on a one-shot, then drains a bounded  *)
(* MPSC queue of requests, answering each on the one-shot it carries.      *)
(*                                                                         *)
(* A one-shot channel is named by a ticket; a ticket is free again when    *)
(* both ends of its channel are gone.                                      *)
(***************************************************************************)
EXTENDS Pcsc, Sequences, FiniteSets

CONSTANTS
  Peers,      \* X25519 public keys a DH can be asked for
  LowOrder,   \* those whose shared secret is all zero
  NoPeer,     \* the peer of a request that names none
  Tickets,    \* one-shot channels
  NoTicket,
  Capacity,   \* MAX_HANDSHAKE_REQUEST
  Requested,  \* the ident asked for: a card, or AutoIdent
  AutoIdent

ASSUME ThreadAssumption ==
  /\ LowOrder \subseteq Peers
  /\ NoPeer \notin Peers
  /\ NoTicket \notin Tickets
  /\ Capacity \in Nat \ {0}
  /\ Requested \in Cards \cup {AutoIdent}
  /\ AutoIdent \notin Cards

VARIABLES
  wpc,        \* where the thread stands
  ident,      \* the ident the thread (and CardHandle) remembers
  sender,     \* the SyncSender<Request> still exists
  ready,      \* the readiness one-shot
  queue,      \* the bounded request channel
  cur,        \* the request in service, or NoRequest
  chan,       \* the reply one-shots
  svc,        \* history: what happened to the request last taken
  wasReset    \* history: a Card<Open> was dropped on the tunnel's card
              \* while the thread was still serving

threadVars == <<wpc, ident, sender, ready, queue, cur, chan, svc, wasReset>>

-----------------------------------------------------------------------------
(* Requests, replies and channels.                                         *)

\* What the thread answers, and what CardHandle adds to it.  ThreadGone and
\* ReplyDropped are CardError with the message of the channel that failed.
ThreadErrors == {"CardError", "CardNotFound", "PinFailed", "DhFailed", "ZeroSharedSecret"}
Errors == ThreadErrors \cup {"QueueFull", "ThreadGone", "ReplyDropped", "KeyExchangeError"}

\* A reply names the key pair whose shared secret (or public key) it holds.
Reply == [res : {"ok"} \cup Errors, card : Cards \cup {NoCard},
          pk : Peers \cup {NoPeer}]
Secret(c, p) == [res |-> "ok", card |-> c, pk |-> p]
Failed(e) == [res |-> e, card |-> NoCard, pk |-> NoPeer]

Request == [op : {"dh", "pubkey"}, pk : Peers \cup {NoPeer}, reply : Tickets]
NoRequest == [op |-> "none", pk |-> NoPeer, reply |-> NoTicket]

\* waiting: both ends alive; orphaned: the receiver is gone; dropped: the
\* sender is gone without a value; sent: the value waits to be received.
Chan == [st : {"free", "waiting", "orphaned", "dropped", "sent"}, val : Reply]
Empty(s) == [st |-> s, val |-> Failed("CardError")]

\* Mutant: the value is kept although nobody will receive it.
SendIgnoresReceiver(t, v) == chan' = [chan EXCEPT ![t] = [st |-> "sent", val |-> v]]

\* reply.send(v): discarded when the receiver is gone.
Send(t, v) ==
  chan' = [chan EXCEPT ![t] = IF @.st = "waiting"
                              THEN [st |-> "sent", val |-> v]
                              ELSE Empty("free")]

\* The Sender goes out of scope unused.
DropSender(t) ==
  chan' = [chan EXCEPT ![t] = Empty(IF @.st = "waiting" THEN "dropped" ELSE "free")]

\* ready_tx.send(v), or (with "dropped") its being dropped.
SignalReady(v) == ready' = IF ready = "waiting" THEN v ELSE "gone"

\* What a request came to; whether the card was in a reader and the PIN good when
\* it was taken and nothing outside the program has interfered since (`sound`);
\* and how many VERIFY attempts of the card it burned.
Service == [res : {"none", "ok"} \cup Errors, sound : BOOLEAN, burned : 0 .. 2]
NotServed == [res |-> "none", sound |-> FALSE, burned |-> 0]

-----------------------------------------------------------------------------
(* open_and_verify.                                                        *)

ScanFound ==
  /\ wpc = "scan"
  /\ \E c \in inserted \cap KeyCards :
       /\ Requested \in {c, AutoIdent}
       /\ held' = c
       /\ ident' = c
  /\ live' = TRUE
  /\ wpc' = "verify"
  /\ UNCHANGED <<inserted, pinOk, tries, sender, ready, queue, cur, chan, svc, wasReset>>

\* No reader, no responding card, the wrong card or a card without a key.
ScanFails ==
  /\ wpc = "scan"
  /\ SignalReady("err")
  /\ wpc' = "exited"
  /\ UNCHANGED <<pcscVars, ident, sender, queue, cur, chan, svc, wasReset>>

\* card.transaction().expect("card available") unwinds the thread.
VerifyPanics ==
  /\ wpc = "verify"
  /\ SignalReady("dropped")
  /\ wpc' = "panicked"
  /\ held' = NoCard
  /\ live' = FALSE
  /\ UNCHANGED <<inserted, pinOk, tries, ident, sender, queue, cur, chan, svc, wasReset>>

VerifyFails ==
  /\ wpc = "verify"
  /\ live
  /\ tries' \in {tries} \cup IF PinAccepted THEN {} ELSE {AfterRejection}
  /\ SignalReady("err")
  /\ wpc' = "exited"
  /\ held' = NoCard
  /\ live' = FALSE
  /\ UNCHANGED <<inserted, pinOk, ident, sender, queue, cur, chan, svc, wasReset>>

VerifyOk ==
  /\ wpc = "verify"
  /\ live
  /\ PinAccepted
  /\ tries' = PinLimit
  /\ SignalReady("ok")
  /\ wpc' = "recv"
  /\ UNCHANGED <<inserted, held, live, pinOk, ident, sender, queue, cur, chan, svc, wasReset>>

-----------------------------------------------------------------------------
(* The serving loop.                                                       *)

\* What one try_decipher may come to.  `fault` marks an outcome that something
\* outside the program causes in this very attempt: neither a connection that is
\* dead nor a PIN that is wrong is one, both were so before; `burned` counts a
\* VERIFY the card rejected.
Attempts ==
  {[res |-> "CardError", tries |-> tries, fault |-> live, burned |-> 0]}
  \cup
  IF ~live THEN {} ELSE
    {[res |-> "PinFailed", tries |-> tries, fault |-> PinAccepted, burned |-> 0]}
    \cup
    IF PinAccepted
    THEN {[res |-> "DhFailed", tries |-> PinLimit, fault |-> TRUE, burned |-> 0],
          [res |-> IF cur.pk \in LowOrder THEN "ZeroSharedSecret" ELSE "ok",
           tries |-> PinLimit, fault |-> FALSE, burned |-> 0]}
    ELSE {[res |-> "PinFailed", tries |-> AfterRejection, fault |-> FALSE,
           burned |-> tries - AfterRejection]}

Noted(a, res) == [res |-> res, sound |-> svc.sound /\ ~a.fault,
                  burned |-> svc.burned + a.burned]

\* The loop body ends: the reply is sent and the thread is back at recv().
Finish(v) ==
  /\ Send(cur.reply, v)
  /\ cur' = NoRequest
  /\ wpc' = "recv"

Recv ==
  /\ wpc = "recv"
  /\ queue # <<>>
  /\ cur' = Head(queue)
  /\ queue' = Tail(queue)
  /\ wpc' = IF cur'.op = "dh" THEN "try" ELSE "pubkey"
  /\ svc' = [NotServed EXCEPT !.sound = ident \in inserted /\ PinAccepted]
  /\ UNCHANGED <<pcscVars, ident, sender, ready, chan, wasReset>>

\* recv() errs once every sender is gone and the queue is drained.  Dropping
\* the Card<Open> resets the card: the shutdown reset the README describes.
Exit ==
  /\ wpc = "recv"
  /\ queue = <<>>
  /\ ~sender
  /\ wpc' = "exited"
  /\ held' = NoCard
  /\ live' = FALSE
  /\ UNCHANGED <<inserted, pinOk, tries, ident, sender, ready, queue, cur, chan, svc, wasReset>>

\* First try_decipher of decipher_with_retry.
Try ==
  /\ wpc = "try"
  /\ \E a \in Attempts :
       /\ tries' = a.tries
       /\ IF a.res = "ok"
          THEN /\ Finish(Secret(held, cur.pk))
               /\ svc' = Noted(a, "ok")
          ELSE /\ wpc' = "reconnect"
               /\ svc' = Noted(a, "none")
               /\ UNCHANGED <<cur, chan>>
  /\ UNCHANGED <<inserted, held, live, pinOk, ident, sender, ready, queue, wasReset>>

\* Mutant: the ident is not compared.
ReconnectAnyCard ==
  /\ wpc = "reconnect"
  /\ \E c \in inserted : held' = c
  /\ live' = TRUE
  /\ wasReset' = (wasReset \/ live)
  /\ wpc' = "retry"
  /\ UNCHANGED <<inserted, pinOk, tries, ident, sender, ready, queue, cur, chan, svc>>

\* Mutant: the card found is not put in the place of the old one.
ReconnectKeepsOldCard ==
  /\ wpc = "reconnect"
  /\ ident \in inserted
  /\ wpc' = "retry"
  /\ UNCHANGED <<pcscVars, ident, sender, ready, queue, cur, chan, svc, wasReset>>

\* After the 5 s sleep: `*card = new_card` drops the old Card<Open>, which
\* resets the card when the old connection still reached it.
ReconnectOk ==
  /\ wpc = "reconnect"
  /\ \E c \in inserted :
       /\ c = ident
       /\ held' = c
  /\ live' = TRUE
  /\ wasReset' = (wasReset \/ live)
  /\ wpc' = "retry"
  /\ UNCHANGED <<inserted, pinOk, tries, ident, sender, ready, queue, cur, chan, svc>>

\* Mutant: the error is not sent, as in the PubKey branch.
ReconnectFailureUnanswered ==
  /\ wpc = "reconnect"
  /\ DropSender(cur.reply)
  /\ cur' = NoRequest
  /\ wpc' = "recv"
  /\ UNCHANGED <<pcscVars, ident, sender, ready, queue, svc, wasReset>>

\* The scan fails or does not meet the ident: it is absent, or it is there and
\* does not respond, which is a fault of this moment.
ReconnectFails ==
  /\ wpc = "reconnect"
  /\ \E e \in {"CardError", "CardNotFound"} :
       /\ Finish(Failed(e))
       /\ svc' = [svc EXCEPT !.res = e, !.sound = @ /\ ident \notin inserted]
  /\ UNCHANGED <<pcscVars, ident, sender, ready, queue, wasReset>>

\* Mutant: the retry is a loop.
RetryUntilOk ==
  /\ wpc = "retry"
  /\ \E a \in Attempts :
       /\ tries' = a.tries
       /\ svc' = Noted(a, a.res)
       /\ IF a.res = "ok"
          THEN Finish(Secret(held, cur.pk))
          ELSE wpc' = "reconnect" /\ UNCHANGED <<cur, chan>>
  /\ UNCHANGED <<inserted, held, live, pinOk, ident, sender, ready, queue, wasReset>>

\* Second and last try_decipher.
Retry ==
  /\ wpc = "retry"
  /\ \E a \in Attempts :
       /\ tries' = a.tries
       /\ svc' = Noted(a, a.res)
       /\ Finish(IF a.res = "ok" THEN Secret(held, cur.pk) ELSE Failed(a.res))
  /\ UNCHANGED <<inserted, held, live, pinOk, ident, sender, ready, queue, wasReset>>

PubKeyOk ==
  /\ wpc = "pubkey"
  /\ live
  /\ Finish(Secret(held, NoPeer))
  /\ svc' = [svc EXCEPT !.res = "ok"]
  /\ UNCHANGED <<pcscVars, ident, sender, ready, queue, wasReset>>

\* Mutant: the reply sender is neither used nor dropped.
PubKeyFailsKeepsReply ==
  /\ wpc = "pubkey"
  /\ cur' = NoRequest
  /\ wpc' = "recv"
  /\ UNCHANGED <<pcscVars, ident, sender, ready, queue, chan, svc, wasReset>>

\* No transaction, or no key read: the reply is dropped, not answered.
PubKeyFails ==
  /\ wpc = "pubkey"
  /\ DropSender(cur.reply)
  /\ cur' = NoRequest
  /\ wpc' = "recv"
  /\ UNCHANGED <<pcscVars, ident, sender, ready, queue, svc, wasReset>>

Worker ==
  \/ ScanFound \/ ScanFails \/ VerifyPanics \/ VerifyFails \/ VerifyOk
  \/ Recv \/ Exit \/ Try \/ ReconnectOk \/ ReconnectFails \/ Retry
  \/ PubKeyOk \/ PubKeyFails

-----------------------------------------------------------------------------
Serving == {"recv", "try", "reconnect", "retry", "pubkey"}

ThreadInit ==
  /\ PcscInit
  /\ wpc = "unborn"
  /\ ident = NoCard
  /\ sender = FALSE
  /\ ready = "gone"
  /\ queue = <<>>
  /\ cur = NoRequest
  /\ chan = [t \in Tickets |-> Empty("free")]
  /\ svc = NotServed
  /\ wasReset = FALSE

ThreadTypeOK ==
  /\ PcscTypeOK
  /\ wpc \in Serving \cup {"unborn", "scan", "verify", "exited", "panicked"}
  /\ ident \in Cards \cup {NoCard}
  /\ sender \in BOOLEAN
  /\ ready \in {"gone", "waiting", "orphaned", "ok", "err", "dropped"}
  /\ queue \in Seq(Request)
  /\ Len(queue) <= Capacity
  /\ cur \in Request \cup {NoRequest}
  /\ chan \in [Tickets -> Chan]
  /\ svc \in Service
  /\ wasReset \in BOOLEAN
=============================================================================
