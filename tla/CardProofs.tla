----------------------------- MODULE CardProofs -----------------------------
(***************************************************************************)
(* Theorems about CardOracle for every set of cards, peers and tickets and *)
(* every queue capacity.  The layers of CardInv!IInv are proved one after  *)
(* the other, each step by step of the next-state relation.                *)
(***************************************************************************)
EXTENDS CardInv, TLAPS

USE DEF pcscVars, threadVars, oracleVars

(* A request taken from the channel is one, and the rest is a channel.     *)
LEMMA HeadTail ==
  ASSUME NEW S, NEW q \in Seq(S), q # <<>>
  PROVE  /\ Head(q) \in S
         /\ Tail(q) \in Seq(S)
         /\ Len(q) \in Nat
         /\ Len(q) # 0
         /\ Len(Tail(q)) = Len(q) - 1
         /\ Head(q) = q[1]
         /\ \A i \in 1 .. Len(Tail(q)) : Tail(q)[i] = q[i + 1]
OBVIOUS

(* A reply leaves the one-shots well typed.                                *)
LEMMA SendTyped ==
  ASSUME NEW t, NEW v \in Reply, chan \in [Tickets -> Chan], Send(t, v)
  PROVE  chan' \in [Tickets -> Chan]
<1>1. Empty("free") \in Chan
  BY DEF Empty, Chan, Failed, Reply, Errors, ThreadErrors
<1>2. [st |-> "sent", val |-> v] \in Chan
  BY DEF Chan
<1> QED
  BY <1>1, <1>2 DEF Send

(* So does the drop of a reply sender.                                     *)
LEMMA DropTyped ==
  ASSUME NEW t, chan \in [Tickets -> Chan], DropSender(t)
  PROVE  chan' \in [Tickets -> Chan]
<1>1. Empty("free") \in Chan /\ Empty("dropped") \in Chan
  BY DEF Empty, Chan, Failed, Reply, Errors, ThreadErrors
<1> QED
  BY <1>1 DEF DropSender

(* The replies the thread can send.                                        *)
LEMMA ReplyTyped ==
  /\ \A c \in Cards \cup {NoCard}, p \in Peers \cup {NoPeer} : Secret(c, p) \in Reply
  /\ \A e \in Errors : Failed(e) \in Reply
BY DEF Secret, Failed, Reply

(* What an attempt leaves behind.                                          *)
LEMMA AttemptTyped ==
  ASSUME tries \in 0 .. PinLimit, live \in BOOLEAN, NEW a \in Attempts
  PROVE  /\ a.res \in {"ok"} \cup ThreadErrors
         /\ a.tries \in 0 .. PinLimit
         /\ a.fault \in BOOLEAN
         /\ a.burned \in {0, 1}
<1>1. /\ AfterRejection \in 0 .. PinLimit
      /\ tries - AfterRejection \in {0, 1}
      /\ PinLimit \in 0 .. PinLimit
  BY PcscAssumption DEF AfterRejection
<1>2. CASE a = [res |-> "CardError", tries |-> tries, fault |-> live, burned |-> 0]
  BY <1>2 DEF ThreadErrors
<1>3. CASE a = [res |-> "PinFailed", tries |-> tries, fault |-> PinAccepted, burned |-> 0]
  BY <1>3 DEF PinAccepted, ThreadErrors
<1>4. CASE a = [res |-> "DhFailed", tries |-> PinLimit, fault |-> TRUE, burned |-> 0]
  BY <1>1, <1>4 DEF ThreadErrors
<1>5. CASE a = [res |-> IF cur.pk \in LowOrder THEN "ZeroSharedSecret" ELSE "ok",
                tries |-> PinLimit, fault |-> FALSE, burned |-> 0]
  BY <1>1, <1>5 DEF ThreadErrors
<1>6. CASE a = [res |-> "PinFailed", tries |-> AfterRejection, fault |-> FALSE,
                burned |-> tries - AfterRejection]
  BY <1>1, <1>6 DEF ThreadErrors
<1> QED
  BY <1>2, <1>3, <1>4, <1>5, <1>6 DEF Attempts

-----------------------------------------------------------------------------
(* Layer 1: types.                                                         *)

(* Every step of the thread keeps the types.                               *)
LEMMA WorkerTyped ==
  ASSUME Typed, Worker, UNCHANGED oracleVars
  PROVE  Typed'
<1> USE DEF Typed, TypeOK, ThreadTypeOK, PcscTypeOK, Serving, SignalReady, PinAccepted
<1>0. /\ PinLimit \in 0 .. PinLimit /\ PinLimit \in Nat
      /\ AfterRejection \in 0 .. PinLimit
  BY PcscAssumption DEF AfterRejection
<1>1. CASE ScanFound
  BY <1>1, PcscAssumption DEF ScanFound
<1>2. CASE ScanFails
  BY <1>2 DEF ScanFails
<1>3. CASE VerifyPanics
  <2>1. PcscTypeOK'
    BY <1>3 DEF VerifyPanics
  <2>2. /\ UNCHANGED <<ident, sender, queue, cur, chan, svc, wasReset>>
        /\ ready' \in {"gone", "waiting", "orphaned", "ok", "err", "dropped"}
        /\ wpc' \in {"exited", "panicked"}
    BY <1>3 DEF VerifyPanics
  <2> QED
    BY <2>1, <2>2
<1>4. CASE VerifyFails
  <2>1. PcscTypeOK'
    BY <1>0, <1>4 DEF VerifyFails
  <2>2. /\ UNCHANGED <<ident, sender, queue, cur, chan, svc, wasReset>>
        /\ ready' \in {"gone", "waiting", "orphaned", "ok", "err", "dropped"}
        /\ wpc' \in {"exited", "panicked"}
    BY <1>0, <1>4 DEF VerifyFails
  <2> QED
    BY <2>1, <2>2
<1>5. CASE VerifyOk
  BY <1>0, <1>5 DEF VerifyOk
<1>6. CASE Recv
  <2>1. Head(queue) \in Request /\ Tail(queue) \in Seq(Request) /\ Len(Tail(queue)) <= Capacity
    BY <1>6, HeadTail, ThreadAssumption DEF Recv
  <2>2. \A b \in BOOLEAN : [NotServed EXCEPT !.sound = b] \in Service
                          /\ [NotServed EXCEPT !.sound = b].burned = 0
    BY DEF NotServed, Service
  <2> QED
    <3>1. svc' \in Service /\ svc'.burned = 0
      BY <1>6, <2>2 DEF Recv
    <3>2. UNCHANGED <<pcscVars, ident, sender, ready, chan, wasReset>>
      BY <1>6 DEF Recv
    <3>3. cur' \in Request /\ queue' \in Seq(Request) /\ Len(queue') <= Capacity
      BY <1>6, <2>1 DEF Recv
    <3>4. wpc' \in {"try", "pubkey"}
      BY <1>6 DEF Recv
    <3> QED
      BY <3>1, <3>2, <3>3, <3>4
<1>7. CASE Exit
  <2>1. PcscTypeOK'
    BY <1>7 DEF Exit
  <2>2. /\ UNCHANGED <<ident, sender, queue, cur, chan, svc, wasReset>>
        /\ ready' \in {"gone", "waiting", "orphaned", "ok", "err", "dropped"}
        /\ wpc' \in {"exited", "panicked"}
    BY <1>7 DEF Exit
  <2> QED
    BY <2>1, <2>2
<1>8. CASE Try
  <2>1. PICK a \in Attempts :
          /\ tries' = a.tries
          /\ IF a.res = "ok"
             THEN /\ Finish(Secret(held, cur.pk))
                  /\ svc' = Noted(a, "ok")
             ELSE /\ wpc' = "reconnect"
                  /\ svc' = Noted(a, "none")
                  /\ UNCHANGED <<cur, chan>>
    BY <1>8 DEF Try
  <2>2. a.tries \in 0 .. PinLimit /\ a.fault \in BOOLEAN /\ a.burned \in {0, 1}
    BY AttemptTyped
  <2>3. \A r \in {"ok", "none"} : Noted(a, r) \in Service /\ Noted(a, r).burned <= 1
    BY <1>8, <2>2 DEF Noted, Service, Try
  <2>4. cur.pk \in Peers \cup {NoPeer}
    BY DEF Request, NoRequest
  <2>5. CASE a.res = "ok"
    <3>1. Secret(held, cur.pk) \in Reply
      BY <2>4, ReplyTyped
    <3>2. chan' \in [Tickets -> Chan]
      BY <2>1, <2>5, <3>1, SendTyped DEF Finish
    <3> QED
      BY <1>8, <2>1, <2>2, <2>3, <2>5, <3>2 DEF Try, Finish
  <2>6. CASE a.res # "ok"
    BY <1>8, <2>1, <2>2, <2>3, <2>6 DEF Try
  <2> QED
    BY <2>5, <2>6
<1>9. CASE ReconnectOk
  BY <1>9 DEF ReconnectOk
<1>10. CASE ReconnectFails
  <2>1. PICK e \in {"CardError", "CardNotFound"} :
          Finish(Failed(e)) /\ svc' = [svc EXCEPT !.res = e, !.sound = @ /\ ident \notin inserted]
    BY <1>10 DEF ReconnectFails
  <2>2. e \in Errors
    BY DEF Errors, ThreadErrors
  <2>3. chan' \in [Tickets -> Chan]
    BY <2>1, <2>2, SendTyped, ReplyTyped DEF Finish
  <2>4. svc' \in Service
    BY <2>1, <2>2 DEF Service
  <2> QED
    BY <1>10, <2>1, <2>3, <2>4 DEF ReconnectFails, Finish
<1>11. CASE Retry
  <2>1. PICK a \in Attempts :
          /\ tries' = a.tries
          /\ svc' = Noted(a, a.res)
          /\ Finish(IF a.res = "ok" THEN Secret(held, cur.pk) ELSE Failed(a.res))
    BY <1>11 DEF Retry
  <2>2. /\ a.res \in {"ok"} \cup ThreadErrors
        /\ a.tries \in 0 .. PinLimit /\ a.fault \in BOOLEAN /\ a.burned \in {0, 1}
    BY AttemptTyped
  <2>3. a.res \in {"ok"} \cup Errors
    BY <2>2 DEF Errors
  <2>4. Noted(a, a.res) \in Service
    BY <1>11, <2>2, <2>3 DEF Noted, Service, Retry
  <2>5. cur.pk \in Peers \cup {NoPeer}
    BY DEF Request, NoRequest
  <2>6. chan' \in [Tickets -> Chan]
    BY <2>1, <2>3, <2>5, SendTyped, ReplyTyped DEF Finish
  <2> QED
    BY <1>11, <2>1, <2>2, <2>4, <2>6 DEF Retry, Finish
<1>12. CASE PubKeyOk
  <2>1. chan' \in [Tickets -> Chan]
    BY <1>12, SendTyped, ReplyTyped DEF PubKeyOk, Finish
  <2>2. svc' \in Service
    BY <1>12 DEF PubKeyOk, Service
  <2> QED
    BY <1>12, <2>1, <2>2 DEF PubKeyOk, Finish
<1>13. CASE PubKeyFails
  BY <1>13, DropTyped DEF PubKeyFails
<1> QED
  BY <1>1, <1>2, <1>3, <1>4, <1>5, <1>6, <1>7, <1>8, <1>9, <1>10, <1>11, <1>12,
     <1>13 DEF Worker

(* So does every step of the handle.                                       *)
LEMMA ClientTyped ==
  ASSUME Typed, Client
  PROVE  Typed'
<1> USE DEF Typed, TypeOK, ThreadTypeOK, PcscTypeOK, Serving, Ready2Call
<1>a. /\ \A s \in {"free", "waiting", "orphaned"} : Empty(s) \in Chan
      /\ NotCached \notin Reply
  BY DEF Empty, Chan, Failed, Reply, Errors, ThreadErrors, NotCached
<1>b. ASSUME NEW op \in {"dh", "prime", "pubkey"}, NEW pk \in Peers \cup {NoPeer},
             Len(queue) # Capacity, Enqueue(op, pk)
      PROVE  /\ queue' \in Seq(Request) /\ Len(queue') <= Capacity
             /\ chan' \in [Tickets -> Chan]
             /\ call' \in Call
             /\ outcome' = NoOutcome
  <2>1. NewTicket \in Tickets
    BY <1>b DEF Enqueue, NewTicket, FreeTickets
  <2>2. [op |-> IF op = "pubkey" THEN "pubkey" ELSE "dh", pk |-> pk, reply |-> NewTicket]
          \in Request
    BY <2>1 DEF Request
  <2>3. queue' \in Seq(Request) /\ Len(queue') = Len(queue) + 1
    BY <1>b, <2>2 DEF Enqueue
  <2>4. Len(queue') <= Capacity
    BY <1>b, <2>3, ThreadAssumption
  <2> QED
    BY <1>a, <1>b, <2>1, <2>3, <2>4 DEF Enqueue, Call
<1>c. ASSUME NEW op \in {"dh", "prime", "pubkey"}, NEW pk \in Peers \cup {NoPeer},
             NEW v \in Reply
      PROVE  /\ Seen(op, v) \in Reply
             /\ [op |-> op, pk |-> pk, val |-> Seen(op, v)] \in Outcome
  BY ReplyTyped DEF Seen, Outcome, Errors
<1>1. CASE Open
  BY <1>1 DEF Open
<1>2. CASE SpawnFails
  BY <1>2 DEF SpawnFails
<1>3. CASE Opened
  <2>1a. PcscTypeOK'
    BY <1>3 DEF Opened
  <2>1b. UNCHANGED <<wpc, ident, queue, cur, chan, svc, wasReset>>
    BY <1>3 DEF Opened
  <2>1c. sender' \in BOOLEAN /\ ready' \in {"gone", "waiting", "orphaned", "ok", "err", "dropped"}
    BY <1>3 DEF Opened
  <2>thr. ThreadTypeOK'
    BY <2>1a, <2>1b, <2>1c
  <2>hdl. handle' \in {"new", "opening", "open", "dropped", "failed", "panicked"}
    BY <1>3 DEF Opened
  <2>res. /\ call' \in Call \cup {NoCall} /\ outcome' \in Outcome \cup {NoOutcome}
        /\ ssCache' \in [Peers -> Reply \cup {NotCached}]
    BY <1>3 DEF Opened
  <2>svc. wpc' = wpc /\ svc' = svc
    BY <1>3 DEF Opened
  <2> QED
    BY <2>thr, <2>hdl, <2>res, <2>svc
<1>4. CASE AbandonOpen
  <2>1a. PcscTypeOK'
    BY <1>4 DEF AbandonOpen
  <2>1b. UNCHANGED <<wpc, ident, queue, cur, chan, svc, wasReset>>
    BY <1>4 DEF AbandonOpen
  <2>1c. sender' \in BOOLEAN /\ ready' \in {"gone", "waiting", "orphaned", "ok", "err", "dropped"}
    BY <1>4 DEF AbandonOpen
  <2>thr. ThreadTypeOK'
    BY <2>1a, <2>1b, <2>1c
  <2>hdl. handle' \in {"new", "opening", "open", "dropped", "failed", "panicked"}
    BY <1>4 DEF AbandonOpen
  <2>res. /\ call' \in Call \cup {NoCall} /\ outcome' \in Outcome \cup {NoOutcome}
        /\ ssCache' \in [Peers -> Reply \cup {NotCached}]
    BY <1>4 DEF AbandonOpen
  <2>svc. wpc' = wpc /\ svc' = svc
    BY <1>4 DEF AbandonOpen
  <2> QED
    BY <2>thr, <2>hdl, <2>res, <2>svc
<1>5. ASSUME NEW pk \in Peers, NEW op \in {"dh", "prime"}, CallDh(op, pk)
      PROVE  Typed'
  <2>1. CASE WorkerGone \/ Len(queue) = Capacity
    <3>1. Failed(IF WorkerGone THEN "ThreadGone" ELSE "QueueFull") \in Reply
      BY ReplyTyped DEF Errors
    <3>2. outcome' \in Outcome
      BY <1>5, <1>c, <2>1, <3>1 DEF CallDh, Return
    <3> QED
      BY <1>5, <2>1, <3>2 DEF CallDh
  <2>2. CASE ~(WorkerGone \/ Len(queue) = Capacity)
    <3>1. Enqueue(op, pk) /\ Len(queue) # Capacity
      BY <1>5, <2>2 DEF CallDh
    <3> QED
      BY <1>5, <1>b, <3>1 DEF CallDh
  <2> QED
    BY <2>1, <2>2
<1>6. ASSUME NEW pk \in Peers, CachedDh(pk)
      PROVE  Typed'
  <2>1. [op |-> "dh", pk |-> pk, val |-> ssCache[pk]] \in Outcome
    BY <1>6 DEF CachedDh, Outcome
  <2> QED
    BY <1>6, <2>1 DEF CachedDh, Return
<1>7. ASSUME NEW pk \in Peers, forget_peer(pk)
      PROVE  Typed'
  BY <1>7 DEF forget_peer
<1>8. CASE CallPubKey
  <2>1. CASE WorkerGone \/ Len(queue) = Capacity
    <3>1a. PcscTypeOK'
      BY <1>8, <2>1 DEF CallPubKey
    <3>1b. UNCHANGED <<wpc, ident, queue, cur, chan, svc, wasReset>>
      BY <1>8, <2>1 DEF CallPubKey
    <3>1c. sender' \in BOOLEAN /\ ready' \in {"gone", "waiting", "orphaned", "ok", "err", "dropped"}
      BY <1>8, <2>1 DEF CallPubKey
    <3>thr. ThreadTypeOK'
      BY <3>1a, <3>1b, <3>1c
    <3>hdl. handle' \in {"new", "opening", "open", "dropped", "failed", "panicked"}
      BY <1>8, <2>1 DEF CallPubKey
    <3>res. /\ call' \in Call \cup {NoCall} /\ outcome' \in Outcome \cup {NoOutcome}
          /\ ssCache' \in [Peers -> Reply \cup {NotCached}]
      BY <1>8, <2>1 DEF CallPubKey
    <3>svc. wpc' = wpc /\ svc' = svc
      BY <1>8, <2>1 DEF CallPubKey
    <3> QED
      BY <3>thr, <3>hdl, <3>res, <3>svc
  <2>2. CASE ~(WorkerGone \/ Len(queue) = Capacity)
    <3>1. Enqueue("pubkey", NoPeer) /\ Len(queue) # Capacity
      BY <1>8, <2>2 DEF CallPubKey
    <3>1a. PcscTypeOK'
      BY <1>8, <1>b, <3>1 DEF CallPubKey
    <3>1b. /\ queue' \in Seq(Request) /\ Len(queue') <= Capacity
          /\ chan' \in [Tickets -> Chan]
      BY <1>8, <1>b, <3>1 DEF CallPubKey
    <3>1c. /\ UNCHANGED <<wpc, ident, ready, cur, svc, wasReset>>
          /\ sender' \in BOOLEAN
      BY <1>8, <1>b, <3>1 DEF CallPubKey
    <3>thr. ThreadTypeOK'
      BY <3>1a, <3>1b, <3>1c
    <3>hdl. handle' \in {"new", "opening", "open", "dropped", "failed", "panicked"}
      BY <1>8, <1>b, <3>1 DEF CallPubKey
    <3>res. /\ call' \in Call \cup {NoCall} /\ outcome' \in Outcome \cup {NoOutcome}
          /\ ssCache' \in [Peers -> Reply \cup {NotCached}]
      BY <1>8, <1>b, <3>1 DEF CallPubKey
    <3>svc. wpc' = wpc /\ svc' = svc
      BY <1>8, <1>b, <3>1 DEF CallPubKey
    <3> QED
      BY <3>thr, <3>hdl, <3>res, <3>svc
  <2> QED
    BY <2>1, <2>2
<1>9. CASE Receive
  <2>1. call \in Call
    BY <1>9 DEF Receive
  <2>2. /\ call.op \in {"dh", "prime", "pubkey"} /\ call.pk \in Peers \cup {NoPeer}
        /\ call.reply \in Tickets
    BY <2>1 DEF Call
  <2>3. chan[call.reply] \in Chan /\ Awaited(call.reply) \in Reply
    BY <2>2, ReplyTyped DEF Awaited, Chan, Errors
  <2>4. chan' \in [Tickets -> Chan]
    BY <1>9, <1>a DEF Receive
  <2>5. outcome' \in Outcome \cup {NoOutcome}
    BY <1>9, <1>c, <2>2, <2>3 DEF Receive, Return
  <2>6. ssCache' \in [Peers -> Reply \cup {NotCached}]
    BY <1>9, <2>3 DEF Receive
  <2> QED
    <3>1a. PcscTypeOK'
      BY <1>9, <2>4, <2>5, <2>6 DEF Receive
    <3>1b. /\ queue' \in Seq(Request) /\ Len(queue') <= Capacity
          /\ chan' \in [Tickets -> Chan]
      BY <1>9, <2>4, <2>5, <2>6 DEF Receive
    <3>1c. /\ UNCHANGED <<wpc, ident, ready, cur, svc, wasReset>>
          /\ sender' \in BOOLEAN
      BY <1>9, <2>4, <2>5, <2>6 DEF Receive
    <3>thr. ThreadTypeOK'
      BY <3>1a, <3>1b, <3>1c
    <3>hdl. handle' \in {"new", "opening", "open", "dropped", "failed", "panicked"}
      BY <1>9, <2>4, <2>5, <2>6 DEF Receive
    <3>res. /\ call' \in Call \cup {NoCall} /\ outcome' \in Outcome \cup {NoOutcome}
          /\ ssCache' \in [Peers -> Reply \cup {NotCached}]
      BY <1>9, <2>4, <2>5, <2>6 DEF Receive
    <3>svc. wpc' = wpc /\ svc' = svc
      BY <1>9, <2>4, <2>5, <2>6 DEF Receive
    <3> QED
      BY <3>thr, <3>hdl, <3>res, <3>svc
<1>10. CASE Cancel
  <2>1. chan' \in [Tickets -> Chan]
    BY <1>10, <1>a DEF Cancel
  <2> QED
    BY <1>10, <2>1 DEF Cancel
<1>11. CASE DropHandle
  <2>1a. PcscTypeOK'
    BY <1>11 DEF DropHandle
  <2>1b. UNCHANGED <<wpc, ident, queue, cur, chan, svc, wasReset>>
    BY <1>11 DEF DropHandle
  <2>1c. sender' \in BOOLEAN /\ ready' \in {"gone", "waiting", "orphaned", "ok", "err", "dropped"}
    BY <1>11 DEF DropHandle
  <2>thr. ThreadTypeOK'
    BY <2>1a, <2>1b, <2>1c
  <2>hdl. handle' \in {"new", "opening", "open", "dropped", "failed", "panicked"}
    BY <1>11 DEF DropHandle
  <2>res. /\ call' \in Call \cup {NoCall} /\ outcome' \in Outcome \cup {NoOutcome}
        /\ ssCache' \in [Peers -> Reply \cup {NotCached}]
    BY <1>11 DEF DropHandle
  <2>svc. wpc' = wpc /\ svc' = svc
    BY <1>11 DEF DropHandle
  <2> QED
    BY <2>thr, <2>hdl, <2>res, <2>svc
<1> QED
  BY <1>1, <1>2, <1>3, <1>4, <1>5, <1>6, <1>7, <1>8, <1>9, <1>10, <1>11 DEF Client

(* And what others do to the card.                                         *)
LEMMA WorldTyped ==
  ASSUME Typed, World, UNCHANGED oracleVars
  PROVE  Typed'
<1> USE DEF Typed, TypeOK, ThreadTypeOK, PcscTypeOK, Serving
<1>1. ASSUME NEW c \in Cards, Insert(c), UNCHANGED threadVars
      PROVE  Typed'
  BY <1>1 DEF Insert
<1>i. ASSUME NEW b \in BOOLEAN, Interferes(b)
      PROVE  svc' \in Service /\ svc'.burned = svc.burned
  BY <1>i DEF Interferes, Service
<1>2. ASSUME NEW c \in Cards, Remove(c), Interferes(c = held)
      PROVE  Typed'
  <2>1. svc' \in Service /\ svc'.burned = svc.burned
    BY <1>2, <1>i
  <2> QED
    BY <1>2, <2>1 DEF Interferes, Remove
<1>3. CASE ChangePin /\ Interferes(TRUE)
  <2>1. svc' \in Service /\ svc'.burned = svc.burned
    BY <1>3, <1>i
  <2> QED
    BY <1>3, <2>1, PcscAssumption DEF Interferes, ChangePin
<1> QED
  BY <1>1, <1>2, <1>3 DEF World

(* Typed is an inductive invariant.                                        *)
LEMMA TypedInit == Init => Typed
<1> SUFFICES ASSUME Init PROVE Typed
  OBVIOUS
<1>1. /\ NotServed \in Service /\ Empty("free") \in Chan
      /\ <<>> \in Seq(Request) /\ Len(<<>>) = 0
  BY DEF NotServed, Service, Empty, Chan, Failed, Reply, Errors, ThreadErrors
<1>2. PcscTypeOK
  BY PcscAssumption DEF Init, ThreadInit, PcscInit, PcscTypeOK
<1>3. ThreadTypeOK
  <2>1. chan \in [Tickets -> Chan] /\ svc \in Service /\ queue \in Seq(Request)
    BY <1>1 DEF Init, ThreadInit
  <2>2. Len(queue) <= Capacity
    BY <1>1, ThreadAssumption DEF Init, ThreadInit
  <2> QED
    BY <1>2, <2>1, <2>2 DEF Init, ThreadInit, ThreadTypeOK, Serving
<1> QED
  BY <1>3 DEF Init, ThreadInit, Typed, TypeOK

LEMMA TypedStep == Typed /\ [Next]_vars => Typed'
<1> SUFFICES ASSUME Typed, [Next]_vars PROVE Typed'
  OBVIOUS
<1>1. CASE UNCHANGED vars
  BY <1>1 DEF vars, Typed, TypeOK, ThreadTypeOK, PcscTypeOK
<1> QED
  BY <1>1, WorkerTyped, ClientTyped, WorldTyped DEF Next

(* Every variable keeps its type, and the request channel its capacity.    *)
THEOREM TypeCorrect == Spec => []TypeOK
<1>1. Typed => TypeOK
  BY DEF Typed
<1> QED
  BY <1>1, TypedInit, TypedStep, PTL DEF Spec

-----------------------------------------------------------------------------
(* Layer 2: the handle, the thread and the card stay bound to each other.  *)

LEMMA WorkerBound ==
  ASSUME Typed, Bound, Worker, UNCHANGED oracleVars
  PROVE  Bound'
<1> USE DEF Bound, Serving, SignalReady
<1>1. CASE ScanFound
  BY <1>1 DEF ScanFound
<1>2. CASE ScanFails
  BY <1>2 DEF ScanFails
<1>3. CASE VerifyPanics
  BY <1>3 DEF VerifyPanics
<1>4. CASE VerifyFails
  BY <1>4 DEF VerifyFails
<1>5. CASE VerifyOk
  BY <1>5 DEF VerifyOk
<1>6. CASE Recv
  BY <1>6 DEF Recv
<1>7. CASE Exit
  BY <1>7 DEF Exit
<1>8. CASE Try
  BY <1>8 DEF Try, Finish
<1>9. CASE ReconnectOk
  BY <1>9 DEF ReconnectOk
<1>10. CASE ReconnectFails
  BY <1>10 DEF ReconnectFails, Finish
<1>11. CASE Retry
  BY <1>11 DEF Retry, Finish
<1>12. CASE PubKeyOk
  BY <1>12 DEF PubKeyOk, Finish
<1>13. CASE PubKeyFails
  BY <1>13 DEF PubKeyFails
<1> QED
  BY <1>1, <1>2, <1>3, <1>4, <1>5, <1>6, <1>7, <1>8, <1>9, <1>10, <1>11, <1>12, <1>13 DEF Worker

LEMMA ClientBound ==
  ASSUME Typed, Bound, Client
  PROVE  Bound'
<1> USE DEF Bound, Serving, Ready2Call
<1>a. call # NoCall => call \in Call
  BY DEF Typed, TypeOK
<1>1. CASE Open
  BY <1>1 DEF Open
<1>2. CASE SpawnFails
  BY <1>2 DEF SpawnFails
<1>3. CASE Opened
  BY <1>3 DEF Opened
<1>4. CASE AbandonOpen
  BY <1>4 DEF AbandonOpen
<1>5. ASSUME NEW pk \in Peers, NEW op \in {"dh", "prime"}, CallDh(op, pk)
      PROVE  Bound'
  BY <1>5 DEF CallDh, Enqueue
<1>6. ASSUME NEW pk \in Peers, CachedDh(pk) \/ forget_peer(pk)
      PROVE  Bound'
  BY <1>6 DEF CachedDh, forget_peer
<1>7. CASE CallPubKey
  BY <1>7 DEF CallPubKey, Enqueue
<1>8. CASE Receive
  BY <1>8 DEF Receive
<1>9. CASE Cancel
  BY <1>9 DEF Cancel
<1>10. CASE DropHandle
  BY <1>10 DEF DropHandle
<1> QED
  BY <1>1, <1>2, <1>3, <1>4, <1>5, <1>6, <1>7, <1>8, <1>9, <1>10 DEF Client

LEMMA WorldBound ==
  ASSUME Typed, Bound, World, UNCHANGED oracleVars
  PROVE  Bound'
BY DEF Bound, Serving, World, Insert, Interferes, Remove, ChangePin

LEMMA BoundInit == Init => Bound
BY DEF Init, ThreadInit, PcscInit, Bound, Serving

LEMMA BoundStep == Typed /\ Bound /\ [Next]_vars => Bound'
<1> SUFFICES ASSUME Typed, Bound, [Next]_vars PROVE Bound'
  OBVIOUS
<1>1. CASE UNCHANGED vars
  BY <1>1 DEF vars, Bound
<1> QED
  BY <1>1, WorkerBound, ClientBound, WorldBound DEF Next

(* reconnect never changes the card: the thread serves from the card whose *)
(* ident it reported, and that is the one asked for.                       *)
THEOREM CardNeverChanges == Spec => []StaysOnCard
<1>1. Typed /\ Bound => StaysOnCard
  BY DEF Bound, StaysOnCard
<1> QED
  BY <1>1, TypedInit, BoundInit, TypedStep, BoundStep, PTL DEF Spec

(* The worker serves as long as the handle is open: try_send never finds   *)
(* its receiver gone.                                                      *)
THEOREM WorkerServesHandle == Spec => []WorkerOutlivesHandle
<1>1. Typed /\ Bound => WorkerOutlivesHandle
  BY DEF Bound, WorkerOutlivesHandle
<1> QED
  BY <1>1, TypedInit, BoundInit, TypedStep, BoundStep, PTL DEF Spec

-----------------------------------------------------------------------------
(* Layer 3: requests, one-shots and the call in progress.                  *)

(* The types of what is in flight.                                         *)
LEMMA InFlight ==
  ASSUME Typed
  PROVE  /\ Len(queue) \in Nat
         /\ \A i \in 1 .. Len(queue) : queue[i] \in Request /\ queue[i].reply \in Tickets
         /\ cur # NoRequest => cur \in Request /\ cur.reply \in Tickets
         /\ call # NoCall => call \in Call /\ call.reply \in Tickets /\ call.op # "none"
         /\ call = NoCall => call.reply \notin Tickets /\ call.op = "none"
         /\ chan \in [Tickets -> Chan]
<1>1. queue \in Seq(Request) /\ cur \in Request \cup {NoRequest} /\ call \in Call \cup {NoCall}
      /\ chan \in [Tickets -> Chan]
  BY DEF Typed, TypeOK, ThreadTypeOK
<1>2. \A r \in Request : r.reply \in Tickets
  BY DEF Request
<1>3. \A c \in Call : c.reply \in Tickets /\ c.op # "none"
  BY DEF Call
<1> QED
  BY <1>1, <1>2, <1>3, ThreadAssumption DEF NoCall

(* The end of a request: its reply sender is used or dropped.              *)
LEMMA RequestDone ==
  ASSUME Typed, Wires, cur # NoRequest, cur' = NoRequest, UNCHANGED <<queue, call>>,
         NEW e, chan[cur.reply].st # "waiting" => e.st = "free",
         chan[cur.reply].st = "waiting" => e.st \in {"sent", "dropped"},
         chan' = [chan EXCEPT ![cur.reply] = e]
  PROVE  Wires'
<1>1. /\ cur.reply \in Tickets /\ chan'[cur.reply] = e
      /\ \A t \in Tickets \ {cur.reply} : chan'[t] = chan[t]
  BY InFlight
<1>2. Owed(cur)
  BY DEF Wires
<1>3. \A i \in 1 .. Len(queue) : Owed(queue[i])'
  BY <1>1, InFlight DEF Wires, Owed
<1>4. \A t \in Tickets : chan'[t].st \in {"waiting", "sent", "dropped"} => t = call.reply
  BY <1>1, <1>2 DEF Wires, Owed
<1>5. call # NoCall => chan'[call.reply].st \in {"waiting", "sent", "dropped"}
  BY <1>1, <1>2, InFlight DEF Wires, Owed
<1> QED
  BY <1>3, <1>4, <1>5 DEF Wires

LEMMA SendDone ==
  ASSUME Typed, Wires, cur # NoRequest, cur' = NoRequest, UNCHANGED <<queue, call>>,
         NEW v, Send(cur.reply, v) \/ DropSender(cur.reply)
  PROVE  Wires'
<1>1. cur.reply \in Tickets
  BY InFlight
<1>2. CASE Send(cur.reply, v)
  <2> DEFINE e == IF chan[cur.reply].st = "waiting"
                  THEN [st |-> "sent", val |-> v] ELSE Empty("free")
  <2>1. chan' = [chan EXCEPT ![cur.reply] = e]
    BY <1>1, <1>2, InFlight DEF Send
  <2>2. /\ chan[cur.reply].st # "waiting" => e.st = "free"
        /\ chan[cur.reply].st = "waiting" => e.st \in {"sent", "dropped"}
    BY DEF Empty
  <2> HIDE DEF e
  <2> QED
    BY <2>1, <2>2, RequestDone
<1>3. CASE DropSender(cur.reply)
  <2> DEFINE e == Empty(IF chan[cur.reply].st = "waiting" THEN "dropped" ELSE "free")
  <2>1. chan' = [chan EXCEPT ![cur.reply] = e]
    BY <1>1, <1>3, InFlight DEF DropSender
  <2>2. /\ chan[cur.reply].st # "waiting" => e.st = "free"
        /\ chan[cur.reply].st = "waiting" => e.st \in {"sent", "dropped"}
    BY DEF Empty
  <2> HIDE DEF e
  <2> QED
    BY <2>1, <2>2, RequestDone
<1> QED
  BY <1>2, <1>3

(* Taking a request into service.                                          *)
LEMMA RecvWires ==
  ASSUME Typed, Wired, Recv, UNCHANGED oracleVars
  PROVE  Wires'
<1>1. /\ cur' = queue[1] /\ Len(queue) \in Nat /\ Len(queue) # 0
      /\ Len(queue') = Len(queue) - 1
      /\ \A i \in 1 .. Len(queue') : queue'[i] = queue[i + 1] /\ i + 1 \in 1 .. Len(queue)
      /\ UNCHANGED <<chan, call>>
  BY HeadTail DEF Recv, Typed, TypeOK, ThreadTypeOK
<1>2. Len(queue') = 0 => queue' = <<>>
  BY HeadTail DEF Recv, Typed, TypeOK, ThreadTypeOK
<1>3. Owed(cur)'
  BY <1>1 DEF Wired, Wires, Owed
<1>4. \A i \in 1 .. Len(queue') : Owed(queue[i])'
  BY <1>1 DEF Wired, Wires, Owed
<1>5. \A i, j \in 1 .. Len(queue') : queue'[i].reply = queue'[j].reply => i = j
  BY <1>1 DEF Wired, Wires
<1>6. \A i \in 1 .. Len(queue') : queue'[i].reply # cur'.reply
  BY <1>1 DEF Wired, Wires
<1>7. \A i \in 1 .. Len(queue') : queue'[i].reply = call.reply => i = Len(queue')
  BY <1>1 DEF Wired, Wires
<1>8. cur'.reply = call.reply => queue' = <<>>
  BY <1>1, <1>2 DEF Wired, Wires
<1> QED
  BY <1>1, <1>3, <1>4, <1>5, <1>6, <1>7, <1>8 DEF Wired, Wires

LEMMA WorkerWired ==
  ASSUME Typed, Wired, Worker, UNCHANGED oracleVars
  PROVE  Wired'
<1>0. /\ Wires /\ InService
      /\ UNCHANGED <<queue, cur, chan, call>> => Wires'
  BY DEF Wired, Wires, Owed
<1>a. NoRequest \notin Request
  BY ThreadAssumption DEF NoRequest, Request
<1>1. CASE ScanFound
  BY <1>0, <1>1 DEF ScanFound, Wired, InService
<1>2. CASE ScanFails
  BY <1>0, <1>2 DEF ScanFails, Wired, InService
<1>3. CASE VerifyPanics
  BY <1>0, <1>3 DEF VerifyPanics, Wired, InService
<1>4. CASE VerifyFails
  BY <1>0, <1>4 DEF VerifyFails, Wired, InService
<1>5. CASE VerifyOk
  BY <1>0, <1>5 DEF VerifyOk, Wired, InService
<1>6. CASE Recv
  <2>1. cur' \in Request /\ cur'.op \in {"dh", "pubkey"}
    <3>1. queue \in Seq(Request) /\ queue # <<>> /\ cur' = Head(queue)
      BY <1>6 DEF Recv, Typed, TypeOK, ThreadTypeOK
    <3>2. Head(queue) \in Request
      BY <3>1, HeadTail
    <3>3. \A r \in Request : r.op \in {"dh", "pubkey"}
      BY DEF Request
    <3> QED
      BY <3>1, <3>2, <3>3
  <2>2. InService'
    BY <1>6, <1>a, <2>1 DEF Recv, InService
  <2> QED
    BY <1>6, <2>2, RecvWires DEF Wired
<1>7. CASE Exit
  BY <1>0, <1>7 DEF Exit, Wired, InService
<1>8. CASE Try
  <2>1. PICK a \in Attempts :
          IF a.res = "ok" THEN Finish(Secret(held, cur.pk))
          ELSE wpc' = "reconnect" /\ UNCHANGED <<cur, chan>>
    BY <1>8 DEF Try
  <2>2. CASE a.res = "ok"
    BY <1>0, <1>8, <2>1, <2>2, SendDone DEF Try, Finish, Wired, InService
  <2>3. CASE a.res # "ok"
    BY <1>0, <1>8, <2>1, <2>3 DEF Try, Wired, InService
  <2> QED
    BY <2>2, <2>3
<1>9. CASE ReconnectOk
  BY <1>0, <1>9 DEF ReconnectOk, Wired, InService
<1>10. CASE ReconnectFails
  BY <1>0, <1>10, SendDone DEF ReconnectFails, Finish, Wired, InService
<1>11. CASE Retry
  BY <1>0, <1>11, SendDone DEF Retry, Finish, Wired, InService
<1>12. CASE PubKeyOk
  BY <1>0, <1>12, SendDone DEF PubKeyOk, Finish, Wired, InService
<1>13. CASE PubKeyFails
  BY <1>0, <1>13, SendDone DEF PubKeyFails, Wired, InService
<1> QED
  BY <1>1, <1>2, <1>3, <1>4, <1>5, <1>6, <1>7, <1>8, <1>9, <1>10, <1>11, <1>12,
     <1>13 DEF Worker

(* try_send puts a new one-shot behind every other.                        *)
LEMMA EnqueueWires ==
  ASSUME Typed, Wired, call = NoCall, NEW op \in {"dh", "prime", "pubkey"},
         NEW pk \in Peers \cup {NoPeer}, Enqueue(op, pk), cur' = cur
  PROVE  Wires'
<1>1. PICK t \in Tickets : t = NewTicket /\ chan[t].st = "free"
  BY DEF Enqueue, NewTicket, FreeTickets
<1> DEFINE r == [op |-> IF op = "pubkey" THEN "pubkey" ELSE "dh", pk |-> pk, reply |-> t]
           n == Len(queue) + 1
<1>2. r \in Request
  BY DEF Request
<1>3. /\ queue' = Append(queue, r) /\ Len(queue') = n /\ n \in Nat
      /\ queue'[n] = r
      /\ \A i \in 1 .. Len(queue) : queue'[i] = queue[i]
      /\ \A i \in 1 .. n : i = n \/ i \in 1 .. Len(queue)
  BY <1>1, <1>2 DEF Enqueue, Typed, TypeOK, ThreadTypeOK
<1>4. /\ call' = [op |-> op, pk |-> pk, reply |-> t]
      /\ chan'[t].st = "waiting"
      /\ \A u \in Tickets \ {t} : chan'[u] = chan[u]
  BY <1>1, InFlight DEF Enqueue, Empty
<1>5. \A u \in Tickets : chan[u].st \notin {"waiting", "sent", "dropped"}
  BY InFlight DEF Wired, Wires
<1>6. ASSUME NEW q \in Request, Owed(q)
      PROVE  chan'[q.reply].st = "orphaned" /\ q.reply # t
  <2>1. q.reply \in Tickets /\ q.reply # t
    BY <1>1, <1>6 DEF Owed, Request
  <2> QED
    BY <1>4, <1>5, <1>6, <2>1 DEF Owed
<1>7. Owed(r)' /\ r.reply = t /\ call'.reply = t
  BY <1>4 DEF Owed
<1>8. \A i \in 1 .. Len(queue) : queue[i].reply # t /\ chan'[queue[i].reply].st = "orphaned"
  BY <1>6, InFlight DEF Wired, Wires
<1>9. cur # NoRequest => cur.reply # t /\ chan'[cur.reply].st = "orphaned"
  BY <1>6, InFlight DEF Wired, Wires
<1> HIDE DEF r, n
<1>10. \A i \in 1 .. n : Owed(queue[i])'
  BY <1>3, <1>7, <1>8 DEF Owed
<1>11. cur # NoRequest => Owed(cur)'
  BY <1>9 DEF Owed
<1>12. cur # NoRequest => \A i \in 1 .. n : queue'[i].reply # cur.reply
  BY <1>3, <1>7, <1>9 DEF Wired, Wires
<1>13. \A i, j \in 1 .. n : queue'[i].reply = queue'[j].reply => i = j
  BY <1>3, <1>7, <1>8 DEF Wired, Wires
<1>14. \A i \in 1 .. n : queue'[i].reply = call'.reply => i = n
  BY <1>3, <1>7, <1>8
<1>15. \A u \in Tickets : chan'[u].st \in {"waiting", "sent", "dropped"} => u = call'.reply
  BY <1>4, <1>5, <1>7
<1> QED
  BY <1>3, <1>4, <1>7, <1>9, <1>10, <1>11, <1>12, <1>13, <1>14, <1>15 DEF Wires

(* The end of a call, answered or cancelled.                               *)
LEMMA CallDone ==
  ASSUME Typed, Wired, call # NoCall, call' = NoCall, UNCHANGED <<queue, cur>>,
         NEW s, chan' = [chan EXCEPT ![call.reply] = Empty(s)],
         s = IF chan[call.reply].st = "waiting" THEN "orphaned" ELSE "free"
  PROVE  Wires'
<1>1. /\ call.reply \in Tickets /\ chan'[call.reply].st = s
      /\ \A t \in Tickets \ {call.reply} : chan'[t] = chan[t]
  BY InFlight DEF Empty
<1>2. call'.reply \notin Tickets
  BY ThreadAssumption DEF NoCall
<1>3. ASSUME NEW q \in Request, Owed(q)
      PROVE  Owed(q)' /\ q.reply # call'.reply
  <2>1. q.reply \in Tickets
    BY DEF Request
  <2>2. chan'[q.reply].st = "orphaned"
    <3>1. chan[call.reply].st # "orphaned"
      BY DEF Wired, Wires
    <3> QED
      BY <1>1, <1>3, <2>1, <3>1 DEF Owed
  <2> QED
    BY <1>2, <2>1, <2>2 DEF Owed
<1>4. \A i \in 1 .. Len(queue) : Owed(queue[i])' /\ queue[i].reply # call'.reply
  BY <1>3, InFlight DEF Wired, Wires
<1>5. cur # NoRequest => Owed(cur)' /\ cur.reply # call'.reply
  BY <1>3, InFlight DEF Wired, Wires
<1>6. \A t \in Tickets : chan'[t].st \notin {"waiting", "sent", "dropped"}
  BY <1>1 DEF Wired, Wires
<1> QED
  BY <1>4, <1>5, <1>6 DEF Wired, Wires, Owed

LEMMA ClientWired ==
  ASSUME Typed, Bound, Wired, Client
  PROVE  Wired'
<1> USE DEF Ready2Call
<1>0. /\ Wires /\ InService
      /\ UNCHANGED <<queue, cur, chan, call>> => Wires'
      /\ UNCHANGED <<wpc, cur>> => InService'
  BY DEF Wired, Wires, Owed, InService
<1>1. CASE Open
  BY <1>0, <1>1 DEF Open, Wired, InService, Bound
<1>2. CASE SpawnFails
  BY <1>0, <1>2 DEF SpawnFails, Wired
<1>3. CASE Opened
  BY <1>0, <1>3 DEF Opened, Wired
<1>4. CASE AbandonOpen
  BY <1>0, <1>4 DEF AbandonOpen, Wired
<1>5. ASSUME NEW pk \in Peers, NEW op \in {"dh", "prime"}, CallDh(op, pk)
      PROVE  Wired'
  <2>1. CASE WorkerGone \/ Len(queue) = Capacity
    BY <1>0, <1>5, <2>1 DEF CallDh, Wired
  <2>2. CASE ~(WorkerGone \/ Len(queue) = Capacity)
    BY <1>0, <1>5, <2>2, EnqueueWires DEF CallDh, Wired
  <2> QED
    BY <2>1, <2>2
<1>6. ASSUME NEW pk \in Peers, CachedDh(pk) \/ forget_peer(pk)
      PROVE  Wired'
  BY <1>0, <1>6 DEF CachedDh, forget_peer, Wired
<1>7. CASE CallPubKey
  <2>1. CASE WorkerGone \/ Len(queue) = Capacity
    BY <1>0, <1>7, <2>1 DEF CallPubKey, Wired
  <2>2. CASE ~(WorkerGone \/ Len(queue) = Capacity)
    BY <1>0, <1>7, <2>2, EnqueueWires DEF CallPubKey, Wired
  <2> QED
    BY <2>1, <2>2
<1>8. CASE Receive
  BY <1>0, <1>8, CallDone DEF Receive, Wired
<1>9. CASE Cancel
  BY <1>0, <1>9, CallDone, InFlight DEF Cancel, Wired
<1>10. CASE DropHandle
  BY <1>0, <1>10 DEF DropHandle, Wired
<1> QED
  BY <1>1, <1>2, <1>3, <1>4, <1>5, <1>6, <1>7, <1>8, <1>9, <1>10 DEF Client

LEMMA WorldWired ==
  ASSUME Wired, World, UNCHANGED oracleVars
  PROVE  Wired'
<1>1. UNCHANGED <<wpc, queue, cur, chan, call>>
  BY DEF World, Interferes
<1> QED
  BY <1>1 DEF Wired, InService, Wires, Owed

LEMMA WiredInit == Init => Wired
BY DEF Init, ThreadInit, Wired, InService, Wires, Empty

LEMMA WiredStep == Typed /\ Bound /\ Wired /\ [Next]_vars => Wired'
<1> SUFFICES ASSUME Typed, Bound, Wired, [Next]_vars PROVE Wired'
  OBVIOUS
<1>1. CASE UNCHANGED vars
  BY <1>1 DEF vars, Wired, InService, Wires, Owed
<1> QED
  BY <1>1, WorkerWired, ClientWired, WorldWired DEF Next

(* Every request that still waits in the channel or is being served was    *)
(* cancelled, but for the newest, which is the one the call awaits.        *)
THEOREM OnlyNewestIsAwaited == Spec => []OnlyNewestAwaited
<1>1. Typed /\ Wired => OnlyNewestAwaited
  <2> SUFFICES ASSUME Typed, Wired, NEW i \in 1 .. Len(Pending),
                      chan[Pending[i].reply].st = "waiting"
               PROVE  i = Len(Pending) /\ call.reply = Pending[i].reply
    BY DEF OnlyNewestAwaited
  <2>1. CASE cur = NoRequest
    <3>1. Pending = queue
      BY <2>1 DEF Pending, Typed, TypeOK, ThreadTypeOK
    <3> QED
      BY <3>1 DEF Wired, Wires, Owed
  <2>2. CASE cur # NoRequest
    <3>1. queue \in Seq(Request) /\ cur \in Request
      BY <2>2 DEF Typed, TypeOK, ThreadTypeOK
    <3>2. /\ Len(Pending) = Len(queue) + 1 /\ Len(queue) \in Nat
          /\ Pending[1] = cur
          /\ \A j \in 1 .. Len(queue) : Pending[j + 1] = queue[j]
      BY <2>2, <3>1 DEF Pending
    <3>3. CASE i = 1
      BY <2>2, <3>2, <3>3 DEF Wired, Wires, Owed
    <3>4. CASE i # 1
      <4>1. i - 1 \in 1 .. Len(queue) /\ Pending[i] = queue[i - 1]
        BY <3>2, <3>4
      <4> QED
        BY <3>2, <4>1 DEF Wired, Wires, Owed
    <3> QED
      BY <3>3, <3>4
  <2> QED
    BY <2>1, <2>2
<1> QED
  BY <1>1, TypedInit, BoundInit, WiredInit, TypedStep, BoundStep, WiredStep, PTL DEF Spec

-----------------------------------------------------------------------------
(* Layer 4: what is sent, cached and returned is true.                     *)

(* The reply to the request in service.                                    *)
LEMMA SendTruthful ==
  ASSUME Typed, Bound, Wired, Truthful, cur # NoRequest, wpc \in Serving, wpc' \in Serving,
         UNCHANGED <<ident, call, outcome, ssCache>>,
         NEW v, v.res = "ok" => v = Secret(held, cur.pk), Send(cur.reply, v)
  PROVE  Truthful'
<1>1. v.res = "ok" /\ chan[cur.reply].st = "waiting" => v = Secret(ident, call.pk)
  BY ThreadAssumption, PcscAssumption DEF Bound, Wired, Wires, Owed, Serving
<1>2. ASSUME NEW t \in Tickets, chan'[t].st = "sent", chan'[t].val.res = "ok"
      PROVE  chan'[t].val = Secret(ident, call.pk)
  <2>1. CASE t = cur.reply /\ chan[cur.reply].st = "waiting"
    BY <1>1, <1>2, <2>1, InFlight DEF Send
  <2>2. CASE t = cur.reply /\ chan[cur.reply].st # "waiting"
    BY <1>2, <2>2, InFlight DEF Send, Empty
  <2>3. CASE t # cur.reply
    BY <1>2, <2>3, InFlight DEF Send, Truthful
  <2> QED
    BY <2>1, <2>2, <2>3
<1> QED
  BY <1>2 DEF Truthful, Serving

LEMMA WorkerTruthful ==
  ASSUME Typed, Bound, Wired, Truthful, Worker, UNCHANGED oracleVars
  PROVE  Truthful'
<1>a. ASSUME UNCHANGED <<ident, chan>>, wpc' \in {"unborn", "scan"} => wpc' = wpc
      PROVE  Truthful'
  BY <1>a DEF Truthful
<1>b. wpc \in {"try", "reconnect", "retry", "pubkey"} => cur # NoRequest
  BY DEF Wired, InService
<1>c. \A e \in {"CardError", "CardNotFound"} \cup ThreadErrors :
        Failed(e).res # "ok"
  BY DEF Failed, ThreadErrors
<1>1. CASE ScanFound
  <2>1. call = NoCall
    BY <1>1 DEF ScanFound, Bound, Serving
  <2>2. \A t \in Tickets : chan[t].st # "sent"
    BY <2>1, InFlight DEF Wired, Wires
  <2>3. /\ outcome = NoOutcome /\ NoOutcome.val.res # "ok"
        /\ \A p \in Peers : ssCache[p] = NotCached
    BY <1>1 DEF ScanFound, Truthful, NoOutcome, NotCached
  <2> QED
    BY <1>1, <2>1, <2>2, <2>3 DEF ScanFound, Truthful, NoCall
<1>2. CASE ScanFails
  BY <1>2, <1>a DEF ScanFails
<1>3. CASE VerifyPanics
  BY <1>3, <1>a DEF VerifyPanics
<1>4. CASE VerifyFails
  BY <1>4, <1>a DEF VerifyFails
<1>5. CASE VerifyOk
  BY <1>5, <1>a DEF VerifyOk
<1>6. CASE Recv
  BY <1>6, <1>a DEF Recv
<1>7. CASE Exit
  BY <1>7, <1>a DEF Exit
<1>8. CASE Try
  <2>1. PICK a \in Attempts :
          IF a.res = "ok" THEN Finish(Secret(held, cur.pk))
          ELSE wpc' = "reconnect" /\ UNCHANGED <<cur, chan>>
    BY <1>8 DEF Try
  <2>2. CASE a.res = "ok"
    BY <1>8, <1>b, <2>1, <2>2, SendTruthful DEF Try, Finish, Serving
  <2>3. CASE a.res # "ok"
    BY <1>8, <1>a, <2>1, <2>3 DEF Try
  <2> QED
    BY <2>2, <2>3
<1>9. CASE ReconnectOk
  BY <1>9, <1>a DEF ReconnectOk
<1>10. CASE ReconnectFails
  BY <1>10, <1>b, <1>c, SendTruthful DEF ReconnectFails, Finish, Serving
<1>11. CASE Retry
  <2>1. PICK a \in Attempts :
          Finish(IF a.res = "ok" THEN Secret(held, cur.pk) ELSE Failed(a.res))
    BY <1>11 DEF Retry
  <2>2. a.res \in {"ok"} \cup ThreadErrors
    BY AttemptTyped DEF Typed, TypeOK, ThreadTypeOK, PcscTypeOK
  <2> DEFINE v == IF a.res = "ok" THEN Secret(held, cur.pk) ELSE Failed(a.res)
  <2>3. v.res = "ok" => v = Secret(held, cur.pk)
    BY <1>c, <2>2
  <2>4. Send(cur.reply, v) /\ wpc' = "recv"
    BY <2>1 DEF Finish
  <2> HIDE DEF v
  <2> QED
    BY <1>11, <1>b, <2>3, <2>4, SendTruthful DEF Retry, Serving
<1>12. CASE PubKeyOk
  <2>1. chan[cur.reply].st = "waiting" => cur.pk = call.pk /\ call.pk = NoPeer
    BY <1>12, <1>b DEF PubKeyOk, Wired, Wires, InService, Owed, Truthful
  <2>2. CASE chan[cur.reply].st = "waiting"
    BY <1>12, <1>b, <2>1, <2>2, SendTruthful DEF PubKeyOk, Finish, Serving
  <2>3. CASE chan[cur.reply].st # "waiting"
    <3>1. \A t \in Tickets : chan'[t].st = "sent" => chan'[t] = chan[t]
      BY <1>12, <2>3, InFlight DEF PubKeyOk, Finish, Send, Empty
    <3>2. UNCHANGED ident /\ wpc' = "recv"
      BY <1>12 DEF PubKeyOk, Finish
    <3> QED
      BY <3>1, <3>2 DEF Truthful
  <2> QED
    BY <2>2, <2>3
<1>13. CASE PubKeyFails
  <2>1. \A t \in Tickets : chan'[t].st = "sent" => chan'[t] = chan[t]
    BY <1>13, InFlight DEF PubKeyFails, DropSender, Empty
  <2>2. UNCHANGED ident /\ wpc' = "recv"
    BY <1>13 DEF PubKeyFails
  <2> QED
    BY <2>1, <2>2 DEF Truthful
<1> QED
  BY <1>1, <1>2, <1>3, <1>4, <1>5, <1>6, <1>7, <1>8, <1>9, <1>10, <1>11, <1>12,
     <1>13 DEF Worker

LEMMA ClientTruthful ==
  ASSUME Typed, Bound, Wired, Truthful, Client
  PROVE  Truthful'
<1> USE DEF Ready2Call
<1>a. ident' = ident
  BY DEF Client, Open, SpawnFails, Opened, AbandonOpen, CallDh, CachedDh, forget_peer,
         CallPubKey, Receive, Cancel, DropHandle
<1>b. handle = "open" => wpc \in Serving /\ wpc \notin {"unborn", "scan"}
  BY DEF Bound, Serving
<1>c. NoCall.op = "none" /\ NoOutcome.val.res = "none"
  BY DEF NoCall, NoOutcome, NotCached
<1>d. ASSUME NEW op \in {"dh", "prime", "pubkey"}, NEW pk \in Peers \cup {NoPeer},
             op = "pubkey" => pk = NoPeer, Enqueue(op, pk), call = NoCall,
             handle = "open", UNCHANGED <<wpc, ssCache>>
      PROVE  Truthful'
  <2>1. \A t \in Tickets : chan'[t].st # "sent"
    BY <1>d, InFlight DEF Enqueue, Wired, Wires, Empty
  <2>2. call'.op = op /\ call'.pk = pk /\ outcome' = NoOutcome
    BY <1>d DEF Enqueue
  <2> QED
    BY <1>a, <1>b, <1>c, <1>d, <2>1, <2>2 DEF Truthful
<1>1. CASE Open
  BY <1>1, <1>a DEF Open, Truthful, Bound
<1>2. CASE SpawnFails
  BY <1>2 DEF SpawnFails, Truthful
<1>3. CASE Opened
  BY <1>3 DEF Opened, Truthful
<1>4. CASE AbandonOpen
  BY <1>4 DEF AbandonOpen, Truthful
<1>5. ASSUME NEW pk \in Peers, NEW op \in {"dh", "prime"}, CallDh(op, pk)
      PROVE  Truthful'
  <2>1. CASE WorkerGone \/ Len(queue) = Capacity
    <3>1. outcome'.val.res # "ok"
      BY <1>5, <2>1 DEF CallDh, Return, Seen, Failed
    <3> QED
      BY <1>5, <1>a, <1>b, <2>1, <3>1 DEF CallDh, Truthful
  <2>2. CASE ~(WorkerGone \/ Len(queue) = Capacity)
    BY <1>5, <1>d, <2>2 DEF CallDh
  <2> QED
    BY <2>1, <2>2
<1>6. ASSUME NEW pk \in Peers, CachedDh(pk)
      PROVE  Truthful'
  <2>1. outcome'.val = Secret(ident, outcome'.pk)
    BY <1>6 DEF CachedDh, Return, Truthful
  <2> QED
    BY <1>6, <1>b, <2>1 DEF CachedDh, Truthful
<1>7. ASSUME NEW pk \in Peers, forget_peer(pk)
      PROVE  Truthful'
  BY <1>7, <1>b DEF forget_peer, Truthful, Typed, TypeOK
<1>8. CASE CallPubKey
  <2>1. CASE WorkerGone \/ Len(queue) = Capacity
    BY <1>8, <2>1 DEF CallPubKey, Truthful
  <2>2. CASE ~(WorkerGone \/ Len(queue) = Capacity)
    BY <1>8, <1>d, <2>2 DEF CallPubKey
  <2> QED
    BY <2>1, <2>2
<1>9. CASE Receive
  <2> DEFINE v == Awaited(call.reply)
  <2>1. /\ call \in Call /\ call.reply \in Tickets /\ call.pk \in Peers \cup {NoPeer}
        /\ handle = "open"
    BY <1>9, InFlight DEF Receive, Call, Bound
  <2>2. v.res = "ok" => v = Secret(ident, call.pk)
    BY <2>1 DEF Awaited, Failed, Truthful
  <2>3. \A t \in Tickets : chan'[t].st # "sent"
    BY <1>9, <2>1, InFlight DEF Receive, Wired, Wires, Empty
  <2>4. outcome'.val.res = "ok" => outcome'.val = Secret(ident, outcome'.pk)
    BY <1>9, <2>2 DEF Receive, Return, Seen, Failed, Truthful
  <2>5. \A p \in Peers : ssCache'[p] # NotCached => ssCache'[p] = Secret(ident, p)
    BY <1>9, <2>2 DEF Receive, Truthful, Typed, TypeOK
  <2>6. call'.op = "none" /\ wpc' = wpc
    BY <1>9, <1>c DEF Receive
  <2> QED
    BY <1>a, <1>b, <2>1, <2>3, <2>4, <2>5, <2>6 DEF Truthful
<1>10. CASE Cancel
  <2>1. call.reply \in Tickets /\ handle = "open"
    BY <1>10, InFlight DEF Cancel, Bound
  <2>2. \A t \in Tickets : chan'[t].st # "sent"
    BY <1>10, <2>1, InFlight DEF Cancel, Wired, Wires, Empty
  <2> QED
    BY <1>10, <1>a, <1>b, <1>c, <2>1, <2>2 DEF Cancel, Truthful
<1>11. CASE DropHandle
  BY <1>11 DEF DropHandle, Truthful
<1> QED
  BY <1>1, <1>2, <1>3, <1>4, <1>5, <1>6, <1>7, <1>8, <1>9, <1>10, <1>11 DEF Client

LEMMA TruthfulInit == Init => Truthful
BY DEF Init, ThreadInit, Truthful, NoCall, NoOutcome, NotCached, Empty

LEMMA TruthfulStep == IInv /\ [Next]_vars => Truthful'
<1> SUFFICES ASSUME IInv, [Next]_vars PROVE Truthful'
  OBVIOUS
<1>1. CASE UNCHANGED vars
  BY <1>1 DEF vars, IInv, Truthful
<1>2. CASE World /\ UNCHANGED oracleVars
  BY <1>2 DEF World, Interferes, IInv, Truthful
<1> QED
  BY <1>1, <1>2, WorkerTruthful, ClientTruthful DEF Next, IInv

-----------------------------------------------------------------------------
(* The inductive invariant of the composed system, whole.                  *)
THEOREM InductiveInvariant == Spec => []IInv
<1>1. Init => IInv
  BY TypedInit, BoundInit, WiredInit, TruthfulInit DEF IInv
<1>2. IInv /\ [Next]_vars => IInv'
  BY TypedStep, BoundStep, WiredStep, TruthfulStep DEF IInv
<1> QED
  BY <1>1, <1>2, PTL DEF Spec

(* A call that succeeds returns its own secret, computed by the card the   *)
(* handle was opened on: after cancelled calls, reconnections to another   *)
(* reader slot, and answers from the cache.                                *)
THEOREM CallsGetTheirOwnAnswer == Spec => []AnswersOwnCall
<1>1. IInv => AnswersOwnCall
  BY DEF IInv, Truthful, AnswersOwnCall
<1> QED
  BY <1>1, InductiveInvariant, PTL
=============================================================================
