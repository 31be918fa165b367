---------------------------- MODULE OracleProofs ----------------------------
(***************************************************************************)
(* What CardOracle promises its caller, for every set of cards, peers and  *)
(* tickets: each DH is answered, a stale connection heals, and the handle  *)
(* implements DhOracle.                                                    *)
(***************************************************************************)
EXTENDS CardProofs, FiniteSetTheorems

USE DEF pcscVars, threadVars, oracleVars

-----------------------------------------------------------------------------
(* Answers.                                                                *)

(* The errors are not what CardHandle adds to them.                        *)
LEMMA ErrorFacts ==
  /\ \A e \in ThreadErrors : Failed(e).res = e /\ Proper(Failed(e))
  /\ \A e \in ThreadErrors : e \notin {"ok", "QueueFull", "ThreadGone", "ReplyDropped", "KeyExchangeError"}
  /\ \A v : Proper(v) => v.res \notin {"QueueFull", "ThreadGone", "ReplyDropped", "KeyExchangeError"}
<1>1. \A e : Failed(e).res = e
  BY DEF Failed
<1>2. \A e \in ThreadErrors : e \notin {"ok", "QueueFull", "ThreadGone", "ReplyDropped", "KeyExchangeError"}
  BY DEF ThreadErrors
<1> QED
  BY <1>1, <1>2 DEF Proper

(* A secret of a peer that is not of low order is proper.                  *)
LEMMA SecretProper ==
  ASSUME NEW c, NEW p, p \notin LowOrder
  PROVE  Proper(Secret(c, p))
BY DEF Proper, Secret

(* A proper reply keeps the replies proper.                                *)
LEMMA SendAnswered ==
  ASSUME Typed, Answered, cur # NoRequest, UNCHANGED <<call, outcome, ssCache>>,
         NEW v, Proper(v), Send(cur.reply, v)
  PROVE  Answered'
<1>1. cur.reply \in Tickets /\ chan \in [Tickets -> Chan]
  BY InFlight
<1>2. \A t \in Tickets : chan'[t] = chan[t] \/ chan'[t] = [st |-> "sent", val |-> v] \/ chan'[t].st = "free"
  BY <1>1 DEF Send, Empty
<1>3. \A t \in Tickets : chan'[t].st = "sent" => Proper(chan'[t].val)
  BY <1>2 DEF Answered
<1>4. call.op \in {"dh", "prime"} => chan'[call.reply].st # "dropped"
  <2>1. ASSUME call.op \in {"dh", "prime"} PROVE call.reply \in Tickets
    BY <2>1, InFlight
  <2> QED
    BY <1>2, <2>1 DEF Answered, DhAlwaysAnswered
<1> QED
  BY <1>3, <1>4 DEF Answered, DhAlwaysAnswered

LEMMA WorkerAnswered ==
  ASSUME IInv, Answered, Worker, UNCHANGED oracleVars
  PROVE  Answered'
<1>i. Typed /\ Bound /\ Wired
  BY DEF IInv
<1>a. ASSUME UNCHANGED chan PROVE Answered'
  BY <1>a DEF Answered, DhAlwaysAnswered
<1>b. wpc \in {"try", "reconnect", "retry", "pubkey"} => cur # NoRequest
  BY <1>i DEF Wired, InService
<1>c. \A a \in Attempts : /\ a.res \in {"ok"} \cup ThreadErrors
                          /\ a.res = "ok" => cur.pk \notin LowOrder
  <2>1. SUFFICES ASSUME NEW a \in Attempts PROVE a.res \in {"ok"} \cup ThreadErrors /\ (a.res = "ok" => cur.pk \notin LowOrder)
    OBVIOUS
  <2>2. a.res \in {"ok"} \cup ThreadErrors
    BY <1>i, AttemptTyped DEF Typed, TypeOK, ThreadTypeOK, PcscTypeOK
  <2> QED
    BY <2>2 DEF Attempts
<1>1. CASE ScanFound \/ ScanFails \/ VerifyPanics \/ VerifyFails \/ VerifyOk \/ Recv \/ Exit \/ ReconnectOk
  BY <1>1, <1>a DEF ScanFound, ScanFails, VerifyPanics, VerifyFails, VerifyOk, Recv, Exit, ReconnectOk
<1>2. CASE Try
  <2>1. PICK a \in Attempts :
          IF a.res = "ok" THEN Finish(Secret(held, cur.pk))
          ELSE wpc' = "reconnect" /\ UNCHANGED <<cur, chan>>
    BY <1>2 DEF Try
  <2>2. CASE a.res = "ok"
    BY <1>2, <1>b, <1>c, <1>i, <2>1, <2>2, SecretProper, SendAnswered DEF Try, Finish
  <2>3. CASE a.res # "ok"
    BY <1>a, <2>1, <2>3
  <2> QED
    BY <2>2, <2>3
<1>3. CASE ReconnectFails
  <2>1. PICK e \in {"CardError", "CardNotFound"} : Finish(Failed(e))
    BY <1>3 DEF ReconnectFails
  <2>2. Proper(Failed(e))
    BY <2>1, ErrorFacts DEF ThreadErrors
  <2> QED
    BY <1>3, <1>b, <1>i, <2>1, <2>2, SendAnswered DEF ReconnectFails, Finish
<1>4. CASE Retry
  <2>1. PICK a \in Attempts :
          Finish(IF a.res = "ok" THEN Secret(held, cur.pk) ELSE Failed(a.res))
    BY <1>4 DEF Retry
  <2> DEFINE v == IF a.res = "ok" THEN Secret(held, cur.pk) ELSE Failed(a.res)
  <2>2. Proper(v)
    BY <1>c, ErrorFacts, SecretProper
  <2>3. Send(cur.reply, v)
    BY <2>1 DEF Finish
  <2> HIDE DEF v
  <2> QED
    BY <1>4, <1>b, <1>i, <2>2, <2>3, SendAnswered DEF Retry
<1>5. CASE PubKeyOk
  BY <1>5, <1>b, <1>i, ThreadAssumption, SecretProper, SendAnswered DEF PubKeyOk, Finish
<1>6. CASE PubKeyFails
  <2>1. cur # NoRequest /\ cur.op = "pubkey" /\ cur.reply \in Tickets /\ chan \in [Tickets -> Chan]
    BY <1>6, <1>b, <1>i, InFlight DEF PubKeyFails, Wired, InService
  <2>2. \A t \in Tickets : chan'[t] = chan[t] \/ chan'[t].st = "free" \/
                             (t = cur.reply /\ chan[t].st = "waiting" /\ chan'[t].st = "dropped")
    BY <1>6, <2>1 DEF PubKeyFails, DropSender, Empty
  <2>3. chan[cur.reply].st = "waiting" => cur.reply = call.reply /\ call.op = "pubkey"
    BY <1>i, <2>1 DEF Wired, Wires, Owed
  <2>4. call.op \in {"dh", "prime"} => chan'[call.reply].st # "dropped"
    <3>1. ASSUME call.op \in {"dh", "prime"} PROVE call.reply \in Tickets
      BY <3>1, <1>i, InFlight
    <3> QED
      BY <2>2, <2>3, <3>1 DEF Answered, DhAlwaysAnswered
  <2>5. \A t \in Tickets : chan'[t].st = "sent" => Proper(chan'[t].val)
    BY <2>2 DEF Answered
  <2> QED
    BY <2>4, <2>5 DEF Answered, DhAlwaysAnswered
<1> QED
  BY <1>1, <1>2, <1>3, <1>4, <1>5, <1>6 DEF Worker

LEMMA ClientAnswered ==
  ASSUME IInv, Answered, Client
  PROVE  Answered'
<1> USE DEF Ready2Call
<1>i. Typed /\ Bound /\ Wired /\ Truthful
  BY DEF IInv
<1>a. ASSUME UNCHANGED <<chan, call, outcome, ssCache>> PROVE Answered'
  BY <1>a DEF Answered, DhAlwaysAnswered
<1>b. handle = "open" => ~WorkerGone
  BY <1>i DEF Bound, Serving, WorkerGone
<1>c. NoCall.op = "none" /\ NoOutcome.val.res = "none"
  BY DEF NoCall, NoOutcome, NotCached
<1>d. ASSUME NEW op \in {"dh", "prime", "pubkey"}, NEW pk \in Peers \cup {NoPeer},
             Enqueue(op, pk), call = NoCall, UNCHANGED ssCache
      PROVE  Answered'
  <2>1. PICK t \in Tickets : t = NewTicket /\ chan[t].st = "free"
    BY <1>d DEF Enqueue, NewTicket, FreeTickets
  <2>2. /\ call' = [op |-> op, pk |-> pk, reply |-> t] /\ outcome' = NoOutcome
        /\ chan'[t].st = "waiting" /\ \A u \in Tickets \ {t} : chan'[u] = chan[u]
    BY <1>d, <1>i, <2>1, InFlight DEF Enqueue, Empty
  <2> QED
    BY <1>c, <1>d, <2>2 DEF Answered, DhAlwaysAnswered
<1>1. CASE Open \/ SpawnFails \/ Opened \/ AbandonOpen \/ DropHandle
  BY <1>1, <1>a DEF Open, SpawnFails, Opened, AbandonOpen, DropHandle
<1>2. ASSUME NEW pk \in Peers, NEW op \in {"dh", "prime"}, CallDh(op, pk)
      PROVE  Answered'
  <2>1. CASE Len(queue) = Capacity
    <3>1. outcome'.val.res \in {"QueueFull", "KeyExchangeError"}
      BY <1>2, <1>b, <2>1 DEF CallDh, Return, Seen, Failed
    <3> QED
      BY <1>2, <1>b, <1>c, <2>1, <3>1 DEF CallDh, Answered, DhAlwaysAnswered
  <2>2. CASE Len(queue) # Capacity
    BY <1>2, <1>b, <1>d, <2>2 DEF CallDh
  <2> QED
    BY <2>1, <2>2
<1>3. ASSUME NEW pk \in Peers, CachedDh(pk)
      PROVE  Answered'
  <2>0. ssCache[pk] = Secret(ident, pk)
    BY <1>3, <1>i DEF CachedDh, Truthful
  <2>1. ssCache[pk].res = "ok"
    BY <2>0 DEF Secret
  <2> QED
    BY <1>3, <1>c, <2>1 DEF CachedDh, Return, Answered, DhAlwaysAnswered
<1>4. ASSUME NEW pk \in Peers, forget_peer(pk)
      PROVE  Answered'
  BY <1>4, <1>i DEF forget_peer, Answered, DhAlwaysAnswered, Typed, TypeOK
<1>5. CASE CallPubKey
  <2>1. CASE Len(queue) = Capacity
    BY <1>5, <1>a, <2>1 DEF CallPubKey
  <2>2. CASE Len(queue) # Capacity
    BY <1>5, <1>b, <1>d, <2>2 DEF CallPubKey
  <2> QED
    BY <2>1, <2>2
<1>6. CASE Receive
  <2> DEFINE v == Awaited(call.reply)
  <2>1. call \in Call /\ call.reply \in Tickets /\ call.op \in {"dh", "prime", "pubkey"}
    BY <1>6, <1>i, InFlight DEF Receive, Call
  <2>2. \/ chan[call.reply].st = "sent" /\ v = chan[call.reply].val /\ Proper(v)
        \/ chan[call.reply].st = "dropped" /\ call.op = "pubkey" /\ v.res # "ok"
    BY <1>6, <2>1 DEF Receive, Awaited, Failed, Answered, DhAlwaysAnswered
  <2>3. \A t \in Tickets : chan'[t].st # "sent"
    BY <1>6, <1>i, <2>1, InFlight DEF Receive, Wired, Wires, Empty
  <2>4. outcome' # outcome => outcome'.val.res \notin {"ThreadGone", "ReplyDropped"}
    BY <1>6, <2>1, <2>2, ErrorFacts DEF Receive, Return, Seen, Failed
  <2>5. \A p \in Peers : ssCache'[p] # NotCached => p \notin LowOrder
    <3>1. call.op = "prime" /\ v.res = "ok" => call.pk \notin LowOrder
      <4>1. SUFFICES ASSUME call.op = "prime", v.res = "ok" PROVE call.pk \notin LowOrder
        OBVIOUS
      <4>2. v = Secret(ident, call.pk) /\ Proper(v)
        BY <4>1, <1>i, <2>1, <2>2 DEF Truthful
      <4>3. v.pk = call.pk /\ v.pk \notin LowOrder
        <5>1. v.pk = call.pk
          BY <4>2 DEF Secret
        <5>2. v \notin {Failed(e) : e \in ThreadErrors}
          BY <4>1, ErrorFacts
        <5> QED
          BY <4>1, <4>2, <5>1, <5>2 DEF Proper
      <4> QED
        BY <4>3
    <3> QED
      BY <1>6, <1>i, <3>1 DEF Receive, Answered, Typed, TypeOK
  <2>6. call'.op = "none"
    BY <1>6, <1>c DEF Receive
  <2> QED
    BY <2>3, <2>4, <2>5, <2>6 DEF Answered, DhAlwaysAnswered
<1>7. CASE Cancel
  <2>1. call.reply \in Tickets
    BY <1>7, <1>i, InFlight DEF Cancel
  <2>2. \A t \in Tickets : chan'[t].st # "sent"
    BY <1>7, <1>i, <2>1, InFlight DEF Cancel, Wired, Wires, Empty
  <2> QED
    BY <1>7, <1>c, <2>2 DEF Cancel, Answered, DhAlwaysAnswered
<1> QED
  BY <1>1, <1>2, <1>3, <1>4, <1>5, <1>6, <1>7 DEF Client

LEMMA AnsweredStep == IInv /\ Answered /\ [Next]_vars => Answered'
<1> SUFFICES ASSUME IInv, Answered, [Next]_vars PROVE Answered'
  OBVIOUS
<1>1. CASE UNCHANGED vars \/ (World /\ UNCHANGED oracleVars)
  BY <1>1 DEF vars, World, Interferes, Answered, DhAlwaysAnswered
<1> QED
  BY <1>1, WorkerAnswered, ClientAnswered DEF Next

-----------------------------------------------------------------------------
(* Healing.                                                                *)

LEMMA HealedStep == Typed /\ Bound /\ Wired /\ Healed /\ [Next]_vars => Healed'
<1> SUFFICES ASSUME Typed, Bound, Wired, Healed, [Next]_vars PROVE Healed'
  OBVIOUS
<1> USE DEF Healed, StaleHandleHeals
<1>t. svc \in Service /\ live \in BOOLEAN
  BY DEF Typed, TypeOK, ThreadTypeOK, PcscTypeOK
<1>e. "none" \notin ThreadErrors /\ "ok" \notin ThreadErrors
  BY DEF ThreadErrors
<1>a. \A a \in Attempts :
        a.res \notin {"ok", "ZeroSharedSecret"} => a.fault \/ ~live \/ ~PinAccepted
  BY DEF Attempts
<1>b. ASSUME NEW a \in Attempts, PinAccepted
      PROVE  a.tries > 0
  <2>1. a.tries \in {tries, PinLimit}
    BY <1>b DEF Attempts
  <2> QED
    BY <1>b, <2>1, PcscAssumption DEF PinAccepted
<1>1. CASE Client \/ UNCHANGED vars
  <2>1. /\ UNCHANGED <<pcscVars, svc>>
        /\ wpc' = wpc \/ (wpc = "unborn" /\ wpc' = "scan")
        /\ ident' = ident
    BY <1>1 DEF Bound, vars, Client, Open, SpawnFails, Opened, AbandonOpen, CallDh, CachedDh,
                forget_peer, CallPubKey, Receive, Cancel, DropHandle
  <2> QED
    BY <2>1 DEF PinAccepted
<1>2. CASE World /\ UNCHANGED oracleVars
  <2>1. ASSUME NEW c \in Cards, Remove(c), Interferes(c = held)
        PROVE  Healed'
    <3>1. wpc' = wpc /\ svc'.res = svc.res /\ (svc'.sound => svc.sound)
      BY <2>1, <1>t DEF Interferes, Service
    <3>2. CASE cur = NoRequest
      BY <2>1, <3>1, <3>2 DEF Wired, InService
    <3>3. CASE c = held /\ cur # NoRequest
      BY <2>1, <3>1, <3>3, <1>t DEF Interferes, Service
    <3>4. CASE c # held
      <4>1. wpc \in {"try", "reconnect", "retry"} => held = ident
        BY DEF Bound, Serving
      <4>2. UNCHANGED <<ident, pinOk, tries>> /\ inserted' = inserted \ {c}
        BY <2>1 DEF Remove, Interferes
      <4>3. wpc \in {"try", "reconnect", "retry"} => live' = live
        BY <2>1, <3>4, <1>t DEF Remove
      <4>4. PinAccepted' = PinAccepted
        BY <4>2 DEF PinAccepted
      <4>5. wpc \in {"try", "reconnect", "retry"} /\ ident \in inserted => ident' \in inserted'
        BY <3>4, <4>1, <4>2
      <4> QED
        BY <3>1, <4>3, <4>4, <4>5
    <3> QED
      BY <3>2, <3>3, <3>4
  <2>2. CASE ChangePin /\ Interferes(TRUE)
    <3>1. wpc' = wpc /\ svc'.res = svc.res /\ (svc'.sound => svc.sound)
      BY <2>2, <1>t DEF Interferes, Service
    <3>2. cur # NoRequest => ~svc'.sound
      BY <2>2, <1>t DEF Interferes, Service
    <3> QED
      BY <3>1, <3>2 DEF Wired, InService
  <2>3. ASSUME NEW c \in Cards, Insert(c), UNCHANGED threadVars
        PROVE  Healed'
    BY <2>3 DEF Insert, PinAccepted
  <2> QED
    BY <1>2, <2>1, <2>2, <2>3 DEF World
<1>3. CASE Worker
  <2>1. CASE ScanFound \/ ScanFails \/ VerifyPanics \/ VerifyFails \/ VerifyOk \/ Exit
    BY <2>1, <1>e DEF ScanFound, ScanFails, VerifyPanics, VerifyFails, VerifyOk, Exit
  <2>8. CASE Recv
    BY <2>8, <1>e DEF Recv, NotServed, PinAccepted
  <2>2. CASE Try
    <3>1. PICK a \in Attempts :
            /\ tries' = a.tries
            /\ \/ wpc' = "recv" /\ svc' = Noted(a, "ok")
               \/ wpc' = "reconnect" /\ svc' = Noted(a, "none")
      BY <2>2 DEF Try, Finish
    <3>2. svc'.res \in {"ok", "none"} /\ svc'.sound = (svc.sound /\ ~a.fault)
      BY <3>1 DEF Noted
    <3>3. UNCHANGED <<inserted, ident, pinOk>>
      BY <2>2 DEF Try
    <3>4. PinAccepted => PinAccepted'
      BY <1>b, <3>1, <3>3 DEF PinAccepted
    <3> QED
      BY <1>e, <2>2, <3>1, <3>2, <3>3, <3>4 DEF Try
  <2>3. CASE ReconnectOk
    BY <2>3, <1>t DEF ReconnectOk, PinAccepted
  <2>4. CASE ReconnectFails
    BY <2>4, <1>t DEF ReconnectFails, Finish, Service
  <2>5. CASE Retry
    <3>1. PICK a \in Attempts : svc' = Noted(a, a.res) /\ wpc' = "recv" /\ live' = live
      BY <2>5 DEF Retry, Finish
    <3>2. svc'.res = a.res /\ svc'.sound = (svc.sound /\ ~a.fault)
      BY <3>1 DEF Noted
    <3>3. a.res \in ThreadErrors \ {"ZeroSharedSecret"} => ~svc.sound \/ a.fault
      BY <1>a, <1>e, <2>5 DEF Retry
    <3> QED
      BY <3>1, <3>2, <3>3
  <2>6. CASE PubKeyOk
    BY <2>6, <1>t, <1>e DEF PubKeyOk, Finish, Service
  <2>7. CASE PubKeyFails
    BY <2>7, <1>e DEF PubKeyFails
  <2> QED
    BY <1>3, <2>1, <2>2, <2>3, <2>4, <2>5, <2>6, <2>7, <2>8 DEF Worker
<1> QED
  BY <1>1, <1>2, <1>3 DEF Next

-----------------------------------------------------------------------------
-----------------------------------------------------------------------------
(* No one-shot is lost: while its sender is alive, its request is in the   *)
(* channel or in service.                                                  *)

(* A request is done with, and so is its one-shot.                         *)
LEMMA DoneCarried ==
  ASSUME Typed, Carried, cur # NoRequest, cur' = NoRequest, UNCHANGED <<queue, call>>,
         NEW v, Send(cur.reply, v) \/ DropSender(cur.reply)
  PROVE  Carried'
<1>1. /\ cur.reply \in Tickets /\ chan'[cur.reply].st \notin {"waiting", "orphaned"}
      /\ \A t \in Tickets \ {cur.reply} : chan'[t] = chan[t]
  BY InFlight DEF Send, DropSender, Empty
<1> QED
  BY <1>1 DEF Carried

LEMMA WorkerCarried ==
  ASSUME Typed, Wired, Carried, Worker, UNCHANGED oracleVars
  PROVE  Carried'
<1>0. UNCHANGED <<queue, cur, chan>> => Carried'
  BY DEF Carried
<1>1. CASE Recv
  <2>1. /\ cur' = queue[1] /\ Len(queue) \in Nat /\ Len(queue) # 0
        /\ Len(queue') = Len(queue) - 1
        /\ \A i \in 1 .. Len(queue') : queue'[i] = queue[i + 1]
        /\ UNCHANGED chan /\ cur = NoRequest
    BY <1>1, HeadTail DEF Recv, Typed, TypeOK, ThreadTypeOK, Wired, InService
  <2>2. ASSUME NEW t \in Tickets, chan[t].st \in {"waiting", "orphaned"}
        PROVE  cur'.reply = t \/ \E i \in 1 .. Len(queue') : queue'[i].reply = t
    <3>1. PICK i \in 1 .. Len(queue) : queue[i].reply = t
      BY <2>1, <2>2, ThreadAssumption DEF Carried, NoRequest
    <3>2. CASE i = 1
      BY <2>1, <3>1, <3>2
    <3>3. CASE i # 1
      <4>1. i - 1 \in 1 .. Len(queue') /\ queue'[i - 1] = queue[i]
        BY <2>1, <3>3
      <4> QED
        BY <3>1, <4>1
    <3> QED
      BY <3>2, <3>3
  <2> QED
    BY <2>1, <2>2 DEF Carried
<1>2. CASE Try
  <2>1. PICK a \in Attempts :
          IF a.res = "ok" THEN Finish(Secret(held, cur.pk))
          ELSE wpc' = "reconnect" /\ UNCHANGED <<cur, chan>>
    BY <1>2 DEF Try
  <2>2. CASE a.res = "ok"
    BY <1>2, <2>1, <2>2, DoneCarried DEF Try, Finish, Wired, InService
  <2>3. CASE a.res # "ok"
    BY <1>0, <1>2, <2>1, <2>3 DEF Try
  <2> QED
    BY <2>2, <2>3
<1>3. CASE ReconnectFails
  BY <1>3, DoneCarried DEF ReconnectFails, Finish, Wired, InService
<1>4. CASE Retry
  BY <1>4, DoneCarried DEF Retry, Finish, Wired, InService
<1>5. CASE PubKeyOk
  BY <1>5, DoneCarried DEF PubKeyOk, Finish, Wired, InService
<1>6. CASE PubKeyFails
  BY <1>6, DoneCarried DEF PubKeyFails, Wired, InService
<1>7. CASE \/ ScanFound \/ ScanFails \/ VerifyPanics \/ VerifyFails \/ VerifyOk \/ Exit \/ ReconnectOk
  BY <1>0, <1>7 DEF ScanFound, ScanFails, VerifyPanics, VerifyFails, VerifyOk, Exit, ReconnectOk
<1> QED
  BY <1>1, <1>2, <1>3, <1>4, <1>5, <1>6, <1>7 DEF Worker

LEMMA EnqueueCarried ==
  ASSUME Typed, Carried, NEW op \in {"dh", "prime", "pubkey"},
         NEW pk \in Peers \cup {NoPeer}, Enqueue(op, pk), cur' = cur
  PROVE  Carried'
<1>1. PICK t \in Tickets : t = NewTicket
  BY DEF Enqueue, NewTicket, FreeTickets
<1> DEFINE r == [op |-> IF op = "pubkey" THEN "pubkey" ELSE "dh", pk |-> pk, reply |-> t]
           n == Len(queue) + 1
<1>2. r \in Request /\ r.reply = t
  BY DEF Request
<1>3. /\ Len(queue') = n /\ Len(queue) \in Nat
      /\ queue'[n] = r
      /\ \A i \in 1 .. Len(queue) : queue'[i] = queue[i]
  BY <1>1, <1>2 DEF Enqueue, Typed, TypeOK, ThreadTypeOK
<1>4. \A u \in Tickets \ {t} : chan'[u] = chan[u]
  BY <1>1, InFlight DEF Enqueue
<1>5. n \in 1 .. Len(queue') /\ 1 .. Len(queue) \subseteq 1 .. Len(queue')
  BY <1>3
<1> HIDE DEF r, n
<1> QED
  BY <1>2, <1>3, <1>4, <1>5 DEF Carried

LEMMA ClientCarried ==
  ASSUME Typed, Wired, Carried, Client
  PROVE  Carried'
<1>0. UNCHANGED <<queue, cur, chan>> => Carried'
  BY DEF Carried
<1>1. ASSUME NEW pk \in Peers, NEW op \in {"dh", "prime"}, CallDh(op, pk) PROVE Carried'
  BY <1>0, <1>1, EnqueueCarried DEF CallDh
<1>2. CASE CallPubKey
  BY <1>0, <1>2, EnqueueCarried DEF CallPubKey
<1>3. ASSUME call # NoCall, UNCHANGED <<queue, cur>>, NEW s,
             s \in {"waiting", "orphaned"} => chan[call.reply].st = "waiting",
             chan' = [chan EXCEPT ![call.reply] = Empty(s)]
      PROVE  Carried'
  <2>1. /\ call.reply \in Tickets /\ chan'[call.reply].st = s
        /\ \A t \in Tickets \ {call.reply} : chan'[t] = chan[t]
    BY <1>3, InFlight DEF Empty
  <2> QED
    BY <1>3, <2>1 DEF Carried
<1>4. CASE Receive
  BY <1>3, <1>4 DEF Receive
<1>5. CASE Cancel
  <2>1. call.reply \in Tickets
    BY <1>5, InFlight DEF Cancel
  <2> DEFINE s == IF chan[call.reply].st = "waiting" THEN "orphaned" ELSE "free"
  <2>2. chan' = [chan EXCEPT ![call.reply] = Empty(s)]
    BY <1>5, <2>1, InFlight DEF Cancel
  <2> QED
    BY <1>3, <1>5, <2>2 DEF Cancel
<1>6. CASE \/ Open \/ SpawnFails \/ Opened \/ AbandonOpen \/ DropHandle
           \/ \E pk \in Peers : CachedDh(pk) \/ forget_peer(pk)
  BY <1>0, <1>6 DEF Open, SpawnFails, Opened, AbandonOpen, DropHandle, CachedDh, forget_peer
<1> QED
  BY <1>1, <1>2, <1>4, <1>5, <1>6 DEF Client

LEMMA CarriedStep == Typed /\ Wired /\ Carried /\ [Next]_vars => Carried'
<1> SUFFICES ASSUME Typed, Wired, Carried, [Next]_vars PROVE Carried'
  OBVIOUS
<1>1. CASE UNCHANGED vars
  BY <1>1 DEF vars, Carried
<1>2. CASE World /\ UNCHANGED oracleVars
  BY <1>2 DEF World, Interferes, Carried
<1> QED
  BY <1>1, <1>2, WorkerCarried, ClientCarried DEF Next

LEMMA AInvInit == Init => AInv
<1> SUFFICES ASSUME Init PROVE AInv
  OBVIOUS
<1>1. Answered
  BY DEF Init, ThreadInit, Answered, DhAlwaysAnswered, NoCall, NoOutcome, NotCached, Empty
<1>2. Healed
  BY DEF Init, ThreadInit, Healed, StaleHandleHeals, NotServed
<1>3. Carried
  BY DEF Init, ThreadInit, Carried, Empty
<1> QED
  BY <1>1, <1>2, <1>3, TypedInit, BoundInit, WiredInit, TruthfulInit DEF AInv, IInv

(* Replies are proper and reach their DH; reconnections heal.              *)
THEOREM OracleInvariant == Spec => []AInv
<1>1. AInv /\ [Next]_vars => AInv'
  BY TypedStep, BoundStep, WiredStep, TruthfulStep, AnsweredStep, HealedStep, CarriedStep DEF AInv, IInv
<1> QED
  BY <1>1, AInvInit, PTL DEF Spec

(* A request fails for a connection that was stale when it came only when  *)
(* something more happened to it while it was served.                      *)
THEOREM StaleHandlesHeal == Spec => []StaleHandleHeals
<1>1. AInv => StaleHandleHeals
  BY DEF AInv, Healed
<1> QED
  BY <1>1, OracleInvariant, PTL

(* The thread answers each DH it takes, on every path of its loop.         *)
THEOREM DhsAreAnswered == Spec => []DhAlwaysAnswered
<1>1. AInv => DhAlwaysAnswered
  BY DEF AInv, Answered
<1> QED
  BY <1>1, OracleInvariant, PTL

(* No call waits for a reply that nobody will send: its request is still in *)
(* the channel, or in the hands of a thread that is in its loop.            *)
THEOREM WaitingCallsAreInFlight == Spec => []AnswerOnItsWay
<1>1. AInv => AnswerOnItsWay
  <2>1. SUFFICES ASSUME AInv, call # NoCall, chan[call.reply].st = "waiting"
                 PROVE  wpc \in Serving /\ \E i \in 1 .. Len(Pending) : Pending[i].reply = call.reply
    BY DEF AnswerOnItsWay
  <2>2. wpc \in Serving
    BY <2>1 DEF AInv, IInv, Bound
  <2>3. queue \in Seq(Request) /\ cur \in Request \cup {NoRequest} /\ call.reply \in Tickets
    BY <2>1, InFlight DEF AInv, IInv, Typed, TypeOK, ThreadTypeOK
  <2>4. cur.reply = call.reply \/ \E i \in 1 .. Len(queue) : queue[i].reply = call.reply
    BY <2>1, <2>3 DEF AInv, Carried
  <2>5. CASE cur = NoRequest
    <3>1. Pending = queue
      BY <2>3, <2>5 DEF Pending
    <3> QED
      BY <2>2, <2>3, <2>4, <2>5, <3>1, ThreadAssumption DEF NoRequest
  <2>6. CASE cur # NoRequest
    <3>1. /\ Len(queue) \in Nat
          /\ Len(Pending) = Len(queue) + 1
          /\ Pending[1] = cur
          /\ \A i \in 1 .. Len(queue) : Pending[i + 1] = queue[i]
      BY <2>3, <2>6 DEF Pending
    <3>2. 1 \in 1 .. Len(Pending) /\ \A i \in 1 .. Len(queue) : i + 1 \in 1 .. Len(Pending)
      BY <3>1
    <3> QED
      BY <2>2, <2>4, <3>1, <3>2
  <2> QED
    BY <2>5, <2>6
<1> QED
  BY <1>1, OracleInvariant, PTL

(* One step of the thread.                                                 *)
LEMMA WorkerRunsDown ==
  ASSUME Typed, Worker
  PROVE  Work' < Work
<1>1. queue \in Seq(Request) /\ Len(queue) \in Nat
  BY DEF Typed, TypeOK, ThreadTypeOK
<1>2. CASE Recv
  <2>1. Len(queue') = Len(queue) - 1 /\ wpc = "recv" /\ wpc' \in {"try", "pubkey"}
    BY <1>1, <1>2, HeadTail DEF Recv
  <2> QED
    BY <1>1, <2>1 DEF Work, StepsLeft
<1>3. CASE ~Recv
  <2>1. /\ UNCHANGED queue
        /\ \/ wpc = "scan" /\ wpc' \in {"verify", "exited"}
           \/ wpc = "verify" /\ wpc' \in {"recv", "exited", "panicked"}
           \/ wpc = "recv" /\ wpc' = "exited"
           \/ wpc = "try" /\ wpc' \in {"recv", "reconnect"}
           \/ wpc = "reconnect" /\ wpc' \in {"recv", "retry"}
           \/ wpc \in {"retry", "pubkey"} /\ wpc' = "recv"
    BY <1>3 DEF Worker, ScanFound, ScanFails, VerifyPanics, VerifyFails, VerifyOk, Exit, Try, ReconnectOk,
         ReconnectFails, Retry, PubKeyOk, PubKeyFails, Finish
  <2> QED
    BY <1>1, <2>1 DEF Work, StepsLeft
<1> QED
  BY <1>2, <1>3

(* One step of anything else.                                              *)
LEMMA OthersAddWork ==
  ASSUME Typed, Client \/ (World /\ UNCHANGED oracleVars) \/ UNCHANGED vars, Work' > Work
  PROVE  handle = "new" \/ Ready2Call
<1>1. ~(UNCHANGED <<wpc, queue>>)
  <2>1. Work \in Int
    BY DEF Typed, TypeOK, ThreadTypeOK, Work, StepsLeft, Serving
  <2>2. UNCHANGED <<wpc, queue>> => Work' = Work
    BY DEF Work
  <2> QED
    BY <2>1, <2>2
<1> QED
  BY <1>1 DEF Client, World, Interferes, vars, Open, SpawnFails, Opened, AbandonOpen, CallDh, CachedDh, forget_peer,
       CallPubKey, Receive, Cancel, DropHandle

(* The thread never has more to do for a call than it had when the call    *)
(* was made: what it is asked costs it four steps, retry included.         *)
THEOREM ThreadWindsDown == Spec => ThreadRunsDown
<1>1. AInv /\ [Next]_vars =>
        [/\ Worker => Work' < Work
         /\ Work' > Work => handle = "new" \/ Ready2Call]_vars
  <2>1. SUFFICES ASSUME Typed, [Next]_vars
                 PROVE  /\ Worker => Work' < Work
                        /\ Work' > Work => handle = "new" \/ Ready2Call
    BY DEF AInv, IInv
  <2>2. Worker => Work' < Work
    BY <2>1, WorkerRunsDown
  <2>3. ASSUME Worker, Work' > Work PROVE FALSE
    <3>1. Work \in Int /\ Work' \in Int
      BY <2>1, TypedStep DEF Typed, TypeOK, ThreadTypeOK, Work, StepsLeft, Serving
    <3> QED
      BY <2>2, <2>3, <3>1
  <2>4. ASSUME ~Worker, Work' > Work PROVE handle = "new" \/ Ready2Call
    BY <2>1, <2>4, OthersAddWork DEF Next
  <2> QED
    BY <2>2, <2>3, <2>4
<1> QED
  BY <1>1, OracleInvariant, PTL DEF Spec, ThreadRunsDown

(* A call never lacks a one-shot: fewer are alive than there are requests  *)
(* in the channel, in service and about to be made.                        *)
THEOREM TicketsSuffice == Spec => [](call = NoCall => FreeTickets # {})
<1>1. ASSUME AInv, call = NoCall PROVE FreeTickets # {}
  <2> DEFINE waiting == {queue[i].reply : i \in 1 .. Len(queue)}
             n == Len(queue)
  <2>1. /\ Typed /\ n \in Nat /\ n <= Capacity /\ Capacity \in Nat
        /\ \A i \in 1 .. n : queue[i].reply \in Tickets
    BY <1>1, InFlight, ThreadAssumption DEF AInv, IInv, Typed, TypeOK, ThreadTypeOK
  <2>2. \A t \in Tickets : chan[t].st \in {"free", "orphaned"}
    <3>1. \A t \in Tickets : chan[t].st \in {"free", "waiting", "orphaned", "dropped", "sent"}
      BY <2>1, InFlight DEF Chan
    <3>2. \A t \in Tickets : chan[t].st \in {"waiting", "sent", "dropped"} => t = call.reply
      BY <1>1 DEF AInv, IInv, Wired, Wires
    <3>3. call.reply \notin Tickets
      BY <1>1, ThreadAssumption DEF NoCall
    <3> QED
      BY <3>1, <3>2, <3>3
  <2>3. IsFiniteSet(waiting) /\ Cardinality(waiting) <= n
    <3> DEFINE f == [i \in 1 .. n |-> queue[i].reply]
    <3>1. IsFiniteSet(1 .. n) /\ Cardinality(1 .. n) = n
      <4> HIDE DEF n
      <4>1. IsFiniteSet(1 .. n) /\ Cardinality(1 .. n) = IF 1 > n THEN 0 ELSE n - 1 + 1
        BY <2>1, FS_Interval
      <4> QED
        BY <2>1, <4>1
    <3>2. f \in Surjection(1 .. n, waiting)
      BY DEF Surjection
    <3> QED
      BY <3>1, <3>2, FS_Surjection
  <2> HIDE DEF waiting, n
  <2>4. IsFiniteSet(waiting \cup {cur.reply}) /\ Cardinality(waiting \cup {cur.reply}) <= n + 1
    <3>1. Cardinality(waiting) \in Nat
      BY <2>3, FS_CardinalityType
    <3> QED
      BY <2>1, <2>3, <3>1, FS_AddElement
  <2>5. SUFFICES ASSUME FreeTickets = {} PROVE FALSE
    OBVIOUS
  <2>6. Tickets \subseteq waiting \cup {cur.reply}
    <3>1. \A t \in Tickets : chan[t].st = "orphaned"
      BY <2>2, <2>5 DEF FreeTickets
    <3> QED
      BY <1>1, <3>1 DEF AInv, Carried, waiting
  <2>7. Cardinality(Tickets) <= Cardinality(waiting \cup {cur.reply})
    BY <2>4, <2>6, FS_Subset
  <2>8. Cardinality(Tickets) \in Nat /\ Cardinality(Tickets) >= Capacity + 2
        /\ Cardinality(waiting \cup {cur.reply}) \in Nat
    BY <2>4, TicketAssumption, FS_CardinalityType
  <2> QED
    BY <2>1, <2>4, <2>7, <2>8
<1>2. AInv => (call = NoCall => FreeTickets # {})
  BY <1>1
<1> QED
  BY <1>2, OracleInvariant, PTL

-----------------------------------------------------------------------------
(* The refinement: the oracle's variables are those of the handle, the     *)
(* ident of an open one, and the call without its ticket.                  *)

\* What a call that is open to the caller may return, the oracle may answer.
LEMMA SeenIsAnswer ==
  ASSUME NEW op \in {"dh", "prime", "pubkey"}, NEW pk, NEW v,
         \/ v = Secret(ident, pk) /\ pk \notin LowOrder
         \/ op # "pubkey" /\ \E e \in Errors \ {"KeyExchangeError", "ok"} : v = Failed(e)
  PROVE  Seen(op, v) \in Oracle!Answers(ident, [op |-> op, pk |-> pk])
<1>1. CASE v = Secret(ident, pk) /\ pk \notin LowOrder
  <2>1. Seen(op, v) = Secret(ident, pk)
    BY <1>1 DEF Seen, Secret
  <2> QED
    BY <1>1, <2>1 DEF Secret, Oracle!Answers
<1>2. ASSUME op # "pubkey", NEW e \in Errors \ {"KeyExchangeError", "ok"}, v = Failed(e)
      PROVE  Seen(op, v) \in Oracle!Answers(ident, [op |-> op, pk |-> pk])
  <2>1. Seen(op, v) = Failed(IF op = "dh" THEN "KeyExchangeError" ELSE e)
    BY <1>2 DEF Seen, Failed
  <2> QED
    BY <1>2, <2>1 DEF Failed, Oracle!Answers
<1> QED
  BY <1>1, <1>2

LEMMA OracleStutters ==
  ASSUME UNCHANGED oracleVars, handle = "open" => ident' = ident
  PROVE  UNCHANGED Oracle!vars
BY DEF Oracle!vars

LEMMA EnqueueInvokes ==
  ASSUME Typed, handle = "open", UNCHANGED <<handle, ident>>, call = NoCall,
         NEW op, NEW pk, Enqueue(op, pk),
         (op \in {"dh", "prime"} /\ pk \in Peers) \/ (op = "pubkey" /\ pk = NoPeer)
  PROVE  Oracle!Next
<1> DEFINE k == [op |-> op, pk |-> pk]
<1>1. k \in Oracle!Calls
  BY DEF Oracle!Calls
<1>2. Oracle!Invoke(k)
  BY DEF Oracle!Invoke, Oracle!Idle, Oracle!Nothing, Enqueue, NoCall, NoOutcome, NotCached
<1> QED
  BY <1>1, <1>2 DEF Oracle!Next

LEMMA ReturnIsImmediate ==
  ASSUME handle = "open", UNCHANGED <<handle, ident, call>>, call = NoCall,
         NEW op \in {"dh", "prime"}, NEW pk \in Peers, NEW v, Return(op, pk, v),
         v \in Oracle!Answers(ident, [op |-> op, pk |-> pk])
  PROVE  Oracle!Next
<1> DEFINE k == [op |-> op, pk |-> pk]
<1>1. k \in Oracle!Calls
  BY DEF Oracle!Calls
<1>2. Oracle!Immediate(k)
  BY DEF Oracle!Immediate, Oracle!Idle, Return, NoCall
<1> QED
  BY <1>1, <1>2 DEF Oracle!Next

LEMMA ReceiveAnswers ==
  ASSUME AInv, Receive
  PROVE  Oracle!Next
<1> DEFINE v == Awaited(call.reply)
<1>i. Typed /\ Bound /\ Truthful /\ Answered
  BY DEF AInv, IInv
<1>1. /\ handle = "open" /\ call.op \in {"dh", "prime", "pubkey"}
      /\ call' = NoCall /\ ident' = ident
  BY <1>i, InFlight DEF Receive, Bound, Call
<1>2. \/ chan[call.reply].st = "sent" /\ v = chan[call.reply].val /\ Proper(v)
      \/ chan[call.reply].st = "dropped" /\ call.op = "pubkey" /\ v.res # "ok"
  BY <1>1, <1>i, InFlight DEF Receive, Awaited, Failed, Answered, DhAlwaysAnswered
<1>3. CASE call.op = "pubkey" /\ v.res # "ok"
  <2>1. Oracle!Close
    BY <1>1, <1>3 DEF Receive, Oracle!Close, Oracle!Idle, NoCall
  <2> QED
    BY <2>1 DEF Oracle!Next
<1>4. CASE ~(call.op = "pubkey" /\ v.res # "ok")
  <2>1. chan[call.reply].st = "sent" /\ v = chan[call.reply].val /\ Proper(v)
    BY <1>2, <1>4
  <2>2. \/ v = Secret(ident, call.pk) /\ call.pk \notin LowOrder
        \/ call.op # "pubkey" /\ \E e \in Errors \ {"KeyExchangeError", "ok"} : v = Failed(e)
    <3>1. CASE v.res = "ok"
      <4>1. v = Secret(ident, call.pk)
        BY <3>1, <2>1, <1>i, <1>1, InFlight DEF Truthful
      <4>2. v.pk = call.pk /\ v \notin {Failed(e) : e \in ThreadErrors}
        BY <4>1, <3>1, ErrorFacts DEF Secret
      <4> QED
        BY <2>1, <3>1, <4>1, <4>2 DEF Proper
    <3>2. CASE v.res # "ok"
      <4>1. PICK e \in ThreadErrors : v = Failed(e)
        BY <2>1, <3>2 DEF Proper
      <4>2. e \in Errors \ {"KeyExchangeError", "ok"}
        BY ErrorFacts DEF Errors
      <4> QED
        BY <1>4, <3>2, <4>1, <4>2
    <3> QED
      BY <3>1, <3>2
  <2>3. Seen(call.op, v) \in Oracle!Answers(ident, [op |-> call.op, pk |-> call.pk])
    BY <1>1, <2>2, SeenIsAnswer
  <2>4. /\ outcome' = [op |-> call.op, pk |-> call.pk, val |-> Seen(call.op, v)]
        /\ handle' = handle
    BY <1>4 DEF Receive, Return
  <2>5. Oracle!Answer
    BY <1>1, <2>3, <2>4 DEF Oracle!Answer, Oracle!Idle, NoCall
  <2> QED
    BY <2>5 DEF Oracle!Next
<1> QED
  BY <1>3, <1>4

LEMMA ClientImplements ==
  ASSUME AInv, Client
  PROVE  [Oracle!Next]_(Oracle!vars)
<1> USE DEF Ready2Call
<1>i. Typed /\ Bound /\ Truthful /\ Answered
  BY DEF AInv, IInv
<1>b. handle = "open" => ~WorkerGone
  BY <1>i DEF Bound, Serving, WorkerGone
<1>1. CASE Open \/ SpawnFails
  <2>1. Oracle!Begin
    BY <1>1 DEF Open, SpawnFails, Oracle!Begin
  <2> QED
    BY <2>1 DEF Oracle!Next
<1>2. CASE Opened
  <2>1. CASE ready = "ok"
    <3>1. ident \in {c \in KeyCards : Requested \in {c, AutoIdent}}
      BY <2>1, <1>i DEF Bound
    <3>2. Oracle!Bind(ident)
      BY <1>2, <2>1 DEF Opened, Oracle!Bind
    <3> QED
      BY <3>1, <3>2 DEF Oracle!Next
  <2>2. CASE ready # "ok"
    <3>1. Oracle!GiveUp
      BY <1>2, <2>2 DEF Opened, Oracle!GiveUp
    <3> QED
      BY <3>1 DEF Oracle!Next
  <2> QED
    BY <2>1, <2>2
<1>3. CASE AbandonOpen
  <2>1. Oracle!GiveUp
    BY <1>3 DEF AbandonOpen, Oracle!GiveUp
  <2> QED
    BY <2>1 DEF Oracle!Next
<1>4. ASSUME NEW pk \in Peers, NEW op \in {"dh", "prime"}, CallDh(op, pk)
      PROVE  Oracle!Next
  <2>1. CASE Len(queue) = Capacity
    <3> DEFINE v == Failed("QueueFull")
    <3>1. Return(op, pk, Seen(op, v)) /\ UNCHANGED <<handle, ident, call>> /\ call = NoCall
      BY <1>4, <1>b, <2>1 DEF CallDh
    <3>2. "QueueFull" \in Errors \ {"KeyExchangeError", "ok"}
      BY DEF Errors
    <3>3. Seen(op, v) \in Oracle!Answers(ident, [op |-> op, pk |-> pk])
      BY <3>2, SeenIsAnswer
    <3> QED
      BY <1>4, <3>1, <3>3, ReturnIsImmediate DEF CallDh
  <2>2. CASE Len(queue) # Capacity
    BY <1>4, <1>b, <1>i, <2>2, EnqueueInvokes DEF CallDh
  <2> QED
    BY <2>1, <2>2
<1>5. ASSUME NEW pk \in Peers, CachedDh(pk)
      PROVE  Oracle!Next
  <2>1. ssCache[pk] = Secret(ident, pk) /\ pk \notin LowOrder
    BY <1>5, <1>i DEF CachedDh, Truthful, Answered
  <2>2. Seen("dh", ssCache[pk]) = ssCache[pk]
    BY <2>1 DEF Seen, Secret
  <2>3. ssCache[pk] \in Oracle!Answers(ident, [op |-> "dh", pk |-> pk])
    BY <2>1, <2>2, SeenIsAnswer
  <2>4. /\ handle = "open" /\ call = NoCall /\ UNCHANGED <<handle, ident, call>>
        /\ Return("dh", pk, ssCache[pk])
    BY <1>5 DEF CachedDh
  <2> QED
    BY <2>3, <2>4, ReturnIsImmediate
<1>6. ASSUME NEW pk \in Peers, forget_peer(pk)
      PROVE  UNCHANGED Oracle!vars
  BY <1>6 DEF forget_peer, Oracle!vars
<1>7. CASE CallPubKey
  <2>1. CASE Len(queue) = Capacity
    <3>1. Oracle!Close
      BY <1>7, <2>1 DEF CallPubKey, Oracle!Close, Oracle!Idle, NoCall
    <3> QED
      BY <3>1 DEF Oracle!Next
  <2>2. CASE Len(queue) # Capacity
    BY <1>7, <1>b, <1>i, <2>2, EnqueueInvokes DEF CallPubKey
  <2> QED
    BY <2>1, <2>2
<1>8. CASE Cancel
  <2>1. Oracle!Abandon
    BY <1>8, <1>i, InFlight DEF Cancel, Bound, Oracle!Abandon, Oracle!Idle, NoCall
  <2> QED
    BY <2>1 DEF Oracle!Next
<1>9. CASE DropHandle
  <2>1. Oracle!Close
    BY <1>9 DEF DropHandle, Oracle!Close, Oracle!Idle, NoCall
  <2> QED
    BY <2>1 DEF Oracle!Next
<1>10. CASE Receive
  BY <1>10, ReceiveAnswers
<1> QED
  BY <1>1, <1>2, <1>3, <1>4, <1>5, <1>6, <1>7, <1>8, <1>9, <1>10 DEF Client

LEMMA StepImplements == AInv /\ [Next]_vars => [Oracle!Next]_(Oracle!vars)
<1> SUFFICES ASSUME AInv, [Next]_vars PROVE [Oracle!Next]_(Oracle!vars)
  OBVIOUS
<1>1. CASE UNCHANGED vars
  BY <1>1, OracleStutters DEF vars
<1>2. CASE Worker /\ UNCHANGED oracleVars
  <2>1. Bound
    BY DEF AInv, IInv
  <2>2. handle = "open" => ident' = ident
    BY <1>2, <2>1 DEF Bound, Serving, Worker, ScanFound, ScanFails, VerifyPanics, VerifyFails,
                      VerifyOk, Recv, Exit, Try, ReconnectOk, ReconnectFails, Retry, PubKeyOk,
                      PubKeyFails
  <2> QED
    BY <1>2, <2>2, OracleStutters
<1>3. CASE World /\ UNCHANGED oracleVars
  <2>1. ident' = ident
    BY <1>3 DEF World, Interferes
  <2> QED
    BY <1>3, <2>1, OracleStutters
<1> QED
  BY <1>1, <1>2, <1>3, ClientImplements DEF Next

(* CardHandle, its thread and whatever happens to the card implement the   *)
(* oracle: one card from open to drop, and each answer that of this card   *)
(* to this call.                                                           *)
THEOREM CardImplementsOracle == Spec => ImplementsOracle
<1>1. Init => Oracle!Init
  BY DEF Init, ThreadInit, Oracle!Init, Oracle!Idle, Oracle!Nothing, NoCall, NoOutcome, NotCached
<1> QED
  BY <1>1, StepImplements, OracleInvariant, PTL DEF Spec, ImplementsOracle, Oracle!Spec
=============================================================================
