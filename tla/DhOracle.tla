------------------------------ MODULE DhOracle ------------------------------
(***************************************************************************)
(* What CardHandle promises the WireGuard session layer, whatever happens  *)
(* between the executor, the card thread and the card: one card is bound   *)
(* when the handle opens and stays bound, and every call that returns      *)
(* returns the answer of THAT card to THAT call, or an error.              *)
(***************************************************************************)
CONSTANTS
  Cards, NoCard,
  Eligible,    \* the cards the requested identifier admits
  Peers, NoPeer,
  LowOrder,    \* public keys with an all-zero shared secret
  Errors

VARIABLES
  phase,       \* new, opening, open or over
  bound,       \* the card of an open handle
  call,        \* the call in progress
  outcome      \* what the last call returned

vars == <<phase, bound, call, outcome>>

Idle == [op |-> "none", pk |-> NoPeer]
Calls == [op : {"dh", "prime"}, pk : Peers] \cup [op : {"pubkey"}, pk : {NoPeer}]

Nothing == [op |-> "none", pk |-> NoPeer,
            val |-> [res |-> "none", card |-> NoCard, pk |-> NoPeer]]

\* The values a call k of a handle bound to card c may return.
Answers(c, k) ==
  {[res |-> "ok", card |-> c, pk |-> p] : p \in {k.pk} \ LowOrder}
  \cup
  IF k.op = "pubkey" THEN {}
  ELSE {[res |-> e, card |-> NoCard, pk |-> NoPeer] :
          e \in IF k.op = "dh" THEN {"KeyExchangeError"} ELSE Errors \ {"KeyExchangeError"}}

Init == phase = "new" /\ bound = NoCard /\ call = Idle /\ outcome = Nothing

Begin ==
  /\ phase = "new"
  /\ phase' \in {"opening", "over"}
  /\ UNCHANGED <<bound, call, outcome>>

Bind(c) ==
  /\ phase = "opening"
  /\ phase' = "open"
  /\ bound' = c
  /\ UNCHANGED <<call, outcome>>

GiveUp ==
  /\ phase = "opening"
  /\ phase' = "over"
  /\ UNCHANGED <<bound, call, outcome>>

Invoke(k) ==
  /\ phase = "open" /\ call = Idle
  /\ call' = k
  /\ outcome' = Nothing
  /\ UNCHANGED <<phase, bound>>

Answer ==
  /\ phase = "open" /\ call # Idle
  /\ \E v \in Answers(bound, call) : outcome' = [op |-> call.op, pk |-> call.pk, val |-> v]
  /\ call' = Idle
  /\ UNCHANGED <<phase, bound>>

\* Invocation and answer in one step.
Immediate(k) ==
  /\ phase = "open" /\ call = Idle
  /\ \E v \in Answers(bound, k) : outcome' = [op |-> k.op, pk |-> k.pk, val |-> v]
  /\ UNCHANGED <<phase, bound, call>>

Abandon ==
  /\ phase = "open" /\ call # Idle
  /\ call' = Idle
  /\ UNCHANGED <<phase, bound, outcome>>

\* The handle is dropped, or lost to a panic of a pubkey call.
Close ==
  /\ phase = "open"
  /\ call.op \in {"none", "pubkey"}
  /\ phase' = "over"
  /\ bound' = NoCard
  /\ call' = Idle
  /\ UNCHANGED outcome

Next ==
  \/ Begin \/ GiveUp \/ Answer \/ Abandon \/ Close
  \/ \E c \in Eligible : Bind(c)
  \/ \E k \in Calls : Invoke(k) \/ Immediate(k)

Spec == Init /\ [][Next]_vars
=============================================================================
