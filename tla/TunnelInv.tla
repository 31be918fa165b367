----------------------------- MODULE TunnelInv -----------------------------
(***************************************************************************)
(* The inductive invariant of Tunnel.                                      *)
(***************************************************************************)
EXTENDS Tunnel, RoutesInv

Unguarded == {"config", "pin", "open", "pubkey", "prime", "build", "device"}

\* Before the guard nothing of ours is there; after it, nothing is left.
StageKnown ==
  /\ stage \in Unguarded => phase = "setup" /\ added = <<>>
  /\ stage = "unwind" => phase = "exited" \/ (phase = "setup" /\ added = <<>>)
  /\ stage = "gone" => phase \in {"exited", "killed"} \/ (phase = "setup" /\ added = <<>>)
  /\ stage = "guarded" => phase \notin {"exited", "killed"}

\* The handle tells of every resolver to put back.
AppliedKnown ==
  /\ phase \in {"setup", "exited"} => ~applied
  /\ phase = "setup" => resolver = "user"
  /\ phase # "killed" => (applied <=> resolver = "tunnel")

NetsLeadIn ==
  \A i \in DOMAIN added :
    added[i].kind = "net" /\ added[i].dest \notin Hosts => table[added[i].dest].via = Tun

\* The tunnel's routes are in place until the resolver has been put back.
NetsInPlace == stage = "guarded" /\ (phase # "cleanup" \/ applied) => NetsLeadIn

\* A call is in flight only where it is awaited, and only when there is a handle.
CallKnown ==
  /\ call # Dh!Idle =>
       /\ oracle = "open"
       /\ call.op = "pubkey" => stage \in {"pubkey", "build", "gone"}
       /\ stage = "guarded" => phase = "greet" \/ (phase = "loop" /\ branch # "none")
       /\ stage \in {"pubkey", "prime", "build", "guarded"} \/ (stage = "gone" /\ phase = "killed")
  /\ stage = "prime" => left <= Len(PeerKeys)

\* There is a branch of select! only in the loop.
BranchKnown == phase \notin {"loop", "recheck"} => branch = "none"

\* The whole of it.
TInv ==
  /\ LifeTypeOK
  /\ RInv
  /\ StageKnown
  /\ AppliedKnown
  /\ NetsInPlace
  /\ CallKnown
  /\ BranchKnown
=============================================================================
