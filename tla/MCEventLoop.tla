---------------------------- MODULE MCEventLoop ----------------------------
(* Two peers whose prefixes overlap and coincide, on addresses of one bit,  *)
(* and an address of the other family, which nobody claims.  The second     *)
(* peer has no endpoint until it speaks, and may speak from the first's.    *)
EXTENDS LoopInv
CONSTANTS a1, a2, sentinel
MCAddrs == {0, 1, 2}
MCPrefixes == {"0/0", "1/1", "::/0"}
MCRoots == {"0/0", "::/0"}
MCLength == [p \in MCPrefixes |-> IF p = "1/1" THEN 1 ELSE 0]
MCCovering == [a \in MCAddrs |-> CASE a = 0 -> {"0/0"} [] a = 1 -> {"0/0", "1/1"} [] a = 2 -> {"::/0"}]
MCAllowedIPs == <<<<"0/0", "1/1">>, <<"1/1">>>>
MCPlaces == {a1, a2}
MCEndpoint == <<a1, Nowhere>>
MCKeepalive == <<2, 4>>
MCLengths == {2016, 2017}
=============================================================================
