------------------------------ MODULE MCTunnel ------------------------------
(* Two peers, one with an endpoint and a catch-all, in one family; two      *)
(* cards, one of them asked for.                                           *)
EXTENDS TunnelInv
CONSTANTS g1, g2, v4, e4, l4, u4, z4, c1, c2, k1, k2
MCFamilies == {v4}
MCDests == {e4, l4, u4}
MCFamilyOf == [d \in MCDests |-> v4]
MCLower == [f \in MCFamilies |-> l4]
MCUpper == [f \in MCFamilies |-> u4]
MCHosts == {e4}
MCCovering == [h \in MCHosts |-> <<u4>>]
MCFamilyOrder == <<v4>>
MCEndpoints == <<e4>>
MCAllowedIPs == <<z4>>
MCZeroPrefix == [f \in MCFamilies |-> z4]
MCExemptions == [f \in MCFamilies |-> <<>>]
MCProbe == [f \in MCFamilies |-> e4]
MCNetworks == [f \in MCFamilies |-> {g1, g2, None}]
MCPeerKeys == <<k1, k2>>
=============================================================================
