------------------------------ MODULE MCRoutes ------------------------------
(* Routes for two families, one endpoint in each, and small address plans.  *)
EXTENDS RoutesInv
CONSTANTS g1, g2, v4, v6, e4, e6, n4, x4, l4, u4, l6, u6, p4, p6, z4, z6
MCFamilies == {v4, v6}
MCDests == {e4, e6, n4, x4, l4, u4, l6, u6, p4, p6}
MCFamilyOf == [d \in MCDests |-> IF d \in {e6, l6, u6, p6} THEN v6 ELSE v4]
MCLower == [f \in MCFamilies |-> IF f = v4 THEN l4 ELSE l6]
MCUpper == [f \in MCFamilies |-> IF f = v4 THEN u4 ELSE u6]
MCHosts == {e4, e6, p4, p6}
\* The exempt prefix is around the endpoint e4, and the user may have a route for it.
MCCovering == [h \in MCHosts |-> CASE h = e4 -> <<x4, u4>> [] h = p4 -> <<l4>> [] OTHER -> <<l6>>]
MCFamilyOrder == <<v4, v6>>
MCEndpoints == <<e4, e6>>
MCEndpoint == <<e4>>
MCZeroPrefix == [f \in MCFamilies |-> IF f = v4 THEN z4 ELSE z6]
MCCatchAll4 == <<n4, z4>>
MCNet4 == <<n4>>
MCExemptions == [f \in MCFamilies |-> IF f = v4 THEN <<x4>> ELSE <<>>]
MCProbe == [f \in MCFamilies |-> IF f = v4 THEN p4 ELSE p6]
MCTun4 == {v4}
MCTun6 == {v6}
MCTunBoth == {v4, v6}
MCNetworks == [f \in MCFamilies |-> IF f = v4 THEN {g1, g2, Link, None} ELSE {g1}]
MCNetworks1 == [f \in MCFamilies |-> IF f = v4 THEN {g1, None} ELSE {g1}]
MCNobody == {}
MCUserDests == {x4}
MCCatchAll6 == <<z6>>
=============================================================================
