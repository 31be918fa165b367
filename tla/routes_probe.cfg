SPECIFICATION Spec
CONSTANTS
  g1 = g1
  g2 = g2
  v4 = v4
  v6 = v6
  e4 = e4
  e6 = e6
  n4 = n4
  x4 = x4
  l4 = l4
  u4 = u4
  l6 = l6
  u6 = u6
  p4 = p4
  p6 = p6
  z4 = z4
  z6 = z6
  Tun = Tun
  Link = Link
  None = None
  Gateways = {g1}
  Families <- MCFamilies
  Dests <- MCDests
  FamilyOf <- MCFamilyOf
  Lower <- MCLower
  Upper <- MCUpper
  Hosts <- MCHosts
  Covering <- MCCovering
  FamilyOrder <- MCFamilyOrder
  Endpoints <- MCEndpoint
  AllowedIPs <- MCCatchAll4
  ZeroPrefix <- MCZeroPrefix
  Exemptions <- MCExemptions
  Probe <- MCProbe
  TunFamilies <- MCTun6
  BindFamily = v4
  Networks <- MCNetworks1
  UserDests <- MCNobody
  KernelDrops = FALSE
INVARIANT
  ProbeSeesOriginalDefault
CHECK_DEADLOCK FALSE
