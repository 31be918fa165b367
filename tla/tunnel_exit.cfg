SPECIFICATION TunnelSpec
CONSTANTS
  g1 = g1
  g2 = g2
  v4 = v4
  e4 = e4
  l4 = l4
  u4 = u4
  z4 = z4
  c1 = c1
  c2 = c2
  k1 = k1
  k2 = k2
  Tun = Tun
  Link = Link
  None = None
  Gateways = {g1, g2}
  Families <- MCFamilies
  Dests <- MCDests
  FamilyOf <- MCFamilyOf
  Lower <- MCLower
  Upper <- MCUpper
  Hosts <- MCHosts
  Covering <- MCCovering
  FamilyOrder <- MCFamilyOrder
  Endpoints <- MCEndpoints
  AllowedIPs <- MCAllowedIPs
  ZeroPrefix <- MCZeroPrefix
  Exemptions <- MCExemptions
  Probe <- MCProbe
  TunFamilies = {v4}
  BindFamily = v4
  Networks <- MCNetworks
  UserDests = {}
  KernelDrops = TRUE
  Cards = {c1, c2}
  NoCard = NoCard
  Eligible = {c1}
  Peers = {k1, k2}
  NoPeer = NoPeer
  LowOrder = {k2}
  Errors = {"KeyExchangeError", "Card"}
  PeerKeys <- MCPeerKeys
INVARIANT
  SettingsRestored
CHECK_DEADLOCK FALSE
