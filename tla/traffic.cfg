SPECIFICATION Spec
CONSTANTS
  a1 = a1
  a2 = a2
  sentinel = sentinel
  PeerCount = 2
  Addrs <- MCAddrs
  Prefixes <- MCPrefixes
  Roots <- MCRoots
  Length <- MCLength
  MaxLength = 1
  Covering <- MCCovering
  AllowedIPs <- MCAllowedIPs
  Sentinel = sentinel
  Empty = Empty
  BufLen = 2048
  KernelHeaderLen = 4
  Places <- MCPlaces
  Nowhere = Nowhere
  Endpoint <- MCEndpoint
  Second = 2
  Keepalive <- MCKeepalive
  Lengths <- MCLengths
  MaxBacklog = 3
INVARIANTS
  TypeOK
  LInv
  LookupIsOwner
  NobodyOverdue
  MappingKeptOpen
  InboundOwned
  OutboundOwned
  OnlyOversizedPanics
PROPERTY
  KeepaliveOnlyAfterSilence
CHECK_DEADLOCK FALSE
