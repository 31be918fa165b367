SPECIFICATION Spec
CONSTANTS
  c1 = c1
  c2 = c2
  p1 = p1
  p2 = p2
  p3 = p3
  t1 = t1
  t2 = t2
  t3 = t3
  t4 = t4
  NoCard = NoCard
  NoPeer = NoPeer
  NoTicket = NoTicket
  AutoIdent = AutoIdent
  Requested = c1
  Cards <- MCOneCard
  KeyCards <- MCOneCard
  PinLimit = 2
  Peers <- MCOnePeer
  LowOrder <- MCNone
  Tickets <- MCTickets3
  Capacity = 1
PROPERTY
  SsCachedAfterFirstHit
CHECK_DEADLOCK FALSE
