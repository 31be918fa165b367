SPECIFICATION Spec
CONSTANTS
  c1 = c1
  c2 = c2
  p1 = p1
  p2 = p2
  p3 = p3
  t1 = t1
  t2 = t2
  t3 = t3
  t4 = t4
  NoCard = NoCard
  NoPeer = NoPeer
  NoTicket = NoTicket
  AutoIdent = AutoIdent
  Requested = AutoIdent
  Cards <- MCCards
  KeyCards <- MCCards
  PinLimit = 2
  Peers <- MCPeersLow
  LowOrder <- MCLowOrder
  Tickets <- MCTickets3
  Capacity = 1
INVARIANTS
  TypeOK
  AInv
  AnswersOwnCall
  StaysOnCard
  WorkerOutlivesHandle
  StaleHandleHeals
  DhAlwaysAnswered
PROPERTY
  ImplementsOracle
CHECK_DEADLOCK FALSE
