SPECIFICATION HouseSpec
CONSTANTS
  q1 = q1
  q2 = q2
  q3 = q3
  h1 = h1
  h2 = h2
  NoQuote = NoQuote
  Quote <- MCQuote
  Hash <- MCHash
  CorridorOf <- MCCorridorOf
  HashOf <- MCSameHash
  Give <- MCGive
  Float <- MCFloat
  CapSats = 2
  Balance = 2
  Coupling = TRUE
  OwnInvoice <- MCOwnInvoice
INVARIANTS
  ReservationsAccounted
  ExposureBounded
  OneRowPerCorridorHash
  TermsHold
PROPERTIES
  HouseEnds
CHECK_DEADLOCK FALSE
