SPECIFICATION FairSpec
CONSTANTS
  Conns = {c1, c2, c3}
  MaxCalls = 3
  MaxEvents = 2
INVARIANTS
  BoundedConnections
  NeverSilent
  OrderedDelivery
  OpenIsOpen
PROPERTIES
  KeepsTrying
