SPECIFICATION FairSpec
CONSTANTS
  A = A
  B = B
  Frame <- TunFrame
  Offered <- TunOffered
  Outgoing <- Whole
  Incoming <- Whole
  Relayed <- TunFrame
  MaxQueue = 1
  Killed <- Neither
  Refused = Refused
  Nothing = Nothing
INVARIANTS
  Transparent
  BlockedOnlyAfterRefusal
PROPERTIES
  ImplementsPipe
  TunServed
  SockServed
