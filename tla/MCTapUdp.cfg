SPECIFICATION Spec
CONSTANTS
  A = A
  B = B
  Frame <- EtherFrame
  Offered <- TapOffered
  Outgoing <- ReadIntoBuffer
  Incoming <- ReadIntoBuffer
  Relayed <- IpOrArp
  MaxQueue = 1
  Killed <- Second
  Refused = Refused
  Nothing = Nothing
PROPERTIES
  ImplementsPipe
