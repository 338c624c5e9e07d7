SPECIFICATION FairSpec
CONSTANTS
  udp = udp
  tcp = tcp
  Message = message
  Producers <- MCProducers
  Releases <- MCEither
  COUNT_RANGE = 4
  MaxNodes = 2
INVARIANTS
  QueueInv
PROPERTIES
  InOrder
  Served
