SPECIFICATION FairSpec
CONSTANTS
  c1 = c1
  i1 = i1
  Clients <- MCClients
  Interests <- MCInterests
  Wants <- MCWants
  Capacity = 2
  StaleAfter = 0
  MaxLag = 1
INVARIANTS
  DeliveryInv
  StateIsTold
  CloseHasReason
PROPERTIES
  ImplementsStream
  SilenceIsTold
  DecidedMeansClosed
