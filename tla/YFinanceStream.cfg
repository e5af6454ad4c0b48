SPECIFICATION FairSpec
CONSTANTS
  i1 = i1
  i2 = i2
  l1 = l1
  l2 = l2
  k1 = k1
  k2 = k2
  None = None
  Caller = Caller
  Interests <- MCInterests
  Listeners <- MCListeners
  Clients <- MCClients
INVARIANTS
  FeedInv
  OneListener
  Supervised
PROPERTIES
  Reconnects
  CallReturns
