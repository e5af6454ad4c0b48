SPECIFICATION FairSpec
CONSTANTS
  c1 = c1
  c2 = c2
  c3 = c3
  i1 = i1
  i2 = i2
  Stop = Stop
  Dead = Dead
  Clients <- MCClients2
  Interests <- MCInterests
  Failable <- MCFailable
PROPERTY
  UnusedUpstreamCloses
