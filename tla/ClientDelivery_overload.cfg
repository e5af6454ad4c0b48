SPECIFICATION Spec
CONSTANTS
  c1 = c1
  i1 = i1
  Clients <- MCClients
  Interests <- MCInterests
  Wants <- MCWants
  Capacity = 1
  StaleAfter = 1
  MaxLag = 0
PROPERTY
  OverloadedGets1013
