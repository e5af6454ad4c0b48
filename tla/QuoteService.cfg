\* Two requests for quotes of two providers, two keys, two ticks.
CONSTANTS
  Registry <- MCRegistry
  Asks <- MCAsks
  Responses <- MCResponses
  Keys <- MCKeys
  Configured = {"BINANCE_SPOT", "TWELVE_DATA"}
  Known = {"SPY", "EUR/USD"}
  Cooldown = 1
  Ttl = 0
  StaleAfter = 1
  MaxNow = 2
  Streams = {"SPY"}
  Clients = {c1, c2}
SPECIFICATION Spec
INVARIANTS
  AnswerSound
  OneRefresh
  KeysRest
SYMMETRY MCSymmetry
CHECK_DEADLOCK FALSE
