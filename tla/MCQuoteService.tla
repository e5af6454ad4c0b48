--------------------------- MODULE MCQuoteService ---------------------------
EXTENDS QuoteService

Mapping(provider, providerSymbol, active) ==
  [provider |-> provider, providerSymbol |-> providerSymbol, active |-> active]

MCRegistry == {
  [symbol |-> "BTC/USD", enabled |-> TRUE, mappings |->
    {Mapping("BINANCE_SPOT", "BTCUSDT", TRUE), Mapping("TWELVE_DATA", "BTC/USD", FALSE)}],
  [symbol |-> "SPY", enabled |-> TRUE, mappings |-> {Mapping("TWELVE_DATA", "SPY", TRUE)}],
  [symbol |-> "EUR/USD", enabled |-> TRUE, mappings |-> {Mapping("TWELVE_DATA", "EUR/USD", TRUE)}],
  [symbol |-> "OLD", enabled |-> FALSE, mappings |-> {}]}

MCAsks == {
  [symbols |-> {"BTC/USD", "SPY", "OLD"}, provider |-> ""],
  [symbols |-> {"SPY", "EUR/USD"}, provider |-> ""],
  [symbols |-> {"BTC/USD", "SPY"}, provider |-> "BINANCE_SPOT"]}

Response(status, blamesKey) ==
  [noData |-> FALSE, status |-> status, code |-> status, blamesKey |-> blamesKey, error |-> status # 200]

MCResponses == {Response(200, FALSE), Response(500, FALSE), Response(200, TRUE)}

MCKeys == <<"k1", "k2">>

MCSymmetry == Permutations(Clients)
=============================================================================
