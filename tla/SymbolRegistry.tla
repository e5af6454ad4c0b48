--------------------------- MODULE SymbolRegistry ---------------------------
(***************************************************************************)
(* The symbols and their providers: supported_symbols as the repositories  *)
(* read it (src/app/db/repositories.py), and the choice of a provider      *)
(* (src/app/services/provider_selection.py).                               *)
(***************************************************************************)
EXTENDS Naturals, FiniteSets

CONSTANT Registry   \* rows: symbol, enabled, and mappings to providers

(* In the seeds no two symbols share a provider symbol, under whichever    *)
(* providers; the schema asks it of each provider only (models.py:66).     *)
ASSUME ProviderSymbolsApart ==
  \A r1, r2 \in Registry : \A m1 \in r1.mappings, m2 \in r2.mappings :
    m1.providerSymbol = m2.providerSymbol => r1.symbol = r2.symbol

NoProvider == ""

Enabled == {row \in Registry : row.enabled}

Active(row) == {m \in row.mappings : m.active}

(* list_enabled: one row without exactly one active mapping, and the whole *)
(* registry is unavailable (_to_supported_symbol).                         *)
RegistryReadable == \A row \in Enabled : Cardinality(Active(row)) = 1

RowOf(symbol) == CHOOSE row \in Enabled : row.symbol = symbol

Supported == {row.symbol : row \in Enabled}

(* resolve_provider_selection.                                             *)
Chosen(symbol, provider) ==
  IF provider = NoProvider THEN Active(RowOf(symbol))
                           ELSE {m \in RowOf(symbol).mappings : m.provider = provider}

Selection(symbol, provider) ==
  LET m == CHOOSE mapping \in Chosen(symbol, provider) : TRUE
  IN  [symbol |-> symbol, provider |-> m.provider, providerSymbol |-> m.providerSymbol]
=============================================================================
