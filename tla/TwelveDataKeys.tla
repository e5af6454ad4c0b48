--------------------------- MODULE TwelveDataKeys ---------------------------
(***************************************************************************)
(* TwelveDataApiKeyPool (src/app/providers/twelvedata_keys.py) and what    *)
(* TwelveDataHttpClient makes of a response.  A pool is the place of the   *)
(* next key in Keys and the time until which each key is cooling down.     *)
(***************************************************************************)
EXTENDS Integers, Sequences, FiniteSets, SequencesExt

CONSTANTS
  Keys,         \* the API keys, a sequence without duplicates
  Cooldown      \* TWELVEDATA_KEY_COOLDOWN_SECONDS, in ticks

ASSUME KeysAssumption == Keys \in Seq(ToSet(Keys)) /\ Keys # <<>> /\ Cooldown \in Nat

NoKey == "no key"

NewPool == [index |-> 0, until |-> [key \in ToSet(Keys) |-> 0]]

(* next_key: every key is looked at once, from where the last call ended;  *)
(* a result of NoKey is ProviderUnavailableError.                          *)
NextKey(pool, exclude, t) ==
  LET at(i)  == Keys[((pool.index + i) % Len(Keys)) + 1]
      usable == {i \in 0 .. Len(Keys) - 1 : at(i) # exclude /\ pool.until[at(i)] <= t}
  IN  IF usable = {} THEN [key |-> NoKey, pool |-> pool]
      ELSE [key |-> at(Min(usable)),
            pool |-> [pool EXCEPT !.index = (@ + Min(usable) + 1) % Len(Keys)]]

(* Mutant of CoolDown: a rejected key stays in use.                        *)
NoCoolDown(pool, key, t) == pool

CoolDown(pool, key, t) == [pool EXCEPT !.until[key] = t + Cooldown]

(* TwelveDataHttpClient.get: "no data" is decided before the errors that   *)
(* blame the key, and those before any other.                              *)
HttpOutcome(response) ==
  IF response.noData THEN "no data"
  ELSE IF {response.status, response.code} \cap {401, 403, 429} # {} \/ response.blamesKey THEN "key"
  ELSE IF response.status >= 400 \/ response.error THEN "failed"
  ELSE "answer"
=============================================================================
