------------------------------ MODULE LiveData ------------------------------
(***************************************************************************)
(* The price cache of lib/priceOracle.ts: one entry per symbol, shared by  *)
(* every request the server handles, refreshed by whichever of them finds  *)
(* it too old.  A refresh asks Binance, then DeFiLlama, each for at most   *)
(* two seconds, and dates what it stores by the moment it was called; if   *)
(* both fail the last price there was is served, however old.  The price   *)
(* itself is abstracted to the moment it was the market's.                 *)
(***************************************************************************)
EXTENDS Integers

CONSTANTS
    Symbols,   \* "ETH" and "BTC"
    Callers,   \* requests under way
    Ttl,       \* CACHE_TTL_MS
    Timeout,   \* AbortSignal.timeout
    Horizon    \* bound: the clock stops here

ASSUME LiveDataAssumption ==
    Ttl \in Nat \ {0} /\ Timeout \in Nat /\ Horizon \in Nat

VARIABLES
    priceCache,   \* symbol -> [quoted, timestamp]; timestamp 0: the built-in price
    asking,       \* caller -> [stage, symbol, since, asked]
    served,       \* caller -> what the last call returned: [source, quoted, at]
    now           \* Date.now()
liveDataVars == <<priceCache, asking, served, now>>

Unserved == [source |-> "none", quoted |-> 0, at |-> 0]
Resting(s) == [stage |-> "idle", symbol |-> s, since |-> 0, asked |-> 0]

LiveDataInit ==
    /\ priceCache = [s \in Symbols |-> [quoted |-> 0, timestamp |-> 0]]
    /\ asking \in [Callers -> {Resting(s) : s \in Symbols}]
    /\ served = [c \in Callers |-> Unserved]
    /\ now = 1

Usable(s) == priceCache[s].timestamp > 0 /\ now - priceCache[s].timestamp < Ttl

Serve(c, source, quoted) ==
    served' = [served EXCEPT ![c] = [source |-> source, quoted |-> quoted, at |-> now]]

(* A usable entry is the answer at once. *)
ServeCached(c, s) ==
    /\ asking[c].stage = "idle"
    /\ Usable(s)
    /\ Serve(c, "cache", priceCache[s].quoted)
    /\ UNCHANGED <<priceCache, asking, now>>

AskBinance(c, s) ==
    /\ asking[c].stage = "idle"
    /\ ~Usable(s)
    /\ asking' = [asking EXCEPT ![c] = [stage |-> "binance", symbol |-> s, since |-> now, asked |-> now]]
    /\ UNCHANGED <<priceCache, served, now>>

(* A plausible slip: the entry is dated when the answer arrives. *)
StampOnArrival(call) == now

(* The date of a refreshed entry: when its call began, before either source
   was asked. *)
StampOf(call) == call.since

(* A source answers with a price of some moment since it was asked. *)
QuoteArrives(c) ==
    LET call == asking[c] IN
    /\ call.stage # "idle"
    /\ \E quoted \in call.asked..now :
          /\ priceCache' = [priceCache EXCEPT ![call.symbol] =
                               [quoted |-> quoted, timestamp |-> StampOf(call)]]
          /\ Serve(c, call.stage, quoted)
    /\ asking' = [asking EXCEPT ![c] = Resting(call.symbol)]
    /\ UNCHANGED now

(* Binance failed or timed out. *)
AskDefiLlama(c) ==
    /\ asking[c].stage = "binance"
    /\ asking' = [asking EXCEPT ![c] = [stage |-> "llama", symbol |-> @.symbol,
                                        since |-> @.since, asked |-> now]]
    /\ UNCHANGED <<priceCache, served, now>>

(* DeFiLlama failed too: the last price, or the built-in one. *)
FallBack(c) ==
    /\ asking[c].stage = "llama"
    /\ Serve(c, "fallback", priceCache[asking[c].symbol].quoted)
    /\ asking' = [asking EXCEPT ![c] = Resting(asking[c].symbol)]
    /\ UNCHANGED <<priceCache, now>>

(* Time passes, but no source is waited for longer than the timeout. *)
LiveDataTick ==
    /\ now < Horizon
    /\ \A c \in Callers : asking[c].stage # "idle" => now < asking[c].asked + Timeout
    /\ now' = now + 1
    /\ UNCHANGED <<priceCache, asking, served>>

LiveDataNext ==
    \/ \E c \in Callers :
          \/ \E s \in Symbols : ServeCached(c, s) \/ AskBinance(c, s)
          \/ QuoteArrives(c) \/ AskDefiLlama(c) \/ FallBack(c)
    \/ LiveDataTick

LiveDataSpec == LiveDataInit /\ [][LiveDataNext]_liveDataVars

-----------------------------------------------------------------------------
(* A price served from the cache is younger than the cache's time to live,
   counted from the moment it was the market's price and not from the moment
   it arrived, however slow the source was and whatever another request's
   refresh did in between. *)
CachedPriceIsFresh ==
    \A c \in Callers : served[c].source = "cache" => served[c].at - served[c].quoted < Ttl
=============================================================================
