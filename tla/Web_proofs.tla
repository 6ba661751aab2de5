----------------------------- MODULE Web_proofs -----------------------------
(***************************************************************************)
(* The parts of the web application, each for any instance of its own       *)
(* constants: the rate limiter for any clients, routes, limits, window and  *)
(* length of time; the price cache for any symbols and concurrent callers,  *)
(* any time to live and any timeout; the circuit breakers of /api/analyze   *)
(* for every catalogue, every answer of DeFiLlama and of the chain and     *)
(* every outcome of the quantitative formulas; the recording flow for any  *)
(* flows and reports; the routes of the validators for any nodes, reports  *)
(* and quorums; the pages that show the chain for any subjects; the SDK for*)
(* any batches of reads; the waiting list for any emails.                  *)
(***************************************************************************)
EXTENDS RateLimiter, LiveData, AnalyzeRoute, RecordFlow, DonRoutes, Sdk, ChainViews, Waitlist,
        Sums_proofs, FunctionTheorems

(* The rate limiter.  Nothing that is still inside the window is ever dropped:
   the requests of a key within the window of a new one are in its entry, and
   the limit was compared with their number.  What the store may not forget: *)
WindowIsStored ==
    \A n \in 1..Len(log) : clock - log[n].at < Window => n \in store[log[n].key]

(* On a key of its own a route never stores more than its limit. *)
OwnEntriesFit ==
    \A c \in Clients, r \in OwnKey : Cardinality(store[KeyOf(c, r)]) <= LimitOf[r]

LimiterInv == LimiterTypeOK /\ WindowIsStored /\ OwnEntriesFit /\ WindowIsRespected

-----------------------------------------------------------------------------
LEMMA KeyOfType == \A c \in Clients, r \in Routes : KeyOf(c, r) \in Keys
  BY DEF KeyOf, Keys

LEMMA LogEntries ==
  ASSUME LimiterTypeOK, NEW n \in 1..Len(log)
  PROVE  /\ log[n].key \in Keys /\ log[n].route \in Routes
         /\ log[n].at \in Nat /\ log[n].at <= clock
<1>1. log \in Seq(Entry) /\ log[n].at <= clock
  BY DEF LimiterTypeOK
<1>2. log[n] \in Entry
  BY <1>1
<1>3. QED
  BY <1>1, <1>2 DEF Entry

LEMMA FreshFinite ==
  ASSUME LimiterTypeOK, NEW k \in Keys
  PROVE  /\ Fresh(k) \subseteq store[k] /\ Fresh(k) \subseteq 1..Len(log)
         /\ IsFiniteSet(Fresh(k)) /\ IsFiniteSet(store[k])
         /\ Cardinality(Fresh(k)) \in Nat /\ Cardinality(store[k]) \in Nat
         /\ Cardinality(Fresh(k)) <= Cardinality(store[k])
<1>1. Fresh(k) \subseteq store[k] /\ store[k] \subseteq 1..Len(log)
  BY DEF LimiterTypeOK, Fresh
<1>2. Len(log) \in Nat
  BY DEF LimiterTypeOK
<1>3. IsFiniteSet(store[k])
  <2>1. IsFiniteSet(1..Len(log))
    BY <1>2, FS_Interval
  <2>2. QED
    BY <1>1, <2>1, FS_Subset
<1>4. IsFiniteSet(Fresh(k)) /\ Cardinality(Fresh(k)) <= Cardinality(store[k])
  BY <1>1, <1>3, FS_Subset
<1>5. QED
  BY <1>1, <1>3, <1>4, FS_CardinalityType

LEMMA LimiterInitInv == LimiterInit => LimiterInv
<1> SUFFICES ASSUME LimiterInit PROVE LimiterInv
  OBVIOUS
<1>1. log = <<>> /\ Len(log) = 0 /\ clock = 1 /\ cleaner = 0 /\ store = [k \in Keys |-> {}]
  BY DEF LimiterInit
<1>2. LimiterTypeOK
  BY <1>1 DEF LimiterTypeOK
<1>3. OwnEntriesFit
  <2> SUFFICES ASSUME NEW c \in Clients, NEW r \in OwnKey
               PROVE  Cardinality(store[KeyOf(c, r)]) <= LimitOf[r]
    BY DEF OwnEntriesFit
  <2>1. r \in Routes /\ LimitOf[r] \in Nat
    BY LimiterAssumption
  <2>2. store[KeyOf(c, r)] = {}
    BY <1>1, <2>1, KeyOfType
  <2>3. QED
    BY <2>1, <2>2, FS_EmptySet
<1>4. WindowIsStored /\ WindowIsRespected
  BY <1>1 DEF WindowIsStored, WindowIsRespected
<1>5. QED
  BY <1>2, <1>3, <1>4 DEF LimiterInv

(* A step that only drops entries of the store, none of them fresh. *)
LEMMA ForgettingKeepsInv ==
  ASSUME LimiterInv, clock' = clock, log' = log, cleaner' \in Nat,
         store' \in [Keys -> SUBSET (1..Len(log))],
         \A k \in Keys : Fresh(k) \subseteq store'[k] /\ store'[k] \subseteq store[k]
  PROVE  LimiterInv'
<1> USE DEF LimiterInv
<1>1. LimiterTypeOK'
  BY DEF LimiterTypeOK
<1>2. WindowIsStored'
  <2> SUFFICES ASSUME NEW n \in 1..Len(log), clock - log[n].at < Window
               PROVE  n \in store'[log[n].key]
    BY DEF WindowIsStored
  <2>1. log[n].key \in Keys
    BY LogEntries
  <2>2. n \in Fresh(log[n].key)
    BY DEF WindowIsStored, Fresh, InWindow
  <2>3. QED
    BY <2>1, <2>2
<1>3. OwnEntriesFit'
  <2> SUFFICES ASSUME NEW c \in Clients, NEW r \in OwnKey
               PROVE  Cardinality(store'[KeyOf(c, r)]) <= LimitOf[r]
    BY DEF OwnEntriesFit, KeyOf
  <2> DEFINE k == KeyOf(c, r)
  <2>1. k \in Keys /\ LimitOf[r] \in Nat
    BY LimiterAssumption, KeyOfType
  <2>2. IsFiniteSet(store[k]) /\ Cardinality(store[k]) \in Nat
    BY <2>1, FreshFinite
  <2>3. IsFiniteSet(store'[k]) /\ Cardinality(store'[k]) <= Cardinality(store[k])
    BY <2>1, <2>2, FS_Subset
  <2>4. Cardinality(store'[k]) \in Nat
    BY <2>3, FS_CardinalityType
  <2>5. Cardinality(store[k]) <= LimitOf[r]
    BY DEF OwnEntriesFit
  <2>6. QED
    BY <2>1, <2>2, <2>3, <2>4, <2>5
<1>4. WindowIsRespected'
  BY DEF WindowIsRespected, WindowOf
<1>5. QED
  BY <1>1, <1>2, <1>3, <1>4

LEMMA AcceptKeepsInv ==
  ASSUME LimiterInv, NEW c \in Clients, NEW r \in Routes, Accept(c, r)
  PROVE  LimiterInv'
<1> DEFINE k == KeyOf(c, r)
           m == Len(log) + 1
           entry == [key |-> k, route |-> r, at |-> clock]
<1>1. /\ LimiterTypeOK /\ WindowIsStored /\ OwnEntriesFit /\ WindowIsRespected
      /\ k \in Keys /\ LimitOf[r] \in Nat \ {0}
  BY KeyOfType, LimiterAssumption DEF LimiterInv
<1>2. /\ log \in Seq(Entry) /\ Len(log) \in Nat /\ clock \in Nat
      /\ \A n \in 1..Len(log) : log[n].key \in Keys /\ log[n].at \in Nat /\ log[n].at <= clock
  BY <1>1, LogEntries DEF LimiterTypeOK
<1>3. /\ ~Full(k, r) /\ clock' = clock /\ cleaner' \in Nat
      /\ store' = [store EXCEPT ![k] = Fresh(k) \cup {m}]
      /\ log' = Append(log, entry)
  BY <1>1, LimiterAssumption DEF Accept, EnsureCleanup, LimiterTypeOK
<1>4. /\ log' \in Seq(Entry) /\ Len(log') = m
      /\ log'[m] = entry
      /\ \A n \in 1..Len(log) : log'[n] = log[n]
  <2>1. entry \in Entry
    BY <1>1, <1>2 DEF Entry
  <2>2. QED
    BY <1>2, <1>3, <2>1
<1> HIDE DEF entry
<1>5. /\ IsFiniteSet(Fresh(k)) /\ Fresh(k) \subseteq 1..Len(log)
      /\ Cardinality(Fresh(k)) \in Nat /\ Cardinality(Fresh(k)) < LimitOf[r]
  BY <1>1, <1>3, FreshFinite DEF Full
<1>6. /\ IsFiniteSet(Fresh(k) \cup {m}) /\ Cardinality(Fresh(k) \cup {m}) <= LimitOf[r]
  <2>1. m \notin Fresh(k)
    BY <1>2, <1>5
  <2>2. /\ IsFiniteSet(Fresh(k) \cup {m})
        /\ Cardinality(Fresh(k) \cup {m}) = Cardinality(Fresh(k)) + 1
    BY <1>5, <2>1, FS_AddElement
  <2>3. QED
    BY <1>1, <1>5, <2>2
<1>7. LimiterTypeOK'
  <2>1. store' \in [Keys -> SUBSET (1..m)]
    BY <1>1, <1>2, <1>3, <1>5 DEF LimiterTypeOK
  <2>2. \A n \in 1..m : log'[n].at <= clock
    BY <1>2, <1>4 DEF entry
  <2>3. QED
    BY <1>2, <1>3, <1>4, <2>1, <2>2 DEF LimiterTypeOK
<1>8. WindowIsStored'
  <2> SUFFICES ASSUME NEW n \in 1..m, clock - log'[n].at < Window
               PROVE  n \in store'[log'[n].key]
    BY <1>3, <1>4 DEF WindowIsStored
  <2>1. CASE n = m
    BY <2>1, <1>1, <1>3, <1>4 DEF entry, LimiterTypeOK
  <2>2. CASE n # m
    <3>1. n \in 1..Len(log) /\ log'[n] = log[n]
      BY <2>2, <1>2, <1>4
    <3>2. n \in store[log[n].key] /\ log[n].key \in Keys
      BY <3>1, <1>1, <1>2, <1>3 DEF WindowIsStored
    <3>3. log[n].key = k => n \in Fresh(k)
      BY <3>1, <3>2 DEF Fresh, InWindow
    <3>4. QED
      BY <3>1, <3>2, <3>3, <1>1, <1>3 DEF LimiterTypeOK
  <2>3. QED
    BY <2>1, <2>2
<1>9. OwnEntriesFit'
  <2> SUFFICES ASSUME NEW d \in Clients, NEW q \in OwnKey
               PROVE  Cardinality(store'[KeyOf(d, q)]) <= LimitOf[q]
    BY DEF OwnEntriesFit, KeyOf
  <2>1. KeyOf(d, q) \in Keys /\ q # Shared
    BY KeyOfType, LimiterAssumption
  <2>2. CASE KeyOf(d, q) = k
    <3>1. q = r
      BY <2>1, <2>2 DEF KeyOf
    <3>2. store'[k] = Fresh(k) \cup {m}
      BY <1>1, <1>3 DEF LimiterTypeOK
    <3>3. QED
      BY <2>2, <3>1, <3>2, <1>6
  <2>3. CASE KeyOf(d, q) # k
    <3>1. store'[KeyOf(d, q)] = store[KeyOf(d, q)]
      BY <2>1, <2>3, <1>1, <1>3 DEF LimiterTypeOK
    <3>2. QED
      BY <3>1, <1>1 DEF OwnEntriesFit
  <2>4. QED
    BY <2>2, <2>3
<1>10. WindowIsRespected'
  <2> SUFFICES ASSUME NEW j \in 1..m
               PROVE  Cardinality(WindowOf(j)') <= LimitOf[log'[j].route]
    BY <1>4 DEF WindowIsRespected
  <2>0. WindowOf(j)' = {n \in 1..j : /\ log'[n].key = log'[j].key
                                     /\ log'[j].at - log'[n].at < Window}
    BY DEF WindowOf
  <2>1. CASE j = m
    <3>1. WindowOf(j)' \subseteq Fresh(k) \cup {m}
      <4> SUFFICES ASSUME NEW n \in 1..m, n # m,
                          log'[n].key = log'[m].key, log'[m].at - log'[n].at < Window
                   PROVE  n \in Fresh(k)
        BY <2>0, <2>1
      <4>1. n \in 1..Len(log) /\ log'[n] = log[n] /\ log[n].key = k /\ clock - log[n].at < Window
        BY <1>2, <1>4 DEF entry
      <4>2. QED
        BY <4>1, <1>1 DEF WindowIsStored, Fresh, InWindow
    <3>2. /\ IsFiniteSet(WindowOf(j)')
          /\ Cardinality(WindowOf(j)') <= Cardinality(Fresh(k) \cup {m})
      BY <3>1, <1>6, FS_Subset
    <3>3. Cardinality(WindowOf(j)') \in Nat /\ Cardinality(Fresh(k) \cup {m}) \in Nat
      BY <3>2, <1>6, FS_CardinalityType
    <3>4. log'[j].route = r
      BY <2>1, <1>4 DEF entry
    <3>5. QED
      BY <3>2, <3>3, <3>4, <1>1, <1>6
  <2>2. CASE j # m
    <3>1. j \in 1..Len(log) /\ \A n \in 1..j : log'[n] = log[n]
      BY <2>2, <1>2, <1>4
    <3>2. WindowOf(j)' = WindowOf(j)
      BY <2>0, <3>1 DEF WindowOf
    <3>3. QED
      BY <3>1, <3>2, <1>1, <1>2 DEF WindowIsRespected
  <2>3. QED
    BY <2>1, <2>2
<1>11. QED
  BY <1>7, <1>8, <1>9, <1>10 DEF LimiterInv

LEMMA RefuseKeepsInv ==
  ASSUME LimiterInv, NEW c \in Clients, NEW r \in Routes, Refuse(c, r)
  PROVE  LimiterInv'
<1> DEFINE k == KeyOf(c, r)
<1>1. LimiterTypeOK /\ k \in Keys
  BY KeyOfType DEF LimiterInv
<1>2. Fresh(k) \subseteq store[k]
  BY <1>1, FreshFinite
<1>3. /\ clock' = clock /\ log' = log /\ cleaner' \in Nat
      /\ store' = [store EXCEPT ![k] = Fresh(k)]
  BY <1>1, LimiterAssumption DEF Refuse, EnsureCleanup, LimiterTypeOK
<1>4. \A q \in Keys : Fresh(q) \subseteq store'[q] /\ store'[q] \subseteq store[q]
  BY <1>1, <1>2, <1>3, FreshFinite DEF LimiterTypeOK
<1>5. store' \in [Keys -> SUBSET (1..Len(log))]
  BY <1>1, <1>2, <1>3 DEF LimiterTypeOK
<1>6. QED
  BY <1>3, <1>4, <1>5, ForgettingKeepsInv

LEMMA CleanupKeepsInv == LimiterInv /\ Cleanup => LimiterInv'
<1> SUFFICES ASSUME LimiterInv, Cleanup PROVE LimiterInv'
  OBVIOUS
<1>1. LimiterTypeOK
  BY DEF LimiterInv
<1>2. /\ clock' = clock /\ log' = log /\ cleaner' \in Nat
      /\ store' = [k \in Keys |-> Fresh(k)]
  BY <1>1, LimiterAssumption DEF Cleanup, LimiterTypeOK
<1>3. \A k \in Keys : Fresh(k) \subseteq store[k] /\ Fresh(k) \subseteq 1..Len(log)
  BY <1>1, FreshFinite
<1>4. /\ store' \in [Keys -> SUBSET (1..Len(log))]
      /\ \A k \in Keys : Fresh(k) \subseteq store'[k] /\ store'[k] \subseteq store[k]
  BY <1>2, <1>3
<1>5. QED
  BY <1>2, <1>4, ForgettingKeepsInv

LEMMA TickKeepsInv == LimiterInv /\ LimiterTick => LimiterInv'
<1> SUFFICES ASSUME LimiterInv, LimiterTick PROVE LimiterInv'
  OBVIOUS
<1> USE DEF LimiterInv, LimiterTick
<1>1. /\ log \in Seq(Entry) /\ clock \in Nat
      /\ \A n \in 1..Len(log) : log[n].at \in Nat /\ log[n].at <= clock
  BY LogEntries DEF LimiterTypeOK
<1>2. LimiterTypeOK'
  BY <1>1 DEF LimiterTypeOK
<1>3. WindowIsStored'
  BY <1>1, LimiterAssumption DEF WindowIsStored
<1>4. OwnEntriesFit' /\ WindowIsRespected'
  BY DEF OwnEntriesFit, KeyOf, WindowIsRespected, WindowOf
<1>5. QED
  BY <1>2, <1>3, <1>4

(* Every reachable state of the limiter satisfies the invariant. *)
THEOREM LimiterCorrect == LimiterSpec => []LimiterInv
<1>1. LimiterInv /\ [LimiterNext]_limiterVars => LimiterInv'
  <2> SUFFICES ASSUME LimiterInv, [LimiterNext]_limiterVars PROVE LimiterInv'
    OBVIOUS
  <2>1. ASSUME NEW c \in Clients, NEW r \in Routes, Accept(c, r) PROVE LimiterInv'
    BY <2>1, AcceptKeepsInv
  <2>2. ASSUME NEW c \in Clients, NEW r \in Routes, Refuse(c, r) PROVE LimiterInv'
    BY <2>2, RefuseKeepsInv
  <2>3. CASE Cleanup
    BY <2>3, CleanupKeepsInv
  <2>4. CASE LimiterTick
    BY <2>4, TickKeepsInv
  <2>5. CASE UNCHANGED limiterVars
    BY <2>5 DEF limiterVars, LimiterInv, LimiterTypeOK, WindowIsStored, OwnEntriesFit, KeyOf,
                WindowIsRespected, WindowOf
  <2>6. QED
    BY <2>1, <2>2, <2>3, <2>4, <2>5 DEF LimiterNext
<1>2. QED
  BY <1>1, LimiterInitInv, PTL DEF LimiterSpec

(* Whenever a request was let through, the requests of its key within the
   window were no more than its route allows. *)
THEOREM WindowHolds == LimiterSpec => []WindowIsRespected
<1>1. LimiterInv => WindowIsRespected
  BY DEF LimiterInv
<1>2. QED
  BY <1>1, LimiterCorrect, PTL

-----------------------------------------------------------------------------
LEMMA OldestIsFresh ==
  ASSUME LimiterTypeOK, NEW k \in Keys, Fresh(k) # {}
  PROVE  Oldest(k) \in Fresh(k)
<1>1. Fresh(k) \subseteq Nat
  BY FreshFinite
<1>2. \E n \in Fresh(k) : \A i \in Fresh(k) : n <= i
  BY <1>1, LeastExists
<1>3. QED
  BY <1>2 DEF Oldest

LEMMA InvImpliesRetrySuffices == LimiterInv => RetryAfterSuffices
<1> SUFFICES ASSUME LimiterInv, NEW c \in Clients, NEW r \in OwnKey, Full(KeyOf(c, r), r)
             PROVE  LET k == KeyOf(c, r) IN
                    /\ RetryAt(k) > clock
                    /\ Cardinality({n \in Fresh(k) : RetryAt(k) - log[n].at < Window}) < LimitOf[r]
  BY DEF RetryAfterSuffices
<1> DEFINE k == KeyOf(c, r)
           left == {n \in Fresh(k) : RetryAt(k) - log[n].at < Window}
<1>1. LimiterTypeOK /\ k \in Keys /\ LimitOf[r] \in Nat \ {0} /\ Window \in Nat
  BY KeyOfType, LimiterAssumption DEF LimiterInv
<1>2. /\ IsFiniteSet(Fresh(k)) /\ Fresh(k) \subseteq 1..Len(log)
      /\ Cardinality(Fresh(k)) \in Nat /\ Cardinality(Fresh(k)) <= Cardinality(store[k])
      /\ Cardinality(store[k]) \in Nat
  BY <1>1, FreshFinite
<1>3. Cardinality(Fresh(k)) <= LimitOf[r] /\ Cardinality(Fresh(k)) >= LimitOf[r]
  BY <1>1, <1>2 DEF LimiterInv, OwnEntriesFit, Full
<1>4. Oldest(k) \in Fresh(k)
  <2>1. Fresh(k) # {}
    BY <1>1, <1>3, FS_EmptySet
  <2>2. QED
    BY <2>1, <1>1, OldestIsFresh
<1>5. /\ log[Oldest(k)].at \in Nat /\ clock \in Nat
      /\ clock - log[Oldest(k)].at < Window
  BY <1>1, <1>2, <1>4, LogEntries DEF LimiterTypeOK, Fresh, InWindow
<1>6. RetryAt(k) = log[Oldest(k)].at + Window /\ RetryAt(k) > clock
  BY <1>1, <1>5 DEF RetryAt
<1>7. left \subseteq Fresh(k) \ {Oldest(k)}
  BY <1>1, <1>5, <1>6
<1>8. /\ IsFiniteSet(Fresh(k) \ {Oldest(k)})
      /\ Cardinality(Fresh(k) \ {Oldest(k)}) = Cardinality(Fresh(k)) - 1
  BY <1>2, <1>4, FS_RemoveElement
<1>9. IsFiniteSet(left) /\ Cardinality(left) <= Cardinality(Fresh(k)) - 1
  BY <1>7, <1>8, FS_Subset
<1>10. Cardinality(left) \in Nat
  BY <1>9, FS_CardinalityType
<1>11. Cardinality(left) < LimitOf[r]
  BY <1>1, <1>2, <1>3, <1>9, <1>10
<1>12. QED
  BY <1>6, <1>11

(* A refused client that waits as long as Retry-After says is let through, on
   every key a route does not share. *)
THEOREM RetryAfterHolds == LimiterSpec => []RetryAfterSuffices
  BY InvImpliesRetrySuffices, LimiterCorrect, PTL

-----------------------------------------------------------------------------
(* The price cache.  An entry is never younger than its price: it is dated by
   the start of a call, and a source is asked no earlier.  Nothing is said of
   which refresh comes last: an overtaken one may store the older price, but
   with the older date. *)
EntriesAreDatedEarly ==
    /\ priceCache \in [Symbols -> [quoted : Int, timestamp : Int]]
    /\ \A s \in Symbols : priceCache[s].timestamp <= priceCache[s].quoted

CallsBeganBefore ==
    /\ asking \in [Callers -> [stage : {"idle", "binance", "llama"}, symbol : Symbols,
                               since : Int, asked : Int]]
    /\ \A c \in Callers : asking[c].since <= asking[c].asked /\ asking[c].asked <= now

ServedIsDated ==
    served \in [Callers -> [source : {"none", "cache", "binance", "llama", "fallback"},
                            quoted : Int, at : Int]]

LiveDataInv ==
    now \in Nat /\ EntriesAreDatedEarly /\ CallsBeganBefore /\ ServedIsDated /\ CachedPriceIsFresh

LEMMA LiveDataInitInv == LiveDataInit => LiveDataInv
  BY LiveDataAssumption
     DEF LiveDataInit, LiveDataInv, EntriesAreDatedEarly, CallsBeganBefore, ServedIsDated,
         CachedPriceIsFresh, Unserved, Resting

(* Only an answer out of the cache needs an argument. *)
LEMMA OtherSourcesServe ==
  ASSUME LiveDataInv, NEW c \in Callers, NEW source \in {"binance", "llama", "fallback"},
         NEW quoted \in Int, Serve(c, source, quoted)
  PROVE  ServedIsDated' /\ CachedPriceIsFresh'
<1>1. /\ now \in Int
      /\ served' = [served EXCEPT ![c] = [source |-> source, quoted |-> quoted, at |-> now]]
  BY DEF LiveDataInv, Serve
<1>2. ServedIsDated'
  BY <1>1 DEF LiveDataInv, ServedIsDated
<1>3. ASSUME NEW d \in Callers, served'[d].source = "cache"
      PROVE  served'[d].at - served'[d].quoted < Ttl
  <2>1. d # c
    BY <1>1, <1>3 DEF LiveDataInv, ServedIsDated
  <2>2. served'[d] = served[d]
    BY <1>1, <2>1 DEF LiveDataInv, ServedIsDated
  <2>3. QED
    BY <1>3, <2>2 DEF LiveDataInv, CachedPriceIsFresh
<1>4. QED
  BY <1>2, <1>3 DEF CachedPriceIsFresh

LEMMA ServeCachedKeepsInv ==
  ASSUME LiveDataInv, NEW c \in Callers, NEW s \in Symbols, ServeCached(c, s)
  PROVE  LiveDataInv'
<1>1. /\ now \in Int /\ Ttl \in Int
      /\ UNCHANGED <<priceCache, asking, now>>
      /\ now - priceCache[s].timestamp < Ttl
      /\ served' = [served EXCEPT ![c] = [source |-> "cache", quoted |-> priceCache[s].quoted,
                                          at |-> now]]
  BY LiveDataAssumption DEF LiveDataInv, ServeCached, Usable, Serve
<1>2. /\ priceCache[s].quoted \in Int /\ priceCache[s].timestamp \in Int
      /\ priceCache[s].timestamp <= priceCache[s].quoted
  BY DEF LiveDataInv, EntriesAreDatedEarly
<1>3. now - priceCache[s].quoted < Ttl
  BY <1>1, <1>2
<1>4. ServedIsDated'
  BY <1>1, <1>2 DEF LiveDataInv, ServedIsDated
<1>5. ASSUME NEW d \in Callers, served'[d].source = "cache"
      PROVE  served'[d].at - served'[d].quoted < Ttl
  <2>1. CASE d = c
    BY <1>1, <1>3, <2>1 DEF LiveDataInv, ServedIsDated
  <2>2. CASE d # c
    <3>1. served'[d] = served[d]
      BY <1>1, <2>2 DEF LiveDataInv, ServedIsDated
    <3>2. QED
      BY <1>5, <3>1 DEF LiveDataInv, CachedPriceIsFresh
  <2>3. QED
    BY <2>1, <2>2
<1>6. EntriesAreDatedEarly' /\ CallsBeganBefore' /\ now' \in Nat
  BY <1>1 DEF LiveDataInv, EntriesAreDatedEarly, CallsBeganBefore
<1>7. QED
  BY <1>4, <1>5, <1>6 DEF LiveDataInv, CachedPriceIsFresh

LEMMA QuoteArrivesKeepsInv ==
  ASSUME LiveDataInv, NEW c \in Callers, QuoteArrives(c)
  PROVE  LiveDataInv'
<1> DEFINE call == asking[c]
<1>1. /\ call \in [stage : {"idle", "binance", "llama"}, symbol : Symbols, since : Int, asked : Int]
      /\ call.stage \in {"binance", "llama"} /\ call.since <= call.asked
  BY DEF LiveDataInv, CallsBeganBefore, QuoteArrives
<1>2. PICK quoted \in call.asked..now :
         /\ priceCache' = [priceCache EXCEPT ![call.symbol] =
                              [quoted |-> quoted, timestamp |-> call.since]]
         /\ Serve(c, call.stage, quoted)
  BY DEF QuoteArrives, StampOf
<1>3. /\ asking' = [asking EXCEPT ![c] = Resting(call.symbol)]
      /\ now' = now /\ now \in Nat
  BY DEF QuoteArrives, LiveDataInv
<1>4. quoted \in Int /\ call.since <= quoted /\ call.symbol \in Symbols /\ call.since \in Int
  BY <1>1, <1>3
<1>5. EntriesAreDatedEarly'
  BY <1>2, <1>4 DEF LiveDataInv, EntriesAreDatedEarly
<1>6. ServedIsDated' /\ CachedPriceIsFresh'
  BY <1>1, <1>2, <1>4, OtherSourcesServe
<1>7. CallsBeganBefore'
  BY <1>3, <1>4 DEF LiveDataInv, CallsBeganBefore, Resting
<1>8. QED
  BY <1>3, <1>5, <1>6, <1>7 DEF LiveDataInv

LEMMA LiveDataNextInv ==
  ASSUME LiveDataInv, [LiveDataNext]_liveDataVars
  PROVE  LiveDataInv'
<1>1. ASSUME NEW c \in Callers, NEW s \in Symbols, AskBinance(c, s)
      PROVE  LiveDataInv'
  <2>1. CallsBeganBefore'
    BY <1>1 DEF AskBinance, LiveDataInv, CallsBeganBefore
  <2>2. QED
    BY <1>1, <2>1
       DEF AskBinance, LiveDataInv, EntriesAreDatedEarly, ServedIsDated, CachedPriceIsFresh
<1>2. ASSUME NEW c \in Callers, AskDefiLlama(c)
      PROVE  LiveDataInv'
  <2> DEFINE call == asking[c]
             later == [stage |-> "llama", symbol |-> call.symbol, since |-> call.since, asked |-> now]
  <2>3. /\ call \in [stage : {"idle", "binance", "llama"}, symbol : Symbols, since : Int, asked : Int]
        /\ call.since <= call.asked /\ call.asked <= now /\ now \in Nat
    BY DEF LiveDataInv, CallsBeganBefore
  <2>4. /\ later \in [stage : {"idle", "binance", "llama"}, symbol : Symbols, since : Int, asked : Int]
        /\ later.since <= later.asked /\ later.asked <= now
    BY <2>3
  <2>5. asking' = [asking EXCEPT ![c] = later] /\ now' = now
    BY <1>2 DEF AskDefiLlama
  <2> HIDE DEF later, call
  <2>1. CallsBeganBefore'
    BY <2>4, <2>5 DEF LiveDataInv, CallsBeganBefore
  <2>2. QED
    BY <1>2, <2>1
       DEF AskDefiLlama, LiveDataInv, EntriesAreDatedEarly, ServedIsDated, CachedPriceIsFresh
<1>3. ASSUME NEW c \in Callers, FallBack(c)
      PROVE  LiveDataInv'
  <2>1. /\ asking[c].symbol \in Symbols /\ now \in Nat
        /\ priceCache[asking[c].symbol].quoted \in Int
    BY DEF LiveDataInv, CallsBeganBefore, EntriesAreDatedEarly
  <2>2. ServedIsDated' /\ CachedPriceIsFresh'
    BY <1>3, <2>1, OtherSourcesServe DEF FallBack
  <2>3. CallsBeganBefore'
    BY <1>3, <2>1 DEF FallBack, Resting, LiveDataInv, CallsBeganBefore
  <2>4. QED
    BY <1>3, <2>2, <2>3 DEF FallBack, LiveDataInv, EntriesAreDatedEarly
<1>4. ASSUME LiveDataTick PROVE LiveDataInv'
  BY <1>4
     DEF LiveDataTick, LiveDataInv, EntriesAreDatedEarly, CallsBeganBefore, ServedIsDated,
         CachedPriceIsFresh
<1>5. ASSUME UNCHANGED liveDataVars PROVE LiveDataInv'
  BY <1>5
     DEF liveDataVars, LiveDataInv, EntriesAreDatedEarly, CallsBeganBefore, ServedIsDated,
         CachedPriceIsFresh
<1>6. QED
  BY <1>1, <1>2, <1>3, <1>4, <1>5, ServeCachedKeepsInv, QuoteArrivesKeepsInv DEF LiveDataNext

(* A price out of the cache is younger than the time to live, counted from the
   moment it was the market's, however many refreshes overtake each other. *)
THEOREM CacheIsFresh == LiveDataSpec => []CachedPriceIsFresh
<1>1. LiveDataInv => CachedPriceIsFresh
  BY DEF LiveDataInv
<1>2. QED
  BY <1>1, LiveDataInitInv, LiveDataNextInv, PTL DEF LiveDataSpec

-----------------------------------------------------------------------------
(* The breakers.  A breaker bounds the weighted score, the adjustment that
   follows adds at most three points, and the verdict's tiers leave more room
   than that. *)
Telemetries == [bytes : Nat, txs : Nat, usd : Nat]

(* What is known of the request once each step is done. *)
Resolved ==
    req.phase \in {"resolved", "inspected", "rated", "answered"} =>
        req.address \in Addresses /\ (req.protocol = NoEntry \/ req.protocol \in Protocols)
Inspected ==
    req.phase \in {"inspected", "rated", "answered"} => req.telemetry \in Telemetries
ScoreIsFinal ==
    Rated => /\ req.quant \in Int /\ req.quant <= 3
             /\ req.score = FinalScore(RawScore(req.protocol, req.telemetry), req.quant)

ReqFields == {"phase", "address", "protocol", "telemetry", "breaker", "raw", "quant", "score", "memo"}

AnalyzeInv ==
    /\ req = [f \in ReqFields |-> req[f]]
    /\ Resolved /\ Inspected /\ ScoreIsFinal

-----------------------------------------------------------------------------
(* Integers stay integers. *)
LEMMA ClampInt == \A lo, hi, x \in Int : Clamp(lo, hi, x) \in Int
  BY DEF Clamp, Most, Least

LEMMA LeastInt == \A x, y \in Int : Least(x, y) \in Int
  BY DEF Least

LEMMA RoundInt == \A x \in Int : RoundDiv(x, 10) \in Int /\ RoundDiv(x, 100) \in Int
                                 /\ RoundDiv(x, 24000) \in Int
  BY DEF RoundDiv

LEMMA BoundedIsFinite ==
  ASSUME NEW S, NEW n \in Nat, \A i \in S : i \in Nat /\ i <= n
  PROVE  IsFiniteSet(S)
  BY FS_BoundedSetOfNaturals

LEMMA PointsAreFinite == IsFiniteSet(Halfway) /\ IsFiniteSet(Decades)
<1>1. \E n \in Nat : \A i \in Halfway : i \in Nat /\ i <= n
  <2>1. \A i \in Halfway : i \in Nat /\ i <= 1000
    BY SMT DEF Halfway
  <2>2. QED
    BY <2>1, SMT
<1>2. \E n \in Nat : \A i \in Decades : i \in Nat /\ i <= n
  <2>1. \A i \in Decades : i \in Nat /\ i <= 1000000
    BY SMT DEF Decades
  <2>2. QED
    BY <2>1, SMT
<1>3. QED
  BY <1>1, <1>2, BoundedIsFinite

LEMMA Log10Int == \A x : Log10(x) \in Int
<1> SUFFICES ASSUME NEW x PROVE Log10(x) \in Int
  OBVIOUS
<1> DEFINE passed == {q \in Halfway \X Decades : q[1] * q[2] <= 100 * x}
<1>1. IsFiniteSet(Halfway \X Decades)
  BY PointsAreFinite, FS_Product
<1>2. IsFiniteSet(passed)
  BY <1>1, FS_Subset
<1>3. Cardinality(passed) \in Nat
  BY <1>2, FS_CardinalityType
<1>4. QED
  BY <1>3 DEF Log10

IntegerDimensions(d) == \A f \in Names : d[f] \in Int

LEMMA ProtocolDimensionsInt == \A p \in Protocols : IntegerDimensions(ProtocolDimensions(p))
<1> SUFFICES ASSUME NEW p \in Protocols PROVE IntegerDimensions(ProtocolDimensions(p))
  OBVIOUS
<1> DEFINE d == ProtocolDimensions(p)
<1>1. /\ p.change1d \in Int /\ p.change7d \in Int /\ p.chains \in Int /\ p.ageDays \in Nat
      /\ p.sector \in Sectors
  BY DEF Protocols
<1>2. Abs(p.change1d) \in Int /\ Abs(p.change7d) \in Int /\ Abs(p.change1d - p.change7d) \in Int
  BY <1>1 DEF Abs
<1>3. AgeMonths(p) \in Int
  BY <1>1 DEF AgeMonths
<1>4. Log10(EffectiveTvl(p)) \in Int /\ Log10(p.tvl) \in Int
  BY Log10Int
<1>5. VolPenalty(p) \in Int
  BY <1>1, <1>2, RoundInt DEF VolPenalty, Least
<1>6. d.liquidity \in Int
  <2> DEFINE points == 50 + Log10(EffectiveTvl(p))
  <2>1. points \in Int /\ RoundDiv(points * 105, 100) \in Int
    BY <1>4, RoundInt
  <2>2. d.liquidity = IF p.sector = "rwa" THEN Clamp(20, 100, RoundDiv(points * 105, 100)) ELSE Clamp(0, 100, points)
    BY DEF ProtocolDimensions
  <2> HIDE DEF d, points
  <2>3. Clamp(20, 100, RoundDiv(points * 105, 100)) \in Int
    BY <2>1, ClampInt
  <2>4. Clamp(0, 100, points) \in Int
    BY <2>1, ClampInt
  <2>5. QED
    BY <2>2, <2>3, <2>4
<1>7. d.collateral \in Int
  <2> DEFINE base == CASE p.sector = "rwa" -> 92 [] p.sector = "lending" -> 85
                       [] p.sector = "lrt" -> 78 [] OTHER -> 68
             drawdown == RoundDiv(Abs(p.change7d) * (IF p.sector = "rwa" THEN 6 ELSE 10), 10)
  <2>1. d.collateral = Clamp(0, 100, base - Least(35, drawdown))
    BY DEF ProtocolDimensions
  <2>2. base \in Int /\ drawdown \in Int
    BY <1>2, RoundInt
  <2> HIDE DEF d, base, drawdown
  <2>3. base - Least(35, drawdown) \in Int
    BY <2>2, LeastInt
  <2>4. QED
    BY <2>1, <2>3, ClampInt
<1>8. d.security \in Int
  <2> DEFINE base == (IF p.sector = "rwa" THEN 45 ELSE 40) + (IF NumAudits(p) > 0 THEN 32 ELSE 0)
  <2>1. d.security = Clamp(0, 100, base + Least(28, p.chains * 4))
    BY DEF ProtocolDimensions
  <2>2. base \in Int /\ p.chains * 4 \in Int
    BY <1>1
  <2> HIDE DEF d, base
  <2>3. base + Least(28, p.chains * 4) \in Int
    BY <2>2, <1>1 DEF Least
  <2>4. QED
    BY <2>1, <2>3, ClampInt
<1>9. d.volatility \in Int
  <2>1. d.volatility = Clamp(0, 100, 100 - VolPenalty(p))
    BY DEF ProtocolDimensions
  <2> HIDE DEF d
  <2>2. QED
    BY <1>5, <2>1, ClampInt
<1>10. d.governance \in Int
  <2> DEFINE base == CASE p.sector = "rwa" -> 75 [] p.sector = "lending" -> 55 [] OTHER -> 35
             audited == IF NumAudits(p) > 0 THEN 8 ELSE 0
             age == RoundDiv(AgeMonths(p) * 4, 10)
             size == RoundDiv((50 + Log10(p.tvl)) * 12, 100)
             sum == base + Least(15, p.chains * 3) + Least(15, age) + audited + Least(10, size)
  <2>1. d.governance = Clamp(0, 100, sum)
    BY DEF ProtocolDimensions
  <2>2. base \in Int /\ audited \in Int /\ age \in Int /\ size \in Int /\ p.chains * 3 \in Int
    BY <1>1, <1>3, <1>4, RoundInt
  <2> HIDE DEF d, base, audited, age, size
  <2>3. sum \in Int
    BY <2>2, <1>1 DEF Least
  <2> HIDE DEF sum
  <2>4. QED
    BY <2>1, <2>3, ClampInt
<1>11. d.audit \in Int
  <2> DEFINE base == IF NumAudits(p) > 0 THEN 88 ELSE 32
             age == RoundDiv(AgeMonths(p) * 5, 10)
             sum == base + Least(20, p.chains * 2) + Least(15, age)
  <2>1. d.audit = Least(100, sum)
    BY DEF ProtocolDimensions
  <2>2. base \in Int /\ age \in Int /\ p.chains * 2 \in Int
    BY <1>1, <1>3, RoundInt
  <2> HIDE DEF d, base, age
  <2>3. sum \in Int
    BY <2>2, <1>1 DEF Least
  <2> HIDE DEF sum
  <2>4. QED
    BY <2>1, <2>3, LeastInt
<1> HIDE DEF d
<1>12. \A f \in Names : d[f] \in Int
  BY <1>6, <1>7, <1>8, <1>9, <1>10, <1>11 DEF Names
<1>13. QED
  BY <1>12 DEF IntegerDimensions, d

LEMMA ContractDimensionsInt == \A t \in Telemetries : IntegerDimensions(ContractDimensions(t))
<1> SUFFICES ASSUME NEW t \in Telemetries PROVE IntegerDimensions(ContractDimensions(t))
  OBVIOUS
<1> DEFINE d == ContractDimensions(t)
           points == Log10(Most(10, t.usd + 100))
           size == (Least(t.bytes, 24000) * 50) \div 240
<1>1. t.bytes \in Nat /\ t.txs \in Nat
  BY DEF Telemetries
<1>2. points \in Int /\ Log10(t.txs + 1) \in Int
  BY Log10Int
<1>3. size \in Int
  BY <1>1 DEF Least
<1>4. d.liquidity \in Int
  <2>1. d.liquidity = Clamp(10, 100, RoundDiv(points * 15, 10))
    BY DEF ContractDimensions
  <2>2. RoundDiv(points * 15, 10) \in Int
    BY <1>2, RoundInt
  <2> HIDE DEF d, points
  <2>3. QED
    BY <2>1, <2>2, ClampInt
<1>5. d.collateral \in Int
  <2> DEFINE active == IF t.txs > 50 THEN 20 ELSE 0
  <2>1. d.collateral = Clamp(15, 100, RoundDiv(points * 14, 10) + active)
    BY DEF ContractDimensions
  <2>2. RoundDiv(points * 14, 10) \in Int /\ active \in Int
    BY <1>2, RoundInt
  <2>3. RoundDiv(points * 14, 10) + active \in Int
    BY <2>2
  <2> HIDE DEF d, points, active
  <2>4. QED
    BY <2>1, <2>3, ClampInt
<1>6. d.security \in Int
  <2> DEFINE sum == size + (IF t.txs > 100 THEN 3500 ELSE t.txs * 35)
  <2>1. d.security = Clamp(20, 100, RoundDiv(sum, 100))
    BY SMT DEF ContractDimensions
  <2>2. sum \in Int
    BY <1>1, <1>3
  <2> HIDE DEF d, sum
  <2>3. RoundDiv(sum, 100) \in Int
    BY <2>2, RoundInt
  <2>4. QED
    BY <2>1, <2>3, ClampInt
<1>7. d.audit \in Int
  BY DEF ContractDimensions
<1>8. d.volatility \in Int
  <2> DEFINE activity == RoundDiv(Log10(t.txs + 1) * 18, 10)
  <2>1. d.volatility = Clamp(30, 100, 50 + Least(45, activity))
    BY DEF ContractDimensions
  <2>2. activity \in Int
    BY <1>2, RoundInt
  <2> HIDE DEF d, activity
  <2>3. 50 + Least(45, activity) \in Int
    BY <2>2, LeastInt
  <2>4. QED
    BY <2>1, <2>3, ClampInt
<1>9. d.governance \in Int
  <2> DEFINE sum == RoundDiv(t.bytes * 35, 24000) + (IF t.txs > 200 THEN 20 ELSE 5)
  <2>1. d.governance = Clamp(20, 100, 30 + Least(55, sum))
    BY SMT DEF ContractDimensions
  <2>2. sum \in Int
    BY <1>1, RoundInt, SMT
  <2> HIDE DEF d, sum
  <2>3. 30 + Least(55, sum) \in Int
    BY <2>2, LeastInt
  <2>4. QED
    BY <2>1, <2>3, ClampInt
<1> HIDE DEF d
<1>10. \A f \in Names : d[f] \in Int
  BY <1>4, <1>5, <1>6, <1>7, <1>8, <1>9 DEF Names
<1>11. QED
  BY <1>10 DEF IntegerDimensions, d

LEMMA AccountDimensionsInt == \A t \in Telemetries : IntegerDimensions(AccountDimensions(t))
<1> SUFFICES ASSUME NEW t \in Telemetries PROVE IntegerDimensions(AccountDimensions(t))
  OBVIOUS
<1> DEFINE d == AccountDimensions(t)
           liquidity == Clamp(5, 100, RoundDiv(Log10(t.usd + 1) * 175, 100))
           activity == Clamp(5, 100, RoundDiv(Log10(t.txs + 1) * 315, 100))
           share(n) == RoundDiv(activity * n, 100)
           backing == RoundDiv(liquidity * 65 + activity * 35, 100)
<1>1. liquidity \in Int /\ activity \in Int
  <2>1. Log10(t.usd + 1) * 175 \in Int /\ Log10(t.txs + 1) * 315 \in Int
    BY Log10Int
  <2>2. /\ RoundDiv(Log10(t.usd + 1) * 175, 100) \in Int
        /\ RoundDiv(Log10(t.txs + 1) * 315, 100) \in Int
    BY <2>1, RoundInt
  <2>3. liquidity \in Int
    BY <2>2, ClampInt
  <2>4. activity \in Int
    BY <2>2, ClampInt
  <2>5. QED
    BY <2>3, <2>4
<1>2. d = [liquidity  |-> liquidity,
           collateral |-> Clamp(10, 100, backing),
           security   |-> Clamp(15, 100, 20 + Least(70, share(75))),
           audit      |-> Clamp(10, 100, 15 + Least(60, share(55))),
           volatility |-> Clamp(25, 100, 35 + Least(55, share(55))),
           governance |-> Clamp(15, 100, 20 + Least(60, share(60)))]
  BY DEF AccountDimensions
<1> HIDE DEF d, liquidity, activity
<1>3. share(75) \in Int /\ share(55) \in Int /\ share(60) \in Int /\ backing \in Int
  BY <1>1, RoundInt
<1> HIDE DEF share, backing
<1>4. /\ 20 + Least(70, share(75)) \in Int /\ 15 + Least(60, share(55)) \in Int
      /\ 35 + Least(55, share(55)) \in Int /\ 20 + Least(60, share(60)) \in Int
  BY <1>3 DEF Least
<1>5. /\ d.liquidity \in Int /\ d.collateral \in Int /\ d.security \in Int
      /\ d.audit \in Int /\ d.volatility \in Int /\ d.governance \in Int
  <2>1. Clamp(10, 100, backing) \in Int
    BY <1>3, ClampInt
  <2>2. Clamp(15, 100, 20 + Least(70, share(75))) \in Int
    BY <1>4, ClampInt
  <2>3. Clamp(10, 100, 15 + Least(60, share(55))) \in Int
    BY <1>4, ClampInt
  <2>4. Clamp(25, 100, 35 + Least(55, share(55))) \in Int
    BY <1>4, ClampInt
  <2>5. Clamp(15, 100, 20 + Least(60, share(60))) \in Int
    BY <1>4, ClampInt
  <2>6. QED
    BY <1>1, <1>2, <2>1, <2>2, <2>3, <2>4, <2>5
<1>6. \A f \in Names : d[f] \in Int
  BY <1>5 DEF Names
<1>7. QED
  BY <1>6 DEF IntegerDimensions, d

LEMMA WeightedRawInt ==
  ASSUME NEW d, IntegerDimensions(d), NEW sector \in Sectors \cup {"contract", "account"}
  PROVE  WeightedRaw(sector, d) \in Int
<1>1. /\ d.collateral \in Int /\ d.liquidity \in Int /\ d.security \in Int
      /\ d.audit \in Int /\ d.volatility \in Int /\ d.governance \in Int
  BY DEF IntegerDimensions, Names
<1>2. \A f \in Names : Weights(sector)[f] \in Int
  BY DEF Weights, Names, Sectors
<1>3. QED
  BY <1>1, <1>2 DEF WeightedRaw, Names

-----------------------------------------------------------------------------
(* What each breaker leaves of the weighted score. *)
LEMMA CriticalBound ==
  ASSUME NEW d, IntegerDimensions(d), NEW raw \in Int
  PROVE  /\ CapCritical(d, raw) \in Int
         /\ d.security < 45 \/ d.collateral < 40 => CapCritical(d, raw) <= 5940
<1>1. d.security \in Int /\ d.collateral \in Int /\ d.volatility \in Int
  BY DEF IntegerDimensions, Names
<1>2. HardCap(d) \in Int
  BY <1>1 DEF HardCap, Least, Most
<1>3. d.security < 45 \/ d.collateral < 40 => HardCap(d) <= 5940
  BY <1>1 DEF HardCap, Least, Most
<1>4. QED
  BY <1>1, <1>2, <1>3 DEF CapCritical, Critical, Least

LEMMA FlowBound ==
  ASSUME NEW p \in Protocols, NEW raw \in Int
  PROVE  /\ BreakFlow(p, raw) \in Int /\ BreakFlow(p, raw) <= raw
         /\ Surging(p) => BreakFlow(p, raw) <= 5800
         /\ BankRun(p) => BreakFlow(p, raw) <= 4500
  BY DEF BreakFlow, Least

LEMMA ZeroStateBound ==
  ASSUME NEW t \in Telemetries, NEW raw \in Int
  PROVE  /\ BreakZeroState(t, raw) \in Int
         /\ ZeroState(t) => BreakZeroState(t, raw) <= (IF t.bytes > 0 THEN 2500 ELSE 1800)
  BY DEF BreakZeroState, Least

(* The adjustment that comes last lifts a score by three points at most. *)
LEMMA AdjustmentBound ==
  ASSUME NEW v \in Int, NEW d2 \in Int, NEW cvar \in Int
  PROVE  LET q == QuantAdjustment(MertonDefault(v, 1, 1, d2), cvar) IN q \in Int /\ q <= 3
<1> DEFINE merton == MertonDefault(v, 1, 1, d2)
<1>1. merton.probDefault \in Int /\ merton.distance \in Int
  BY DEF MertonDefault
<1> HIDE DEF merton
<1>2. LET q == QuantAdjustment(merton, cvar) IN q \in Int /\ q <= 3
  BY <1>1 DEF QuantAdjustment
<1>3. QED
  BY <1>2 DEF merton

LEMMA FinalBound ==
  ASSUME NEW raw \in Int, NEW q \in Int, q <= 3
  PROVE  /\ FinalScore(raw, q) \in Int
         /\ raw <= 5940 => FinalScore(raw, q) <= 62
         /\ raw <= 5800 => FinalScore(raw, q) <= 61
         /\ raw <= 4500 => FinalScore(raw, q) <= 48
         /\ raw <= 2500 => FinalScore(raw, q) <= 28
         /\ raw <= 1800 => FinalScore(raw, q) <= 21
<1> DEFINE r == RoundDiv(raw + 100 * q, 100)
<1>1. /\ r \in Int
      /\ raw <= 5940 => r <= 62
      /\ raw <= 5800 => r <= 61
      /\ raw <= 4500 => r <= 48
      /\ raw <= 2500 => r <= 28
      /\ raw <= 1800 => r <= 21
  BY DEF RoundDiv
<1> HIDE DEF r
<1>2. QED
  BY <1>1 DEF FinalScore, Clamp, Most, Least, r

(* The rating a breaker allows, for any data and any adjustment. *)
LEMMA BreakersBound ==
  ASSUME NEW p, p = NoEntry \/ p \in Protocols, NEW t \in Telemetries, NEW q \in Int, q <= 3
  PROVE  LET score == FinalScore(RawScore(p, t), q)
             d == DimensionsOf(p, t)
         IN IF p = NoEntry
              THEN ZeroState(t) => /\ score <= (IF t.bytes > 0 THEN 28 ELSE 21)
                                   /\ Verdict(score) = "C"
              ELSE /\ d.security < 45 \/ d.collateral < 40 =>
                        score <= 62 /\ Verdict(score) \notin {"AAA", "AA"}
                   /\ Surging(p) => score <= 61 /\ Verdict(score) \notin {"AAA", "AA"}
                   /\ BankRun(p) => score <= 48 /\ Verdict(score) \in {"B", "C"}
<1> DEFINE d == DimensionsOf(p, t)
           raw == WeightedRaw(Case(p, t), d)
           score == FinalScore(RawScore(p, t), q)
<1>1. CASE p = NoEntry
  <2>1. IntegerDimensions(d) /\ Case(p, t) \in {"contract", "account"}
    BY <1>1, ContractDimensionsInt, AccountDimensionsInt DEF DimensionsOf, Case
  <2>2. raw \in Int
    BY <2>1, WeightedRawInt
  <2>3. RawScore(p, t) = BreakZeroState(t, raw)
    BY <1>1 DEF RawScore
  <2> HIDE DEF raw, d
  <2>4. /\ RawScore(p, t) \in Int
        /\ ZeroState(t) => RawScore(p, t) <= (IF t.bytes > 0 THEN 2500 ELSE 1800)
    BY <2>2, <2>3, ZeroStateBound
  <2>5. score \in Int /\ (ZeroState(t) => score <= (IF t.bytes > 0 THEN 28 ELSE 21))
    BY <2>4, FinalBound
  <2> HIDE DEF score
  <2>6. ZeroState(t) => Verdict(score) = "C"
    BY <2>5 DEF Verdict
  <2>7. QED
    BY <1>1, <2>5, <2>6 DEF score
<1>2. CASE p # NoEntry
  <2>1. p \in Protocols /\ IntegerDimensions(d) /\ Case(p, t) \in Sectors
    BY <1>2, ProtocolDimensionsInt DEF DimensionsOf, Case, Protocols
  <2>2. raw \in Int
    BY <2>1, WeightedRawInt
  <2>3. RawScore(p, t) = BreakFlow(p, CapCritical(d, raw))
    BY <1>2 DEF RawScore
  <2> HIDE DEF raw, d
  <2> DEFINE capped == CapCritical(d, raw)
  <2>4. capped \in Int /\ (d.security < 45 \/ d.collateral < 40 => capped <= 5940)
    BY <2>1, <2>2, CriticalBound
  <2> HIDE DEF capped
  <2>5. /\ RawScore(p, t) \in Int
        /\ d.security < 45 \/ d.collateral < 40 => RawScore(p, t) <= 5940
        /\ Surging(p) => RawScore(p, t) <= 5800
        /\ BankRun(p) => RawScore(p, t) <= 4500
    <3>1. RawScore(p, t) = BreakFlow(p, capped)
      BY <2>3 DEF capped
    <3>2. QED
      BY <3>1, <2>1, <2>4, FlowBound
  <2>6. /\ score \in Int
        /\ d.security < 45 \/ d.collateral < 40 => score <= 62
        /\ Surging(p) => score <= 61
        /\ BankRun(p) => score <= 48
    BY <2>5, FinalBound
  <2> HIDE DEF score
  <2>7. /\ score <= 62 => Verdict(score) \notin {"AAA", "AA"}
        /\ score <= 61 => Verdict(score) \notin {"AAA", "AA"}
        /\ score <= 48 => Verdict(score) \in {"B", "C"}
    BY <2>6 DEF Verdict
  <2>8. QED
    BY <1>2, <2>6, <2>7 DEF score, d
<1>3. QED
  BY <1>1, <1>2

-----------------------------------------------------------------------------
LEMMA AnalyzeInitInv == AnalyzeInit => AnalyzeInv
  BY DEF AnalyzeInit, AnalyzeInv, ReqFields, Resolved, Inspected, ScoreIsFinal, Rated

(* Addresses are read, and the benchmark and the live figures are data. *)
LEMMA ResolveKeepsInv == AnalyzeInv /\ ResolveProtocol => AnalyzeInv'
<1> SUFFICES ASSUME AnalyzeInv, ResolveProtocol PROVE AnalyzeInv'
  OBVIOUS
<1>1. PICK a \in Addresses : \E p \in IF a.entry = NoEntry THEN {NoEntry}
                ELSE {Benchmark(a.entry)} \cup {Live(a.entry, r) : r \in Replies} :
         req' = [req EXCEPT !.phase = "resolved", !.address = a, !.protocol = p]
  BY DEF ResolveProtocol
<1>2. PICK p \in IF a.entry = NoEntry THEN {NoEntry}
                ELSE {Benchmark(a.entry)} \cup {Live(a.entry, r) : r \in Replies} :
         req' = [req EXCEPT !.phase = "resolved", !.address = a, !.protocol = p]
  BY <1>1
<1>3. p = NoEntry \/ p \in Protocols
  <2>1. CASE a.entry = NoEntry
    BY <2>1
  <2>2. CASE a.entry # NoEntry
    <3>1. a.entry \in CatalogueEntries
      BY <2>2, AnalyzeAssumption
    <3>2. Benchmark(a.entry) \in Protocols
      BY <3>1 DEF Benchmark, CatalogueEntries, Protocols
    <3>3. \A r \in Replies : Live(a.entry, r) \in Protocols
      BY <3>1, AnalyzeAssumption DEF Live, Most, CatalogueEntries, Figures, Protocols
    <3>4. QED
      BY <1>2, <2>2, <3>2, <3>3
  <2>3. QED
    BY <2>1, <2>2
<1>4. req' = [f \in ReqFields |-> req'[f]] /\ req'.phase = "resolved" /\ req'.address = a /\ req'.protocol = p
  BY <1>2 DEF AnalyzeInv, ReqFields
<1>5. QED
  BY <1>1, <1>3, <1>4 DEF AnalyzeInv, Resolved, Inspected, ScoreIsFinal, Rated

LEMMA InspectKeepsInv == AnalyzeInv /\ Inspect => AnalyzeInv'
<1> SUFFICES ASSUME AnalyzeInv, Inspect PROVE AnalyzeInv'
  OBVIOUS
<1>1. PICK lost \in SUBSET Reads :
         req' = [req EXCEPT !.phase = "inspected", !.telemetry = Telemetry(req.address.account, lost)]
  BY DEF Inspect
<1>2. req.address \in Addresses /\ (req.protocol = NoEntry \/ req.protocol \in Protocols)
  BY DEF Inspect, AnalyzeInv, Resolved
<1>3. Telemetry(req.address.account, lost) \in Telemetries
  <2>1. req.address.account \in Accounts
    BY <1>2, AnalyzeAssumption
  <2>2. QED
    BY <2>1 DEF Telemetry, Accounts, Telemetries
<1>4. /\ req' = [f \in ReqFields |-> req'[f]] /\ req'.phase = "inspected"
      /\ req'.address = req.address /\ req'.protocol = req.protocol
      /\ req'.telemetry = Telemetry(req.address.account, lost)
  BY <1>1 DEF AnalyzeInv, ReqFields
<1>5. QED
  BY <1>2, <1>3, <1>4 DEF AnalyzeInv, Resolved, Inspected, ScoreIsFinal, Rated

LEMMA RateKeepsInv == AnalyzeInv /\ Rate => AnalyzeInv'
<1> SUFFICES ASSUME AnalyzeInv, Rate PROVE AnalyzeInv'
  OBVIOUS
<1> DEFINE p == req.protocol
           t == req.telemetry
           quant(d2, cvar) == QuantAdjustment(MertonDefault(AssetValue(p, t), 1, 1, d2), cvar)
<1>1. PICK d2 \in D2s, cvar \in Cvars :
         req' = [req EXCEPT !.phase = "rated", !.breaker = BreakerActive(p, t), !.raw = RawScore(p, t),
                            !.quant = quant(d2, cvar), !.score = FinalScore(RawScore(p, t), quant(d2, cvar))]
  BY DEF Rate
<1>2. req.address \in Addresses /\ (p = NoEntry \/ p \in Protocols) /\ t \in Telemetries
  BY DEF Rate, AnalyzeInv, Resolved, Inspected
<1>3. AssetValue(p, t) \in Int
  BY <1>2 DEF AssetValue, Most, Protocols, Telemetries
<1>4. quant(d2, cvar) \in Int /\ quant(d2, cvar) <= 3
  <2>1. d2 \in Int /\ cvar \in Int
    BY AnalyzeAssumption
  <2>2. QED
    BY <1>3, <2>1, AdjustmentBound
<1> HIDE DEF quant
<1>5. /\ req' = [f \in ReqFields |-> req'[f]] /\ req'.phase = "rated"
      /\ req'.address = req.address /\ req'.protocol = p /\ req'.telemetry = t
      /\ req'.quant = quant(d2, cvar)
      /\ req'.score = FinalScore(RawScore(p, t), quant(d2, cvar))
  BY <1>1 DEF AnalyzeInv, ReqFields
<1>6. QED
  BY <1>2, <1>4, <1>5 DEF AnalyzeInv, Resolved, Inspected, ScoreIsFinal, Rated

LEMMA NarrateKeepsInv == AnalyzeInv /\ Narrate => AnalyzeInv'
<1> SUFFICES ASSUME AnalyzeInv, Narrate PROVE AnalyzeInv'
  OBVIOUS
<1>1. PICK m \in {Memo(req.score), ModelMemo} : req' = [req EXCEPT !.phase = "answered", !.memo = m]
  BY DEF Narrate
<1>2. /\ req' = [f \in ReqFields |-> req'[f]] /\ req'.phase = "answered"
      /\ req'.address = req.address /\ req'.protocol = req.protocol
      /\ req'.telemetry = req.telemetry /\ req'.quant = req.quant /\ req'.score = req.score
  BY <1>1 DEF AnalyzeInv, ReqFields
<1>3. QED
  BY <1>2 DEF Narrate, AnalyzeInv, Resolved, Inspected, ScoreIsFinal, Rated

(* A refusal or a failure ends the request. *)
LEMMA EndKeepsInv == AnalyzeInv /\ (RejectAddress \/ AnalysisFails) => AnalyzeInv'
<1> SUFFICES ASSUME AnalyzeInv, RejectAddress \/ AnalysisFails PROVE AnalyzeInv'
  OBVIOUS
<1>1. req' = [f \in ReqFields |-> req'[f]] /\ req'.phase \in {"refused", "failed"}
  BY DEF RejectAddress, AnalysisFails, AnalyzeInv, ReqFields
<1>2. QED
  BY <1>1 DEF AnalyzeInv, Resolved, Inspected, ScoreIsFinal, Rated

(* Every rating is the final score of what the request was given. *)
THEOREM AnalyzeCorrect == AnalyzeSpec => []AnalyzeInv
<1>1. AnalyzeInv /\ [AnalyzeNext]_req => AnalyzeInv'
  <2> SUFFICES ASSUME AnalyzeInv, [AnalyzeNext]_req PROVE AnalyzeInv'
    OBVIOUS
  <2>1. CASE RejectAddress \/ AnalysisFails
    BY <2>1, EndKeepsInv
  <2>2. CASE ResolveProtocol
    BY <2>2, ResolveKeepsInv
  <2>3. CASE Inspect
    BY <2>3, InspectKeepsInv
  <2>4. CASE Rate
    BY <2>4, RateKeepsInv
  <2>5. CASE Narrate
    BY <2>5, NarrateKeepsInv
  <2>6. CASE UNCHANGED req
    BY <2>6 DEF AnalyzeInv, Resolved, Inspected, ScoreIsFinal, Rated
  <2>7. QED
    BY <2>1, <2>2, <2>3, <2>4, <2>5, <2>6 DEF AnalyzeNext
<1>2. QED
  BY <1>1, AnalyzeInitInv, PTL DEF AnalyzeSpec

(* A tripped circuit breaker holds to the end: whatever the other dimensions say,
   the adjustment that comes last lifts a capped score by three points at most,
   and not into a better tier. *)
THEOREM BreakersAlwaysHold == AnalyzeSpec => []BreakersHold
<1>1. AnalyzeInv => BreakersHold
  <2> SUFFICES ASSUME AnalyzeInv, Rated PROVE BreakersHold
    BY DEF BreakersHold
  <2>1. /\ req.protocol = NoEntry \/ req.protocol \in Protocols
        /\ req.telemetry \in Telemetries
        /\ req.quant \in Int /\ req.quant <= 3
        /\ req.score = FinalScore(RawScore(req.protocol, req.telemetry), req.quant)
    BY DEF AnalyzeInv, Resolved, Inspected, ScoreIsFinal, Rated
  <2>2. QED
    BY <2>1, BreakersBound DEF BreakersHold
<1>2. QED
  BY <1>1, AnalyzeCorrect, PTL

-----------------------------------------------------------------------------
(* Inflow.  What an inflow does to the size of a protocol: the logarithm of the
   TVL grows by ten tenths at most, by five if the TVL grows by a twentieth. *)
Points == Halfway \X Decades
Between(x, y) == {q \in Points : q[1] * q[2] > 100 * x /\ q[1] * q[2] <= 100 * y}

(* Points passed on the way from x to y, n of them at most: each has a rank of
   its own below n. *)
LEMMA Log10Grows ==
  ASSUME NEW x \in Nat, NEW y \in Nat, NEW n \in Nat,
         NEW rank, \A q \in Between(x, y) : rank[q] \in 1..n,
         \A q, r \in Between(x, y) : rank[q] = rank[r] => q = r
  PROVE  Log10(y) <= Log10(x) + n
<1> DEFINE low == {q \in Points : q[1] * q[2] <= 100 * x}
           high == {q \in Points : q[1] * q[2] <= 100 * y}
           new == Between(x, y)
<1>1. IsFiniteSet(Points)
  BY PointsAreFinite, FS_Product DEF Points
<1>2. low \subseteq Points /\ high \subseteq Points /\ new \subseteq Points
  BY DEF Between
<1>3. high \subseteq low \cup new
  <2> SUFFICES ASSUME NEW q \in high, q \notin low PROVE q \in new
    OBVIOUS
  <2>1. q[1] \in Nat /\ q[2] \in Nat
    BY DEF Points, Halfway, Decades
  <2>2. q[1] * q[2] \in Nat
    BY <2>1
  <2>3. QED
    BY <2>2 DEF Between
<1>4. Log10(x) = Cardinality(low) /\ Log10(y) = Cardinality(high)
  BY DEF Log10, Points
<1> HIDE DEF low, high, new
<1>5. IsFiniteSet(low) /\ IsFiniteSet(new)
  BY <1>1, <1>2, FS_Subset
<1>6. Cardinality(new) <= n
  <2> DEFINE place == [q \in new |-> rank[q]]
  <2>1. place \in Injection(new, 1..n)
    BY DEF new, Injection, IsInjective
  <2>2. IsFiniteSet(1..n) /\ Cardinality(1..n) = n
    <3>1. 1 \in Int /\ n \in Int
      OBVIOUS
    <3>2. IsFiniteSet(1..n) /\ Cardinality(1..n) = IF 1 > n THEN 0 ELSE n - 1 + 1
      BY <3>1, FS_Interval
    <3>3. QED
      BY <3>2
  <2> HIDE DEF place
  <2>3. QED
    BY <2>1, <2>2, FS_Injection
<1>7. Cardinality(low \cup new) <= Cardinality(low) + Cardinality(new) /\ IsFiniteSet(low \cup new)
  <2>1. /\ IsFiniteSet(low \cup new)
        /\ Cardinality(low \cup new) = Cardinality(low) + Cardinality(new) - Cardinality(low \cap new)
    BY <1>5, FS_Union
  <2>2. IsFiniteSet(low \cap new)
    BY <1>5, FS_Subset
  <2>3. Cardinality(low) \in Nat /\ Cardinality(new) \in Nat /\ Cardinality(low \cap new) \in Nat
    BY <1>5, <2>2, FS_CardinalityType
  <2>4. QED
    BY <2>1, <2>3
<1>8. Cardinality(high) <= Cardinality(low \cup new)
  BY <1>3, <1>7, FS_Subset
<1>9. Cardinality(high) \in Nat /\ Cardinality(low) \in Nat /\ Cardinality(new) \in Nat
      /\ Cardinality(low \cup new) \in Nat
  <2>1. IsFiniteSet(high)
    BY <1>3, <1>7, FS_Subset
  <2>2. QED
    BY <1>5, <1>7, <2>1, FS_CardinalityType
<1>10. QED
  BY <1>4, <1>6, <1>7, <1>8, <1>9

(* Within a decade no point is passed twice. *)
LEMMA Log10WithinDecade ==
  ASSUME NEW x \in Nat, NEW y \in Nat, y <= 10 * x \/ y <= 10
  PROVE  Log10(y) <= Log10(x) + 10
<1> DEFINE rank == [q \in Points |->
                      CASE q[1] = 112 -> 1 [] q[1] = 141 -> 2 [] q[1] = 178 -> 3 [] q[1] = 224 -> 4
                        [] q[1] = 282 -> 5 [] q[1] = 355 -> 6 [] q[1] = 447 -> 7 [] q[1] = 562 -> 8
                        [] q[1] = 708 -> 9 [] q[1] = 891 -> 10]
<1>1. \A q \in Points : rank[q] \in 1..10
  BY DEF Points, Halfway
<1>2. \A q, r \in Points : rank[q] = rank[r] => q[1] = r[1]
  BY DEF Points, Halfway
<1> HIDE DEF rank
<1>3. ASSUME NEW q \in Between(x, y), NEW r \in Between(x, y), rank[q] = rank[r]
      PROVE  q = r
  <2>1. /\ q \in Points /\ r \in Points /\ q[1] = r[1]
        /\ q[1] * q[2] > 100 * x /\ q[1] * q[2] <= 100 * y
        /\ r[1] * r[2] > 100 * x /\ r[1] * r[2] <= 100 * y
    BY <1>2, <1>3 DEF Between
  <2>2. q[2] \in Decades /\ r[2] \in Decades /\ q[1] \in Halfway /\ q = <<q[1], q[2]>> /\ r = <<r[1], r[2]>>
    BY <2>1 DEF Points
  <2>3. q[1] \in Nat /\ q[1] >= 112 /\ q[2] \in Nat /\ r[2] \in Nat /\ q[2] >= 1 /\ r[2] >= 1
    BY <2>2 DEF Halfway, Decades
  <2>4. ASSUME NEW h \in Nat, h >= 112, NEW d \in Decades, NEW e \in Decades, d < e,
               h * d > 100 * x, h * e <= 100 * y
        PROVE  FALSE
    <3>1. d \in Nat /\ e \in Nat /\ d >= 1 /\ e >= 10 * d
      BY <2>4 DEF Decades
    <3>2. h * e >= h * (10 * d) /\ h * d >= h /\ h * e \in Nat /\ h * d \in Nat
          /\ h * (10 * d) = 10 * (h * d)
      BY <2>4, <3>1
    <3>3. QED
      BY <2>4, <3>2
  <2>5. ~(q[2] < r[2]) /\ ~(r[2] < q[2])
    BY <2>1, <2>2, <2>3, <2>4
  <2>6. QED
    BY <2>1, <2>2, <2>3, <2>5
<1>4. QED
  BY <1>1, <1>3, Log10Grows DEF Between

(* Nor, within a doubling, two of a pair that lie farther apart. *)
LEMMA Log10WithinDoubling ==
  ASSUME NEW x \in Nat, NEW y \in Nat, y <= 2 * x \/ y <= 1
  PROVE  Log10(y) <= Log10(x) + 5
<1> DEFINE rank == [q \in Points |->
                      CASE q[1] \in {112, 355} -> 1 [] q[1] \in {141, 447} -> 2
                        [] q[1] \in {178, 562} -> 3 [] q[1] \in {224, 708} -> 4
                        [] q[1] \in {282, 891} -> 5]
           Apart(a, b) == a = b \/ 2 * a <= b \/ 2 * b <= a
<1>1. \A q \in Points : rank[q] \in 1..5
  BY DEF Points, Halfway
<1>2. ASSUME NEW q \in Points, NEW r \in Points, rank[q] = rank[r]
      PROVE  \/ q[1] = r[1]
             \/ q[1] \in {112, 355} /\ r[1] \in {112, 355}
             \/ q[1] \in {141, 447} /\ r[1] \in {141, 447}
             \/ q[1] \in {178, 562} /\ r[1] \in {178, 562}
             \/ q[1] \in {224, 708} /\ r[1] \in {224, 708}
             \/ q[1] \in {282, 891} /\ r[1] \in {282, 891}
  BY <1>2 DEF Points, Halfway
<1> HIDE DEF rank
<1>3. ASSUME NEW q \in Between(x, y), NEW r \in Between(x, y), rank[q] = rank[r]
      PROVE  q = r
  <2>1. /\ q \in Points /\ r \in Points
        /\ q[1] * q[2] > 100 * x /\ q[1] * q[2] <= 100 * y
        /\ r[1] * r[2] > 100 * x /\ r[1] * r[2] <= 100 * y
    BY <1>3 DEF Between
  <2>2. q[2] \in Decades /\ r[2] \in Decades /\ q[1] \in Halfway /\ r[1] \in Halfway
        /\ q = <<q[1], q[2]>> /\ r = <<r[1], r[2]>>
    BY <2>1 DEF Points
  <2>3. ~(2 * (q[1] * q[2]) <= r[1] * r[2]) /\ ~(2 * (r[1] * r[2]) <= q[1] * q[2])
    <3>1. \A h \in Halfway, d \in Decades : h * d \in Nat /\ h * d > 100
      BY DEF Halfway, Decades
    <3>2. /\ q[1] * q[2] \in Nat /\ r[1] * r[2] \in Nat
          /\ q[1] * q[2] > 100 /\ r[1] * r[2] > 100
      BY <2>2, <3>1
    <3>3. QED
      BY <2>1, <3>2
  <2>4. ASSUME NEW h \in Halfway, NEW d \in Decades, NEW e \in Decades
        PROVE  d = e \/ 2 * (h * d) <= h * e \/ 2 * (h * e) <= h * d
    BY <2>4 DEF Halfway, Decades
  <2>5. ASSUME NEW h \in {112, 355}, NEW g \in {112, 355}, NEW d \in Decades, NEW e \in Decades
        PROVE  (h = g /\ d = e) \/ 2 * (h * d) <= g * e \/ 2 * (g * e) <= h * d
    BY <2>5 DEF Decades
  <2>6. ASSUME NEW h \in {141, 447}, NEW g \in {141, 447}, NEW d \in Decades, NEW e \in Decades
        PROVE  (h = g /\ d = e) \/ 2 * (h * d) <= g * e \/ 2 * (g * e) <= h * d
    BY <2>6 DEF Decades
  <2>7. ASSUME NEW h \in {178, 562}, NEW g \in {178, 562}, NEW d \in Decades, NEW e \in Decades
        PROVE  (h = g /\ d = e) \/ 2 * (h * d) <= g * e \/ 2 * (g * e) <= h * d
    BY <2>7 DEF Decades
  <2>8. ASSUME NEW h \in {224, 708}, NEW g \in {224, 708}, NEW d \in Decades, NEW e \in Decades
        PROVE  (h = g /\ d = e) \/ 2 * (h * d) <= g * e \/ 2 * (g * e) <= h * d
    BY <2>8 DEF Decades
  <2>9. ASSUME NEW h \in {282, 891}, NEW g \in {282, 891}, NEW d \in Decades, NEW e \in Decades
        PROVE  (h = g /\ d = e) \/ 2 * (h * d) <= g * e \/ 2 * (g * e) <= h * d
    BY <2>9 DEF Decades
  <2>10. q[1] = r[1] /\ q[2] = r[2]
    <3>1. CASE q[1] = r[1]
      BY <3>1, <2>2, <2>3, <2>4
    <3>2. CASE q[1] \in {112, 355} /\ r[1] \in {112, 355}
      BY <3>2, <2>2, <2>3, <2>5
    <3>3. CASE q[1] \in {141, 447} /\ r[1] \in {141, 447}
      BY <3>3, <2>2, <2>3, <2>6
    <3>4. CASE q[1] \in {178, 562} /\ r[1] \in {178, 562}
      BY <3>4, <2>2, <2>3, <2>7
    <3>5. CASE q[1] \in {224, 708} /\ r[1] \in {224, 708}
      BY <3>5, <2>2, <2>3, <2>8
    <3>6. CASE q[1] \in {282, 891} /\ r[1] \in {282, 891}
      BY <3>6, <2>2, <2>3, <2>9
    <3>7. QED
      BY <3>1, <3>2, <3>3, <3>4, <3>5, <3>6, <1>2, <1>3, <2>1
  <2>11. QED
    BY <2>2, <2>10
<1>4. QED
  BY <1>1, <1>3, Log10Grows DEF Between

(* There is a root within the bounds for every age. *)
LEMMA LindyNat == \A age \in Nat : LindySeasoning(age) \in Nat
<1> SUFFICES ASSUME NEW age \in Nat PROVE LindySeasoning(age) \in Nat
  OBVIOUS
<1> DEFINE share == Least(age, 90) * 1000000
           T == {m \in 250..1000 : m = 1000 \/ (m + 1) * (m + 1) * 90 > share}
<1>1. share \in Nat
  BY SMT DEF Least
<1> HIDE DEF share
<1>2. PICK m \in T : \A i \in T : m <= i
  <2>1. T \subseteq Nat /\ 1000 \in T
    OBVIOUS
  <2> HIDE DEF T
  <2>2. T # {}
    BY <2>1
  <2>3. QED
    BY <2>1, <2>2, LeastExists, ZenonT(30)
<1>3. m = 250 \/ m * m * 90 <= share
  <2> SUFFICES ASSUME m # 250 PROVE m * m * 90 <= share
    OBVIOUS
  <2>1. m \in 251..1000
    BY <1>2
  <2>2. m - 1 \in 250..1000 /\ m - 1 \notin T
    BY <1>2, <2>1
  <2>3. ~(m * m * 90 > share)
    <3>1. (m - 1) + 1 = m
      BY <2>1
    <3>2. QED
      BY <2>2, <3>1
  <2>4. m * m * 90 \in Int
    BY <2>1
  <2>5. QED
    BY <1>1, <2>3, <2>4
<1> DEFINE Root(l) == /\ l = 250 \/ l * l * 90 <= share
                      /\ l = 1000 \/ (l + 1) * (l + 1) * 90 > share
<1>4. m \in 250..1000 /\ Root(m)
  BY <1>2, <1>3
<1>5. LindySeasoning(age) = CHOOSE l \in 250..1000 : Root(l)
  BY SMT DEF LindySeasoning, share
<1> HIDE DEF Root
<1> DEFINE Shares == 250..1000
<1>6. LindySeasoning(age) \in Shares
  <2>1. m \in Shares /\ LindySeasoning(age) = CHOOSE l \in Shares : Root(l)
    BY <1>4, <1>5
  <2> HIDE DEF Shares
  <2>2. (CHOOSE l \in Shares : Root(l)) \in Shares
    BY <1>4, <2>1, Zenon
  <2>3. QED
    BY <2>1, <2>2
<1> HIDE DEF T
<1>7. QED
  BY <1>6

(* What arrives of an inflow of s percent, once weighed and damped. *)
LEMMA DampedInflow ==
  ASSUME NEW tvl \in Nat, NEW share \in Nat, NEW s \in Nat, NEW damping \in Nat, damping >= 1000
  PROVE  LET x == (tvl * share) \div 1000
             y == (((tvl * (100 + s)) \div 100) * share) \div damping
         IN x \in Nat /\ y \in Nat /\ 100 * y < (100 + s) * (x + 1)
<1> DEFINE grown == (tvl * (100 + s)) \div 100
           u == tvl * share
           v == grown * share
           x == u \div 1000
           y == v \div damping
<1>1. tvl * (100 + s) \in Nat /\ grown \in Nat /\ 100 * grown <= tvl * (100 + s)
  <2>1. tvl * (100 + s) \in Nat
    OBVIOUS
  <2> DEFINE w == tvl * (100 + s)
  <2>2. grown = w \div 100
    OBVIOUS
  <2> HIDE DEF w, grown
  <2>3. w \in Nat
    BY <2>1 DEF w
  <2>4. grown \in Nat /\ 100 * grown <= w
    BY <2>2, <2>3
  <2>5. QED
    BY <2>3, <2>4 DEF w
<1> HIDE DEF grown
<1>2. u \in Nat /\ v \in Nat
  BY <1>1
<1>3. 100 * v <= u * (100 + s)
  <2>1. (100 * grown) * share <= (tvl * (100 + s)) * share
    BY <1>1
  <2>2. (100 * grown) * share = 100 * v /\ (tvl * (100 + s)) * share = u * (100 + s)
    BY <1>1
  <2>3. QED
    BY <2>1, <2>2
<1> HIDE DEF u, v
<1>4. x \in Nat /\ 1000 * (x + 1) > u
  BY <1>2
<1>5. y \in Nat /\ 1000 * y <= v
  <2>1. y \in Nat /\ damping * y <= v
    BY <1>2
  <2>2. 1000 * y <= damping * y
    BY <2>1
  <2>3. damping * y \in Nat
    BY <2>1
  <2>4. QED
    BY <1>2, <2>1, <2>2, <2>3
<1> HIDE DEF x, y
<1>6. u * (100 + s) < (1000 * (x + 1)) * (100 + s)
  BY <1>2, <1>4
<1>7. 100 * (1000 * y) < (1000 * (x + 1)) * (100 + s)
  <2>1. u * (100 + s) \in Nat /\ (1000 * (x + 1)) * (100 + s) \in Nat
    BY <1>2, <1>4
  <2>2. QED
    BY <1>2, <1>3, <1>5, <1>6, <2>1
<1>8. 100 * y < (100 + s) * (x + 1)
  <2> DEFINE z == (100 + s) * (x + 1)
  <2>1. (1000 * (x + 1)) * (100 + s) = 1000 * z /\ z \in Nat
    BY <1>4
  <2> HIDE DEF z
  <2>2. 100 * y < z
    BY <1>5, <1>7, <2>1
  <2>3. QED
    BY <2>2 DEF z
<1>9. QED
  BY <1>4, <1>5, <1>8 DEF x, y, u, v, grown

(* Ten tenths of a decade at most, five for a twentieth. *)
LEMMA InflowLogs ==
  ASSUME NEW x \in Nat, NEW y \in Nat, NEW s \in Inflows, 100 * y < (100 + s) * (x + 1)
  PROVE  /\ Log10(y) <= Log10(x) + 10
         /\ s = 5 => Log10(y) <= Log10(x) + 5
<1>1. y <= 10 * x \/ y <= 10
  <2>1. 100 * y < 420 * (x + 1)
    BY DEF Inflows
  <2>2. QED
    BY <2>1
<1>2. s = 5 => y <= 2 * x \/ y <= 1
  OBVIOUS
<1>3. QED
  BY <1>1, <1>2, Log10WithinDecade, Log10WithinDoubling

(* The protocol after the inflow is a protocol. *)
LEMMA PumpedIs ==
  ASSUME NEW p \in Protocols, NEW s \in Inflows, Quiet(p)
  PROVE  /\ s \in Nat /\ s >= 5 /\ Pumped(p, s) \in Protocols
         /\ p.tvl \in Nat /\ p.change1d \in 0..5 /\ p.change7d \in 0..10
         /\ Pumped(p, s).sector = p.sector /\ Pumped(p, s).ageDays = p.ageDays
         /\ Pumped(p, s).audits = p.audits /\ Pumped(p, s).chains = p.chains
         /\ Pumped(p, s).tvl = (p.tvl * (100 + s)) \div 100
         /\ Pumped(p, s).change1d = p.change1d + s /\ Pumped(p, s).change7d = p.change7d + s
<1>1. s \in Nat /\ s >= 5
  BY DEF Inflows
<1>2. p.tvl \in Nat /\ p.change1d \in 0..5 /\ p.change7d \in 0..10
  BY DEF Protocols, Quiet
<1>3. (p.tvl * (100 + s)) \div 100 \in Nat
  <2>1. p.tvl * (100 + s) \in Nat
    BY <1>1, <1>2
  <2>2. QED
    BY <2>1
<1>4. p.change1d + s \in Int /\ p.change7d + s \in Int
  BY <1>1, <1>2
<1>5. QED
  BY <1>1, <1>2, <1>3, <1>4 DEF Pumped, Protocols

(* A quiet protocol is not damped, so the inflow counts at most in full. *)
LEMMA PumpedSize ==
  ASSUME NEW p \in Protocols, NEW s \in Inflows, Quiet(p)
  PROVE  LET r == Pumped(p, s) IN
         /\ Log10(EffectiveTvl(r)) <= Log10(EffectiveTvl(p)) + 10
         /\ s = 5 => Log10(EffectiveTvl(r)) <= Log10(EffectiveTvl(p)) + 5
         /\ Log10(r.tvl) <= Log10(p.tvl) + 10
         /\ s = 5 => Log10(r.tvl) <= Log10(p.tvl) + 5
<1> DEFINE r == Pumped(p, s)
           share == LindySeasoning(p.ageDays)
<1>1. /\ s \in Nat /\ s >= 5 /\ r \in Protocols
      /\ p.tvl \in Nat /\ p.change1d \in 0..5 /\ p.change7d \in 0..10
      /\ r.ageDays = p.ageDays /\ r.tvl = (p.tvl * (100 + s)) \div 100
      /\ r.change1d = p.change1d + s /\ r.change7d = p.change7d + s
  BY PumpedIs
<1>2. share \in Nat
  BY LindyNat DEF Protocols
<1> HIDE DEF r, share
<1>3. SpikeDamping(p) = 1000
  BY <1>1 DEF SpikeDamping, Most
<1>4. SpikeDamping(r) \in Nat /\ SpikeDamping(r) >= 1000
  BY <1>1 DEF SpikeDamping, Most
<1>5. /\ EffectiveTvl(p) = (p.tvl * share) \div 1000
      /\ EffectiveTvl(r) = (((p.tvl * (100 + s)) \div 100) * share) \div SpikeDamping(r)
  BY <1>1, <1>3 DEF EffectiveTvl, share
<1>6. /\ EffectiveTvl(p) \in Nat /\ EffectiveTvl(r) \in Nat
      /\ 100 * EffectiveTvl(r) < (100 + s) * (EffectiveTvl(p) + 1)
  BY <1>1, <1>2, <1>4, <1>5, DampedInflow
<1>7. r.tvl \in Nat /\ 100 * r.tvl < (100 + s) * (p.tvl + 1)
  <2>1. p.tvl * (100 + s) \in Nat /\ (100 + s) * (p.tvl + 1) = p.tvl * (100 + s) + (100 + s)
    BY <1>1
  <2> DEFINE w == p.tvl * (100 + s)
  <2>2. w \in Nat /\ r.tvl = w \div 100
    BY <1>1, <2>1
  <2> HIDE DEF w
  <2>3. r.tvl \in Nat /\ 100 * r.tvl <= w
    BY <2>2
  <2>4. QED
    BY <1>1, <2>1, <2>3 DEF w
<1>8. QED
  BY <1>1, <1>6, <1>7, InflowLogs DEF r

(* Rounding and clamping keep the order, and a clamp no more than the distance. *)
LEMMA RoundGrows ==
  ASSUME NEW x \in Int, NEW y \in Int, x <= y
  PROVE  RoundDiv(x, 10) <= RoundDiv(y, 10) /\ RoundDiv(x, 100) <= RoundDiv(y, 100)
  BY DEF RoundDiv

LEMMA ClampGrows ==
  ASSUME NEW x \in Int, NEW y \in Int, NEW n \in Nat, y <= x + n
  PROVE  /\ Clamp(0, 100, x) \in Int /\ Clamp(0, 100, y) \in Int
         /\ Clamp(0, 100, y) <= Clamp(0, 100, x) + n
         /\ Clamp(20, 100, x) \in Int /\ Clamp(20, 100, y) \in Int
         /\ Clamp(20, 100, y) <= Clamp(20, 100, x) + n
  BY DEF Clamp, Most, Least

(* The dimensions after the inflow: volatility falls in any case, ... *)
LEMMA InflowVolatility ==
  ASSUME NEW p \in Protocols, NEW s \in Inflows, Quiet(p)
  PROVE  LET d == ProtocolDimensions(p)
             e == ProtocolDimensions(Pumped(p, s))
             rwa == p.sector = "rwa"
         IN d.volatility - e.volatility >= IF s = 5 THEN IF rwa THEN 11 ELSE 22
                                           ELSE IF rwa THEN 46 ELSE 70
<1> DEFINE r == Pumped(p, s)
           one == p.change1d
           seven == p.change7d
           rwa == p.sector = "rwa"
           pen(a, b) == RoundDiv(a * (IF rwa THEN 15 ELSE 30), 10) + RoundDiv(b * (IF rwa THEN 8 ELSE 15), 10)
<1>1. /\ s \in Nat /\ s >= 5 /\ one \in 0..5 /\ seven \in 0..10 /\ r.sector = p.sector
      /\ r.change1d = one + s /\ r.change7d = seven + s
  BY PumpedIs
<1>2. s = 5 \/ s >= 20
  BY DEF Inflows
<1>3. /\ ProtocolDimensions(p).volatility = Clamp(0, 100, 100 - VolPenalty(p))
      /\ ProtocolDimensions(r).volatility = Clamp(0, 100, 100 - VolPenalty(r))
  BY DEF ProtocolDimensions
<1> HIDE DEF r
<1>4. VolPenalty(p) = pen(one, seven)
  <2>1. Abs(one) = one /\ Abs(seven) = seven /\ Abs(one - seven) <= 80 /\ Abs(one - seven) \in Int
    BY <1>1 DEF Abs
  <2>2. pen(one, seven) \in Int
    BY <1>1, RoundInt
  <2>3. QED
    BY <2>1, <2>2 DEF VolPenalty
<1>5. VolPenalty(r) = pen(one + s, seven + s)
  <2>1. /\ Abs(one + s) = one + s /\ Abs(seven + s) = seven + s
        /\ Abs((one + s) - (seven + s)) <= 80 /\ Abs((one + s) - (seven + s)) \in Int
    BY <1>1 DEF Abs
  <2>2. pen(one + s, seven + s) \in Int
    BY <1>1, RoundInt
  <2>3. QED
    BY <1>1, <2>1, <2>2 DEF VolPenalty
<1>6. CASE rwa
  <2>1. pen(one, seven) \in 0..16
    BY <1>1, <1>6 DEF RoundDiv
  <2>2. pen(one + s, seven + s) \in Int
        /\ pen(one + s, seven + s) >= pen(one, seven) + (IF s = 5 THEN 11 ELSE 46)
    BY <1>1, <1>2, <1>6 DEF RoundDiv
  <2> HIDE DEF pen
  <2>3. QED
    BY <1>2, <1>3, <1>4, <1>5, <1>6, <2>1, <2>2 DEF Clamp, Most, Least, r
<1>7. CASE ~rwa
  <2>1. pen(one, seven) \in 0..30
    BY <1>1, <1>7 DEF RoundDiv
  <2>2. pen(one + s, seven + s) \in Int
        /\ pen(one + s, seven + s) >= pen(one, seven) + (IF s = 5 THEN 22 ELSE 70)
    BY <1>1, <1>2, <1>7 DEF RoundDiv
  <2> HIDE DEF pen
  <2>3. QED
    BY <1>2, <1>3, <1>4, <1>5, <1>7, <2>1, <2>2 DEF Clamp, Most, Least, r
<1>8. QED
  BY <1>6, <1>7

(* ... security and audit stay, collateral does not rise, ... *)
LEMMA InflowSafety ==
  ASSUME NEW p \in Protocols, NEW s \in Inflows, Quiet(p)
  PROVE  LET d == ProtocolDimensions(p)
             e == ProtocolDimensions(Pumped(p, s))
         IN e.security = d.security /\ e.audit = d.audit /\ e.collateral <= d.collateral
<1> DEFINE r == Pumped(p, s)
           d == ProtocolDimensions(p)
           e == ProtocolDimensions(r)
<1>1. /\ s \in Nat /\ s >= 5 /\ p.change7d \in 0..10
      /\ r.sector = p.sector /\ r.ageDays = p.ageDays /\ r.audits = p.audits /\ r.chains = p.chains
      /\ r.change7d = p.change7d + s
  BY PumpedIs
<1> HIDE DEF r
<1>2. e.security = d.security
  BY <1>1 DEF ProtocolDimensions, NumAudits
<1>3. e.audit = d.audit
  BY <1>1 DEF ProtocolDimensions, NumAudits, AgeMonths
<1>4. e.collateral <= d.collateral
  <2> DEFINE base == CASE p.sector = "rwa" -> 92 [] p.sector = "lending" -> 85
                       [] p.sector = "lrt" -> 78 [] OTHER -> 68
             fall(c) == RoundDiv(Abs(c) * (IF p.sector = "rwa" THEN 6 ELSE 10), 10)
  <2>1. d.collateral = Clamp(0, 100, base - Least(35, fall(p.change7d)))
    BY DEF ProtocolDimensions
  <2>2. e.collateral = Clamp(0, 100, base - Least(35, fall(p.change7d + s)))
    BY <1>1 DEF ProtocolDimensions
  <2>3. fall(p.change7d) \in Int /\ fall(p.change7d + s) \in Int /\ fall(p.change7d) <= fall(p.change7d + s)
    BY <1>1 DEF Abs, RoundDiv
  <2>4. base \in Int
    OBVIOUS
  <2> HIDE DEF d, e, base, fall
  <2> DEFINE x == base - Least(35, fall(p.change7d))
             y == base - Least(35, fall(p.change7d + s))
  <2>5. x \in Int /\ y \in Int /\ y <= x
    BY <2>3, <2>4 DEF Least
  <2> HIDE DEF x, y
  <2>6. Clamp(0, 100, y) <= Clamp(0, 100, x)
    BY <2>5 DEF Clamp, Most, Least
  <2>7. QED
    BY <2>1, <2>2, <2>6 DEF x, y
<1>5. QED
  BY <1>2, <1>3, <1>4 DEF r

(* ... liquidity rises with the logarithm of what is left after the damping, ... *)
LEMMA InflowLiquidity ==
  ASSUME NEW p \in Protocols, NEW s \in Inflows, Quiet(p)
  PROVE  LET d == ProtocolDimensions(p)
             e == ProtocolDimensions(Pumped(p, s))
             rwa == p.sector = "rwa"
         IN e.liquidity - d.liquidity <= IF s = 5 THEN IF rwa THEN 6 ELSE 5
                                         ELSE IF rwa THEN 11 ELSE 10
<1> DEFINE r == Pumped(p, s)
           d == ProtocolDimensions(p)
           e == ProtocolDimensions(r)
           x == 50 + Log10(EffectiveTvl(p))
           y == 50 + Log10(EffectiveTvl(r))
           n == IF s = 5 THEN 5 ELSE 10
           rwa == p.sector = "rwa"
<1>1. r.sector = p.sector
  BY PumpedIs
<1>2. x \in Int /\ y \in Int /\ y <= x + n
  BY PumpedSize, Log10Int
<1>3. d.liquidity = IF rwa THEN Clamp(20, 100, RoundDiv(x * 105, 100)) ELSE Clamp(0, 100, x)
  BY DEF ProtocolDimensions
<1>4. e.liquidity = IF rwa THEN Clamp(20, 100, RoundDiv(y * 105, 100)) ELSE Clamp(0, 100, y)
  BY <1>1 DEF ProtocolDimensions
<1> HIDE DEF r, d, e, x, y
<1>5. CASE rwa
  <2> DEFINE u == RoundDiv(x * 105, 100)
             v == RoundDiv(y * 105, 100)
             m == n + 1
  <2>1. u \in Int /\ v \in Int /\ m \in Nat /\ v <= u + m
    BY <1>2 DEF RoundDiv
  <2> HIDE DEF u, v, m
  <2>2. /\ Clamp(20, 100, u) \in Int /\ Clamp(20, 100, v) \in Int
        /\ Clamp(20, 100, v) <= Clamp(20, 100, u) + m
    BY <2>1, ClampGrows
  <2>3. QED
    BY <1>3, <1>4, <1>5, <2>2 DEF u, v, m, d, e, r
<1>6. CASE ~rwa
  <2>1. n \in Nat
    OBVIOUS
  <2> HIDE DEF n
  <2>2. /\ Clamp(0, 100, x) \in Int /\ Clamp(0, 100, y) \in Int
        /\ Clamp(0, 100, y) <= Clamp(0, 100, x) + n
    BY <1>2, <2>1, ClampGrows
  <2>3. QED
    BY <1>3, <1>4, <1>6, <2>2 DEF n, d, e, r
<1>7. QED
  BY <1>5, <1>6

(* ... and governance by a point for each eight tenths. *)
LEMMA InflowGovernance ==
  ASSUME NEW p \in Protocols, NEW s \in Inflows, Quiet(p)
  PROVE  LET d == ProtocolDimensions(p)
             e == ProtocolDimensions(Pumped(p, s))
         IN e.governance - d.governance <= IF s = 5 THEN 1 ELSE 2
<1> DEFINE r == Pumped(p, s)
           base == CASE p.sector = "rwa" -> 75 [] p.sector = "lending" -> 55 [] OTHER -> 35
           audited == IF NumAudits(p) > 0 THEN 8 ELSE 0
           age == RoundDiv(AgeMonths(p) * 4, 10)
           rest == base + Least(15, p.chains * 3) + Least(15, age) + audited
           x == RoundDiv((50 + Log10(p.tvl)) * 12, 100)
           y == RoundDiv((50 + Log10(r.tvl)) * 12, 100)
           n == IF s = 5 THEN 1 ELSE 2
<1>1. r.sector = p.sector /\ r.ageDays = p.ageDays /\ r.audits = p.audits /\ r.chains = p.chains
  BY PumpedIs
<1>2. x \in Int /\ y \in Int /\ y <= x + n
  <2>1. /\ Log10(p.tvl) \in Int /\ Log10(r.tvl) \in Int
        /\ Log10(r.tvl) <= Log10(p.tvl) + (IF s = 5 THEN 5 ELSE 10)
    BY PumpedSize, Log10Int
  <2> HIDE DEF r
  <2>2. QED
    BY <2>1 DEF RoundDiv
<1>3. ProtocolDimensions(p).governance = Clamp(0, 100, rest + Least(10, x))
  BY DEF ProtocolDimensions
<1>4. ProtocolDimensions(r).governance = Clamp(0, 100, rest + Least(10, y))
  <2> HIDE DEF r
  <2>1. NumAudits(r) = NumAudits(p) /\ AgeMonths(r) = AgeMonths(p)
    BY <1>1 DEF NumAudits, AgeMonths
  <2>2. QED
    BY <1>1, <2>1 DEF ProtocolDimensions, r
<1>5. rest \in Int
  <2>1. base \in Int /\ audited \in Int /\ p.chains * 3 \in Int
    BY DEF Protocols
  <2>2. age \in Int
    <3>1. AgeMonths(p) \in Int
      BY DEF AgeMonths, Protocols
    <3>2. QED
      BY <3>1, RoundInt
  <2> HIDE DEF base, audited, age
  <2>3. QED
    BY <2>1, <2>2 DEF Least, Protocols
<1> HIDE DEF r, x, y, rest
<1> DEFINE u == rest + Least(10, x)
           v == rest + Least(10, y)
<1>6. u \in Int /\ v \in Int /\ n \in Nat /\ v <= u + n
  BY <1>2, <1>5 DEF Least
<1> HIDE DEF u, v, n
<1>7. Clamp(0, 100, u) \in Int /\ Clamp(0, 100, v) \in Int /\ Clamp(0, 100, v) <= Clamp(0, 100, u) + n
  BY <1>6, ClampGrows
<1>8. QED
  BY <1>3, <1>4, <1>7 DEF u, v, n, r

(* In every sector the penalty for the change outweighs what the size adds. *)
LEMMA InflowWeighsLess ==
  ASSUME NEW p \in Protocols, NEW s \in Inflows, Quiet(p)
  PROVE  WeightedRaw(p.sector, ProtocolDimensions(Pumped(p, s)))
           <= WeightedRaw(p.sector, ProtocolDimensions(p))
<1> DEFINE d == ProtocolDimensions(p)
           e == ProtocolDimensions(Pumped(p, s))
           rwa == p.sector = "rwa"
<1>1. /\ d.collateral \in Int /\ d.liquidity \in Int /\ d.security \in Int
      /\ d.audit \in Int /\ d.volatility \in Int /\ d.governance \in Int
  BY ProtocolDimensionsInt DEF IntegerDimensions, Names
<1>2. /\ e.collateral \in Int /\ e.liquidity \in Int /\ e.security \in Int
      /\ e.audit \in Int /\ e.volatility \in Int /\ e.governance \in Int
  BY PumpedIs, ProtocolDimensionsInt DEF IntegerDimensions, Names
<1>3. e.security = d.security /\ e.audit = d.audit /\ e.collateral <= d.collateral
  BY InflowSafety
<1>4. e.liquidity - d.liquidity <= IF s = 5 THEN IF rwa THEN 6 ELSE 5 ELSE IF rwa THEN 11 ELSE 10
  BY InflowLiquidity
<1>5. e.governance - d.governance <= IF s = 5 THEN 1 ELSE 2
  BY InflowGovernance
<1>6. d.volatility - e.volatility >= IF s = 5 THEN IF rwa THEN 11 ELSE 22 ELSE IF rwa THEN 46 ELSE 70
  BY InflowVolatility
<1> HIDE DEF d, e
<1>7. CASE p.sector = "rwa"
  BY <1>1, <1>2, <1>3, <1>4, <1>5, <1>6, <1>7 DEF WeightedRaw, Weights, d, e
<1>8. CASE p.sector = "lrt"
  BY <1>1, <1>2, <1>3, <1>4, <1>5, <1>6, <1>8 DEF WeightedRaw, Weights, d, e
<1>9. CASE p.sector = "lending"
  BY <1>1, <1>2, <1>3, <1>4, <1>5, <1>6, <1>9 DEF WeightedRaw, Weights, d, e
<1>10. CASE p.sector = "other"
  BY <1>1, <1>2, <1>3, <1>4, <1>5, <1>6, <1>10 DEF WeightedRaw, Weights, d, e
<1>11. p.sector \in {"rwa", "lrt", "lending", "other"}
  BY DEF Protocols, Sectors
<1>12. QED
  BY <1>7, <1>8, <1>9, <1>10, <1>11 DEF d, e

(* Nor does a breaker lift what it did not lift before: the inflow trips those
   that were tripped, and caps them lower. *)
LEMMA CapsFollow ==
  ASSUME NEW d, IntegerDimensions(d), NEW e, IntegerDimensions(e),
         NEW raw \in Int, NEW low \in Int, low <= raw,
         e.security = d.security, e.collateral <= d.collateral, e.volatility <= d.volatility
  PROVE  CapCritical(e, low) <= CapCritical(d, raw)
<1>1. /\ d.security \in Int /\ d.collateral \in Int /\ d.volatility \in Int
      /\ e.security \in Int /\ e.collateral \in Int /\ e.volatility \in Int
  BY DEF IntegerDimensions, Names
<1>2. Critical(d) => Critical(e)
  BY <1>1 DEF Critical
<1>3. HardCap(d) \in Int /\ HardCap(e) \in Int /\ HardCap(e) <= HardCap(d)
  BY <1>1 DEF HardCap, Least, Most
<1>4. QED
  BY <1>2, <1>3 DEF CapCritical, Least

(* So the weighted score after every breaker is no higher, *)
LEMMA InflowRaw ==
  ASSUME NEW p \in Protocols, NEW s \in Inflows, Quiet(p), NEW t
  PROVE  /\ RawScore(p, t) \in Int /\ RawScore(Pumped(p, s), t) \in Int
         /\ RawScore(Pumped(p, s), t) <= RawScore(p, t)
<1> DEFINE r == Pumped(p, s)
           d == ProtocolDimensions(p)
           e == ProtocolDimensions(r)
           raw == WeightedRaw(p.sector, d)
           low == WeightedRaw(p.sector, e)
<1>1. r \in Protocols /\ r.sector = p.sector /\ r # NoEntry /\ p # NoEntry
      /\ s \in Nat /\ p.change1d \in 0..5 /\ p.change7d \in 0..10
      /\ r.change1d = p.change1d + s /\ r.change7d = p.change7d + s
  BY PumpedIs, AnalyzeAssumption
<1>2. IntegerDimensions(d) /\ IntegerDimensions(e)
  BY <1>1, ProtocolDimensionsInt
<1>3. raw \in Int /\ low \in Int
  <2>1. p.sector \in Sectors
    BY DEF Protocols
  <2> HIDE DEF d, e
  <2>2. QED
    BY <1>2, <2>1, WeightedRawInt
<1>4. low <= raw
  BY InflowWeighsLess
<1>5. e.security = d.security /\ e.collateral <= d.collateral
  BY InflowSafety
<1>6. e.volatility <= d.volatility
  <2>1. d.volatility - e.volatility >= 11
    <3> DEFINE drop == d.volatility - e.volatility
    <3>1. drop >= IF s = 5 THEN IF p.sector = "rwa" THEN 11 ELSE 22 ELSE IF p.sector = "rwa" THEN 46 ELSE 70
      BY InflowVolatility
    <3>2. drop \in Int
      BY <1>2 DEF IntegerDimensions, Names
    <3> HIDE DEF drop
    <3>3. drop >= 11
      BY <3>1, <3>2
    <3>4. QED
      BY <3>3 DEF drop
  <2>2. d.volatility \in Int /\ e.volatility \in Int
    BY <1>2 DEF IntegerDimensions, Names
  <2> HIDE DEF d, e
  <2>3. QED
    BY <2>1, <2>2
<1>7. /\ RawScore(p, t) = BreakFlow(p, CapCritical(d, raw))
      /\ RawScore(r, t) = BreakFlow(r, CapCritical(e, low))
  BY <1>1 DEF RawScore, DimensionsOf, Case
<1> HIDE DEF r, d, e, raw, low
<1>8. /\ CapCritical(d, raw) \in Int /\ CapCritical(e, low) \in Int
      /\ CapCritical(e, low) <= CapCritical(d, raw)
  BY <1>2, <1>3, <1>4, <1>5, <1>6, CapsFollow, CriticalBound
<1> DEFINE c == CapCritical(d, raw)
           b == CapCritical(e, low)
<1>9. BreakFlow(p, c) = c
  BY <1>1 DEF BreakFlow, Surging, BankRun
<1>10. BreakFlow(r, b) \in Int /\ BreakFlow(r, b) <= b
  BY <1>1, <1>8, FlowBound
<1> HIDE DEF c, b
<1>11. RawScore(p, t) = c /\ RawScore(r, t) = BreakFlow(r, b) /\ c \in Int /\ b \in Int /\ b <= c
  BY <1>7, <1>8, <1>9 DEF c, b
<1>12. QED
  BY <1>10, <1>11 DEF r

(* and the same adjustment and the same rounding keep the order. *)
LEMMA FinalFollowsRaw ==
  ASSUME NEW low \in Int, NEW raw \in Int, low <= raw, NEW q \in Int
  PROVE  FinalScore(low, q) <= FinalScore(raw, q)
<1> DEFINE x == RoundDiv(raw + 100 * q, 100)
           y == RoundDiv(low + 100 * q, 100)
<1>1. x \in Int /\ y \in Int /\ y <= x
  <2> DEFINE u == raw + 100 * q
             v == low + 100 * q
  <2>1. u \in Int /\ v \in Int /\ v <= u
    OBVIOUS
  <2> HIDE DEF u, v
  <2>2. RoundDiv(u, 100) \in Int /\ RoundDiv(v, 100) \in Int /\ RoundDiv(v, 100) <= RoundDiv(u, 100)
    BY <2>1, RoundInt, RoundGrows
  <2>3. QED
    BY <2>2 DEF u, v
<1> HIDE DEF x, y
<1>2. Clamp(0, 100, y) <= Clamp(0, 100, x)
  BY <1>1 DEF Clamp, Most, Least
<1>3. QED
  BY <1>2 DEF FinalScore, x, y

(* Capital that flows into a quiet protocol never buys a better rating, whatever
   its sector, size, age and chains and whatever the quantitative adjustment. *)
THEOREM InflowAlwaysCosts == AnalyzeSpec => []InflowNeverPays
<1>1. AnalyzeInv => InflowNeverPays
  <2> SUFFICES ASSUME AnalyzeInv, Rated, req.protocol # NoEntry, Quiet(req.protocol), NEW s \in Inflows
               PROVE  FinalScore(RawScore(Pumped(req.protocol, s), req.telemetry), req.quant) <= req.score
    BY DEF InflowNeverPays
  <2>1. /\ req.protocol \in Protocols /\ req.quant \in Int
        /\ req.score = FinalScore(RawScore(req.protocol, req.telemetry), req.quant)
    BY DEF AnalyzeInv, Resolved, ScoreIsFinal, Rated
  <2> DEFINE raw == RawScore(req.protocol, req.telemetry)
             low == RawScore(Pumped(req.protocol, s), req.telemetry)
  <2>2. raw \in Int /\ low \in Int /\ low <= raw
    BY <2>1, InflowRaw
  <2> HIDE DEF raw, low
  <2>3. FinalScore(low, req.quant) <= FinalScore(raw, req.quant)
    BY <2>1, <2>2, FinalFollowsRaw
  <2>4. QED
    BY <2>1, <2>3 DEF raw, low
<1>2. QED
  BY <1>1, AnalyzeCorrect, PTL

-----------------------------------------------------------------------------
(* Recording in the browser. *)
Kinds == {"none", "relayer", "don", "direct", "certificate", "verified"}
FlowStages == {"ready", "asked", "consensus", "signing", "polling", "mining", "ended"}
JobStages == {"none", "received", "refused", "proved", "prepared", "answered"}
TxStates == {"none", "pending", "mined", "reverted", "dropped"}
Says == {"nothing", "submitting", "failed", "waiting", "signing", "submitted", "confirmed",
         "attestation_verified"}
Hashes == Flows \cup {NoHash, Digest}

(* The types; a nonce is whatever the node says it is. *)
RecordTypes ==
    /\ shown \in Reports
    /\ panel \in [txStep : 0..3, hash : Hashes, onchain : BOOLEAN, says : Says]
    /\ flow \in [Flows -> [kind : Kinds, stage : FlowStages, report : Reports, polls : Nat]]
    /\ \E Nonces :
          /\ job \in [Flows -> [stage : JobStages, nonce : Nonces, hash : Hashes]]
          /\ txs \in [Flows -> [state : TxStates, report : Reports,
                                wallet : {"none", "relayer", "user"}, nonce : Nonces]]

(* A flow that has the panel. *)
HasPanel(f) ==
    flow[f].kind # "verified" /\ flow[f].stage \in {"asked", "consensus", "signing", "polling", "mining"}

(* What a place in a flow says of the panel, its request and its transaction. *)
FlowInv(f) ==
    /\ HasPanel(f) => panel.txStep \in {1, 2}
    /\ flow[f].stage = "polling" =>
          /\ job[f].stage = "answered" /\ panel.hash = job[f].hash
          /\ panel.onchain <=> job[f].hash # Digest
    /\ flow[f].stage = "mining" => panel.hash = f /\ panel.onchain
    /\ flow[f].stage = "ready" => job[f].stage = "none" /\ txs[f].state = "none"
    /\ flow[f].stage \in {"consensus", "signing", "mining"} => job[f].stage = "none"
    /\ flow[f].stage \in {"consensus", "signing", "polling", "mining"} => flow[f].kind # "verified"
    /\ job[f].stage = "answered" => job[f].hash \in {f, Digest}
    /\ txs[f].state # "none" => txs[f].report = flow[f].report

PanelIsOnes == \A f, g \in Flows : HasPanel(f) /\ HasPanel(g) => f = g

(* A transaction said to be confirmed is not sent again. *)
SaysInv ==
    /\ panel.says = "confirmed" =>
          /\ panel.onchain /\ panel.hash \in Flows
          /\ txs[panel.hash].state = "mined"
          /\ flow[panel.hash].stage = "ended" /\ job[panel.hash].stage \in {"none", "answered"}
    /\ panel.says = "attestation_verified" => panel.hash = Digest /\ ~panel.onchain

RecordInv ==
    /\ RecordTypes
    /\ \A f \in Flows : FlowInv(f)
    /\ PanelIsOnes
    /\ SaysInv

LEMMA RecordInitInv == RecordInit => RecordInv
<1> SUFFICES ASSUME RecordInit PROVE RecordInv
    OBVIOUS
<1>1. shown \in Reports
    BY RecordFlowAssumption DEF RecordInit
<1>2. RecordTypes
    <2>1. /\ panel \in [txStep : 0..3, hash : Hashes, onchain : BOOLEAN, says : Says]
          /\ flow \in [Flows -> [kind : Kinds, stage : FlowStages, report : Reports, polls : Nat]]
        BY <1>1 DEF RecordInit, Hashes, Says, Kinds, FlowStages
    <2>2. /\ job \in [Flows -> [stage : JobStages, nonce : {0}, hash : Hashes]]
          /\ txs \in [Flows -> [state : TxStates, report : Reports,
                                wallet : {"none", "relayer", "user"}, nonce : {0}]]
        BY <1>1 DEF RecordInit, Hashes, JobStages, TxStates
    <2>3. QED
        BY <1>1, <2>1, <2>2 DEF RecordTypes
<1>3. QED
    BY <1>2 DEF RecordInit, RecordInv, FlowInv, PanelIsOnes, SaysInv, HasPanel

(* A step is about one flow; it writes to the panel when the flow has it or
   nobody does. *)
Affects(f) ==
    /\ \A g \in Flows \ {f} : flow'[g] = flow[g] /\ job'[g] = job[g] /\ txs'[g] = txs[g]
    /\ panel' = panel \/ HasPanel(f) \/ panel.txStep \notin {1, 2}
    /\ HasPanel(f)' => HasPanel(f) \/ panel.txStep \notin {1, 2}

LEMMA AffectsOneFlow ==
    ASSUME RecordInv, NEW f \in Flows, Affects(f), RecordTypes', FlowInv(f)', SaysInv'
    PROVE  RecordInv'
<1>1. ASSUME NEW g \in Flows \ {f} PROVE FlowInv(g)' /\ (HasPanel(g)' <=> HasPanel(g))
    <2>1. flow'[g] = flow[g] /\ job'[g] = job[g] /\ txs'[g] = txs[g]
        BY DEF Affects
    <2>2. HasPanel(g)' <=> HasPanel(g)
        BY <2>1 DEF HasPanel
    <2>3. FlowInv(g)
        BY DEF RecordInv
    <2>4. CASE panel' = panel
        BY <2>1, <2>2, <2>3, <2>4 DEF FlowInv
    <2>5. CASE ~HasPanel(g)
        BY <2>1, <2>2, <2>3, <2>5 DEF FlowInv, HasPanel
    <2>6. HasPanel(g) => panel' = panel
        BY <2>3 DEF Affects, RecordInv, PanelIsOnes, FlowInv
    <2>7. QED
        BY <2>2, <2>4, <2>5, <2>6
<1>2. PanelIsOnes'
    <2>1. \A g \in Flows \ {f} : HasPanel(f)' /\ HasPanel(g) => FALSE
        BY DEF Affects, RecordInv, PanelIsOnes, FlowInv
    <2>2. QED
        BY <1>1, <2>1 DEF RecordInv, PanelIsOnes
<1>3. QED
    BY <1>1, <1>2 DEF RecordInv

(* What was said stands while the flow it was said of rests. *)
LEMMA SaysStands ==
    ASSUME SaysInv, panel' = panel, NEW f \in Flows, Affects(f),
           \/ flow[f].stage # "ended" \/ txs[f].state # "mined"
           \/ job[f].stage \notin {"none", "answered"}
    PROVE  SaysInv'
    BY DEF SaysInv, Affects

LEMMA BeginKeepsInv ==
    ASSUME RecordInv, NEW f \in Flows,
           \/ SubmitRelayer(f) \/ SubmitDon(f) \/ SubmitDirect(f) \/ SubmitCertificate(f)
           \/ SubmitVerified(f)
    PROVE  RecordInv'
<1>1. /\ flow[f].stage = "ready" /\ job[f].stage = "none" /\ txs[f].state = "none"
      /\ UNCHANGED <<shown, txs>>
    BY DEF SubmitRelayer, SubmitDon, SubmitGasless, SubmitDirect, SubmitCertificate,
       SubmitVerified, IsNext, RecordInv, FlowInv
<1>2. PICK kind \in Kinds \ {"none"}, stage \in {"asked", "consensus", "signing"} :
        /\ flow' = [flow EXCEPT ![f] = [kind |-> kind, stage |-> stage, report |-> shown, polls |-> 0]]
        /\ job' = IF stage = "asked" THEN [job EXCEPT ![f].stage = "received"] ELSE job
        /\ IF kind = "verified"
             THEN stage = "asked" /\ panel' = panel
             ELSE /\ panel.txStep \notin {1, 2}
                  /\ \/ panel' = [panel EXCEPT !.txStep = 1, !.hash = NoHash, !.says = "submitting"]
                     \/ panel' = [panel EXCEPT !.txStep = 1, !.says = "submitting"]
    BY DEF SubmitRelayer, SubmitDon, SubmitGasless, SubmitDirect, SubmitCertificate,
       SubmitVerified, Begin, Request, Show, Enabled, Kinds
<1>3. RecordTypes
    BY DEF RecordInv
<1>4. RecordTypes'
    <2>1. panel' \in [txStep : 0..3, hash : Hashes, onchain : BOOLEAN, says : Says]
        <3>1. "submitting" \in Says /\ NoHash \in Hashes /\ 1 \in 0..3
            BY DEF Says, Hashes
        <3>2. panel \in [txStep : 0..3, hash : Hashes, onchain : BOOLEAN, says : Says]
            BY <1>3 DEF RecordTypes
        <3>3. \/ panel' = panel
              \/ panel' = [panel EXCEPT !.txStep = 1, !.hash = NoHash, !.says = "submitting"]
              \/ panel' = [panel EXCEPT !.txStep = 1, !.says = "submitting"]
            BY <1>2
        <3>4. CASE panel' = panel
            BY <3>2, <3>4
        <3>5. CASE panel' = [panel EXCEPT !.txStep = 1, !.hash = NoHash, !.says = "submitting"]
            BY ONLY <3>1, <3>2, <3>5
        <3>6. CASE panel' = [panel EXCEPT !.txStep = 1, !.says = "submitting"]
            BY ONLY <3>1, <3>2, <3>6
        <3>7. QED
            BY <3>3, <3>4, <3>5, <3>6
    <2>2. flow' \in [Flows -> [kind : Kinds, stage : FlowStages, report : Reports, polls : Nat]]
        BY <1>2, <1>3 DEF RecordTypes, FlowStages
    <2>3. PICK Nonces :
              /\ job \in [Flows -> [stage : JobStages, nonce : Nonces, hash : Hashes]]
              /\ txs \in [Flows -> [state : TxStates, report : Reports,
                                    wallet : {"none", "relayer", "user"}, nonce : Nonces]]
        BY <1>3 DEF RecordTypes
    <2>4. job' \in [Flows -> [stage : JobStages, nonce : Nonces, hash : Hashes]]
        BY <1>2, <2>3 DEF JobStages
    <2>5. QED
        BY <1>1, <1>3, <2>1, <2>2, <2>3, <2>4 DEF RecordTypes
<1>5. /\ flow'[f] = [kind |-> kind, stage |-> stage, report |-> shown, polls |-> 0]
      /\ \A g \in Flows \ {f} : flow'[g] = flow[g] /\ job'[g] = job[g] /\ txs'[g] = txs[g]
      /\ txs'[f] = txs[f]
      /\ job'[f].stage = IF stage = "asked" THEN "received" ELSE "none"
    BY <1>1, <1>2, <1>3 DEF RecordTypes
<1>6. kind # "verified" => panel'.txStep = 1 /\ panel'.says = "submitting"
    BY <1>2, <1>3 DEF RecordTypes
<1>7. Affects(f)
    BY <1>2, <1>5 DEF Affects, HasPanel
<1>8. FlowInv(f)'
    BY <1>1, <1>2, <1>5, <1>6 DEF FlowInv, HasPanel
<1>9. SaysInv'
    BY <1>1, <1>2, <1>6, <1>7, SaysStands DEF RecordInv, SaysInv
<1>10. QED
    BY <1>4, <1>7, <1>8, <1>9, AffectsOneFlow

(* A step of the browser: its flow goes on and the panel says so. *)
GoesOn(f, stage, says) ==
    /\ flow' \in [Flows -> [kind : Kinds, stage : FlowStages, report : Reports, polls : Nat]]
    /\ \A g \in Flows \ {f} : flow'[g] = flow[g]
    /\ flow'[f].kind = flow[f].kind /\ flow'[f].report = flow[f].report /\ flow'[f].stage = stage
    /\ panel' \in [txStep : 0..3, hash : Hashes, onchain : BOOLEAN, says : Says]
    /\ panel' = panel \/ panel'.says = says
    /\ stage \notin {"ended", flow[f].stage} => panel'.txStep \in {1, 2}

Enters(f, stage) == flow' = [flow EXCEPT ![f].stage = stage]

LEMMA EntersIs ==
    ASSUME RecordTypes, NEW f \in Flows, NEW stage \in FlowStages, Enters(f, stage)
    PROVE  /\ flow' \in [Flows -> [kind : Kinds, stage : FlowStages, report : Reports, polls : Nat]]
           /\ \A g \in Flows \ {f} : flow'[g] = flow[g]
           /\ flow'[f].kind = flow[f].kind /\ flow'[f].report = flow[f].report
           /\ flow'[f].stage = stage
<1> DEFINE moved == [flow[f] EXCEPT !.stage = stage]
<1>1. flow \in [Flows -> [kind : Kinds, stage : FlowStages, report : Reports, polls : Nat]]
    BY DEF RecordTypes
<1>2. /\ moved \in [kind : Kinds, stage : FlowStages, report : Reports, polls : Nat]
      /\ moved.kind = flow[f].kind /\ moved.report = flow[f].report /\ moved.stage = stage
    BY <1>1
<1>3. flow' = [flow EXCEPT ![f] = moved]
    BY <1>1 DEF Enters
<1> HIDE DEF moved
<1>4. QED
    BY <1>1, <1>2, <1>3

LEMMA ShowIs ==
    ASSUME RecordTypes, NEW step \in 0..3, NEW says \in Says, Show(step, says)
    PROVE  /\ panel' \in [txStep : 0..3, hash : Hashes, onchain : BOOLEAN, says : Says]
           /\ panel'.hash = panel.hash /\ panel'.onchain = panel.onchain
           /\ panel'.txStep = step /\ panel'.says = says
    BY DEF RecordTypes, Show

LEMMA PanelStays ==
    ASSUME RecordTypes, panel' = panel
    PROVE  panel' \in [txStep : 0..3, hash : Hashes, onchain : BOOLEAN, says : Says]
    BY DEF RecordTypes

LEMMA EndedIs ==
    ASSUME RecordTypes, NEW f \in Flows, flow' = Ended(f),
           NEW step \in 0..3, NEW says \in Says, panel' = panel \/ Show(step, says)
    PROVE  GoesOn(f, "ended", says)
<1>1. Enters(f, "ended") /\ "ended" \in FlowStages
    BY DEF Ended, Enters, FlowStages
<1>2. /\ panel' \in [txStep : 0..3, hash : Hashes, onchain : BOOLEAN, says : Says]
      /\ panel' = panel \/ panel'.says = says
    BY PanelStays, ShowIs
<1>3. QED
    BY <1>1, <1>2, EntersIs DEF GoesOn

LEMMA BrowserKeepsInv ==
    ASSUME RecordInv, NEW f \in Flows, NEW stage \in {"signing", "polling", "ended"},
           NEW says \in Says, GoesOn(f, stage, says), UNCHANGED <<shown, job, txs>>,
           \/ HasPanel(f)
           \/ panel' = panel /\ flow[f].stage \notin {"ready", "ended"} /\ stage = "ended",
           stage = "polling" =>
              /\ job[f].stage = "answered" /\ flow[f].kind # "verified"
              /\ panel'.hash = job[f].hash /\ (panel'.onchain <=> job[f].hash # Digest)
              /\ panel'.txStep \in {1, 2},
           stage = "signing" => flow[f].stage = "consensus",
           says = "confirmed" =>
              /\ stage = "ended" /\ panel'.onchain /\ panel'.hash = f
              /\ txs[f].state = "mined" /\ job[f].stage \in {"none", "answered"},
           says = "attestation_verified" => panel'.hash = Digest /\ ~panel'.onchain
    PROVE  RecordInv'
<1>1. RecordTypes'
    BY DEF RecordInv, RecordTypes, GoesOn
<1>2. Affects(f)
    BY DEF GoesOn, Affects, HasPanel
<1>3. FlowInv(f) /\ flow[f].stage \notin {"ready", "ended"}
    BY DEF RecordInv, HasPanel
<1>4. FlowInv(f)'
    BY <1>3 DEF FlowInv, GoesOn, HasPanel
<1>5. SaysInv'
    <2>1. CASE panel' = panel
        BY <1>2, <1>3, <2>1, SaysStands DEF RecordInv
    <2>2. CASE panel'.says = says
        BY <2>2 DEF SaysInv, GoesOn
    <2>3. QED
        BY <2>1, <2>2 DEF GoesOn
<1>6. QED
    BY <1>1, <1>2, <1>4, <1>5, AffectsOneFlow

(* The steps of a flow that waits for something. *)
LEMMA WaitingKeepsInv ==
    ASSUME RecordInv, NEW f \in Flows,
           \/ RefusalArrives(f) \/ RequestFails(f) \/ WalletRejects(f) \/ PollConfirms(f)
           \/ PollAgain(f) \/ ConsensusArrives(f) \/ WaitReturns(f)
    PROVE  RecordInv'
<1>1. RecordTypes /\ FlowInv(f) /\ UNCHANGED <<shown, job, txs>>
    BY DEF RecordInv, RefusalArrives, RequestFails, WalletRejects, PollConfirms, PollAgain,
       ConsensusArrives, WaitReturns, Fails
<1>2. ASSUME NEW step \in 0..3, NEW says \in Says \ {"confirmed", "attestation_verified"},
             flow[f].stage \in {"asked", "consensus", "signing", "polling", "mining"},
             flow' = Ended(f),
             \/ panel' = panel
             \/ flow[f].kind # "verified" /\ Show(step, says)
      PROVE  RecordInv'
    <2>1. GoesOn(f, "ended", says)
        BY <1>1, <1>2, EndedIs
    <2>2. HasPanel(f) \/ (panel' = panel /\ flow[f].stage \notin {"ready", "ended"})
        BY <1>2 DEF HasPanel
    <2>3. QED
        BY <1>1, <1>2, <2>1, <2>2, BrowserKeepsInv
<1>3. CASE RefusalArrives(f) \/ RequestFails(f)
    <2>1. "failed" \in Says \ {"confirmed", "attestation_verified"} /\ 0 \in 0..3
        BY DEF Says
    <2>2. /\ flow[f].stage \in {"asked", "consensus"} /\ flow' = Ended(f)
          /\ panel' = panel \/ (flow[f].kind # "verified" /\ Show(0, "failed"))
        BY <1>3 DEF RefusalArrives, RequestFails, Fails
    <2>3. QED
        BY <1>2, <2>1, <2>2
<1>4. CASE WalletRejects(f)
    <2>1. flow[f].kind # "verified" /\ flow[f].stage = "signing"
        BY <1>1, <1>4 DEF WalletRejects, FlowInv
    <2>2. QED
        <3>1. "failed" \in Says \ {"confirmed", "attestation_verified"} /\ 0 \in 0..3
            BY DEF Says
        <3>2. flow' = Ended(f) /\ Show(0, "failed")
            BY <1>4 DEF WalletRejects
        <3>3. QED
            BY <1>2, <2>1, <3>1, <3>2
<1>5. CASE PollConfirms(f)
    <2> DEFINE says == StatusOf(f)
    <2>1. /\ flow[f].stage = "polling" /\ says \in {"confirmed", "attestation_verified"}
          /\ flow[f].kind # "verified"
          /\ flow' = Ended(f) /\ Show(3, says) /\ says \in Says /\ 3 \in 0..3
        BY <1>1, <1>5 DEF PollConfirms, Conclusive, FlowInv, Says
    <2>2. /\ says = "attestation_verified" => job[f].hash = Digest
          /\ says = "confirmed" => job[f].hash # Digest /\ txs[f].state = "mined"
        BY DEF StatusOf
    <2> HIDE DEF says
    <2>3. GoesOn(f, "ended", says) /\ panel'.hash = panel.hash /\ panel'.onchain = panel.onchain
        BY <1>1, <2>1, EndedIs, ShowIs
    <2>4. HasPanel(f)
        BY <2>1 DEF HasPanel
    <2>5. /\ job[f].stage = "answered" /\ panel.hash = job[f].hash
          /\ panel.onchain <=> job[f].hash # Digest
          /\ job[f].hash \in {f, Digest}
        BY <1>1, <2>1 DEF FlowInv
    <2>6. QED
        BY <1>1, <2>1, <2>2, <2>3, <2>4, <2>5, BrowserKeepsInv
<1>6. CASE PollAgain(f)
    <2>1. flow[f].stage = "polling" /\ flow[f].kind # "verified"
        BY <1>1, <1>6 DEF PollAgain, FlowInv
    <2>2. CASE NextTry(f) < MaxPolls
        <3> DEFINE again == [flow[f] EXCEPT !.polls = NextTry(f)]
        <3>1. /\ flow \in [Flows -> [kind : Kinds, stage : FlowStages, report : Reports, polls : Nat]]
              /\ panel \in [txStep : 0..3, hash : Hashes, onchain : BOOLEAN, says : Says]
            BY <1>1 DEF RecordTypes
        <3>2. flow[f].polls \in Nat /\ NextTry(f) \in Nat
            BY <3>1 DEF NextTry
        <3>3. /\ again \in [kind : Kinds, stage : FlowStages, report : Reports, polls : Nat]
              /\ again.kind = flow[f].kind /\ again.report = flow[f].report
              /\ again.stage = flow[f].stage
            BY <3>1, <3>2
        <3>4. flow' = [flow EXCEPT ![f] = again] /\ panel' = panel
            BY <1>6, <2>2, <3>1 DEF PollAgain
        <3> HIDE DEF again
        <3>5. GoesOn(f, "polling", "waiting")
            BY <2>1, <3>1, <3>3, <3>4 DEF GoesOn
        <3>6. QED
            BY <1>1, <2>1, <3>4, <3>5, BrowserKeepsInv DEF HasPanel, Says, FlowInv
    <2>3. CASE ~(NextTry(f) < MaxPolls)
        <3>1. "submitted" \in Says \ {"confirmed", "attestation_verified"} /\ 3 \in 0..3
            BY DEF Says
        <3>2. flow' = Ended(f) /\ Show(3, "submitted")
            BY <1>6, <2>3 DEF PollAgain
        <3>3. QED
            BY <1>2, <2>1, <3>1, <3>2
    <2>4. QED
        BY <2>2, <2>3
<1>7. CASE ConsensusArrives(f)
    <2>1. flow[f].stage = "consensus" /\ flow[f].kind # "verified"
        BY <1>1, <1>7 DEF ConsensusArrives, FlowInv
    <2>2. GoesOn(f, "signing", "signing")
        <3>1. Enters(f, "signing") /\ Show(2, "signing")
            BY <1>7 DEF ConsensusArrives, Enters
        <3>2. "signing" \in Says /\ 2 \in 0..3 /\ "signing" \in FlowStages
            BY DEF Says, FlowStages
        <3>3. QED
            BY <1>1, <3>1, <3>2, EntersIs, ShowIs DEF GoesOn
    <2>3. QED
        BY <1>1, <2>1, <2>2, BrowserKeepsInv DEF HasPanel, Says
<1>8. CASE WaitReturns(f)
    <2>1. flow[f].stage = "mining" /\ flow[f].kind # "verified" /\ flow' = Ended(f)
        BY <1>1, <1>8 DEF WaitReturns, FlowInv
    <2>2. CASE txs[f].state = "mined" /\ Show(3, "confirmed")
        <3>1. /\ GoesOn(f, "ended", "confirmed")
              /\ panel'.hash = panel.hash /\ panel'.onchain = panel.onchain
            <4>1. "confirmed" \in Says /\ 3 \in 0..3
                BY DEF Says
            <4>2. QED
                BY <1>1, <2>1, <2>2, <4>1, EndedIs, ShowIs
        <3>2. panel.hash = f /\ panel.onchain /\ job[f].stage = "none"
            BY <1>1, <2>1 DEF FlowInv
        <3>3. QED
            BY <1>1, <2>1, <2>2, <3>1, <3>2, BrowserKeepsInv DEF HasPanel, Says
    <2>3. CASE Show(0, "failed")
        <3>1. "failed" \in Says \ {"confirmed", "attestation_verified"} /\ 0 \in 0..3
            BY DEF Says
        <3>2. QED
            BY <1>2, <2>1, <2>3, <3>1
    <2>4. QED
        BY <1>8, <2>2, <2>3 DEF WaitReturns
<1>9. QED
    BY <1>3, <1>4, <1>5, <1>6, <1>7, <1>8

LEMMA AnswerKeepsInv ==
    ASSUME RecordInv, NEW f \in Flows,
           \/ RelayerAnswerArrives(f) \/ DonAnswerArrives(f) \/ VerifiedAnswerArrives(f)
    PROVE  RecordInv'
<1>1. /\ RecordTypes /\ FlowInv(f) /\ UNCHANGED <<shown, job, txs>>
      /\ flow[f].stage = "asked" /\ job[f].stage = "answered"
    BY DEF RecordInv, RelayerAnswerArrives, DonAnswerArrives, AnswerArrives, VerifiedAnswerArrives
<1>2. job[f].hash \in Hashes
    BY <1>1 DEF RecordTypes
<1>3. "waiting" \in Says /\ "polling" \in FlowStages /\ 2 \in 0..3 /\ 0 \in 0..3
    BY DEF Says, FlowStages
<1>4. CASE VerifiedAnswerArrives(f)
    <2>1. flow' = Ended(f) /\ panel' = panel
        BY <1>4 DEF VerifiedAnswerArrives
    <2>2. GoesOn(f, "ended", "waiting")
        BY <1>1, <1>3, <2>1, EndedIs
    <2>3. QED
        BY <1>1, <1>3, <2>1, <2>2, BrowserKeepsInv
<1>5. CASE RelayerAnswerArrives(f) \/ DonAnswerArrives(f)
    <2>1. /\ flow[f].kind \in {"relayer", "don"}
          /\ flow' = [flow EXCEPT ![f].stage = "polling"]
          /\ panel' = [txStep |-> 2, hash |-> job[f].hash, onchain |-> job[f].hash # Digest,
                       says |-> "waiting"]
        BY <1>5 DEF RelayerAnswerArrives, DonAnswerArrives, AnswerArrives
    <2>2. /\ panel' \in [txStep : 0..3, hash : Hashes, onchain : BOOLEAN, says : Says]
          /\ panel'.txStep = 2 /\ panel'.says = "waiting" /\ panel'.hash = job[f].hash
          /\ panel'.onchain <=> job[f].hash # Digest
        BY <1>2, <1>3, <2>1
    <2>3. Enters(f, "polling")
        BY <2>1 DEF Enters
    <2>4. GoesOn(f, "polling", "waiting")
        BY <1>1, <1>3, <2>2, <2>3, EntersIs DEF GoesOn
    <2>5. HasPanel(f) /\ flow[f].kind # "verified" /\ panel'.txStep \in {1, 2}
        BY <1>1, <2>1, <2>2 DEF HasPanel
    <2>6. QED
        BY <1>1, <1>3, <2>2, <2>4, <2>5, BrowserKeepsInv
<1>6. QED
    BY <1>4, <1>5

(* A transaction enters the mempool with its flow's report. *)
LEMMA BroadcastIs ==
    ASSUME RecordTypes, NEW f \in Flows, NEW wallet \in {"relayer", "user"}, NEW nonce,
           Broadcast(f, wallet, nonce)
    PROVE  /\ txs'[f].state = "pending" /\ txs'[f].report = flow[f].report
           /\ \A g \in Flows \ {f} : txs'[g] = txs[g]
           /\ \A Nonces :
                 /\ nonce \in Nonces
                 /\ txs \in [Flows -> [state : TxStates, report : Reports,
                                      wallet : {"none", "relayer", "user"}, nonce : Nonces]]
                 => txs' \in [Flows -> [state : TxStates, report : Reports,
                                      wallet : {"none", "relayer", "user"}, nonce : Nonces]]
<1> DEFINE signed == [state |-> "pending", report |-> flow[f].report, wallet |-> wallet,
                    nonce |-> nonce]
           Txs(Nonces) == [state : TxStates, report : Reports,
                           wallet : {"none", "relayer", "user"}, nonce : Nonces]
<1>1. txs' = [txs EXCEPT ![f] = signed]
    BY DEF Broadcast
<1>2. flow[f].report \in Reports
    BY DEF RecordTypes
<1>3. ASSUME NEW Nonces, nonce \in Nonces PROVE signed \in Txs(Nonces)
    BY <1>2, <1>3 DEF TxStates
<1>4. PICK Nonces : txs \in [Flows -> Txs(Nonces)]
    BY DEF RecordTypes
<1>5. signed.state = "pending" /\ signed.report = flow[f].report
    OBVIOUS
<1> HIDE DEF signed, Txs
<1>6. ASSUME NEW Values, nonce \in Values, txs \in [Flows -> Txs(Values)]
      PROVE  txs' \in [Flows -> Txs(Values)]
    BY <1>1, <1>3, <1>6
<1>7. txs'[f] = signed /\ \A g \in Flows \ {f} : txs'[g] = txs[g]
    BY <1>1, <1>4
<1>8. QED
    BY <1>5, <1>6, <1>7 DEF Txs

LEMMA SignKeepsInv ==
    ASSUME RecordInv, NEW f \in Flows, WalletSigns(f)
    PROVE  RecordInv'
<1> DEFINE nonce == NextNonce("user")
<1>1. /\ RecordTypes /\ FlowInv(f) /\ flow[f].stage = "signing"
      /\ UNCHANGED <<shown, job>> /\ Enters(f, "mining") /\ Broadcast(f, "user", nonce)
      /\ panel' = [panel EXCEPT !.hash = f, !.onchain = TRUE, !.says = "waiting"]
    BY DEF RecordInv, WalletSigns, Enters
<1> HIDE DEF nonce
<1>2. flow[f].kind # "verified" /\ HasPanel(f) /\ job[f].stage = "none"
    BY <1>1 DEF FlowInv, HasPanel
<1>3. /\ "mining" \in FlowStages /\ "waiting" \in Says /\ f \in Hashes
    BY DEF FlowStages, Says, Hashes
<1>4. /\ flow' \in [Flows -> [kind : Kinds, stage : FlowStages, report : Reports, polls : Nat]]
      /\ \A g \in Flows \ {f} : flow'[g] = flow[g]
      /\ flow'[f].kind = flow[f].kind /\ flow'[f].report = flow[f].report
      /\ flow'[f].stage = "mining"
    BY <1>1, <1>3, EntersIs
<1>5. /\ panel' \in [txStep : 0..3, hash : Hashes, onchain : BOOLEAN, says : Says]
      /\ panel'.txStep = panel.txStep /\ panel'.hash = f /\ panel'.onchain
      /\ panel'.says = "waiting"
    <2>1. panel \in [txStep : 0..3, hash : Hashes, onchain : BOOLEAN, says : Says]
        BY <1>1 DEF RecordTypes
    <2>2. QED
        BY ONLY <2>1, <1>1, <1>3
<1>6. /\ txs'[f].state = "pending" /\ txs'[f].report = flow[f].report
      /\ \A g \in Flows \ {f} : txs'[g] = txs[g]
    BY <1>1, BroadcastIs
<1>7. RecordTypes'
    <2>1. PICK Nonces :
              /\ job \in [Flows -> [stage : JobStages, nonce : Nonces, hash : Hashes]]
              /\ txs \in [Flows -> [state : TxStates, report : Reports,
                                    wallet : {"none", "relayer", "user"}, nonce : Nonces]]
        BY <1>1 DEF RecordTypes
    <2> DEFINE More == Nonces \cup {nonce}
    <2>2. /\ job \in [Flows -> [stage : JobStages, nonce : More, hash : Hashes]]
          /\ txs \in [Flows -> [state : TxStates, report : Reports,
                                wallet : {"none", "relayer", "user"}, nonce : More]]
        BY <2>1
    <2>3. nonce \in More
        OBVIOUS
    <2> HIDE DEF More
    <2>4. txs' \in [Flows -> [state : TxStates, report : Reports,
                             wallet : {"none", "relayer", "user"}, nonce : More]]
        BY <1>1, <2>2, <2>3, BroadcastIs
    <2>5. QED
        BY <1>1, <1>4, <1>5, <2>2, <2>4 DEF RecordTypes
<1>8. Affects(f)
    BY <1>1, <1>2, <1>4, <1>6 DEF Affects
<1>9. FlowInv(f)'
    BY <1>1, <1>2, <1>4, <1>5, <1>6 DEF FlowInv, HasPanel
<1>10. SaysInv'
    BY <1>5 DEF SaysInv
<1>11. QED
    BY <1>7, <1>8, <1>9, <1>10, AffectsOneFlow DEF RecordInv

(* The routes: a request goes from stage to stage, and its transaction may be
   broadcast on the way. *)
LEMMA ServerKeepsInv ==
    ASSUME RecordInv, NEW f \in Flows, ServerStep(f)
    PROVE  RecordInv'
<1>1. RecordTypes /\ FlowInv(f) /\ UNCHANGED <<shown, panel, flow>>
    BY DEF RecordInv, ServerStep, JobRefused, FetchProof, Prepare, Commit, BroadcastAccepted,
       BroadcastUnnoticed, BroadcastRejected
<1>2. job[f].stage \in {"received", "proved", "prepared"}
    BY DEF ServerStep, JobRefused, FetchProof, Prepare, Commit, BroadcastAccepted,
       BroadcastUnnoticed, BroadcastRejected
<1>3. PICK Nonces :
          /\ job \in [Flows -> [stage : JobStages, nonce : Nonces, hash : Hashes]]
          /\ txs \in [Flows -> [state : TxStates, report : Reports,
                                wallet : {"none", "relayer", "user"}, nonce : Nonces]]
    BY <1>1 DEF RecordTypes
<1> DEFINE More == Nonces \cup {NextNonce("relayer")}
           Jobs == [stage : JobStages, nonce : More, hash : Hashes]
           Txs  == [state : TxStates, report : Reports,
                    wallet : {"none", "relayer", "user"}, nonce : More]
<1>4. job \in [Flows -> Jobs] /\ txs \in [Flows -> Txs] /\ NextNonce("relayer") \in More
    BY <1>3
<1> DEFINE Steps(stage, hash) ==
              /\ job' \in [Flows -> Jobs]
              /\ job'[f].stage = stage /\ job'[f].hash = hash
              /\ \A g \in Flows \ {f} : job'[g] = job[g]
<1>5. \E stage \in JobStages \ {"none"}, hash \in Hashes :
          Steps(stage, hash) /\ (stage = "answered" => hash \in {f, Digest})
    <2>1. /\ {"refused", "proved", "prepared", "answered"} \subseteq JobStages \ {"none"}
          /\ {f, Digest} \subseteq Hashes
        BY DEF JobStages, Hashes
    <2>2. job[f].nonce \in More /\ job[f].hash \in Hashes
        BY <1>4
    <2>3. CASE JobRefused(f)
        <3>1. job' = [job EXCEPT ![f].stage = "refused"] /\ "refused" \in JobStages
            BY <2>1, <2>3 DEF JobRefused
        <3>2. Steps("refused", job[f].hash)
            BY ONLY <1>4, <3>1, f \in Flows
        <3>3. QED
            BY <2>1, <2>2, <3>2
    <2>4. CASE FetchProof(f)
        <3>1. job' = [job EXCEPT ![f].stage = "proved"] /\ "proved" \in JobStages
            BY <2>1, <2>4 DEF FetchProof
        <3>2. Steps("proved", job[f].hash)
            BY ONLY <1>4, <3>1, f \in Flows
        <3>3. QED
            BY <2>1, <2>2, <3>2
    <2>5. CASE Prepare(f)
        <3>1. /\ job' = [job EXCEPT ![f].stage = "prepared", ![f].nonce = NextNonce("relayer")]
              /\ "prepared" \in JobStages
            BY <2>1, <2>5 DEF Prepare
        <3>2. Steps("prepared", job[f].hash)
            BY ONLY <1>4, <3>1, f \in Flows
        <3>3. QED
            BY <2>1, <2>2, <3>2
    <2>6. CASE Commit(f) \/ BroadcastAccepted(f) \/ BroadcastUnnoticed(f) \/ BroadcastRejected(f)
        <3>1. PICK hash \in {f, Digest} : Answer(f, hash)
            BY <2>6 DEF Commit, BroadcastAccepted, BroadcastUnnoticed, BroadcastRejected
        <3>2. /\ job' = [job EXCEPT ![f].stage = "answered", ![f].hash = hash]
              /\ hash \in Hashes /\ "answered" \in JobStages
            BY <2>1, <3>1 DEF Answer
        <3>3. Steps("answered", hash)
            BY ONLY <1>4, <3>2, f \in Flows
        <3>4. QED
            BY <2>1, <3>1, <3>3
    <2>7. QED
        BY <2>3, <2>4, <2>5, <2>6 DEF ServerStep
<1>6. PICK stage \in JobStages \ {"none"}, hash \in Hashes :
          Steps(stage, hash) /\ (stage = "answered" => hash \in {f, Digest})
    BY <1>5
<1> HIDE DEF Jobs, Steps
<1>7. /\ job' \in [Flows -> Jobs] /\ job'[f].stage = stage /\ job'[f].hash = hash
      /\ \A g \in Flows \ {f} : job'[g] = job[g]
    BY <1>6 DEF Steps
<1>8. \/ txs' = txs
      \/ job[f].stage = "prepared" /\ Broadcast(f, "relayer", job[f].nonce)
    BY DEF ServerStep, JobRefused, FetchProof, Prepare, Commit, BroadcastAccepted,
       BroadcastUnnoticed, BroadcastRejected
<1>9. /\ txs' \in [Flows -> Txs]
      /\ txs' = txs \/ (txs'[f].state = "pending" /\ txs'[f].report = flow[f].report)
      /\ \A g \in Flows \ {f} : txs'[g] = txs[g]
    <2>1. CASE txs' = txs
        BY <1>4, <2>1
    <2>2. CASE Broadcast(f, "relayer", job[f].nonce)
        <3>1. job[f].nonce \in More
            BY <1>4 DEF Jobs
        <3> HIDE DEF More
        <3>2. QED
            BY <1>1, <1>4, <2>2, <3>1, BroadcastIs
    <2>3. QED
        BY <1>8, <2>1, <2>2
<1> HIDE DEF More, Txs
<1>10. RecordTypes'
    <2>1. job' \in [Flows -> [stage : JobStages, nonce : More, hash : Hashes]]
        BY <1>7 DEF Jobs
    <2>2. txs' \in [Flows -> [state : TxStates, report : Reports,
                             wallet : {"none", "relayer", "user"}, nonce : More]]
        BY <1>9 DEF Txs
    <2>3. QED
        BY <1>1, <2>1, <2>2 DEF RecordTypes
<1>11. Affects(f)
    BY <1>1, <1>7, <1>9 DEF Affects, HasPanel
<1>12. FlowInv(f)'
    BY <1>1, <1>2, <1>6, <1>7, <1>9 DEF FlowInv, HasPanel
<1>13. SaysInv'
    BY <1>1, <1>2, <1>11, SaysStands DEF RecordInv
<1>14. QED
    BY <1>10, <1>11, <1>12, <1>13, AffectsOneFlow

(* The chain: a pending transaction is settled or forgotten. *)
LEMMA ChainKeepsInv ==
    ASSUME RecordInv, NEW f \in Flows, Mine(f) \/ Revert(f) \/ Drop(f)
    PROVE  RecordInv'
<1>1. PICK state \in {"mined", "reverted", "dropped"} : Becomes(f, state)
    BY DEF Mine, Revert, Drop
<1>2. /\ RecordTypes /\ FlowInv(f) /\ UNCHANGED <<shown, panel, flow, job>>
      /\ txs[f].state = "pending" /\ txs' = [txs EXCEPT ![f].state = state]
    BY <1>1 DEF Becomes, RecordInv
<1>3. PICK Nonces :
          /\ job \in [Flows -> [stage : JobStages, nonce : Nonces, hash : Hashes]]
          /\ txs \in [Flows -> [state : TxStates, report : Reports,
                                wallet : {"none", "relayer", "user"}, nonce : Nonces]]
    BY <1>2 DEF RecordTypes
<1>4. /\ txs' \in [Flows -> [state : TxStates, report : Reports,
                              wallet : {"none", "relayer", "user"}, nonce : Nonces]]
      /\ txs'[f].report = txs[f].report /\ txs'[f].state = state
      /\ \A g \in Flows \ {f} : txs'[g] = txs[g]
    BY <1>2, <1>3 DEF TxStates
<1>5. RecordTypes'
    BY <1>2, <1>3, <1>4 DEF RecordTypes
<1>6. Affects(f)
    BY <1>2, <1>4 DEF Affects, HasPanel
<1>7. FlowInv(f)'
    BY <1>2, <1>4 DEF FlowInv, HasPanel
<1>8. SaysInv'
    BY <1>2, <1>6, SaysStands DEF RecordInv
<1>9. QED
    BY <1>5, <1>6, <1>7, <1>8, AffectsOneFlow

LEMMA RecordStepKeepsInv == RecordInv /\ [RecordNext]_recordVars => RecordInv'
<1> SUFFICES ASSUME RecordInv, [RecordNext]_recordVars PROVE RecordInv'
    OBVIOUS
<1>1. CASE UNCHANGED recordVars
    BY <1>1 DEF recordVars, RecordInv, RecordTypes, FlowInv, PanelIsOnes, SaysInv, HasPanel
<1>2. CASE ShowAnother
    BY <1>2 DEF ShowAnother, RecordInv, RecordTypes, FlowInv, PanelIsOnes, SaysInv, HasPanel
<1>3. ASSUME NEW f \in Flows,
             \/ SubmitRelayer(f) \/ SubmitDon(f) \/ SubmitDirect(f) \/ SubmitCertificate(f)
             \/ SubmitVerified(f)
             \/ BrowserStep(f) \/ RequestFails(f)
             \/ ConsensusArrives(f) \/ WalletSigns(f) \/ WalletRejects(f) \/ WaitReturns(f)
             \/ ServerStep(f)
             \/ Mine(f) \/ Revert(f) \/ Drop(f)
      PROVE  RecordInv'
    BY <1>3, BeginKeepsInv, WaitingKeepsInv, AnswerKeepsInv, SignKeepsInv, ServerKeepsInv,
       ChainKeepsInv DEF BrowserStep
<1>4. QED
    BY <1>1, <1>2, <1>3 DEF RecordNext

(* Whatever the flows, the routes and the chain do and in whatever order they
   answer, the panel belongs to one flow at a time and what it says of a hash
   is said of that flow's transaction. *)
THEOREM RecordingAlwaysInv == RecordSpec => []RecordInv
    BY RecordInitInv, RecordStepKeepsInv, PTL DEF RecordSpec

(* "Confirmed" is said of a mined transaction that carries the clicked report,
   "attested" of a digest. *)
THEOREM ConfirmedAlwaysMined == RecordSpec => []ConfirmedMeansMined
<1>1. RecordInv => ConfirmedMeansMined
    BY DEF RecordInv, FlowInv, SaysInv, ConfirmedMeansMined
<1>2. QED
    BY <1>1, RecordingAlwaysInv, PTL

-----------------------------------------------------------------------------
(* The routes of the validators.  A set of numbers has its elements in ascending
   order, and no element twice. *)
IsAscending(order) == \A i, j \in DOMAIN order : i < j => order[i] < order[j]

LEMMA AscendingExists ==
    ASSUME NEW S, IsFiniteSet(S), S \subseteq Nat
    PROVE  \E order \in [1..Cardinality(S) -> S] : IsAscending(order)
<1> DEFINE Has(T) == \E order \in [1..Cardinality(T) -> T] : IsAscending(order)
           B == {T \in SUBSET S : ~Has(T)}
<1> SUFFICES ASSUME ~Has(S) PROVE FALSE
    OBVIOUS
<1>1. PICK T \in B : \A U \in B : ~(U \subseteq T /\ U # T)
    <2>1. B # {} /\ B \subseteq SUBSET S
        OBVIOUS
    <2> HIDE DEF B, Has
    <2>2. QED
        BY ONLY IsFiniteSet(S), <2>1, LeastSubset
<1>2. T \subseteq Nat /\ IsFiniteSet(T) /\ ~Has(T)
    BY <1>1, FS_Subset
<1>3. T # {}
    <2> SUFFICES ASSUME T = {} PROVE FALSE
        OBVIOUS
    <2>1. Cardinality(T) = 0
        BY FS_EmptySet
    <2>2. <<>> \in [1..Cardinality(T) -> T] /\ IsAscending(<<>>)
        BY <2>1 DEF IsAscending
    <2>3. QED
        BY <1>2, <2>2
<1>4. PICK n \in T : \A i \in T : n <= i
    BY <1>2, <1>3, LeastExists
<1> DEFINE U == T \ {n}
<1>5. Has(U)
    <2> HIDE DEF Has
    <2>1. U \in SUBSET S /\ U \subseteq T /\ U # T
        BY <1>1, <1>4
    <2>2. QED
        BY <1>1, <2>1
<1>6. Cardinality(T) = Cardinality(U) + 1 /\ Cardinality(U) \in Nat
    <2>1. IsFiniteSet(U) /\ Cardinality(U) = Cardinality(T) - 1
        BY <1>2, <1>4, FS_RemoveElement
    <2>2. Cardinality(U) \in Nat /\ Cardinality(T) \in Nat
        BY <1>2, <2>1, FS_CardinalityType
    <2>3. QED
        BY <2>1, <2>2
<1>7. PICK order \in [1..Cardinality(U) -> U] : IsAscending(order)
    BY <1>5
<1> DEFINE size == Cardinality(U)
           more == [i \in 1..(size + 1) |-> IF i = 1 THEN n ELSE order[i - 1]]
<1> HIDE DEF U, size
<1>8. size \in Nat /\ \A i \in 1..size : order[i] \in T /\ order[i] \in Nat /\ n < order[i]
    <2>1. \A x \in U : x \in T /\ x \in Nat /\ n \in Nat /\ n <= x /\ x # n
        BY <1>2, <1>4 DEF U
    <2>2. \A i \in 1..size : order[i] \in U
        BY <1>7 DEF size
    <2>3. QED
        BY <1>6, <2>1, <2>2 DEF size
<1>9. \A i, j \in 1..size : i < j => order[i] < order[j]
    BY <1>7 DEF IsAscending, size
<1>10. more \in [1..(size + 1) -> T]
    BY <1>4, <1>8
<1>11. ASSUME NEW i \in 1..(size + 1), NEW j \in 1..(size + 1), i < j
       PROVE  more[i] < more[j]
    <2>1. j - 1 \in 1..size /\ more[j] = order[j - 1]
        BY <1>8, <1>11
    <2>2. CASE i = 1
        BY <1>8, <1>11, <2>1, <2>2
    <2>3. CASE i # 1
        <3>1. i - 1 \in 1..size /\ i - 1 < j - 1 /\ more[i] = order[i - 1]
            BY <1>8, <1>11, <2>3
        <3>2. QED
            BY <1>9, <2>1, <3>1
    <2>4. QED
        BY <2>2, <2>3
<1>12. IsAscending(more)
    BY <1>10, <1>11 DEF IsAscending
<1>13. more \in [1..Cardinality(T) -> T]
    BY <1>6, <1>10 DEF size
<1>14. QED
    BY <1>2, <1>12, <1>13

LEMMA AscendingIs ==
    ASSUME NEW S, IsFiniteSet(S), S \subseteq Nat
    PROVE  /\ Ascending(S) \in [1..Cardinality(S) -> S] /\ Cardinality(S) \in Nat
           /\ IsAscending(Ascending(S))
<1>1. \E order \in [1..Cardinality(S) -> S] : IsAscending(order)
    BY AscendingExists
<1>2. Ascending(S) = CHOOSE order \in [1..Cardinality(S) -> S] : IsAscending(order)
    BY DEF Ascending, IsAscending
<1>3. QED
    BY <1>1, <1>2, FS_CardinalityType

(* An injective list has as many different entries as it is long. *)
LEMMA DifferentEntries ==
    ASSUME NEW n \in Nat, NEW S, NEW f \in [1..n -> S], IsInjective(f)
    PROVE  /\ IsFiniteSet(ToSet(f)) /\ Cardinality(ToSet(f)) = n
<1>1. IsFiniteSet(1..n) /\ Cardinality(1..n) = n
    BY FS_Interval
<1>2. f \in Surjection(1..n, ToSet(f)) /\ f \in Injection(1..n, ToSet(f))
    BY DEF Surjection, Injection, IsInjective, ToSet
<1>3. QED
    BY <1>1, <1>2, FS_Surjection

(* Sorted signers, each with its signature: what a route of our own answers. *)
Sorted(signers, keys, quorum) ==
    /\ Len(signers) \in Nat /\ DOMAIN signers = 1..Len(signers)
    /\ \A i \in DOMAIN signers : signers[i] \in keys
    /\ Cardinality(ToSet(signers)) >= quorum
    /\ \A i \in 1..(Len(signers) - 1) : signers[i] < signers[i + 1]

LEMMA AscendingIsSorted ==
    ASSUME NEW S, IsFiniteSet(S), S \subseteq Nat, NEW quorum \in Nat, Cardinality(S) >= quorum
    PROVE  Sorted(Ascending(S), S, quorum)
<1> DEFINE order == Ascending(S)
<1>1. order \in [1..Cardinality(S) -> S] /\ Cardinality(S) \in Nat /\ IsAscending(order)
    BY AscendingIs
<1> HIDE DEF order
<1>2. Len(order) = Cardinality(S) /\ DOMAIN order = 1..Cardinality(S)
    BY <1>1
<1>3. IsInjective(order)
    <2>1. \A i \in DOMAIN order : order[i] \in Nat
        BY <1>1
    <2>2. QED
        BY <1>1, <1>2, <2>1 DEF IsInjective, IsAscending
<1>4. Cardinality(ToSet(order)) = Cardinality(S)
    BY <1>1, <1>3, DifferentEntries
<1>5. \A i \in 1..(Len(order) - 1) : order[i] < order[i + 1]
    BY <1>1, <1>2 DEF IsAscending
<1>6. QED
    BY <1>1, <1>2, <1>4, <1>5 DEF Sorted, order

(* Of the nodes that responded the first quorum are that many. *)
LEMMA FirstRespondingIsEnough ==
    ASSUME NEW quorum \in Nat, Cardinality(Responding) >= quorum
    PROVE  IsFiniteSet(FirstResponding(quorum)) /\ Cardinality(FirstResponding(quorum)) >= quorum
<1> DEFINE R == Responding
           F == FirstResponding(quorum)
<1>1. IsFiniteSet(R) /\ R \subseteq 1..3 /\ F \subseteq R /\ IsFiniteSet(F)
    <2>1. IsFiniteSet(1..3)
        BY FS_Interval, 1 \in Int, 3 \in Int
    <2>2. R \subseteq 1..3 /\ F \subseteq R
        BY DEF Responding, FirstResponding
    <2>3. QED
        BY <2>1, <2>2, FS_Subset
<1>2. Cardinality(F) \in Nat
    BY <1>1, FS_CardinalityType
<1> SUFFICES ASSUME Cardinality(F) < quorum PROVE FALSE
    BY <1>1, <1>2
<1>3. R \ F # {}
    BY <1>1, <1>2
<1>4. PICK i \in R \ F : \A j \in R \ F : i <= j
    <2>1. 1..3 \subseteq Nat
        OBVIOUS
    <2> HIDE DEF R, F
    <2>2. R \ F \subseteq Nat
        BY <1>1, <2>1
    <2>3. QED
        BY <1>3, <2>2, LeastExists
<1> DEFINE below == {j \in R : j < i}
<1>5. below \subseteq F
    <2> HIDE DEF R, F
    <2>1. ASSUME NEW j \in R, j < i PROVE j \in F
        <3>1. i \in 1..3 /\ j \in 1..3
            BY <1>1, <1>4
        <3>2. ~(i <= j)
            BY <2>1, <3>1
        <3>3. QED
            BY <1>4, <3>2
    <2>2. QED
        BY <2>1
<1>6. Cardinality(below) <= Cardinality(F) /\ IsFiniteSet(below)
    BY <1>1, <1>5, FS_Subset
<1>7. Cardinality(below) \in Nat
    BY <1>6, FS_CardinalityType
<1>8. Cardinality(below) < quorum
    BY <1>2, <1>6, <1>7
<1>9. i \in F
    BY <1>4, <1>8 DEF FirstResponding
<1>10. QED
    BY <1>4, <1>9

LEMMA ThreeEntries ==
    ASSUME NEW s \in Seq(Nat), Len(s) = 3
    PROVE  s \in [1..3 -> Nat]
    OBVIOUS

(* The first quorum of the local keys, in their order and sorted. *)
LEMMA FirstLocalAre ==
    ASSUME NEW quorum \in 1..3
    PROVE  /\ FirstLocal(quorum) \in [1..quorum -> Nat] /\ Len(FirstLocal(quorum)) = quorum
           /\ ToSet(FirstLocal(quorum)) \subseteq ToSet(Local)
           /\ ToSet(FirstLocal(quorum)) \subseteq Nat
           /\ IsFiniteSet(ToSet(FirstLocal(quorum)))
           /\ Cardinality(ToSet(FirstLocal(quorum))) = quorum
<1>1. Local \in [1..3 -> Nat] /\ IsInjective(Local)
    BY DonRoutesAssumption, ThreeEntries
<1> DEFINE first == SubSeq(Local, 1, quorum)
<1>2. first \in [1..quorum -> Nat] /\ \A i \in 1..quorum : first[i] = Local[i]
    <2>1. first = [i \in 1..quorum |-> Local[i]]
        BY <1>1
    <2>2. \A i \in 1..quorum : Local[i] \in Nat
        <3>1. \A i \in 1..quorum : i \in 1..3
            OBVIOUS
        <3>2. QED
            BY <1>1, <3>1
    <2> HIDE DEF first
    <2>3. QED
        BY <2>1, <2>2
<1>3. \A i \in 1..quorum : i \in 1..3
    OBVIOUS
<1>4. Len(first) = quorum
    BY <1>1
<1> HIDE DEF first
<1>5. IsInjective(first)
    BY <1>1, <1>2, <1>3 DEF IsInjective
<1>6. /\ IsFiniteSet(ToSet(first)) /\ Cardinality(ToSet(first)) = quorum
      /\ quorum \in Nat
    BY <1>2, <1>5, DifferentEntries
<1>7. ToSet(first) \subseteq Nat /\ ToSet(first) \subseteq ToSet(Local)
    BY <1>1, <1>2, <1>3 DEF ToSet
<1>8. QED
    BY <1>2, <1>4, <1>6, <1>7 DEF FirstLocal, first

LEMMA LocalSignersAre ==
    ASSUME NEW quorum \in 1..3
    PROVE  Sorted(LocalSigners(quorum), ToSet(Local), quorum)
<1> DEFINE keys == ToSet(FirstLocal(quorum))
<1>1. /\ IsFiniteSet(keys) /\ keys \subseteq Nat /\ keys \subseteq ToSet(Local)
      /\ Cardinality(keys) >= quorum /\ quorum \in Nat
    BY FirstLocalAre
<1> HIDE DEF keys
<1>2. Sorted(Ascending(keys), keys, quorum)
    BY <1>1, AscendingIsSorted
<1>3. QED
    BY <1>1, <1>2 DEF Sorted, LocalSigners, keys

-----------------------------------------------------------------------------
(* The request: who signed what a node replied, if it did, is the node. *)
DonFields == {"phase", "over", "format", "quorum", "replies", "mode", "signers", "signatures", "hash"}

DonInv ==
    /\ DOMAIN don = DonFields
    /\ DOMAIN don.replies = 1..3
    /\ \A i \in 1..3 : don.replies[i] \in {NoReply, Waiting} \/ don.replies[i].by = Nodes[i]
    /\ don.phase \in {"arrived", "refused", "asking", "health", "answered"}
    /\ don.phase = "asking" => don.quorum \in 1..3
    /\ QuorumIsGenuine

LEMMA DonInitInv == DonInit => DonInv
<1> SUFFICES ASSUME DonInit PROVE DonInv
    OBVIOUS
<1>1. don.phase = "arrived" /\ don.replies = <<Waiting, Waiting, Waiting>> /\ DOMAIN don = DonFields
    BY DEF DonInit, DonFields
<1>2. QED
    BY <1>1 DEF DonInv, QuorumIsGenuine, Claims

LEMMA SignEntries ==
    ASSUME NEW keys, NEW hash, Len(keys) \in Nat, DOMAIN keys = 1..Len(keys)
    PROVE  /\ \A i \in DOMAIN keys : Sign(keys, hash)[i] = Signature(keys[i], hash)
           /\ Len(Sign(keys, hash)) = Len(keys)
    BY DEF Sign

(* What an answer leaves. *)
LEMMA AnswerLeaves ==
    ASSUME DonInv, don.phase = "asking", NEW mode, NEW signers, NEW signatures, NEW hash,
           DonAnswer(mode, signers, signatures, hash)
    PROVE  /\ don'.phase = "answered" /\ don'.mode = mode /\ don'.signers = signers
           /\ don'.signatures = signatures /\ don'.over = don.over
           /\ don'.quorum = don.quorum /\ don'.replies = don.replies /\ DOMAIN don' = DonFields
    BY DEF DonInv, DonAnswer, DonFields

LEMMA LocalQuorumKeepsInv ==
    ASSUME DonInv, LocalQuorum
    PROVE  DonInv'
<1> DEFINE signers == LocalSigners(don.quorum)
           hash == Packed(don.over)
           signatures == Sign(signers, hash)
<1>1. don.phase = "asking" /\ don.quorum \in 1..3
    BY DEF DonInv, LocalQuorum
<1>2. Sorted(signers, ToSet(Local), don.quorum)
    BY <1>1, LocalSignersAre
<1>3. DonAnswer("LOCAL", signers, signatures, hash)
    BY DEF LocalQuorum
<1> HIDE DEF signers
<1>4. /\ \A i \in DOMAIN signers : signatures[i] = Signature(signers[i], hash)
      /\ Len(signatures) = Len(signers)
    BY <1>2, SignEntries DEF Sorted
<1> HIDE DEF signatures
<1>5. /\ don'.phase = "answered" /\ don'.mode = "LOCAL" /\ don'.signers = signers
      /\ don'.signatures = signatures /\ don'.over = don.over
      /\ don'.quorum = don.quorum /\ don'.replies = don.replies /\ DOMAIN don' = DonFields
    BY <1>1, <1>3, AnswerLeaves
<1>6. QuorumIsGenuine'
    BY <1>2, <1>4, <1>5 DEF QuorumIsGenuine, Claims, SignedBy, Sorted
<1>7. QED
    BY <1>5, <1>6 DEF DonInv

LEMMA LocalTypedQuorumKeepsInv ==
    ASSUME DonInv, LocalTypedQuorum
    PROVE  DonInv'
<1> DEFINE signers == FirstLocal(don.quorum)
           hash == Typed(don.over)
           signatures == Sign(signers, hash)
           none == Unsigned("null")
<1>1. don.phase = "asking" /\ don.quorum \in 1..3
    BY DEF DonInv, LocalTypedQuorum
<1>2. /\ signers \in [1..don.quorum -> Nat] /\ Len(signers) = don.quorum
      /\ ToSet(signers) \subseteq ToSet(Local) /\ Cardinality(ToSet(signers)) = don.quorum
    BY <1>1, FirstLocalAre
<1>3. DonAnswer("LOCAL_TYPED", signers, signatures, none)
    BY DEF LocalTypedQuorum
<1> HIDE DEF signers, none
<1>4. /\ \A i \in DOMAIN signers : signatures[i] = Signature(signers[i], hash)
      /\ Len(signatures) = Len(signers)
    BY <1>1, <1>2, SignEntries
<1>5. \A i \in DOMAIN signers : signers[i] \in ToSet(Local)
    BY <1>2 DEF ToSet
<1> HIDE DEF signatures
<1>6. /\ don'.phase = "answered" /\ don'.mode = "LOCAL_TYPED" /\ don'.signers = signers
      /\ don'.signatures = signatures /\ don'.over = don.over
      /\ don'.quorum = don.quorum /\ don'.replies = don.replies /\ DOMAIN don' = DonFields
    BY <1>1, <1>3, AnswerLeaves
<1>7. QuorumIsGenuine'
    BY <1>1, <1>2, <1>4, <1>5, <1>6 DEF QuorumIsGenuine, Claims, SignedBy
<1>8. QED
    BY <1>6, <1>7 DEF DonInv

(* Sorting the attestations by signer keeps every one of them beside the node
   that gave it, for no two nodes share a key. *)
LEMMA DistributedQuorumKeepsInv ==
    ASSUME DonInv, DistributedQuorum
    PROVE  DonInv'
<1> DEFINE first == FirstResponding(don.quorum)
           attestations == {don.replies[i] : i \in first}
           keys == {a.by : a \in attestations}
           signers == Ascending(keys)
           selected == [i \in DOMAIN signers |-> CHOOSE a \in attestations : a.by = signers[i]]
           hash == selected[1].over
<1>1. /\ don.phase = "asking" /\ AllReplied /\ don.quorum \in 1..3 /\ don.quorum \in Nat
      /\ \A i \in 1..3 : don.replies[i] \in {NoReply, Waiting} \/ don.replies[i].by = Nodes[i]
    BY DEF DonInv, DistributedQuorum
<1>2. IsFiniteSet(first) /\ Cardinality(first) >= don.quorum
    <2>1. Cardinality(Responding) >= don.quorum
        BY DEF DistributedQuorum, EnoughNodes
    <2>2. QED
        BY <1>1, <2>1, FirstRespondingIsEnough
<1>3. \A i \in first : i \in 1..3 /\ don.replies[i].by = Nodes[i]
    BY <1>1 DEF FirstResponding, Responding, AllReplied
<1>4. Nodes \in [1..3 -> Nat] /\ IsInjective(Nodes)
    BY DonRoutesAssumption, ThreeEntries
<1>5. DonAnswer("DISTRIBUTED", signers, selected, hash)
    BY DEF DistributedQuorum
<1> DEFINE keyOf == [i \in first |-> Nodes[i]]
<1> HIDE DEF first
<1>6. keys = {Nodes[i] : i \in first}
    BY <1>3
<1> HIDE DEF keys
<1>7. keyOf \in Surjection(first, keys) /\ keyOf \in Injection(first, keys)
    BY <1>3, <1>4, <1>6 DEF Surjection, Injection, IsInjective
<1>8. keys \subseteq Nat
    BY <1>3, <1>4, <1>6
<1> HIDE DEF keyOf
<1>9. IsFiniteSet(keys) /\ Cardinality(keys) = Cardinality(first)
    BY <1>2, <1>7, FS_Surjection
<1>10. Sorted(signers, keys, don.quorum)
    BY <1>1, <1>2, <1>8, <1>9, AscendingIsSorted
<1> HIDE DEF signers
<1>11. ASSUME NEW i \in DOMAIN signers
       PROVE  \E n \in 1..3 : /\ selected[i] = don.replies[n]
                              /\ selected[i].by = signers[i] /\ signers[i] = Nodes[n]
    <2>1. signers[i] \in keys
        BY <1>10, <1>11 DEF Sorted
    <2>2. \E a \in attestations : a.by = signers[i]
        BY <2>1 DEF keys
    <2> HIDE DEF attestations
    <2>3. selected[i] \in attestations /\ selected[i].by = signers[i]
        BY <1>11, <2>2
    <2>4. PICK n \in first : selected[i] = don.replies[n]
        BY <2>3 DEF attestations
    <2>5. QED
        BY <1>3, <2>3, <2>4
<1>12. Len(selected) = Len(signers)
    BY <1>10 DEF Sorted
<1> HIDE DEF selected, hash
<1>13. /\ don'.phase = "answered" /\ don'.mode = "DISTRIBUTED" /\ don'.signers = signers
       /\ don'.signatures = selected /\ don'.over = don.over
       /\ don'.quorum = don.quorum /\ don'.replies = don.replies /\ DOMAIN don' = DonFields
    BY <1>1, <1>5, AnswerLeaves
<1>14. QuorumIsGenuine'
    <2>1. \A i \in DOMAIN don'.signers : \E n \in 1..3 :
             /\ don'.signatures[i] = don'.replies[n]
             /\ don'.signatures[i].by = don'.signers[i] /\ don'.signers[i] = Nodes[n]
        BY <1>11, <1>13
    <2>2. /\ Len(don'.signers) = Len(don'.signatures)
          /\ Cardinality(ToSet(don'.signers)) >= don'.quorum
          /\ \A i \in 1..(Len(don'.signers) - 1) : don'.signers[i] < don'.signers[i + 1]
        BY <1>10, <1>12, <1>13 DEF Sorted
    <2>3. QED
        BY <1>13, <2>1, <2>2 DEF QuorumIsGenuine, Claims
<1>15. QED
    BY <1>13, <1>14 DEF DonInv

LEMMA RecordDonKeepsInv ==
    ASSUME DonInv, TakeClientQuorum \/ GenerateQuorum
    PROVE  DonInv'
<1>1. ASSUME NEW m, NEW mode \in {"client_verified", "server_generated"}, NEW signers,
             NEW signatures, RecordDonAnswer(m, mode, signers, signatures)
      PROVE  /\ don'.phase = "answered" /\ don'.mode = mode /\ don'.signers = signers
             /\ don'.signatures = signatures /\ don'.over = m /\ don'.quorum = 2
             /\ don'.replies = don.replies /\ DOMAIN don' = DonFields
    BY <1>1 DEF RecordDonAnswer, DonInv, DonFields
<1>2. CASE TakeClientQuorum
    <2>1. PICK m \in Messages, lists \in Lists :
              /\ Verify(lists[1], lists[2], Packed(m), 2)
              /\ RecordDonAnswer(m, "client_verified", lists[1], lists[2])
        BY <1>2 DEF TakeClientQuorum
    <2> DEFINE signers == lists[1]
               signatures == lists[2]
    <2>2. Verify(signers, signatures, Packed(m), 2)
          /\ RecordDonAnswer(m, "client_verified", signers, signatures)
        BY <2>1
    <2> HIDE DEF signers, signatures
    <2>3. /\ don'.phase = "answered" /\ don'.mode = "client_verified" /\ don'.signers = signers
          /\ don'.signatures = signatures /\ don'.over = m /\ don'.quorum = 2
          /\ don'.replies = don.replies /\ DOMAIN don' = DonFields
        BY <1>1, <2>2
    <2>4. QuorumIsGenuine'
        BY <2>2, <2>3 DEF QuorumIsGenuine, Claims, SignedBy, Verify
    <2>5. QED
        BY <2>3, <2>4 DEF DonInv
<1>3. CASE GenerateQuorum
    <2> DEFINE signers == LocalSigners(2)
    <2>1. Sorted(signers, ToSet(Local), 2)
        BY LocalSignersAre
    <2>2. PICK m \in Messages :
              RecordDonAnswer(m, "server_generated", signers, Sign(signers, Packed(m)))
        BY <1>3 DEF GenerateQuorum
    <2> DEFINE hash == Packed(m)
               signatures == Sign(signers, hash)
    <2> HIDE DEF signers
    <2>3. /\ \A i \in DOMAIN signers : signatures[i] = Signature(signers[i], hash)
          /\ Len(signatures) = Len(signers)
        BY <2>1, SignEntries DEF Sorted
    <2>4. RecordDonAnswer(m, "server_generated", signers, signatures)
        BY <2>2
    <2> HIDE DEF signatures
    <2>5. /\ don'.phase = "answered" /\ don'.mode = "server_generated" /\ don'.signers = signers
          /\ don'.signatures = signatures /\ don'.over = m /\ don'.quorum = 2
          /\ don'.replies = don.replies /\ DOMAIN don' = DonFields
        BY <1>1, <2>4
    <2>6. QuorumIsGenuine'
        BY <2>1, <2>3, <2>5 DEF QuorumIsGenuine, Claims, SignedBy, Sorted
    <2>7. QED
        BY <2>5, <2>6 DEF DonInv
<1>4. QED
    BY <1>2, <1>3

(* A reply is the node's own. *)
LEMMA ReplyKeepsInv ==
    ASSUME DonInv, NEW i \in 1..3, NEW reply, Receive(i, reply),
           don.phase \in {"asking", "health"},
           reply = NoReply \/ reply.by = Nodes[i]
    PROVE  DonInv'
<1>1. /\ don'.replies = [don.replies EXCEPT ![i] = reply] /\ DOMAIN don' = DonFields
      /\ don'.phase = don.phase /\ don'.quorum = don.quorum /\ don.phase # "answered"
    BY DEF DonInv, DonFields, Receive
<1>2. QED
    BY <1>1 DEF DonInv, QuorumIsGenuine, Claims

LEMMA DonStepKeepsInv == DonInv /\ [DonNext]_don => DonInv'
<1> SUFFICES ASSUME DonInv, [DonNext]_don PROVE DonInv'
    OBVIOUS
<1>1. CASE UNCHANGED don
    BY <1>1 DEF DonInv, QuorumIsGenuine, Claims, SignedBy
<1>2. CASE DonRefuses
    BY <1>2 DEF DonRefuses, DonInv, DonFields, QuorumIsGenuine, Claims
<1>3. CASE AskNodes
    <2>1. PICK m \in Messages, q \in Quorums, f \in {"packed", "eip712"} :
              don' = [don EXCEPT !.phase = "asking", !.over = m, !.quorum = ClampQuorum(q),
                                 !.format = f]
        BY <1>3 DEF AskNodes
    <2>2. ClampQuorum(q) \in 1..3
        BY DonRoutesAssumption DEF ClampQuorum
    <2>3. don'.phase = "asking" /\ don'.quorum = ClampQuorum(q) /\ don'.replies = don.replies
          /\ DOMAIN don' = DonFields
        BY <2>1 DEF DonInv, DonFields
    <2>4. QED
        BY <2>2, <2>3 DEF DonInv, QuorumIsGenuine, Claims
<1>4. CASE AskHealth
    BY <1>4 DEF AskHealth, DonInv, DonFields, QuorumIsGenuine, Claims
<1>5. ASSUME NEW i \in 1..3, NodeAttests(i) \/ NodeReportsHealth(i) \/ NodeFails(i) PROVE DonInv'
    <2>1. CASE NodeAttests(i)
        <3>1. PICK own \in Computed : Receive(i, Signature(Nodes[i], Packed(own)))
            BY <2>1 DEF NodeAttests
        <3>2. Signature(Nodes[i], Packed(own)).by = Nodes[i]
            BY DEF Signature
        <3>3. QED
            BY <2>1, <3>1, <3>2, ReplyKeepsInv DEF NodeAttests
    <2>2. CASE NodeReportsHealth(i)
        <3>1. Signature(Nodes[i], Unsigned("health")).by = Nodes[i]
            BY DEF Signature
        <3>2. QED
            BY <2>2, <3>1, ReplyKeepsInv DEF NodeReportsHealth
    <2>3. CASE NodeFails(i)
        BY <2>3, ReplyKeepsInv DEF NodeFails
    <2>4. QED
        BY <1>5, <2>1, <2>2, <2>3
<1>6. CASE ClusterHealth
    <2>1. PICK mode, signers, signatures, hash :
              DonAnswer(mode, signers, signatures, hash) /\ mode \notin Modes
        BY <1>6 DEF ClusterHealth, ClusterMode, Modes
    <2>2. don'.mode = mode /\ don'.phase = "answered" /\ don'.replies = don.replies
          /\ DOMAIN don' = DonFields
        BY <2>1 DEF DonAnswer, DonInv, DonFields
    <2>3. QED
        BY <2>1, <2>2 DEF DonInv, QuorumIsGenuine, Claims
<1>7. QED
    BY <1>1, <1>2, <1>3, <1>4, <1>5, <1>6, LocalQuorumKeepsInv, LocalTypedQuorumKeepsInv,
       DistributedQuorumKeepsInv, RecordDonKeepsInv DEF DonNext

(* Who answers with a quorum has one, whichever nodes failed, in whatever order
   they answered and whatever the caller listed: local signatures of different
   validators over what was asked, or attestations different nodes gave. *)
THEOREM QuorumsAlwaysGenuine == DonSpec => []QuorumIsGenuine
<1>1. DonInv => QuorumIsGenuine
    BY DEF DonInv
<1>2. QED
    BY <1>1, DonInitInv, DonStepKeepsInv, PTL DEF DonSpec

-----------------------------------------------------------------------------
(* What the pages show of the chain.  The chain only grows: *)
ChainTypes == onchain \in [Subjects -> [count : Nat, final : SUBSET Nat]] /\ proofs \in Nat

ChainGrows ==
    /\ ChainTypes'
    /\ \A s \in Subjects :
          onchain[s].count <= onchain'[s].count /\ onchain[s].final \subseteq onchain'[s].final
    /\ Total \in Nat /\ Total' \in Nat /\ Total <= Total'
    /\ proofs <= proofs' /\ answerable \subseteq answerable'

(* A certificate as read: the report of its place, final if it says so. *)
Certificate == [subject : Subjects, report : Nat, isFinalized : BOOLEAN]

TrueOf(certificate, s, i) ==
    /\ certificate.subject = s /\ certificate.report = i
    /\ certificate.isFinalized => i \in onchain[s].final

ReadTypes ==
    fetching \in [Fetches -> [stage : {"idle", "asking", "checking"}, subject : Subjects \cup {Null},
                              length : Nat, parsed : Seq(Certificate)]]

ReadInv(k) ==
    fetching[k].stage # "idle" =>
        LET s == fetching[k].subject
            parsed == fetching[k].parsed IN
        /\ s \in Subjects
        /\ fetching[k].stage = "asking" => parsed = <<>>
        /\ fetching[k].stage = "checking" =>
              Len(parsed) < fetching[k].length /\ fetching[k].length <= onchain[s].count
        /\ \A i \in DOMAIN parsed : TrueOf(parsed[i], s, i)

PanelInv ==
    /\ certificates.records \in Seq(Certificate)
    /\ CertificatesAreTrue

PollTypes ==
    poll \in [Polls -> [stage : {"idle", "asking"}, viewer : Viewers \cup {Null},
                        count : Nat \cup {Null}, verified : Nat \cup {Null}]]

(* A figure that was read is not ahead of the chain, shown or not. *)
PollInv(k) ==
    /\ poll[k].count # Null => poll[k].count <= Total
    /\ poll[k].verified # Null => poll[k].verified <= proofs

FigureTypes ==
    figures \in [Viewers -> [connected : BOOLEAN, count : Nat \cup {Null}, verified : Nat \cup {Null}]]

Genuine(result) == result # Null => (result.live => result.tx \in answerable)

HistoryInv == ReadTypes /\ (\A k \in Fetches : ReadInv(k)) /\ PanelInv
FiguresInv == PollTypes /\ FigureTypes /\ (\A k \in Polls : PollInv(k)) /\ FiguresAreTrue
CheckInv   == Genuine(attested) /\ Genuine(used)

ViewsInv == ChainTypes /\ HistoryInv /\ FiguresInv /\ CheckInv

-----------------------------------------------------------------------------
LEMMA ViewsInitInv == ViewsInit => ViewsInv
<1> SUFFICES ASSUME ViewsInit PROVE ViewsInv
    OBVIOUS
<1>1. ChainTypes
    BY DEF ViewsInit, ChainTypes
<1>2. HistoryInv
    <2>1. ReadTypes /\ \A k \in Fetches : fetching[k].stage = "idle"
        BY DEF ViewsInit, ReadTypes, Idle
    <2>2. certificates.records = <<>>
        BY DEF ViewsInit
    <2>3. QED
        BY <2>1, <2>2 DEF HistoryInv, ReadInv, PanelInv, CertificatesAreTrue
<1>3. FiguresInv
    <2>1. PollTypes /\ \A k \in Polls : poll[k].count = Null /\ poll[k].verified = Null
        BY DEF ViewsInit, PollTypes, NotPolling
    <2>2. FigureTypes /\ \A v \in Viewers : figures[v].count = Null /\ figures[v].verified = Null
        BY DEF ViewsInit, FigureTypes
    <2>3. QED
        BY <2>1, <2>2 DEF FiguresInv, PollInv, FiguresAreTrue
<1>4. QED
    BY <1>1, <1>2, <1>3 DEF ViewsInit, ViewsInv, CheckInv, Genuine

LEMMA TotalType ==
    ASSUME ChainTypes
    PROVE  Total \in Nat
<1> DEFINE counts == [s \in Subjects |-> onchain[s].count]
<1>1. \A s \in Subjects : counts[s] \in Nat
    BY DEF ChainTypes
<1> HIDE DEF counts
<1>2. SumOver(counts, Subjects) \in Nat
    BY <1>1, SumCoversParts, ViewsAssumption
<1>3. QED
    BY <1>2 DEF Total, counts

LEMMA SaveGrows ==
    ASSUME ChainTypes, NEW s \in Subjects, Save(s), proofs' \in {proofs, proofs + 1},
           answerable' = answerable
    PROVE  ChainGrows
<1> DEFINE counts == [t \in Subjects |-> onchain[t].count]
           became == [t \in Subjects |-> onchain'[t].count]
<1>1. /\ onchain' \in [Subjects -> [count : Nat, final : SUBSET Nat]]
      /\ onchain'[s].count = onchain[s].count + 1 /\ onchain'[s].final = onchain[s].final
      /\ \A t \in Subjects \ {s} : onchain'[t] = onchain[t]
    BY DEF Save, ChainTypes
<1>2. \A t \in Subjects : onchain[t].count \in Nat
    BY DEF ChainTypes
<1>3. /\ \A t \in Subjects : counts[t] \in Int
      /\ became[s] \in Int /\ became[s] = counts[s] + 1
      /\ \A t \in Subjects \ {s} : became[t] = counts[t]
    BY <1>1, <1>2
<1> HIDE DEF counts, became
<1>4. SumOver(became, Subjects) = SumOver(counts, Subjects) + (became[s] - counts[s])
    BY <1>3, SumOfChanged, ViewsAssumption
<1>5. Total = SumOver(counts, Subjects) /\ Total' = SumOver(became, Subjects)
    BY DEF Total, counts, became
<1>6. Total \in Nat /\ Total' = Total + 1
    BY <1>3, <1>4, <1>5, TotalType
<1>7. \A t \in Subjects : onchain[t].count <= onchain'[t].count /\ onchain[t].final = onchain'[t].final
    BY <1>1, <1>2
<1>8. proofs \in Nat
    BY DEF ChainTypes
<1>9. QED
    BY <1>1, <1>6, <1>7, <1>8 DEF ChainGrows, ChainTypes

LEMMA RestGrows ==
    ASSUME ChainTypes, UNCHANGED <<onchain, proofs>>, answerable \subseteq answerable'
    PROVE  ChainGrows
<1>1. Total' = Total /\ Total \in Nat
    BY TotalType DEF Total
<1>2. \A s \in Subjects : onchain[s].count \in Nat
    BY DEF ChainTypes
<1>3. QED
    BY <1>1, <1>2 DEF ChainGrows, ChainTypes

LEMMA FinalGrows ==
    ASSUME ChainTypes, NEW s \in Subjects, BecomeFinal(s)
    PROVE  ChainGrows
<1> DEFINE counts == [t \in Subjects |-> onchain[t].count]
           became == [t \in Subjects |-> onchain'[t].count]
<1>1. PICK i \in 1..onchain[s].count : onchain' = [onchain EXCEPT ![s].final = @ \cup {i}]
    BY DEF BecomeFinal
<1>2. i \in Nat /\ \A t \in Subjects : onchain[t].count \in Nat
    BY <1>1 DEF ChainTypes
<1>3. /\ onchain' \in [Subjects -> [count : Nat, final : SUBSET Nat]]
      /\ \A t \in Subjects :
            onchain'[t].count = onchain[t].count /\ onchain[t].final \subseteq onchain'[t].final
    BY <1>1, <1>2 DEF ChainTypes
<1>4. \A t \in Subjects : became[t] = counts[t]
    BY <1>3
<1> HIDE DEF counts, became
<1>5. SumOver(became, Subjects) = SumOver(counts, Subjects)
    BY <1>4, SumOfSame, ViewsAssumption
<1>6. Total = SumOver(counts, Subjects) /\ Total' = SumOver(became, Subjects)
    BY DEF Total, counts, became
<1>7. Total' = Total /\ Total \in Nat
    BY <1>5, <1>6, TotalType
<1>8. UNCHANGED <<proofs, answerable>> /\ proofs \in Nat
    BY DEF BecomeFinal, ChainTypes
<1>9. QED
    BY <1>2, <1>3, <1>7, <1>8 DEF ChainGrows, ChainTypes

LEMMA StepGrows == ChainTypes /\ [ViewsNext]_viewVars => ChainGrows
<1> SUFFICES ASSUME ChainTypes, [ViewsNext]_viewVars PROVE ChainGrows
    OBVIOUS
<1>1. ASSUME NEW s \in Subjects, SaveReport(s) \/ SaveReportWithProof(s) PROVE ChainGrows
    BY <1>1, SaveGrows DEF SaveReport, SaveReportWithProof
<1>2. ASSUME NEW s \in Subjects, BecomeFinal(s) PROVE ChainGrows
    BY <1>2, FinalGrows
<1>3. CASE HistoryNext \/ FiguresNext \/ UNCHANGED viewVars
    <2>1. UNCHANGED <<onchain, proofs, answerable>>
        BY <1>3 DEF HistoryNext, FiguresNext, viewVars, chainVars, FetchOnChainHistory,
           HistoryFails, NoHistory, HistoryArrives, FinalityArrives, EndFetch, AskFigures,
           ReadReportCount, ReadVerifiedProofCount, FiguresArrive, RpcFails, HeaderGetsNothing,
           DashboardGetsNothing, ShowFigures
    <2>2. QED
        BY <2>1, RestGrows
<1>4. CASE CheckNext
    <2>1. UNCHANGED <<onchain, proofs>> /\ answerable \subseteq answerable'
        BY <1>4 DEF CheckNext, chainVars, BlockAttested, TypeHash, UseAttested, VerifyBox,
           VerifyExample, StartCheck, ProverAnswers, CommitInstead, CheckFails, EndCheck
    <2>2. QED
        BY <2>1, RestGrows
<1>5. QED
    BY <1>1, <1>2, <1>3, <1>4 DEF ViewsNext, ChainNext

(* What was true of the chain stays true while it grows. *)
LEMMA ReadStays ==
    ASSUME ChainTypes, ChainGrows, ReadTypes, NEW k \in Fetches, ReadInv(k),
           fetching'[k] = fetching[k]
    PROVE  ReadInv(k)'
<1>1. ASSUME fetching[k].stage # "idle"
      PROVE  LET s == fetching[k].subject IN
             /\ s \in Subjects /\ onchain[s].count <= onchain'[s].count
             /\ onchain[s].final \subseteq onchain'[s].final
             /\ onchain[s].count \in Nat /\ onchain'[s].count \in Nat /\ fetching[k].length \in Nat
    BY <1>1 DEF ReadInv, ChainGrows, ChainTypes, ReadTypes
<1>2. QED
    BY <1>1 DEF ReadInv, TrueOf

LEMMA CertificatesStay ==
    ASSUME ChainTypes, ChainGrows, PanelInv, certificates'.records = certificates.records
    PROVE  PanelInv'
<1> DEFINE records == certificates.records
<1>1. ASSUME NEW i \in DOMAIN records
      PROVE  /\ records[i].subject = records[1].subject
             /\ records[i].report = Len(records) + 1 - i
             /\ records[i].report <= onchain'[records[i].subject].count
             /\ records[i].isFinalized =>
                   records[i].report \in onchain'[records[i].subject].final
    <2>1. records[i] \in Certificate
        BY DEF PanelInv
    <2>2. records[i].subject \in Subjects /\ records[i].report \in Nat
        BY <2>1 DEF Certificate
    <2>3. PICK s \in Subjects : s = records[i].subject
        BY <2>2
    <2>4. /\ onchain[s].count <= onchain'[s].count /\ onchain[s].final \subseteq onchain'[s].final
          /\ onchain[s].count \in Nat /\ onchain'[s].count \in Nat
        BY DEF ChainGrows, ChainTypes
    <2>5. /\ records[i].subject = records[1].subject
          /\ records[i].report = Len(records) + 1 - i
          /\ records[i].report <= onchain[s].count
          /\ records[i].isFinalized => records[i].report \in onchain[s].final
        BY <2>3 DEF PanelInv, CertificatesAreTrue
    <2>6. QED
        BY <2>2, <2>3, <2>4, <2>5
<1>2. records \in Seq(Certificate) /\ certificates'.records = records
    BY DEF PanelInv
<1> HIDE DEF records
<1>3. QED
    BY <1>1, <1>2 DEF PanelInv, CertificatesAreTrue

LEMMA PollStays ==
    ASSUME ChainTypes, ChainGrows, PollTypes, NEW k \in Polls, PollInv(k), poll'[k] = poll[k]
    PROVE  PollInv(k)'
<1>1. /\ Total \in Nat /\ Total' \in Nat /\ Total <= Total'
      /\ proofs \in Nat /\ proofs' \in Nat /\ proofs <= proofs'
    BY DEF ChainGrows, ChainTypes
<1>2. poll[k].count \in Nat \cup {Null} /\ poll[k].verified \in Nat \cup {Null}
    BY DEF PollTypes
<1>3. QED
    BY <1>1, <1>2 DEF PollInv

LEMMA FiguresStay ==
    ASSUME ChainTypes, ChainGrows, FigureTypes, FiguresAreTrue, figures' = figures
    PROVE  FiguresAreTrue'
<1>1. /\ Total \in Nat /\ Total' \in Nat /\ Total <= Total'
      /\ proofs \in Nat /\ proofs' \in Nat /\ proofs <= proofs'
    BY DEF ChainGrows, ChainTypes
<1>2. \A v \in Viewers :
          figures[v].count \in Nat \cup {Null} /\ figures[v].verified \in Nat \cup {Null}
    BY DEF FigureTypes
<1>3. QED
    BY <1>1, <1>2 DEF FiguresAreTrue

-----------------------------------------------------------------------------
(* The history. *)
LEMMA EndFetchKeepsInv ==
    ASSUME ChainTypes, ChainGrows, HistoryInv, NEW k \in Fetches,
           NEW records \in Seq(Certificate), EndFetch(k, records),
           \A i \in DOMAIN records :
              /\ records[i].subject = records[1].subject
              /\ records[i].report = Len(records) + 1 - i
              /\ records[i].report <= onchain[records[i].subject].count
              /\ records[i].isFinalized => records[i].report \in onchain[records[i].subject].final
    PROVE  HistoryInv'
<1>1. Idle \in [stage : {"idle", "asking", "checking"}, subject : Subjects \cup {Null},
                length : Nat, parsed : Seq(Certificate)]
    BY DEF Idle
<1>2. ReadTypes' /\ fetching'[k] = Idle /\ \A j \in Fetches \ {k} : fetching'[j] = fetching[j]
    BY <1>1 DEF EndFetch, HistoryInv, ReadTypes
<1>3. Idle.stage = "idle"
    BY DEF Idle
<1>4. \A j \in Fetches : ReadInv(j)'
    <2>1. ReadInv(k)'
        BY <1>2, <1>3 DEF ReadInv
    <2>2. ASSUME NEW j \in Fetches \ {k} PROVE ReadInv(j)'
        BY <1>2, ReadStays DEF HistoryInv
    <2>3. QED
        BY <2>1, <2>2
<1>5. PanelInv'
    <2>1. certificates'.records = records /\ onchain' = onchain
        BY DEF EndFetch, chainVars
    <2>2. QED
        BY <2>1 DEF PanelInv, CertificatesAreTrue
<1>6. QED
    BY <1>2, <1>4, <1>5 DEF HistoryInv

(* A read goes on: it is about the same address and reads on. *)
LEMMA ReadsOnKeepsInv ==
    ASSUME ChainTypes, ChainGrows, HistoryInv, NEW k \in Fetches, NEW became,
           became \in [stage : {"idle", "asking", "checking"}, subject : Subjects \cup {Null},
                    length : Nat, parsed : Seq(Certificate)],
           fetching' = [fetching EXCEPT ![k] = became], onchain' = onchain,
           certificates'.records = certificates.records,
           became.subject \in Subjects,
           became.stage = "asking" => became.parsed = <<>>,
           became.stage = "checking" =>
              Len(became.parsed) < became.length /\ became.length <= onchain[became.subject].count,
           \A i \in DOMAIN became.parsed : TrueOf(became.parsed[i], became.subject, i)
    PROVE  HistoryInv'
<1>1. ReadTypes' /\ fetching'[k] = became /\ \A j \in Fetches \ {k} : fetching'[j] = fetching[j]
    BY DEF HistoryInv, ReadTypes
<1>2. ReadInv(k)'
    BY <1>1 DEF ReadInv, TrueOf
<1>3. ASSUME NEW j \in Fetches \ {k} PROVE ReadInv(j)'
    BY <1>1, ReadStays DEF HistoryInv
<1>4. PanelInv'
    BY CertificatesStay DEF HistoryInv
<1>5. QED
    BY <1>1, <1>2, <1>3, <1>4 DEF HistoryInv

LEMMA FinalityKeepsInv ==
    ASSUME ChainTypes, ChainGrows, HistoryInv, NEW k \in Fetches, FinalityArrives(k)
    PROVE  HistoryInv'
<1> DEFINE s == fetching[k].subject
           parsed == fetching[k].parsed
           length == fetching[k].length
<1>1. /\ fetching[k].stage = "checking" /\ s \in Subjects
      /\ parsed \in Seq(Certificate) /\ length \in Nat
      /\ Len(parsed) < length /\ length <= onchain[s].count /\ onchain[s].count \in Nat
      /\ \A i \in DOMAIN parsed : TrueOf(parsed[i], s, i)
    BY DEF FinalityArrives, HistoryInv, ReadTypes, ReadInv, ChainTypes
<1>2. PICK isFinal \in FinalityOf(k) :
          IF Len(parsed) + 1 < length
            THEN /\ fetching' = [fetching EXCEPT ![k].parsed = Parse(k, isFinal)]
                 /\ UNCHANGED <<chainVars, certificates>>
            ELSE EndFetch(k, Reverse(Parse(k, isFinal)))
    BY DEF FinalityArrives
<1> DEFINE certificate == [subject |-> s, report |-> Len(parsed) + 1, isFinalized |-> isFinal]
           more == Append(parsed, certificate)
<1>3. Parse(k, isFinal) = more
    BY DEF Parse
<1>4. /\ isFinal \in BOOLEAN /\ certificate \in Certificate
      /\ isFinal => Len(parsed) + 1 \in onchain[s].final
    <2>1. isFinal \in BOOLEAN /\ (isFinal => Len(parsed) + 1 \in onchain[s].final)
        <3>1. isFinal = FALSE \/ isFinal = (Len(parsed) + 1 \in onchain[s].final)
            BY <1>2 DEF FinalityOf, PlaceOnChain
        <3>2. CASE isFinal = FALSE
            BY <3>2
        <3>3. CASE isFinal = (Len(parsed) + 1 \in onchain[s].final)
            <4> DEFINE known == Len(parsed) + 1 \in onchain[s].final
            <4>1. known \in BOOLEAN /\ isFinal = known
                BY <3>3
            <4> HIDE DEF known
            <4>2. isFinal \in BOOLEAN /\ (isFinal => known)
                BY <4>1
            <4>3. QED
                BY <4>2 DEF known
        <3>4. QED
            BY <3>1, <3>2, <3>3
    <2>2. QED
        BY <1>1, <2>1 DEF Certificate
<1>5. TrueOf(certificate, s, Len(parsed) + 1)
    BY <1>4 DEF TrueOf
<1> HIDE DEF certificate
<1>6. /\ more \in Seq(Certificate) /\ Len(more) = Len(parsed) + 1
      /\ DOMAIN more = 1..(Len(parsed) + 1) /\ Len(parsed) \in Nat
      /\ \A i \in DOMAIN more : TrueOf(more[i], s, i)
    BY <1>1, <1>4, <1>5
<1> HIDE DEF more
<1>7. CASE Len(parsed) + 1 < length
    <2> DEFINE became == [fetching[k] EXCEPT !.parsed = more]
    <2>1. /\ fetching' = [fetching EXCEPT ![k] = became]
          /\ became \in [stage : {"idle", "asking", "checking"}, subject : Subjects \cup {Null},
                      length : Nat, parsed : Seq(Certificate)]
          /\ became.subject = s /\ became.stage = "checking" /\ became.parsed = more
          /\ became.length = length
        BY <1>1, <1>2, <1>3, <1>6, <1>7, ZenonT(60) DEF HistoryInv, ReadTypes
    <2>2. onchain' = onchain /\ certificates'.records = certificates.records
        BY <1>2, <1>7 DEF chainVars
    <2> HIDE DEF became, s, parsed, length
    <2>3. QED
        BY <1>1, <1>6, <1>7, <2>1, <2>2, ReadsOnKeepsInv
<1>8. CASE ~(Len(parsed) + 1 < length)
    <2> DEFINE records == Reverse(more)
    <2>1. EndFetch(k, records) /\ Len(parsed) + 1 = length
        BY <1>1, <1>2, <1>3, <1>8
    <2>2. /\ records \in Seq(Certificate) /\ Len(records) = length
          /\ DOMAIN records = 1..length
          /\ \A i \in 1..length : records[i] = more[length - i + 1]
        <3>1. records = [i \in 1..length |-> more[length - i + 1]]
            BY <1>6, <2>1 DEF Reverse
        <3>2. \A i \in 1..length : length - i + 1 \in DOMAIN more
            BY <1>1, <1>6, <2>1
        <3>3. \A i \in 1..length : more[length - i + 1] \in Certificate
            BY <1>6, <3>2
        <3> HIDE DEF records, length
        <3>4. QED
            BY <1>1, <3>1, <3>3
    <2>3. ASSUME NEW i \in 1..length
          PROVE  TrueOf(records[i], s, length + 1 - i)
        <3>1. length - i + 1 \in DOMAIN more /\ length - i + 1 = length + 1 - i
            BY <1>1, <1>6, <2>1
        <3>2. QED
            BY <1>6, <2>2, <3>1
    <2>4. \A i \in DOMAIN records :
              /\ records[i].subject = records[1].subject
              /\ records[i].report = Len(records) + 1 - i
              /\ records[i].report <= onchain[records[i].subject].count
              /\ records[i].isFinalized => records[i].report \in onchain[records[i].subject].final
        <3>1. \A i \in 1..length :
                  /\ records[i].subject = s /\ records[i].report = length + 1 - i
                  /\ records[i].isFinalized => length + 1 - i \in onchain[s].final
            BY <2>3 DEF TrueOf
        <3>2. length \in Nat /\ length <= onchain[s].count /\ onchain[s].count \in Nat
            BY <1>1
        <3> HIDE DEF records, s, parsed, length
        <3> DEFINE count == onchain[s].count
        <3>3. \A i \in 1..length : 1 \in 1..length
            BY ONLY <3>2
        <3>4. Len(records) = length /\ DOMAIN records = 1..length
            BY <2>2
        <3>5. \A i \in 1..length : length + 1 - i <= count
            <4> HIDE DEF count
            <4>1. length <= count /\ count \in Nat
                BY <3>2 DEF count
            <4>2. QED
                BY ONLY <3>2, <4>1
        <3>6. QED
            BY ONLY <3>1, <3>3, <3>4, <3>5
    <2> HIDE DEF records
    <2>5. QED
        BY <2>1, <2>2, <2>4, EndFetchKeepsInv
<1>9. QED
    BY <1>7, <1>8

LEMMA HistoryKeepsInv ==
    ASSUME ChainTypes, ChainGrows, HistoryInv, HistoryNext
    PROVE  HistoryInv'
<1>1. ASSUME NEW k \in Fetches, NEW s \in Subjects, FetchOnChainHistory(k, s) PROVE HistoryInv'
    <2> DEFINE became == [Idle EXCEPT !.stage = "asking", !.subject = s]
    <2>1. /\ became \in [stage : {"idle", "asking", "checking"}, subject : Subjects \cup {Null},
                      length : Nat, parsed : Seq(Certificate)]
          /\ became.subject = s /\ became.stage = "asking" /\ became.parsed = <<>>
        <3>1. /\ Idle \in [stage : {"idle", "asking", "checking"}, subject : Subjects \cup {Null},
                           length : Nat, parsed : Seq(Certificate)]
              /\ Idle.parsed = <<>>
            BY DEF Idle
        <3>2. QED
            BY <3>1
    <2>2. /\ fetching' = [fetching EXCEPT ![k] = became] /\ onchain' = onchain
          /\ certificates' = [certificates EXCEPT !.loading = TRUE]
        BY <1>1 DEF FetchOnChainHistory, chainVars
    <2>3. certificates'.records = certificates.records
        BY <2>2
    <2> HIDE DEF became
    <2>4. QED
        <3>1. \A i \in DOMAIN became.parsed : TrueOf(became.parsed[i], became.subject, i)
            BY <2>1, <2>2
        <3>2. became.stage = "checking" =>
                  Len(became.parsed) < became.length /\ became.length <= onchain[became.subject].count
            BY <2>1, <2>2
        <3>3. QED
            BY <2>1, <2>2, <2>3, <3>1, <3>2, ReadsOnKeepsInv
<1>2. ASSUME NEW k \in Fetches, HistoryFails(k) \/ NoHistory(k) PROVE HistoryInv'
    <2>1. EndFetch(k, <<>>) /\ <<>> \in Seq(Certificate) /\ DOMAIN <<>> = {}
        BY <1>2 DEF HistoryFails, NoHistory
    <2>2. QED
        BY <2>1, EndFetchKeepsInv
<1>3. ASSUME NEW k \in Fetches, HistoryArrives(k) PROVE HistoryInv'
    <2> DEFINE became == [fetching[k] EXCEPT !.stage = "checking",
                                          !.length = onchain[fetching[k].subject].count]
    <2>1. /\ fetching[k].subject \in Subjects /\ fetching[k].parsed = <<>>
          /\ onchain[fetching[k].subject].count \in Nat /\ onchain[fetching[k].subject].count > 0
        BY <1>3 DEF HistoryArrives, HistoryInv, ReadInv, ChainTypes
    <2>2. /\ fetching' = [fetching EXCEPT ![k] = became]
          /\ became \in [stage : {"idle", "asking", "checking"}, subject : Subjects \cup {Null},
                      length : Nat, parsed : Seq(Certificate)]
          /\ became.subject = fetching[k].subject /\ became.stage = "checking" /\ became.parsed = <<>>
          /\ became.length = onchain[fetching[k].subject].count
        BY <1>3, <2>1 DEF HistoryArrives, HistoryInv, ReadTypes
    <2>3. onchain' = onchain /\ certificates'.records = certificates.records
        BY <1>3 DEF HistoryArrives, chainVars
    <2> HIDE DEF became
    <2>4. QED
        <3>1. \A i \in DOMAIN became.parsed : TrueOf(became.parsed[i], became.subject, i)
            BY <2>1, <2>2
        <3>2. became.stage = "checking" =>
                  Len(became.parsed) < became.length /\ became.length <= onchain[became.subject].count
            BY <2>1, <2>2
        <3>3. QED
            BY <2>1, <2>2, <2>3, <3>1, <3>2, ReadsOnKeepsInv
<1>4. QED
    BY <1>1, <1>2, <1>3, FinalityKeepsInv DEF HistoryNext

LEMMA HistoryRests ==
    ASSUME ChainTypes, ChainGrows, HistoryInv, UNCHANGED historyVars
    PROVE  HistoryInv'
<1>1. fetching' = fetching /\ certificates' = certificates
    BY DEF historyVars
<1>2. ReadTypes' /\ \A k \in Fetches : ReadInv(k)'
    BY <1>1, ReadStays DEF HistoryInv, ReadTypes
<1>3. PanelInv'
    BY <1>1, CertificatesStay DEF HistoryInv
<1>4. QED
    BY <1>2, <1>3 DEF HistoryInv

-----------------------------------------------------------------------------
(* The figures. *)
PollRecord == [stage : {"idle", "asking"}, viewer : Viewers \cup {Null},
               count : Nat \cup {Null}, verified : Nat \cup {Null}]

LEMMA PollsOn ==
    ASSUME ChainTypes, ChainGrows, FiguresInv, NEW k \in Polls, NEW became \in PollRecord,
           poll' = [poll EXCEPT ![k] = became], UNCHANGED <<onchain, proofs>>,
           became.count # Null => became.count <= Total,
           became.verified # Null => became.verified <= proofs
    PROVE  PollTypes' /\ \A j \in Polls : PollInv(j)'
<1>1. PollTypes' /\ poll'[k] = became /\ \A j \in Polls \ {k} : poll'[j] = poll[j]
    BY DEF FiguresInv, PollTypes, PollRecord
<1>2. Total' = Total
    BY DEF Total
<1>3. PollInv(k)'
    BY <1>1, <1>2 DEF PollInv
<1>4. ASSUME NEW j \in Polls \ {k} PROVE PollInv(j)'
    BY <1>1, PollStays DEF FiguresInv
<1>5. QED
    BY <1>1, <1>3, <1>4

LEMMA NotPollingIs ==
    NotPolling \in PollRecord /\ NotPolling.count = Null /\ NotPolling.verified = Null
    BY DEF NotPolling, PollRecord

LEMMA ReadKeepsInv ==
    ASSUME ChainTypes, ChainGrows, FiguresInv, NEW k \in Polls,
           \/ \E v \in Viewers : AskFigures(k, v)
           \/ ReadReportCount(k) \/ ReadVerifiedProofCount(k) \/ HeaderGetsNothing(k)
    PROVE  FiguresInv'
<1>1. poll[k] \in PollRecord /\ PollInv(k) /\ Total \in Nat /\ proofs \in Nat
    BY DEF FiguresInv, PollTypes, PollRecord, ChainGrows, ChainTypes
<1>2. UNCHANGED <<onchain, proofs, figures>>
    BY DEF AskFigures, ReadReportCount, ReadVerifiedProofCount, HeaderGetsNothing, chainVars
<1>3. \E became \in PollRecord :
          /\ poll' = [poll EXCEPT ![k] = became]
          /\ became.count # Null => became.count <= Total
          /\ became.verified # Null => became.verified <= proofs
    <2>1. ASSUME NEW v \in Viewers, AskFigures(k, v)
          PROVE  \E became \in PollRecord :
                    /\ poll' = [poll EXCEPT ![k] = became]
                    /\ became.count # Null => became.count <= Total
                    /\ became.verified # Null => became.verified <= proofs
        <3> DEFINE became == [NotPolling EXCEPT !.stage = "asking", !.viewer = v]
        <3>1. became \in PollRecord /\ became.count = Null /\ became.verified = Null
            BY NotPollingIs DEF PollRecord
        <3>2. poll' = [poll EXCEPT ![k] = became]
            BY <2>1 DEF AskFigures
        <3> HIDE DEF became
        <3>3. QED
            BY <3>1, <3>2
    <2>2. CASE ReadReportCount(k)
        <3> DEFINE became == [poll[k] EXCEPT !.count = Total]
        <3>1. /\ became \in PollRecord /\ became.count = Total /\ Total <= Total
              /\ became.verified = poll[k].verified
            BY <1>1 DEF PollRecord
        <3>2. poll' = [poll EXCEPT ![k] = became]
            BY <1>1, <2>2 DEF ReadReportCount, FiguresInv, PollTypes
        <3> HIDE DEF became
        <3>3. QED
            BY <1>1, <3>1, <3>2 DEF PollInv
    <2>3. CASE ReadVerifiedProofCount(k)
        <3> DEFINE became == [poll[k] EXCEPT !.verified = proofs]
        <3>1. /\ became \in PollRecord /\ became.verified = proofs /\ proofs <= proofs
              /\ became.count = poll[k].count
            BY <1>1 DEF PollRecord
        <3>2. poll' = [poll EXCEPT ![k] = became]
            BY <1>1, <2>3 DEF ReadVerifiedProofCount, FiguresInv, PollTypes
        <3> HIDE DEF became
        <3>3. QED
            BY <1>1, <3>1, <3>2 DEF PollInv
    <2>4. CASE HeaderGetsNothing(k)
        BY <2>4, NotPollingIs DEF HeaderGetsNothing
    <2>5. QED
        BY <2>1, <2>2, <2>3, <2>4
<1>4. PollTypes' /\ \A j \in Polls : PollInv(j)'
    BY <1>2, <1>3, PollsOn
<1>5. FigureTypes' /\ FiguresAreTrue'
    BY <1>2, FiguresStay DEF FiguresInv, FigureTypes
<1>6. QED
    BY <1>4, <1>5 DEF FiguresInv

LEMMA ShowKeepsInv ==
    ASSUME ChainTypes, ChainGrows, FiguresInv, NEW k \in Polls, NEW connected \in BOOLEAN,
           NEW count \in Nat \cup {Null}, NEW verified \in Nat \cup {Null},
           ShowFigures(k, connected, count, verified),
           count # Null => connected /\ count <= Total,
           verified # Null => verified <= proofs
    PROVE  FiguresInv'
<1> DEFINE display == [connected |-> connected, count |-> count, verified |-> verified]
<1>1. UNCHANGED <<onchain, proofs>> /\ Total' = Total
    BY DEF ShowFigures, chainVars, Total
<1>2. poll' = [poll EXCEPT ![k] = NotPolling]
    BY DEF ShowFigures
<1>3. PollTypes' /\ \A j \in Polls : PollInv(j)'
    BY <1>1, <1>2, NotPollingIs, PollsOn
<1>4. figures' = [figures EXCEPT ![poll[k].viewer] = display]
    BY DEF ShowFigures
<1>5. /\ display \in [connected : BOOLEAN, count : Nat \cup {Null}, verified : Nat \cup {Null}]
      /\ display.count = count /\ display.verified = verified /\ display.connected = connected
    OBVIOUS
<1> HIDE DEF display
<1>6. FigureTypes' /\ \A v \in Viewers : figures'[v] = display \/ figures'[v] = figures[v]
    BY <1>4, <1>5 DEF FiguresInv, FigureTypes
<1>7. FiguresAreTrue'
    BY <1>1, <1>5, <1>6 DEF FiguresInv, FiguresAreTrue
<1>8. QED
    BY <1>3, <1>6, <1>7 DEF FiguresInv

LEMMA FiguresKeepInv ==
    ASSUME ChainTypes, ChainGrows, FiguresInv, FiguresNext
    PROVE  FiguresInv'
<1>1. ASSUME NEW k \in Polls,
             FiguresArrive(k) \/ RpcFails(k) \/ DashboardGetsNothing(k)
      PROVE  FiguresInv'
    <2>1. /\ poll[k].count \in Nat \cup {Null} /\ poll[k].verified \in Nat \cup {Null}
          /\ PollInv(k) /\ proofs \in Nat /\ 0 \in Nat
        BY DEF FiguresInv, PollTypes, ChainTypes
    <2>2. CASE FiguresArrive(k)
        BY <2>1, <2>2, ShowKeepsInv DEF FiguresArrive, PollInv
    <2>3. CASE RpcFails(k)
        <3>1. PICK verified \in {0, Null} : ShowFigures(k, FALSE, Null, verified)
            BY <2>3 DEF RpcFails
        <3>2. verified \in Nat \cup {Null} /\ (verified # Null => verified <= proofs)
            BY <2>1, <3>1
        <3>3. QED
            BY <3>1, <3>2, ShowKeepsInv
    <2>4. CASE DashboardGetsNothing(k)
        BY <2>4, ShowKeepsInv DEF DashboardGetsNothing
    <2>5. QED
        BY <1>1, <2>2, <2>3, <2>4
<1>2. QED
    BY <1>1, ReadKeepsInv DEF FiguresNext

LEMMA FiguresRest ==
    ASSUME ChainTypes, ChainGrows, FiguresInv, UNCHANGED figureVars
    PROVE  FiguresInv'
<1>1. poll' = poll /\ figures' = figures
    BY DEF figureVars
<1>2. PollTypes' /\ FigureTypes' /\ \A k \in Polls : PollInv(k)'
    BY <1>1, PollStays DEF FiguresInv, PollTypes, FigureTypes
<1>3. FiguresAreTrue'
    BY <1>1, FiguresStay DEF FiguresInv
<1>4. QED
    BY <1>2, <1>3 DEF FiguresInv

-----------------------------------------------------------------------------
(* The checks: only an answer of the prover makes a result a live one. *)
LEMMA CheckKeepsInv ==
    ASSUME CheckInv, CheckNext \/ UNCHANGED checkVars, answerable \subseteq answerable'
    PROVE  CheckInv'
<1>1. CASE UNCHANGED checkVars
    BY <1>1 DEF checkVars, CheckInv, Genuine
<1>2. CASE BlockAttested \/ TypeHash
    BY <1>2 DEF BlockAttested, TypeHash, checkVars, CheckInv, Genuine
<1>3. CASE UseAttested
    BY <1>3 DEF UseAttested, CheckInv, Genuine
<1>4. ASSUME NEW k \in Checks, NEW tx, StartCheck(k, tx) PROVE CheckInv'
    BY <1>4 DEF StartCheck, CheckInv, Genuine
<1>5. ASSUME NEW k \in Checks, ProverAnswers(k) \/ CommitInstead(k) \/ CheckFails(k)
      PROVE  CheckInv'
    <2>1. /\ attested' = attested \/ attested' = [tx |-> check[k], live |-> FALSE]
             \/ (attested' = [tx |-> check[k], live |-> TRUE] /\ check[k] \in answerable)
          /\ used' = used
        BY <1>5 DEF ProverAnswers, CommitInstead, CheckFails, EndCheck
    <2>2. QED
        BY <2>1 DEF CheckInv, Genuine
<1>6. QED
    BY <1>1, <1>2, <1>3, <1>4, <1>5 DEF CheckNext, VerifyBox, VerifyExample

LEMMA ViewsStepKeepsInv == ViewsInv /\ [ViewsNext]_viewVars => ViewsInv'
<1> SUFFICES ASSUME ViewsInv, [ViewsNext]_viewVars PROVE ViewsInv'
    OBVIOUS
<1>1. ChainTypes /\ HistoryInv /\ FiguresInv /\ CheckInv
    BY DEF ViewsInv
<1>2. ChainGrows /\ ChainTypes' /\ answerable \subseteq answerable'
    BY <1>1, StepGrows DEF ChainGrows
<1>3. /\ HistoryNext \/ UNCHANGED historyVars
      /\ FiguresNext \/ UNCHANGED figureVars
      /\ CheckNext \/ UNCHANGED checkVars
    <2>1. CASE UNCHANGED viewVars
        BY <2>1 DEF viewVars
    <2>2. CASE ChainNext
        BY <2>2 DEF ChainNext, SaveReport, SaveReportWithProof, BecomeFinal
    <2>3. CASE HistoryNext
        <3>1. UNCHANGED <<figureVars, checkVars>>
            BY <2>3 DEF HistoryNext, FetchOnChainHistory, HistoryFails, NoHistory,
               HistoryArrives, FinalityArrives, EndFetch
        <3>2. QED
            BY <2>3, <3>1
    <2>4. CASE FiguresNext
        <3>1. UNCHANGED <<historyVars, checkVars>>
            BY <2>4 DEF FiguresNext, AskFigures, ReadReportCount, ReadVerifiedProofCount,
               FiguresArrive, RpcFails, HeaderGetsNothing, DashboardGetsNothing, ShowFigures
        <3>2. QED
            BY <2>4, <3>1
    <2>5. CASE CheckNext
        <3>1. UNCHANGED <<historyVars, figureVars>>
            BY <2>5 DEF CheckNext, BlockAttested, TypeHash, UseAttested, VerifyBox,
               VerifyExample, StartCheck, ProverAnswers, CommitInstead, CheckFails, EndCheck
        <3>2. QED
            BY <2>5, <3>1
    <2>6. QED
        BY <2>1, <2>2, <2>3, <2>4, <2>5 DEF ViewsNext
<1>4. HistoryInv'
    BY <1>1, <1>2, <1>3, HistoryKeepsInv, HistoryRests
<1>5. FiguresInv'
    BY <1>1, <1>2, <1>3, FiguresKeepInv, FiguresRest
<1>6. CheckInv'
    BY <1>1, <1>2, <1>3, CheckKeepsInv
<1>7. QED
    BY <1>2, <1>4, <1>5, <1>6 DEF ViewsInv

(* The certificates, the figures and the checked transaction are the chain's,
   in whatever order the reads behind them began, were answered and ended. *)
THEOREM PagesAlwaysShowTheChain == ViewsSpec => []PageShowsTheChain
<1>1. ViewsInv => PageShowsTheChain
    BY DEF ViewsInv, HistoryInv, PanelInv, FiguresInv, CheckInv, Genuine, PageShowsTheChain,
       ProofIsItsOwn
<1>2. QED
    BY <1>1, ViewsInitInv, ViewsStepKeepsInv, PTL DEF ViewsSpec

-----------------------------------------------------------------------------
(* The SDK.  A call of the batch: *)
CallRecord ==
    [read : {"report", "history", "count"}, asset : Assets, attempt : Nat, since : Nat,
     value : Nat \cup {Missing}, done : BOOLEAN]

SdkTypes ==
    /\ history \in [Assets -> Nat]
    /\ DOMAIN batch = {"readings", "calls"}
    /\ batch.readings \in Seq(Reading)
    /\ batch.calls \in [DOMAIN batch.readings -> CallRecord]

(* A call that is under way has attempts left and no value; one that is done has
   a value of its time or used all of them. *)
CallInv(call) ==
    /\ call.since <= history[call.asset]
    /\ ~call.done => call.value = Missing /\ call.attempt <= MaxRetries
    /\ call.done =>
          IF call.value = Missing THEN call.attempt = MaxRetries + 1
          ELSE /\ call.value \in call.since..history[call.asset]
               /\ call.read = "report" => call.value > 0

BatchInv ==
    \A i \in DOMAIN batch.calls :
        batch.calls[i].asset = batch.readings[i].asset /\ CallInv(batch.calls[i])

SdkInv == SdkTypes /\ BatchInv

LEMMA SdkInitInv == SdkInit => SdkInv
<1> SUFFICES ASSUME SdkInit PROVE SdkInv
    OBVIOUS
<1>1. /\ history \in [Assets -> Nat] /\ \A a \in Assets : history[a] = 0
      /\ DOMAIN batch = {"readings", "calls"} /\ batch.readings = <<>> /\ batch.calls = <<>>
    BY DEF SdkInit
<1>2. SdkTypes
    BY <1>1 DEF SdkTypes
<1>3. QED
    BY <1>1, <1>2 DEF SdkInv, BatchInv

(* Reports are only ever added. *)
LEMMA CallStands ==
    ASSUME SdkTypes, NEW call \in CallRecord, CallInv(call), history' \in [Assets -> Nat],
           history[call.asset] <= history'[call.asset]
    PROVE  CallInv(call)'
<1>1. /\ call.asset \in Assets /\ call.since \in Nat /\ call.value \in Nat \cup {Missing}
      /\ history[call.asset] \in Nat /\ history'[call.asset] \in Nat
    BY DEF CallRecord, SdkTypes
<1>2. QED
    BY <1>1, SdkAssumption DEF CallInv

LEMMA SavedKeepsInv ==
    ASSUME SdkInv, NEW a \in Assets, ReportSaved(a)
    PROVE  SdkInv'
<1>1. SdkTypes /\ BatchInv
    BY DEF SdkInv
<1>2. /\ history \in [Assets -> Nat] /\ history' \in [Assets -> Nat]
      /\ history'[a] = history[a] + 1 /\ history[a] \in Nat
      /\ \A b \in Assets \ {a} : history'[b] = history[b]
      /\ batch' = batch
    BY <1>1 DEF SdkTypes, ReportSaved
<1>3. BatchInv'
    <2>1. ASSUME NEW i \in DOMAIN batch.calls PROVE CallInv(batch.calls[i])'
        <3>1. PICK call \in CallRecord : call = batch.calls[i]
            BY <1>1, <2>1 DEF SdkTypes
        <3>2. CallInv(call) /\ call.asset \in Assets
            BY <1>1, <2>1, <3>1 DEF BatchInv, CallRecord
        <3>3. history[call.asset] <= history'[call.asset]
            BY <1>2, <3>2
        <3>4. CallInv(call)'
            BY <1>1, <1>2, <3>2, <3>3, CallStands
        <3>5. QED
            BY <1>2, <3>1, <3>4 DEF CallInv
    <2>2. QED
        BY <1>1, <1>2, <2>1 DEF BatchInv
<1>4. QED
    BY <1>1, <1>2, <1>3 DEF SdkInv, SdkTypes

LEMMA StartKeepsInv ==
    ASSUME SdkInv, StartBatch
    PROVE  SdkInv'
<1>1. SdkTypes /\ history \in [Assets -> Nat]
    BY DEF SdkInv, SdkTypes
<1>2. PICK readings \in Batches :
          batch' = [readings |-> readings,
                    calls |-> [i \in DOMAIN readings |->
                                 [read |-> readings[i].read, asset |-> readings[i].asset,
                                  attempt |-> 0, since |-> history[readings[i].asset],
                                  value |-> Missing, done |-> FALSE]]]
    BY DEF StartBatch
<1>3. history' = history
    BY DEF StartBatch
<1>4. readings \in Seq(Reading)
    BY SdkAssumption
<1>5. ASSUME NEW i \in DOMAIN readings
      PROVE  readings[i].asset \in Assets /\ readings[i].read \in {"report", "history", "count"}
    <2>1. readings[i] \in Reading
        BY <1>4, <1>5
    <2>2. QED
        BY <2>1 DEF Reading
<1>6. /\ batch'.readings = readings /\ DOMAIN batch' = {"readings", "calls"}
      /\ DOMAIN batch'.calls = DOMAIN readings
      /\ \A i \in DOMAIN readings :
            batch'.calls[i] = [read |-> readings[i].read, asset |-> readings[i].asset,
                               attempt |-> 0, since |-> history[readings[i].asset],
                               value |-> Missing, done |-> FALSE]
      /\ batch'.calls = [i \in DOMAIN readings |-> batch'.calls[i]]
    BY <1>2
<1>7. ASSUME NEW i \in DOMAIN readings
      PROVE  /\ batch'.calls[i] \in CallRecord
             /\ batch'.calls[i].asset = readings[i].asset
             /\ CallInv(batch.calls[i])'
    <2>1. history[readings[i].asset] \in Nat /\ history'[readings[i].asset] \in Nat
        BY <1>1, <1>3, <1>5, <1>7
    <2> DEFINE asked == [read |-> readings[i].read, asset |-> readings[i].asset,
                         attempt |-> 0, since |-> history[readings[i].asset],
                         value |-> Missing, done |-> FALSE]
    <2>2. asked \in CallRecord /\ batch'.calls[i] = asked
        BY <1>5, <1>6, <1>7, <2>1 DEF CallRecord
    <2>3. /\ batch'.calls[i].asset = readings[i].asset
          /\ batch'.calls[i].since = history[readings[i].asset]
          /\ batch'.calls[i].value = Missing /\ ~batch'.calls[i].done
          /\ batch'.calls[i].attempt = 0
        <3>1. /\ asked.asset = readings[i].asset /\ asked.since = history[readings[i].asset]
              /\ asked.value = Missing /\ asked.attempt = 0
            OBVIOUS
        <3>2. ~asked.done
            OBVIOUS
        <3> HIDE DEF asked
        <3>3. QED
            BY <2>2, <3>1, <3>2
    <2>4. CallInv(batch.calls[i])'
        BY <1>3, <2>1, <2>3, SdkAssumption DEF CallInv
    <2>5. QED
        BY <2>2, <2>3, <2>4
<1>8. SdkTypes'
    BY <1>1, <1>3, <1>4, <1>6, <1>7 DEF SdkTypes
<1>9. BatchInv'
    BY <1>6, <1>7 DEF BatchInv
<1>10. QED
    BY <1>8, <1>9 DEF SdkInv

(* An attempt changes its own call only. *)
LEMMA CallKeepsInv ==
    ASSUME SdkInv, NEW i \in DOMAIN batch.calls, NEW call \in CallRecord,
           call.asset = batch.calls[i].asset, CallInv(call),
           batch' = [batch EXCEPT !.calls = [@ EXCEPT ![i] = call]],
           history' = history
    PROVE  SdkInv'
<1>1. SdkTypes /\ BatchInv /\ history' = history
    BY DEF SdkInv
<1>2. /\ batch'.readings = batch.readings /\ DOMAIN batch' = {"readings", "calls"}
      /\ batch'.calls = [batch.calls EXCEPT ![i] = call]
    BY <1>1 DEF SdkTypes
<1>3. /\ batch'.calls \in [DOMAIN batch.readings -> CallRecord]
      /\ DOMAIN batch'.calls = DOMAIN batch.calls
      /\ batch'.calls[i] = call
      /\ \A j \in DOMAIN batch.calls \ {i} : batch'.calls[j] = batch.calls[j]
    BY <1>1, <1>2 DEF SdkTypes
<1>4. SdkTypes'
    BY <1>1, <1>2, <1>3 DEF SdkTypes
<1>5. ASSUME NEW j \in DOMAIN batch.calls
      PROVE  batch'.calls[j].asset = batch.readings[j].asset /\ CallInv(batch.calls[j])'
    <2>1. CASE j = i
        BY <1>1, <1>3, <2>1 DEF BatchInv, CallInv
    <2>2. CASE j # i
        BY <1>1, <1>3, <2>2 DEF BatchInv, CallInv
    <2>3. QED
        BY <2>1, <2>2
<1>6. BatchInv'
    BY <1>2, <1>3, <1>5 DEF BatchInv
<1>7. QED
    BY <1>4, <1>6 DEF SdkInv

LEMMA AttemptKeepsInv ==
    ASSUME SdkInv, NEW i \in DOMAIN batch.calls, Attempt(i) \/ AttemptFails(i)
    PROVE  SdkInv'
<1> DEFINE call == batch.calls[i]
<1>1. /\ SdkTypes /\ CallInv(call) /\ call \in CallRecord /\ ~call.done
      /\ history[call.asset] \in Nat /\ call.asset \in Assets
    BY DEF SdkInv, BatchInv, Attempt, AttemptFails, Call, SdkTypes, CallRecord
<1>2. call.value = Missing /\ call.attempt <= MaxRetries /\ call.since <= history[call.asset]
    BY <1>1 DEF CallInv
<1>3. history' = history
    BY DEF Attempt, AttemptFails
<1>4. CASE Attempt(i)
    <2> DEFINE answered == [call EXCEPT !.value = history[call.asset], !.done = TRUE]
    <2>1. call.read = "report" => history[call.asset] > 0
        BY <1>4 DEF Attempt
    <2>2. /\ answered \in CallRecord /\ answered.asset = call.asset /\ answered.done
          /\ answered.value = history[call.asset] /\ answered.read = call.read
          /\ answered.since = call.since
        BY <1>1 DEF CallRecord
    <2>3. CallInv(answered)
        <3>1. call.since \in Nat
            BY <1>1 DEF CallRecord
        <3> HIDE DEF answered, call
        <3>2. QED
            BY <1>1, <1>2, <2>1, <2>2, <3>1, SdkAssumption DEF CallInv
    <2>4. batch' = [batch EXCEPT !.calls = [@ EXCEPT ![i] = answered]]
        BY <1>1, <1>4 DEF Attempt, Slot, SdkTypes
    <2> HIDE DEF answered
    <2>5. QED
        BY <1>3, <2>2, <2>3, <2>4, CallKeepsInv
<1>5. CASE AttemptFails(i)
    <2> DEFINE last == call.attempt = MaxRetries
               failed == [call EXCEPT !.attempt = @ + 1, !.done = last]
    <2>1. /\ last \in BOOLEAN /\ call.attempt \in Nat /\ call.attempt + 1 \in Nat
          /\ call.since \in Nat
        BY <1>1 DEF CallRecord
    <2> HIDE DEF last
    <2>2. failed \in CallRecord
        BY <1>1, <2>1 DEF CallRecord
    <2>3. /\ failed.asset = call.asset /\ failed.done = last
          /\ failed.value = call.value /\ failed.attempt = call.attempt + 1
          /\ failed.since = call.since
        BY <1>1 DEF CallRecord
    <2>4. CallInv(failed)
        <3>1. failed.done => call.attempt = MaxRetries
            BY <2>3 DEF last
        <3>2. ~failed.done => call.attempt # MaxRetries
            BY <2>3 DEF last
        <3> HIDE DEF failed, call
        <3>3. QED
            BY <1>1, <1>2, <2>1, <2>3, <3>1, <3>2, SdkAssumption DEF CallInv
    <2>5. batch' = [batch EXCEPT !.calls = [@ EXCEPT ![i] = failed]]
        BY <1>1, <1>5 DEF AttemptFails, SdkTypes, last
    <2> HIDE DEF failed
    <2>6. QED
        BY <1>3, <2>2, <2>3, <2>4, <2>5, CallKeepsInv
<1>6. QED
    BY <1>4, <1>5

LEMMA SdkStep == SdkInv /\ [SdkNext]_sdkVars => SdkInv'
<1> SUFFICES ASSUME SdkInv, [SdkNext]_sdkVars
             PROVE  SdkInv'
    OBVIOUS
<1>1. ASSUME NEW a \in Assets, ReportSaved(a) PROVE SdkInv'
    BY <1>1, SavedKeepsInv
<1>2. CASE StartBatch
    BY <1>2, StartKeepsInv
<1>3. ASSUME NEW i \in DOMAIN batch.calls, Attempt(i) \/ AttemptFails(i) PROVE SdkInv'
    BY <1>3, AttemptKeepsInv
<1>4. CASE UNCHANGED sdkVars
    BY <1>4 DEF SdkInv, SdkTypes, BatchInv, CallInv, sdkVars
<1>5. QED
    BY <1>1, <1>2, <1>3, <1>4 DEF SdkNext

LEMMA SdkInvSafe == SdkInv => SdkAnswersAreTrue
<1> SUFFICES ASSUME SdkInv PROVE SdkAnswersAreTrue
    OBVIOUS
<1>1. ASSUME Finished, NEW i \in DOMAIN batch.calls
      PROVE  LET call == batch.calls[i] IN
             /\ call.asset = batch.readings[i].asset
             /\ IF call.value = Missing THEN call.attempt = MaxRetries + 1
                ELSE /\ call.value \in call.since..history[call.asset]
                     /\ call.read = "report" => call.value > 0
    BY <1>1 DEF SdkInv, BatchInv, CallInv, Finished
<1>2. QED
    BY <1>1 DEF SdkAnswersAreTrue

(* What batchGetReports and the other reads of the SDK answer is true of the asset
   they were asked about, at its place, as of some moment since the call, and
   null only after every attempt failed. *)
THEOREM SdkAnswersAlwaysTrue == SdkSpec => []SdkAnswersAreTrue
<1>1. QED
    BY SdkInitInv, SdkStep, SdkInvSafe, PTL DEF SdkSpec

-----------------------------------------------------------------------------
(* The waiting list. *)
Statuses == {"idle", "loading", "success", "error"}
SubmissionStates == {"sent", "answered", "lost"}
Answers  == {"none", "registered", "refused", "duplicate", "full"}
Submission ==
    [form : Forms, email : Emails, state : SubmissionStates, answer : Answers, lossesSeen : Nat]

WaitlistTypes ==
    /\ form \in [Forms -> [status : Statuses, submission : Nat]]
    /\ sent \in Seq(Submission)
    /\ file \in [readable : BOOLEAN, list : Seq(Nat)]
    /\ losses \in Nat

(* Who is listed was handled, and nobody is listed twice. *)
ListInv ==
    /\ \A i \in DOMAIN Parsed : Parsed[i] \in DOMAIN sent /\ sent[Parsed[i]].state # "sent"
    /\ \A i, j \in DOMAIN Parsed : i # j => sent[Parsed[i]].email # sent[Parsed[j]].email
    /\ Len(Parsed) <= MaxSubmissions

(* What an answer was based on stands until the file is lost. *)
AnsweredInv(n) ==
    /\ sent[n].state = "sent" => sent[n].answer = "none"
    /\ sent[n].answer # "none" => sent[n].lossesSeen <= losses
    /\ sent[n].answer = "registered" => n \in stdout
    /\ sent[n].answer = "registered" /\ sent[n].lossesSeen = losses => IsListed(n)
    /\ sent[n].answer = "duplicate" /\ sent[n].lossesSeen = losses =>
          \E m \in DOMAIN sent : m # n /\ sent[m].email = sent[n].email /\ IsListed(m)

FormInv(f) ==
    /\ form[f].status \in {"loading", "success"} => form[f].submission \in DOMAIN sent
    /\ form[f].status = "success" => sent[form[f].submission].answer = "registered"

WaitlistInv ==
    /\ WaitlistTypes
    /\ ListInv
    /\ \A n \in DOMAIN sent : AnsweredInv(n)
    /\ \A f \in Forms : FormInv(f)

LEMMA ParsedType == ASSUME WaitlistTypes PROVE Parsed \in Seq(Nat)
    BY DEF WaitlistTypes, Parsed

LEMMA WaitlistInitInv == WaitlistInit => WaitlistInv
<1> SUFFICES ASSUME WaitlistInit PROVE WaitlistInv
    OBVIOUS
<1>1. WaitlistTypes
    BY DEF WaitlistInit, WaitlistTypes, NoFile, Statuses
<1>2. Parsed = <<>> /\ sent = <<>>
    BY DEF WaitlistInit, Parsed, NoFile
<1>3. \A f \in Forms : form[f].status = "idle"
    BY DEF WaitlistInit
<1>4. QED
    BY <1>1, <1>2, <1>3, WaitlistAssumption DEF WaitlistInv, ListInv, FormInv

(* A step of the server: submission n is handled, the others rest. *)
Handles(n) ==
    /\ n \in DOMAIN sent /\ sent[n].state = "sent"
    /\ sent' \in Seq(Submission) /\ DOMAIN sent' = DOMAIN sent
    /\ sent'[n].email = sent[n].email /\ sent'[n].state # "sent"
    /\ \A m \in DOMAIN sent \ {n} : sent'[m] = sent[m]

LEMMA AnsweredIs ==
    ASSUME WaitlistTypes, NEW n, Arrived(n), NEW answer \in Answers, Answered(n, answer)
    PROVE  Handles(n) /\ sent'[n].answer = answer /\ sent'[n].lossesSeen = losses
<1>1. n \in DOMAIN sent /\ sent[n].state = "sent" /\ sent \in Seq(Submission) /\ losses \in Nat
    BY DEF Arrived, WaitlistTypes
<1> DEFINE became == [sent[n] EXCEPT !.state = "answered", !.answer = answer, !.lossesSeen = losses]
<1>2. sent[n] \in Submission /\ "answered" \in SubmissionStates
    BY <1>1 DEF SubmissionStates
<1>3. /\ became \in Submission /\ became.email = sent[n].email /\ became.state = "answered"
      /\ became.answer = answer /\ became.lossesSeen = losses
    BY <1>1, <1>2 DEF Submission
<1>4. sent' = [sent EXCEPT ![n] = became]
    BY <1>1, <1>2 DEF Answered, Submission
<1> HIDE DEF became
<1>5. sent' \in Seq(Submission) /\ DOMAIN sent' = DOMAIN sent /\ sent'[n] = became
      /\ \A m \in DOMAIN sent \ {n} : sent'[m] = sent[m]
    BY <1>1, <1>3, <1>4
<1>6. QED
    BY <1>1, <1>3, <1>5 DEF Handles

LEMMA DiesIs ==
    ASSUME WaitlistTypes, NEW n, Arrived(n), Dies(n)
    PROVE  Handles(n) /\ sent'[n].answer = sent[n].answer
<1>1. n \in DOMAIN sent /\ sent[n].state = "sent" /\ sent \in Seq(Submission)
    BY DEF Arrived, WaitlistTypes
<1> DEFINE became == [sent[n] EXCEPT !.state = "lost"]
<1>2. sent[n] \in Submission /\ "lost" \in SubmissionStates
    BY <1>1 DEF SubmissionStates
<1>3. /\ became \in Submission /\ became.email = sent[n].email /\ became.state = "lost"
      /\ became.answer = sent[n].answer
    BY <1>1, <1>2 DEF Submission
<1>4. sent' = [sent EXCEPT ![n] = became]
    BY <1>1, <1>2 DEF Dies, Submission
<1> HIDE DEF became
<1>5. sent' \in Seq(Submission) /\ DOMAIN sent' = DOMAIN sent /\ sent'[n] = became
      /\ \A m \in DOMAIN sent \ {n} : sent'[m] = sent[m]
    BY <1>1, <1>3, <1>4
<1>6. QED
    BY <1>1, <1>3, <1>5 DEF Handles

(* What is left to show of a step that handles a submission. *)
LEMMA HandledKeepsInv ==
    ASSUME WaitlistInv, NEW n, Handles(n), form' = form,
           WaitlistTypes', ListInv', stdout \subseteq stdout', AnsweredInv(n)',
           \/ losses' = losses /\ \A m : IsListed(m) => IsListed(m)'
           \/ losses' = losses + 1
    PROVE  WaitlistInv'
<1>1. ASSUME NEW m \in DOMAIN sent \ {n} PROVE AnsweredInv(m)'
    <2> sent[m] \in Submission
        BY DEF WaitlistInv, WaitlistTypes
    <2>1. AnsweredInv(m) /\ sent'[m] = sent[m] /\ sent[m].lossesSeen \in Nat /\ losses \in Nat
        BY DEF WaitlistInv, WaitlistTypes, Handles, Submission
    <2>2. CASE losses' = losses + 1
        BY <2>1, <2>2 DEF AnsweredInv
    <2>3. CASE losses' = losses /\ \A k : IsListed(k) => IsListed(k)'
        <3>1. \A k \in DOMAIN sent : k \in DOMAIN sent' /\ sent'[k].email = sent[k].email
            BY DEF Handles
        <3>2. QED
            BY <2>1, <2>3, <3>1 DEF AnsweredInv
    <2>4. QED
        BY <2>2, <2>3
<1>2. ASSUME NEW f \in Forms PROVE FormInv(f)'
    <2>1. FormInv(f) /\ AnsweredInv(n)
        BY DEF WaitlistInv, Handles
    <2>2. QED
        BY <2>1 DEF FormInv, AnsweredInv, Handles
<1>3. QED
    BY <1>1, <1>2 DEF WaitlistInv, Handles

(* The list rests, grows by one that is not registered, or is lost. *)
LEMMA ListStays ==
    ASSUME ListInv, NEW n, Handles(n), file' = file
    PROVE  ListInv' /\ \A m : IsListed(m) => IsListed(m)'
    BY SMTT(30) DEF ListInv, Parsed, Handles, IsListed

LEMMA ListGrows ==
    ASSUME WaitlistTypes, ListInv, NEW n, Handles(n), Accepted(n), Written(n)
    PROVE  ListInv' /\ IsListed(n)' /\ (\A m : IsListed(m) => IsListed(m)')
           /\ file' \in [readable : BOOLEAN, list : Seq(Nat)]
<1>1. Parsed \in Seq(Nat) /\ n \in Nat
    BY ParsedType DEF WaitlistTypes, Handles
<1>2. Parsed' = Append(Parsed, n) /\ file' \in [readable : BOOLEAN, list : Seq(Nat)]
    BY <1>1 DEF Written, WithTheOthers, Parsed
<1>3. /\ DOMAIN Parsed' = 1..(Len(Parsed) + 1) /\ DOMAIN Parsed = 1..Len(Parsed)
      /\ Len(Parsed') = Len(Parsed) + 1 /\ Len(Parsed) \in Nat
      /\ Parsed'[Len(Parsed) + 1] = n
      /\ \A i \in DOMAIN Parsed : Parsed'[i] = Parsed[i]
    BY <1>1, <1>2
<1>4. \A m : IsListed(m) => IsListed(m)'
    BY <1>3 DEF IsListed
<1>5. IsListed(n)'
    BY <1>3 DEF IsListed
<1>6. Len(Parsed') <= MaxSubmissions
    BY <1>3, WaitlistAssumption DEF Accepted, ListFull
<1>7. /\ \A i \in DOMAIN Parsed' : Parsed'[i] \in DOMAIN sent' /\ sent'[Parsed'[i]].state # "sent"
      /\ \A i \in DOMAIN Parsed : Parsed[i] # n /\ sent'[Parsed[i]].email # sent'[n].email
    BY <1>3 DEF ListInv, Handles, Accepted, Registered
<1>8. \A i, j \in DOMAIN Parsed' : i # j => sent'[Parsed'[i]].email # sent'[Parsed'[j]].email
    BY <1>3, <1>7 DEF ListInv, Handles
<1>9. QED
    BY <1>2, <1>4, <1>5, <1>6, <1>7, <1>8 DEF ListInv

LEMMA ListIsLost ==
    ASSUME file' = NoFile
    PROVE  ListInv' /\ file' \in [readable : BOOLEAN, list : Seq(Nat)]
<1>1. Parsed' = <<>>
    BY DEF Parsed, NoFile
<1>2. QED
    BY <1>1, WaitlistAssumption DEF ListInv, NoFile

LEMMA RefusalKeepsInv ==
    ASSUME WaitlistInv, NEW n, RefuseSubmission(n) \/ RefuseDuplicate(n) \/ RefuseWhenFull(n)
    PROVE  WaitlistInv'
<1>1. WaitlistTypes /\ ListInv /\ Arrived(n) /\ UNCHANGED <<form, file, stdout, losses>>
    BY DEF WaitlistInv, RefuseSubmission, RefuseDuplicate, RefuseWhenFull
<1>2. PICK answer \in {"refused", "duplicate", "full"} :
          Answered(n, answer) /\ (answer = "duplicate" => Registered(sent[n].email))
    BY DEF RefuseSubmission, RefuseDuplicate, RefuseWhenFull
<1>3. Handles(n) /\ sent'[n].answer = answer /\ sent'[n].lossesSeen = losses
    BY <1>1, <1>2, AnsweredIs DEF Answers
<1>4. WaitlistTypes'
    BY <1>1, <1>3 DEF WaitlistTypes, Handles
<1>5. ListInv' /\ \A m : IsListed(m) => IsListed(m)'
    BY <1>1, <1>3, ListStays
<1>6. AnsweredInv(n)'
    <2>1. ASSUME answer = "duplicate"
          PROVE  \E m \in DOMAIN sent' : m # n /\ sent'[m].email = sent'[n].email /\ IsListed(m)'
        <3>1. PICK i \in DOMAIN Parsed : sent[Parsed[i]].email = sent[n].email
            BY <1>2, <2>1 DEF Registered
        <3>2. Parsed[i] \in DOMAIN sent /\ Parsed[i] # n /\ IsListed(Parsed[i])
            BY <1>1, <3>1 DEF ListInv, Arrived, IsListed
        <3>3. QED
            BY <1>3, <1>5, <3>1, <3>2 DEF Handles
    <2>2. losses' = losses /\ losses \in Nat
        BY <1>1 DEF WaitlistTypes
    <2>3. QED
        BY <1>2, <1>3, <2>1, <2>2 DEF AnsweredInv, Handles
<1>7. QED
    BY <1>1, <1>3, <1>4, <1>5, <1>6, HandledKeepsInv

LEMMA WriteKeepsInv ==
    ASSUME WaitlistInv, NEW n, Register(n) \/ DieAfterWrite(n)
    PROVE  WaitlistInv'
<1>1. WaitlistTypes /\ ListInv /\ Accepted(n) /\ Arrived(n) /\ Written(n)
      /\ UNCHANGED <<form, losses>> /\ stdout \subseteq stdout'
    BY DEF WaitlistInv, Register, DieAfterWrite, Accepted
<1>2. AnsweredInv(n) /\ sent[n].state = "sent" /\ losses \in Nat
    BY <1>1 DEF WaitlistInv, Arrived, WaitlistTypes
<1>3. /\ Handles(n)
      /\ \/ sent'[n].answer = "registered" /\ sent'[n].lossesSeen = losses /\ n \in stdout'
         \/ sent'[n].answer = "none"
    <2>1. CASE Register(n)
        BY <1>1, <2>1, AnsweredIs DEF Register, Answers
    <2>2. CASE DieAfterWrite(n)
        BY <1>1, <1>2, <2>2, DiesIs DEF DieAfterWrite, AnsweredInv
    <2>3. QED
        BY <2>1, <2>2
<1>4. ListInv' /\ IsListed(n)' /\ (\A m : IsListed(m) => IsListed(m)')
      /\ file' \in [readable : BOOLEAN, list : Seq(Nat)]
    BY <1>1, <1>3, ListGrows
<1>5. WaitlistTypes'
    BY <1>1, <1>3, <1>4 DEF WaitlistTypes, Handles
<1>6. AnsweredInv(n)'
    BY <1>1, <1>2, <1>3, <1>4 DEF AnsweredInv, Handles
<1>7. QED
    BY <1>1, <1>3, <1>4, <1>5, <1>6, HandledKeepsInv

LEMMA LossKeepsInv ==
    ASSUME WaitlistInv, ColdStart \/ \E n \in DOMAIN sent : DieInWrite(n)
    PROVE  WaitlistInv'
<1>1. /\ WaitlistTypes /\ losses \in Nat /\ form' = form /\ stdout' = stdout
      /\ file' = NoFile /\ losses' = losses + 1
    BY DEF WaitlistInv, WaitlistTypes, ColdStart, DieInWrite
<1>2. ListInv' /\ file' \in [readable : BOOLEAN, list : Seq(Nat)]
    BY <1>1, ListIsLost
<1>3. CASE ColdStart
    <2>1. sent' = sent
        BY <1>3 DEF ColdStart
    <2>2. WaitlistTypes'
        BY <1>1, <1>2, <2>1 DEF WaitlistTypes
    <2>3. \A n \in DOMAIN sent : sent[n].lossesSeen \in Nat
        <3>1. \A n \in DOMAIN sent : sent[n] \in Submission
            BY <1>1 DEF WaitlistTypes
        <3>2. QED
            BY <3>1 DEF Submission
    <2>4. \A n \in DOMAIN sent : AnsweredInv(n)'
        BY <1>1, <2>1, <2>3 DEF WaitlistInv, AnsweredInv
    <2>5. QED
        BY <1>1, <1>2, <2>1, <2>2, <2>4 DEF WaitlistInv, FormInv
<1>4. ASSUME NEW n \in DOMAIN sent, DieInWrite(n) PROVE WaitlistInv'
    <2>1. Arrived(n) /\ Dies(n)
        BY <1>4 DEF DieInWrite, Accepted
    <2>2. Handles(n) /\ sent'[n].answer = sent[n].answer /\ sent[n].answer = "none"
        BY <1>1, <2>1, DiesIs DEF WaitlistInv, AnsweredInv, Arrived
    <2>3. WaitlistTypes'
        BY <1>1, <1>2, <2>2 DEF WaitlistTypes, Handles
    <2>4. AnsweredInv(n)'
        BY <2>2 DEF AnsweredInv
    <2>5. QED
        BY <1>1, <1>2, <2>2, <2>3, <2>4, HandledKeepsInv
<1>5. QED
    BY <1>3, <1>4

(* The forms. *)
LEMMA FormShowsIs ==
    ASSUME WaitlistTypes, NEW f \in Forms, NEW status \in Statuses,
           form' = [form EXCEPT ![f].status = status]
    PROVE  /\ form' \in [Forms -> [status : Statuses, submission : Nat]]
           /\ form'[f].status = status /\ form'[f].submission = form[f].submission
           /\ \A g \in Forms \ {f} : form'[g] = form[g]
    BY DEF WaitlistTypes

LEMMA FormsKeepInv ==
    ASSUME WaitlistInv, NEW f \in Forms, NEW status \in {"success", "error"},
           form' = [form EXCEPT ![f].status = status],
           status = "success" =>
              form[f].submission \in DOMAIN sent /\ sent[form[f].submission].answer = "registered",
           UNCHANGED <<sent, file, stdout, losses>>
    PROVE  WaitlistInv'
<1>1. /\ form' \in [Forms -> [status : Statuses, submission : Nat]]
      /\ form'[f].status = status /\ form'[f].submission = form[f].submission
      /\ \A g \in Forms \ {f} : form'[g] = form[g]
    BY FormShowsIs DEF WaitlistInv, Statuses
<1>2. WaitlistTypes'
    BY <1>1 DEF WaitlistInv, WaitlistTypes
<1>3. ListInv' /\ \A n \in DOMAIN sent' : AnsweredInv(n)'
    BY DEF WaitlistInv, ListInv, AnsweredInv, Parsed, IsListed
<1>4. \A g \in Forms : FormInv(g)'
    BY <1>1 DEF WaitlistInv, FormInv
<1>5. QED
    BY <1>2, <1>3, <1>4 DEF WaitlistInv

LEMMA SubmitKeepsInv ==
    ASSUME WaitlistInv, NEW f \in Forms, NEW e \in Emails,
           sent' = Append(sent, [form |-> f, email |-> e, state |-> "sent",
                                 answer |-> "none", lossesSeen |-> 0]),
           form' = [form EXCEPT ![f] = [status |-> "loading", submission |-> Len(sent) + 1]],
           UNCHANGED <<file, stdout, losses>>
    PROVE  WaitlistInv'
<1> DEFINE new == [form |-> f, email |-> e, state |-> "sent", answer |-> "none", lossesSeen |-> 0]
<1>1. new \in Submission /\ new.state = "sent" /\ new.answer = "none"
    BY DEF Submission, SubmissionStates, Answers
<1>2. WaitlistTypes /\ sent' = Append(sent, new)
    BY DEF WaitlistInv
<1> HIDE DEF new
<1>3. /\ sent \in Seq(Submission) /\ sent' \in Seq(Submission)
      /\ DOMAIN sent = 1..Len(sent) /\ DOMAIN sent' = 1..(Len(sent) + 1) /\ Len(sent) \in Nat
      /\ sent'[Len(sent) + 1] = new /\ \A m \in DOMAIN sent : sent'[m] = sent[m]
    BY <1>1, <1>2 DEF WaitlistTypes
<1>4. /\ form' \in [Forms -> [status : Statuses, submission : Nat]]
      /\ form'[f].status = "loading" /\ form'[f].submission = Len(sent) + 1
      /\ \A g \in Forms \ {f} : form'[g] = form[g]
    BY <1>2, <1>3 DEF WaitlistTypes, Statuses
<1>5. WaitlistTypes'
    BY <1>2, <1>3, <1>4 DEF WaitlistTypes
<1>6. Parsed' = Parsed /\ ListInv'
    BY <1>3 DEF WaitlistInv, ListInv, Parsed
<1>7. ASSUME NEW m \in DOMAIN sent PROVE AnsweredInv(m)'
    BY <1>3, <1>6 DEF WaitlistInv, AnsweredInv, IsListed
<1>8. ASSUME NEW n, n = Len(sent) + 1 PROVE AnsweredInv(n)'
    BY <1>1, <1>3, <1>8 DEF AnsweredInv
<1>9. \A g \in Forms : FormInv(g)'
    BY <1>3, <1>4 DEF WaitlistInv, FormInv
<1>10. \A m \in DOMAIN sent' : m \in DOMAIN sent \/ m = Len(sent) + 1
    BY <1>3
<1>11. QED
    BY <1>5, <1>6, <1>7, <1>8, <1>9, <1>10 DEF WaitlistInv

LEMMA WaitlistStepKeepsInv == WaitlistInv /\ [WaitlistNext]_waitlistVars => WaitlistInv'
<1> SUFFICES ASSUME WaitlistInv, [WaitlistNext]_waitlistVars PROVE WaitlistInv'
    OBVIOUS
<1>1. CASE UNCHANGED waitlistVars
    BY <1>1 DEF waitlistVars, WaitlistInv, WaitlistTypes, ListInv, AnsweredInv, FormInv, Parsed,
       IsListed
<1>2. ASSUME NEW f \in Forms, HandleSubmit(f) PROVE WaitlistInv'
    <2>1. UNCHANGED <<file, stdout, losses>>
        BY <1>2 DEF HandleSubmit
    <2>2. CASE form' = [form EXCEPT ![f].status = "error"] /\ sent' = sent
        BY <2>1, <2>2, FormsKeepInv
    <2>3. ASSUME NEW e \in Emails,
                 sent' = Append(sent, [form |-> f, email |-> e, state |-> "sent",
                                       answer |-> "none", lossesSeen |-> 0]),
                 form' = [form EXCEPT ![f] = [status |-> "loading", submission |-> Len(sent) + 1]]
          PROVE  WaitlistInv'
        BY <2>1, <2>3, SubmitKeepsInv
    <2>4. QED
        BY <1>2, <2>2, <2>3 DEF HandleSubmit
<1>3. ASSUME NEW f \in Forms, AnswerReachesForm(f) PROVE WaitlistInv'
    <2>1. form[f].submission \in DOMAIN sent
        BY <1>3 DEF AnswerReachesForm, Waits, WaitlistInv, FormInv
    <2>2. UNCHANGED <<sent, file, stdout, losses>>
        BY <1>3 DEF AnswerReachesForm
    <2>3. PICK status \in {"success", "error"} :
              /\ form' = [form EXCEPT ![f].status = status]
              /\ status = "success" => sent[form[f].submission].answer = "registered"
        BY <1>3 DEF AnswerReachesForm
    <2>4. QED
        BY <2>1, <2>2, <2>3, FormsKeepInv
<1>4. ASSUME NEW f \in Forms, FormGivesUp(f) PROVE WaitlistInv'
    BY <1>4, FormsKeepInv DEF FormGivesUp
<1>5. QED
    BY <1>1, <1>2, <1>3, <1>4, RefusalKeepsInv, WriteKeepsInv, LossKeepsInv DEF WaitlistNext

(* Nobody is registered twice and what a page or an answer said of the list
   was so, whatever dies, is lost or is sent again. *)
THEOREM RegistrationsAlwaysKept == WaitlistSpec => []RegistrationsAreKept
<1>1. WaitlistInv => RegistrationsAreKept
    BY DEF WaitlistInv, ListInv, AnsweredInv, FormInv, RegistrationsAreKept
<1>2. QED
    BY <1>1, WaitlistInitInv, WaitlistStepKeepsInv, PTL DEF WaitlistSpec
=============================================================================
