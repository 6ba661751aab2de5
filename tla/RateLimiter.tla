---------------------------- MODULE RateLimiter ----------------------------
(***************************************************************************)
(* The in-memory sliding-window rate limiter of the Next.js routes:        *)
(* lib/rateLimiter.ts and the guard lib/apiSecurity.ts builds on it.       *)
(*                                                                         *)
(* A route counts its requests either under a key of its own ("record:ip", *)
(* "analyze:ip", "stream:ip") or under the bare address of the client,     *)
(* which it shares with every other route that does so, each with a limit  *)
(* of its own.  A stored timestamp is the number its request has in the    *)
(* log of the requests let through: two requests of the same millisecond   *)
(* are two entries.  An absent entry of the Map is an empty one:           *)
(* checkRateLimit creates it before it looks at it.                        *)
(***************************************************************************)
EXTENDS Integers, Sequences, FiniteSets

CONSTANTS
    Clients,          \* addresses getClientIP can return
    Routes,           \* API routes
    OwnKey,           \* the routes with a key of their own
    Shared,           \* stands for the key without a prefix
    LimitOf,          \* maxRequests of each route
    Window,           \* windowMs, the same 60 s at every call
    CleanupInterval,  \* CLEANUP_INTERVAL_MS
    MaxTime           \* bound: the clock stops here

ASSUME LimiterAssumption ==
    /\ OwnKey \subseteq Routes /\ Shared \notin Routes
    /\ LimitOf \in [Routes -> Nat \ {0}]
    /\ Window \in Nat \ {0} /\ CleanupInterval \in Nat \ {0} /\ MaxTime \in Nat

VARIABLES
    store,    \* key -> the requests whose timestamps its entry holds
    cleaner,  \* when the cleanup timer fires next, 0 before the first request
    clock,    \* Date.now()
    log       \* the requests let through: [key, route, at]
limiterVars == <<store, cleaner, clock, log>>

Keys == Clients \X (OwnKey \cup {Shared})

(* The key a request is counted under. *)
KeyOf(c, r) == <<c, IF r \in OwnKey THEN r ELSE Shared>>

LimiterInit ==
    /\ store = [k \in Keys |-> {}]
    /\ cleaner = 0
    /\ clock = 1
    /\ log = <<>>

(* A plausible slip: a timestamp leaves the window one unit too early. *)
InWindowTooShort(n) == clock - log[n].at < Window - 1

(* entry.timestamps.filter(t => now - t < windowMs) *)
InWindow(n) == clock - log[n].at < Window
Fresh(k) == {n \in store[k] : InWindow(n)}

Full(k, r) == Cardinality(Fresh(k)) >= LimitOf[r]

EnsureCleanup ==
    cleaner' = IF cleaner = 0 THEN clock + CleanupInterval ELSE cleaner

(* A request below the limit is counted and let through. *)
Accept(c, r) ==
    LET k == KeyOf(c, r) IN
    /\ ~Full(k, r)
    /\ EnsureCleanup
    /\ store' = [store EXCEPT ![k] = Fresh(k) \cup {Len(log) + 1}]
    /\ log' = Append(log, [key |-> k, route |-> r, at |-> clock])
    /\ UNCHANGED clock

(* entry.timestamps[0] *)
Oldest(k) == CHOOSE n \in Fresh(k) : \A m \in Fresh(k) : n <= m

(* A plausible slip: the age of the oldest timestamp, not what it has left. *)
RetryAfterAge(k) == clock + (clock - log[Oldest(k)].at)

(* When a client refused now is told to come back: windowMs - (now - oldest)
   from now. *)
RetryAt(k) == clock + Window - (clock - log[Oldest(k)].at)

(* A request at the limit is answered 429 with Retry-After and not counted. *)
Refuse(c, r) ==
    LET k == KeyOf(c, r) IN
    /\ Full(k, r)
    /\ EnsureCleanup
    /\ store' = [store EXCEPT ![k] = Fresh(k)]
    /\ UNCHANGED <<clock, log>>

(* The interval callback drops what left the window. *)
Cleanup ==
    /\ cleaner # 0 /\ clock >= cleaner
    /\ cleaner' = clock + CleanupInterval
    /\ store' = [k \in Keys |-> Fresh(k)]
    /\ UNCHANGED <<clock, log>>

LimiterTick ==
    /\ clock < MaxTime
    /\ clock' = clock + 1
    /\ UNCHANGED <<store, cleaner, log>>

LimiterNext ==
    \/ \E c \in Clients, r \in Routes : Accept(c, r) \/ Refuse(c, r)
    \/ Cleanup
    \/ LimiterTick

LimiterSpec == LimiterInit /\ [][LimiterNext]_limiterVars

-----------------------------------------------------------------------------
Entry == [key : Keys, route : Routes, at : Nat]

(* Types: an entry of the store refers to logged requests of its key, and no
   request was let through in the future. *)
LimiterTypeOK ==
    /\ store \in [Keys -> SUBSET (1..Len(log))]
    /\ cleaner \in Nat /\ clock \in Nat
    /\ log \in Seq(Entry)
    /\ \A n \in 1..Len(log) : log[n].at <= clock

(* The requests of one key let through within a window that ends with request
   m. *)
WindowOf(m) ==
    {n \in 1..m : log[n].key = log[m].key /\ log[m].at - log[n].at < Window}

(* The sliding window: whenever a request was let through, the requests of its
   key within the window were, itself included, no more than its route
   allows, whatever the cleanup timer threw away and whatever the limits of
   the other routes that count under the same key. *)
WindowIsRespected ==
    \A m \in 1..Len(log) : Cardinality(WindowOf(m)) <= LimitOf[log[m].route]

(* Retry-After is enough on a key of one's own: at the time a refused client
   is told to come back, if it spends no place until then, it is let through.
   (On the shared key it is false: a route with a small limit waits for the
   requests of the others too.) *)
RetryAfterSuffices ==
    \A c \in Clients, r \in OwnKey :
        LET k == KeyOf(c, r) IN
        Full(k, r) =>
            /\ RetryAt(k) > clock
            /\ Cardinality({n \in Fresh(k) : RetryAt(k) - log[n].at < Window}) < LimitOf[r]
=============================================================================
