----------------------------- MODULE RateLimiter -----------------------------
(***************************************************************************)
(* The rate limiter of the API (internal/api/middleware/ratelimit.go): one *)
(* bucket of tokens per client address, refilled as time passes and capped *)
(* at a burst, in a map of bounded size whose idle entries are dropped.    *)
(*                                                                         *)
(* Time is counted in ticks.  The mutex makes a request one step.          *)
(***************************************************************************)
EXTENDS Integers, Sequences, FiniteSetsExt

CONSTANTS
  Connections,    \* requests: the peer address, the forwarded headers, and who really sent them
  TrustedProxies, \* the peers whose forwarded headers are believed
  maxVisitors,
  Rate, Burst,    \* tokens per tick, and the most a bucket holds
  IdleLimit,      \* ticks after which cleanup forgets a visitor
  MaxTick, MaxCalls   \* bounds: clock, requests

overflowBucket == "overflow"
Addresses == {c.source : c \in Connections}

ASSUME LimiterAssumption ==
  /\ {maxVisitors, Rate, Burst, IdleLimit} \subseteq Nat \ {0}
  /\ Burst <= Rate * IdleLimit       \* a bucket that is forgotten has been full
  /\ overflowBucket \notin Addresses

\* The positions of X-Forwarded-For that name somebody.
Named(c) == {i \in DOMAIN c.forwarded : c.forwarded[i] # ""}

\* Who sent a request is who connected, unless that is our proxy: it appends the
\* sender to X-Forwarded-For, or gives it in X-Real-IP, or sends for itself.
ASSUME ProxyAssumption ==
  \A c \in Connections :
    /\ c.peer \notin TrustedProxies => c.source = c.peer
    /\ c.peer \in TrustedProxies /\ Named(c) # {} =>
         \E i \in Named(c) : c.source = c.forwarded[i] /\ \A j \in Named(c) : j <= i
    /\ c.peer \in TrustedProxies /\ Named(c) = {} =>
         c.source = IF c.realIP # "" THEN c.realIP ELSE c.peer
    /\ DOMAIN c.forwarded \subseteq Nat

VARIABLES
  visitors,   \* the buckets: key -> tokens and lastSeen
  tick,       \* time.Now()
  admitted,   \* when a request was let through, per sender, and for the shared bucket
  calls

rlVars == <<visitors, tick, admitted, calls>>

RLInit ==
  /\ visitors = <<>> /\ tick = 0 /\ calls = 0
  /\ admitted = [a \in Addresses \cup {overflowBucket} |-> <<>>]

\* Mutant: the first entry, which the client chooses.
FirstForwarded(c) ==
  IF c.peer \in TrustedProxies /\ c.forwarded # <<>> THEN c.forwarded[1] ELSE c.peer

\* The right-most entry of X-Forwarded-For is the one our own proxy appended.
ClientIP(c) ==
  CASE c.peer \notin TrustedProxies -> c.peer
    [] c.peer \in TrustedProxies /\ Named(c) # {} -> c.forwarded[Max(Named(c))]
    [] c.peer \in TrustedProxies /\ Named(c) = {} -> IF c.realIP # "" THEN c.realIP ELSE c.peer

\* A new key past the cap shares one bucket.
BucketOf(ip) ==
  IF ip \notin DOMAIN visitors /\ Cardinality(DOMAIN visitors) >= maxVisitors THEN overflowBucket ELSE ip

Capped(n) == IF n > Burst THEN Burst ELSE n

\* A new bucket was last seen at time zero, long ago: the refill fills it.
Refilled(key) ==
  IF key \in DOMAIN visitors
  THEN Capped(visitors[key].tokens + (tick - visitors[key].lastSeen) * Rate)
  ELSE Burst

RateLimit(c) ==
  LET key == BucketOf(ClientIP(c))
      tokens == Refilled(key)
      payer == IF key = overflowBucket THEN key ELSE c.source
  IN  /\ calls < MaxCalls /\ calls' = calls + 1
      /\ visitors' = [k \in DOMAIN visitors \cup {key} |->
           IF k = key THEN [tokens |-> IF tokens < 1 THEN tokens ELSE tokens - 1, lastSeen |-> tick]
                      ELSE visitors[k]]
      /\ admitted' = IF tokens < 1 THEN admitted ELSE [admitted EXCEPT ![payer] = Append(@, tick)]
      /\ UNCHANGED tick

Kept == {k \in DOMAIN visitors : tick - visitors[k].lastSeen <= IdleLimit}

\* The goroutine that forgets who has not been seen for long.
CleanupVisitors ==
  /\ Kept # DOMAIN visitors
  /\ visitors' = [k \in Kept |-> visitors[k]]
  /\ UNCHANGED <<tick, admitted, calls>>

Tick ==
  /\ tick < MaxTick /\ tick' = tick + 1
  /\ UNCHANGED <<visitors, admitted, calls>>

RLNext == Tick \/ CleanupVisitors \/ \E c \in Connections : RateLimit(c)

RLSpec == RLInit /\ [][RLNext]_rlVars

-----------------------------------------------------------------------------
(* Between any two of its requests that are let through, a sender gets at  *)
(* most a burst and what the rate adds in that time, whatever headers it   *)
(* sends and whenever its bucket is forgotten; those without a bucket of   *)
(* their own get that much together; and the map stays within its cap and  *)
(* the shared bucket (RateLimit, ClientIP, the cleanup goroutine).         *)
AdmissionIsBounded ==
  /\ \A who \in DOMAIN admitted : \A i, j \in DOMAIN admitted[who] :
       i <= j => j - i + 1 <= Burst + Rate * (admitted[who][j] - admitted[who][i])
  /\ Cardinality(DOMAIN visitors) <= maxVisitors + 1
=============================================================================
