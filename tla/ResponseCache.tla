---------------------------- MODULE ResponseCache ----------------------------
(***************************************************************************)
(* The cache of GET responses (internal/api/middleware/cache.go): a map    *)
(* and a list of entries in the order of their last use, bounded in number *)
(* and in bytes, shared by all requests.  Requests that miss run their     *)
(* handler outside the lock, several at a time for one URI.                *)
(***************************************************************************)
EXTENDS Integers, FiniteSetsExt

CONSTANTS
  URIs, Slots,     \* request URIs; requests under way at a time
  BodySizes,       \* lengths of the bodies handlers write
  maxCacheEntries, maxCacheBytes, maxCacheEntryBytes,
  CacheTTL,        \* ticks an entry lives
  MaxServed, MaxTime   \* bounds: requests, clock

ASSUME CacheAssumption ==
  BodySizes \cup {maxCacheEntries, maxCacheBytes, maxCacheEntryBytes, CacheTTL, MaxServed, MaxTime} \subseteq Nat

Miss == [id |-> 0]

VARIABLES
  entries,    \* the map: URI -> entry
  lru,        \* the list: its entries, numbered from the back in the order of their last use
  bytes,
  time,       \* time.Now()
  slot,       \* per slot: free, or the URI whose handler runs
  hit,        \* the last response served from the cache
  served      \* requests so far

rcVars == <<entries, lru, bytes, time, slot, hit, served>>

Free == "free"
RCInit ==
  /\ entries = <<>> /\ lru = <<>> /\ bytes = 0 /\ time = 0
  /\ slot = [s \in Slots |-> Free] /\ hit = Miss /\ served = 0

Contents == [entries |-> entries, lru |-> lru, bytes |-> bytes]
Becomes(c) == entries' = c.entries /\ lru' = c.lru /\ bytes' = c.bytes

Only(f, D) == [x \in D |-> f[x]]

\* What the bodies of a list take: as many bytes as there are pairs of an entry and a byte of it.
Bytes(list) == Cardinality(UNION {{i} \X (1 .. list[i].size) : i \in DOMAIN list})

Places(list, e) == {i \in DOMAIN list : list[i] = e}
FrontOf(list) == IF DOMAIN list = {} THEN 0 ELSE Max(DOMAIN list)

\* removeElement, for each of the elements that go.
Removed(c, gone) ==
  [entries |-> Only(c.entries, DOMAIN c.entries \ {c.lru[i].key : i \in gone}),
   lru |-> Only(c.lru, DOMAIN c.lru \ gone),
   bytes |-> c.bytes - Bytes(Only(c.lru, gone))]

AtFront(list, e) ==
  LET n == FrontOf(list) + 1 IN [i \in DOMAIN list \cup {n} |-> IF i = n THEN e ELSE list[i]]

PushFront(c, e) ==
  [entries |-> [k \in DOMAIN c.entries \cup {e.key} |-> IF k = e.key THEN e ELSE c.entries[k]],
   lru |-> AtFront(c.lru, e),
   bytes |-> c.bytes + e.size]

\* Mutant: the entry of the same URI stays in the list.
NotReplaced(c, e) == c

\* A slower request of the same URI may have stored its answer meanwhile.
Replaced(c, e) ==
  IF e.key \in DOMAIN c.entries THEN Removed(c, Places(c.lru, c.entries[e.key])) ELSE c

Over(c) == Cardinality(DOMAIN c.lru) > maxCacheEntries \/ c.bytes > maxCacheBytes

\* The elements behind and at n go; the loop stops with the first n that is enough.
Dropping(c, n) == Removed(c, {i \in DOMAIN c.lru : i <= n})
Evict(c) ==
  \E n \in 0 .. FrontOf(c.lru) :
    /\ \A m \in 0 .. n - 1 : Over(Dropping(c, m))
    /\ ~Over(Dropping(c, n)) \/ n = FrontOf(c.lru)
    /\ Becomes(Dropping(c, n))

put(e) ==
  IF e.size > maxCacheEntryBytes THEN UNCHANGED <<entries, lru, bytes>>
  ELSE Evict(PushFront(Replaced(Contents, e), e))

Outdated(e) == time > e.expiresAt

(* Cache, up to the handler: a hit is served, an expired entry removed, a miss runs the handler. *)
Lookup(s, uri) ==
  /\ slot[s] = Free /\ served < MaxServed
  /\ served' = served + 1
  /\ IF uri \in DOMAIN entries /\ ~Outdated(entries[uri])
     THEN LET e == entries[uri]
          IN  /\ lru' = AtFront(Only(lru, DOMAIN lru \ Places(lru, e)), e)      \* MoveToFront
              /\ hit' = e
              /\ UNCHANGED <<entries, bytes, slot>>
     ELSE /\ Becomes(IF uri \in DOMAIN entries THEN Removed(Contents, Places(lru, entries[uri])) ELSE Contents)
          /\ slot' = [slot EXCEPT ![s] = uri]
          /\ hit' = Miss
  /\ UNCHANGED time

(* The handler answers; a 200 is stored. *)
HandlerAnswers(s) ==
  /\ slot[s] # Free
  /\ \/ \E size \in BodySizes :
          put([key |-> slot[s], size |-> size, expiresAt |-> time + CacheTTL, id |-> served])
     \/ UNCHANGED <<entries, lru, bytes>>
  /\ slot' = [slot EXCEPT ![s] = Free]
  /\ UNCHANGED <<time, hit, served>>

sweep ==
  LET old == {i \in DOMAIN lru : Outdated(lru[i])}
  IN  /\ old # {}
      /\ Becomes(Removed(Contents, old))
      /\ UNCHANGED <<time, slot, hit, served>>

CacheTick ==
  /\ time < MaxTime /\ time' = time + 1
  /\ hit' = Miss
  /\ UNCHANGED <<entries, lru, bytes, slot, served>>

RCNext ==
  \/ sweep \/ CacheTick
  \/ \E s \in Slots : HandlerAnswers(s) \/ \E uri \in URIs : Lookup(s, uri)

RCSpec == RCInit /\ [][RCNext]_rcVars

-----------------------------------------------------------------------------
(* The map, the list and the byte count tell the same story, with one      *)
(* entry per URI and within the three caps, and what is served has not     *)
(* expired, however hits, slow handlers of one URI, expiry, evictions and  *)
(* sweeps interleave (get, put, sweep, removeElement).                     *)
CacheCountsWhatItHolds ==
  /\ {lru[i] : i \in DOMAIN lru} = {entries[k] : k \in DOMAIN entries}
  /\ Cardinality(DOMAIN lru) = Cardinality(DOMAIN entries)
  /\ \A k \in DOMAIN entries : entries[k].key = k /\ entries[k].size <= maxCacheEntryBytes
  /\ bytes = Bytes(lru)
  /\ Cardinality(DOMAIN lru) <= maxCacheEntries /\ bytes <= maxCacheBytes
  /\ hit # Miss => ~Outdated(hit)
=============================================================================
