---------------------------- MODULE BlockRequests ----------------------------
(***************************************************************************)
(* What a block request goes through before the service of BGPService acts *)
(* on it: the configuration (internal/bgp/settings.go), the three handlers *)
(* (handler/bgp.go) and the collector's client (client.go), the parsing of *)
(* a target, the policy (policy.go), and the form in which a block is      *)
(* stored and read back (store/bgp_blocks.go).                             *)
(*                                                                         *)
(* Addresses are W4 or W6 bits wide instead of 32 and 128; an IPv4 address *)
(* is also written as the IPv6 address with the same low bits in the block *)
(* MappedBlock (::ffff:0:0/96).  An address or a prefix that is not        *)
(* canonical is `written'; its bits are Bare when it has no /length.       *)
(***************************************************************************)
EXTENDS Integers, FiniteSets

CONSTANTS
  W4, W6, MappedBlock,     \* widths of the addresses; the top W6 - W4 bits of a mapped one
  FloorV4, FloorV6,        \* MinPrefixLenFloorV4, MinPrefixLenFloorV6
  BroadV4, BroadV6,        \* allow-list entries shorter than this are refused
  reservedPrefixes, labelTargetPrefix,
  RawSettings,             \* configurations the operator may start the API with
  Targets4, Targets6,      \* the written targets, apart from unparseable ones
  Minutes,                 \* values of duration_minutes
  UnitsPerMinute, DurationBits,   \* time.Duration: units in a minute, width in bits
  Hour, Day, Week,         \* the durations the configuration is compared with
  MaxBlockCalls            \* bound: requests

VARIABLES
  raw,        \* the configuration
  blocks,     \* blocks the service accepted, with what was asked for
  reply,      \* the status of the last answer
  told,       \* what the last AutoBlock of the collector returned
  blockCalls

brVars == <<raw, blocks, reply, told, blockCalls>>

Bare == -1
Unset == -2              \* an address that is not configured
Offset == W6 - W4        \* 96
Prefix(f, a, b) == [family |-> f, addr |-> a, bits |-> b]
NoTarget == Prefix(0, 0, 0)
Width(f) == IF f = 4 THEN W4 ELSE W6

\* The powers of two, by recursion, so that a proof can unfold them.
Pow2[n \in Nat] == IF n = 0 THEN 1 ELSE 2 * Pow2[n - 1]

\* What may be written: an address of the family and, perhaps, a length.
Forms(f, lengths) == [family : {f}, addr : 0..(Pow2[Width(f)] - 1), bits : {Bare} \cup lengths]
Lists == Forms(4, 0..W4) \cup Forms(6, 0..W6)

ASSUME AddressAssumption ==
  /\ W4 \in Nat /\ W6 \in Nat /\ W4 <= W6 /\ MappedBlock \in 0..(Pow2[Offset] - 1)
  /\ FloorV4 \in 1..W4 /\ FloorV6 \in 1..W6
  /\ reservedPrefixes \subseteq {p \in Lists : p.bits # Bare}

\* The length of a target may be any.
ASSUME TargetAssumption == Targets4 \subseteq Forms(4, Nat) /\ Targets6 \subseteq Forms(6, Nat)

ASSUME SettingsAssumption ==
  \A r \in RawSettings :
    /\ r.allowed \subseteq Lists /\ r.local \subseteq Lists /\ r.protected \subseteq Lists
    /\ \A w \in {r.peer, r.nextHop, r.nextHopV6, r.routerID} : w.addr # Unset => w \in Lists /\ w.bits = Bare
    /\ {r.minLenV4, r.minLenV6} \subseteq Int

Span(p) == Pow2[Width(p.family) - p.bits]
Masked(p) == [p EXCEPT !.addr = (p.addr \div Span(p)) * Span(p)]
Is4In6(p) == p.family = 6 /\ p.addr \div Pow2[W4] = MappedBlock
Unmapped(p) == Prefix(4, p.addr % Pow2[W4], p.bits - Offset)

(***************************************************************************)
(* Targets and lists of prefixes.                                          *)
(***************************************************************************)
\* A bare address is a host route.
WithLength(w) == IF w.bits = Bare THEN [w EXCEPT !.bits = Width(w.family)] ELSE w

\* Mapped addresses are unmapped; what reaches out of the mapped block, or has host bits set, is an error.
canonicalPrefix(p) ==
  IF Is4In6(p) /\ p.bits < Offset THEN NoTarget
  ELSE LET out == IF Is4In6(p) THEN Unmapped(p) ELSE p
       IN  IF Masked(out) = out THEN out ELSE NoTarget

ParseTarget(w) ==
  IF w.family = 0 \/ WithLength(w).bits > Width(w.family) THEN NoTarget ELSE canonicalPrefix(WithLength(w))

TargetFromParts(f, a, len) == ParseTarget(Prefix(f, a, IF len = 0 THEN Bare ELSE len))

\* An entry of a list is masked.
ListEntry(w) ==
  LET p == WithLength(w) IN Masked(IF Is4In6(p) /\ p.bits >= Offset THEN Unmapped(p) ELSE p)

ParsePrefixList(s) == {ListEntry(w) : w \in s}

(***************************************************************************)
(* The configuration.                                                      *)
(***************************************************************************)
IsSet(w) == w.addr # Unset
ParseIP(w) == ListEntry([w EXCEPT !.bits = Bare])

MinLen(len, width) == IF len = 0 THEN width ELSE len
MaxDuration(r) == IF r.maxDuration <= 0 THEN Day ELSE r.maxDuration
DefaultDuration(r) == IF r.defaultDuration <= 0 THEN Hour ELSE r.defaultDuration

\* The API does not start with less.
ParseSettings(r) ==
  /\ IsSet(r.peer) /\ IsSet(r.nextHop) /\ ParseIP(r.nextHop).family = 4
  /\ IsSet(r.nextHopV6) => ParseIP(r.nextHopV6).family = 6
  /\ r.announce.target                                    \* the template names {prefix} or {ip}
  /\ \A a \in ParsePrefixList(r.allowed) : a.bits >= IF a.family = 4 THEN BroadV4 ELSE BroadV6
  /\ MinLen(r.minLenV4, W4) \in FloorV4..W4 /\ MinLen(r.minLenV6, W6) \in FloorV6..W6
  /\ MaxDuration(r) <= Week
  /\ DefaultDuration(r) >= UnitsPerMinute /\ DefaultDuration(r) <= MaxDuration(r)

\* The peer, the next hops and the router id are protected whatever is listed.
Protected(r) ==
  ParsePrefixList(r.protected) \cup
    {ParseIP(w) : w \in {v \in {r.peer, r.nextHop, r.nextHopV6, r.routerID} : IsSet(v)}}

\* Options: the explicit list, or the prefixes of LOCAL_AS, or nothing.
Allowed(r) == ParsePrefixList(IF r.allowed # {} THEN r.allowed ELSE r.local)

(***************************************************************************)
(* The policy.                                                             *)
(***************************************************************************)
Lesser(a, b) == IF a < b THEN a ELSE b
Greater(a, b) == IF a > b THEN a ELSE b

overlaps(a, b) ==
  /\ a.family = b.family
  /\ LET bits == Lesser(a.bits, b.bits)
     IN  Masked([a EXCEPT !.bits = bits]) = Masked([b EXCEPT !.bits = bits])

\* Mutant: the network address is enough.
StartsWithin(p, outer) ==
  outer.family = p.family /\ Masked([p EXCEPT !.bits = outer.bits]) = Masked(outer)

within(p, outer) ==
  /\ outer.family = p.family /\ outer.bits <= p.bits
  /\ Masked([p EXCEPT !.bits = outer.bits]) = Masked(outer)

EffectiveMin(r, f) ==
  IF f = 4 THEN Lesser(Greater(MinLen(r.minLenV4, W4), FloorV4), W4)
           ELSE Lesser(Greater(MinLen(r.minLenV6, W6), FloorV6), W6)

Check(r, p) ==
  /\ p.bits >= EffectiveMin(r, p.family)
  /\ \A q \in reservedPrefixes : ~overlaps(p, q)
  /\ ~(p.family = 4 /\ p.addr = Pow2[W4] - 1)
  /\ \A q \in Protected(r) : ~overlaps(p, q)
  /\ \E a \in Allowed(r) : within(p, a)

\* No IPv6 target without BGP_NEXT_HOP_V6, if the command wants a next hop.
checkNextHop(r, p) == p.family = 4 \/ IsSet(r.nextHopV6) \/ ~r.announce.nextHop

(***************************************************************************)
(* The handlers.                                                           *)
(***************************************************************************)
\* time.Duration(minutes) * time.Minute, in the width of the type.
ToDuration(minutes) ==
  LET n == (minutes * UnitsPerMinute) % (2 ^ DurationBits)
  IN  IF n >= 2 ^ (DurationBits - 1) THEN n - 2 ^ DurationBits ELSE n

\* What the service says of a target the policy lets through: BGPService has the details.
Outcomes(p) ==
  IF \E b \in blocks : b.prefix = p THEN {200} ELSE {201, 429, 500, 502, 503}

Refuse(status) == reply' = status /\ UNCHANGED blocks

\* Block, up to its rails, and the answer.
Block(w, minutes) ==
  LET p == ParseTarget(w)
      asked == ToDuration(minutes)
      duration == IF asked = 0 THEN DefaultDuration(raw) ELSE asked
  IN  \/ p = NoTarget /\ Refuse(400)
      \/ p # NoTarget /\ ~(duration >= UnitsPerMinute /\ duration <= MaxDuration(raw)) /\ Refuse(400)
      \/ /\ p # NoTarget /\ duration >= UnitsPerMinute /\ duration <= MaxDuration(raw)
         /\ \/ ~(Check(raw, p) /\ checkNextHop(raw, p)) /\ Refuse(422)
            \/ /\ Check(raw, p) /\ checkNextHop(raw, p)
               /\ \E status \in Outcomes(p) :
                    /\ reply' = status
                    /\ blocks' = IF status = 201
                                 THEN blocks \cup {[prefix |-> p, written |-> w, duration |-> duration]}
                                 ELSE blocks

Asked == ParseSettings(raw) /\ blockCalls < MaxBlockCalls /\ blockCalls' = blockCalls + 1 /\ UNCHANGED raw

CreateBGPBlock(w, minutes) ==
  /\ Asked /\ UNCHANGED told
  /\ IF ~raw.enabled THEN Refuse(409) ELSE IF minutes < 0 THEN Refuse(400) ELSE Block(w, minutes)

DeleteBGPBlock(w) ==
  /\ Asked /\ UNCHANGED told
  /\ LET p == ParseTarget(w)
     IN  CASE ~raw.enabled -> Refuse(409)
           [] raw.enabled /\ p = NoTarget -> Refuse(400)
           [] OTHER -> /\ blocks' = {b \in blocks : b.prefix # p}
                       /\ reply' = IF blocks' = blocks THEN 404 ELSE 200

\* An alert is on a host if its rule type says so and the address is no synthetic one.
isHostTarget(p, hostRule) == hostRule /\ p.addr # 0 /\ ~overlaps(p, labelTargetPrefix)

\* The stored target of an alert is an IPv6 address.
alertTarget(a) == Prefix(6, a, Bare)

\* An alert whose rule was deleted since counts as one on a host.
BlockAlertBGP(a, hostRule, minutes) ==
  LET w == alertTarget(a)
  IN  /\ Asked /\ UNCHANGED told
      /\ CASE ~raw.enabled -> Refuse(409)
           [] raw.enabled /\ minutes < 0 -> Refuse(400)
           [] raw.enabled /\ minutes >= 0 /\ ~isHostTarget(ParseTarget(w), hostRule) -> Refuse(422)
           [] OTHER -> Block(w, minutes)

InternalAutoBlock(w, minutes) ==
  IF ~raw.enabled THEN Refuse(409) ELSE IF minutes < 0 THEN Refuse(400) ELSE Block(w, minutes)

\* AutoBlock: the token is accepted or not, and the answer arrives or is lost.
AutoBlock(w, minutes) ==
  /\ Asked
  /\ \/ Refuse(401)
     \/ InternalAutoBlock(w, minutes)
  /\ told' \in {"error", CASE reply' = 201 -> "created"
                           [] reply' = 200 -> "existing"
                           [] reply' \in 400..499 -> "refused"
                           [] OTHER -> "error"}

BRInit ==
  /\ raw \in RawSettings
  /\ blocks = {} /\ reply = 0 /\ told = "nothing" /\ blockCalls = 0

Requested == Targets4 \cup Targets6 \cup {NoTarget}
Hosts6 == {w.addr : w \in Targets6}

BRNext ==
  \/ \E w \in Requested, minutes \in Minutes : CreateBGPBlock(w, minutes) \/ AutoBlock(w, minutes)
  \/ \E w \in Requested : DeleteBGPBlock(w)
  \/ \E a \in Hosts6, hostRule \in BOOLEAN, minutes \in Minutes : BlockAlertBGP(a, hostRule, minutes)

BRSpec == BRInit /\ [][BRNext]_brVars

(***************************************************************************)
(* The stored form.                                                        *)
(***************************************************************************)
normalizeBlockTarget(f, a, len) ==
  LET mapped == Is4In6(Prefix(f, a, 0))
      family == IF mapped THEN 4 ELSE f
      addr == IF mapped THEN a % Pow2[W4] ELSE a
      own == IF mapped /\ len > W4 THEN len - Offset ELSE len
  IN  CASE family = 4 /\ (own = 0 \/ own > W4) -> Prefix(4, addr, W4)
        [] family = 6 /\ (own < FloorV6 \/ own > W6) -> Prefix(6, addr, W6)
        [] OTHER -> Prefix(family, addr, own)

\* The column is an IPv6 address: IPv4 goes through the mapped block.
Column(p) == IF p.family = 4 THEN MappedBlock * Pow2[W4] + p.addr ELSE p.addr
ReadBack(p) == normalizeBlockTarget(6, Column(p), normalizeBlockTarget(p.family, p.addr, p.bits).bits)

-----------------------------------------------------------------------------
(***************************************************************************)
(* Properties                                                              *)
(***************************************************************************)
\* The addresses of a prefix, one by one, and those that something written stands for.
Members(p) ==
  LET tail == Pow2[Width(p.family) - p.bits]
  IN  {<<p.family, x>> : x \in {y \in 0..(Pow2[Width(p.family)] - 1) : y \div tail = p.addr \div tail}}

Means(w) ==
  LET p == WithLength(w)
  IN  IF Is4In6(p) /\ p.bits >= Offset THEN {<<4, m[2] % Pow2[W4]>> : m \in Members(p)} ELSE Members(p)

OffLimits ==
  UNION ({Members(p) : p \in reservedPrefixes} \cup {Means(w) : w \in raw.protected} \cup
         {Means(w) : w \in {v \in {raw.peer, raw.nextHop, raw.nextHopV6, raw.routerID} : IsSet(v)}})

(* Whatever is configured, written and asked through whichever handler, an *)
(* accepted block stands for exactly the addresses the request named; they *)
(* lie within one allowed prefix and include none that is reserved,        *)
(* protected, the peer's, a next hop or the router id; they are no more    *)
(* than the configured length and the floor admit; the duration is between *)
(* a minute and the maximum; and the block read back from its row, or      *)
(* named by what the listing shows, is the same (ParseTarget, Check,       *)
(* ParseSettings, normalizeBlockTarget, TargetFromParts).                  *)
BlocksKeepWithinThePolicy ==
  \A b \in blocks :
    LET hosts == Means(b.prefix)
        p == b.prefix
    IN  /\ hosts = Means(b.written)
        /\ \E w \in (IF raw.allowed # {} THEN raw.allowed ELSE raw.local) : hosts \subseteq Means(w)
        /\ hosts \cap OffLimits = {}
        /\ Cardinality(hosts) <= IF p.family = 4 THEN Pow2[W4 - FloorV4] ELSE Pow2[W6 - FloorV6]
        /\ IF p.family = 4 THEN raw.minLenV4 = 0 => Cardinality(hosts) = 1
                           ELSE raw.minLenV6 = 0 => Cardinality(hosts) = 1
        /\ b.duration >= UnitsPerMinute /\ b.duration <= MaxDuration(raw)
        /\ ReadBack(p) = p
        /\ TargetFromParts(p.family, p.addr, p.bits) = p
=============================================================================
