----------------------------- MODULE Enrichment -----------------------------
(***************************************************************************)
(* The start of the collector process, and the enricher with the tables    *)
(* that are loaded into it while flows pass: the links, reloaded from the  *)
(* store, and the prefixes of the local AS, fetched from RIPEstat with     *)
(* retries.  The alert engine starts once its scope is known.              *)
(***************************************************************************)
EXTENDS Integers, FiniteSets

CONSTANTS
  Interfaces,    \* SNMP indexes of one router; 0 is none
  LocalAS,       \* 0: the operator opted out of scoping
  FeatureAlerts,
  Attempts,      \* tries of fetchPrefixesWithRetry
  SkewPast, SkewFuture,  \* bounds of a timestamp, around the time of receipt
  Times          \* timestamps of exporters, relative to the time of receipt

ASSUME EnrichmentAssumption ==
  /\ Interfaces \subseteq Nat /\ LocalAS \in Nat /\ FeatureAlerts \in BOOLEAN
  /\ Attempts \in Nat \ {0} /\ {SkewPast, SkewFuture} \subseteq Nat /\ Times \subseteq Int

VARIABLES
  boot,       \* where main stands: prefixes, links, engine, running
  tries,      \* failed tries of the fetch under way
  localNets,  \* the prefixes of the local AS are known to the enricher
  links,      \* the interfaces that are configured links
  engine,     \* none, held (waiting for its scope), running
  scoped      \* the engine was given the prefixes

enVars == <<boot, tries, localNets, links, engine, scoped>>

ENInit ==
  /\ boot = IF LocalAS > 0 THEN "prefixes" ELSE "links"
  /\ tries = 0 /\ localNets = FALSE /\ links = {} /\ engine = "none" /\ scoped = FALSE

-----------------------------------------------------------------------------
(* Start. *)

\* An answer without prefixes is taken for one.
AnyAnswer(answer) == answer \in {"prefixes", "empty"}

\* An empty answer counts as a failure.
Answered(answer) == answer = "prefixes"

\* fetchPrefixesWithRetry at the start: after the last try main goes on without.
FetchAtStart(answer) ==
  /\ boot = "prefixes"
  /\ IF Answered(answer)
     THEN localNets' = (answer = "prefixes") /\ boot' = "links" /\ tries' = 0
     ELSE /\ tries' = (tries + 1) % Attempts
          /\ boot' = IF tries + 1 = Attempts THEN "links" ELSE "prefixes"
          /\ UNCHANGED localNets
  /\ UNCHANGED <<links, engine, scoped>>

\* The links of the store; when they cannot be read the table stays as it is.
LoadLinks ==
  /\ boot = "links" /\ boot' = "engine"
  /\ links' \in SUBSET Interfaces
  /\ UNCHANGED <<tries, localNets, engine, scoped>>

ReloadLinks ==
  /\ boot = "running" /\ links' \in SUBSET Interfaces
  /\ UNCHANGED <<boot, tries, localNets, engine, scoped>>

StartEngine ==
  /\ boot = "engine" /\ boot' = "running"
  /\ engine' = CASE ~FeatureAlerts -> "none"
                 [] FeatureAlerts /\ (LocalAS = 0 \/ localNets) -> "running"
                 [] OTHER -> "held"
  /\ scoped' = (engine' = "running" /\ localNets)
  /\ UNCHANGED <<tries, localNets, links>>

\* In the background, round after round, until there are prefixes.
FetchForEngine(answer) ==
  /\ boot = "running" /\ engine = "held"
  /\ IF Answered(answer)
     THEN /\ localNets' = (answer = "prefixes") /\ tries' = 0
          /\ engine' = "running" /\ scoped' = (answer = "prefixes")
     ELSE tries' = (tries + 1) % Attempts /\ UNCHANGED <<localNets, engine, scoped>>
  /\ UNCHANGED <<boot, links>>

-----------------------------------------------------------------------------
(* Enrich. *)

InRange(ts) == ts <= SkewFuture /\ ts >= -SkewPast

\* The input is credited whenever it is a link.
InputFirst(flow) ==
  CASE flow.in \in links -> "in"
    [] flow.in \notin links /\ flow.out \in links -> "out"
    [] OTHER -> "none"

\* The side the exporter saw the packet on is credited first.
CreditedSide(flow) ==
  LET sides == IF flow.hint = "out" THEN <<"out", "in">> ELSE <<"in", "out">>
      linked(side) == flow[side] \in links
  IN CASE linked(sides[1]) -> sides[1]
       [] ~linked(sides[1]) /\ linked(sides[2]) -> sides[2]
       [] OTHER -> "none"

\* A private or missing AS of a local address becomes the local one.
ASOf(flow) == IF LocalAS > 0 /\ localNets /\ flow.as \in {"none", "private"} /\ flow.local
              THEN "local" ELSE flow.as

\* A flow as the enricher leaves it.
Enriched(flow) ==
  [ts |-> IF InRange(flow.ts) THEN flow.ts ELSE 0, side |-> CreditedSide(flow), as |-> ASOf(flow)]

RawFlows == [in : Interfaces \cup {0}, out : Interfaces \cup {0}, hint : {"none", "in", "out"},
             ts : Times, as : {"none", "private", "public"}, local : BOOLEAN]

Fetches == \E a \in {"prefixes", "empty", "error"} : FetchAtStart(a) \/ FetchForEngine(a)

ENNext == Fetches \/ LoadLinks \/ ReloadLinks \/ StartEngine

ENSpec == ENInit /\ [][ENNext]_enVars

-----------------------------------------------------------------------------
(* Properties. *)

(***************************************************************************)
(* "Starting the engine without prefixes makes every rule evaluate all     *)
(* traffic" (main): with a local AS configured the engine never runs       *)
(* without its scope, however often RIPEstat fails or answers with nothing.*)
(***************************************************************************)
EngineIsScoped == engine = "running" /\ LocalAS > 0 => scoped /\ localNets

(***************************************************************************)
(* Whatever tables are loaded, the enricher credits a flow between two     *)
(* links to the side that exported it ("the packet counted twice as        *)
(* inbound on A while B never saw it as outbound", Enrich), leaves no flow *)
(* that crossed a link without one, takes no public AS for the local one,  *)
(* and lets no timestamp leave the window retention can handle.            *)
(***************************************************************************)
CreditsTheExportingSide ==
  boot = "running" => \A flow \in RawFlows :
    LET out == Enriched(flow)
    IN /\ out.ts \in -SkewPast .. SkewFuture
       /\ out.side = "none" <=> {flow.in, flow.out} \cap links = {}
       /\ {flow.in, flow.out} \subseteq links => out.side = IF flow.hint = "out" THEN "out" ELSE "in"
       /\ out.as # flow.as => localNets /\ flow.local /\ flow.as # "public"
=============================================================================
