---------------------------- MODULE MCOperations ----------------------------
(***************************************************************************)
(* Small instances of the parts that look after the stored data and of the *)
(* parts a request of the API goes through.  They share no state, so each  *)
(* behaviour runs one part; the others rest in their first state.          *)
(***************************************************************************)
EXTENDS MigrationRunner, Retention, ReportSchedules, AlertRules,
        RateLimiter, ResponseCache, ApiGate, BlockRequests

VARIABLE part

Parts == {"migration", "retention", "reports", "rules", "limiter", "cache", "gate", "blocks"}

(* Retention: a table with a legacy table that follows it. *)
MCFollowers == [f \in {"legacy"} |-> "log"]
MCDefaultDays == [t \in {"log", "legacy"} |-> IF t = "legacy" THEN 2 ELSE 4]

(* Reports: months of two and three days; the last timing names a day the shorter months do not have. *)
At4(frequency, h, dow, dom) == [frequency |-> frequency, hour |-> h, dow |-> dow, dom |-> dom]
MCTimings == {At4("daily", 1, 0, 1), At4("weekly", 0, 1, 1), At4("monthly", 1, 0, 2), At4("monthly", 1, 0, 3)}

(* Rules: one with a baseline factor, one of a type that has none. *)
MCFactor == [r \in {"volume", "scan"} |-> IF r = "volume" THEN 2 ELSE 0]

(* Limiter: direct clients that forge the header, and clients behind the proxy. *)
From(peer, forwarded, real, source) == [peer |-> peer, forwarded |-> forwarded, realIP |-> real, source |-> source]
MCConnections ==
  {From("1.1.1.1", <<"9.9.9.9">>, "", "1.1.1.1"), From("proxy", <<"9.9.9.9", "2.2.2.2">>, "", "2.2.2.2"),
   From("proxy", <<"3.3.3.3", "">>, "", "3.3.3.3"), From("proxy", <<>>, "2.2.2.2", "2.2.2.2"),
   From("proxy", <<>>, "", "proxy")}

(* Gate: the clock of ClickHouse behind or ahead. *)
MCSkews == {-1, 1}

(* Blocks: addresses of 3 and 7 bits; IPv6 addresses 8 to 15 are the mapped ones. *)
MCReserved == {Prefix(4, 0, 3), Prefix(4, 6, 2), Prefix(6, 0, 7), Prefix(6, 8, 4), Prefix(6, 16, 5)}
MCLabel == Prefix(6, 16, 5)
MCTargets4 == {Prefix(4, a, b) : a \in {0, 2, 3, 4, 5, 7}, b \in {Bare, 1, 2, 4}}
MCTargets6 == {Prefix(6, a, b) : a \in {8, 11, 13, 16, 40, 41, 44}, b \in {Bare, 3, 5, 6}}
MCMinutes == {-1, 0, 1, 23}

Host(f, a) == Prefix(f, a, Bare)
Missing(f) == Prefix(f, Unset, Bare)
MCBase ==
  [enabled |-> TRUE, peer |-> Host(4, 3), nextHop |-> Host(6, 12), nextHopV6 |-> Missing(6),
   routerID |-> Missing(4), allowed |-> {}, local |-> {}, protected |-> {}, minLenV4 |-> 0, minLenV6 |-> 0,
   announce |-> [target |-> TRUE, nextHop |-> TRUE], defaultDuration |-> 0, maxDuration |-> 0]

MCRawSettings ==
  {MCBase, [MCBase EXCEPT !.enabled = FALSE],
   [MCBase EXCEPT !.allowed = {Prefix(4, 0, 0)}],          \* refused: too broad
   [MCBase EXCEPT !.nextHop = Host(6, 48)],                \* refused: not an IPv4 next hop
   [MCBase EXCEPT !.defaultDuration = 15],                 \* refused: beyond the maximum
   [MCBase EXCEPT !.allowed = {Prefix(4, 1, 1), Prefix(6, 41, 4)}, !.minLenV4 = 2, !.minLenV6 = 5],
   [MCBase EXCEPT !.allowed = {Prefix(6, 12, 5), Prefix(6, 41, 6)}, !.nextHopV6 = Host(6, 44),
                  !.minLenV6 = 5, !.protected = {Prefix(6, 15, Bare), Prefix(6, 47, 6)}],
   [MCBase EXCEPT !.local = {Prefix(4, 4, 1), Prefix(6, 40, 2)}, !.announce.nextHop = FALSE,
                  !.minLenV4 = 2, !.routerID = Host(4, 5), !.defaultDuration = 5, !.maxDuration = 9]}

-----------------------------------------------------------------------------
OpsInit ==
  /\ part \in Parts
  /\ Init /\ RTInit /\ RSInit /\ ARInit /\ RLInit /\ RCInit /\ AGInit /\ BRInit
  \* A part that rests has one first state.
  /\ part # "migration" => \A x \in DOMAIN ran : ran[x] = 0
  /\ part # "rules" => ruleRows = [r \in Rules |-> <<>>]
  /\ part # "gate" => skew = 1
  /\ part # "blocks" => raw = MCBase

Still(p, v) == part # p => UNCHANGED v

OpsNext ==
  /\ part' = part
  /\ Still("migration", vars) /\ Still("retention", rtVars) /\ Still("reports", rsVars)
  /\ Still("rules", arVars) /\ Still("limiter", rlVars) /\ Still("cache", rcVars)
  /\ Still("gate", agVars) /\ Still("blocks", brVars)
  /\ \/ part = "migration" /\ Next
     \/ part = "retention" /\ RTNext
     \/ part = "reports" /\ RSNext
     \/ part = "rules" /\ ARNext
     \/ part = "limiter" /\ RLNext
     \/ part = "cache" /\ RCNext
     \/ part = "gate" /\ AGNext
     \/ part = "blocks" /\ BRNext

(* The start of the collector seeds, and its ticker runs the reconciler again and again; a ticker runs   *)
(* the scheduler every minute, and a conversation with the relay ends by its timeout; a request that was *)
(* read is served.                                                                                       *)
Fairness ==
  /\ WF_rtVars(part = "retention" /\ Reconciler)
  /\ WF_rtVars(part = "retention" /\ SetRetentionPolicy)
  /\ WF_rsVars(part = "reports" /\ Scheduler)
  /\ WF_rsVars(part = "reports" /\ UpdateReportSchedule)

OpsSpec ==
  /\ OpsInit
  /\ [][OpsNext]_<<part, vars, rtVars, rsVars, arVars, rlVars, rcVars, agVars, brVars>>
  /\ Fairness
=============================================================================
