----------------------------- MODULE BlockLedger -----------------------------
(***************************************************************************)
(* What the bgp_blocks table promises, whatever the API process does to    *)
(* it: a ledger of blackhole requests.  A row is written once, only while  *)
(* the rails (BGP_MAX_ACTIVE_BLOCKS, BGP_AUTO_BLOCK_MAX_PER_HOUR) allow    *)
(* one more block, its fields never change, and its status leaves "active" *)
(* at most once.  BGPService.tla (the service of internal/bgp/service.go)  *)
(* is shown to implement this specification.                               *)
(*                                                                         *)
(* A row is in doubt when a write about it was reported as failed to the   *)
(* service: what the service believes of it may differ from what the table *)
(* says, and the rails do not count it.                                    *)
(***************************************************************************)
EXTENDS Integers, FiniteSets

CONSTANTS
  Prefixes,      \* the targets that pass the policy (host routes of our space)
  Ids,           \* the row identifiers (UUIDs); bounds the rows of an instance
  MaxActive,     \* BGP_MAX_ACTIVE_BLOCKS
  AutoPerHour,   \* BGP_AUTO_BLOCK_MAX_PER_HOUR
  Hour,          \* the length of the rate window, in clock units
  Durations,     \* the durations a request may ask for, in clock units
  MaxTime        \* bound: the clock stops there

ASSUME LedgerAssumption ==
  /\ IsFiniteSet(Prefixes) /\ Prefixes # {}
  /\ IsFiniteSet(Ids)
  /\ MaxActive \in Nat /\ AutoPerHour \in Nat
  /\ Hour \in Nat \ {0}
  /\ Durations \subseteq Nat \ {0}
  /\ MaxTime \in Nat

VARIABLES
  rows,          \* bgp_blocks, by id; status "none" = not inserted
  doubtful,      \* ids about which a store write was reported as failed
  clock

ledgerVars == <<rows, doubtful, clock>>

Row == [p: Prefixes, at: Nat, exp: Nat, auto: BOOLEAN, dry: BOOLEAN,
        st: {"active", "withdrawn", "failed"}]

\* An identifier nobody has used.
NoRow == [st |-> "none"]

ActiveRows == {id \in Ids : rows[id].st = "active"}

\* The rails count the rows about which no write was ever in doubt.
TrustedPrefixes == {rows[id].p : id \in ActiveRows \ doubtful}

TrustedAutos ==
  {id \in Ids \ doubtful : /\ rows[id].st \in {"active", "withdrawn"}
                           /\ rows[id].auto
                           /\ rows[id].at > clock - Hour}

LedgerInit ==
  /\ rows = [id \in Ids |-> NoRow]
  /\ doubtful = {}
  /\ clock = 0

(***************************************************************************)
(* A block is recorded, only while both rails leave room for one more.     *)
(* The time of the request is the time the rails were checked at: it may   *)
(* lie before the time of the write.                                       *)
(***************************************************************************)
Create(id, p, at, d, auto, dry) ==
  /\ rows[id] = NoRow
  /\ Cardinality(TrustedPrefixes) < MaxActive
  /\ auto => Cardinality(TrustedAutos) < AutoPerHour
  /\ rows' = [rows EXCEPT ![id] = [p |-> p, at |-> at, exp |-> at + d, auto |-> auto,
                                   dry |-> dry, st |-> "active"]]
  /\ doubtful' \in {doubtful, doubtful \cup {id}}
  /\ UNCHANGED clock

\* Some active rows (possibly none: the write failed) take a final status.
Close(S, st, D) ==
  /\ rows' = [id \in Ids |-> IF id \in S THEN [rows[id] EXCEPT !.st = st] ELSE rows[id]]
  /\ doubtful' = doubtful \cup D
  /\ UNCHANGED clock

Advance ==
  /\ clock < MaxTime
  /\ clock' = clock + 1
  /\ UNCHANGED <<rows, doubtful>>

LedgerNext ==
  \/ \E id \in Ids, p \in Prefixes, at \in 0..clock, d \in Durations,
        auto \in BOOLEAN, dry \in BOOLEAN : Create(id, p, at, d, auto, dry)
  \/ \E S \in SUBSET ActiveRows, st \in {"withdrawn", "failed"}, D \in SUBSET Ids :
        Close(S, st, D)
  \/ Advance

LedgerSpec == LedgerInit /\ [][LedgerNext]_ledgerVars

\* The types of the ledger; the status of a row is one of Enum8's three.
LedgerTypeOK ==
  /\ rows \in [Ids -> Row \cup {NoRow}]
  /\ doubtful \subseteq Ids
  /\ clock \in 0..MaxTime

(***************************************************************************)
(* BGP_MAX_ACTIVE_BLOCKS: at any time, at most MaxActive prefixes have an  *)
(* active row that is not in doubt, across restarts, failed commands and   *)
(* failed writes (the check of Block against countActiveLocked).           *)
(***************************************************************************)
MaxActiveRail == Cardinality(TrustedPrefixes) <= MaxActive

(***************************************************************************)
(* BGP_AUTO_BLOCK_MAX_PER_HOUR: the last hour holds at most AutoPerHour    *)
(* automatic blocks, withdrawn ones included and failed ones not, whatever *)
(* restarts happen in between ("survives restarts": the rate window is     *)
(* read back from the table by restore).                                   *)
(***************************************************************************)
AutoPerHourRail == Cardinality(TrustedAutos) <= AutoPerHour
=============================================================================
