-------------------------- MODULE BGPServiceProofs --------------------------
(***************************************************************************)
(* Proofs about the blackhole service, for every set of prefixes and rows, *)
(* every rail and every combination of failures: the table and the memory  *)
(* agree (EveryActiveRowIsOwned, EveryLiveEntryIsBacked), and the service  *)
(* implements the ledger, from which the rails follow.  Then the routes it *)
(* leaves in the live daemon: a dry-run block is never announced           *)
(* (DryRunNeverAnnounced), whatever fails; a withdrawn block is gone       *)
(* (WithdrawnMeansGone) and a route has a row behind it (RouteHasRecord,   *)
(* NeverUnknownRoute) under the conditions on the daemon and on BGP_DRY_RUN*)
(* that they need.                                                         *)
(***************************************************************************)
EXTENDS BGPService, FiniteSetTheorems, TLAPS

-----------------------------------------------------------------------------
(* The ledger keeps its rails. *)

\* The inductive invariant is the conjunction of what is to be proved.
LedgerInv == LedgerTypeOK /\ MaxActiveRail /\ AutoPerHourRail

\* The sets the rails count are finite.
LEMMA TrustedFinite ==
  ASSUME LedgerTypeOK
  PROVE  /\ IsFiniteSet(TrustedPrefixes) /\ Cardinality(TrustedPrefixes) \in Nat
         /\ IsFiniteSet(TrustedAutos) /\ Cardinality(TrustedAutos) \in Nat
<1>1. TrustedPrefixes \subseteq Prefixes
  BY DEF LedgerTypeOK, TrustedPrefixes, ActiveRows, Row, NoRow
<1>2. TrustedAutos \subseteq Ids
  BY DEF TrustedAutos
<1> QED
  BY <1>1, <1>2, LedgerAssumption, FS_Subset, FS_CardinalityType

\* One more element makes a set larger by one at most.
LEMMA OneMore ==
  ASSUME NEW S, NEW T, NEW x, IsFiniteSet(S), T \subseteq S \cup {x}
  PROVE  /\ IsFiniteSet(T) /\ Cardinality(T) \in Nat /\ Cardinality(S) \in Nat
         /\ Cardinality(T) <= Cardinality(S) + 1
<1>1. /\ IsFiniteSet(S \cup {x})
      /\ Cardinality(S \cup {x}) = IF x \in S THEN Cardinality(S) ELSE Cardinality(S) + 1
  BY FS_AddElement
<1>2. IsFiniteSet(T) /\ Cardinality(T) <= Cardinality(S \cup {x})
  BY <1>1, FS_Subset
<1>3. Cardinality(T) \in Nat /\ Cardinality(S) \in Nat
  BY <1>2, FS_CardinalityType
<1> QED
  BY <1>1, <1>2, <1>3

\* Creation adds one prefix and one automatic row at most.
LEMMA CreateKeepsRails ==
  ASSUME LedgerInv,
         NEW id \in Ids, NEW p \in Prefixes, NEW at \in 0..clock, NEW d \in Durations,
         NEW auto \in BOOLEAN, NEW dry \in BOOLEAN,
         Create(id, p, at, d, auto, dry)
  PROVE  LedgerInv'
<1> USE DEF LedgerInv, Create
<1>1. LedgerTypeOK'
  <2>1. clock \in Nat /\ d \in Nat /\ at \in Nat
    BY LedgerAssumption DEF LedgerTypeOK
  <2> QED
    BY <2>1 DEF LedgerTypeOK, Row, NoRow
<1>2. MaxActiveRail'
  <2>1. TrustedPrefixes' \subseteq TrustedPrefixes \cup {p}
    BY DEF LedgerTypeOK, TrustedPrefixes, ActiveRows, NoRow
  <2>2. IsFiniteSet(TrustedPrefixes)
    BY TrustedFinite
  <2>3. /\ Cardinality(TrustedPrefixes') \in Nat /\ Cardinality(TrustedPrefixes) \in Nat
        /\ Cardinality(TrustedPrefixes') <= Cardinality(TrustedPrefixes) + 1
    BY <2>1, <2>2, OneMore
  <2> QED
    BY <2>3, LedgerAssumption DEF MaxActiveRail
<1>3. AutoPerHourRail'
  <2>1. TrustedAutos' \subseteq TrustedAutos \cup (IF auto THEN {id} ELSE {})
    BY DEF LedgerTypeOK, TrustedAutos, NoRow
  <2>2. CASE ~auto
    BY <2>1, <2>2, TrustedFinite, FS_Subset, FS_CardinalityType, LedgerAssumption
    DEF AutoPerHourRail
  <2>3. CASE auto
    <3>1. IsFiniteSet(TrustedAutos)
      BY TrustedFinite
    <3>2. /\ Cardinality(TrustedAutos') \in Nat /\ Cardinality(TrustedAutos) \in Nat
          /\ Cardinality(TrustedAutos') <= Cardinality(TrustedAutos) + 1
      BY <2>1, <2>3, <3>1, OneMore
    <3> QED
      BY <2>3, <3>2, LedgerAssumption DEF AutoPerHourRail
  <2> QED
    BY <2>2, <2>3
<1> QED
  BY <1>1, <1>2, <1>3

\* A step that only closes rows, doubts more of them or lets time pass
\* counts fewer rows.
LEMMA FewerKeepRails ==
  ASSUME LedgerInv, LedgerTypeOK',
         TrustedPrefixes' \subseteq TrustedPrefixes, TrustedAutos' \subseteq TrustedAutos
  PROVE  LedgerInv'
<1>1. /\ IsFiniteSet(TrustedPrefixes) /\ Cardinality(TrustedPrefixes) \in Nat
      /\ IsFiniteSet(TrustedAutos) /\ Cardinality(TrustedAutos) \in Nat
  BY TrustedFinite DEF LedgerInv
<1>2. /\ Cardinality(TrustedPrefixes') <= Cardinality(TrustedPrefixes)
      /\ IsFiniteSet(TrustedPrefixes')
  BY <1>1, FS_Subset
<1>3. /\ Cardinality(TrustedAutos') <= Cardinality(TrustedAutos)
      /\ IsFiniteSet(TrustedAutos')
  BY <1>1, FS_Subset
<1>4. Cardinality(TrustedPrefixes') \in Nat /\ Cardinality(TrustedAutos') \in Nat
  BY <1>2, <1>3, FS_CardinalityType
<1> QED
  BY <1>1, <1>2, <1>3, <1>4, LedgerAssumption DEF LedgerInv, MaxActiveRail, AutoPerHourRail

(***************************************************************************)
(* The rails of the ledger: at most MaxActive prefixes have an active row  *)
(* that is not in doubt, and at most AutoPerHour automatic rows of the     *)
(* last hour, not failed and not in doubt, exist at any time.              *)
(***************************************************************************)
THEOREM LedgerRails == LedgerSpec => [](LedgerTypeOK /\ MaxActiveRail /\ AutoPerHourRail)
<1>1. LedgerInit => LedgerInv
  <2> SUFFICES ASSUME LedgerInit PROVE LedgerInv
    OBVIOUS
  <2>1. TrustedPrefixes = {} /\ TrustedAutos = {}
    BY DEF LedgerInit, TrustedPrefixes, TrustedAutos, ActiveRows, NoRow
  <2>2. LedgerTypeOK
    BY LedgerAssumption DEF LedgerInit, LedgerTypeOK
  <2> QED
    BY <2>1, <2>2, FS_EmptySet, LedgerAssumption DEF LedgerInv, MaxActiveRail, AutoPerHourRail
<1>2. LedgerInv /\ [LedgerNext]_ledgerVars => LedgerInv'
  <2> SUFFICES ASSUME LedgerInv, [LedgerNext]_ledgerVars PROVE LedgerInv'
    OBVIOUS
  <2>1. ASSUME NEW id \in Ids, NEW p \in Prefixes, NEW at \in 0..clock, NEW d \in Durations,
               NEW auto \in BOOLEAN, NEW dry \in BOOLEAN,
               Create(id, p, at, d, auto, dry)
        PROVE  LedgerInv'
    BY <2>1, CreateKeepsRails
  <2>2. ASSUME NEW S \in SUBSET ActiveRows, NEW st \in {"withdrawn", "failed"},
               NEW D \in SUBSET Ids, Close(S, st, D)
        PROVE  LedgerInv'
    <3>1. LedgerTypeOK'
      BY <2>2 DEF LedgerInv, LedgerTypeOK, Close, ActiveRows, Row, NoRow
    <3>2. TrustedPrefixes' \subseteq TrustedPrefixes
      BY <2>2 DEF LedgerInv, LedgerTypeOK, Close, ActiveRows, TrustedPrefixes, Row, NoRow
    <3>3. TrustedAutos' \subseteq TrustedAutos
      BY <2>2 DEF LedgerInv, LedgerTypeOK, Close, ActiveRows, TrustedAutos, Row, NoRow
    <3> QED
      BY <3>1, <3>2, <3>3, FewerKeepRails
  <2>3. CASE Advance
    <3>1. LedgerTypeOK' /\ clock \in Nat /\ clock' = clock + 1
      BY <2>3, LedgerAssumption DEF LedgerInv, LedgerTypeOK, Advance
    <3>2. TrustedPrefixes' = TrustedPrefixes
      BY <2>3 DEF Advance, TrustedPrefixes, ActiveRows
    <3>3. TrustedAutos' \subseteq TrustedAutos
      BY <2>3, <3>1, LedgerAssumption
      DEF LedgerInv, LedgerTypeOK, Advance, TrustedAutos, Row, NoRow
    <3> QED
      BY <3>1, <3>2, <3>3, FewerKeepRails
  <2>4. CASE UNCHANGED ledgerVars
    BY <2>4 DEF ledgerVars, LedgerInv, LedgerTypeOK, MaxActiveRail, AutoPerHourRail,
                TrustedPrefixes, TrustedAutos, ActiveRows
  <2> QED
    BY <2>1, <2>2, <2>3, <2>4 DEF LedgerNext
<1>3. LedgerInv => LedgerTypeOK /\ MaxActiveRail /\ AutoPerHourRail
  BY DEF LedgerInv
<1> QED
  BY <1>1, <1>2, <1>3, PTL DEF LedgerSpec

-----------------------------------------------------------------------------
(* The inductive invariant of the service. *)

\* The row of a Block that has passed its insert.
Inserted == op.kind = "block" /\ op.step # "insert"

\* Reconcile goes past restore, and an operation starts, only when loaded.
LoadedFirst ==
  /\ op # Idle => loaded
  /\ loop # "rest" => loaded
  /\ probe["loop"] # "none" => loop = "session"
  /\ op.kind = "expire" => loop = "rest"

\* What Block relies on between its admission and its end.
BlockInv ==
  op.kind = "block" =>
    /\ op.p \notin Live
    /\ op.step = "insert" =>
         /\ rows[op.id] = NoRow /\ op.at <= clock
         /\ Cardinality(Live) < MaxActive
         /\ op.auto => Cardinality(RecentAutos(autoIds, op.at)) < AutoPerHour
    /\ op.step # "insert" =>
         /\ rows[op.id].st = "active"
         /\ rows[op.id].p = op.p /\ rows[op.id].auto = op.auto

\* What the handling of an entry relies on: nobody else removes entries.
EntryInv ==
  /\ op.kind \in {"expire", "check"} => op.todo \subseteq Known
  /\ op.kind \in {"unblock", "expire", "check"} =>
       /\ op.step \in {"withdraw", "verify", "announce", "confirm"} => op.p \in Live
       /\ op.step = "persist" => op.p \in Known /\ active[op.p].withdrawn

\* An entry only names rows of its own prefix.
OwnRows == \A p \in Prefixes : \A id \in active[p].ids : rows[id] # NoRow /\ rows[id].p = p

\* The rate window misses no automatic row that the rail counts.
AutosRemembered ==
  /\ \A id \in autoIds : rows[id] # NoRow
  /\ loaded => TrustedAutos \subseteq autoIds \cup (IF Inserted THEN {op.id} ELSE {})

Inv ==
  /\ TypeOK /\ LoadedFirst /\ BlockInv /\ EntryInv /\ OwnRows /\ AutosRemembered
  /\ EveryActiveRowIsOwned /\ EveryLiveEntryIsBacked

-----------------------------------------------------------------------------
(* Types. *)

\* The kind and the step of the operation determine its shape.
LEMMA OpShape ==
  ASSUME TypeOK
  PROVE  /\ op.kind = "idle" <=> op = Idle
         /\ op.kind = "block" => op \in BlockOp
         /\ op # Idle /\ op.kind # "block" /\ op.step = "next" => op \in PassOp
         /\ op # Idle /\ op.kind # "block" /\ op.step # "next" => op \in EntryOp
BY DEF TypeOK, Idle, BlockOp, PassOp, EntryOp

\* The updates the service makes to an entry.
LEMMA EntryType ==
  /\ NoEntry \in Entry
  /\ \A S \in SUBSET Ids, t \in Nat, dry \in BOOLEAN, pending \in BOOLEAN :
       [ids |-> S, exp |-> t, dry |-> dry, pending |-> pending, withdrawn |-> FALSE] \in Entry
  /\ \A e \in Entry : /\ [e EXCEPT !.withdrawn = TRUE] \in Entry
                      /\ [e EXCEPT !.pending = TRUE] \in Entry
                      /\ [e EXCEPT !.pending = FALSE] \in Entry
BY DEF Entry, NoEntry

\* Every action keeps the types.
LEMMA TypeStep == TypeOK /\ [Next]_vars => TypeOK'
<1> SUFFICES ASSUME TypeOK, [Next]_vars PROVE TypeOK'
  OBVIOUS
<1> USE DEF TypeOK, LedgerTypeOK, memoryVars, daemonVars
<1>1. ASSUME NEW p \in Prefixes, NEW d \in Durations, NEW auto \in BOOLEAN,
             BlockAdmit(p, d, auto)
      PROVE  TypeOK'
  BY <1>1, LedgerAssumption DEF BlockAdmit, RecentAutos, BlockOp
<1>2. ASSUME NEW p \in Prefixes, UnblockBegin(p) PROVE TypeOK'
  BY <1>2, LedgerAssumption DEF UnblockBegin, Handle, EntryOp
<1>3. CASE BlockInsert
  BY <1>3, OpShape, LedgerAssumption, ServiceAssumption
  DEF BlockInsert, At, Fault, Idle, BlockOp, Row, NoRow
<1>4. CASE BlockAnnounce
  BY <1>4, OpShape, LedgerAssumption, ServiceAssumption
  DEF BlockAnnounce, At, Succeeds, Fails, Announce, Fault, Idle, BlockOp
<1>5. CASE BlockPublish
  <2>1. active' \in [Prefixes -> Entry]
    <3>1. op \in BlockOp /\ op.at \in Nat /\ op.dur \in Nat
      BY <1>5, OpShape, LedgerAssumption, ServiceAssumption DEF BlockPublish, At, BlockOp
    <3>2. [ids |-> {op.id}, exp |-> op.at + op.dur, dry |-> dryRun,
           pending |-> FALSE, withdrawn |-> FALSE] \in Entry
      <4>1. op.at + op.dur \in Nat
        BY <3>1
      <4>2. {op.id} \in SUBSET Ids /\ dryRun \in BOOLEAN
        BY <3>1, ServiceAssumption DEF BlockOp
      <4> QED
        BY <4>1, <4>2 DEF Entry
    <3> QED
      BY <1>5, <3>1, <3>2 DEF BlockPublish, BlockOp
  <2> QED
    BY <1>5, <2>1, OpShape DEF BlockPublish, At, Idle, BlockOp
<1>6. CASE BlockMarkFailed
  BY <1>6, OpShape, LedgerAssumption, ServiceAssumption
  DEF BlockMarkFailed, At, StatusWritten, StatusWriteFails, SetBlockStatus, Fault, Idle, BlockOp, Row, NoRow
<1>7. CASE PruneAuto
  BY <1>7, OpShape, LedgerAssumption, ServiceAssumption
  DEF PruneAuto, RecentAutos
<1>8. CASE OrphanWithdraw
  BY <1>8, OpShape, LedgerAssumption, ServiceAssumption
  DEF OrphanWithdraw, At, Succeeds, Fails, Withdraw, Fault, Idle, EntryOp
<1>9. CASE EntryWithdraw
  <2>1. op \in EntryOp
    BY <1>9, OpShape DEF EntryWithdraw, Idle
  <2>2. active' \in [Prefixes -> Entry]
    <3>1. op.p \in Prefixes /\ active[op.p] \in Entry
      BY <2>1 DEF EntryOp
    <3>2. [active[op.p] EXCEPT !.withdrawn = TRUE] \in Entry
      BY <3>1, EntryType
    <3> QED
      BY <1>9, <3>1, <3>2 DEF EntryWithdraw, MarkWithdrawn
  <2>3. op' \in EntryOp
    BY <1>9, <2>1 DEF EntryWithdraw, EntryOp
  <2>4. faults' \in 0..MaxFaults
    BY <1>9, ServiceAssumption DEF EntryWithdraw, Succeeds, Fails, Fault
  <2> QED
    BY <1>9, <2>2, <2>3, <2>4 DEF EntryWithdraw, Succeeds, Fails, Withdraw
<1>10. CASE EntryVerify
  <2>1. op \in EntryOp
    BY <1>10, OpShape DEF EntryVerify, Idle
  <2>2. active' \in [Prefixes -> Entry]
    <3>1. op.p \in Prefixes /\ active[op.p] \in Entry
      BY <2>1 DEF EntryOp
    <3>2. [active[op.p] EXCEPT !.withdrawn = TRUE] \in Entry
      BY <3>1, EntryType
    <3> QED
      BY <1>10, <3>1, <3>2 DEF EntryVerify, MarkWithdrawn
  <2>3. op' \in {Idle} \cup PassOp \cup EntryOp
    BY <1>10, <2>1 DEF EntryVerify, EntryOp, PassOp, Done
  <2>4. faults' \in 0..MaxFaults
    BY <1>10, ServiceAssumption DEF EntryVerify, Listing, ListingFails, Fault
  <2> QED
    BY <1>10, <2>2, <2>3, <2>4 DEF EntryVerify
<1>11. CASE EntryPersist
  <2>1. op \in EntryOp
    BY <1>11, OpShape DEF EntryPersist, Idle
  <2>2. active' \in [Prefixes -> Entry]
    BY <1>11, <2>1, EntryType DEF EntryPersist, EntryOp
  <2>3. op' \in {Idle} \cup PassOp
    BY <1>11, <2>1 DEF EntryPersist, EntryOp, PassOp, Done
  <2>4. faults' \in 0..MaxFaults
    BY <1>11, ServiceAssumption DEF EntryPersist, StatusWritten, StatusWriteFails, Fault
  <2>5. rows' \in [Ids -> Row \cup {NoRow}] /\ doubtful' \subseteq Ids
    <3>1. op.p \in Prefixes
      BY <2>1 DEF EntryOp
    <3>2. active[op.p].ids \subseteq Ids
      BY <3>1 DEF Entry
    <3>3. ASSUME SetBlockStatus(active[op.p].ids, "withdrawn") PROVE rows' \in [Ids -> Row \cup {NoRow}]
      BY <3>3 DEF SetBlockStatus, Row, NoRow
    <3> QED
      BY <1>11, <3>2, <3>3 DEF EntryPersist, StatusWritten, StatusWriteFails
  <2> QED
    BY <1>11, <2>2, <2>3, <2>4, <2>5 DEF EntryPersist
<1>12. CASE Restore
  <2>1. \A p \in Prefixes : Restored(p) \subseteq Entry
    <3>1. \A id \in ActiveRows : rows[id].exp \in Nat /\ rows[id].dry \in BOOLEAN
      BY DEF ActiveRows, Row, NoRow
    <3>2. \A p \in Prefixes : RowsOf(p) \in SUBSET Ids /\ RowsOf(p) \subseteq ActiveRows
      BY DEF RowsOf, ActiveRows
    <3>3. ASSUME NEW p \in Prefixes, NEW id \in RowsOf(p)
          PROVE  [ids |-> RowsOf(p), exp |-> rows[id].exp, dry |-> rows[id].dry,
                  pending |-> TRUE, withdrawn |-> FALSE] \in Entry
      BY <3>1, <3>2 DEF Entry
    <3> QED
      BY <3>3, EntryType DEF Restored
  <2>2. active' \in [Prefixes -> Entry]
    BY <1>12, <2>1 DEF Restore
  <2> QED
    BY <1>12, <2>2 DEF Restore, RestoredAutos, RecentAutos
<1>13. CASE ExpireBegin
  BY <1>13, OpShape, LedgerAssumption, ServiceAssumption
  DEF ExpireBegin, Known, PassOp
<1>14. CASE RetryAnnounce
  BY <1>14, OpShape, LedgerAssumption, ServiceAssumption
  DEF RetryAnnounce, At, Succeeds, Fails, Announce, DryEntry, Fault, Idle, EntryOp, PassOp, Entry, Done
<1>15. CASE RetryConfirm
  <2>1. op \in EntryOp
    BY <1>15, OpShape DEF RetryConfirm, At, Idle
  <2>2. active' \in [Prefixes -> Entry]
    BY <1>15, <2>1, EntryType DEF RetryConfirm, EntryOp
  <2> QED
    BY <1>15, <2>1, <2>2 DEF RetryConfirm, Done, EntryOp, PassOp
<1>16. CASE ExpireEnd
  BY <1>16, OpShape, LedgerAssumption, ServiceAssumption
  DEF ExpireEnd, At, Idle
<1>17. CASE CheckBegin
  BY <1>17, OpShape, LedgerAssumption, ServiceAssumption
  DEF CheckBegin, Listing, ListingFails, Fault, Known, PassOp
<1>18. CASE CheckAnnounce
  BY <1>18, OpShape, LedgerAssumption, ServiceAssumption
  DEF CheckAnnounce, At, Succeeds, Fails, Announce, DryEntry, Fault, Idle, EntryOp, PassOp, Entry, Done
<1>19. CASE CheckEnd
  BY <1>19, OpShape, LedgerAssumption, ServiceAssumption
  DEF CheckEnd, At, Idle, PassOp
<1>20. CASE Tick
  BY <1>20, OpShape, LedgerAssumption, ServiceAssumption
  DEF Tick, Advance
<1>21. CASE Crash
  <2>1. active' \in [Prefixes -> Entry]
    BY <1>21, EntryType DEF Crash
  <2>2. faults' \in 0..MaxFaults
    BY <1>21, ServiceAssumption DEF Crash, Fault
  <2> QED
    BY <1>21, <2>1, <2>2 DEF Crash
<1>22. CASE DaemonDown
  <2>1. faults' \in 0..MaxFaults
    BY <1>22, ServiceAssumption DEF DaemonDown, Fault
  <2> QED
    BY <1>22, <2>1 DEF DaemonDown
<1>23. CASE PeerUp
  BY <1>23, OpShape, LedgerAssumption, ServiceAssumption
  DEF PeerUp
<1>24. ASSUME NEW p \in Prefixes, ExpireEntry(p) PROVE TypeOK'
  BY <1>24, OpShape, LedgerAssumption, ServiceAssumption
  DEF ExpireEntry, ExpireStep, Handle, Skip, At, Idle, PassOp, EntryOp
<1>25. ASSUME NEW p \in Prefixes, CheckEntry(p) PROVE TypeOK'
  BY <1>25, OpShape, LedgerAssumption, ServiceAssumption
  DEF CheckEntry, Missing, Handle, Skip, At, Idle, PassOp, EntryOp
<1>26. ASSUME NEW c \in Callers, SessionStatus(c) PROVE TypeOK'
  BY <1>26, OpShape, LedgerAssumption, ServiceAssumption
  DEF SessionStatus, Fault
<1>27. ASSUME NEW c \in Callers, SessionApply(c) PROVE TypeOK'
  <2>1. Repush \in [Prefixes -> Entry]
    BY EntryType DEF Repush
  <2>2. probe' \in [Callers -> {"none", "established", "other", "failed"}]
    BY <1>27 DEF SessionApply
  <2> QED
    BY <1>27, <2>1, <2>2 DEF SessionApply
<1>28. CASE UNCHANGED vars
  BY <1>28 DEF vars
<1> QED
  BY <1>1, <1>2, <1>3, <1>4, <1>5, <1>6, <1>7, <1>8, <1>9, <1>10, <1>11, <1>12, <1>13, <1>14, <1>15, <1>16, <1>17, <1>18, <1>19, <1>20, <1>21, <1>22, <1>23, <1>24, <1>25, <1>26, <1>27, <1>28
  DEF Next, BlockStep, WithdrawStep, PassStep

-----------------------------------------------------------------------------
(* The invariant is inductive. *)

\* The sets an admission counts are finite, and shrink with the rate window.
LEMMA AdmissionCounts ==
  ASSUME TypeOK
  PROVE  /\ IsFiniteSet(Live) /\ Cardinality(Live) \in Nat
         /\ \A S \in SUBSET autoIds, t \in Nat :
              /\ IsFiniteSet(RecentAutos(S, t))
              /\ Cardinality(RecentAutos(S, t)) \in Nat
              /\ Cardinality(RecentAutos(S, t)) <= Cardinality(RecentAutos(autoIds, t))
<1>1. Live \subseteq Prefixes
  BY DEF Live, Known
<1>2. ASSUME NEW S \in SUBSET autoIds, NEW t \in Nat
      PROVE  /\ IsFiniteSet(RecentAutos(S, t))
             /\ Cardinality(RecentAutos(S, t)) \in Nat
             /\ Cardinality(RecentAutos(S, t)) <= Cardinality(RecentAutos(autoIds, t))
  <2>1. RecentAutos(autoIds, t) \subseteq Ids /\ RecentAutos(S, t) \subseteq RecentAutos(autoIds, t)
    BY DEF RecentAutos, TypeOK
  <2>2. IsFiniteSet(RecentAutos(autoIds, t))
    BY <2>1, LedgerAssumption, FS_Subset
  <2> QED
    BY <2>1, <2>2, FS_Subset, FS_CardinalityType
<1> QED
  BY <1>1, <1>2, LedgerAssumption, FS_Subset, FS_CardinalityType

\* A step that moves only the operation, and settles no row.
LEMMA OnlyTheOperationMoves ==
  ASSUME Inv, TypeOK', LoadedFirst', EntryInv', BlockInv',
         UNCHANGED <<rows, doubtful, clock, loaded, active, autoIds>>,
         \A id \in Ids : InFlight(id) => InFlight(id)',
         Inserted => Inserted' /\ op'.id = op.id
  PROVE  Inv'
<1>1. OwnRows' /\ EveryLiveEntryIsBacked'
  BY DEF Inv, OwnRows, EveryLiveEntryIsBacked, Live, Known, RowsOf, ActiveRows
<1>2. EveryActiveRowIsOwned'
  BY DEF Inv, EveryActiveRowIsOwned, Live, Known, ActiveRows
<1>3. AutosRemembered'
  BY DEF Inv, AutosRemembered, TrustedAutos
<1> QED
  BY <1>1, <1>2, <1>3 DEF Inv

\* The same when the operation stays too.
LEMMA NothingOfOursMoves ==
  ASSUME Inv, TypeOK', LoadedFirst',
         UNCHANGED <<rows, doubtful, clock, loaded, active, autoIds, op>>
  PROVE  Inv'
<1>1. EntryInv' /\ BlockInv'
  BY DEF Inv, EntryInv, BlockInv, Live, Known, RecentAutos
<1>2. /\ \A id \in Ids : InFlight(id) => InFlight(id)'
      /\ Inserted => Inserted' /\ op'.id = op.id
  BY DEF InFlight, Inserted
<1> QED
  BY <1>1, <1>2, OnlyTheOperationMoves

\* What a status update, done, refused or done late, leaves alone.
LEMMA StatusUpdate ==
  ASSUME TypeOK, NEW S \in SUBSET Ids, NEW st \in {"withdrawn", "failed"},
         StatusWritten(S, st) \/ StatusWriteFails(S, st)
  PROVE  \A id \in Ids :
           /\ rows[id] = NoRow <=> rows'[id] = NoRow
           /\ rows[id] # NoRow => /\ rows'[id].p = rows[id].p /\ rows'[id].at = rows[id].at
                                 /\ rows'[id].auto = rows[id].auto
           /\ id \notin S => rows'[id] = rows[id]
           /\ rows'[id].st = "active" => rows[id] = rows'[id]
BY DEF TypeOK, LedgerTypeOK, StatusWritten, StatusWriteFails, SetBlockStatus, Row, NoRow

\* Every action keeps the invariant.
LEMMA InvStep == Inv /\ [Next]_vars => Inv'
<1> SUFFICES ASSUME Inv, [Next]_vars PROVE Inv'
  OBVIOUS
<1> USE OpShape
<1>t. TypeOK /\ TypeOK'
  BY TypeStep DEF Inv
<1>1. ASSUME NEW p \in Prefixes, UnblockBegin(p) PROVE Inv'
  <2>1. LoadedFirst' /\ EntryInv' /\ BlockInv'
    BY <1>1, <1>t DEF Inv, TypeOK, LoadedFirst, EntryInv, BlockInv, Live, Known, UnblockBegin, memoryVars, Idle, Handle
  <2>2. /\ \A id \in Ids : InFlight(id) => InFlight(id)'
        /\ Inserted => Inserted' /\ op'.id = op.id
    BY <1>1, <1>t DEF TypeOK, InFlight, Inserted, UnblockBegin, memoryVars, Idle, Handle
  <2> QED
    BY <1>1, <1>t, <2>1, <2>2, OnlyTheOperationMoves DEF UnblockBegin, memoryVars
<1>2. CASE BlockAnnounce
  <2>1. LoadedFirst' /\ EntryInv' /\ BlockInv'
    BY <1>2, <1>t DEF Inv, TypeOK, LoadedFirst, EntryInv, BlockInv, Live, Known, BlockAnnounce, memoryVars, Idle, At, BlockOp
  <2>2. /\ \A id \in Ids : InFlight(id) => InFlight(id)'
        /\ Inserted => Inserted' /\ op'.id = op.id
    BY <1>2, <1>t DEF TypeOK, InFlight, Inserted, BlockAnnounce, memoryVars, Idle, At, BlockOp
  <2> QED
    BY <1>2, <1>t, <2>1, <2>2, OnlyTheOperationMoves DEF BlockAnnounce, memoryVars
<1>3. CASE OrphanWithdraw
  <2>1. LoadedFirst' /\ EntryInv' /\ BlockInv'
    BY <1>3, <1>t DEF Inv, TypeOK, LoadedFirst, EntryInv, BlockInv, Live, Known, OrphanWithdraw, memoryVars, Idle, At, EntryOp
  <2>2. /\ \A id \in Ids : InFlight(id) => InFlight(id)'
        /\ Inserted => Inserted' /\ op'.id = op.id
    BY <1>3, <1>t DEF TypeOK, InFlight, Inserted, OrphanWithdraw, memoryVars, Idle, At, EntryOp
  <2> QED
    BY <1>3, <1>t, <2>1, <2>2, OnlyTheOperationMoves DEF OrphanWithdraw, memoryVars
<1>4. CASE ExpireBegin
  <2>1. LoadedFirst' /\ EntryInv' /\ BlockInv'
    BY <1>4, <1>t DEF Inv, TypeOK, LoadedFirst, EntryInv, BlockInv, Live, Known, ExpireBegin, memoryVars, Idle, Known
  <2>2. /\ \A id \in Ids : InFlight(id) => InFlight(id)'
        /\ Inserted => Inserted' /\ op'.id = op.id
    BY <1>4, <1>t DEF TypeOK, InFlight, Inserted, ExpireBegin, memoryVars, Idle, Known
  <2> QED
    BY <1>4, <1>t, <2>1, <2>2, OnlyTheOperationMoves DEF ExpireBegin, memoryVars
<1>5. ASSUME NEW p \in Prefixes, ExpireEntry(p) PROVE Inv'
  <2>1. LoadedFirst' /\ EntryInv' /\ BlockInv'
    BY <1>5, <1>t DEF Inv, TypeOK, LoadedFirst, EntryInv, BlockInv, Live, Known, ExpireEntry, memoryVars, Idle, At, PassOp, ExpireStep, Handle, Skip
  <2>2. /\ \A id \in Ids : InFlight(id) => InFlight(id)'
        /\ Inserted => Inserted' /\ op'.id = op.id
    BY <1>5, <1>t DEF TypeOK, InFlight, Inserted, ExpireEntry, memoryVars, Idle, At, PassOp, ExpireStep, Handle, Skip
  <2> QED
    BY <1>5, <1>t, <2>1, <2>2, OnlyTheOperationMoves DEF ExpireEntry, memoryVars
<1>6. CASE RetryAnnounce
  <2>1. LoadedFirst' /\ EntryInv' /\ BlockInv'
    BY <1>6, <1>t DEF Inv, TypeOK, LoadedFirst, EntryInv, BlockInv, Live, Known, RetryAnnounce, memoryVars, Idle, At, EntryOp, Done
  <2>2. /\ \A id \in Ids : InFlight(id) => InFlight(id)'
        /\ Inserted => Inserted' /\ op'.id = op.id
    BY <1>6, <1>t DEF TypeOK, InFlight, Inserted, RetryAnnounce, memoryVars, Idle, At, EntryOp, Done
  <2> QED
    BY <1>6, <1>t, <2>1, <2>2, OnlyTheOperationMoves DEF RetryAnnounce, memoryVars
<1>7. CASE ExpireEnd
  <2>1. LoadedFirst' /\ EntryInv' /\ BlockInv'
    BY <1>7, <1>t DEF Inv, TypeOK, LoadedFirst, EntryInv, BlockInv, Live, Known, ExpireEnd, memoryVars, Idle, At, PassOp
  <2>2. /\ \A id \in Ids : InFlight(id) => InFlight(id)'
        /\ Inserted => Inserted' /\ op'.id = op.id
    BY <1>7, <1>t DEF TypeOK, InFlight, Inserted, ExpireEnd, memoryVars, Idle, At, PassOp
  <2> QED
    BY <1>7, <1>t, <2>1, <2>2, OnlyTheOperationMoves DEF ExpireEnd, memoryVars
<1>8. CASE CheckBegin
  <2>1. LoadedFirst' /\ EntryInv' /\ BlockInv'
    BY <1>8, <1>t DEF Inv, TypeOK, LoadedFirst, EntryInv, BlockInv, Live, Known, CheckBegin, memoryVars, Idle, Known
  <2>2. /\ \A id \in Ids : InFlight(id) => InFlight(id)'
        /\ Inserted => Inserted' /\ op'.id = op.id
    BY <1>8, <1>t DEF TypeOK, InFlight, Inserted, CheckBegin, memoryVars, Idle, Known
  <2> QED
    BY <1>8, <1>t, <2>1, <2>2, OnlyTheOperationMoves DEF CheckBegin, memoryVars
<1>9. ASSUME NEW p \in Prefixes, CheckEntry(p) PROVE Inv'
  <2>1. LoadedFirst' /\ EntryInv' /\ BlockInv'
    BY <1>9, <1>t DEF Inv, TypeOK, LoadedFirst, EntryInv, BlockInv, Live, Known, CheckEntry, memoryVars, Idle, At, PassOp, Missing, Handle, Skip
  <2>2. /\ \A id \in Ids : InFlight(id) => InFlight(id)'
        /\ Inserted => Inserted' /\ op'.id = op.id
    BY <1>9, <1>t DEF TypeOK, InFlight, Inserted, CheckEntry, memoryVars, Idle, At, PassOp, Missing, Handle, Skip
  <2> QED
    BY <1>9, <1>t, <2>1, <2>2, OnlyTheOperationMoves DEF CheckEntry, memoryVars
<1>10. CASE CheckAnnounce
  <2>1. LoadedFirst' /\ EntryInv' /\ BlockInv'
    BY <1>10, <1>t DEF Inv, TypeOK, LoadedFirst, EntryInv, BlockInv, Live, Known, CheckAnnounce, memoryVars, Idle, At, EntryOp, Done
  <2>2. /\ \A id \in Ids : InFlight(id) => InFlight(id)'
        /\ Inserted => Inserted' /\ op'.id = op.id
    BY <1>10, <1>t DEF TypeOK, InFlight, Inserted, CheckAnnounce, memoryVars, Idle, At, EntryOp, Done
  <2> QED
    BY <1>10, <1>t, <2>1, <2>2, OnlyTheOperationMoves DEF CheckAnnounce, memoryVars
<1>11. CASE CheckEnd
  <2>1. LoadedFirst' /\ EntryInv' /\ BlockInv'
    BY <1>11, <1>t DEF Inv, TypeOK, LoadedFirst, EntryInv, BlockInv, Live, Known, CheckEnd, memoryVars, Idle, At, PassOp
  <2>2. /\ \A id \in Ids : InFlight(id) => InFlight(id)'
        /\ Inserted => Inserted' /\ op'.id = op.id
    BY <1>11, <1>t DEF TypeOK, InFlight, Inserted, CheckEnd, memoryVars, Idle, At, PassOp
  <2> QED
    BY <1>11, <1>t, <2>1, <2>2, OnlyTheOperationMoves DEF CheckEnd, memoryVars
<1>12. ASSUME NEW c \in Callers, SessionStatus(c) PROVE Inv'
  <2>1. LoadedFirst'
    BY <1>12, <1>t, ServiceAssumption DEF Inv, TypeOK, LoadedFirst, SessionStatus, memoryVars
  <2> QED
    BY <1>12, <1>t, <2>1, NothingOfOursMoves DEF SessionStatus, memoryVars
<1>13. CASE DaemonDown
  <2>1. LoadedFirst'
    BY <1>13, <1>t, ServiceAssumption DEF Inv, TypeOK, LoadedFirst, DaemonDown, memoryVars
  <2> QED
    BY <1>13, <1>t, <2>1, NothingOfOursMoves DEF DaemonDown, memoryVars
<1>14. CASE PeerUp
  <2>1. LoadedFirst'
    BY <1>14, <1>t, ServiceAssumption DEF Inv, TypeOK, LoadedFirst, PeerUp, memoryVars
  <2> QED
    BY <1>14, <1>t, <2>1, NothingOfOursMoves DEF PeerUp, memoryVars
<1>15. ASSUME NEW p \in Prefixes, NEW d \in Durations, NEW auto \in BOOLEAN,
             BlockAdmit(p, d, auto)
      PROVE  Inv'
  <2>1. LoadedFirst' /\ EntryInv' /\ OwnRows' /\ EveryLiveEntryIsBacked'
    BY <1>15, <1>t DEF Inv, LoadedFirst, EntryInv, OwnRows, EveryLiveEntryIsBacked, BlockAdmit,
                   Live, Known, RowsOf, ActiveRows
  <2>2. BlockInv'
    <3>1. Live' = Live
      BY <1>15 DEF BlockAdmit, Live, Known
    <3>2. auto => Cardinality(RecentAutos(autoIds, op.at)') < AutoPerHour
      <4>1. auto => RecentAutos(autoIds, op.at)' = RecentAutos(autoIds, clock)
        BY <1>15 DEF BlockAdmit, RecentAutos
      <4> QED
        BY <1>15, <4>1 DEF BlockAdmit
    <3>3. clock \in Nat
      BY <1>t, LedgerAssumption DEF TypeOK, LedgerTypeOK
    <3> QED
      BY <1>15, <3>1, <3>2, <3>3 DEF BlockInv, BlockAdmit, CountActive
  <2>3. EveryActiveRowIsOwned'
    BY <1>15 DEF Inv, EveryActiveRowIsOwned, BlockAdmit, Live, Known, ActiveRows, InFlight, Idle
  <2>4. AutosRemembered'
    BY <1>15 DEF Inv, AutosRemembered, BlockAdmit, TrustedAutos, RecentAutos, Inserted, Idle
  <2> QED
    BY <1>t, <2>1, <2>2, <2>3, <2>4 DEF Inv
<1>16. CASE BlockInsert
  <2>1. LoadedFirst' /\ EntryInv'
    BY <1>16, <1>t DEF Inv, TypeOK, LoadedFirst, EntryInv, BlockInsert, memoryVars, At, Idle, BlockOp,
                   Live, Known
  <2>2. BlockInv'
    BY <1>16, <1>t DEF Inv, TypeOK, LedgerTypeOK, BlockInv, BlockInsert, memoryVars, At, Idle, BlockOp,
                   Live, Known
  <2>3. OwnRows' /\ EveryLiveEntryIsBacked'
    BY <1>16, <1>t DEF Inv, TypeOK, LedgerTypeOK, OwnRows, EveryLiveEntryIsBacked, BlockInv,
                   BlockInsert, memoryVars, At, BlockOp, Live, Known, RowsOf, ActiveRows, Entry, NoRow
  <2>4. EveryActiveRowIsOwned'
    BY <1>16, <1>t DEF Inv, TypeOK, LedgerTypeOK, EveryActiveRowIsOwned, BlockInv, BlockInsert,
                   memoryVars, At, Idle, BlockOp, Live, Known, ActiveRows, InFlight, NoRow
  <2>5. AutosRemembered'
    BY <1>16, <1>t DEF Inv, TypeOK, LedgerTypeOK, AutosRemembered, LoadedFirst, BlockInv, BlockInsert,
                   memoryVars, At, Idle, BlockOp, TrustedAutos, Inserted, NoRow
  <2> QED
    BY <1>t, <2>1, <2>2, <2>3, <2>4, <2>5 DEF Inv
<1>17. CASE BlockPublish
  <2>0. op \in BlockOp /\ Inserted /\ op.id \in Ids /\ op.p \in Prefixes
    BY <1>17, <1>t DEF BlockPublish, At, BlockOp, Inserted
  <2>1. LoadedFirst' /\ EntryInv' /\ BlockInv'
    BY <1>17, <1>t DEF Inv, LoadedFirst, EntryInv, BlockInv, BlockPublish, At, Idle
  <2>2. OwnRows' /\ EveryLiveEntryIsBacked'
    BY <1>17, <1>t, <2>0 DEF Inv, TypeOK, LedgerTypeOK, OwnRows, EveryLiveEntryIsBacked, BlockInv,
                   BlockPublish, At, Live, Known, RowsOf, ActiveRows, NoRow
  <2>3. EveryActiveRowIsOwned'
    <3>1. /\ UNCHANGED <<rows, doubtful, loaded>> /\ op.kind = "block" /\ op.step # "insert" /\ op' = Idle
          /\ rows[op.id].p = op.p /\ op.p \notin Live
          /\ active' = [active EXCEPT ![op.p] = [ids |-> {op.id}, exp |-> op.at + op.dur, dry |-> dryRun,
                                                 pending |-> FALSE, withdrawn |-> FALSE]]
      BY <1>17 DEF Inv, BlockInv, BlockPublish, At
    <3>2. active \in [Prefixes -> Entry]
      BY DEF Inv, TypeOK
    <3>3. op.p \in Live' /\ op.id \in active'[op.p].ids
      BY <2>0, <3>1, <3>2 DEF Live, Known
    <3>4. \A p \in Live : p \in Live' /\ active'[p] = active[p]
      BY <2>0, <3>1, <3>2 DEF Live, Known
    <3>5. ActiveRows' = ActiveRows /\ \A id \in ActiveRows : InFlight(id) => id = op.id
      BY <3>1 DEF ActiveRows, InFlight
    <3> QED
      BY <3>1, <3>3, <3>4, <3>5 DEF Inv, EveryActiveRowIsOwned
  <2>4. AutosRemembered'
    <3>1. rows[op.id] # NoRow /\ rows[op.id].auto = op.auto /\ loaded
      BY <1>17, <2>0 DEF Inv, BlockInv, LoadedFirst, Inserted, NoRow, Idle
    <3>2. TrustedAutos' = TrustedAutos /\ ~Inserted'
      BY <1>17 DEF BlockPublish, TrustedAutos, Inserted, Idle
    <3>3. TrustedAutos \subseteq autoIds'
      BY <1>17, <2>0, <3>1 DEF Inv, AutosRemembered, BlockPublish, TrustedAutos
    <3> QED
      BY <1>17, <3>1, <3>2, <3>3 DEF Inv, AutosRemembered, BlockPublish
  <2> QED
    BY <1>t, <2>1, <2>2, <2>3, <2>4 DEF Inv
<1>18. CASE BlockMarkFailed
  <2>0. /\ op \in BlockOp /\ Inserted /\ op.id \in Ids /\ op.p \in Prefixes /\ op' = Idle
        /\ rows[op.id].p = op.p /\ op.p \notin Live
    BY <1>18, <1>t DEF Inv, BlockInv, BlockMarkFailed, At, BlockOp, Inserted
  <2>1. LoadedFirst' /\ EntryInv' /\ BlockInv'
    BY <1>18, <2>0 DEF Inv, LoadedFirst, EntryInv, BlockInv, BlockMarkFailed, memoryVars, Idle
  <2>2. \A id \in Ids :
          /\ rows[id] = NoRow <=> rows'[id] = NoRow
          /\ rows[id] # NoRow => /\ rows'[id].p = rows[id].p /\ rows'[id].at = rows[id].at
                                /\ rows'[id].auto = rows[id].auto
          /\ id # op.id => rows'[id] = rows[id]
          /\ rows'[id].st = "active" => rows[id] = rows'[id]
    BY <1>18, <1>t, <2>0, StatusUpdate DEF BlockMarkFailed
  <2>3. OwnRows'
    BY <1>18, <1>t, <2>2 DEF Inv, OwnRows, BlockMarkFailed, memoryVars, TypeOK, Entry
  <2>4. EveryLiveEntryIsBacked'
    BY <1>18, <1>t, <2>0, <2>2 DEF Inv, EveryLiveEntryIsBacked, BlockMarkFailed, memoryVars, Live, Known,
                   RowsOf, ActiveRows
  <2>5. EveryActiveRowIsOwned'
    <3>1. doubtful \subseteq doubtful' /\ (op.id \in doubtful' \/ rows'[op.id].st # "active")
      BY <1>18, <1>t, <2>0 DEF BlockMarkFailed, StatusWritten, StatusWriteFails, SetBlockStatus, TypeOK,
                     LedgerTypeOK, Row, NoRow
    <3> QED
      BY <1>18, <2>0, <2>2, <3>1 DEF Inv, EveryActiveRowIsOwned, BlockMarkFailed, memoryVars, Live, Known,
                      ActiveRows, InFlight, Inserted
  <2>6. AutosRemembered'
    <3>1. doubtful \subseteq doubtful' /\ (op.id \in doubtful' \/ rows'[op.id].st = "failed")
      BY <1>18, <1>t, <2>0 DEF Inv, BlockInv, Inserted, BlockMarkFailed, StatusWritten, StatusWriteFails,
                     SetBlockStatus, TypeOK, LedgerTypeOK, Row, NoRow
    <3> QED
      BY <1>18, <1>t, <2>0, <2>2, <3>1 DEF Inv, TypeOK, AutosRemembered, BlockMarkFailed, memoryVars,
                      TrustedAutos, Inserted, Idle
  <2> QED
    BY <1>t, <2>1, <2>3, <2>4, <2>5, <2>6 DEF Inv
<1>19. CASE PruneAuto
  <2>1. /\ LoadedFirst' /\ EntryInv' /\ OwnRows'
        /\ EveryActiveRowIsOwned' /\ EveryLiveEntryIsBacked'
    BY <1>19 DEF Inv, LoadedFirst, EntryInv, OwnRows, EveryActiveRowIsOwned, EveryLiveEntryIsBacked,
             PruneAuto, Live, Known, RowsOf, ActiveRows, InFlight
  <2>2. BlockInv'
    <3>1. Live' = Live
      BY <1>19 DEF PruneAuto, Live, Known
    <3>2. RecentAutos(autoIds, op.at)' = RecentAutos(autoIds', op.at) /\ autoIds' \subseteq autoIds
      BY <1>19 DEF PruneAuto, RecentAutos
    <3>3. op.kind = "block" =>
            /\ Cardinality(RecentAutos(autoIds', op.at)) \in Nat
            /\ Cardinality(RecentAutos(autoIds, op.at)) \in Nat
            /\ Cardinality(RecentAutos(autoIds', op.at)) <= Cardinality(RecentAutos(autoIds, op.at))
      <4>1. op.kind = "block" => op.at \in Nat
        BY <1>t DEF BlockOp
      <4> QED
        BY <1>t, <3>2, <4>1, AdmissionCounts
    <3>4. (op.kind = "block" /\ op.step = "insert" /\ op.auto) =>
             Cardinality(RecentAutos(autoIds', op.at)) < AutoPerHour
      BY <3>3, LedgerAssumption DEF Inv, BlockInv
    <3> QED
      BY <1>19, <3>1, <3>2, <3>4 DEF Inv, BlockInv, PruneAuto
  <2>3. AutosRemembered'
    BY <1>19 DEF Inv, AutosRemembered, PruneAuto, TrustedAutos, RecentAutos, Inserted
  <2> QED
    BY <1>t, <2>1, <2>2, <2>3 DEF Inv
<1>20. CASE EntryWithdraw
  <2>0. op \in EntryOp /\ op.p \in Live /\ op.p \in Prefixes /\ active[op.p] \in Entry
    BY <1>20, <1>t DEF Inv, EntryInv, EntryWithdraw, Idle, EntryOp, TypeOK
  <2>1. CASE UNCHANGED active /\ op' = [op EXCEPT !.step = "verify"]
    <3>1. LoadedFirst' /\ EntryInv' /\ BlockInv'
      BY <1>20, <2>0, <2>1 DEF Inv, LoadedFirst, EntryInv, BlockInv, EntryWithdraw, Live, Known, Done, Idle,
                      EntryOp
    <3>2. /\ \A id \in Ids : InFlight(id) => InFlight(id)'
          /\ Inserted => Inserted' /\ op'.id = op.id
      BY <1>20, <2>0 DEF EntryWithdraw, InFlight, Inserted
    <3> QED
      BY <1>20, <1>t, <2>1, <3>1, <3>2, OnlyTheOperationMoves DEF EntryWithdraw
  <2>2. CASE MarkWithdrawn(op.p) /\ op' = [op EXCEPT !.step = "persist"]
    <3>1. /\ Known' = Known /\ Live' = Live \ {op.p}
          /\ \A q \in Prefixes : active'[q].ids = active[q].ids
          /\ active'[op.p].withdrawn
      BY <1>t, <2>0, <2>2 DEF TypeOK, MarkWithdrawn, Live, Known, Entry
    <3>2. op'.kind = op.kind /\ op'.step = "persist" /\ op'.p = op.p /\ op' # Idle
          /\ op'.todo = op.todo
      BY <2>0, <2>2 DEF EntryOp, Idle
    <3>3. LoadedFirst' /\ EntryInv' /\ BlockInv'
      BY <1>20, <2>0, <3>1, <3>2 DEF Inv, LoadedFirst, EntryInv, BlockInv, EntryWithdraw, Live, EntryOp
    <3>4. OwnRows' /\ EveryLiveEntryIsBacked'
      BY <1>20, <3>1 DEF Inv, OwnRows, EveryLiveEntryIsBacked, EntryWithdraw, Live, Known, RowsOf, ActiveRows
    <3>5. EveryActiveRowIsOwned'
      BY <1>20, <1>t, <2>0, <3>1, <3>2 DEF Inv, TypeOK, LedgerTypeOK, EveryActiveRowIsOwned, OwnRows,
                      EntryWithdraw, ActiveRows, InFlight, EntryOp, NoRow, Row
    <3>6. AutosRemembered'
      BY <1>20, <2>0, <3>2 DEF Inv, AutosRemembered, EntryWithdraw, TrustedAutos, Inserted, EntryOp
    <3> QED
      BY <1>t, <3>3, <3>4, <3>5, <3>6 DEF Inv
  <2> QED
    BY <1>20, <2>1, <2>2 DEF EntryWithdraw
<1>21. CASE EntryVerify
  <2>0. op \in EntryOp /\ op.p \in Live /\ op.p \in Prefixes /\ active[op.p] \in Entry
    BY <1>21, <1>t DEF Inv, EntryInv, EntryVerify, Idle, EntryOp, TypeOK
  <2>1. CASE UNCHANGED active /\ op' = Done
    <3>1. LoadedFirst' /\ EntryInv' /\ BlockInv'
      BY <1>21, <2>0, <2>1 DEF Inv, LoadedFirst, EntryInv, BlockInv, EntryVerify, Live, Known, Done, Idle,
                      EntryOp
    <3>2. /\ \A id \in Ids : InFlight(id) => InFlight(id)'
          /\ Inserted => Inserted' /\ op'.id = op.id
      BY <1>21, <2>0 DEF EntryVerify, InFlight, Inserted
    <3> QED
      BY <1>21, <1>t, <2>1, <3>1, <3>2, OnlyTheOperationMoves DEF EntryVerify
  <2>2. CASE MarkWithdrawn(op.p) /\ op' = [op EXCEPT !.step = "persist"]
    <3>1. /\ Known' = Known /\ Live' = Live \ {op.p}
          /\ \A q \in Prefixes : active'[q].ids = active[q].ids
          /\ active'[op.p].withdrawn
      BY <1>t, <2>0, <2>2 DEF TypeOK, MarkWithdrawn, Live, Known, Entry
    <3>2. op'.kind = op.kind /\ op'.step = "persist" /\ op'.p = op.p /\ op' # Idle
          /\ op'.todo = op.todo
      BY <2>0, <2>2 DEF EntryOp, Idle
    <3>3. LoadedFirst' /\ EntryInv' /\ BlockInv'
      BY <1>21, <2>0, <3>1, <3>2 DEF Inv, LoadedFirst, EntryInv, BlockInv, EntryVerify, Live, EntryOp
    <3>4. OwnRows' /\ EveryLiveEntryIsBacked'
      BY <1>21, <3>1 DEF Inv, OwnRows, EveryLiveEntryIsBacked, EntryVerify, Live, Known, RowsOf, ActiveRows
    <3>5. EveryActiveRowIsOwned'
      BY <1>21, <1>t, <2>0, <3>1, <3>2 DEF Inv, TypeOK, LedgerTypeOK, EveryActiveRowIsOwned, OwnRows,
                      EntryVerify, ActiveRows, InFlight, EntryOp, NoRow, Row
    <3>6. AutosRemembered'
      BY <1>21, <2>0, <3>2 DEF Inv, AutosRemembered, EntryVerify, TrustedAutos, Inserted, EntryOp
    <3> QED
      BY <1>t, <3>3, <3>4, <3>5, <3>6 DEF Inv
  <2> QED
    BY <1>21, <2>1, <2>2 DEF EntryVerify
<1>22. CASE EntryPersist
  <2>0. /\ op \in EntryOp /\ op.p \in Known /\ op.p \in Prefixes /\ active[op.p] \in Entry
        /\ active[op.p].withdrawn /\ op' = Done
    BY <1>22, <1>t DEF Inv, EntryInv, EntryPersist, Idle, EntryOp, TypeOK
  <2>1. LoadedFirst' /\ EntryInv' /\ BlockInv'
    BY <1>22, <2>0 DEF Inv, LoadedFirst, EntryInv, BlockInv, EntryPersist, Live, Known, Done, Idle,
                   EntryOp, TypeOK, NoEntry
  <2>2. \A id \in Ids :
          /\ rows[id] = NoRow <=> rows'[id] = NoRow
          /\ rows[id] # NoRow => /\ rows'[id].p = rows[id].p /\ rows'[id].at = rows[id].at
                                /\ rows'[id].auto = rows[id].auto
          /\ id \notin active[op.p].ids => rows'[id] = rows[id]
          /\ rows'[id].st = "active" => rows[id] = rows'[id]
    BY <1>22, <1>t, <2>0, StatusUpdate DEF EntryPersist, Entry
  <2>3. /\ \A q \in Prefixes : q # op.p => active'[q] = active[q]
        /\ active'[op.p] \in {active[op.p], NoEntry}
        /\ Live' = Live /\ op.p \notin Live
    BY <1>22, <1>t, <2>0 DEF EntryPersist, TypeOK, Live, Known, NoEntry
  <2>4. OwnRows'
    BY <1>22, <1>t, <2>0, <2>2, <2>3 DEF Inv, OwnRows, TypeOK, Entry, NoEntry
  <2>5. EveryLiveEntryIsBacked'
    <3>1. ASSUME NEW q \in Live PROVE active'[q].ids \subseteq RowsOf(q)'
      <4>1. active'[q] = active[q] /\ q # op.p
        BY <2>3 DEF Live, Known
      <4>2. \A id \in active[q].ids : id \in Ids /\ id \notin active[op.p].ids
        BY <1>t, <2>0, <4>1 DEF Inv, OwnRows, TypeOK, Entry, Live, Known
      <4> QED
        BY <2>2, <4>1, <4>2 DEF Inv, EveryLiveEntryIsBacked, RowsOf, ActiveRows
    <3> QED
      BY <2>3, <3>1 DEF EveryLiveEntryIsBacked
  <2>6. EveryActiveRowIsOwned'
    <3>1. /\ doubtful \subseteq doubtful'
          /\ \A id \in active[op.p].ids : id \in doubtful' \/ rows'[id].st # "active"
      BY <1>22, <1>t, <2>0 DEF EntryPersist, StatusWritten, StatusWriteFails, SetBlockStatus, TypeOK,
                     LedgerTypeOK, Entry, Row, NoRow
    <3>2. ASSUME NEW id \in ActiveRows' \ doubtful', loaded
          PROVE  rows'[id].p \in Live' /\ id \in active'[rows'[id].p].ids
      <4>1. id \in ActiveRows \ doubtful /\ rows'[id] = rows[id] /\ ~InFlight(id)
        BY <1>22, <2>0, <2>2, <3>1, <3>2 DEF ActiveRows, EntryPersist, InFlight, EntryOp
      <4> QED
        BY <2>3, <3>2, <4>1 DEF Inv, EveryActiveRowIsOwned, Live, Known
    <3> QED
      BY <1>22, <3>2 DEF EveryActiveRowIsOwned, EntryPersist
  <2>7. AutosRemembered'
    BY <1>22, <1>t, <2>0 DEF Inv, TypeOK, LedgerTypeOK, AutosRemembered, EntryPersist, StatusWritten,
                   StatusWriteFails, SetBlockStatus, TrustedAutos, Inserted, EntryOp, Done, Idle,
                   NoRow, Row
  <2> QED
    BY <1>t, <2>1, <2>4, <2>5, <2>6, <2>7 DEF Inv
<1>23. CASE Restore
  <2>0. \A p \in Prefixes : active'[p].ids = RowsOf(p) /\ ~active'[p].withdrawn
    <3>1. \A p \in Prefixes : active'[p] \in Restored(p)
      BY <1>23 DEF Restore
    <3>2. \A p \in Prefixes : \A e \in Restored(p) : e.ids = RowsOf(p) /\ ~e.withdrawn
      BY DEF Restored, NoEntry
    <3> QED
      BY <3>1, <3>2
  <2>1. LoadedFirst' /\ EntryInv' /\ BlockInv'
    BY <1>23 DEF Inv, LoadedFirst, EntryInv, BlockInv, Restore, Idle
  <2>3. OwnRows' /\ EveryLiveEntryIsBacked'
    BY <1>23, <2>0 DEF OwnRows, EveryLiveEntryIsBacked, Restore, Live, Known, RowsOf, ActiveRows, NoRow
  <2>4. EveryActiveRowIsOwned'
    BY <1>23, <1>t, <2>0 DEF TypeOK, LedgerTypeOK, EveryActiveRowIsOwned, Restore, Live, Known, RowsOf,
                   ActiveRows, NoRow, Row
  <2>5. AutosRemembered'
    BY <1>23, <1>t DEF TypeOK, LedgerTypeOK, AutosRemembered, Restore, RestoredAutos, RecentAutos,
                   TrustedAutos, NoRow, Row
  <2> QED
    BY <1>t, <2>1, <2>3, <2>4, <2>5 DEF Inv
<1>24. CASE RetryConfirm
  <2>1. /\ Known' = Known /\ Live' = Live
        /\ \A q \in Prefixes : /\ active'[q].ids = active[q].ids
                              /\ active'[q].withdrawn = active[q].withdrawn
    BY <1>24, <1>t DEF TypeOK, RetryConfirm, At, Idle, EntryOp, Entry, Live, Known
  <2>2. LoadedFirst' /\ EntryInv' /\ BlockInv'
    BY <1>24, <1>t, <2>1 DEF Inv, LoadedFirst, EntryInv, BlockInv, RetryConfirm, At, Done, Idle, EntryOp
  <2>3. OwnRows' /\ EveryLiveEntryIsBacked'
    BY <1>24, <2>1 DEF Inv, OwnRows, EveryLiveEntryIsBacked, RetryConfirm, Live, Known, RowsOf, ActiveRows
  <2>4. EveryActiveRowIsOwned'
    BY <1>24, <1>t, <2>1 DEF Inv, TypeOK, LedgerTypeOK, EveryActiveRowIsOwned, RetryConfirm, ActiveRows,
                   InFlight, At, EntryOp, PassOp, BlockOp, NoRow, Row
  <2>5. AutosRemembered'
    BY <1>24, <1>t DEF Inv, AutosRemembered, RetryConfirm, TrustedAutos, Inserted, At, Done, EntryOp, PassOp, Idle
  <2> QED
    BY <1>t, <2>2, <2>3, <2>4, <2>5 DEF Inv
<1>25. ASSUME NEW c \in Callers, SessionApply(c) PROVE Inv'
  <2>1. /\ Known' = Known /\ Live' = Live
        /\ \A q \in Prefixes : /\ active'[q].ids = active[q].ids
                              /\ active'[q].withdrawn = active[q].withdrawn
    <3>1. active' \in {active, Repush}
      BY <1>25 DEF SessionApply
    <3>2. \A q \in Prefixes : /\ Repush[q].ids = active[q].ids
                              /\ Repush[q].withdrawn = active[q].withdrawn
      BY <1>t DEF TypeOK, Repush, Entry
    <3>3. \A q \in Prefixes : /\ active'[q].ids = active[q].ids
                              /\ active'[q].withdrawn = active[q].withdrawn
      BY <3>1, <3>2
    <3> QED
      BY <3>3 DEF Live, Known
  <2>2. LoadedFirst' /\ EntryInv' /\ BlockInv'
    BY <1>25, <1>t, <2>1 DEF Inv, TypeOK, LoadedFirst, EntryInv, BlockInv, RecentAutos, SessionApply,
                   EntryOp, BlockOp
  <2>3. OwnRows' /\ EveryLiveEntryIsBacked'
    BY <1>25, <2>1 DEF Inv, OwnRows, EveryLiveEntryIsBacked, SessionApply, Live, Known, RowsOf, ActiveRows
  <2>4. EveryActiveRowIsOwned'
    BY <1>25, <1>t, <2>1 DEF Inv, TypeOK, LedgerTypeOK, EveryActiveRowIsOwned, SessionApply, ActiveRows,
                   InFlight, At, EntryOp, PassOp, BlockOp, NoRow, Row
  <2>5. AutosRemembered'
    BY <1>25, <1>t DEF Inv, AutosRemembered, SessionApply, TrustedAutos, Inserted, At, Done, EntryOp, PassOp, Idle
  <2> QED
    BY <1>t, <2>2, <2>3, <2>4, <2>5 DEF Inv
<1>26. CASE Tick
  <2>1. clock \in Nat /\ clock' = clock + 1
    BY <1>26, <1>t, LedgerAssumption DEF Tick, Advance, TypeOK, LedgerTypeOK
  <2>2. LoadedFirst' /\ EntryInv' /\ OwnRows' /\ EveryActiveRowIsOwned' /\ EveryLiveEntryIsBacked'
    BY <1>26 DEF Inv, LoadedFirst, EntryInv, OwnRows, EveryActiveRowIsOwned, EveryLiveEntryIsBacked,
             Tick, Advance, memoryVars, Live, Known, RowsOf, ActiveRows, InFlight
  <2>3. BlockInv'
    BY <1>26, <1>t, <2>1 DEF Inv, BlockInv, Tick, Advance, memoryVars, Live, Known, RecentAutos, BlockOp
  <2>4. AutosRemembered'
    BY <1>26, <1>t, <2>1, LedgerAssumption
    DEF Inv, TypeOK, LedgerTypeOK, AutosRemembered, Tick, Advance, memoryVars, TrustedAutos, Inserted,
        Row, NoRow
  <2> QED
    BY <1>t, <2>2, <2>3, <2>4 DEF Inv
<1>27. CASE Crash
  <2>1. LoadedFirst' /\ EntryInv' /\ BlockInv' /\ AutosRemembered' /\ EveryActiveRowIsOwned'
    BY <1>27, <1>t, ServiceAssumption
    DEF LoadedFirst, EntryInv, BlockInv, AutosRemembered, EveryActiveRowIsOwned, Crash, Idle
  <2>2. OwnRows' /\ EveryLiveEntryIsBacked'
    BY <1>27 DEF OwnRows, EveryLiveEntryIsBacked, Crash, NoEntry, Live, Known
  <2> QED
    BY <1>t, <2>1, <2>2 DEF Inv
<1>28. CASE UNCHANGED vars
  BY <1>28, <1>t, NothingOfOursMoves DEF vars, Inv, LoadedFirst
<1> QED
  BY <1>1, <1>2, <1>3, <1>4, <1>5, <1>6, <1>7, <1>8, <1>9, <1>10, <1>11, <1>12, <1>13, <1>14, <1>15, <1>16, <1>17, <1>18, <1>19, <1>20, <1>21, <1>22, <1>23, <1>24, <1>25, <1>26, <1>27, <1>28
  DEF Next, BlockStep, WithdrawStep, PassStep

-----------------------------------------------------------------------------
(* The theorems. *)

\* The initial states satisfy the invariant.
LEMMA InvInit == Init => Inv
<1> SUFFICES ASSUME Init PROVE Inv
  OBVIOUS
<1>1. TypeOK
  <2>1. active \in [Prefixes -> Entry]
    BY EntryType DEF Init
  <2>2. LedgerTypeOK
    BY LedgerAssumption DEF Init, LedgerInit, LedgerTypeOK
  <2>3. faults \in 0..MaxFaults
    BY ServiceAssumption DEF Init
  <2> QED
    BY <2>1, <2>2, <2>3 DEF Init, TypeOK
<1>2. LoadedFirst /\ EntryInv /\ BlockInv
  BY ServiceAssumption DEF Init, LoadedFirst, EntryInv, BlockInv, Idle
<1>3. OwnRows /\ AutosRemembered /\ EveryActiveRowIsOwned /\ EveryLiveEntryIsBacked
  BY DEF Init, OwnRows, AutosRemembered, EveryActiveRowIsOwned, EveryLiveEntryIsBacked,
         Live, Known, NoEntry
<1> QED
  BY <1>1, <1>2, <1>3 DEF Inv

(***************************************************************************)
(* The inductive invariant holds: the steps of an operation find the state *)
(* they rely on, whatever ran between them without opMu.                   *)
(***************************************************************************)
THEOREM ServiceInvariant == Spec => []Inv
BY InvInit, InvStep, PTL DEF Spec

\* The variables of the service keep their types.
THEOREM TypeCorrectness == Spec => []TypeOK
<1>1. Inv => TypeOK
  BY DEF Inv
<1> QED
  BY <1>1, ServiceInvariant, PTL

(***************************************************************************)
(* The bgp_blocks table and Service.active agree, for any number of        *)
(* prefixes, rows, failures and restarts: no active row is left without an *)
(* owner once restore has run, unless a write about it failed.             *)
(***************************************************************************)
THEOREM ActiveRowsAreOwned == Spec => []EveryActiveRowIsOwned
<1>1. Inv => EveryActiveRowIsOwned
  BY DEF Inv
<1> QED
  BY <1>1, ServiceInvariant, PTL

(***************************************************************************)
(* The other direction, whatever fails: the ids of a live entry are active *)
(* rows of its prefix, so that a restart finds the block again (Block      *)
(* inserts before it announces, and an entry is marked withdrawn before    *)
(* its rows are closed).                                                   *)
(***************************************************************************)
THEOREM LiveEntriesAreBacked == Spec => []EveryLiveEntryIsBacked
<1>1. Inv => EveryLiveEntryIsBacked
  BY DEF Inv
<1> QED
  BY <1>1, ServiceInvariant, PTL

-----------------------------------------------------------------------------
(* The service implements the ledger. *)

\* A status update closes rows of the ledger.
LEMMA StatusUpdateCloses ==
  ASSUME TypeOK, NEW S \in SUBSET Ids, NEW st \in {"withdrawn", "failed"},
         StatusWritten(S, st) \/ StatusWriteFails(S, st), UNCHANGED clock
  PROVE  LedgerNext
<1>1. rows \in [Ids -> Row \cup {NoRow}]
  BY DEF TypeOK, LedgerTypeOK
<1>d. PICK D \in SUBSET Ids : doubtful' = doubtful \cup D
  <2>1. doubtful' = doubtful \cup {} \/ doubtful' = doubtful \cup S
    BY DEF StatusWritten, StatusWriteFails
  <2>2. {} \in SUBSET Ids
    OBVIOUS
  <2> QED
    BY <2>1, <2>2
<1>2. CASE SetBlockStatus(S, st)
  <2>2. Close(S \cap ActiveRows, st, D)
    BY <1>2, <1>d DEF SetBlockStatus, Close, ActiveRows
  <2> QED
    BY <2>2 DEF LedgerNext
<1>3. CASE UNCHANGED rows
  <2>2. rows = [id \in Ids |-> rows[id]]
    BY <1>1
  <2>3. Close({}, st, D)
    BY <1>3, <1>d, <2>2 DEF Close
  <2>4. {} \in SUBSET ActiveRows
    OBVIOUS
  <2> QED
    BY <2>3, <2>4 DEF LedgerNext
<1> QED
  BY <1>2, <1>3 DEF StatusWritten, StatusWriteFails

(***************************************************************************)
(* The rails, checked at the admission, still leave room at the insert:    *)
(* the rows the ledger counts have live entries, and the automatic ones    *)
(* are in the rate window, which the clock can only have made smaller.     *)
(***************************************************************************)
LEMMA InsertHasRoom ==
  ASSUME Inv, At("block", "insert")
  PROVE  /\ Cardinality(TrustedPrefixes) < MaxActive
         /\ op.auto => Cardinality(TrustedAutos) < AutoPerHour
<1> USE DEF At
<1>1. /\ op \in BlockOp /\ op.at \in Nat /\ clock \in Nat /\ op.at <= clock /\ loaded
      /\ TypeOK /\ LedgerTypeOK /\ ~Inserted
  BY OpShape, LedgerAssumption
  DEF Inv, TypeOK, LedgerTypeOK, BlockInv, LoadedFirst, BlockOp, Idle, Inserted
<1>2. Cardinality(TrustedPrefixes) <= Cardinality(Live)
  <2>1. TrustedPrefixes \subseteq Live
    <3>1. \A id \in Ids : ~InFlight(id)
      BY DEF InFlight
    <3> QED
      BY <1>1, <3>1 DEF Inv, EveryActiveRowIsOwned, TrustedPrefixes, ActiveRows
  <2> QED
    BY <1>1, <2>1, AdmissionCounts, FS_Subset
<1>3. op.auto => Cardinality(TrustedAutos) <= Cardinality(RecentAutos(autoIds, op.at))
  <2>1. TrustedAutos \subseteq RecentAutos(autoIds, op.at)
    BY <1>1, LedgerAssumption
    DEF Inv, AutosRemembered, LedgerTypeOK, TrustedAutos, RecentAutos, Row, NoRow
  <2> QED
    BY <1>1, <2>1, AdmissionCounts, FS_Subset
<1>4. /\ Cardinality(Live) \in Nat /\ Cardinality(RecentAutos(autoIds, op.at)) \in Nat
      /\ Cardinality(TrustedPrefixes) \in Nat /\ Cardinality(TrustedAutos) \in Nat
  BY <1>1, AdmissionCounts, TrustedFinite
<1> QED
  BY <1>2, <1>3, <1>4, LedgerAssumption DEF Inv, BlockInv

\* The row of a Block is one the ledger creates.
LEMMA InsertCreates ==
  ASSUME Inv, BlockInsert
  PROVE  [LedgerNext]_ledgerVars
<1>1. /\ op.id \in Ids /\ op.p \in Prefixes /\ op.at \in 0..clock /\ op.dur \in Durations
      /\ op.auto \in BOOLEAN /\ dryRun \in BOOLEAN
  BY OpShape, LedgerAssumption, ServiceAssumption
  DEF Inv, TypeOK, LedgerTypeOK, BlockInv, BlockInsert, At, BlockOp
<1>2. CASE UNCHANGED <<rows, doubtful>>
  BY <1>2 DEF BlockInsert, ledgerVars
<1>3. CASE ~UNCHANGED <<rows, doubtful>>
  <2>1. Create(op.id, op.p, op.at, op.dur, op.auto, dryRun)
    <3>1. At("block", "insert") /\ rows[op.id] = NoRow
      BY DEF Inv, BlockInv, BlockInsert, At
    <3> QED
      BY <1>3, <3>1, InsertHasRoom DEF BlockInsert, Create
  <2> QED
    BY <1>1, <2>1 DEF LedgerNext
<1> QED
  BY <1>2, <1>3

\* Every action is a step of the ledger, or leaves it alone.
LEMMA LedgerStep == Inv /\ [Next]_vars => [LedgerNext]_ledgerVars
<1> SUFFICES ASSUME Inv, [Next]_vars PROVE [LedgerNext]_ledgerVars
  OBVIOUS
<1>t. TypeOK
  BY DEF Inv
<1>1. CASE BlockInsert
  BY <1>1, InsertCreates
<1>2. CASE BlockMarkFailed
  <2>1. {op.id} \in SUBSET Ids
    BY <1>t, <1>2, OpShape DEF BlockMarkFailed, At, BlockOp
  <2> QED
    BY <1>t, <1>2, <2>1, StatusUpdateCloses DEF BlockMarkFailed
<1>3. CASE EntryPersist
  <2>1. active[op.p].ids \in SUBSET Ids
    BY <1>t, <1>3, OpShape DEF EntryPersist, EntryOp, Idle, TypeOK, Entry
  <2> QED
    BY <1>t, <1>3, <2>1, StatusUpdateCloses DEF EntryPersist
<1>4. CASE Tick
  BY <1>4 DEF Tick, LedgerNext
<1>5. CASE UNCHANGED ledgerVars
  BY <1>5
<1> QED
  BY <1>1, <1>2, <1>3, <1>4, <1>5
  DEF Next, BlockStep, WithdrawStep, PassStep, BlockAdmit, UnblockBegin, BlockAnnounce, BlockPublish,
      OrphanWithdraw, EntryWithdraw, EntryVerify, ExpireEntry, CheckEntry, RetryAnnounce, RetryConfirm,
      ExpireEnd, CheckAnnounce, CheckEnd, PruneAuto, Restore, ExpireBegin, CheckBegin, SessionStatus,
      SessionApply, Crash, DaemonDown, PeerUp, vars, ledgerVars

(***************************************************************************)
(* Whatever fails, the service only writes to bgp_blocks what the ledger   *)
(* allows: a row is created while the rails leave room, counted as the     *)
(* table stands at that moment and not as the memory stood when the        *)
(* request was admitted, and leaves "active" at most once.                 *)
(***************************************************************************)
THEOREM ServiceImplementsLedger == Spec => LedgerSpec
<1>1. Init => LedgerInit
  BY DEF Init
<1> QED
  BY <1>1, LedgerStep, ServiceInvariant, PTL DEF Spec, LedgerSpec

(***************************************************************************)
(* BGP_MAX_ACTIVE_BLOCKS and BGP_AUTO_BLOCK_MAX_PER_HOUR hold of the       *)
(* service, through failures and restarts.                                 *)
(***************************************************************************)
THEOREM ServiceKeepsRails == Spec => [](MaxActiveRail /\ AutoPerHourRail)
<1>1. LedgerSpec => [](MaxActiveRail /\ AutoPerHourRail)
  BY LedgerRails, PTL
<1> QED
  BY <1>1, ServiceImplementsLedger, PTL

-----------------------------------------------------------------------------
(* The routes: the conditions, and the invariant. *)

\* A listing of the routes is complete.
CompleteListings == "truncated" \notin FaultKinds

\* A command that fails has done nothing.
CleanFailures == "timeout" \notin FaultKinds

\* BGP_DRY_RUN keeps its value over the restarts.
OneMode == \A a, b \in DryModes : a = b

\* An entry, and a Block past its insert, carry the mark of a row they own.
MarkInv ==
  /\ \A p \in Known : \E id \in active[p].ids : rows[id].dry = active[p].dry
  /\ Inserted => /\ rows[op.id].dry = dryRun
                 /\ \A p \in Prefixes : op.id \notin active[p].ids

\* With one mode every row and every entry has it.
OneModeInv ==
  /\ \A id \in Ids : rows[id] # NoRow => rows[id].dry = dryRun
  /\ \A p \in Known : active[p].dry = dryRun

\* A row of p, outside S, that tells of a route.
Records(p, S) == {id \in Ids \ S : rows[id].st \in {"active", "failed"} /\ rows[id].p = p}

\* A route has a record that the persist of its entry does not close.
RecordInv ==
  \A p \in rib : /\ Records(p, {}) # {}
                 /\ p \in Known /\ active[p].withdrawn => Records(p, active[p].ids) # {}

\* Once loaded a route is live, or Block is about to publish it.
LiveRoutes ==
  \A p \in rib : IF loaded THEN p \in Live \/ (At("block", "publish") /\ op.p = p)
                 ELSE RowsOf(p) # {}

RouteInv ==
  /\ Inv /\ MarkInv /\ DryRunNeverAnnounced
  /\ CompleteListings /\ CleanFailures => WithdrawnMeansGone
  /\ OneMode => OneModeInv
  /\ OneMode /\ CompleteListings => RecordInv
  /\ OneMode /\ CompleteListings /\ CleanFailures => LiveRoutes

-----------------------------------------------------------------------------
(* What a step does to rows, entries and routes. *)

\* A row keeps its prefix and its mark, and stays a record unless withdrawn.
RowsKept ==
  \A id \in Ids :
    rows[id] # NoRow => /\ rows'[id] # NoRow
                        /\ rows'[id].p = rows[id].p /\ rows'[id].dry = rows[id].dry

\* The entry of p is as before, but for its pending mark.
EntryKept(p) == /\ active'[p].ids = active[p].ids /\ active'[p].dry = active[p].dry
                /\ active'[p].withdrawn = active[p].withdrawn

\* A status update, done or not, changes the status of its rows and nothing else.
LEMMA StatusKeepsMarks ==
  ASSUME TypeOK, NEW S \in SUBSET Ids, NEW st \in {"withdrawn", "failed"},
         StatusWritten(S, st) \/ StatusWriteFails(S, st)
  PROVE  /\ RowsKept
         /\ \A id \in Ids \ S : rows'[id] = rows[id]
         /\ \A id \in Ids : rows'[id].st \in {rows[id].st, st}
BY DEF TypeOK, LedgerTypeOK, StatusWritten, StatusWriteFails, SetBlockStatus, Row, NoRow, RowsKept

\* A step that neither writes a row nor announces, and changes no entry but
\* for its pending mark.
Quiet ==
  /\ UNCHANGED <<rows, dryRun, loaded>> /\ \A p \in Prefixes : EntryKept(p)
  /\ rib' \subseteq rib
  /\ Inserted' => Inserted /\ op'.id = op.id
  /\ At("block", "publish") => op' = op

\* InsertBlock wrote the row.
Inserts ==
  /\ At("block", "insert") /\ op.id \in Ids /\ rows[op.id] = NoRow
  /\ rows' = [rows EXCEPT ![op.id] = [p |-> op.p, at |-> op.at, exp |-> op.at + op.dur,
                                      auto |-> op.auto, dry |-> dryRun, st |-> "active"]]
  /\ op'.kind = "block" => op'.id = op.id
  /\ UNCHANGED <<active, dryRun, loaded, rib>>

\* The live daemon got the route of a new block.
AnnouncesBlock ==
  /\ Inserted /\ Inserted' /\ ~dryRun /\ op.p \in Prefixes /\ op'.id = op.id /\ op'.p = op.p
  /\ ~At("block", "publish")
  /\ CleanFailures => At("block", "publish")'
  /\ rib' = rib \cup {op.p}
  /\ UNCHANGED <<rows, active, dryRun, loaded>>

\* The live daemon got the route of a live entry again.
AnnouncesEntry ==
  /\ op.p \in Live /\ ~active[op.p].dry /\ ~Inserted /\ ~Inserted'
  /\ rib' = rib \cup {op.p}
  /\ UNCHANGED <<rows, active, dryRun, loaded>>

\* An entry is marked, its route gone unless it was a dry-run one.
Withdraws ==
  /\ op.p \in Live /\ ~Inserted /\ ~Inserted' /\ loaded /\ loaded'
  /\ MarkWithdrawn(op.p)
  /\ rib' \subseteq rib
  /\ ~active[op.p].dry /\ CompleteListings => op.p \notin rib'
  /\ UNCHANGED <<rows, dryRun>>

\* An entry that is kept stays known and live, or neither.
LEMMA EntriesKept ==
  ASSUME TypeOK
  PROVE  /\ UNCHANGED active => \A p \in Prefixes : EntryKept(p)
         /\ \A p \in Prefixes : EntryKept(p) =>
              (p \in Known <=> p \in Known') /\ (p \in Live <=> p \in Live')
BY DEF EntryKept, Known, Live

\* Every step of the service is of one of the kinds above.
LEMMA RouteSteps ==
  ASSUME Inv, [Next]_vars
  PROVE  \/ Quiet \/ Inserts \/ AnnouncesBlock \/ AnnouncesEntry \/ Withdraws
         \/ BlockPublish \/ BlockMarkFailed \/ EntryPersist \/ Restore \/ Crash
<1> USE OpShape DEF memoryVars, daemonVars
<1>t. TypeOK
  BY DEF Inv
<1>e. UNCHANGED active => \A p \in Prefixes : EntryKept(p)
  BY <1>t, EntriesKept
<1>i. op # Idle => loaded
  BY DEF Inv, LoadedFirst
<1>1. ASSUME NEW p \in Prefixes, NEW d \in Durations, NEW auto \in BOOLEAN,
             BlockAdmit(p, d, auto)
      PROVE  Quiet
  BY <1>1, <1>e DEF BlockAdmit, Quiet, Inserted, At, Idle
<1>2. ASSUME NEW p \in Prefixes, UnblockBegin(p) PROVE Quiet
  BY <1>2, <1>e DEF UnblockBegin, Handle, Quiet, Inserted, At, Idle
<1>3. CASE BlockInsert
  <2>1. op \in BlockOp /\ rows[op.id] = NoRow
    BY <1>3, <1>t DEF Inv, BlockInv, BlockInsert, At
  <2>2. CASE UNCHANGED rows
    <3>1. op' = Idle \/ ~UNCHANGED rows
      <4>1. rows' = [rows EXCEPT ![op.id] = [p |-> op.p, at |-> op.at, exp |-> op.at + op.dur,
                       auto |-> op.auto, dry |-> dryRun, st |-> "active"]] => ~UNCHANGED rows
        BY <2>1, <1>t DEF TypeOK, LedgerTypeOK, BlockOp, NoRow
      <4> QED
        BY <1>3, <4>1 DEF BlockInsert
    <3> QED
      BY <1>3, <1>e, <2>2, <3>1 DEF BlockInsert, Quiet, Inserted, At, Idle
  <2>3. CASE ~UNCHANGED rows
    BY <1>3, <2>1, <2>3 DEF BlockInsert, Inserts, BlockOp, At, Idle
  <2> QED
    BY <2>2, <2>3
<1>4. CASE BlockAnnounce
  <2>1. op \in BlockOp /\ ~At("block", "publish") /\ Inserted
    BY <1>4, <1>t DEF BlockAnnounce, At, Inserted
  <2>2. /\ Inserted' /\ op'.id = op.id /\ op'.p = op.p
        /\ UNCHANGED <<rows, active, dryRun, loaded>>
        /\ rib' \in {rib, rib \cup {op.p}}
        /\ rib' # rib => ~dryRun /\ (CleanFailures => At("block", "publish")')
    BY <1>4, <2>1, ServiceAssumption DEF BlockAnnounce, BlockOp, Inserted, Succeeds, Fails, Announce,
       Fault, CleanFailures, At
  <2> QED
    BY <1>e, <2>1, <2>2 DEF Quiet, AnnouncesBlock, BlockOp
<1>5. CASE OrphanWithdraw
  BY <1>5, <1>e DEF OrphanWithdraw, Succeeds, Fails, Withdraw, Quiet, Inserted, At, Idle
<1>6. CASE EntryWithdraw
  <2>1. op \in EntryOp /\ op.p \in Live /\ op # Idle
    BY <1>6, <1>t DEF Inv, EntryInv, EntryWithdraw, Idle
  <2>2. CASE UNCHANGED active
    BY <1>6, <1>e, <2>1, <2>2 DEF EntryWithdraw, Succeeds, Fails, Withdraw, Quiet, Inserted, At, EntryOp
  <2>3. CASE MarkWithdrawn(op.p) /\ Succeeds(Withdraw(DryEntry(op.p), op.p))
    BY <1>6, <1>i, <2>1, <2>3 DEF EntryWithdraw, Succeeds, Withdraw, DryEntry, Withdraws, Inserted, EntryOp
  <2> QED
    BY <1>6, <2>2, <2>3 DEF EntryWithdraw
<1>7. CASE EntryVerify
  <2>1. op \in EntryOp /\ op.p \in Live /\ op # Idle
    BY <1>7, <1>t DEF Inv, EntryInv, EntryVerify, Idle
  <2>2. CASE UNCHANGED active
    BY <1>7, <1>e, <2>1, <2>2 DEF EntryVerify, Quiet, Inserted, At, EntryOp, Done, Idle
  <2>3. CASE MarkWithdrawn(op.p) /\ op' = [op EXCEPT !.step = "persist"]
              /\ \E L \in SUBSET rib : Listing(L) /\ AbsentFrom(op.p, L)
    <3>1. CompleteListings => op.p \notin rib
      BY <2>3 DEF Listing, AbsentFrom, CompleteListings, Fault
    <3> QED
      BY <1>7, <1>i, <2>1, <2>3, <3>1 DEF EntryVerify, Withdraws, Inserted, EntryOp
  <2> QED
    BY <1>7, <2>2, <2>3 DEF EntryVerify
<1>8. CASE RetryAnnounce \/ CheckAnnounce
  <2>1. op \in EntryOp /\ op.p \in Live /\ op # Idle
    BY <1>8, <1>t DEF Inv, EntryInv, RetryAnnounce, CheckAnnounce, At, Idle
  <2>2. /\ UNCHANGED <<rows, active, dryRun, loaded>>
        /\ rib' \in {rib, rib \cup {op.p}} /\ (rib' # rib => ~active[op.p].dry)
    BY <1>8 DEF RetryAnnounce, CheckAnnounce, Succeeds, Fails, Announce, DryEntry
  <2>3. ~Inserted /\ ~Inserted' /\ ~At("block", "publish")
    BY <1>8, <2>1 DEF RetryAnnounce, CheckAnnounce, At, Inserted, Done, EntryOp, Idle
  <2> QED
    BY <1>e, <2>1, <2>2, <2>3 DEF Quiet, AnnouncesEntry
<1>9. CASE RetryConfirm
  <2>1. op \in EntryOp /\ active \in [Prefixes -> Entry]
    BY <1>9, <1>t DEF RetryConfirm, At, Idle, TypeOK
  <2>2. \A p \in Prefixes : EntryKept(p)
    BY <1>9, <2>1 DEF RetryConfirm, EntryKept, Entry, EntryOp
  <2> QED
    BY <1>9, <2>1, <2>2 DEF RetryConfirm, Quiet, Inserted, At, Done, EntryOp, Idle
<1>10. ASSUME NEW c \in Callers, SessionApply(c) PROVE Quiet
  <2>1. \A p \in Prefixes : EntryKept(p)
    <3>1. active' = active \/ active' = Repush
      BY <1>10 DEF SessionApply
    <3>2. active' = Repush => \A p \in Prefixes : EntryKept(p)
      BY <1>t DEF TypeOK, Repush, EntryKept, Entry
    <3> QED
      BY <1>e, <3>1, <3>2
  <2> QED
    BY <1>10, <2>1 DEF SessionApply, Quiet, Inserted, At
<1>11. CASE PruneAuto \/ ExpireBegin \/ ExpireEnd \/ CheckBegin \/ CheckEnd
  BY <1>11, <1>e DEF PruneAuto, ExpireBegin, ExpireEnd, CheckBegin, CheckEnd, Quiet, Inserted, At, Idle
<1>12. ASSUME NEW p \in Prefixes, ExpireEntry(p) \/ CheckEntry(p) PROVE Quiet
  <2>1. op \in PassOp
    BY <1>12, <1>t DEF ExpireEntry, CheckEntry, At, Idle
  <2> QED
    BY <1>12, <1>e, <2>1 DEF ExpireEntry, CheckEntry, Handle, Skip, Quiet, Inserted, At, PassOp
<1>13. ASSUME NEW c \in Callers, SessionStatus(c) PROVE Quiet
  BY <1>13, <1>e DEF SessionStatus, Quiet, Inserted, At
<1>14. CASE Tick \/ DaemonDown \/ PeerUp \/ UNCHANGED vars
  BY <1>14, <1>e DEF Tick, Advance, DaemonDown, PeerUp, vars, Quiet, Inserted, At
<1> QED
  BY <1>1, <1>2, <1>3, <1>4, <1>5, <1>6, <1>7, <1>8, <1>9, <1>10, <1>11, <1>12, <1>13, <1>14
  DEF Next, BlockStep, WithdrawStep, PassStep

-----------------------------------------------------------------------------
(* The invariant is inductive, kind of step by kind of step. *)

\* Entries that stay are known, live and marked as they were.
LEMMA KeptSets ==
  ASSUME TypeOK, TypeOK', \A p \in Prefixes : EntryKept(p)
  PROVE  Known' = Known /\ Live' = Live
BY DEF EntryKept, Known, Live

\* What a set of records depends on.
LEMMA RecordsKept ==
  ASSUME UNCHANGED rows
  PROVE  /\ \A p, S : Records(p, S)' = Records(p, S)
         /\ \A p \in Prefixes : RowsOf(p)' = RowsOf(p)
BY DEF Records, RowsOf, ActiveRows

\* In a one-mode instance with the dry mode there is no live route.
LEMMA NoDryRoute ==
  ASSUME Inv, DryRunNeverAnnounced, OneModeInv, NEW p \in rib
  PROVE  ~dryRun /\ (p \in Known => ~active[p].dry)
BY DEF DryRunNeverAnnounced, OneModeInv

\* The steps that touch neither a route nor a mark.
LEMMA QuietStep == ASSUME RouteInv, Inv', Quiet PROVE RouteInv'
<1>t. TypeOK /\ TypeOK' /\ rib \subseteq Prefixes
  BY DEF RouteInv, Inv, TypeOK
<1>1. Known' = Known /\ Live' = Live /\ Known \subseteq Prefixes
  BY <1>t, KeptSets DEF Quiet, Known
<1>2. /\ \A p, S : Records(p, S)' = Records(p, S)
      /\ \A p \in Prefixes : RowsOf(p)' = RowsOf(p)
  BY RecordsKept DEF Quiet
<1>3. MarkInv'
  BY <1>1 DEF RouteInv, MarkInv, Quiet, EntryKept
<1>4. DryRunNeverAnnounced'
  BY DEF RouteInv, DryRunNeverAnnounced, Quiet
<1>5. WithdrawnMeansGone => WithdrawnMeansGone'
  BY <1>1 DEF WithdrawnMeansGone, Quiet, EntryKept, At
<1>6. OneModeInv => OneModeInv'
  BY <1>1 DEF OneModeInv, Quiet, EntryKept
<1>7. RecordInv => RecordInv'
  <2> SUFFICES ASSUME RecordInv, NEW p \in rib'
               PROVE  /\ Records(p, {})' # {}
                      /\ p \in Known' /\ active'[p].withdrawn => Records(p, active[p].ids)' # {}
    BY DEF RecordInv
  <2>1. p \in rib /\ p \in Prefixes /\ EntryKept(p)
    BY <1>t DEF Quiet
  <2>2. Records(p, active[p].ids)' = {id \in Ids \ active'[p].ids : rows'[id].st \in {"active", "failed"} /\ rows'[id].p = p}
    BY DEF Records
  <2>3. Records(p, active[p].ids)' = Records(p, active[p].ids)
    BY <2>1, <2>2 DEF Records, EntryKept, Quiet
  <2> QED
    BY <1>1, <1>2, <2>1, <2>3 DEF RecordInv, EntryKept
<1>8. LiveRoutes => LiveRoutes'
  BY <1>t, <1>1, <1>2 DEF LiveRoutes, Quiet, At
<1> QED
  BY <1>3, <1>4, <1>5, <1>6, <1>7, <1>8 DEF RouteInv

\* The insert of a Block: a row with the mark of the mode it runs in.
LEMMA InsertsStep == ASSUME RouteInv, Inv', Inserts PROVE RouteInv'
<1>t. TypeOK /\ TypeOK' /\ rib \subseteq Prefixes /\ op.id \in Ids /\ loaded
  BY DEF RouteInv, Inv, TypeOK, Inserts, LoadedFirst, At, Idle
<1>1. Known' = Known /\ Live' = Live /\ Known \subseteq Prefixes
  BY DEF Inserts, Known, Live
<1>2. /\ \A id \in Ids : id # op.id => rows'[id] = rows[id]
      /\ rows'[op.id].dry = dryRun /\ rows'[op.id].st = "active" /\ rows'[op.id] # NoRow
  BY <1>t DEF Inserts, TypeOK, LedgerTypeOK, NoRow
<1>3. /\ rows[op.id] = NoRow /\ rows[op.id].st = "none"
      /\ \A p \in Prefixes : active[p].ids \subseteq Ids /\ op.id \notin active[p].ids
  BY <1>t DEF RouteInv, Inv, OwnRows, Inserts, NoRow, TypeOK, Entry
<1>4. MarkInv'
  BY <1>1, <1>2, <1>3 DEF RouteInv, MarkInv, Inserts, Inserted
<1>5. DryRunNeverAnnounced'
  BY <1>2, <1>3 DEF RouteInv, DryRunNeverAnnounced, Inserts
<1>6. WithdrawnMeansGone => WithdrawnMeansGone'
  BY <1>1 DEF WithdrawnMeansGone, Inserts, At
<1>7. OneModeInv => OneModeInv'
  BY <1>1, <1>2 DEF OneModeInv, Inserts
<1>8. \A p, S : Records(p, S) \subseteq Records(p, S)'
  BY <1>2, <1>3 DEF Records
<1>9. RecordInv => RecordInv'
  <2> SUFFICES ASSUME RecordInv, NEW p \in rib
               PROVE  /\ Records(p, {})' # {}
                      /\ p \in Known /\ active[p].withdrawn => Records(p, active[p].ids)' # {}
    BY <1>1 DEF RecordInv, Inserts
  <2>1. Records(p, active[p].ids) \subseteq Records(p, active[p].ids)'
    BY <1>2, <1>3 DEF Records, Inserts
  <2> QED
    BY <1>8, <2>1 DEF RecordInv
<1>10. LiveRoutes => LiveRoutes'
  BY <1>t, <1>1 DEF LiveRoutes, Inserts, At
<1> QED
  BY <1>4, <1>5, <1>6, <1>7, <1>9, <1>10 DEF RouteInv

\* The announce of a Block: its row is active while the route appears.
LEMMA AnnouncesBlockStep == ASSUME RouteInv, Inv', AnnouncesBlock PROVE RouteInv'
<1>t. /\ TypeOK /\ rib \subseteq Prefixes /\ op.p \in Prefixes /\ op.id \in Ids /\ loaded
      /\ rows[op.id] # NoRow /\ rows[op.id].st = "active" /\ rows[op.id].p = op.p
      /\ op.p \notin Live /\ op \in BlockOp
  BY OpShape DEF RouteInv, Inv, TypeOK, LoadedFirst, BlockInv, AnnouncesBlock, Inserted, BlockOp, Idle,
     NoRow
<1>1. Known' = Known /\ Live' = Live /\ Known \subseteq Prefixes
  BY DEF AnnouncesBlock, Known, Live
<1>2. /\ \A p, S : Records(p, S)' = Records(p, S)
      /\ \A p \in Prefixes : RowsOf(p)' = RowsOf(p)
  BY RecordsKept DEF AnnouncesBlock
<1>3. rows[op.id].dry = dryRun /\ \A p \in Prefixes : op.id \notin active[p].ids
  BY DEF RouteInv, MarkInv, AnnouncesBlock
<1>4. MarkInv'
  BY <1>1, <1>3 DEF RouteInv, MarkInv, AnnouncesBlock
<1>5. DryRunNeverAnnounced'
  BY <1>t, <1>3 DEF RouteInv, DryRunNeverAnnounced, AnnouncesBlock
<1>6. CleanFailures /\ WithdrawnMeansGone => WithdrawnMeansGone'
  BY <1>1 DEF WithdrawnMeansGone, AnnouncesBlock
<1>7. OneModeInv => OneModeInv'
  BY <1>1 DEF OneModeInv, AnnouncesBlock
<1>8. RecordInv => RecordInv'
  <2> SUFFICES ASSUME RecordInv, NEW p \in rib \cup {op.p}
               PROVE  /\ Records(p, {})' # {}
                      /\ p \in Known /\ active[p].withdrawn => Records(p, active[p].ids)' # {}
    BY <1>1 DEF RecordInv, AnnouncesBlock
  <2>1. op.id \in Records(op.p, {}) /\ op.id \in Records(op.p, active[op.p].ids)
    BY <1>t, <1>3 DEF Records
  <2>2. Records(p, active[p].ids)' = Records(p, active[p].ids) /\ Records(p, {})' = Records(p, {})
    BY DEF Records, AnnouncesBlock
  <2> QED
    BY <2>1, <2>2 DEF RecordInv
<1>9. CleanFailures /\ LiveRoutes => LiveRoutes'
  <2> SUFFICES ASSUME CleanFailures, LiveRoutes, NEW p \in rib \cup {op.p}
               PROVE  loaded' /\ (p \in Live' \/ (At("block", "publish")' /\ op'.p = p))
    BY DEF LiveRoutes, AnnouncesBlock
  <2> QED
    BY <1>t, <1>1 DEF LiveRoutes, AnnouncesBlock
<1> QED
  BY <1>4, <1>5, <1>6, <1>7, <1>8, <1>9 DEF RouteInv

\* The announce of a retry or a repair: the entry is live and has its rows.
LEMMA AnnouncesEntryStep == ASSUME RouteInv, Inv', AnnouncesEntry PROVE RouteInv'
<1>t. TypeOK /\ rib \subseteq Prefixes /\ op.p \in Known /\ ~active[op.p].withdrawn
  BY DEF RouteInv, Inv, TypeOK, AnnouncesEntry, Live
<1>1. Known' = Known /\ Live' = Live /\ Known \subseteq Prefixes
  BY DEF AnnouncesEntry, Known, Live
<1>2. \A p \in Prefixes : RowsOf(p)' = RowsOf(p)
  BY RecordsKept DEF AnnouncesEntry
<1>3. PICK id \in active[op.p].ids : rows[id].dry = active[op.p].dry
  BY <1>t DEF RouteInv, MarkInv
<1>4. id \in Ids /\ id \in RowsOf(op.p) /\ ~rows[id].dry
  BY <1>3 DEF RouteInv, Inv, EveryLiveEntryIsBacked, AnnouncesEntry, RowsOf, ActiveRows
<1>5. rows[id].p = op.p /\ rows[id].st = "active" /\ rows[id] # NoRow
  BY <1>4 DEF RowsOf, ActiveRows, NoRow
<1>6. MarkInv'
  BY <1>1 DEF RouteInv, MarkInv, AnnouncesEntry
<1>7. DryRunNeverAnnounced'
  BY <1>4, <1>5 DEF RouteInv, DryRunNeverAnnounced, AnnouncesEntry
<1>8. WithdrawnMeansGone => WithdrawnMeansGone'
  BY <1>t, <1>1 DEF WithdrawnMeansGone, AnnouncesEntry, Inserted, At
<1>9. OneModeInv => OneModeInv'
  BY <1>1 DEF OneModeInv, AnnouncesEntry
<1>10. RecordInv => RecordInv'
  <2> SUFFICES ASSUME RecordInv, NEW p \in rib \cup {op.p}
               PROVE  /\ Records(p, {})' # {}
                      /\ p \in Known /\ active[p].withdrawn => Records(p, active[p].ids)' # {}
    BY <1>1 DEF RecordInv, AnnouncesEntry
  <2>1. id \in Records(op.p, {})
    BY <1>4, <1>5 DEF Records
  <2>2. Records(p, active[p].ids)' = Records(p, active[p].ids) /\ Records(p, {})' = Records(p, {})
    BY DEF Records, AnnouncesEntry
  <2> QED
    BY <1>t, <2>1, <2>2 DEF RecordInv
<1>11. LiveRoutes => LiveRoutes'
  BY <1>t, <1>1, <1>2, <1>4 DEF LiveRoutes, AnnouncesEntry, Inserted, At
<1> QED
  BY <1>6, <1>7, <1>8, <1>9, <1>10, <1>11 DEF RouteInv

\* A withdraw, or a listing that excuses it: the route is gone before the mark is set.
LEMMA WithdrawsStep == ASSUME RouteInv, Inv', Withdraws PROVE RouteInv'
<1>t. /\ TypeOK /\ rib \subseteq Prefixes /\ op.p \in Known /\ op.p \in Prefixes
      /\ active \in [Prefixes -> Entry] /\ active[op.p] \in Entry
  BY DEF RouteInv, Inv, TypeOK, Withdraws, Live, Known
<1>1. \A q \in Prefixes : /\ active'[q].ids = active[q].ids /\ active'[q].dry = active[q].dry
                          /\ q # op.p => active'[q] = active[q]
  BY <1>t DEF Withdraws, MarkWithdrawn, Entry
<1>2. Known' = Known /\ Known \subseteq Prefixes /\ Live' = Live \ {op.p}
  BY <1>t, <1>1 DEF Known, Live, Withdraws, MarkWithdrawn, Entry
<1>3. MarkInv'
  BY <1>1, <1>2 DEF RouteInv, MarkInv, Withdraws
<1>4. DryRunNeverAnnounced'
  BY DEF RouteInv, DryRunNeverAnnounced, Withdraws
<1>5. CompleteListings /\ WithdrawnMeansGone => WithdrawnMeansGone'
  BY <1>t, <1>1, <1>2 DEF WithdrawnMeansGone, Withdraws, Inserted, At
<1>6. OneModeInv => OneModeInv'
  BY <1>1, <1>2 DEF OneModeInv, Withdraws
<1>7. OneModeInv /\ CompleteListings => op.p \notin rib'
  BY <1>t, NoDryRoute DEF RouteInv, Withdraws
<1>8. OneModeInv /\ CompleteListings /\ RecordInv => RecordInv'
  <2> SUFFICES ASSUME OneModeInv, CompleteListings, RecordInv, NEW p \in rib'
               PROVE  /\ Records(p, {})' # {}
                      /\ p \in Known' /\ active'[p].withdrawn => Records(p, active[p].ids)' # {}
    BY DEF RecordInv
  <2>1. p # op.p /\ p \in rib /\ p \in Prefixes
    BY <1>t, <1>7 DEF Withdraws
  <2>2. active'[p] = active[p]
    BY <1>1, <2>1
  <2>3. Records(p, active[p].ids)' = Records(p, active[p].ids) /\ Records(p, {})' = Records(p, {})
    BY <2>2 DEF Records, Withdraws
  <2> QED
    BY <1>2, <2>1, <2>2, <2>3 DEF RecordInv
<1>9. OneModeInv /\ CompleteListings /\ LiveRoutes => LiveRoutes'
  BY <1>2, <1>7 DEF LiveRoutes, Withdraws, Inserted, At
<1> QED
  BY <1>3, <1>4, <1>5, <1>6, <1>8, <1>9 DEF RouteInv

\* The end of a Block: the entry takes over its row.
LEMMA PublishStep == ASSUME RouteInv, Inv', BlockPublish PROVE RouteInv'
<1>t. /\ TypeOK /\ rib \subseteq Prefixes /\ op.p \in Prefixes /\ op.id \in Ids /\ loaded
      /\ rows[op.id] # NoRow /\ rows[op.id].st = "active" /\ rows[op.id].p = op.p
      /\ active \in [Prefixes -> Entry] /\ op \in BlockOp /\ Inserted /\ ~Inserted' /\ At("block", "publish")
  BY OpShape DEF RouteInv, Inv, TypeOK, LoadedFirst, BlockInv, BlockPublish, At, Inserted, BlockOp, Idle,
     NoRow
<1>1. /\ active'[op.p].ids = {op.id} /\ active'[op.p].dry = dryRun /\ ~active'[op.p].withdrawn
      /\ \A q \in Prefixes : q # op.p => active'[q] = active[q]
  BY <1>t DEF BlockPublish
<1>2. Known' = Known \cup {op.p} /\ Live' = Live \cup {op.p} /\ Known \subseteq Prefixes
  BY <1>t, <1>1 DEF Known, Live
<1>3. rows[op.id].dry = dryRun
  BY <1>t DEF RouteInv, MarkInv
<1>u. UNCHANGED <<rows, rib, dryRun, loaded>>
  BY DEF BlockPublish
<1>4. MarkInv'
  BY <1>t, <1>u, <1>1, <1>2, <1>3 DEF RouteInv, MarkInv
<1>5. DryRunNeverAnnounced'
  BY <1>u DEF RouteInv, DryRunNeverAnnounced
<1>6. WithdrawnMeansGone => WithdrawnMeansGone'
  BY <1>t, <1>u, <1>1, <1>2 DEF WithdrawnMeansGone
<1>7. OneModeInv => OneModeInv'
  BY <1>t, <1>u, <1>1, <1>2 DEF OneModeInv
<1>8. RecordInv => RecordInv'
  <2> SUFFICES ASSUME RecordInv, NEW p \in rib
               PROVE  /\ Records(p, {})' # {}
                      /\ p \in Known' /\ active'[p].withdrawn => Records(p, active[p].ids)' # {}
    BY <1>u DEF RecordInv
  <2>1. Records(p, {})' = Records(p, {})
    BY <1>u DEF Records
  <2>2. CASE p = op.p
    BY <1>1, <2>1, <2>2 DEF RecordInv
  <2>3. CASE p # op.p
    <3>1. active'[p] = active[p] /\ (p \in Known' => p \in Known)
      BY <1>t, <1>1, <1>2, <2>3
    <3>2. Records(p, active[p].ids)' = Records(p, active[p].ids)
      BY <1>u, <3>1 DEF Records
    <3> QED
      BY <2>1, <3>1, <3>2 DEF RecordInv
  <2> QED
    BY <2>2, <2>3
<1>9. LiveRoutes => LiveRoutes'
  BY <1>t, <1>u, <1>2 DEF LiveRoutes
<1> QED
  BY <1>4, <1>5, <1>6, <1>7, <1>8, <1>9 DEF RouteInv

\* A Block whose announce failed: its row is marked failed and no entry is kept.
LEMMA MarkFailedStep == ASSUME RouteInv, Inv', BlockMarkFailed PROVE RouteInv'
<1>t. /\ TypeOK /\ rib \subseteq Prefixes /\ op.id \in Ids /\ loaded /\ Inserted /\ ~Inserted'
      /\ ~At("block", "publish") /\ \A q \in Prefixes : active[q].ids \subseteq Ids
  BY OpShape DEF RouteInv, Inv, TypeOK, LoadedFirst, BlockMarkFailed, At, Inserted, BlockOp, Idle, Entry
<1>u. UNCHANGED <<active, rib, dryRun, loaded>>
  BY DEF BlockMarkFailed, memoryVars
<1>1. Known' = Known /\ Live' = Live /\ Known \subseteq Prefixes
  BY <1>u DEF Known, Live
<1>2. /\ RowsKept /\ \A id \in Ids : id # op.id => rows'[id] = rows[id]
      /\ \A id \in Ids : rows'[id].st \in {rows[id].st, "failed"}
  <2>1. {op.id} \in SUBSET Ids
    BY <1>t
  <2> QED
    BY <1>t, <2>1, StatusKeepsMarks DEF BlockMarkFailed
<1>3. MarkInv'
  <2>1. \A q \in Known, id \in Ids : id \in active[q].ids => rows'[id] = rows[id]
    BY <1>t, <1>1, <1>2 DEF RouteInv, MarkInv
  <2> QED
    BY <1>t, <1>u, <1>1, <2>1 DEF RouteInv, MarkInv
<1>4. DryRunNeverAnnounced'
  BY <1>u, <1>2 DEF RouteInv, DryRunNeverAnnounced, RowsKept
<1>5. WithdrawnMeansGone => WithdrawnMeansGone'
  BY <1>t, <1>u, <1>1 DEF WithdrawnMeansGone
<1>6. OneModeInv => OneModeInv'
  <2>1. rows[op.id] # NoRow
    BY <1>t DEF RouteInv, Inv, BlockInv, Inserted, NoRow
  <2> QED
    BY <1>u, <1>1, <1>2, <2>1 DEF OneModeInv, RowsKept
<1>7. RecordInv => RecordInv'
  <2> SUFFICES ASSUME RecordInv, NEW p \in rib
               PROVE  /\ Records(p, {})' # {}
                      /\ p \in Known /\ active[p].withdrawn => Records(p, active[p].ids)' # {}
    BY <1>u, <1>1 DEF RecordInv
  <2>1. ASSUME NEW id \in Ids, rows[id].st \in {"active", "failed"}, rows[id].p = p
        PROVE  rows'[id].st \in {"active", "failed"} /\ rows'[id].p = p
    <3>1. rows[id] # NoRow
      BY <2>1 DEF NoRow
    <3> QED
      BY <1>2, <2>1, <3>1 DEF RowsKept
  <2>2. Records(p, active[p].ids) \subseteq Records(p, active[p].ids)'
        /\ Records(p, {}) \subseteq Records(p, {})'
    BY <1>u, <2>1 DEF Records
  <2> QED
    BY <2>2 DEF RecordInv
<1>8. LiveRoutes => LiveRoutes'
  BY <1>t, <1>u, <1>1 DEF LiveRoutes
<1> QED
  BY <1>3, <1>4, <1>5, <1>6, <1>7, <1>8 DEF RouteInv

\* The rows of a withdrawn entry are closed: its route is gone.
LEMMA PersistStep == ASSUME RouteInv, Inv', EntryPersist PROVE RouteInv'
<1>t. /\ TypeOK /\ rib \subseteq Prefixes /\ op.p \in Prefixes /\ op.p \in Known /\ loaded
      /\ active[op.p].withdrawn /\ op.p \notin Live /\ ~Inserted /\ ~Inserted'
      /\ active \in [Prefixes -> Entry] /\ \A q \in Prefixes : active[q].ids \subseteq Ids
  BY OpShape DEF RouteInv, Inv, TypeOK, LoadedFirst, EntryInv, EntryPersist, Inserted, EntryOp, Idle, Entry,
     Done, Live
<1>u. UNCHANGED <<rib, dryRun, loaded>>
  BY DEF EntryPersist
<1>1. /\ \A q \in Prefixes : q # op.p => active'[q] = active[q]
      /\ active'[op.p] = active[op.p] \/ active'[op.p].ids = {}
  BY <1>t DEF EntryPersist, NoEntry
<1>2. /\ RowsKept /\ \A id \in Ids \ active[op.p].ids : rows'[id] = rows[id]
  BY <1>t, StatusKeepsMarks DEF EntryPersist
<1>3. Known' \subseteq Known /\ Live' = Live /\ Known \subseteq Prefixes
  BY <1>t, <1>1 DEF Known, Live
<1>4. \A q \in Known' : active'[q] = active[q]
  BY <1>1, <1>3 DEF Known
<1>5. MarkInv'
  <2>1. \A q \in Known, id \in Ids : id \in active[q].ids => rows'[id].dry = rows[id].dry
    BY <1>2, <1>3 DEF RouteInv, Inv, OwnRows, RowsKept
  <2> QED
    BY <1>t, <1>3, <1>4, <2>1 DEF RouteInv, MarkInv
<1>6. DryRunNeverAnnounced'
  BY <1>u, <1>2 DEF RouteInv, DryRunNeverAnnounced, RowsKept
<1>7. WithdrawnMeansGone => WithdrawnMeansGone'
  BY <1>t, <1>u, <1>3, <1>4 DEF WithdrawnMeansGone, Inserted, At
<1>8. OneModeInv => OneModeInv'
  <2>1. \A id \in Ids : rows'[id] # NoRow => rows[id] # NoRow
    BY <1>t, StatusUpdate DEF EntryPersist
  <2> QED
    BY <1>u, <1>2, <1>3, <1>4, <2>1 DEF OneModeInv, RowsKept
<1>9. RecordInv => RecordInv'
  <2> SUFFICES ASSUME RecordInv, NEW p \in rib
               PROVE  /\ Records(p, {})' # {}
                      /\ p \in Known' /\ active'[p].withdrawn => Records(p, active[p].ids)' # {}
    BY <1>u DEF RecordInv
  <2>1. CASE p = op.p
    <3>1. PICK id \in Ids \ active[p].ids : rows[id].st \in {"active", "failed"} /\ rows[id].p = p
      BY <1>t, <2>1 DEF RecordInv, Records
    <3>2. rows'[id] = rows[id]
      BY <1>2, <2>1, <3>1
    <3>3. id \in Records(p, {})'
      BY <3>1, <3>2 DEF Records
    <3>4. p \in Known' => id \in Records(p, active[p].ids)'
      BY <1>4, <3>1, <3>2 DEF Records
    <3> QED
      BY <3>3, <3>4
  <2>2. CASE p # op.p
    <3>1. ASSUME NEW id \in Ids, rows[id].p = p, rows[id] # NoRow PROVE rows'[id] = rows[id]
      BY <1>t, <1>2, <2>2, <3>1 DEF RouteInv, Inv, OwnRows
    <3>2. active'[p] = active[p] /\ (p \in Known' => p \in Known)
      BY <1>t, <1>1, <1>3, <2>2
    <3>3. \A id \in Ids : rows[id].st \in {"active", "failed"} => rows[id] # NoRow
      BY DEF NoRow
    <3>4. Records(p, active[p].ids) \subseteq Records(p, active[p].ids)'
          /\ Records(p, {}) \subseteq Records(p, {})'
      BY <3>1, <3>2, <3>3 DEF Records
    <3> QED
      BY <3>2, <3>4 DEF RecordInv
  <2> QED
    BY <2>1, <2>2
<1>10. LiveRoutes => LiveRoutes'
  BY <1>t, <1>u, <1>3 DEF LiveRoutes, Inserted, At
<1> QED
  BY <1>5, <1>6, <1>7, <1>8, <1>9, <1>10 DEF RouteInv

\* A start: the entries are built again from the active rows.
LEMMA RestoreStep == ASSUME RouteInv, Inv', Restore PROVE RouteInv'
<1>t. /\ TypeOK /\ rib \subseteq Prefixes /\ ~loaded /\ loaded' /\ op = Idle /\ op' = op
      /\ UNCHANGED <<rows, rib, dryRun>>
  BY DEF RouteInv, Inv, TypeOK, Restore
<1>1. \A p \in Prefixes : active'[p] \in Restored(p)
  BY DEF Restore
<1>2. ASSUME NEW p \in Prefixes
      PROVE  /\ active'[p].ids = RowsOf(p) /\ ~active'[p].withdrawn
             /\ RowsOf(p) # {} => \E id \in RowsOf(p) : active'[p].dry = rows[id].dry
  <2>1. CASE RowsOf(p) = {}
    <3>1. active'[p] = NoEntry
      BY <1>1, <2>1 DEF Restored
    <3> QED
      BY <2>1, <3>1 DEF NoEntry
  <2>2. CASE RowsOf(p) # {}
    <3>1. PICK id \in RowsOf(p) :
            active'[p] = [ids |-> RowsOf(p), exp |-> rows[id].exp, dry |-> rows[id].dry,
                          pending |-> TRUE, withdrawn |-> FALSE]
      BY <1>1, <2>2 DEF Restored
    <3> QED
      BY <3>1
  <2> QED
    BY <2>1, <2>2
<1>3. /\ \A p \in Known' : p \in Prefixes /\ RowsOf(p) # {}
      /\ \A p \in Prefixes : RowsOf(p) # {} => p \in Live'
  BY <1>2 DEF Known, Live
<1>4. ~Inserted /\ ~Inserted' /\ ~At("block", "publish")
  BY <1>t DEF Inserted, At, Idle
<1>5. MarkInv'
  BY <1>t, <1>2, <1>3, <1>4 DEF MarkInv
<1>6. DryRunNeverAnnounced'
  BY <1>t DEF RouteInv, DryRunNeverAnnounced
<1>7. WithdrawnMeansGone'
  BY <1>2, <1>3 DEF WithdrawnMeansGone
<1>8. OneModeInv => OneModeInv'
  <2>1. \A p \in Prefixes : \A id \in RowsOf(p) : id \in Ids /\ rows[id] # NoRow
    BY DEF RowsOf, ActiveRows, NoRow
  <2> QED
    BY <1>t, <1>2, <1>3, <2>1 DEF OneModeInv
<1>9. RecordInv => RecordInv'
  <2> SUFFICES ASSUME RecordInv, NEW p \in rib
               PROVE  Records(p, {})' # {} /\ ~active'[p].withdrawn
    BY <1>t DEF RecordInv
  <2>1. Records(p, {})' = Records(p, {})
    BY <1>t DEF Records
  <2> QED
    BY <1>t, <1>2, <2>1 DEF RecordInv
<1>10. LiveRoutes => LiveRoutes'
  BY <1>t, <1>3 DEF LiveRoutes
<1> QED
  BY <1>5, <1>6, <1>7, <1>8, <1>9, <1>10 DEF RouteInv

\* What a restart finds: a live route is an active row.
LEMMA LiveRoutesAreKnown == Inv /\ LiveRoutes => NeverUnknownRoute
<1> SUFFICES ASSUME Inv, LiveRoutes, NEW p \in rib PROVE RowsOf(p) # {}
  BY DEF NeverUnknownRoute
<1>1. CASE p \in Live
  BY <1>1 DEF Inv, EveryLiveEntryIsBacked, Live, Known
<1>2. CASE At("block", "publish") /\ op.p = p
  <2>1. op.id \in Ids /\ rows[op.id].st = "active" /\ rows[op.id].p = p
    BY <1>2, OpShape DEF Inv, BlockInv, At, BlockOp
  <2> QED
    BY <2>1 DEF RowsOf, ActiveRows
<1> QED
  BY <1>1, <1>2 DEF LiveRoutes

\* A stop at any step: the memory is lost, rows and routes stay.
LEMMA CrashStep == ASSUME RouteInv, Inv', Crash PROVE RouteInv'
<1>t. /\ TypeOK /\ rib \subseteq Prefixes /\ ~loaded' /\ op' = Idle /\ UNCHANGED <<rows, rib>>
      /\ dryRun \in DryModes /\ dryRun' \in DryModes
  BY DEF RouteInv, Inv, TypeOK, Crash
<1>1. Known' = {} /\ ~Inserted'
  BY <1>t DEF Crash, Known, NoEntry, Inserted, Idle
<1>2. MarkInv'
  BY <1>1 DEF MarkInv
<1>3. DryRunNeverAnnounced'
  BY <1>t DEF RouteInv, DryRunNeverAnnounced
<1>4. WithdrawnMeansGone'
  BY <1>1 DEF WithdrawnMeansGone
<1>5. OneMode /\ OneModeInv => OneModeInv'
  BY <1>t, <1>1 DEF OneMode, OneModeInv
<1>6. RecordInv => RecordInv'
  BY <1>t, <1>1 DEF RecordInv, Records
<1>7. LiveRoutes => LiveRoutes'
  <2> SUFFICES ASSUME LiveRoutes, NEW p \in rib PROVE RowsOf(p)' # {}
    BY <1>t DEF LiveRoutes
  <2>1. RowsOf(p) # {}
    BY LiveRoutesAreKnown DEF RouteInv, NeverUnknownRoute
  <2> QED
    BY <1>t, <2>1 DEF RowsOf, ActiveRows
<1> QED
  BY <1>2, <1>3, <1>4, <1>5, <1>6, <1>7 DEF RouteInv

\* Every action keeps the invariant.
LEMMA RouteStep == RouteInv /\ [Next]_vars => RouteInv'
<1> SUFFICES ASSUME RouteInv, [Next]_vars PROVE RouteInv'
  OBVIOUS
<1>1. Inv /\ Inv'
  BY InvStep DEF RouteInv
<1> QED
  BY <1>1, RouteSteps, QuietStep, InsertsStep, AnnouncesBlockStep, AnnouncesEntryStep, WithdrawsStep,
     PublishStep, MarkFailedStep, PersistStep, RestoreStep, CrashStep

\* At first there are no routes and no rows.
LEMMA RouteInit == Init => RouteInv
<1> SUFFICES ASSUME Init PROVE RouteInv
  OBVIOUS
<1>1. Inv
  BY InvInit
<1>2. rib = {} /\ op = Idle /\ Known = {} /\ \A id \in Ids : rows[id] = NoRow
  BY DEF Init, LedgerInit, Known, NoEntry
<1>3. MarkInv /\ OneModeInv
  BY <1>2 DEF MarkInv, OneModeInv, Inserted, Idle
<1>4. DryRunNeverAnnounced /\ WithdrawnMeansGone /\ RecordInv /\ LiveRoutes
  BY <1>2 DEF DryRunNeverAnnounced, WithdrawnMeansGone, RecordInv, LiveRoutes
<1> QED
  BY <1>1, <1>3, <1>4 DEF RouteInv

-----------------------------------------------------------------------------
(* The theorems. *)

\* The invariant about the routes holds, whatever fails.
THEOREM RouteInvariant == Spec => []RouteInv
BY RouteInit, RouteStep, PTL DEF Spec

(***************************************************************************)
(* Whatever fails, restarts or changes mode, the live daemon never gets a  *)
(* prefix all of whose blocks were requested in dry-run mode (daemonFor    *)
(* decides by the mark of the block, not by the mode of the process).      *)
(***************************************************************************)
THEOREM DryRunStaysDry == Spec => []DryRunNeverAnnounced
<1>1. RouteInv => DryRunNeverAnnounced
  BY DEF RouteInv
<1> QED
  BY <1>1, RouteInvariant, PTL

(***************************************************************************)
(* When a listing is complete and a command that fails has done nothing,   *)
(* the route of a withdrawn entry is gone from the daemon and stays away   *)
(* until the prefix is blocked again (withdrawEntryLocked, absentFromRIB), *)
(* through failing store writes, restarts of both processes, and mode      *)
(* changes.                                                                *)
(***************************************************************************)
THEOREM WithdrawnRoutesAreGone ==
  Spec => [](CompleteListings /\ CleanFailures => WithdrawnMeansGone)
<1>1. RouteInv => (CompleteListings /\ CleanFailures => WithdrawnMeansGone)
  BY DEF RouteInv
<1> QED
  BY <1>1, RouteInvariant, PTL

(***************************************************************************)
(* When BGP_DRY_RUN keeps its value and listings are complete, a route of  *)
(* the live daemon always has a row that is active or failed, even when    *)
(* commands are killed after their effect: the persist of an entry never   *)
(* closes the last record of a route.                                      *)
(***************************************************************************)
THEOREM RoutesAreRecorded == Spec => [](OneMode /\ CompleteListings => RouteHasRecord)
<1>1. RecordInv => RouteHasRecord
  BY DEF RecordInv, RouteHasRecord, Records
<1>2. RouteInv => (OneMode /\ CompleteListings => RouteHasRecord)
  BY <1>1 DEF RouteInv
<1> QED
  BY <1>2, RouteInvariant, PTL

(***************************************************************************)
(* "Never a route nobody knows about": when moreover a command that fails  *)
(* has done nothing, every route of the live daemon has an active row,     *)
(* through failing store writes and restarts at any step.  That            *)
(* BGP_DRY_RUN keeps its value is needed: restore merges a dry-run row     *)
(* that a failed update left active with a live row of the prefix, under   *)
(* the mark of the older one, and then withdraws nothing.                  *)
(***************************************************************************)
THEOREM RoutesAreKnown ==
  Spec => [](OneMode /\ CompleteListings /\ CleanFailures => NeverUnknownRoute)
<1>1. RouteInv => (OneMode /\ CompleteListings /\ CleanFailures => NeverUnknownRoute)
  BY LiveRoutesAreKnown DEF RouteInv
<1> QED
  BY <1>1, RouteInvariant, PTL
=============================================================================
