----------------------------- MODULE AlertRules -----------------------------
(***************************************************************************)
(* The alert rules: the seeding of an empty table and the upgrade of the   *)
(* rules the previous release seeded, both at every start of the collector *)
(* (alerts/engine.go, alerts/reconcile.go), the handlers that edit a rule  *)
(* (handler/alerts.go), and the rows they all write (store/alerts.go): a   *)
(* change is a new version, and the one with the latest updated_at counts. *)
(*                                                                         *)
(* Time is counted in seconds, the resolution of updated_at.  Of a rule    *)
(* the fields are kept that the upgrade compares or changes, thresholds,   *)
(* window and severity as one, and `enabled' for those it must preserve.   *)
(***************************************************************************)
EXTENDS Integers, Sequences, FiniteSets

CONSTANTS
  Rules,          \* the names of the seeded rules
  Factor,         \* function: rule -> the baseline factor of this release, 0 for a rule type without
  MaxSecond, MaxEditCalls, MaxRuleFaults   \* bounds: clock, requests, failures and restarts

VARIABLES
  ruleRows,   \* the versions of each rule, in the order they were inserted
  second,     \* time.Now(), now()
  boot,       \* the start of the collector: its step, and the rules it still has to write
  seen,       \* the rules ReconcileSeededRules listed
  page,       \* a rule as the operator's browser loaded it before an edit
  quiet,      \* no request changed a rule since the listing
  editCalls, ruleFaults

ASSUME RulesAssumption ==
  Factor \in [Rules -> Nat] /\ {MaxSecond, MaxEditCalls, MaxRuleFaults} \subseteq Nat

arVars == <<ruleRows, second, boot, seen, page, quiet, editCalls, ruleFaults>>

RuleFault == ruleFaults < MaxRuleFaults /\ ruleFaults' = ruleFaults + 1
RuleOK == UNCHANGED ruleFaults

\* A rule as 3.6 seeded it, and as this release does.
Was == [limits |-> "seeded", text |-> "3.6", scope |-> "", factor |-> 0, enabled |-> TRUE]
DefaultRule(r) == [Was EXCEPT !.text = "new", !.factor = Factor[r]]

Version(body, updated, deleted) == [body |-> body, updated |-> updated, deleted |-> deleted]
NoRule == Version(Was, 0, TRUE)

\* FINAL: the latest updated_at, of equals the one inserted last.
Wins(rows, i) ==
  \A j \in DOMAIN rows : rows[j].updated < rows[i].updated \/ (rows[j].updated = rows[i].updated /\ j <= i)
RuleNow(r) == IF ruleRows[r] = <<>> THEN NoRule ELSE ruleRows[r][CHOOSE i \in DOMAIN ruleRows[r] : Wins(ruleRows[r], i)]

ListAlertRules == [r \in Rules |-> RuleNow(r)]
Shown(listing) == {r \in Rules : ~listing[r].deleted}

\* A version without updated_at gets the time of the insert.
UpsertAlertRule(r, body, updated) ==
  ruleRows' = [ruleRows EXCEPT ![r] = Append(@, Version(body, IF updated = 0 THEN second ELSE updated, FALSE))]

ARInit ==
  /\ ruleRows \in {[r \in Rules |-> <<>>], [r \in Rules |-> <<Version(Was, 1, FALSE)>>]}
  /\ second = 1
  /\ boot = [step |-> "ensure", todo |-> {}]
  /\ seen = [r \in Rules |-> NoRule] /\ page = NoRule
  /\ quiet = FALSE /\ editCalls = 0 /\ ruleFaults = 0

(***************************************************************************)
(* The start of the collector.                                             *)
(***************************************************************************)
(* EnsureDefaultRules seeds only when no rule is listed; an error is logged, and the start goes on. *)
EnsureDefaultRules ==
  /\ boot.step = "ensure"
  /\ \/ /\ RuleOK
        /\ boot' = IF Shown(ListAlertRules) # {} THEN [step |-> "list", todo |-> {}]
                                                 ELSE [step |-> "seed", todo |-> Rules]
     \/ RuleFault /\ boot' = [step |-> "list", todo |-> {}]
  /\ UNCHANGED <<ruleRows, second, seen, page, quiet, editCalls>>

\* A seeded rule has a new id: what an earlier rule of that name left in the table is another rule's.
SeedRule ==
  /\ boot.step = "seed"
  /\ \/ /\ boot.todo = {} /\ boot' = [step |-> "list", todo |-> {}]
        /\ RuleOK /\ UNCHANGED ruleRows
     \/ \E r \in boot.todo :
          \/ /\ RuleOK
             /\ ruleRows' = [ruleRows EXCEPT ![r] = <<Version(DefaultRule(r), second, FALSE)>>]
             /\ boot' = [boot EXCEPT !.todo = @ \ {r}]
          \/ RuleFault /\ UNCHANGED ruleRows /\ boot' = [step |-> "list", todo |-> {}]
  /\ UNCHANGED <<second, seen, page, quiet, editCalls>>

\* Mutant: a scope an operator added is not noticed.
SameLimits(b) == b.limits = Was.limits /\ b.text = Was.text /\ b.factor = 0

stillSeeded(b) ==
  b.limits = Was.limits /\ b.text = Was.text /\ b.scope = "" /\ b.factor = 0

(* ReconcileSeededRules: the listing, *)
ListSeeded ==
  /\ boot.step = "list"
  /\ \/ /\ RuleOK
        /\ seen' = ListAlertRules /\ quiet' = TRUE
        /\ boot' = [step |-> "upgrade",
                    todo |-> {r \in Shown(ListAlertRules) : stillSeeded(ListAlertRules[r].body)}]
     \/ RuleFault /\ boot' = [step |-> "failed", todo |-> {}] /\ UNCHANGED <<seen, quiet>>
  /\ UNCHANGED <<ruleRows, second, page, editCalls>>

\* The new version must sort last.
UpgradeStamp == second + 1
Upgraded(r, b) == [b EXCEPT !.factor = Factor[r], !.text = "new"]

(* and one upsert per rule still as seeded; the first error leaves the others for the next start. *)
UpgradeRule ==
  /\ boot.step = "upgrade"
  /\ \/ /\ boot.todo = {} /\ boot' = [step |-> "done", todo |-> {}]
        /\ RuleOK /\ UNCHANGED ruleRows
     \/ \E r \in boot.todo :
          \/ /\ RuleOK
             /\ UpsertAlertRule(r, Upgraded(r, seen[r].body), UpgradeStamp)
             /\ boot' = [boot EXCEPT !.todo = @ \ {r}]
          \/ RuleFault /\ UNCHANGED ruleRows /\ boot' = [step |-> "failed", todo |-> {}]
  /\ UNCHANGED <<second, seen, page, quiet, editCalls>>

StartAgain ==
  /\ RuleFault
  /\ boot' = [step |-> "ensure", todo |-> {}]
  /\ UNCHANGED <<ruleRows, second, seen, page, quiet, editCalls>>

(***************************************************************************)
(* The operator.                                                           *)
(***************************************************************************)
ListRules(r) ==
  /\ page = NoRule /\ r \in Shown(ListAlertRules) /\ editCalls < MaxEditCalls
  /\ page' = [rule |-> r, body |-> RuleNow(r).body, updated |-> RuleNow(r).updated]
  /\ UNCHANGED <<ruleRows, second, boot, seen, quiet, editCalls, ruleFaults>>

Edit == editCalls < MaxEditCalls /\ editCalls' = editCalls + 1 /\ quiet' = FALSE

\* A factor is for the rule types that have a baseline.
validateRule(r, b) == b.factor # 0 => Factor[r] > 0

\* What an operator may make of a rule.
Edited(b) ==
  {[b EXCEPT !.enabled = ~@], [b EXCEPT !.limits = "own"], [b EXCEPT !.text = "own"],
   [b EXCEPT !.scope = "group"], [b EXCEPT !.factor = 5]}

(* UpdateRule stores the body it is sent, with the updated_at of the page or, from a script, without. *)
UpdateRule ==
  /\ page # NoRule /\ Edit
  /\ \E b \in Edited(page.body), updated \in {page.updated, 0} :
       validateRule(page.rule, b) /\ UpsertAlertRule(page.rule, b, updated)
  /\ page' = NoRule
  /\ UNCHANGED <<second, boot, seen, ruleFaults>>

(* DeleteAlertRule: a tombstone of the current row, at the time of the server; the rest takes its default. *)
DeleteRule(r) ==
  /\ ruleRows[r] # <<>> /\ Edit
  /\ ruleRows' = [ruleRows EXCEPT ![r] = Append(@, Version(Was, second, TRUE))]
  /\ UNCHANGED <<second, boot, seen, page, ruleFaults>>

(* ClickHouse merges parts: a version that another one supersedes goes. *)
MergeVersions ==
  /\ \E r \in Rules : \E i \in DOMAIN ruleRows[r] :
       /\ ~Wins(ruleRows[r], i)
       /\ ruleRows' = [ruleRows EXCEPT ![r] =
            [j \in 1..(Len(@) - 1) |-> IF j < i THEN @[j] ELSE @[j + 1]]]
  /\ UNCHANGED <<second, boot, seen, page, quiet, editCalls, ruleFaults>>

NextSecond ==
  /\ second < MaxSecond /\ second' = second + 1
  /\ UNCHANGED <<ruleRows, boot, seen, page, quiet, editCalls, ruleFaults>>

ARNext ==
  \/ EnsureDefaultRules \/ SeedRule \/ ListSeeded \/ UpgradeRule \/ StartAgain
  \/ UpdateRule \/ MergeVersions \/ NextSecond
  \/ \E r \in Rules : ListRules(r) \/ DeleteRule(r)

ARSpec == ARInit /\ [][ARNext]_arVars

-----------------------------------------------------------------------------
(* When a start has gone through its upgrade and no request came in since  *)
(* its listing, every rule is as the release notes have it: one that was   *)
(* still as 3.6 seeded it carries the new text and factor and what the     *)
(* operator had switched on or off, any other is as the operator left it,  *)
(* and a deleted one stays deleted.  The versions of failed and repeated   *)
(* starts, of edits with an old updated_at and of merges do not matter     *)
(* (ReconcileSeededRules, EnsureDefaultRules, UpsertAlertRule).            *)
UpgradesOnlyWhatWasSeeded ==
  boot.step = "done" /\ quiet =>
    /\ Shown(ListAlertRules) = Shown(seen)
    /\ \A r \in Shown(seen) :
         RuleNow(r).body = IF seen[r].body \in {Was, [Was EXCEPT !.enabled = FALSE]}
                           THEN [DefaultRule(r) EXCEPT !.enabled = seen[r].body.enabled]
                           ELSE seen[r].body
=============================================================================
