-------------------------- MODULE ReportSchedules --------------------------
(***************************************************************************)
(* Scheduled reports: the scheduler of internal/reports that every minute  *)
(* mails the schedules that are due, the rows of report_schedules it reads *)
(* and marks, the handlers that edit them, and the purge of deleted rows.  *)
(*                                                                         *)
(* One schedule is followed (the loop treats them one by one, and shares   *)
(* nothing between them but its time).  Time is counted in hours; a day    *)
(* has HoursPerDay, a week DaysPerWeek, and MonthStarts are the days on    *)
(* which months begin.  What a report contains is left out, and so is the  *)
(* test mail of SendNow, which remembers nothing.                          *)
(***************************************************************************)
EXTENDS Integers, FiniteSetsExt

CONSTANTS
  HoursPerDay, DaysPerWeek, MonthStarts,
  MaxDayOfMonth,  \* 28: the length of the shortest month
  Timings,        \* the schedules an administrator may ask for
  FirstHour,      \* the hour the collector is first started
  PurgeDays,      \* CONFIG_PURGE_DAYS
  MaxHour, MaxRequests, MaxRSFaults   \* bounds: clock, requests, failures and restarts

ASSUME CalendarAssumption ==
  /\ HoursPerDay \in Nat \ {0} /\ DaysPerWeek \in Nat \ {0} /\ MaxDayOfMonth \in Nat \ {0}
  /\ MonthStarts \subseteq Nat
  /\ \A m, n \in MonthStarts : m < n => n - m >= MaxDayOfMonth
  /\ FirstHour \in Nat
  /\ \E m, n \in MonthStarts : m < n /\ n * HoursPerDay <= FirstHour    \* the second month has begun
  /\ \A s \in Timings :
       s.frequency \in {"daily", "weekly", "monthly"} /\ s.hour \in Nat /\ s.dow \in Nat /\ s.dom \in Nat
  /\ PurgeDays \in Nat

VARIABLES
  versions,       \* the rows of the schedule in report_schedules, numbered in the order of insertion
  hour,           \* time.Now(), now()
  job,            \* runDue: what it is doing, for which tick, occurrence and schedule
  fired,          \* Service.fired: the occurrence already sent by this process
  mailed,         \* the tick of the last mail the relay accepted
  reported,       \* occurrences this process was told it sent, since the timing last changed
  editing,        \* the UpdateReport request being served, and the last_run_at it read
  requests, rsFaults

rsVars == <<versions, hour, job, fired, mailed, reported, editing, requests, rsFaults>>

Epoch == -1
NoJob == [step |-> "idle", tick |-> Epoch, occ |-> Epoch]
NoEdit == [step |-> "none"]

RSFault == rsFaults < MaxRSFaults /\ rsFaults' = rsFaults + 1
RSNoFault == UNCHANGED rsFaults

(* FINAL keeps the row with the latest updated_at, among equals the one inserted last. *)
FinalIndex(rows) == Max({i \in DOMAIN rows : \A j \in DOMAIN rows : rows[j].updated <= rows[i].updated})
Listed(rows) == DOMAIN rows # {} /\ ~rows[FinalIndex(rows)].deleted
Current == versions[FinalIndex(versions)]

(***************************************************************************)
(* The calendar.                                                           *)
(***************************************************************************)
Today(t) == t \div HoursPerDay
AtHour(d, s) == d * HoursPerDay + s.hour
MonthOf(d) == Max({m \in MonthStarts : m <= d})

mostRecentOccurrence(s, t) ==
  CASE s.frequency = "daily" ->
         LET occ == AtHour(Today(t), s) IN IF occ > t THEN occ - HoursPerDay ELSE occ
    [] s.frequency = "weekly" ->
         LET offset == ((Today(t) % DaysPerWeek) - s.dow + DaysPerWeek) % DaysPerWeek
             occ == AtHour(Today(t) - offset, s)
         IN  IF occ > t THEN occ - DaysPerWeek * HoursPerDay ELSE occ
    [] s.frequency = "monthly" ->
         LET month == MonthOf(Today(t))
             occ == AtHour(month + s.dom - 1, s)
         IN  IF occ > t THEN AtHour(MonthOf(month - 1) + s.dom - 1, s) ELSE occ

isDue(s, t, lastRun) == lastRun < mostRecentOccurrence(s, t)

RSInit ==
  /\ versions = <<>> /\ hour = FirstHour
  /\ job = NoJob /\ fired = Epoch /\ mailed = Epoch /\ reported = {}
  /\ editing = NoEdit /\ requests = 0 /\ rsFaults = 0

NextHour ==
  /\ hour < MaxHour /\ hour' = hour + 1
  /\ UNCHANGED <<versions, job, fired, mailed, reported, editing, requests, rsFaults>>

(***************************************************************************)
(* The scheduler.                                                          *)
(***************************************************************************)
\* Mutant: the marks of this process are not consulted.
NeverFired(occ) == FALSE

\* The occurrence was sent by this process, recorded or not.
alreadyFired(occ) == fired = occ

(* A tick: the schedules are listed, and an enabled one that is due and was not sent by this process is taken. *)
runDue ==
  /\ job = NoJob /\ Listed(versions)
  /\ LET s == Current
         occ == mostRecentOccurrence(s.timing, hour)
     IN  /\ s.enabled
         /\ isDue(s.timing, hour, s.lastRun)
         /\ ~alreadyFired(occ)
         /\ job' = [step |-> "deliver", tick |-> hour, occ |-> occ]
  /\ UNCHANGED <<versions, hour, fired, mailed, reported, editing, requests, rsFaults>>

(* The relay takes the mail. *)
Accepted == mailed' = job.tick

(* deliver: sent; or an error, before the relay took the message or, as a failing QUIT, after. *)
deliver ==
  /\ job.step = "deliver"
  /\ \/ /\ RSNoFault /\ Accepted
        /\ fired' = job.occ                                  \* markFired
        /\ reported' = reported \cup {job.occ}
        /\ job' = [job EXCEPT !.step = "mark"]
     \/ /\ RSFault
        /\ Accepted \/ UNCHANGED mailed
        /\ job' = NoJob
        /\ UNCHANGED <<fired, reported>>
  /\ UNCHANGED <<versions, hour, editing, requests>>

\* Mutant: the run is recorded under the time it ended.
EndOfRun == hour

\* The run is recorded under the time of its tick.
RunTime == job.tick

(* MarkReportRun: every stored row of the schedule gets the time of the tick, or none does. *)
MarkReportRun ==
  /\ job.step = "mark"
  /\ \/ /\ RSNoFault
        /\ versions' = [i \in DOMAIN versions |->
             [versions[i] EXCEPT !.lastRun = RunTime, !.updated = hour]]
     \/ RSFault /\ UNCHANGED versions
  /\ job' = NoJob
  /\ UNCHANGED <<hour, fired, mailed, reported, editing, requests>>

RestartScheduler ==
  /\ RSFault
  /\ job' = NoJob /\ fired' = Epoch /\ reported' = {}
  /\ (job.step = "deliver" /\ Accepted) \/ UNCHANGED mailed
  /\ UNCHANGED <<versions, hour, editing, requests>>

(***************************************************************************)
(* The handlers and the table.                                             *)
(***************************************************************************)
NextNumber == IF DOMAIN versions = {} THEN 1 ELSE Max(DOMAIN versions) + 1
Insert(row) ==
  versions' = [i \in DOMAIN versions \cup {NextNumber} |-> IF i = NextNumber THEN row ELSE versions[i]]
KeepOnly(rows) == versions' = [i \in rows |-> versions[i]]
Row(timing, enabled, lastRun, deleted) ==
  [timing |-> timing, enabled |-> enabled, lastRun |-> lastRun, deleted |-> deleted, updated |-> hour]

\* No schedule falls on a day some month does not have.
ValidateSchedule(s) ==
  /\ s.hour < HoursPerDay
  /\ s.frequency = "weekly" => s.dow < DaysPerWeek
  /\ s.frequency = "monthly" => s.dom \in 1..MaxDayOfMonth

(* Every schedule gets an identifier of its own, so this one is created once. *)
CreateReport(timing) ==
  /\ requests = 0 /\ requests < MaxRequests /\ ValidateSchedule(timing)
  /\ Insert(Row(timing, TRUE, Epoch, FALSE))
  /\ requests' = requests + 1
  /\ UNCHANGED <<hour, job, fired, mailed, reported, editing, rsFaults>>

(* UpdateReport reads created_at and last_run_at; a row that is not found, or not read, gives none. *)
UpdateReport(timing, enabled) ==
  /\ requests > 0 /\ editing = NoEdit /\ requests < MaxRequests /\ ValidateSchedule(timing)
  /\ requests' = requests + 1
  /\ \E lastRun \in (IF Listed(versions) THEN {Current.lastRun} ELSE {Epoch}) :
       editing' = [step |-> "store", timing |-> timing, enabled |-> enabled, lastRun |-> lastRun]
  /\ UNCHANGED <<versions, hour, job, fired, mailed, reported, rsFaults>>

UpdateReportSchedule ==
  /\ editing.step = "store"
  /\ Insert(Row(editing.timing, editing.enabled, editing.lastRun, FALSE))
  /\ reported' = IF DOMAIN versions # {} /\ Current.timing = editing.timing THEN reported ELSE {}
  /\ editing' = NoEdit
  /\ UNCHANGED <<hour, job, fired, mailed, requests, rsFaults>>

(* DeleteReportSchedule: a tombstone of the current row; the columns it leaves out take their defaults.      *)
(* The timing, which nobody reads of a tombstone, is kept: an update may bring the schedule back with it.    *)
DeleteReport ==
  /\ DOMAIN versions # {} /\ requests < MaxRequests
  /\ Insert(Row(Current.timing, TRUE, Epoch, TRUE))
  /\ requests' = requests + 1
  /\ UNCHANGED <<hour, job, fired, mailed, reported, editing, rsFaults>>

Purgeable(row) == row.deleted /\ row.updated < hour - PurgeDays * HoursPerDay

(* PurgeSoftDeleted: when FINAL shows an old tombstone, every old tombstone is deleted. *)
PurgeSoftDeleted ==
  /\ DOMAIN versions # {} /\ Purgeable(Current)
  /\ KeepOnly({i \in DOMAIN versions : ~Purgeable(versions[i])})
  /\ reported' = IF DOMAIN versions' # {} /\ Current'.timing = Current.timing THEN reported ELSE {}
  /\ UNCHANGED <<hour, job, fired, mailed, editing, requests, rsFaults>>

(* ClickHouse merges two parts: of two adjacent versions of the row the superseded one goes. *)
MergeParts ==
  /\ \E i, j \in DOMAIN versions :
       /\ i < j /\ \A k \in DOMAIN versions : k <= i \/ k >= j
       /\ KeepOnly(DOMAIN versions \ {IF versions[i].updated > versions[j].updated THEN j ELSE i})
  /\ UNCHANGED <<hour, job, fired, mailed, reported, editing, requests, rsFaults>>

Scheduler == runDue \/ deliver \/ MarkReportRun

RSNext ==
  \/ NextHour \/ Scheduler \/ RestartScheduler
  \/ (\E timing \in Timings : CreateReport(timing))
  \/ (\E timing \in Timings, enabled \in BOOLEAN : UpdateReport(timing, enabled))
  \/ UpdateReportSchedule \/ DeleteReport \/ PurgeSoftDeleted \/ MergeParts

RSSpec == RSInit /\ [][RSNext]_rsVars

-----------------------------------------------------------------------------
(***************************************************************************)
(* Properties                                                              *)
(***************************************************************************)
(* A process that was told an occurrence was sent does not send it again   *)
(* while the timing of the schedule stays the same, whatever happens to    *)
(* last_run_at: a failed mark, one overwritten by an update that had read  *)
(* the row before, a deletion and an update that brings the row back       *)
(* (runDue, alreadyFired).                                                 *)
NoSecondMail == job.step = "deliver" => job.occ \notin reported

(* When a schedule of this timing is to fire, by the calendar. *)
Occurs(s, t) ==
  /\ t % HoursPerDay = s.hour
  /\ s.frequency = "weekly" => Today(t) % DaysPerWeek = s.dow
  /\ s.frequency = "monthly" => Today(t) - MonthOf(Today(t)) + 1 = s.dom

LatestOccurrence(s, t) == Max({u \in 0..t : Occurs(s, u)})

(* The last occurrence of an enabled schedule, by the calendar, is in the  *)
(* end covered by a mail of a tick at or after it: neither an outage, a    *)
(* failed delivery, a delivery that runs past the next occurrence nor an   *)
(* edit makes the scheduler pass it over (isDue, MarkReportRun).           *)
LatestOccurrenceIsSent ==
  <>[](Listed(versions) /\ Current.enabled =>
         mailed >= LatestOccurrence(Current.timing, hour))
=============================================================================
