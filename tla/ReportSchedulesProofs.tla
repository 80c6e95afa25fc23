------------------------- MODULE ReportSchedulesProofs -------------------------
(***************************************************************************)
(* Proofs about the report scheduler, for every calendar and every sched-  *)
(* ule: a process does not send twice an occurrence it was told it sent.   *)
(* The calendar comes first: the last occurrence of a schedule stays as it *)
(* is from one hour to the next, or is the new hour.  Then the rows: FINAL *)
(* keeps the one inserted last.  Then the invariant.                       *)
(***************************************************************************)
EXTENDS ReportSchedules, FiniteSetTheorems, TLAPS

-----------------------------------------------------------------------------
(* The calendar. *)

\* A set of numbers below some number has a last one: else the numbers up to one of it
\* would be mapped to the next ones, one by one and without a first.
LEMMA LastOfMany ==
  ASSUME NEW n \in Nat, NEW S \in SUBSET (0 .. n), S # {}
  PROVE  Max(S) \in S /\ \A i \in S : i <= Max(S)
<1> DEFINE upTo == {k \in 0 .. n : \E i \in S : k <= i}
           next == [k \in upTo |-> k + 1]
<1>1. ASSUME \A i \in S : \E j \in S : ~ (i >= j) PROVE FALSE
  <2>1. next \in [upTo -> upTo \ {0}]
    <3> SUFFICES ASSUME NEW k \in upTo PROVE k + 1 \in upTo \ {0}
      OBVIOUS
    <3>1. PICK i \in S : k <= i
      OBVIOUS
    <3>2. PICK j \in S : ~ (i >= j)
      BY <1>1
    <3>3. k \in 0 .. n /\ i \in 0 .. n /\ j \in 0 .. n
      OBVIOUS
    <3>4. k + 1 \in 0 .. n /\ k + 1 <= j /\ k + 1 # 0
      BY <3>1, <3>2, <3>3
    <3> QED
      BY <3>4
  <2>2. 0 \in upTo
    <3>1. PICK i \in S : i \in 0 .. n
      OBVIOUS
    <3>2. 0 \in 0 .. n /\ 0 <= i
      BY <3>1
    <3> QED
      BY <3>2
  <2>3. IsFiniteSet(upTo)
    <3>1. IsFiniteSet(0 .. n) /\ upTo \in SUBSET (0 .. n)
      BY FS_Interval
    <3> QED
      BY <3>1, FS_Subset
  <2>4. \A k, l \in upTo : next[k] = next[l] => k = l
    <3>1. \A k \in upTo : next[k] = k + 1 /\ k \in Int
      OBVIOUS
    <3> QED
      BY <3>1
  <2> HIDE DEF upTo, next
  <2>5. Cardinality(upTo) \in Nat
    BY <2>3, FS_CardinalityType
  <2>6. IsFiniteSet(upTo \ {0}) /\ Cardinality(upTo \ {0}) = Cardinality(upTo) - 1
    BY <2>2, <2>3, FS_RemoveElement
  <2>7. Cardinality(upTo \ {0}) < Cardinality(upTo)
    BY <2>5, <2>6
  <2> QED
    BY <2>1, <2>3, <2>4, <2>6, <2>7, FS_PigeonHole
<1>2. PICK i \in S : \A j \in S : i >= j
  BY <1>1
<1>3. Max(S) \in S /\ \A j \in S : Max(S) >= j
  BY <1>2 DEF Max
<1> QED
  BY <1>3

\* The numbers of the calendar.
LEMMA CalendarNumbers ==
  /\ HoursPerDay \in Nat /\ HoursPerDay > 0 /\ DaysPerWeek \in Nat /\ DaysPerWeek > 0
  /\ FirstHour \in Nat
BY CalendarAssumption

\* The first hour of a day.
Midnight(d) == d * HoursPerDay

\* Days follow each other.
LEMMA Midnights ==
  /\ \A d \in Int : Midnight(d) \in Int /\ Midnight(d + 1) = Midnight(d) + HoursPerDay
  /\ \A d, e \in Int : d < e => Midnight(d) + HoursPerDay <= Midnight(e)
<1>0. HoursPerDay \in Nat /\ HoursPerDay > 0
  BY CalendarNumbers
<1>1. \A d \in Int : Midnight(d) \in Int /\ Midnight(d + 1) = Midnight(d) + HoursPerDay
  BY <1>0 DEF Midnight
<1>2. ASSUME NEW d \in Int, NEW e \in Int, d < e PROVE Midnight(d) + HoursPerDay <= Midnight(e)
  <2>1. e - 1 - d \in Nat
    BY <1>2
  <2>2. (e - 1 - d) * HoursPerDay >= 0
    BY <1>0, <2>1
  <2>3. Midnight(e) = Midnight(d) + HoursPerDay + (e - 1 - d) * HoursPerDay
    BY <1>0 DEF Midnight
  <2>4. Midnight(d) \in Int /\ (e - 1 - d) * HoursPerDay \in Int
    BY <1>0 DEF Midnight
  <2> QED
    BY <1>0, <2>2, <2>3, <2>4
<1> QED
  BY <1>1, <1>2

\* Quotient and remainder are unique.
LEMMA DivisionIs ==
  ASSUME NEW b \in Nat, b > 0, NEW q \in Int, NEW r \in 0 .. b - 1, NEW x \in Int, x = b * q + r
  PROVE  x \div b = q /\ x % b = r
<1> DEFINE p == x \div b
           s == x % b
<1>1. p \in Int /\ s \in 0 .. b - 1 /\ x = b * p + s
  OBVIOUS
<1> HIDE DEF p, s
<1>2. ASSUME NEW u \in Int, NEW v \in Int, u < v PROVE b * u + b <= b * v
  <2>1. v - 1 - u \in Nat
    BY <1>2
  <2>2. b * (v - 1 - u) >= 0
    BY <2>1
  <2>3. b * v = b * u + b + b * (v - 1 - u)
    OBVIOUS
  <2>4. b * u \in Int /\ b * (v - 1 - u) \in Int
    OBVIOUS
  <2> QED
    BY <2>2, <2>3, <2>4
<1>3. b * p \in Int /\ b * q \in Int
  BY <1>1
<1>4. p = q
  <2>1. CASE p < q
    <3>1. b * p + b <= b * q
      BY <1>1, <1>2, <2>1
    <3> QED
      BY <1>1, <1>3, <3>1
  <2>2. CASE q < p
    <3>1. b * q + b <= b * p
      BY <1>1, <1>2, <2>2
    <3> QED
      BY <1>1, <1>3, <3>1
  <2> QED
    BY <1>1, <2>1, <2>2
<1>5. s = r
  BY <1>1, <1>3, <1>4
<1> QED
  BY <1>4, <1>5 DEF p, s

\* The day an hour is on, and that of the next hour.
LEMMA DayOfHour ==
  ASSUME NEW t \in Nat
  PROVE  /\ Today(t) \in Nat
         /\ Midnight(Today(t)) <= t /\ t < Midnight(Today(t)) + HoursPerDay
         /\ \/ Today(t + 1) = Today(t) /\ t + 1 < Midnight(Today(t)) + HoursPerDay
            \/ Today(t + 1) = Today(t) + 1 /\ t + 1 = Midnight(Today(t) + 1)
<1>0. HoursPerDay \in Nat /\ HoursPerDay > 0
  BY CalendarNumbers
<1> DEFINE q == t \div HoursPerDay
           r == t % HoursPerDay
<1>1. q \in Int /\ r \in 0 .. HoursPerDay - 1 /\ t = HoursPerDay * q + r
  BY <1>0
<1>2. Today(t) = q
  BY DEF Today
<1> HIDE DEF q, r
<1>3. Midnight(q) \in Int /\ HoursPerDay * q = Midnight(q) /\ HoursPerDay * (q + 1) = Midnight(q) + HoursPerDay
      /\ Midnight(q + 1) = Midnight(q) + HoursPerDay
  BY <1>0, <1>1 DEF Midnight
<1>4. q \in Nat
  <2> SUFFICES ASSUME q < 0 PROVE FALSE
    BY <1>1
  <2>1. Midnight(q) + HoursPerDay <= Midnight(0) /\ Midnight(0) = 0
    BY <1>0, <1>1, Midnights DEF Midnight
  <2> QED
    BY <1>0, <1>1, <1>3, <2>1
<1>5. Midnight(q) <= t /\ t < Midnight(q) + HoursPerDay
  BY <1>0, <1>1, <1>3
<1>6. CASE r + 1 < HoursPerDay
  <2>1. t + 1 = HoursPerDay * q + (r + 1) /\ r + 1 \in 0 .. HoursPerDay - 1 /\ t + 1 \in Int
    BY <1>0, <1>1, <1>3, <1>6
  <2>2. Today(t + 1) = q
    BY <1>0, <1>1, <2>1, DivisionIs DEF Today
  <2> QED
    BY <1>0, <1>1, <1>2, <1>3, <1>4, <1>5, <1>6, <2>2
<1>7. CASE ~(r + 1 < HoursPerDay)
  <2>1. t + 1 = HoursPerDay * (q + 1) + 0 /\ 0 \in 0 .. HoursPerDay - 1 /\ q + 1 \in Int /\ t + 1 \in Int
    BY <1>0, <1>1, <1>3, <1>7
  <2>2. Today(t + 1) = q + 1
    BY <1>0, <2>1, DivisionIs DEF Today
  <2> QED
    BY <1>0, <1>1, <1>2, <1>3, <1>4, <1>5, <1>7, <2>1, <2>2
<1> QED
  BY <1>6, <1>7

\* The hour of a schedule on a day, by its midnight.
LEMMA HourOnDay ==
  ASSUME NEW s \in Timings, ValidateSchedule(s), NEW d \in Int
  PROVE  AtHour(d, s) = Midnight(d) + s.hour /\ s.hour \in Nat /\ s.hour < HoursPerDay
BY CalendarAssumption DEF AtHour, Midnight, ValidateSchedule

\* How many days ago the last day of a week was.
DaysSince(d, w) == ((d % DaysPerWeek) - w + DaysPerWeek) % DaysPerWeek

LEMMA Weekdays ==
  ASSUME NEW d \in Nat, NEW w \in 0 .. DaysPerWeek - 1
  PROVE  /\ DaysSince(d, w) \in 0 .. DaysPerWeek - 1
         /\ \/ DaysSince(d + 1, w) = DaysSince(d, w) + 1
            \/ DaysSince(d + 1, w) = 0 /\ DaysSince(d, w) = DaysPerWeek - 1
<1>1. DaysPerWeek \in Nat /\ DaysPerWeek > 0 /\ w \in Nat
  BY CalendarAssumption
<1> DEFINE q == d \div DaysPerWeek
           r == d % DaysPerWeek
           next == (d + 1) % DaysPerWeek
<1>2. q \in Int /\ r \in 0 .. DaysPerWeek - 1 /\ d = DaysPerWeek * q + r
  BY <1>1
<1>3. \/ next = r + 1 /\ r + 1 < DaysPerWeek
      \/ next = 0 /\ r = DaysPerWeek - 1
  <2> HIDE DEF q, r
  <2>1. CASE r + 1 < DaysPerWeek
    <3>1. d + 1 = DaysPerWeek * q + (r + 1) /\ r + 1 \in 0 .. DaysPerWeek - 1 /\ d + 1 \in Int
      BY <1>1, <1>2, <2>1
    <3> QED
      BY <1>1, <1>2, <2>1, <3>1, DivisionIs
  <2>2. CASE ~(r + 1 < DaysPerWeek)
    <3>1. d + 1 = DaysPerWeek * (q + 1) + 0 /\ 0 \in 0 .. DaysPerWeek - 1 /\ d + 1 \in Int
          /\ q + 1 \in Int /\ r = DaysPerWeek - 1
      BY <1>1, <1>2, <2>2
    <3> QED
      BY <1>1, <3>1, DivisionIs
  <2> QED
    BY <2>1, <2>2
<1>4. ASSUME NEW v \in 0 .. DaysPerWeek - 1
      PROVE  (v - w + DaysPerWeek) % DaysPerWeek = IF v >= w THEN v - w ELSE v - w + DaysPerWeek
  <2> DEFINE y == v - w + DaysPerWeek
  <2>1. CASE v >= w
    <3>1. y = DaysPerWeek * 1 + (v - w) /\ v - w \in 0 .. DaysPerWeek - 1 /\ y \in Int
      BY <1>1, <2>1
    <3> HIDE DEF y
    <3>2. y % DaysPerWeek = v - w
      BY <1>1, <3>1, DivisionIs
    <3> QED
      BY <2>1, <3>2 DEF y
  <2>2. CASE ~(v >= w)
    <3>1. y = DaysPerWeek * 0 + y /\ y \in 0 .. DaysPerWeek - 1 /\ y \in Int
      BY <1>1, <2>2
    <3> HIDE DEF y
    <3>2. y % DaysPerWeek = y
      BY <1>1, <3>1, DivisionIs
    <3> QED
      BY <2>2, <3>2 DEF y
  <2> QED
    BY <2>1, <2>2
<1>5. DaysSince(d, w) = (r - w + DaysPerWeek) % DaysPerWeek
      /\ DaysSince(d + 1, w) = (next - w + DaysPerWeek) % DaysPerWeek
  BY DEF DaysSince
<1> HIDE DEF q, r, next
<1>6. next \in 0 .. DaysPerWeek - 1
  BY <1>1, <1>2, <1>3
<1>7. DaysSince(d, w) = IF r >= w THEN r - w ELSE r - w + DaysPerWeek
  BY <1>2, <1>4, <1>5
<1>8. DaysSince(d + 1, w) = IF next >= w THEN next - w ELSE next - w + DaysPerWeek
  BY <1>4, <1>5, <1>6
<1> QED
  BY <1>1, <1>2, <1>3, <1>7, <1>8

\* The day of the occurrence in the period a day is in, and in the period before.
OccursOn(s, d) ==
  CASE s.frequency = "daily" -> d
    [] s.frequency = "weekly" -> d - DaysSince(d, s.dow)
    [] s.frequency = "monthly" -> MonthOf(d) + s.dom - 1
OccurredOn(s, d) ==
  CASE s.frequency = "daily" -> d - 1
    [] s.frequency = "weekly" -> OccursOn(s, d) - DaysPerWeek
    [] s.frequency = "monthly" -> MonthOf(MonthOf(d) - 1) + s.dom - 1

\* The month of a day that is not before the second one, and the month before it.
LEMMA Months ==
  ASSUME NEW d \in Nat, Midnight(d) + HoursPerDay > FirstHour
  PROVE  /\ MonthOf(d) \in MonthStarts /\ MonthOf(d) <= d
         /\ MonthOf(MonthOf(d) - 1) \in MonthStarts /\ MonthOf(MonthOf(d) - 1) < MonthOf(d)
         /\ MonthOf(d) \in Nat /\ MonthOf(MonthOf(d) - 1) \in Nat
         /\ d + 1 \notin MonthStarts => MonthOf(d + 1) = MonthOf(d)
         /\ d + 1 \in MonthStarts => MonthOf(d + 1) = d + 1
<1>1. PICK m \in MonthStarts, n \in MonthStarts : m < n /\ Midnight(n) <= FirstHour
  BY CalendarAssumption DEF Midnight
<1>2. MonthStarts \subseteq Nat /\ HoursPerDay \in Nat /\ HoursPerDay > 0 /\ FirstHour \in Nat
  BY CalendarAssumption
<1>3. m \in Nat /\ n \in Nat
  BY <1>2
<1>4. n <= d
  <2> SUFFICES ASSUME d < n PROVE FALSE
    BY <1>3
  <2>1. Midnight(d) + HoursPerDay <= Midnight(n) /\ Midnight(d) \in Int /\ Midnight(n) \in Int
    BY <1>3, Midnights
  <2> QED
    BY <1>1, <1>2, <2>1
<1> DEFINE Started(x) == {k \in MonthStarts : k <= x}
<1>5. ASSUME NEW x \in Nat, \E k \in MonthStarts : k <= x
      PROVE  /\ MonthOf(x) \in MonthStarts /\ MonthOf(x) <= x
             /\ \A k \in MonthStarts : k <= x => k <= MonthOf(x)
  <2>1. Started(x) \in SUBSET (0 .. x) /\ Started(x) # {}
    <3>1. \A k \in MonthStarts : k \in Nat
      BY <1>2
    <3>2. \A k \in Started(x) : k \in Nat /\ k <= x
      BY <3>1
    <3>3. PICK k \in MonthStarts : k <= x
      BY <1>5
    <3>4. k \in Started(x)
      BY <3>3
    <3> QED
      BY <3>2, <3>4
  <2>2. Max(Started(x)) \in Started(x) /\ \A i \in Started(x) : i <= Max(Started(x))
    BY <2>1, LastOfMany
  <2>3. MonthOf(x) = Max(Started(x))
    BY DEF MonthOf
  <2>4. \A k : k \in Started(x) <=> k \in MonthStarts /\ k <= x
    OBVIOUS
  <2> HIDE DEF Started
  <2> QED
    BY <2>2, <2>3, <2>4
<1>6. MonthOf(d) \in MonthStarts /\ MonthOf(d) <= d /\ n <= MonthOf(d)
      /\ \A k \in MonthStarts : k <= d => k <= MonthOf(d)
  <2>1. \E k \in MonthStarts : k <= d
    BY <1>4
  <2>2. /\ MonthOf(d) \in MonthStarts /\ MonthOf(d) <= d
        /\ \A k \in MonthStarts : k <= d => k <= MonthOf(d)
    BY <1>5, <2>1
  <2> QED
    BY <1>4, <2>2
<1>7. MonthOf(d) \in Nat /\ MonthOf(d) - 1 \in Nat /\ m <= MonthOf(d) - 1
  <2>1. MonthOf(d) \in Nat
    BY <1>2, <1>6
  <2> QED
    BY <1>1, <1>3, <1>6, <2>1
<1>8. MonthOf(MonthOf(d) - 1) \in MonthStarts /\ MonthOf(MonthOf(d) - 1) <= MonthOf(d) - 1
  <2>1. MonthOf(d) - 1 \in Nat /\ \E k \in MonthStarts : k <= MonthOf(d) - 1
    BY <1>7
  <2> QED
    BY <1>5, <2>1
<1>9. /\ MonthOf(d + 1) \in MonthStarts /\ MonthOf(d + 1) <= d + 1
      /\ \A k \in MonthStarts : k <= d + 1 => k <= MonthOf(d + 1)
  <2>1. d + 1 \in Nat /\ n <= d + 1
    BY <1>3, <1>4
  <2> QED
    BY <1>5, <2>1
<1>10. MonthOf(d + 1) \in Nat /\ MonthOf(MonthOf(d) - 1) \in Nat
  BY <1>2, <1>8, <1>9
<1>11. MonthOf(MonthOf(d) - 1) < MonthOf(d)
  BY <1>7, <1>8, <1>10
<1>12. ASSUME d + 1 \notin MonthStarts PROVE MonthOf(d + 1) = MonthOf(d)
  <2>1. MonthOf(d + 1) <= d
    BY <1>9, <1>10, <1>12
  <2>2. MonthOf(d + 1) <= MonthOf(d) /\ MonthOf(d) <= MonthOf(d + 1)
    BY <1>6, <1>7, <1>9, <2>1
  <2> QED
    BY <1>7, <1>10, <2>2
<1>13. ASSUME d + 1 \in MonthStarts PROVE MonthOf(d + 1) = d + 1
  BY <1>9, <1>10, <1>13
<1> QED
  BY <1>6, <1>7, <1>8, <1>10, <1>11, <1>12, <1>13

\* The month a day is in has not ended before its last day of a schedule.
LEMMA MonthsAreLong ==
  ASSUME NEW m \in MonthStarts, NEW n \in MonthStarts, m < n, NEW s \in Timings,
         ValidateSchedule(s), s.frequency = "monthly"
  PROVE  m + s.dom - 1 \in Nat /\ m <= m + s.dom - 1 /\ m + s.dom - 1 < n
BY CalendarAssumption DEF ValidateSchedule

\* The occurrence of a period is not after its last day, and is not before its first; the
\* period of the next day is the same, or the one that follows.
LEMMA Periods ==
  ASSUME NEW s \in Timings, ValidateSchedule(s), NEW d \in Nat, Midnight(d) + HoursPerDay > FirstHour
  PROVE  /\ OccursOn(s, d) \in Int /\ OccurredOn(s, d) \in Int /\ OccurredOn(s, d) < d
         /\ \/ OccursOn(s, d + 1) = OccursOn(s, d) /\ OccurredOn(s, d + 1) = OccurredOn(s, d)
            \/ /\ OccurredOn(s, d + 1) = OccursOn(s, d) /\ OccursOn(s, d) <= d
               /\ OccursOn(s, d + 1) \in Int /\ OccursOn(s, d + 1) >= d + 1
<1>1. CASE s.frequency = "daily"
  BY <1>1 DEF OccursOn, OccurredOn
<1>2. CASE s.frequency = "weekly"
  <2>1. DaysPerWeek \in Nat /\ DaysPerWeek > 0 /\ s.dow \in 0 .. DaysPerWeek - 1
    BY <1>2, CalendarAssumption DEF ValidateSchedule
  <2>4. /\ DaysSince(d, s.dow) \in 0 .. DaysPerWeek - 1
        /\ \/ DaysSince(d + 1, s.dow) = DaysSince(d, s.dow) + 1
           \/ DaysSince(d + 1, s.dow) = 0 /\ DaysSince(d, s.dow) = DaysPerWeek - 1
    BY <2>1, Weekdays
  <2>5. OccursOn(s, d) = d - DaysSince(d, s.dow) /\ OccursOn(s, d + 1) = (d + 1) - DaysSince(d + 1, s.dow)
    <3>1. \A x \in Nat : OccursOn(s, x) = x - DaysSince(x, s.dow)
      BY <1>2 DEF OccursOn
    <3>2. d + 1 \in Nat
      OBVIOUS
    <3> QED
      BY <3>1, <3>2, Zenon
  <2>6. /\ OccurredOn(s, d) = OccursOn(s, d) - DaysPerWeek
        /\ OccurredOn(s, d + 1) = OccursOn(s, d + 1) - DaysPerWeek
    BY <1>2 DEF OccurredOn
  <2> DEFINE since == DaysSince(d, s.dow)
             sinceNext == DaysSince(d + 1, s.dow)
             on == OccursOn(s, d)
             onNext == OccursOn(s, d + 1)
             before == OccurredOn(s, d)
             beforeNext == OccurredOn(s, d + 1)
  <2>7. /\ since \in 0 .. DaysPerWeek - 1
        /\ \/ sinceNext = since + 1
           \/ sinceNext = 0 /\ since = DaysPerWeek - 1
        /\ on = d - since /\ onNext = (d + 1) - sinceNext
        /\ before = on - DaysPerWeek /\ beforeNext = onNext - DaysPerWeek
    BY <2>4, <2>5, <2>6
  <2> HIDE DEF since, sinceNext, on, onNext, before, beforeNext
  <2>8. on \in Int /\ before \in Int /\ before < d
    BY <2>1, <2>7
  <2>9. CASE sinceNext = since + 1
    <3>1. onNext = on /\ beforeNext = before
      BY <2>1, <2>7, <2>9
    <3> QED
      BY <2>8, <3>1 DEF on, onNext, before, beforeNext
  <2>10. CASE sinceNext = 0 /\ since = DaysPerWeek - 1
    <3>1. onNext = d + 1 /\ beforeNext = on /\ on <= d
      BY <2>1, <2>7, <2>10
    <3> QED
      BY <2>8, <3>1 DEF on, onNext, before, beforeNext
  <2> QED
    BY <2>7, <2>9, <2>10
<1>3. CASE s.frequency = "monthly"
  <2>1. \A x : OccursOn(s, x) = MonthOf(x) + s.dom - 1
    BY <1>3 DEF OccursOn
  <2>2. \A x : OccurredOn(s, x) = MonthOf(MonthOf(x) - 1) + s.dom - 1
    BY <1>3 DEF OccurredOn
  <2>3. /\ MonthOf(d) \in MonthStarts /\ MonthOf(d) <= d
        /\ MonthOf(MonthOf(d) - 1) \in MonthStarts /\ MonthOf(MonthOf(d) - 1) < MonthOf(d)
        /\ MonthOf(d) \in Nat /\ MonthOf(MonthOf(d) - 1) \in Nat
        /\ d + 1 \notin MonthStarts => MonthOf(d + 1) = MonthOf(d)
        /\ d + 1 \in MonthStarts => MonthOf(d + 1) = d + 1
    BY Months
  <2>4. s.dom \in Nat /\ s.dom >= 1
    BY <1>3, CalendarAssumption DEF ValidateSchedule
  <2>5. OccurredOn(s, d) < MonthOf(d) /\ OccurredOn(s, d) \in Int
    BY <1>3, <2>2, <2>3, <2>4, MonthsAreLong
  <2>6. OccursOn(s, d) \in Int
    BY <2>1, <2>3, <2>4
  <2>7. CASE d + 1 \notin MonthStarts
    <3>1. MonthOf(d + 1) = MonthOf(d)
      BY <2>3, <2>7
    <3>2. OccursOn(s, d + 1) = OccursOn(s, d) /\ OccurredOn(s, d + 1) = OccurredOn(s, d)
      BY <2>1, <2>2, <3>1
    <3> QED
      BY <2>3, <2>5, <2>6, <3>2
  <2>8. CASE d + 1 \in MonthStarts
    <3>1. MonthOf(d + 1) = d + 1 /\ d + 1 - 1 = d
      BY <2>3, <2>8
    <3>2. OccurredOn(s, d + 1) = OccursOn(s, d)
      BY <2>1, <2>2, <3>1
    <3>3. MonthOf(d) < d + 1
      BY <2>3
    <3>4. MonthOf(d) + s.dom - 1 < d + 1
      BY <1>3, <2>3, <2>8, <3>3, MonthsAreLong
    <3>5. OccursOn(s, d) <= d
      BY <2>1, <2>3, <2>4, <3>4
    <3>6. OccursOn(s, d + 1) \in Int /\ OccursOn(s, d + 1) >= d + 1
      BY <2>1, <2>4, <3>1
    <3> QED
      BY <2>3, <2>5, <2>6, <3>2, <3>5, <3>6
  <2> QED
    BY <2>7, <2>8
<1> QED
  BY <1>1, <1>2, <1>3, CalendarAssumption

\* The last occurrence is that of the running period, or of the one before when it is to come.
LEMMA OccurrenceIs ==
  ASSUME NEW s \in Timings, ValidateSchedule(s), NEW t \in Nat,
         OccursOn(s, Today(t)) \in Int, OccurredOn(s, Today(t)) \in Int
  PROVE  mostRecentOccurrence(s, t) =
           IF Midnight(OccursOn(s, Today(t))) + s.hour > t
             THEN Midnight(OccurredOn(s, Today(t))) + s.hour
             ELSE Midnight(OccursOn(s, Today(t))) + s.hour
<1> DEFINE d == Today(t)
<1>1. AtHour(OccursOn(s, d), s) = Midnight(OccursOn(s, d)) + s.hour
      /\ AtHour(OccurredOn(s, d), s) = Midnight(OccurredOn(s, d)) + s.hour
  BY HourOnDay
<1>2. s.frequency \in {"daily", "weekly", "monthly"} /\ d \in Nat
  BY CalendarAssumption, DayOfHour
<1>3. mostRecentOccurrence(s, t) =
        IF AtHour(OccursOn(s, d), s) > t THEN AtHour(OccurredOn(s, d), s) ELSE AtHour(OccursOn(s, d), s)
  <2>1. CASE s.frequency = "daily"
    <3>1. OccursOn(s, d) = d /\ OccurredOn(s, d) = d - 1
      BY <2>1 DEF OccursOn, OccurredOn
    <3>2. mostRecentOccurrence(s, t) =
            IF AtHour(d, s) > t THEN AtHour(d, s) - HoursPerDay ELSE AtHour(d, s)
      BY <2>1 DEF mostRecentOccurrence
    <3>3. AtHour(d, s) - HoursPerDay = AtHour(d - 1, s)
      <4>0. d \in Int /\ d - 1 \in Int /\ (d - 1) + 1 = d
        BY <1>2
      <4>1. Midnight(d) = Midnight(d - 1) + HoursPerDay /\ Midnight(d - 1) \in Int
        <5> HIDE DEF d
        <5>1. Midnight((d - 1) + 1) = Midnight(d - 1) + HoursPerDay /\ Midnight(d - 1) \in Int
          BY <4>0, Midnights
        <5> QED
          BY <4>0, <5>1
      <4>2. AtHour(d, s) = Midnight(d) + s.hour /\ AtHour(d - 1, s) = Midnight(d - 1) + s.hour /\ s.hour \in Nat
        BY <4>0, HourOnDay
      <4> HIDE DEF d
      <4> QED
        BY <4>0, <4>1, <4>2, CalendarNumbers
    <3> HIDE DEF d
    <3> QED
      BY <3>1, <3>2, <3>3
  <2>2. CASE s.frequency = "weekly"
    <3>1. OccursOn(s, d) = d - DaysSince(d, s.dow) /\ OccurredOn(s, d) = OccursOn(s, d) - DaysPerWeek
      BY <2>2 DEF OccursOn, OccurredOn
    <3>2. mostRecentOccurrence(s, t) =
            IF AtHour(d - DaysSince(d, s.dow), s) > t
              THEN AtHour(d - DaysSince(d, s.dow), s) - DaysPerWeek * HoursPerDay
              ELSE AtHour(d - DaysSince(d, s.dow), s)
      BY <2>2 DEF mostRecentOccurrence, DaysSince
    <3>3. AtHour(OccursOn(s, d), s) - DaysPerWeek * HoursPerDay = AtHour(OccursOn(s, d) - DaysPerWeek, s)
      BY CalendarAssumption DEF AtHour
    <3> HIDE DEF d
    <3> QED
      BY <3>1, <3>2, <3>3
  <2>3. CASE s.frequency = "monthly"
    BY <2>3 DEF OccursOn, OccurredOn, mostRecentOccurrence
  <2> QED
    BY <1>2, <2>1, <2>2, <2>3
<1> HIDE DEF d
<1> QED
  BY <1>1, <1>3 DEF d

\* As the hour passes, the last occurrence of a schedule stays or is the new hour, and is never ahead.
LEMMA OccurrencesComeInTime ==
  ASSUME NEW s \in Timings, ValidateSchedule(s), NEW t \in Nat, t >= FirstHour
  PROVE  /\ mostRecentOccurrence(s, t) \in Int /\ mostRecentOccurrence(s, t) <= t
         /\ \/ mostRecentOccurrence(s, t + 1) = mostRecentOccurrence(s, t)
            \/ mostRecentOccurrence(s, t + 1) = t + 1
<1> DEFINE d == Today(t)
           e == Today(t + 1)
           h == s.hour
           now == mostRecentOccurrence(s, t)
           next == mostRecentOccurrence(s, t + 1)
           p == OccursOn(s, d)
           q == OccurredOn(s, d)
           u == OccursOn(s, e)
           v == OccurredOn(s, e)
<1>0. HoursPerDay \in Nat /\ HoursPerDay > 0 /\ h \in Nat /\ h < HoursPerDay /\ FirstHour \in Nat
  BY CalendarNumbers, CalendarAssumption DEF ValidateSchedule
<1>1. /\ d \in Nat /\ Midnight(d) <= t /\ t < Midnight(d) + HoursPerDay
      /\ \/ e = d /\ t + 1 < Midnight(d) + HoursPerDay
         \/ e = d + 1 /\ t + 1 = Midnight(d + 1)
  BY DayOfHour
<1>2. Midnight(d) \in Int /\ Midnight(d + 1) = Midnight(d) + HoursPerDay /\ Midnight(d) + HoursPerDay > FirstHour
  <2>1. d \in Int
    BY <1>1
  <2>2. Midnight(d) \in Int /\ Midnight(d + 1) = Midnight(d) + HoursPerDay
    BY <2>1, Midnights
  <2> HIDE DEF d, h
  <2> QED
    BY <1>0, <1>1, <2>2
<1>3. /\ p \in Int /\ q \in Int /\ q < d
      /\ \/ OccursOn(s, d + 1) = p /\ OccurredOn(s, d + 1) = q
         \/ OccurredOn(s, d + 1) = p /\ p <= d /\ OccursOn(s, d + 1) \in Int /\ OccursOn(s, d + 1) >= d + 1
  BY <1>1, <1>2, Periods
<1>4. /\ u \in Int /\ v \in Int
      /\ \/ u = p /\ v = q
         \/ e = d + 1 /\ v = p /\ p <= d /\ u >= d + 1
  <2>1. CASE e = d
    BY <1>3, <2>1
  <2>2. CASE e = d + 1
    BY <1>3, <2>2
  <2> HIDE DEF e, d, u, v, p, q
  <2> QED
    BY <1>1, <2>1, <2>2
<1>5. now = IF Midnight(p) + h > t THEN Midnight(q) + h ELSE Midnight(p) + h
  BY <1>3, OccurrenceIs
<1>6. next = IF Midnight(u) + h > t + 1 THEN Midnight(v) + h ELSE Midnight(u) + h
  <2>1. t + 1 \in Nat
    OBVIOUS
  <2> QED
    BY <1>4, <2>1, OccurrenceIs
<1> HIDE DEF d, e, h, now, next, p, q, u, v
<1>7. /\ Midnight(p) \in Int /\ Midnight(q) \in Int /\ Midnight(u) \in Int /\ Midnight(v) \in Int
      /\ Midnight(q) + HoursPerDay <= Midnight(d)
      /\ p <= d => Midnight(p) <= Midnight(d)
      /\ u >= d + 1 => Midnight(u) >= Midnight(d) + HoursPerDay
  <2>0. d \in Int
    BY <1>1
  <2>1. Midnight(p) \in Int /\ Midnight(q) \in Int /\ Midnight(u) \in Int /\ Midnight(v) \in Int
    BY <1>3, <1>4, Midnights
  <2>2. Midnight(q) + HoursPerDay <= Midnight(d)
    BY <1>3, <2>0, Midnights
  <2>3. ASSUME p <= d PROVE Midnight(p) <= Midnight(d)
    <3>1. CASE p = d
      BY <1>2, <3>1
    <3>2. CASE p < d
      <4>1. Midnight(p) + HoursPerDay <= Midnight(d)
        BY <1>3, <2>0, <3>2, Midnights
      <4> QED
        BY <1>0, <1>2, <2>1, <4>1
    <3> QED
      BY <1>3, <2>0, <2>3, <3>1, <3>2
  <2>4. ASSUME u >= d + 1 PROVE Midnight(u) >= Midnight(d) + HoursPerDay
    <3>1. d < u
      BY <1>4, <2>0, <2>4
    <3>2. Midnight(d) + HoursPerDay <= Midnight(u)
      BY <1>4, <2>0, <3>1, Midnights
    <3> QED
      BY <1>0, <1>2, <2>1, <3>2
  <2> QED
    BY <2>1, <2>2, <2>3, <2>4
<1>8. now \in Int /\ now <= t
  BY <1>0, <1>1, <1>2, <1>5, <1>7
<1>9. next = now \/ next = t + 1
  <2>1. CASE u = p /\ v = q
    <3>1. next = IF Midnight(p) + h > t + 1 THEN Midnight(q) + h ELSE Midnight(p) + h
      BY <1>6, <2>1
    <3> QED
      BY <1>0, <1>5, <1>7, <3>1
  <2>2. CASE e = d + 1 /\ v = p /\ p <= d /\ u >= d + 1
    <3>1. t + 1 = Midnight(d) + HoursPerDay
      BY <1>1, <1>2, <2>2
    <3>2. Midnight(p) + h <= t /\ now = Midnight(p) + h
      BY <1>0, <1>1, <1>2, <1>5, <1>7, <2>2, <3>1
    <3>3. next = IF Midnight(u) + h > t + 1 THEN Midnight(p) + h ELSE Midnight(u) + h
      BY <1>6, <2>2
    <3> QED
      BY <1>0, <1>2, <1>7, <2>2, <3>1, <3>2, <3>3
  <2> QED
    BY <1>4, <2>1, <2>2
<1> QED
  BY <1>8, <1>9 DEF now, next

-----------------------------------------------------------------------------
(* The rows of a schedule. *)

\* A row has its columns.
Columns(row) == {"timing", "updated"} \subseteq DOMAIN row

\* The rows are numbered, hold schedules that were validated, and are as new as their numbers say.
InOrder(rows, t) ==
  /\ \E n \in Nat : DOMAIN rows \subseteq 1 .. n
  /\ \A i \in DOMAIN rows :
       /\ Columns(rows[i])
       /\ rows[i].timing \in Timings /\ ValidateSchedule(rows[i].timing)
       /\ rows[i].updated \in Int /\ rows[i].updated <= t
  /\ \A i, j \in DOMAIN rows : i < j => rows[i].updated <= rows[j].updated

\* FINAL keeps the row that was inserted last.
LEMMA FinalIsLast ==
  ASSUME NEW rows, NEW t, InOrder(rows, t), DOMAIN rows # {}
  PROVE  /\ FinalIndex(rows) \in DOMAIN rows /\ FinalIndex(rows) \in Nat
         /\ \A i \in DOMAIN rows : i <= FinalIndex(rows)
         /\ FinalIndex(rows) = Max(DOMAIN rows)
<1> DEFINE newest == {i \in DOMAIN rows : \A j \in DOMAIN rows : rows[j].updated <= rows[i].updated}
           last == Max(DOMAIN rows)
           final == Max(newest)
<1>1. PICK n \in Nat : DOMAIN rows \subseteq 1 .. n
  BY DEF InOrder
<1>2. DOMAIN rows \in SUBSET (0 .. n) /\ newest \in SUBSET (0 .. n)
  BY <1>1
<1>3. last \in DOMAIN rows /\ \A i \in DOMAIN rows : i <= last
  BY <1>2, LastOfMany
<1>4. \A i \in DOMAIN rows : i \in Nat
  BY <1>1
<1> HIDE DEF last
<1>5. last \in newest
  <2>1. ASSUME NEW j \in DOMAIN rows PROVE rows[j].updated <= rows[last].updated
    <3>1. CASE j = last
      BY <1>3, <3>1 DEF InOrder
    <3>2. CASE j # last
      <4>1. j < last
        BY <1>3, <1>4, <3>2
      <4> QED
        BY <1>3, <4>1 DEF InOrder
    <3> QED
      BY <3>1, <3>2
  <2> QED
    BY <1>3, <2>1
<1>6. final \in newest /\ \A i \in newest : i <= final
  BY <1>2, <1>5, LastOfMany
<1>7. final = last
  BY <1>3, <1>4, <1>5, <1>6
<1>8. FinalIndex(rows) = final
  BY DEF FinalIndex
<1> QED
  BY <1>3, <1>4, <1>7, <1>8 DEF last

\* A row with a number above all the others is the one FINAL keeps.
LEMMA LastIsFinal ==
  ASSUME NEW rows, NEW t, InOrder(rows, t), NEW k \in DOMAIN rows, \A i \in DOMAIN rows : i <= k
  PROVE  FinalIndex(rows) = k
<1>1. FinalIndex(rows) \in DOMAIN rows /\ \A i \in DOMAIN rows : i <= FinalIndex(rows)
  BY FinalIsLast
<1>2. \A i \in DOMAIN rows : i \in Nat
  BY DEF InOrder
<1> QED
  BY <1>1, <1>2

\* What is kept of the rows is in order.
LEMMA KeptInOrder ==
  ASSUME NEW rows, NEW t, InOrder(rows, t), NEW D \in SUBSET DOMAIN rows, NEW kept,
         kept = [i \in D |-> rows[i]]
  PROVE  /\ InOrder(kept, t) /\ DOMAIN kept = D
         /\ FinalIndex(rows) \in D =>
              FinalIndex(kept) = FinalIndex(rows) /\ kept[FinalIndex(kept)] = rows[FinalIndex(rows)]
<1>1. DOMAIN kept = D /\ \A i \in D : kept[i] = rows[i] /\ i \in DOMAIN rows
  OBVIOUS
<1>2. PICK n \in Nat : DOMAIN rows \subseteq 1 .. n
  BY DEF InOrder
<1>3. InOrder(kept, t)
  <2>1. D \subseteq 1 .. n
    BY <1>2
  <2> QED
    BY <1>1, <2>1 DEF InOrder
<1>4. ASSUME FinalIndex(rows) \in D
      PROVE  FinalIndex(kept) = FinalIndex(rows) /\ kept[FinalIndex(kept)] = rows[FinalIndex(rows)]
  <2>1. DOMAIN rows # {}
    BY <1>4
  <2>2. \A i \in DOMAIN rows : i <= FinalIndex(rows)
    BY <2>1, FinalIsLast
  <2>3. FinalIndex(kept) = FinalIndex(rows)
    BY <1>1, <1>3, <1>4, <2>2, LastIsFinal
  <2> QED
    BY <1>1, <1>4, <2>3
<1> QED
  BY <1>1, <1>3, <1>4

\* A row inserted now is the one FINAL keeps.
LEMMA InsertedInOrder ==
  ASSUME NEW t \in Int, InOrder(versions, t), NEW row, Columns(row), row.timing \in Timings,
         ValidateSchedule(row.timing), row.updated = t, Insert(row)
  PROVE  /\ InOrder(versions', t) /\ DOMAIN versions' # {}
         /\ versions'[FinalIndex(versions')] = row
<1> DEFINE k == NextNumber
           D == DOMAIN versions
<1>1. k \in Nat /\ k >= 1 /\ \A i \in D : i \in Nat /\ i < k /\ i >= 1
  <2>1. CASE D = {}
    BY <2>1 DEF NextNumber
  <2>2. CASE D # {}
    <3>1. FinalIndex(versions) \in Nat /\ FinalIndex(versions) = Max(D) /\ \A i \in D : i <= FinalIndex(versions)
      BY <2>2, FinalIsLast
    <3>2. \A i \in D : i \in Nat /\ i >= 1
      BY DEF InOrder
    <3>3. k = FinalIndex(versions) + 1
      BY <2>2, <3>1 DEF NextNumber
    <3> QED
      BY <3>1, <3>2, <3>3
  <2> QED
    BY <2>1, <2>2
<1>2. PICK new : new = versions'
  OBVIOUS
<1>3. new = [i \in D \cup {k} |-> IF i = k THEN row ELSE versions[i]]
  BY <1>2 DEF Insert
<1> HIDE DEF k, D
<1>4. DOMAIN new = D \cup {k} /\ new[k] = row
  BY <1>3
<1>5. \A i \in D : i # k /\ new[i] = versions[i]
  BY <1>1, <1>3
<1>6. InOrder(new, t)
  <2>1. DOMAIN new \subseteq 1 .. k
    BY <1>1, <1>4
  <2>2. ASSUME NEW i \in DOMAIN new
        PROVE  /\ Columns(new[i]) /\ new[i].timing \in Timings /\ ValidateSchedule(new[i].timing)
               /\ new[i].updated \in Int /\ new[i].updated <= t
    <3>1. CASE i = k
      BY <1>4, <3>1
    <3>2. CASE i # k
      <4>1. i \in DOMAIN versions /\ new[i] = versions[i]
        BY <1>4, <1>5, <3>2 DEF D
      <4> QED
        BY <4>1 DEF InOrder
    <3> QED
      BY <3>1, <3>2
  <2>3. ASSUME NEW i \in DOMAIN new, NEW j \in DOMAIN new, i < j
        PROVE  new[i].updated <= new[j].updated
    <3>1. CASE j = k
      BY <1>4, <2>2, <3>1
    <3>2. CASE j # k
      <4>1. j \in D /\ new[j] = versions[j]
        BY <1>4, <1>5, <3>2
      <4>2. i \in D /\ new[i] = versions[i]
        BY <1>1, <1>4, <1>5, <2>3, <4>1
      <4> QED
        BY <2>3, <4>1, <4>2 DEF InOrder, D
    <3> QED
      BY <3>1, <3>2
  <2> QED
    BY <1>1, <2>1, <2>2, <2>3 DEF InOrder
<1>7. FinalIndex(new) = k
  <2>1. k \in DOMAIN new /\ \A i \in DOMAIN new : i <= k
    BY <1>1, <1>4
  <2> QED
    BY <1>6, <2>1, LastIsFinal
<1> QED
  BY <1>2, <1>4, <1>6, <1>7

-----------------------------------------------------------------------------
(* The scheduler. *)

\* A schedule that was validated.
Valid(timing) == timing \in Timings /\ ValidateSchedule(timing)

\* The last occurrence by the row that FINAL keeps.
Latest(rows, t) == mostRecentOccurrence(rows[FinalIndex(rows)].timing, t)

\* The job is on an occurrence that has come.
JobFits(j, t) ==
  /\ {"step", "occ"} \subseteq DOMAIN j
  /\ j.step \in {"idle", "deliver", "mark"}
  /\ j.occ \in Int /\ j.occ <= t

\* Reported occurrences have come; the last one of the schedule, when reported, is the one marked as fired.
ReportedFits(rows, t, f, rep) ==
  /\ \A o \in rep : o \in Int /\ o <= t
  /\ DOMAIN rows # {} => \A o \in rep : o = Latest(rows, t) => f = o

\* A mail on its way is of an occurrence that was not reported, nor is the last one then.
MailFits(rows, t, j, rep) ==
  j.step = "deliver" =>
    /\ j.occ \notin rep
    /\ DOMAIN rows # {} => \A o \in rep : o # Latest(rows, t)

\* Nothing goes on about a schedule before its first request.
RequestsFit(rows, j, rep, ed, req) ==
  /\ req \in Nat
  /\ ed.step = "store" => Valid(ed.timing) /\ req > 0
  /\ DOMAIN rows # {} \/ j.step # "idle" \/ rep # {} => req > 0

\* The inductive invariant of NoSecondMail.
ScheduleFits(rows, t, j, f, rep, ed, req) ==
  /\ t \in Nat /\ t >= FirstHour
  /\ InOrder(rows, t)
  /\ JobFits(j, t)
  /\ ReportedFits(rows, t, f, rep)
  /\ MailFits(rows, t, j, rep)
  /\ RequestsFit(rows, j, rep, ed, req)

ScheduleInv == ScheduleFits(versions, hour, job, fired, reported, editing, requests)

\* What FINAL keeps is a schedule that was validated.
LEMMA CurrentIsValid ==
  ASSUME NEW rows, NEW t, InOrder(rows, t), DOMAIN rows # {}
  PROVE  Valid(rows[FinalIndex(rows)].timing)
BY FinalIsLast DEF InOrder, Valid

\* The next hour: an occurrence that was reported is not the new hour.
LEMMA HourPasses ==
  ASSUME NEW rows, NEW t, NEW j, NEW f, NEW rep, NEW ed, NEW req, ScheduleFits(rows, t, j, f, rep, ed, req)
  PROVE  ScheduleFits(rows, t + 1, j, f, rep, ed, req)
<1>1. t \in Nat /\ t >= FirstHour /\ t + 1 \in Nat /\ t + 1 >= FirstHour
  BY CalendarNumbers DEF ScheduleFits
<1>2. InOrder(rows, t + 1)
  BY <1>1 DEF ScheduleFits, InOrder
<1>3. JobFits(j, t + 1)
  BY <1>1 DEF ScheduleFits, JobFits
<1>4. \A o \in rep : o \in Int /\ o <= t /\ o <= t + 1 /\ o # t + 1
  BY <1>1 DEF ScheduleFits, ReportedFits
<1>5. ASSUME DOMAIN rows # {} PROVE Latest(rows, t + 1) = Latest(rows, t) \/ Latest(rows, t + 1) = t + 1
  <2>1. Valid(rows[FinalIndex(rows)].timing)
    BY <1>5, CurrentIsValid DEF ScheduleFits
  <2> QED
    BY <1>1, <2>1, OccurrencesComeInTime DEF Latest, Valid
<1>6. ReportedFits(rows, t + 1, f, rep)
  BY <1>4, <1>5 DEF ScheduleFits, ReportedFits
<1>7. MailFits(rows, t + 1, j, rep)
  BY <1>4, <1>5 DEF ScheduleFits, MailFits
<1> QED
  BY <1>1, <1>2, <1>3, <1>6, <1>7 DEF ScheduleFits

\* New rows whose current one has the timing of the old, or that start without reports.
LEMMA RowsChange ==
  ASSUME NEW rows, NEW t, NEW j, NEW f, NEW rep, NEW ed, NEW req, ScheduleFits(rows, t, j, f, rep, ed, req),
         NEW new, InOrder(new, t), NEW rep2,
         \/ rep2 = {}
         \/ /\ rep2 = rep
            /\ DOMAIN new # {} =>
                 DOMAIN rows # {} /\ new[FinalIndex(new)].timing = rows[FinalIndex(rows)].timing
  PROVE  ReportedFits(new, t, f, rep2) /\ MailFits(new, t, j, rep2)
<1>1. CASE rep2 = {}
  BY <1>1 DEF ReportedFits, MailFits
<1>2. CASE rep2 # {}
  <2>1. rep2 = rep
    BY <1>2
  <2>2. ASSUME DOMAIN new # {} PROVE DOMAIN rows # {} /\ Latest(new, t) = Latest(rows, t)
    BY <1>2, <2>2 DEF Latest
  <2> QED
    BY <2>1, <2>2 DEF ScheduleFits, ReportedFits, MailFits
<1> QED
  BY <1>1, <1>2

LEMMA ScheduleStart == RSInit => ScheduleInv
<1> SUFFICES ASSUME RSInit PROVE ScheduleInv
  OBVIOUS
<1>1. FirstHour \in Nat
  BY CalendarNumbers
<1>2. DOMAIN <<>> = {}
  OBVIOUS
<1>3. /\ versions = <<>> /\ hour = FirstHour /\ job = NoJob /\ fired = Epoch
      /\ reported = {} /\ editing = NoEdit /\ requests = 0
  BY DEF RSInit
<1>4. InOrder(versions, hour)
  <2>1. 0 \in Nat /\ {} \subseteq 1 .. 0
    OBVIOUS
  <2> QED
    BY <1>2, <1>3, <2>1 DEF InOrder
<1>5. JobFits(job, hour)
  BY <1>1, <1>3 DEF JobFits, NoJob, Epoch
<1>6. ReportedFits(versions, hour, fired, reported) /\ MailFits(versions, hour, job, reported)
  BY <1>3 DEF ReportedFits, MailFits
<1>7. RequestsFit(versions, job, reported, editing, requests)
  BY <1>2, <1>3 DEF RequestsFit, NoJob, NoEdit
<1> QED
  BY <1>1, <1>3, <1>4, <1>5, <1>6, <1>7 DEF ScheduleInv, ScheduleFits

\* A row is stored for a request that was validated.
LEMMA RowStored ==
  ASSUME ScheduleInv, NEW row, Columns(row), Valid(row.timing), row.updated = hour, Insert(row), NEW rep,
         \/ rep = {}
         \/ rep = reported /\ DOMAIN versions # {} /\ Current.timing = row.timing,
         requests' \in Nat, requests' > 0, requests > 0 \/ editing.step # "store",
         UNCHANGED <<hour, job, fired>>, reported' = rep,
         editing' = editing \/ editing' = NoEdit
  PROVE  ScheduleInv'
<1>1. ScheduleFits(versions, hour, job, fired, reported, editing, requests)
  BY DEF ScheduleInv
<1>2. hour \in Nat /\ hour >= FirstHour /\ InOrder(versions, hour) /\ JobFits(job, hour)
      /\ RequestsFit(versions, job, reported, editing, requests)
  BY <1>1 DEF ScheduleFits
<1>3. InOrder(versions', hour) /\ DOMAIN versions' # {} /\ versions'[FinalIndex(versions')] = row
  BY <1>2, InsertedInOrder DEF Valid
<1>4. PICK new : new = versions'
  OBVIOUS
<1>5. InOrder(new, hour) /\ DOMAIN new # {} /\ new[FinalIndex(new)] = row
  BY <1>3, <1>4
<1>6. \/ rep = {}
      \/ /\ rep = reported
         /\ DOMAIN new # {} =>
              DOMAIN versions # {} /\ new[FinalIndex(new)].timing = versions[FinalIndex(versions)].timing
  BY <1>5 DEF Current
<1>7. ReportedFits(new, hour, fired, rep) /\ MailFits(new, hour, job, rep)
  BY <1>1, <1>5, <1>6, RowsChange
<1>8. PICK ed, req : ed = editing' /\ req = requests'
  OBVIOUS
<1>9. RequestsFit(new, job, rep, ed, req)
  <2>1. req \in Nat /\ req > 0
    BY <1>8
  <2>2. ed.step = "store" => Valid(ed.timing)
    <3>1. CASE ed = editing
      BY <1>2, <3>1 DEF RequestsFit
    <3>2. CASE ed = NoEdit
      BY <3>2 DEF NoEdit
    <3> QED
      BY <1>8, <3>1, <3>2
  <2> QED
    BY <2>1, <2>2 DEF RequestsFit
<1>10. ScheduleFits(new, hour, job, fired, rep, ed, req)
  BY <1>2, <1>5, <1>7, <1>9 DEF ScheduleFits
<1> QED
  BY <1>4, <1>8, <1>10 DEF ScheduleInv

LEMMA ScheduleStep == ScheduleInv /\ [RSNext]_rsVars => ScheduleInv'
<1> SUFFICES ASSUME ScheduleInv, [RSNext]_rsVars PROVE ScheduleInv'
  OBVIOUS
<1>1. ScheduleFits(versions, hour, job, fired, reported, editing, requests)
  BY DEF ScheduleInv
<1>2. /\ hour \in Nat /\ hour >= FirstHour /\ InOrder(versions, hour) /\ JobFits(job, hour)
      /\ ReportedFits(versions, hour, fired, reported) /\ MailFits(versions, hour, job, reported)
      /\ RequestsFit(versions, job, reported, editing, requests)
  BY <1>1 DEF ScheduleFits
<1>3. CASE NextHour
  <2>1. ScheduleFits(versions, hour + 1, job, fired, reported, editing, requests)
    BY <1>1, HourPasses
  <2> QED
    BY <1>3, <2>1 DEF NextHour, ScheduleInv
<1>4. CASE runDue
  <2>1. PICK occ : /\ occ = mostRecentOccurrence(Current.timing, hour) /\ fired # occ
                   /\ job' = [step |-> "deliver", tick |-> hour, occ |-> occ]
    BY <1>4 DEF runDue, alreadyFired
  <2>2. PICK next : next = job' /\ next.step = "deliver" /\ next.occ = occ
                    /\ {"step", "occ"} \subseteq DOMAIN next
    BY <2>1
  <2>3. DOMAIN versions # {} /\ occ = Latest(versions, hour)
    BY <1>4, <2>1 DEF runDue, Listed, Latest, Current
  <2>4. occ \in Int /\ occ <= hour
    <3>1. Valid(versions[FinalIndex(versions)].timing)
      BY <1>2, <2>3, CurrentIsValid
    <3> QED
      BY <1>2, <2>3, <3>1, OccurrencesComeInTime DEF Latest, Valid
  <2>5. JobFits(next, hour)
    BY <2>2, <2>4 DEF JobFits
  <2>6. \A o \in reported : o # Latest(versions, hour)
    BY <1>2, <2>1, <2>3 DEF ReportedFits
  <2>7. MailFits(versions, hour, next, reported)
    BY <2>2, <2>3, <2>6 DEF MailFits
  <2>8. RequestsFit(versions, next, reported, editing, requests)
    BY <1>2, <2>3 DEF RequestsFit
  <2>9. ScheduleFits(versions, hour, next, fired, reported, editing, requests)
    BY <1>2, <2>5, <2>7, <2>8 DEF ScheduleFits
  <2> QED
    BY <1>4, <2>2, <2>9 DEF runDue, ScheduleInv
<1>5. CASE deliver
  <2>1. job.step = "deliver" /\ job.occ \in Int /\ job.occ <= hour /\ requests > 0
    BY <1>2, <1>5 DEF deliver, JobFits, RequestsFit
  <2>2. PICK next : next = job' /\ next.step \in {"idle", "mark"} /\ next.occ \in Int /\ next.occ <= hour
                    /\ {"step", "occ"} \subseteq DOMAIN next
    <3>1. CASE job' = [job EXCEPT !.step = "mark"]
      <4>1. PICK next : next = job'
        OBVIOUS
      <4>2. "step" \in DOMAIN job /\ "occ" \in DOMAIN job
        BY <1>2 DEF JobFits
      <4>3. next.step = "mark" /\ next.occ = job.occ /\ {"step", "occ"} \subseteq DOMAIN next
        BY <3>1, <4>1, <4>2
      <4> QED
        BY <2>1, <4>1, <4>3
    <3>2. CASE job' = NoJob
      <4>1. PICK next : next = job' /\ next = [step |-> "idle", tick |-> -1, occ |-> -1]
        BY <3>2 DEF NoJob, Epoch
      <4>2. next.step = "idle" /\ next.occ = -1 /\ {"step", "occ"} \subseteq DOMAIN next
        BY <4>1
      <4> QED
        BY <1>2, <4>1, <4>2
    <3> QED
      BY <1>5, <3>1, <3>2 DEF deliver
  <2>3. JobFits(next, hour)
    BY <2>2 DEF JobFits
  <2>4. PICK f, rep : /\ f = fired' /\ rep = reported'
                      /\ \/ f = fired /\ rep = reported
                         \/ f = job.occ /\ rep = reported \cup {job.occ}
    BY <1>5 DEF deliver
  <2>5. ReportedFits(versions, hour, f, rep)
    <3>1. CASE f = fired /\ rep = reported
      BY <1>2, <3>1
    <3>2. CASE f = job.occ /\ rep = reported \cup {job.occ}
      <4>1. \A o \in rep : o \in Int /\ o <= hour
        BY <1>2, <2>1, <3>2 DEF ReportedFits
      <4>2. ASSUME DOMAIN versions # {}, NEW o \in rep, o = Latest(versions, hour) PROVE f = o
        BY <1>2, <2>1, <3>2, <4>2 DEF MailFits
      <4> QED
        BY <4>1, <4>2 DEF ReportedFits
    <3> QED
      BY <2>4, <3>1, <3>2
  <2>6. MailFits(versions, hour, next, rep)
    BY <2>2 DEF MailFits
  <2>7. RequestsFit(versions, next, rep, editing, requests)
    BY <1>2, <2>1 DEF RequestsFit
  <2>8. ScheduleFits(versions, hour, next, f, rep, editing, requests)
    BY <1>2, <2>3, <2>5, <2>6, <2>7 DEF ScheduleFits
  <2> QED
    BY <1>5, <2>2, <2>4, <2>8 DEF deliver, ScheduleInv
<1>6. CASE MarkReportRun
  <2>1. job.step = "mark" /\ requests > 0
    BY <1>2, <1>6 DEF MarkReportRun, RequestsFit
  <2>2. PICK rows : /\ rows = versions'
                    /\ \/ rows = [i \in DOMAIN versions |->
                            [versions[i] EXCEPT !.lastRun = RunTime, !.updated = hour]]
                       \/ rows = versions
    BY <1>6 DEF MarkReportRun
  <2>3. InOrder(rows, hour) /\ (DOMAIN rows # {} =>
          DOMAIN versions # {} /\ rows[FinalIndex(rows)].timing = versions[FinalIndex(versions)].timing)
    <3>1. CASE rows = versions
      BY <1>2, <3>1
    <3>2. CASE rows = [i \in DOMAIN versions |-> [versions[i] EXCEPT !.lastRun = RunTime, !.updated = hour]]
      <4>1. DOMAIN rows = DOMAIN versions
        BY <3>2
      <4>2. ASSUME NEW i \in DOMAIN rows
            PROVE  Columns(rows[i]) /\ rows[i].timing = versions[i].timing /\ rows[i].updated = hour
        <5>1. PICK row : row = versions[i] /\ Columns(row)
          BY <1>2, <4>1 DEF InOrder
        <5>2. PICK marked : marked = rows[i] /\ marked = [row EXCEPT !.lastRun = RunTime, !.updated = hour]
          BY <3>2, <4>1, <5>1
        <5>3. "timing" \in DOMAIN row /\ "updated" \in DOMAIN row
          BY <5>1 DEF Columns
        <5>4. DOMAIN marked = DOMAIN row /\ marked.timing = row.timing /\ marked.updated = hour
          BY <5>2, <5>3
        <5> QED
          BY <5>1, <5>2, <5>3, <5>4 DEF Columns
      <4>3. InOrder(rows, hour)
        BY <1>2, <4>1, <4>2 DEF InOrder
      <4>4. ASSUME DOMAIN versions # {}
            PROVE  rows[FinalIndex(rows)].timing = versions[FinalIndex(versions)].timing
        <5>1. FinalIndex(versions) = Max(DOMAIN versions) /\ FinalIndex(versions) \in DOMAIN versions
          BY <1>2, <4>4, FinalIsLast
        <5>2. FinalIndex(rows) = Max(DOMAIN rows)
          BY <4>1, <4>3, <4>4, FinalIsLast
        <5> QED
          BY <4>1, <4>2, <5>1, <5>2
      <4> QED
        BY <4>1, <4>3, <4>4
    <3> QED
      BY <2>2, <3>1, <3>2
  <2>4. ReportedFits(rows, hour, fired, reported)
    BY <1>1, <2>3, RowsChange
  <2>5. JobFits(NoJob, hour) /\ MailFits(rows, hour, NoJob, reported)
    BY <1>2 DEF JobFits, MailFits, NoJob, Epoch
  <2>6. RequestsFit(rows, NoJob, reported, editing, requests)
    BY <1>2, <2>1 DEF RequestsFit
  <2>7. ScheduleFits(rows, hour, NoJob, fired, reported, editing, requests)
    BY <1>2, <2>3, <2>4, <2>5, <2>6 DEF ScheduleFits
  <2> QED
    BY <1>6, <2>2, <2>7 DEF MarkReportRun, ScheduleInv
<1>7. CASE RestartScheduler
  <2>1. JobFits(NoJob, hour) /\ MailFits(versions, hour, NoJob, {}) /\ ReportedFits(versions, hour, Epoch, {})
    BY <1>2 DEF JobFits, MailFits, ReportedFits, NoJob, Epoch
  <2>2. RequestsFit(versions, NoJob, {}, editing, requests)
    BY <1>2 DEF RequestsFit, NoJob
  <2>3. ScheduleFits(versions, hour, NoJob, Epoch, {}, editing, requests)
    BY <1>2, <2>1, <2>2 DEF ScheduleFits
  <2> QED
    BY <1>7, <2>3 DEF RestartScheduler, ScheduleInv
<1>8. ASSUME NEW timing \in Timings, CreateReport(timing) PROVE ScheduleInv'
  <2>1. PICK row : row = Row(timing, TRUE, Epoch, FALSE)
    OBVIOUS
  <2>2. row.timing = timing /\ row.updated = hour /\ Columns(row)
    BY <2>1 DEF Row, Columns
  <2>3. Valid(row.timing) /\ Insert(row) /\ requests = 0 /\ requests' = 1
    <3>1. Insert(row) /\ ValidateSchedule(timing) /\ requests = 0 /\ requests' = requests + 1
      BY <1>8, <2>1 DEF CreateReport
    <3> QED
      BY <1>8, <2>2, <3>1 DEF Valid
  <2>4. reported = {} /\ editing.step # "store"
    BY <1>2, <2>3 DEF RequestsFit
  <2>5. UNCHANGED <<hour, job, fired>> /\ reported' = {} /\ editing' = editing
    BY <1>8, <2>4 DEF CreateReport
  <2> QED
    BY <2>2, <2>3, <2>4, <2>5, RowStored
<1>9. ASSUME NEW timing \in Timings, NEW enabled \in BOOLEAN, UpdateReport(timing, enabled) PROVE ScheduleInv'
  <2>1. PICK ed, req : /\ ed = editing' /\ req = requests' /\ ed.timing = timing
                       /\ req = requests + 1 /\ ValidateSchedule(timing)
    BY <1>9 DEF UpdateReport
  <2>2. RequestsFit(versions, job, reported, ed, req)
    BY <1>2, <2>1 DEF RequestsFit, Valid
  <2>3. ScheduleFits(versions, hour, job, fired, reported, ed, req)
    BY <1>2, <2>2 DEF ScheduleFits
  <2> QED
    BY <1>9, <2>1, <2>3 DEF UpdateReport, ScheduleInv
<1>10. CASE UpdateReportSchedule
  <2>1. PICK row, rep : /\ row = Row(editing.timing, editing.enabled, editing.lastRun, FALSE)
                        /\ rep = reported'
    OBVIOUS
  <2>2. row.timing = editing.timing /\ row.updated = hour /\ Columns(row)
    BY <2>1 DEF Row, Columns
  <2>3. Valid(row.timing) /\ Insert(row) /\ requests \in Nat /\ requests > 0
    BY <1>2, <1>10, <2>1, <2>2 DEF UpdateReportSchedule, RequestsFit
  <2>4. UNCHANGED <<hour, job, fired, requests>> /\ editing' = NoEdit
        /\ rep = IF DOMAIN versions # {} /\ Current.timing = row.timing THEN reported ELSE {}
    BY <1>10, <2>1, <2>2 DEF UpdateReportSchedule
  <2> QED
    BY <2>1, <2>2, <2>3, <2>4, RowStored
<1>11. CASE DeleteReport
  <2>1. PICK row : row = Row(Current.timing, TRUE, Epoch, TRUE)
    OBVIOUS
  <2>2. row.timing = Current.timing /\ row.updated = hour /\ Columns(row)
    BY <2>1 DEF Row, Columns
  <2>3. DOMAIN versions # {} /\ Insert(row) /\ requests' = requests + 1
        /\ UNCHANGED <<hour, job, fired, reported, editing>>
    BY <1>11, <2>1 DEF DeleteReport
  <2>4. Valid(row.timing)
    BY <1>2, <2>2, <2>3, CurrentIsValid DEF Current
  <2>5. requests \in Nat /\ requests > 0 /\ requests' \in Nat /\ requests' > 0
    BY <1>2, <2>3 DEF RequestsFit
  <2> QED
    BY <2>2, <2>3, <2>4, <2>5, RowStored
<1>12. CASE PurgeSoftDeleted
  <2>1. PICK rows : rows = versions'
    OBVIOUS
  <2>2. PICK D \in SUBSET DOMAIN versions : rows = [i \in D |-> versions[i]]
    BY <1>12, <2>1 DEF PurgeSoftDeleted, KeepOnly
  <2>3. InOrder(rows, hour)
    BY <1>2, <2>2, KeptInOrder
  <2>4. PICK rep : /\ rep = reported'
                   /\ rep = IF DOMAIN rows # {} /\ rows[FinalIndex(rows)].timing = Current.timing
                              THEN reported ELSE {}
    BY <1>12, <2>1 DEF PurgeSoftDeleted, Current
  <2>5. DOMAIN versions # {} /\ UNCHANGED <<hour, job, fired, editing, requests>>
    BY <1>12 DEF PurgeSoftDeleted
  <2>6. ReportedFits(rows, hour, fired, rep) /\ MailFits(rows, hour, job, rep)
    <3>1. \/ rep = {}
          \/ /\ rep = reported
             /\ DOMAIN rows # {} =>
                  DOMAIN versions # {} /\ rows[FinalIndex(rows)].timing = versions[FinalIndex(versions)].timing
      BY <2>4, <2>5 DEF Current
    <3> QED
      BY <1>1, <2>3, <3>1, RowsChange
  <2>7. RequestsFit(rows, job, rep, editing, requests)
    BY <1>2, <2>5 DEF RequestsFit
  <2>8. ScheduleFits(rows, hour, job, fired, rep, editing, requests)
    BY <1>2, <2>3, <2>6, <2>7 DEF ScheduleFits
  <2> QED
    BY <2>1, <2>4, <2>5, <2>8 DEF ScheduleInv
<1>13. CASE MergeParts
  <2>1. PICK i \in DOMAIN versions, j \in DOMAIN versions :
          i < j /\ KeepOnly(DOMAIN versions \ {IF versions[i].updated > versions[j].updated THEN j ELSE i})
    BY <1>13 DEF MergeParts
  <2>2. PICK rows : rows = versions'
    OBVIOUS
  <2>3. KeepOnly(DOMAIN versions \ {i})
    <3>1. versions[i].updated \in Int /\ versions[j].updated \in Int /\ versions[i].updated <= versions[j].updated
      BY <1>2, <2>1 DEF InOrder
    <3>2. ~(versions[i].updated > versions[j].updated)
      BY <3>1
    <3> QED
      BY <2>1, <3>2
  <2>4. FinalIndex(versions) \in DOMAIN versions \ {i}
    <3>1. FinalIndex(versions) \in DOMAIN versions /\ j <= FinalIndex(versions) /\ FinalIndex(versions) \in Nat
      BY <1>2, FinalIsLast
    <3>2. i \in Nat /\ j \in Nat
      BY <1>2 DEF InOrder
    <3> QED
      BY <2>1, <3>1, <3>2
  <2>5. InOrder(rows, hour) /\ rows[FinalIndex(rows)] = versions[FinalIndex(versions)]
    <3>1. rows = [k \in DOMAIN versions \ {i} |-> versions[k]]
      BY <2>2, <2>3 DEF KeepOnly
    <3> QED
      BY <1>2, <2>4, <3>1, KeptInOrder
  <2>6. UNCHANGED <<hour, job, fired, reported, editing, requests>> /\ DOMAIN versions # {}
    BY <1>13, <2>1 DEF MergeParts
  <2>7. ReportedFits(rows, hour, fired, reported) /\ MailFits(rows, hour, job, reported)
    BY <1>1, <2>5, <2>6, RowsChange
  <2>8. RequestsFit(rows, job, reported, editing, requests)
    BY <1>2, <2>6 DEF RequestsFit
  <2>9. ScheduleFits(rows, hour, job, fired, reported, editing, requests)
    BY <1>2, <2>5, <2>7, <2>8 DEF ScheduleFits
  <2> QED
    BY <2>2, <2>6, <2>9 DEF ScheduleInv
<1>14. CASE UNCHANGED rsVars
  BY <1>14 DEF rsVars, ScheduleInv
<1> QED
  BY <1>3, <1>4, <1>5, <1>6, <1>7, <1>8, <1>9, <1>10, <1>11, <1>12, <1>13, <1>14 DEF RSNext, Scheduler

\* A process that was told it sent an occurrence does not send it again while the schedule is
\* not edited, whatever is lost of last_run_at (runDue, alreadyFired, markFired).
THEOREM NoMailIsSentTwice == RSSpec => []NoSecondMail
<1>1. ScheduleInv => NoSecondMail
  BY DEF ScheduleInv, ScheduleFits, MailFits, NoSecondMail
<1> QED
  BY ScheduleStart, ScheduleStep, <1>1, PTL DEF RSSpec
================================================================================
