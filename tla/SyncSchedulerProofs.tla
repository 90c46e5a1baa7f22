------------------------ MODULE SyncSchedulerProofs ------------------------
(***************************************************************************)
(* For any replicas, sources, windows, calendars and faults: the next slot *)
(* of a source is the first to come.  A fault costs one slot at most.  And *)
(* as long as no leader loses its lock unnoticed, only the holder of the   *)
(* lock enqueues, and no slot of a source is enqueued twice.               *)
(***************************************************************************)
EXTENDS SyncScheduler, FiniteSetTheorems, WellFoundedInduction, TLAPS

-----------------------------------------------------------------------------
(* The calendar: arithmetic of days and weeks.                             *)

\* A bounded set of integers that is not empty has a least element.
LEMMA IntervalMin ==
    ASSUME NEW lo \in Int, NEW hi \in Int, NEW S, S \subseteq lo .. hi, S # {}
    PROVE  \E x \in S : \A y \in S : x <= y
<1>. DEFINE U == lo .. hi
            T == {lo .. x : x \in S}
<1>1. IsFiniteSet(U)
  BY FS_Interval
<1>2. IsWellFoundedOn(StrictSubsetOrdering(U), SUBSET U)
  BY <1>1, FS_FiniteSubsetsOfFinite, FS_StrictSubsetOrderingWellFounded, Zenon
<1>3. T \subseteq SUBSET U /\ T # {}
  <2>1. PICK z \in S : TRUE
    OBVIOUS
  <2>2. lo .. z \in T
    BY <2>1
  <2>3. \A x \in S : lo .. x \subseteq U
    OBVIOUS
  <2>. QED BY <2>2, <2>3
<1>. HIDE DEF T
<1>4. \E m \in T : \A n \in T : <<n, m>> \notin StrictSubsetOrdering(U)
  BY <1>2, <1>3, WFMin, Zenon
<1>5. PICK m \in T : \A n \in T : <<n, m>> \notin StrictSubsetOrdering(U)
  BY <1>4
<1>6. PICK x \in S : m = lo .. x
  BY <1>5 DEF T
<1>7. ASSUME NEW y \in S, ~(x <= y) PROVE FALSE
  <2>1. lo .. y \in T /\ lo .. y \subseteq m /\ lo .. y # m /\ m \subseteq U
    <3>1. x \in lo .. x /\ x \notin lo .. y /\ x \in Int /\ y \in Int
      BY <1>7
    <3>2. lo .. y \subseteq lo .. x
      BY <1>7
    <3>. QED BY <3>1, <3>2, <1>6, <1>3 DEF T
  <2>2. <<lo .. y, m>> \in StrictSubsetOrdering(U)
    <3>. DEFINE A == lo .. y
    <3>1. A \in SUBSET U /\ m \in SUBSET U /\ A \subseteq m /\ A # m
      BY <2>1
    <3>. HIDE DEF A, U
    <3>2. <<A, m>> \in StrictSubsetOrdering(U)
      BY <3>1 DEF StrictSubsetOrdering
    <3>. QED BY <3>2 DEF A
  <2>. QED BY <1>5, <2>1, <2>2
<1>. QED
  <2>1. \A y \in S : x <= y
    BY <1>7
  <2>. QED BY <2>1

\* Division leaves a remainder.
LEMMA Remainder ==
    ASSUME NEW x \in Int, NEW y \in Nat \ {0}
    PROVE  x % y \in 0 .. y - 1 /\ x \div y \in Int /\ x = y * (x \div y) + (x % y)
<1>1. x % y \in 0 .. y - 1
  OBVIOUS
<1>2. x \div y \in Int
  OBVIOUS
<1>3. x = y * (x \div y) + (x % y)
  OBVIOUS
<1>. QED BY <1>1, <1>2, <1>3

\* Division by y leaves what is added to a multiple of y, if it is less.
LEMMA RemainderIs ==
    ASSUME NEW y \in Nat \ {0}, NEW r \in 0 .. y - 1, NEW k \in Int
    PROVE  (r + y * k) % y = r
OBVIOUS

\* Multiplication keeps the order.
LEMMA Times ==
    ASSUME NEW a \in Int, NEW b \in Int, NEW d \in Nat, a <= b
    PROVE  a * d <= b * d
<1>. DEFINE n == b - a
<1>0. n \in Nat
  OBVIOUS
<1>. HIDE DEF n
<1>1. n * d \in Nat
  BY <1>0
<1>2. n * d = b * d - a * d
  BY DEF n
<1>. QED BY <1>1, <1>2

\* Every week has each of its days.
LEMMA WeekHasTheDay ==
    ASSUME NEW today \in Int, NEW weekday \in 0 .. WeekDays - 1
    PROVE  \E day \in today + 1 .. today + WeekDays : day % WeekDays = weekday
<1>. USE WindowAssumption DEF WindowAssumption
<1>. DEFINE next == today + 1
            k == (weekday - next) \div WeekDays
            r == (weekday - next) % WeekDays
<1>1. r \in 0 .. WeekDays - 1 /\ k \in Int /\ weekday - next = WeekDays * k + r
  BY Remainder
<1>. HIDE DEF k, r
<1>2. next + r \in today + 1 .. today + WeekDays
  BY <1>1
<1>3. next + r = weekday + WeekDays * (-k)
  BY <1>1
<1>4. \A j \in Int : (weekday + WeekDays * j) % WeekDays = weekday
  OBVIOUS
<1>5. (next + r) % WeekDays = weekday
  BY SMTT(30), <1>1, <1>3, <1>4
<1>. QED BY <1>2, <1>5

-----------------------------------------------------------------------------
(* The calendar: windows and slots.                                        *)

\* The length of a window is positive, whichever hour comes first.
LEMMA LengthIsPositive ==
    ASSUME NEW w \in Windows
    PROVE  LengthHours(w) \in Nat \ {0}
<1>. USE WindowAssumption DEF WindowAssumption, Windows
<1>. DEFINE d == w.end - w.start
<1>0. d \in Int
  OBVIOUS
<1>. HIDE DEF d
<1>1. /\ d % DayHours \in 0 .. DayHours - 1 /\ d \div DayHours \in Int
      /\ d = DayHours * (d \div DayHours) + (d % DayHours)
  BY <1>0, Remainder
<1>3. -DayHours < d /\ d < DayHours
  BY DEF d
<1>2. d % DayHours = 0 => d = 0
  <2>. SUFFICES ASSUME d % DayHours = 0, d # 0 PROVE FALSE
    OBVIOUS
  <2>. DEFINE k == d \div DayHours
  <2>1. k \in Int /\ d = k * DayHours
    BY <1>1
  <2>. HIDE DEF k
  <2>2. CASE k >= 1
    BY <1>3, <2>1, <2>2, Times
  <2>3. CASE k <= -1
    <3>1. k * DayHours <= (-1) * DayHours
      BY <2>1, <2>3, Times
    <3>. QED BY <1>3, <2>1, <3>1
  <2>4. k # 0
    BY <2>1
  <2>. QED BY <2>1, <2>2, <2>3, <2>4
<1>4. d = 0 => w.start = w.end
  BY DEF d
<1>5. LengthHours(w) = IF w.start = w.end THEN 1 ELSE d % DayHours
  BY DEF LengthHours, d
<1>. QED BY <1>1, <1>2, <1>4, <1>5

\* A wall clock that is past what it shows at an instant shows a later one,
\* also when the clocks change in between.
LEMMA LaterWallIsLater ==
    ASSUME NEW loc \in {"utc", "spring", "autumn"}, NEW t \in Int, NEW day \in Int, NEW hour \in Nat,
           day * DayHours + hour > LocalTime(loc, t)
    PROVE  TimeDate(loc, day, hour) > t
<1>. USE WindowAssumption DEF WindowAssumption
<1>. DEFINE wall == day * DayHours + hour
<1>0. wall \in Int /\ wall > t + ZoneAt(loc, t)
  BY DEF LocalTime
<1>1. TimeDate(loc, day, hour) =
        IF ZoneAt(loc, wall - ZoneAt(loc, wall)) = ZoneAt(loc, wall)
        THEN wall - ZoneAt(loc, wall) ELSE wall - ZoneAt(loc, wall - ZoneAt(loc, wall))
  BY DEF TimeDate
<1>. HIDE DEF wall
<1>2. CASE loc = "utc"
  BY <1>0, <1>1, <1>2 DEF ZoneAt
<1>3. CASE loc = "spring"
  <2>1. \A x \in Int : ZoneAt(loc, x) = IF x < ChangeAt THEN 1 ELSE 2
    BY <1>3 DEF ZoneAt
  <2>2. CASE wall < ChangeAt
    BY <1>0, <1>1, <2>1, <2>2
  <2>3. CASE wall - 2 < ChangeAt /\ ~(wall < ChangeAt)
    BY <1>0, <1>1, <2>1, <2>3
  <2>4. CASE ~(wall - 2 < ChangeAt) /\ ~(wall < ChangeAt)
    BY <1>0, <1>1, <2>1, <2>4
  <2>. QED BY <1>0, <2>2, <2>3, <2>4
<1>4. CASE loc = "autumn"
  BY <1>0, <1>1, <1>4 DEF ZoneAt
<1>. QED BY <1>2, <1>3, <1>4

\* The slot of any night is an instant; from the next date on it is a later one.
LEMMA SlotsOfLaterDates ==
    ASSUME NEW source \in IdHashes, NEW w \in Windows, NEW t \in Int, NEW day \in Int
    PROVE  /\ SlotOf(source, w, day) \in Int
           /\ DateOf(w.loc, t) \in Int
           /\ day > DateOf(w.loc, t) => SlotOf(source, w, day) > t
<1>. USE WindowAssumption DEF WindowAssumption, Windows, IdHashes
<1>1. ZoneAt(w.loc, t) \in Int /\ LocalTime(w.loc, t) \in Int
  BY DEF ZoneAt, LocalTime
<1>2. \A x \in Int : ZoneAt(w.loc, x) \in Int
  BY DEF ZoneAt
<1>3. w.start \in Nat /\ day * DayHours + w.start \in Int
  OBVIOUS
<1>4. TimeDate(w.loc, day, w.start) \in Int
  BY <1>2, <1>3 DEF TimeDate
<1>5. source.hash % LengthHours(w) \in Nat
  BY LengthIsPositive
<1>6. DateOf(w.loc, t) \in Int
  BY <1>1, Remainder DEF DateOf
<1>7. ASSUME day > DateOf(w.loc, t) PROVE TimeDate(w.loc, day, w.start) > t
  <2>. DEFINE today == LocalTime(w.loc, t) \div DayHours
  <2>1. /\ today \in Int /\ day >= today + 1
        /\ LocalTime(w.loc, t) < DayHours * today + DayHours
    <3>. DEFINE local == LocalTime(w.loc, t)
    <3>1. local = DayHours * (local \div DayHours) + (local % DayHours)
      BY <1>1, Remainder
    <3>2. local % DayHours < DayHours /\ local % DayHours \in Int
      BY <1>1, Remainder
    <3>3. today \in Int /\ day >= today + 1
      BY <1>6, <1>7 DEF DateOf
    <3>. QED BY <1>1, <3>1, <3>2, <3>3
  <2>. HIDE DEF today
  <2>2. (today + 1) * DayHours <= day * DayHours
    BY <2>1, Times
  <2>3. (today + 1) * DayHours = DayHours * today + DayHours
    BY <2>1
  <2>4. day * DayHours + w.start > LocalTime(w.loc, t)
    BY <1>1, <1>3, <2>1, <2>2, <2>3
  <2>. QED BY <1>3, <2>4, LaterWallIsLater
<1>. QED BY <1>4, <1>5, <1>6, <1>7 DEF SlotOf

\* The windows are no longer than a day.
LEMMA LengthIsADay ==
    ASSUME NEW w \in Windows
    PROVE  /\ LengthHours(w) \in 1 .. DayHours
           /\ w.start < w.end => LengthHours(w) = w.end - w.start
           /\ w.end < w.start => LengthHours(w) = w.end + DayHours - w.start
<1>. USE WindowAssumption DEF WindowAssumption, Windows
<1>1. CASE w.start = w.end
  BY <1>1 DEF LengthHours
<1>2. CASE w.start < w.end
  <2>1. w.end - w.start \in 0 .. DayHours - 1 /\ w.end - w.start > 0
    BY <1>2
  <2>2. (w.end - w.start) % DayHours = w.end - w.start
    BY <2>1, RemainderIs, 0 \in Int
  <2>. QED BY <1>2, <2>1, <2>2 DEF LengthHours
<1>3. CASE w.end < w.start
  <2>. DEFINE r == w.end + DayHours - w.start
  <2>1. r \in 0 .. DayHours - 1 /\ r > 0 /\ w.end - w.start = r + DayHours * (-1)
    BY <1>3
  <2>. HIDE DEF r
  <2>2. (w.end - w.start) % DayHours = r
    BY <2>1, RemainderIs
  <2>. QED BY <1>3, <2>1, <2>2 DEF LengthHours, r
<1>. QED BY <1>1, <1>2, <1>3

\* A source comes within its window, and within a day.
LEMMA LateInWindow ==
    ASSUME NEW source \in IdHashes, NEW w \in Windows
    PROVE  /\ LengthHours(w) \in Nat /\ LengthHours(w) <= DayHours
           /\ source.hash % LengthHours(w) \in 0 .. LengthHours(w) - 1
<1>. DEFINE len == LengthHours(w)
            hash == source.hash
<1>1. len \in Nat \ {0} /\ len <= DayHours /\ hash \in Int
  BY LengthIsADay, WindowAssumption DEF IdHashes, WindowAssumption
<1>. HIDE DEF len, hash
<1>2. hash % len \in 0 .. len - 1
  BY <1>1, Remainder
<1>. QED BY <1>1, <1>2 DEF len, hash

\* time.Date never puts a later wall clock before an earlier one, and is behind it
\* by what the zone is ahead, at least.
LEMMA DatesKeepTheirOrder ==
    ASSUME NEW loc \in {"utc", "spring", "autumn"}, NEW day \in Int, NEW later \in Int,
           NEW hour \in Nat, day <= later
    PROVE  /\ TimeDate(loc, day, hour) <= TimeDate(loc, later, hour)
           /\ TimeDate(loc, day, hour) <= day * DayHours + hour
           /\ loc # "utc" => TimeDate(loc, day, hour) < day * DayHours + hour
<1>. USE WindowAssumption DEF WindowAssumption
<1>. DEFINE wall == day * DayHours + hour
            next == later * DayHours + hour
            Date(x) == IF ZoneAt(loc, x - ZoneAt(loc, x)) = ZoneAt(loc, x)
                       THEN x - ZoneAt(loc, x) ELSE x - ZoneAt(loc, x - ZoneAt(loc, x))
<1>1. TimeDate(loc, day, hour) = Date(wall) /\ TimeDate(loc, later, hour) = Date(next)
  BY DEF TimeDate
<1>2. wall \in Int /\ next \in Int
  OBVIOUS
<1>3. day * DayHours <= later * DayHours
  BY Times
<1>4. wall <= next
  BY <1>3
<1>. HIDE DEF wall, next
<1>5. CASE loc = "utc"
  BY <1>1, <1>2, <1>4, <1>5 DEF ZoneAt, wall
<1>6. CASE loc = "spring"
  <2>0. \A x \in Int : ZoneAt(loc, x) = IF x < ChangeAt THEN 1 ELSE 2
    BY <1>6 DEF ZoneAt
  <2>1. \A x \in Int : Date(x) = IF x < ChangeAt + 2 THEN x - 1 ELSE x - 2
    BY <2>0
  <2>. QED BY <1>1, <1>2, <1>4, <1>6, <2>1 DEF wall
<1>7. CASE loc = "autumn"
  <2>0. \A x \in Int : ZoneAt(loc, x) = IF x < ChangeAt THEN 2 ELSE 1
    BY <1>7 DEF ZoneAt
  <2>1. \A x \in Int : Date(x) = IF x < ChangeAt + 1 THEN x - 2 ELSE x - 1
    BY <2>0
  <2>. QED BY <1>1, <1>2, <1>4, <1>7, <2>1 DEF wall
<1>. QED BY <1>5, <1>6, <1>7

\* The slots of two nights are in the order of the nights.
LEMMA SlotsKeepTheirOrder ==
    ASSUME NEW source \in IdHashes, NEW w \in Windows, NEW day \in Int, NEW later \in Int,
           day <= later
    PROVE  SlotOf(source, w, day) <= SlotOf(source, w, later)
<1>1. /\ w.loc \in {"utc", "spring", "autumn"} /\ w.start \in Nat
      /\ source.hash % LengthHours(w) \in Int
  BY WindowAssumption, LengthIsPositive DEF WindowAssumption, Windows, IdHashes
<1>2. TimeDate(w.loc, day, w.start) <= TimeDate(w.loc, later, w.start)
  BY <1>1, DatesKeepTheirOrder
<1>3. TimeDate(w.loc, day, w.start) \in Int /\ TimeDate(w.loc, later, w.start) \in Int
  <2>1. day * DayHours + w.start \in Int /\ later * DayHours + w.start \in Int
    BY <1>1, WindowAssumption DEF WindowAssumption
  <2>2. \A x \in Int : ZoneAt(w.loc, x) \in Int
    BY <1>1 DEF ZoneAt
  <2>. QED BY <2>1, <2>2 DEF TimeDate
<1>. QED BY <1>1, <1>2, <1>3 DEF SlotOf

\* The night before last is over: a window that begins on one date ends before
\* the end of the next.
LEMMA EarlierSlotsArePast ==
    ASSUME NEW source \in IdHashes, NEW w \in Windows, NEW t \in Int, NEW day \in Int,
           day < DateOf(w.loc, t) - 1
    PROVE  SlotOf(source, w, day) <= t
<1>. USE WindowAssumption DEF WindowAssumption
<1>. DEFINE local == LocalTime(w.loc, t)
            today == local \div DayHours
            late == source.hash % LengthHours(w)
            date == TimeDate(w.loc, day, w.start)
<1>0. w.loc \in {"utc", "spring", "autumn"} /\ w.start \in 0 .. DayHours - 1
  BY DEF Windows
<1>1. local \in Int /\ local = t + ZoneAt(w.loc, t) /\ today = DateOf(w.loc, t)
  BY <1>0 DEF LocalTime, ZoneAt, DateOf
<1>. HIDE DEF local
<1>2. today \in Int /\ DayHours * today <= local
  <2>1. /\ local % DayHours \in 0 .. DayHours - 1 /\ today \in Int
        /\ local = DayHours * today + (local % DayHours)
    BY <1>1, Remainder
  <2>. HIDE DEF today
  <2>. QED BY <1>1, <2>1
<1>3. day + 2 <= today
  BY <1>1, <1>2
<1>. HIDE DEF today
<1>4. (day + 2) * DayHours <= today * DayHours
  BY <1>2, <1>3, Times
<1>5. day * DayHours + 2 * DayHours <= local
  BY <1>1, <1>2, <1>4
<1>7. late \in 0 .. DayHours - 1
  BY LateInWindow
<1>8. date \in Int /\ date <= day * DayHours + w.start
                  /\ (w.loc # "utc" => date < day * DayHours + w.start)
  <2>1. \A x \in Int : ZoneAt(w.loc, x) \in Int
    BY <1>0 DEF ZoneAt
  <2>2. date \in Int
    BY <1>0, <2>1 DEF TimeDate
  <2>3. day <= day /\ w.start \in Nat
    BY <1>0
  <2>. QED BY <1>0, <2>2, <2>3, DatesKeepTheirOrder
<1>. HIDE DEF date, late
<1>9. ZoneAt(w.loc, t) \in 0 .. 2 /\ (w.loc = "utc" => ZoneAt(w.loc, t) = 0)
  BY <1>0 DEF ZoneAt
<1>10. date + late <= t
  BY <1>1, <1>5, <1>0, <1>7, <1>8, <1>9
<1>. QED BY <1>10 DEF SlotOf, date, late

\* Where the clocks do not change a slot is in its window.
LEMMA SlotsAreInWindow ==
    ASSUME NEW source \in IdHashes, NEW w \in Windows, w.loc = "utc", NEW day \in Int
    PROVE  InWindow(SlotOf(source, w, day), w)
<1>. USE WindowAssumption DEF WindowAssumption
<1>. DEFINE late == source.hash % LengthHours(w)
<1>1. w.start \in 0 .. DayHours - 1 /\ w.end \in 0 .. DayHours - 1
  BY DEF Windows
<1>2. late \in 0 .. LengthHours(w) - 1 /\ LengthHours(w) \in 1 .. DayHours
  BY LateInWindow
<1>. HIDE DEF late
<1>3. SlotOf(source, w, day) = w.start + late + DayHours * day
  BY <1>1, <1>2 DEF SlotOf, TimeDate, ZoneAt, late
<1>4. HourOf(w.loc, SlotOf(source, w, day)) = (w.start + late) % DayHours
  <2>. DEFINE x == w.start + late
              k == x \div DayHours
              r == x % DayHours
  <2>1. x \in Int
    BY <1>1, <1>2
  <2>2. r \in 0 .. DayHours - 1 /\ k \in Int /\ x = DayHours * k + r
    BY <2>1, Remainder
  <2>3. HourOf(w.loc, SlotOf(source, w, day)) = (x + DayHours * day) % DayHours
    BY <1>1, <1>2, <1>3 DEF HourOf, LocalTime, ZoneAt
  <2>. HIDE DEF x, k, r
  <2>4. x + DayHours * day = r + DayHours * (k + day)
    BY <2>1, <2>2
  <2>5. (x + DayHours * day) % DayHours = r
    BY <2>2, <2>4, RemainderIs
  <2>. QED BY <2>3, <2>5 DEF r, x
<1>5. w.start = w.end => late = 0
  BY <1>1, <1>2 DEF LengthHours
<1>6. ASSUME NEW passed \in 1 .. late PROVE (w.start + passed) % DayHours # w.end
  <2>1. w.start # w.end /\ passed < LengthHours(w)
    BY <1>1, <1>2, <1>5
  <2>2. CASE w.start < w.end
    <3>1. w.start + passed \in 0 .. DayHours - 1 /\ w.start + passed < w.end
      BY <1>1, <1>2, <2>1, <2>2, LengthIsADay
    <3>2. (w.start + passed) % DayHours = w.start + passed
      BY <3>1, RemainderIs, 0 \in Int
    <3>. QED BY <1>1, <3>1, <3>2
  <2>3. CASE w.end < w.start /\ w.start + passed < DayHours
    <3>1. w.start + passed \in 0 .. DayHours - 1 /\ w.start + passed > w.end
      BY <1>1, <1>2, <2>3
    <3>2. (w.start + passed) % DayHours = w.start + passed
      BY <3>1, RemainderIs, 0 \in Int
    <3>. QED BY <1>1, <3>1, <3>2
  <2>4. CASE w.end < w.start /\ ~(w.start + passed < DayHours)
    <3>. DEFINE r == w.start + passed - DayHours
    <3>1. LengthHours(w) = w.end + DayHours - w.start
      BY <2>4, LengthIsADay
    <3>2. r \in 0 .. DayHours - 1 /\ r < w.end /\ w.start + passed = r + DayHours * 1
      BY <1>1, <1>2, <2>1, <2>4, <3>1
    <3>. HIDE DEF r
    <3>3. (w.start + passed) % DayHours = r
      BY <3>2, RemainderIs
    <3>. QED BY <1>1, <3>2, <3>3
  <2>. QED BY <1>1, <2>1, <2>2, <2>3, <2>4
<1>. QED BY <1>2, <1>4, <1>5, <1>6 DEF InWindow

\* The next slot is that of the first night, from yesterday's on, whose slot is
\* still to come.
LEMMA NextSlotIsThatOf ==
    ASSUME NEW source \in IdHashes, NEW schedule \in {"daily", "weekly"}, NEW after \in Int,
           NEW w \in Windows
    PROVE  LET today == DateOf(w.loc, after)
               later == {day \in today - 1 .. today + WeekDays :
                            OnSchedule(source, schedule, day) /\ SlotOf(source, w, day) > after}
           IN  \E night \in later :
                 /\ \A other \in later : night <= other
                 /\ NextSlot(source, schedule, after, w) = SlotOf(source, w, night)
<1>. USE WindowAssumption DEF WindowAssumption
<1>. DEFINE today == DateOf(w.loc, after)
            later == {day \in today - 1 .. today + WeekDays :
                        OnSchedule(source, schedule, day) /\ SlotOf(source, w, day) > after}
<1>1. today \in Int /\ \A day \in Int : SlotOf(source, w, day) \in Int
                                     /\ (day > today => SlotOf(source, w, day) > after)
  BY SlotsOfLaterDates
<1>2. \E day \in today + 1 .. today + WeekDays : OnSchedule(source, schedule, day)
  <2>1. CASE schedule = "daily"
    BY <1>1, <2>1 DEF OnSchedule
  <2>2. CASE schedule = "weekly"
    BY <1>1, <2>2, WeekHasTheDay DEF OnSchedule, IdHashes
  <2>. QED BY <2>1, <2>2
<1>3. NextSlot(source, schedule, after, w) =
        IF schedule \notin {"daily", "weekly"} \/ later = {} THEN NoSlot
        ELSE SlotOf(source, w, CHOOSE day \in later : \A other \in later : day <= other)
  BY DEF NextSlot
<1>4. later # {} /\ later \subseteq today - 1 .. today + WeekDays
  BY <1>1, <1>2
<1>5. \A day \in later : day \in Int /\ SlotOf(source, w, day) > after
  BY <1>1
<1>. HIDE DEF today, later
<1>6. \E day \in later : \A other \in later : day <= other
  <2>1. today - 1 \in Int /\ today + WeekDays \in Int
    BY <1>1
  <2>. QED BY <1>4, <2>1, IntervalMin
<1>7. PICK night \in later : night = CHOOSE day \in later : \A other \in later : day <= other
  BY <1>6
<1>8. (CHOOSE day \in later : \A other \in later : day <= other) \in later
      /\ \A other \in later : (CHOOSE day \in later : \A o \in later : day <= o) <= other
  BY <1>6
<1>9. NextSlot(source, schedule, after, w) = SlotOf(source, w, night)
  BY <1>3, <1>4, <1>7
<1>. QED BY <1>7, <1>8, <1>9 DEF today, later

\* Whatever the window and the date, the next slot is the first that is still to
\* come: there always is one, none is passed over, and asking again before it has
\* come gives the same; where the clocks do not change it lies in the night window
\* (NextSlotIsRight, of every calendar and instant).
THEOREM NextSlotIsFirst ==
    ASSUME NEW source \in IdHashes, NEW schedule \in {"daily", "weekly"}, NEW after \in Int,
           NEW w \in Windows
    PROVE  LET slot == NextSlot(source, schedule, after, w)
               nights == {day \in Int : OnSchedule(source, schedule, day)}
           IN  /\ IsFirst(slot, {SlotOf(source, w, day) : day \in nights}, after)
               /\ w.loc = "utc" => InWindow(slot, w)
<1>. USE WindowAssumption DEF WindowAssumption
<1>. DEFINE slot == NextSlot(source, schedule, after, w)
            nights == {day \in Int : OnSchedule(source, schedule, day)}
            today == DateOf(w.loc, after)
            later == {day \in today - 1 .. today + WeekDays :
                        OnSchedule(source, schedule, day) /\ SlotOf(source, w, day) > after}
<1>1. PICK night \in later : slot = SlotOf(source, w, night) /\ \A other \in later : night <= other
  BY NextSlotIsThatOf
<1>2. today \in Int /\ WeekDays \in Nat
  BY SlotsOfLaterDates
<1>. HIDE DEF slot, today
<1>3. night \in Int /\ night <= today + WeekDays /\ night \in nights /\ slot > after
  BY <1>1, <1>2
<1>4. \A day \in Int : SlotOf(source, w, day) \in Int
  BY SlotsOfLaterDates
<1>5. ASSUME NEW day \in nights, SlotOf(source, w, day) > after
      PROVE  slot <= SlotOf(source, w, day)
  <2>1. night <= day
    <3>1. CASE day < today - 1
      BY <1>4, <1>5, <3>1, EarlierSlotsArePast DEF today
    <3>2. CASE day \in today - 1 .. today + WeekDays
      BY <1>1, <1>5, <3>2
    <3>3. CASE day > today + WeekDays
      BY <1>2, <1>3, <3>3
    <3>. QED BY <1>2, <3>1, <3>2, <3>3
  <2>. QED BY <1>1, <1>3, <2>1, SlotsKeepTheirOrder
<1>6. IsFirst(slot, {SlotOf(source, w, day) : day \in nights}, after)
  BY <1>1, <1>3, <1>5 DEF IsFirst
<1>7. w.loc = "utc" => InWindow(slot, w)
  BY <1>1, <1>3, SlotsAreInWindow
<1>. QED BY <1>6, <1>7 DEF slot

\* In particular it is in the future: a sweep that stamps it does not meet it again.
COROLLARY NextSlotIsLater ==
    ASSUME NEW source \in IdHashes, NEW schedule \in {"daily", "weekly"}, NEW after \in Int,
           NEW w \in Windows
    PROVE  /\ NextSlot(source, schedule, after, w) \in Int
           /\ NextSlot(source, schedule, after, w) > after
<1>1. PICK day \in Int : NextSlot(source, schedule, after, w) = SlotOf(source, w, day)
  BY NextSlotIsFirst DEF IsFirst
<1>. QED BY <1>1, NextSlotIsFirst, SlotsOfLaterDates DEF IsFirst

-----------------------------------------------------------------------------
(* The election.                                                           *)

ElectionTypes ==
    /\ lock \in Replicas \cup {NoOne} /\ lapses \in Nat
    /\ leads \in [Replicas -> BOOLEAN] /\ cancelled \in [Replicas -> BOOLEAN]
    /\ tick = [r \in Replicas |-> tick[r]]

\* Who is in a tick leads, or believes so.
Ticking ==
    \A r \in Replicas :
        /\ cancelled[r] => leads[r]
        /\ tick[r] # Idle => leads[r]

\* Who leads holds the lock, unless it has lapsed.
Held == \A r \in Replicas : leads[r] => lock = r

ElectionInv == ElectionTypes /\ Ticking /\ Held

\* What a replica does in its tick concerns its tick alone.
LEMMA SweepIsLocal ==
    ASSUME ElectionTypes, Ticking, NEW r \in Replicas, Sweep(r)
    PROVE  /\ UNCHANGED election
           /\ leads[r]
           /\ tick' = [q \in Replicas |-> tick'[q]]
           /\ \A q \in Replicas \ {r} : tick'[q] = tick[q]
<1>. USE DEF ElectionTypes, Ticking, Idle
<1>1. CASE BeginTick(r)
  BY <1>1 DEF BeginTick
<1>2. CASE StampNew(r)
  BY SMTT(30), <1>2 DEF StampNew
<1>3. CASE SelectDue(r)
  BY <1>3 DEF SelectDue
<1>4. CASE StampDue(r)
  BY <1>4 DEF StampDue
<1>5. CASE Enqueue(r)
  BY <1>5 DEF Enqueue
<1>6. CASE EndTick(r)
  <2>1. tick[r] # Idle
    BY <1>6 DEF EndTick
  <2>2. tick' = [tick EXCEPT ![r] = [phase |-> "idle", at |-> 0, todo |-> {}, pending |-> NoOne]]
    BY <1>6 DEF EndTick
  <2>. QED BY <1>6, <2>1, <2>2 DEF EndTick
<1>. QED BY <1>1, <1>2, <1>3, <1>4, <1>5, <1>6 DEF Sweep

LEMMA TickingStep ==
    ASSUME ElectionTypes, Ticking, [Next]_vars
    PROVE  ElectionTypes' /\ Ticking'
<1>. USE SchedulerAssumption DEF SchedulerAssumption, ElectionTypes, Ticking
<1>1. ASSUME NEW r \in Replicas, Acquire(r) PROVE ElectionTypes' /\ Ticking'
  BY <1>1 DEF Acquire
<1>2. ASSUME NEW r \in Replicas, StepDown(r) PROVE ElectionTypes' /\ Ticking'
  BY <1>2 DEF StepDown
<1>3. ASSUME NEW r \in Replicas, Release(r) PROVE ElectionTypes' /\ Ticking'
  BY <1>3 DEF Release
<1>4. ASSUME NEW r \in Replicas, Crash(r) PROVE ElectionTypes' /\ Ticking'
  BY <1>4 DEF Crash
<1>5. ASSUME NEW r \in Replicas, Sweep(r) PROVE ElectionTypes' /\ Ticking'
  BY <1>5, SweepIsLocal DEF election
<1>6. CASE Expire \/ Lapse
  BY <1>6 DEF Expire, Lapse
<1>7. ASSUME NEW s \in SourceIds,
             \/ \E schedule \in Schedules : SetSchedule(s, schedule)
             \/ Pause(s) \/ Resume(s) \/ StartSync(s)
             \/ MarkSyncing(s) \/ EndSync(s) \/ FilesDone(s)
      PROVE  ElectionTypes' /\ Ticking'
  BY <1>7 DEF SetSchedule, Pause, Resume, StartSync, MarkSyncing, EndSync, FilesDone, election
<1>8. CASE Hour \/ UNCHANGED vars
  BY <1>8 DEF Hour, vars, election
<1>. QED BY <1>1, <1>2, <1>3, <1>4, <1>5, <1>6, <1>7, <1>8 DEF Next

LEMMA ElectionStep ==
    ASSUME lapses' = 0, ElectionInv, [Next]_vars
    PROVE  ElectionInv'
<1>. USE SchedulerAssumption DEF SchedulerAssumption, ElectionInv, ElectionTypes, Ticking, Held
<1>1. ASSUME NEW r \in Replicas, Acquire(r) \/ StepDown(r) \/ Crash(r) PROVE Held'
  BY <1>1 DEF Acquire, StepDown, Crash
<1>2. ASSUME NEW r \in Replicas, Release(r) PROVE Held'
  BY <1>2 DEF Release
<1>3. ASSUME UNCHANGED election PROVE Held'
  BY <1>3 DEF election
<1>4. ASSUME Expire \/ Lapse PROVE Held'
  BY <1>4 DEF Expire, Lapse
<1>5. (\E r \in Replicas : Acquire(r) \/ StepDown(r) \/ Crash(r) \/ Release(r))
      \/ Expire \/ Lapse \/ UNCHANGED election
  BY SweepIsLocal DEF Next, SetSchedule, Pause, Resume, StartSync, MarkSyncing, EndSync, FilesDone,
     Hour, vars
<1>6. Held'
  BY <1>1, <1>2, <1>3, <1>4, <1>5
<1>. QED BY <1>6, TickingStep

\* No step takes a lapse back.
LEMMA LapsesStay == ASSUME ElectionTypes, Ticking, [Next]_vars PROVE lapses' = 0 => lapses = 0
<1>1. lapses' \in {lapses, lapses + 1} /\ lapses \in Nat
  BY SweepIsLocal
     DEF ElectionTypes, Next, Acquire, StepDown, Release, Crash, Expire, Lapse, SetSchedule, Pause,
         Resume, StartSync, MarkSyncing, EndSync, FilesDone, Hour, vars, election
<1>. QED BY <1>1

LEMMA ElectionInit == Init => ElectionInv
BY SchedulerAssumption DEF SchedulerAssumption, Init, ElectionInv, ElectionTypes, Ticking, Held

\* As long as no lock has lapsed it is held by whoever enqueues: it is given back
\* only once the sweeper has returned, and a replica that dies enqueues no more
\* (EnqueuedUnderTheLock).
THEOREM LeadersEnqueue == Spec => EnqueuedUnderTheLock
<1>. DEFINE Inv == ElectionTypes /\ Ticking /\ (lapses = 0 => Held)
<1>1. Init => Inv
  BY ElectionInit DEF ElectionInv
<1>2. Inv /\ [Next]_vars => Inv'
  BY ElectionStep, TickingStep, LapsesStay DEF ElectionInv
<1>3. ASSUME Inv, [Next]_vars, lapses = 0 PROVE \A task \in synced' \ synced : lock = task.by
  <2>1. ASSUME NEW r \in Replicas, Sweep(r) PROVE \A task \in synced' \ synced : task.by = r
    <3>1. CASE Enqueue(r)
      <4>. DEFINE count == Cardinality({task \in synced : IsOf(task, tick[r].pending)}) + 1
      <4>1. \/ UNCHANGED synced
            \/ synced' = synced \cup {[id |-> tick[r].pending.id, slot |-> tick[r].pending.slot,
                                       by |-> r, n |-> count]}
        BY <3>1 DEF Enqueue
      <4>. HIDE DEF count
      <4>. QED BY <4>1
    <3>2. CASE UNCHANGED synced
      BY <3>2
    <3>. QED BY <2>1, <3>1, <3>2 DEF Sweep, BeginTick, StampNew, SelectDue, StampDue, EndTick
  <2>2. ASSUME NEW r \in Replicas, Sweep(r) PROVE lock = r
    <3>1. leads[r]
      BY <1>3, <2>2, SweepIsLocal
    <3>. QED BY <1>3, <3>1 DEF Held
  <2>3. (\E r \in Replicas : Sweep(r)) \/ UNCHANGED synced
    BY <1>3 DEF Next, Acquire, StepDown, Release, Crash, Expire, Lapse, SetSchedule, Pause, Resume,
       StartSync, MarkSyncing, EndSync, FilesDone, Hour, vars
  <2>. QED BY <2>1, <2>2, <2>3
<1>. HIDE DEF Inv
<1>. QED BY <1>1, <1>2, <1>3, PTL DEF Spec, EnqueuedUnderTheLock

-----------------------------------------------------------------------------
(* The slots.                                                              *)

Rows == [schedule : Schedules, status : {"active", "error", "paused", "syncing"}, next : Int]
Ticks == [phase : {"idle", "unscheduled", "due"}, at : Nat,
          todo : SUBSET Items, pending : Items \cup {NoOne}]
Tasks == [id : SourceIds, slot : Int, by : Replicas, n : {1}]

Types ==
    /\ now \in Nat
    /\ row \in [SourceIds -> Rows]
    /\ tick \in [Replicas -> Ticks]
    /\ synced \subseteq Tasks

\* What is enqueued was due, and its source has moved on to a later slot.
ServedArePast ==
    \A task \in synced :
        /\ task.slot <= now
        /\ row[task.id].next # Unstamped => row[task.id].next > task.slot
        /\ \A r \in Replicas : tick[r] # Idle => task.slot <= tick[r].at

\* What a tick has in hand has a schedule; it is due, one slot of each source, not
\* served yet; and the source of the slot it is about to enqueue has moved on.
Unserved(id, slot) == \A task \in synced : task.id = id => task.slot # slot

HandOf(t) ==
    /\ t.at <= now
    /\ t.phase = "idle" => t = Idle
    /\ \A item \in t.todo : item.schedule \in {"daily", "weekly"}
    /\ t.phase = "due" => \A item \in t.todo :
         /\ item.slot <= t.at
         /\ \A other \in t.todo : other.id = item.id => other = item
         /\ Unserved(item.id, item.slot)
    /\ t.pending # NoOne =>
         /\ t.phase = "due"
         /\ t.pending.slot <= t.at
         /\ \A item \in t.todo : item.id # t.pending.id
         /\ Unserved(t.pending.id, t.pending.slot)
         /\ row[t.pending.id].next # Unstamped => row[t.pending.id].next > t.pending.slot

InHand == \A r \in Replicas : HandOf(tick[r])

IInv == ElectionInv /\ Types /\ ServedArePast /\ InHand /\ OneSyncPerSlot

\* While one replica is in a tick, no other is.
LEMMA OthersAreIdle ==
    ASSUME ElectionInv, NEW r \in Replicas, leads[r]
    PROVE  \A q \in Replicas \ {r} : tick[q] = Idle
BY DEF ElectionInv, Ticking, Held

LEMMA ListTypes ==
    ASSUME row \in [SourceIds -> Rows], NEW t \in Nat
    PROVE  /\ ListUnscheduled \subseteq Items /\ ListDue(t) \subseteq Items
           /\ \A item \in ListUnscheduled \cup ListDue(t) : item.schedule \in {"daily", "weekly"}
           /\ \A item \in ListDue(t) :
                /\ item.slot = row[item.id].next /\ item.slot <= t /\ item.slot # Unstamped
                /\ \A other \in ListDue(t) : other.id = item.id => other = item
<1>1. \A s \in SourceIds : /\ row[s].schedule \in Schedules /\ row[s].next \in Int
                           /\ Scheduled(s) => row[s].schedule \in {"daily", "weekly"}
  BY DEF Rows, Scheduled, Schedules
<1>2. \A s \in SourceIds : /\ ItemOf(s) \in Items /\ ItemOf(s).id = s /\ ItemOf(s).slot = row[s].next
                           /\ ItemOf(s).schedule = row[s].schedule
  BY <1>1 DEF ItemOf, Items
<1>. QED BY <1>1, <1>2 DEF ListUnscheduled, ListDue

\* A source that is stamped in a tick moves past everything served.
LEMMA StampStep ==
    ASSUME row \in [SourceIds -> Rows], NEW item \in Items, item.schedule \in {"daily", "weekly"},
           NEW t \in Nat, Stamp(item, t)
    PROVE  /\ row' \in [SourceIds -> Rows]
           /\ row'[item.id].next > t
           /\ \A s \in SourceIds \ {item.id} : row'[s] = row[s]
<1>1. item.id \in SourceIds
  BY DEF Items
<1>2. /\ NextSlot(HashOf[item.id], item.schedule, t, Window) \in Int
      /\ NextSlot(HashOf[item.id], item.schedule, t, Window) > t
  BY <1>1, NextSlotIsLater, SchedulerAssumption DEF SchedulerAssumption
<1>. QED BY <1>1, <1>2 DEF Stamp, Rows

LEMMA SweepStep ==
    ASSUME IInv, NEW r \in Replicas, Sweep(r)
    PROVE  Types' /\ ServedArePast' /\ InHand' /\ OneSyncPerSlot'
<1>. USE SchedulerAssumption DEF SchedulerAssumption
<1>a. /\ leads[r] /\ (\A q \in Replicas \ {r} : tick'[q] = tick[q] /\ tick[q] = Idle)
      /\ tick' = [q \in Replicas |-> tick'[q]]
  BY SweepIsLocal, OthersAreIdle DEF IInv, ElectionInv
<1>b. tick[r] \in Ticks /\ HandOf(tick[r]) /\ now \in Nat
  BY DEF IInv, Types, InHand
<1>c. Idle \in Ticks /\ Idle.at = 0 /\ Idle.phase = "idle" /\ Idle.todo = {} /\ Idle.pending = NoOne
  BY DEF Idle, Ticks
<1>d. ASSUME tick'[r] \in Ticks, now' = now PROVE tick' \in [Replicas -> Ticks]
  BY <1>a, <1>c, <1>d
<1>e. ASSUME HandOf(tick[r])', now' = now PROVE InHand'
  BY <1>a, <1>b, <1>c, <1>e DEF InHand, HandOf, Idle
<1>1. CASE BeginTick(r)
  <2>1. PICK listed \in {ListUnscheduled, {}} :
           tick'[r] = [phase |-> "unscheduled", at |-> now, todo |-> listed, pending |-> NoOne]
    BY <1>1, <1>a DEF BeginTick, IInv, Types
  <2>2. listed \subseteq Items /\ \A item \in listed : item.schedule \in {"daily", "weekly"}
    BY ListTypes, <1>b DEF IInv, Types
  <2>3. UNCHANGED <<now, row, synced>>
    BY <1>1 DEF BeginTick
  <2>4. tick'[r] \in Ticks /\ HandOf(tick[r])'
    BY <2>1, <2>2, <2>3, <1>b DEF Ticks, HandOf
  <2>5. Types' /\ InHand'
    BY <2>3, <2>4, <1>d, <1>e DEF IInv, Types
  <2>6. ServedArePast' /\ OneSyncPerSlot'
    BY <2>1, <2>3, <1>a DEF IInv, ServedArePast, OneSyncPerSlot
  <2>. QED BY <2>5, <2>6
<1>2. CASE StampNew(r)
  <2>1. PICK item \in tick[r].todo :
           /\ tick' = [tick EXCEPT ![r].todo = @ \ {item}]
           /\ Stamp(item, tick[r].at) \/ UNCHANGED row
    BY <1>2 DEF StampNew
  <2>2. /\ UNCHANGED <<now, synced>> /\ tick[r].phase = "unscheduled" /\ tick[r].pending = NoOne
    BY <1>2, <1>b DEF StampNew, HandOf
  <2>3. /\ tick'[r] \in Ticks /\ tick'[r].at = tick[r].at /\ tick'[r].phase = "unscheduled"
        /\ tick'[r].pending = NoOne /\ tick'[r].todo \subseteq tick[r].todo
    BY <2>1, <2>2, <1>b DEF IInv, Types, Ticks
  <2>4. /\ row' \in [SourceIds -> Rows]
        /\ \A s \in SourceIds : row'[s] = row[s] \/ row'[s].next > tick[r].at
    <3>1. item \in Items /\ item.schedule \in {"daily", "weekly"} /\ tick[r].at \in Nat
      BY <1>b DEF HandOf, Ticks
    <3>. QED BY <2>1, <3>1, StampStep DEF IInv, Types
  <2>5. Types' /\ InHand'
    BY <2>2, <2>3, <2>4, <1>b, <1>d, <1>e DEF IInv, Types, HandOf
  <2>6. ServedArePast'
    <3>1. tick[r] # Idle /\ tick[r].at \in Nat
      BY <2>2, <1>b, <1>c DEF Ticks
    <3>. QED BY <3>1, <2>2, <2>3, <2>4, <1>a DEF IInv, Types, Tasks, Rows, ServedArePast
  <2>. QED BY <2>2, <2>5, <2>6 DEF IInv, OneSyncPerSlot
<1>3. CASE SelectDue(r)
  <2>1. UNCHANGED <<now, row, synced>> /\ tick[r].phase = "unscheduled" /\ tick[r].pending = NoOne /\ tick[r].todo = {}
    BY <1>3, <1>b DEF SelectDue, HandOf
  <2>2. CASE tick'[r] = Idle
    <3>1. HandOf(tick[r])'
      BY <2>1, <2>2, <1>b, <1>c DEF HandOf
    <3>2. Types' /\ InHand'
      BY <3>1, <2>1, <2>2, <1>c, <1>d, <1>e DEF IInv, Types
    <3>. QED BY <3>2, <2>1, <2>2, <1>a DEF IInv, ServedArePast, OneSyncPerSlot
  <2>3. CASE tick' = [tick EXCEPT ![r].phase = "due", ![r].todo = ListDue(tick[r].at)]
    <3>0. tick[r] # Idle /\ tick[r].at \in Nat
      BY <2>1, <1>b, <1>c DEF Ticks
    <3>1. /\ tick'[r].phase = "due" /\ tick'[r].todo = ListDue(tick[r].at) /\ tick'[r].pending = NoOne
          /\ tick'[r].at = tick[r].at /\ tick'[r] \in Ticks
      BY <2>1, <2>3, <3>0, ListTypes, <1>b DEF IInv, Types, Ticks
    <3>2. \A item \in ListDue(tick[r].at) : Unserved(item.id, item.slot)
      <4>1. ASSUME NEW item \in ListDue(tick[r].at), NEW task \in synced, task.id = item.id
            PROVE  task.slot # item.slot
        BY <4>1, <3>0, ListTypes DEF IInv, ServedArePast, Types, Tasks, Rows, Items
      <4>. QED BY <4>1 DEF Unserved
    <3>3. HandOf(tick[r])'
      BY <3>0, <3>1, <3>2, <2>1, ListTypes, <1>b DEF HandOf, Unserved, IInv, Types
    <3>4. Types' /\ InHand'
      BY <3>1, <3>3, <2>1, <1>d, <1>e DEF IInv, Types
    <3>. QED BY <3>0, <3>1, <3>4, <2>1, <1>a DEF IInv, ServedArePast, OneSyncPerSlot
  <2>. QED BY <1>3, <2>2, <2>3 DEF SelectDue, IInv, Types
<1>4. CASE StampDue(r)
  <2>1. PICK item \in tick[r].todo :
           \/ /\ Stamp(item, tick[r].at)
              /\ tick' = [tick EXCEPT ![r].todo = @ \ {item}, ![r].pending = item]
           \/ /\ tick' = [tick EXCEPT ![r].todo = @ \ {item}]
              /\ UNCHANGED row
    BY <1>4 DEF StampDue
  <2>2. /\ UNCHANGED <<now, synced>> /\ tick[r].phase = "due" /\ tick[r].pending = NoOne
        /\ tick[r] # Idle /\ tick[r].at \in Nat
    BY <1>4, <1>b, <1>c DEF StampDue, Ticks
  <2>3. /\ item \in Items /\ item.schedule \in {"daily", "weekly"} /\ item # NoOne /\ item.slot <= tick[r].at
        /\ Unserved(item.id, item.slot) /\ item.id \in SourceIds /\ item.slot \in Int
        /\ \A other \in tick[r].todo \ {item} : other.id # item.id
    BY <2>2, <1>b DEF HandOf, Ticks, Items
  <2>4. CASE /\ Stamp(item, tick[r].at)
             /\ tick' = [tick EXCEPT ![r].todo = @ \ {item}, ![r].pending = item]
    <3>1. /\ tick'[r].phase = "due" /\ tick'[r].todo = tick[r].todo \ {item} /\ tick'[r].pending = item
          /\ tick'[r].at = tick[r].at /\ tick'[r] \in Ticks
      BY <2>2, <2>3, <2>4, <1>b DEF IInv, Types, Ticks
    <3>2. /\ row' \in [SourceIds -> Rows] /\ row'[item.id].next > tick[r].at
          /\ \A s \in SourceIds \ {item.id} : row'[s] = row[s]
      BY <2>2, <2>3, <2>4, StampStep DEF IInv, Types
    <3>3. HandOf(tick[r])'
      BY <3>1, <3>2, <2>2, <2>3, <1>b DEF HandOf, Unserved, Rows
    <3>4. Types' /\ InHand'
      BY <3>1, <3>2, <3>3, <2>2, <1>d, <1>e DEF IInv, Types
    <3>5. ServedArePast'
      <4>1. \A task \in synced : task.slot \in Int /\ task.id \in SourceIds /\ task.slot <= tick[r].at
        BY <2>2 DEF IInv, Types, Tasks, ServedArePast
      <4>2. \A s \in SourceIds : row'[s].next \in Int
        BY <3>2 DEF Rows
      <4>. QED BY <3>1, <3>2, <2>2, <4>1, <4>2, <1>a DEF IInv, ServedArePast
    <3>. QED BY <3>4, <3>5, <2>2 DEF IInv, OneSyncPerSlot
  <2>5. CASE tick' = [tick EXCEPT ![r].todo = @ \ {item}] /\ UNCHANGED row
    <3>1. /\ tick'[r].phase = "due" /\ tick'[r].todo = tick[r].todo \ {item} /\ tick'[r].pending = NoOne
          /\ tick'[r].at = tick[r].at /\ tick'[r] \in Ticks
      BY <2>2, <2>5, <1>b DEF IInv, Types, Ticks
    <3>2. HandOf(tick[r])'
      BY <3>1, <2>2, <2>5, <1>b DEF HandOf, Unserved
    <3>3. Types' /\ InHand'
      BY <3>1, <3>2, <2>2, <2>5, <1>d, <1>e DEF IInv, Types
    <3>4. ServedArePast'
      BY <3>1, <2>2, <2>5, <1>a DEF IInv, ServedArePast
    <3>. QED BY <3>3, <3>4, <2>2 DEF IInv, OneSyncPerSlot
  <2>. QED BY <2>1, <2>4, <2>5
<1>5. CASE Enqueue(r)
  <2>. DEFINE sent == tick[r].pending
  <2>1. /\ UNCHANGED <<now, row>> /\ sent # NoOne /\ tick[r].phase = "due" /\ tick[r] # Idle
        /\ tick[r].at \in Nat /\ sent \in Items /\ sent.id \in SourceIds /\ sent.slot \in Int
    BY <1>5, <1>b, <1>c DEF Enqueue, HandOf, Ticks, Items
  <2>2. /\ tick'[r].phase = "due" /\ tick'[r].todo = tick[r].todo /\ tick'[r].pending = NoOne
        /\ tick'[r].at = tick[r].at /\ tick'[r] \in Ticks
    BY <1>5, <2>1, <1>b DEF Enqueue, IInv, Types, Ticks
  <2>3. CASE UNCHANGED synced
    <3>1. HandOf(tick[r])'
      BY <2>1, <2>2, <2>3, <1>b DEF HandOf, Unserved
    <3>2. Types' /\ InHand'
      BY <3>1, <2>1, <2>2, <2>3, <1>d, <1>e DEF IInv, Types
    <3>3. ServedArePast'
      BY <2>1, <2>2, <2>3, <1>a DEF IInv, ServedArePast
    <3>. QED BY <3>2, <3>3, <2>3 DEF IInv, OneSyncPerSlot
  <2>4. CASE synced' = synced \cup {[id |-> sent.id, slot |-> sent.slot, by |-> r,
                                     n |-> Cardinality({old \in synced : IsOf(old, sent)}) + 1]}
    <3>. DEFINE task == [id |-> sent.id, slot |-> sent.slot, by |-> r, n |-> 1]
    <3>0. Cardinality({old \in synced : IsOf(old, sent)}) + 1 = 1
      <4>1. Unserved(sent.id, sent.slot)
        BY <2>1, <1>b DEF HandOf
      <4>. HIDE DEF sent
      <4>2. {old \in synced : IsOf(old, sent)} = {}
        BY <4>1 DEF Unserved, IsOf
      <4>. QED BY <4>2, FS_EmptySet
    <3>1. task \in Tasks /\ task.id = sent.id /\ task.slot = sent.slot /\ synced' = synced \cup {task}
      BY <2>1, <2>4, <3>0 DEF Tasks
    <3>2. /\ sent.slot <= tick[r].at /\ Unserved(sent.id, sent.slot) /\ tick[r].at <= now
          /\ row[sent.id].next # Unstamped => row[sent.id].next > sent.slot
          /\ \A item \in tick[r].todo : item.id # sent.id
      BY <2>1, <1>b DEF HandOf
    <3>. HIDE DEF task, sent
    <3>3. HandOf(tick[r])'
      BY <3>1, <3>2, <2>1, <2>2, <1>b DEF HandOf, Unserved
    <3>4. Types' /\ InHand'
      BY <3>1, <3>3, <2>1, <2>2, <1>d, <1>e DEF IInv, Types
    <3>5. ServedArePast'
      BY <3>1, <3>2, <2>1, <2>2, <1>a, <1>b DEF IInv, ServedArePast
    <3>6. OneSyncPerSlot'
      BY <3>1, <3>2 DEF IInv, OneSyncPerSlot, Unserved
    <3>. QED BY <3>4, <3>5, <3>6
  <2>. QED BY <1>5, <2>3, <2>4 DEF Enqueue
<1>6. CASE EndTick(r)
  <2>1. UNCHANGED <<now, row, synced>> /\ tick'[r] = Idle
    BY <1>6 DEF EndTick, IInv, Types
  <2>2. HandOf(tick[r])'
    BY <2>1, <1>b, <1>c DEF HandOf
  <2>3. Types' /\ InHand'
    BY <2>1, <2>2, <1>c, <1>d, <1>e DEF IInv, Types
  <2>. QED BY <2>1, <2>3, <1>a DEF IInv, ServedArePast, OneSyncPerSlot
<1>. QED BY <1>1, <1>2, <1>3, <1>4, <1>5, <1>6 DEF Sweep

\* What the other writers of a source leave of its row.
LEMMA OtherWriters ==
    ASSUME row \in [SourceIds -> Rows], NEW s \in SourceIds,
           \/ \E schedule \in Schedules : SetSchedule(s, schedule)
           \/ Pause(s) \/ Resume(s) \/ StartSync(s)
           \/ MarkSyncing(s) \/ EndSync(s) \/ FilesDone(s)
    PROVE  /\ UNCHANGED <<now, tick, synced>> /\ row' \in [SourceIds -> Rows]
           /\ \A x \in SourceIds : row'[x].next \in {row[x].next, Unstamped}
<1>a. row \in [SourceIds -> Rows] /\ Unstamped \in Int
  BY DEF Unstamped
<1>1. ASSUME NEW schedule \in Schedules, SetSchedule(s, schedule)
      PROVE  /\ UNCHANGED <<now, tick, synced>> /\ row' \in [SourceIds -> Rows]
             /\ \A x \in SourceIds : row'[x].next \in {row[x].next, Unstamped}
  <2>1. row' = [row EXCEPT ![s].schedule = schedule, ![s].next = Unstamped]
    BY <1>1 DEF SetSchedule
  <2>2. row[s] \in Rows /\ row'[s] = [row[s] EXCEPT !.schedule = schedule, !.next = Unstamped]
    BY <1>a, <2>1
  <2>3. row'[s] \in Rows /\ row'[s].next = Unstamped
    BY <1>a, <1>1, <2>2 DEF Rows
  <2>4. row' = [row EXCEPT ![s] = row'[s]]
    BY <1>a, <2>1
  <2>. QED BY <1>a, <1>1, <2>3, <2>4 DEF SetSchedule, election
<1>2. CASE Pause(s)
  BY <1>a, <1>2 DEF Pause, election, Rows
<1>3. CASE Resume(s)
  BY <1>a, <1>3 DEF Resume, election, Rows
<1>4. CASE StartSync(s)
  BY <1>a, <1>4 DEF StartSync, election
<1>5. CASE MarkSyncing(s)
  BY <1>a, <1>5 DEF MarkSyncing, election, Rows
<1>6. CASE EndSync(s)
  <2>1. CASE UNCHANGED row
    BY <1>a, <1>6, <2>1 DEF EndSync, election
  <2>2. CASE \E status \in {"active", "error", "paused"} : row' = [row EXCEPT ![s].status = status]
    BY <1>a, <1>6, <2>2 DEF EndSync, election, Rows
  <2>. QED BY <1>6, <2>1, <2>2 DEF EndSync
<1>7. CASE FilesDone(s)
  BY <1>a, <1>7 DEF FilesDone, election, Rows
<1>. QED BY <1>1, <1>2, <1>3, <1>4, <1>5, <1>6, <1>7

\* The others leave the ticks alone, or end one, and take slots away only.
LEMMA SlotsStep ==
    ASSUME lapses' = 0, IInv, [Next]_vars
    PROVE  IInv'
<1>0. ElectionInv'
  BY ElectionStep DEF IInv
<1>a. now \in Nat /\ \A r \in Replicas : tick[r] \in Ticks /\ HandOf(tick[r])
  BY DEF IInv, Types, InHand
<1>1. ASSUME NEW r \in Replicas, Acquire(r) \/ StepDown(r) \/ Release(r) PROVE IInv'
  BY <1>0, <1>1 DEF Acquire, StepDown, Release, IInv, Types, ServedArePast, InHand, HandOf, Unserved, OneSyncPerSlot
<1>2. ASSUME NEW r \in Replicas, Crash(r) PROVE IInv'
  <2>1. UNCHANGED <<now, row, synced>> /\ tick' = [tick EXCEPT ![r] = Idle]
    BY <1>2 DEF Crash
  <2>2. Idle \in Ticks /\ HandOf(Idle)
    BY <1>a DEF Idle, Ticks, HandOf
  <2>3. Types' /\ InHand' /\ ServedArePast'
    BY ZenonT(60), <2>1, <2>2, <1>a DEF IInv, Types, InHand, HandOf, Unserved, ServedArePast, Idle
  <2>. QED BY <1>0, <2>1, <2>3 DEF IInv, OneSyncPerSlot
<1>3. ASSUME NEW r \in Replicas, Sweep(r) PROVE IInv'
  BY <1>0, <1>3, SweepStep DEF IInv
<1>4. CASE Expire \/ Lapse
  BY <1>0, <1>4 DEF Expire, Lapse, IInv, Types, ServedArePast, InHand, HandOf, Unserved, OneSyncPerSlot
<1>5. ASSUME NEW s \in SourceIds,
             \/ \E schedule \in Schedules : SetSchedule(s, schedule)
             \/ Pause(s) \/ Resume(s) \/ StartSync(s)
             \/ MarkSyncing(s) \/ EndSync(s) \/ FilesDone(s)
      PROVE  IInv'
  <2>1. /\ UNCHANGED <<now, tick, synced>> /\ row' \in [SourceIds -> Rows]
        /\ \A x \in SourceIds : row'[x].next \in {row[x].next, Unstamped}
    BY <1>5, OtherWriters DEF IInv, Types
  <2>2. InHand'
    BY <2>1, <1>a DEF IInv, InHand, HandOf, Unserved, Ticks, Items
  <2>. QED BY <1>0, <2>1, <2>2 DEF IInv, Types, ServedArePast, OneSyncPerSlot, Tasks
<1>6. CASE Hour
  BY <1>0, <1>6, <1>a DEF Hour, election, IInv, Types, ServedArePast, InHand, HandOf, Unserved, OneSyncPerSlot, Ticks, Tasks
<1>7. CASE UNCHANGED vars
  BY <1>0, <1>7 DEF vars, IInv, Types, ServedArePast, InHand, HandOf, Unserved, OneSyncPerSlot
<1>. QED BY <1>1, <1>2, <1>3, <1>4, <1>5, <1>6, <1>7 DEF Next

\* Sources begin with schedules.
LEMMA SlotsInit == Init => IInv
<1>. SUFFICES ASSUME Init PROVE IInv
  OBVIOUS
<1>1. Idle \in Ticks
  BY DEF Idle, Ticks
<1>2. Types
  BY <1>1, SchedulerAssumption DEF SchedulerAssumption, Init, Types, Rows, Unstamped
<1>3. \A r \in Replicas : HandOf(tick[r])
  BY DEF Init, HandOf, Idle
<1>. QED BY <1>2, <1>3, ElectionInit DEF Init, IInv, ServedArePast, InHand, OneSyncPerSlot

-----------------------------------------------------------------------------
(* What holds of ticks though a lock has lapsed.                           *)

LooseHand(t) ==
    /\ t.phase = "idle" => t = Idle
    /\ \A item \in t.todo : item.schedule \in {"daily", "weekly"}
    /\ t.pending # NoOne => t.phase = "due"

LooseTypes ==
    /\ now \in Nat
    /\ row \in [SourceIds -> Rows]
    /\ tick \in [Replicas -> Ticks]
    /\ \A r \in Replicas : LooseHand(tick[r])

LooseInv == ElectionTypes /\ Ticking /\ LooseTypes

LEMMA LooseSweep ==
    ASSUME LooseInv, NEW r \in Replicas, Sweep(r)
    PROVE  LooseTypes'
<1>. USE SchedulerAssumption DEF SchedulerAssumption
<1>a. /\ \A q \in Replicas \ {r} : tick'[q] = tick[q]
      /\ tick' = [q \in Replicas |-> tick'[q]]
  BY SweepIsLocal DEF LooseInv
<1>b. /\ tick \in [Replicas -> Ticks] /\ tick[r] \in Ticks /\ LooseHand(tick[r]) /\ now \in Nat
      /\ row \in [SourceIds -> Rows] /\ tick[r].at \in Nat /\ now' = now
  BY DEF LooseInv, LooseTypes, Ticks, Sweep, BeginTick, StampNew, SelectDue, StampDue, Enqueue, EndTick
<1>c. Idle \in Ticks /\ LooseHand(Idle)
  BY DEF Idle, Ticks, LooseHand
<1>d. ASSUME tick'[r] \in Ticks, LooseHand(tick'[r]), row' \in [SourceIds -> Rows] PROVE LooseTypes'
  <2>1. \A q \in Replicas : tick'[q] \in Ticks /\ LooseHand(tick'[q])
    BY <1>a, <1>d DEF LooseInv, LooseTypes
  <2>. QED BY <1>a, <1>b, <1>d, <2>1 DEF LooseTypes, LooseHand
<1>1. CASE BeginTick(r)
  <2>1. PICK listed \in {ListUnscheduled, {}} :
           tick'[r] = [phase |-> "unscheduled", at |-> now, todo |-> listed, pending |-> NoOne]
    BY <1>1, <1>b DEF BeginTick
  <2>2. listed \subseteq Items /\ \A item \in listed : item.schedule \in {"daily", "weekly"}
    BY ListTypes, <1>b
  <2>3. tick'[r] \in Ticks /\ LooseHand(tick'[r])
    BY <2>1, <2>2, <1>b DEF Ticks, LooseHand
  <2>. QED BY <1>1, <1>b, <1>d, <2>3 DEF BeginTick
<1>2. CASE StampNew(r)
  <2>1. PICK item \in tick[r].todo :
           /\ tick' = [tick EXCEPT ![r].todo = @ \ {item}]
           /\ Stamp(item, tick[r].at) \/ UNCHANGED row
    BY <1>2 DEF StampNew
  <2>2. tick[r].phase = "unscheduled" /\ item \in Items /\ item.schedule \in {"daily", "weekly"}
    BY <1>2, <1>b, <2>1 DEF StampNew, LooseHand, Ticks
  <2>3. tick'[r] \in Ticks /\ LooseHand(tick'[r])
    BY <2>1, <2>2, <1>b DEF Ticks, LooseHand
  <2>4. row' \in [SourceIds -> Rows]
    BY <2>1, <2>2, <1>b, StampStep
  <2>. QED BY <1>d, <2>3, <2>4
<1>3. CASE SelectDue(r)
  <2>1. CASE tick' = [tick EXCEPT ![r] = Idle]
    BY <1>3, <1>b, <1>c, <1>d, <2>1 DEF SelectDue
  <2>2. CASE tick' = [tick EXCEPT ![r].phase = "due", ![r].todo = ListDue(tick[r].at)]
    <3>1. /\ ListDue(tick[r].at) \subseteq Items
          /\ \A item \in ListDue(tick[r].at) : item.schedule \in {"daily", "weekly"}
      BY ListTypes, <1>b
    <3>2. tick'[r] \in Ticks /\ LooseHand(tick'[r])
      BY <2>2, <3>1, <1>b DEF Ticks, LooseHand
    <3>. QED BY <1>3, <1>b, <1>d, <3>2 DEF SelectDue
  <2>. QED BY <1>3, <2>1, <2>2 DEF SelectDue
<1>4. CASE StampDue(r)
  <2>1. PICK item \in tick[r].todo :
           \/ /\ Stamp(item, tick[r].at)
              /\ tick' = [tick EXCEPT ![r].todo = @ \ {item}, ![r].pending = item]
           \/ /\ tick' = [tick EXCEPT ![r].todo = @ \ {item}]
              /\ UNCHANGED row
    BY <1>4 DEF StampDue
  <2>2. tick[r].phase = "due" /\ item \in Items /\ item.schedule \in {"daily", "weekly"}
    BY <1>4, <1>b, <2>1 DEF StampDue, LooseHand, Ticks
  <2>3. tick'[r] \in Ticks /\ LooseHand(tick'[r])
    BY <2>1, <2>2, <1>b DEF Ticks, LooseHand
  <2>4. row' \in [SourceIds -> Rows]
    BY <2>1, <2>2, <1>b, StampStep
  <2>. QED BY <1>d, <2>3, <2>4
<1>5. CASE Enqueue(r)
  <2>1. tick' = [tick EXCEPT ![r].pending = NoOne] /\ UNCHANGED row /\ tick[r].phase = "due"
    BY <1>5, <1>b DEF Enqueue, LooseHand
  <2>2. tick'[r] \in Ticks /\ LooseHand(tick'[r])
    BY <2>1, <1>b DEF Ticks, LooseHand
  <2>. QED BY <1>b, <1>d, <2>1, <2>2
<1>6. CASE EndTick(r)
  BY <1>6, <1>b, <1>c, <1>d DEF EndTick
<1>. QED BY <1>1, <1>2, <1>3, <1>4, <1>5, <1>6 DEF Sweep

LEMMA LooseStep ==
    ASSUME LooseInv, [Next]_vars
    PROVE  LooseInv'
<1>0. ElectionTypes' /\ Ticking'
  BY TickingStep DEF LooseInv
<1>1. ASSUME NEW r \in Replicas, Acquire(r) \/ StepDown(r) \/ Release(r) PROVE LooseTypes'
  BY <1>1 DEF Acquire, StepDown, Release, LooseInv, LooseTypes, LooseHand
<1>2. ASSUME NEW r \in Replicas, Crash(r) PROVE LooseTypes'
  <2>1. UNCHANGED <<now, row>> /\ tick' = [tick EXCEPT ![r] = Idle]
    BY <1>2 DEF Crash
  <2>2. Idle \in Ticks /\ LooseHand(Idle)
    BY DEF Idle, Ticks, LooseHand
  <2>3. tick' \in [Replicas -> Ticks] /\ \A q \in Replicas : LooseHand(tick'[q])
    BY <2>1, <2>2 DEF LooseInv, LooseTypes
  <2>. QED BY <2>1, <2>3 DEF LooseInv, LooseTypes, LooseHand
<1>3. ASSUME NEW r \in Replicas, Sweep(r) PROVE LooseTypes'
  BY <1>3, LooseSweep
<1>4. ASSUME Expire \/ Lapse PROVE LooseTypes'
  BY <1>4 DEF Expire, Lapse, LooseInv, LooseTypes, LooseHand
<1>5. ASSUME NEW s \in SourceIds,
             \/ \E schedule \in Schedules : SetSchedule(s, schedule)
             \/ Pause(s) \/ Resume(s) \/ StartSync(s)
             \/ MarkSyncing(s) \/ EndSync(s) \/ FilesDone(s)
      PROVE  LooseTypes'
  <2>1. UNCHANGED <<now, tick>> /\ row' \in [SourceIds -> Rows]
    BY <1>5, OtherWriters DEF LooseInv, LooseTypes
  <2>. QED BY <2>1 DEF LooseInv, LooseTypes, LooseHand
<1>6. ASSUME Hour PROVE LooseTypes'
  BY <1>6 DEF Hour, LooseInv, LooseTypes, LooseHand
<1>7. ASSUME UNCHANGED vars PROVE LooseTypes'
  BY <1>7 DEF vars, LooseInv, LooseTypes, LooseHand
<1>. QED BY <1>0, <1>1, <1>2, <1>3, <1>4, <1>5, <1>6, <1>7 DEF Next, LooseInv

-----------------------------------------------------------------------------
(* What faults cost.                                                       *)

SlotIds == [id : SourceIds, slot : Int]
LostTypes == IsFiniteSet(taken) /\ taken \subseteq SlotIds /\ faults \in Nat /\ now <= MaxTime
LostInv == LostTypes /\ FaultsCostOneSlot

\* The slot a replica is about to enqueue.
Pending(r) == [id |-> tick[r].pending.id, slot |-> tick[r].pending.slot]

\* A step in which nothing that was about to be enqueued goes missing.
NothingLost == Lost' \subseteq Lost /\ faults' \in {faults, faults + 1}
\* A step that counts as a fault and in which at most one slot goes missing.
OneLost == faults' = faults + 1 /\ \E r \in Replicas : Lost' \subseteq Lost \cup {Pending(r)}

LEMMA OneFaultOneSlot ==
    ASSUME LostInv, LostTypes', NothingLost \/ OneLost
    PROVE  FaultsCostOneSlot'
<1>1. /\ IsFiniteSet(Lost) /\ Cardinality(Lost) \in Nat
  <2>1. Lost \in SUBSET taken
    BY DEF Lost
  <2>2. IsFiniteSet(taken)
    BY DEF LostInv, LostTypes
  <2>. QED BY <2>1, <2>2, FS_Subset, FS_CardinalityType
<1>2. CASE NothingLost
  <2>1. Cardinality(Lost') <= Cardinality(Lost) /\ Cardinality(Lost') \in Nat
    <3>1. Lost' \in SUBSET Lost
      BY <1>2 DEF NothingLost
    <3>. QED BY <1>1, <3>1, FS_Subset, FS_CardinalityType
  <2>. QED BY <1>1, <1>2, <2>1 DEF NothingLost, LostInv, LostTypes, FaultsCostOneSlot
<1>3. CASE OneLost
  <2>1. PICK r \in Replicas : Lost' \subseteq Lost \cup {Pending(r)}
    BY <1>3 DEF OneLost
  <2>. DEFINE more == Lost \cup {Pending(r)}
  <2>2. IsFiniteSet(more) /\ Cardinality(more) <= Cardinality(Lost) + 1 /\ Cardinality(more) \in Nat
    <3>1. IsFiniteSet(more) /\ Cardinality(more) \in {Cardinality(Lost), Cardinality(Lost) + 1}
      BY <1>1, FS_AddElement
    <3>. HIDE DEF more
    <3>. QED BY <1>1, <3>1
  <2>3. Cardinality(Lost') <= Cardinality(more) /\ Cardinality(Lost') \in Nat
    <3>1. Lost' \in SUBSET more
      BY <2>1
    <3>. QED BY <2>2, <3>1, FS_Subset, FS_CardinalityType
  <2>. HIDE DEF more
  <2>. QED BY <1>1, <1>3, <2>2, <2>3 DEF OneLost, LostInv, LostTypes, FaultsCostOneSlot
<1>. QED BY <1>2, <1>3

\* What is still in hand, or has been enqueued, is not lost.
LEMMA StillThere ==
    ASSUME taken' = taken, synced \subseteq synced',
           \A r \in Replicas : tick[r].pending # NoOne => tick'[r].pending = tick[r].pending
    PROVE  Lost' \subseteq Lost
BY DEF Lost, IsOf

LEMMA LostStep ==
    ASSUME LooseInv, LostInv, [Next]_vars
    PROVE  LostInv'
<1>. USE SchedulerAssumption DEF SchedulerAssumption
<1>a. /\ tick \in [Replicas -> Ticks] /\ IsFiniteSet(taken) /\ taken \subseteq SlotIds
      /\ faults \in Nat /\ now <= MaxTime /\ now \in Nat
  BY DEF LooseInv, LooseTypes, LostInv, LostTypes
<1>b. \A r \in Replicas : tick[r].pending # NoOne => tick[r].pending \in Items
  BY <1>a DEF Ticks
<1>c. Idle.pending = NoOne
  BY DEF Idle
<1>1. ASSUME NEW r \in Replicas, Acquire(r) \/ StepDown(r) \/ Release(r) PROVE LostTypes' /\ NothingLost
  BY <1>1, <1>a, StillThere DEF Acquire, StepDown, Release, Fault, NoFault, LostTypes, NothingLost
<1>2. ASSUME NEW r \in Replicas, Crash(r) PROVE LostTypes' /\ OneLost
  <2>1. UNCHANGED <<now, taken, synced>> /\ tick' = [tick EXCEPT ![r] = Idle] /\ faults' = faults + 1
    BY <1>2 DEF Crash, Fault
  <2>2. Lost' \subseteq Lost \cup {Pending(r)}
    BY <2>1, <1>a DEF Lost, IsOf, Pending, SlotIds
  <2>. QED BY <1>a, <2>1, <2>2 DEF LostTypes, OneLost
<1>3. ASSUME NEW r \in Replicas, Sweep(r) PROVE LostTypes' /\ (NothingLost \/ OneLost)
  <2>0. tick[r] \in Ticks /\ (tick[r].pending # NoOne => tick[r].phase = "due")
    BY <1>a DEF LooseInv, LooseTypes, LooseHand
  <2>1. CASE BeginTick(r)
    <3>1. /\ tick[r].pending = NoOne /\ UNCHANGED <<now, taken, synced>>
          /\ faults' \in {faults, faults + 1} /\ \A q \in Replicas \ {r} : tick'[q] = tick[q]
      BY <2>1, <1>a, <1>c DEF BeginTick, Fault, NoFault
    <3>. QED BY <1>a, <3>1, StillThere DEF LostTypes, NothingLost
  <2>2. CASE StampNew(r)
    <3>1. /\ \A q \in Replicas : tick'[q].pending = tick[q].pending
          /\ UNCHANGED <<now, taken, synced>> /\ faults' \in {faults, faults + 1}
      BY <2>2, <1>a DEF StampNew, Fault, NoFault, Ticks
    <3>. QED BY <1>a, <3>1, StillThere DEF LostTypes, NothingLost
  <2>3. CASE SelectDue(r)
    <3>1. /\ tick[r].pending = NoOne /\ UNCHANGED <<now, taken, synced>>
          /\ faults' \in {faults, faults + 1} /\ \A q \in Replicas \ {r} : tick'[q] = tick[q]
      BY <2>3, <2>0, <1>a DEF SelectDue, Fault, NoFault
    <3>. QED BY <1>a, <3>1, StillThere DEF LostTypes, NothingLost
  <2>4. CASE StampDue(r)
    <3>1. /\ tick[r].pending = NoOne /\ UNCHANGED <<now, synced>> /\ faults' \in {faults, faults + 1}
          /\ \A q \in Replicas \ {r} : tick'[q] = tick[q]
      BY <2>4, <1>a DEF StampDue, Fault, NoFault
    <3>2. CASE taken' = taken
      BY <1>a, <3>1, <3>2, StillThere DEF LostTypes, NothingLost
    <3>3. ASSUME taken' # taken
          PROVE  \E item \in Items :
                   /\ taken' = taken \cup {[id |-> item.id, slot |-> item.slot]}
                   /\ tick'[r].pending = item
      BY <2>0, <2>4, <1>a, <3>3 DEF StampDue, Ticks
    <3>4. ASSUME taken' # taken PROVE LostTypes' /\ NothingLost
      <4>1. PICK item \in Items : /\ taken' = taken \cup {[id |-> item.id, slot |-> item.slot]}
                                  /\ tick'[r].pending = item
        BY <3>3, <3>4
      <4>. DEFINE new == [id |-> item.id, slot |-> item.slot]
      <4>2. new \in SlotIds /\ item # NoOne
        BY DEF SlotIds, Items
      <4>3. new \notin Lost'
        BY <4>1, <4>2 DEF Lost
      <4>4. \A slot \in taken : slot \notin Lost => slot \notin Lost'
        BY <3>1 DEF Lost, IsOf
      <4>5. Lost' \subseteq taken \cup {new}
        BY <4>1 DEF Lost
      <4>6. IsFiniteSet(taken') /\ taken' \subseteq SlotIds
        BY <1>a, <4>1, <4>2, FS_AddElement
      <4>. HIDE DEF new
      <4>7. Lost' \subseteq Lost
        BY <4>3, <4>4, <4>5
      <4>. QED BY <1>a, <3>1, <4>6, <4>7 DEF LostTypes, NothingLost
    <3>. QED BY <3>2, <3>4
  <2>5. CASE Enqueue(r)
    <3>. DEFINE sent == tick[r].pending
                task == [id |-> sent.id, slot |-> sent.slot, by |-> r,
                         n |-> Cardinality({old \in synced : IsOf(old, sent)}) + 1]
    <3>1. /\ UNCHANGED <<now, taken>> /\ \A q \in Replicas \ {r} : tick'[q] = tick[q]
          /\ \/ faults' = faults /\ synced' = synced \cup {task}
             \/ faults' = faults + 1 /\ UNCHANGED synced
      BY <2>5, <1>a DEF Enqueue, Fault, NoFault
    <3>2. task.id = sent.id /\ task.slot = sent.slot
      OBVIOUS
    <3>. HIDE DEF task, sent
    <3>3. CASE faults' = faults + 1
      <4>1. Lost' \subseteq Lost \cup {Pending(r)}
        BY <3>1, <1>a DEF Lost, IsOf, Pending, SlotIds, sent
      <4>. QED BY <1>a, <3>1, <3>3, <4>1 DEF LostTypes, OneLost
    <3>4. CASE faults' = faults /\ synced' = synced \cup {task}
      <4>1. Lost' \subseteq Lost
        BY <3>1, <3>2, <3>4 DEF Lost, IsOf, sent
      <4>. QED BY <1>a, <3>1, <3>4, <4>1 DEF LostTypes, NothingLost
    <3>. QED BY <3>1, <3>3, <3>4
  <2>6. CASE EndTick(r)
    <3>1. /\ tick[r].pending = NoOne /\ UNCHANGED <<now, taken, synced, faults>>
          /\ \A q \in Replicas \ {r} : tick'[q] = tick[q]
      BY <2>6, <1>a DEF EndTick
    <3>. QED BY <1>a, <3>1, StillThere DEF LostTypes, NothingLost
  <2>. QED BY <1>3, <2>1, <2>2, <2>3, <2>4, <2>5, <2>6 DEF Sweep
<1>4. ASSUME Expire \/ Lapse \/ UNCHANGED vars PROVE LostTypes' /\ NothingLost
  BY <1>4, <1>a, StillThere DEF Expire, Lapse, vars, LostTypes, NothingLost
<1>5. ASSUME NEW s \in SourceIds,
             \/ \E schedule \in Schedules : SetSchedule(s, schedule)
             \/ Pause(s) \/ Resume(s) \/ StartSync(s)
             \/ MarkSyncing(s) \/ EndSync(s) \/ FilesDone(s)
      PROVE  LostTypes' /\ NothingLost
  BY <1>5, <1>a, StillThere
     DEF SetSchedule, Pause, Resume, StartSync, MarkSyncing, EndSync, FilesDone, LostTypes, NothingLost
<1>6. ASSUME Hour PROVE LostTypes' /\ NothingLost
  BY <1>6, <1>a, StillThere DEF Hour, election, LostTypes, NothingLost
<1>. QED
  <2>1. LostTypes' /\ (NothingLost \/ OneLost)
    BY <1>1, <1>2, <1>3, <1>4, <1>5, <1>6 DEF Next
  <2>. QED BY <2>1, OneFaultOneSlot DEF LostInv

LEMMA LostInit == Init => LostInv
<1>. SUFFICES ASSUME Init PROVE LostInv
  OBVIOUS
<1>1. Lost = {} /\ taken = {} /\ faults = 0 /\ now = 0
  BY DEF Init, Lost
<1>. QED BY <1>1, FS_EmptySet, SchedulerAssumption
        DEF SchedulerAssumption, LostInv, LostTypes, FaultsCostOneSlot

-----------------------------------------------------------------------------
(* The syncs.                                                              *)

SyncTypes == sync \in [SourceIds -> {"none", "read", "marked", "files"}]

\* The sweep and the edits leave the syncs alone.
LEMMA SyncStep ==
    ASSUME SyncTypes, [Next]_vars
    PROVE  SyncTypes'
<1>1. ASSUME NEW s \in SourceIds, StartSync(s) \/ MarkSyncing(s) \/ EndSync(s) \/ FilesDone(s)
      PROVE  SyncTypes'
  BY <1>1 DEF StartSync, MarkSyncing, EndSync, FilesDone, SyncTypes
<1>2. ASSUME UNCHANGED sync PROVE SyncTypes'
  BY <1>2 DEF SyncTypes
<1>3. ASSUME NEW r \in Replicas, Sweep(r) PROVE UNCHANGED sync
  BY <1>3 DEF Sweep, BeginTick, StampNew, SelectDue, StampDue, Enqueue, EndTick
<1>. QED BY <1>1, <1>2, <1>3
         DEF Next, vars, Acquire, StepDown, Release, Crash, Expire, Lapse, SetSchedule, Pause,
             Resume, Hour

-----------------------------------------------------------------------------
\* No slot of a source is enqueued twice, whatever is cancelled, fails, crashes or is
\* edited, and however leaders follow one another, as long as no lock has lapsed; and
\* a fault costs at most one slot of one source, also where two replicas lead at once:
\* a source is stamped before it is enqueued, and enqueued at once.
THEOREM SlotsOnceAndKept == Spec => []SlotsInv
<1>. DEFINE Inv == LooseInv /\ LostInv /\ SyncTypes /\ (lapses = 0 => IInv)
<1>1. Inv /\ [Next]_vars => Inv'
  BY LooseStep, LapsesStay, SlotsStep, LostStep, SyncStep DEF LooseInv
<1>2. ASSUME Inv PROVE SlotsInv
  <2>1. now \in 0 .. MaxTime
    BY <1>2, SchedulerAssumption DEF SchedulerAssumption, LooseInv, LooseTypes, LostInv, LostTypes
  <2>2. ASSUME NEW s \in SourceIds
        PROVE  /\ row[s].schedule \in Schedules /\ row[s].next \in Int
               /\ row[s].status \in {"active", "error", "paused", "syncing"}
               /\ sync[s] \in {"none", "read", "marked", "files"}
    BY <1>2 DEF LooseInv, LooseTypes, Rows, SyncTypes
  <2>3. ASSUME NEW r \in Replicas
        PROVE  /\ tick[r].phase \in {"idle", "unscheduled", "due"}
               /\ \A item \in tick[r].todo : item.id \in SourceIds /\ item.schedule \in Schedules
               /\ tick[r].pending # NoOne => tick[r].phase = "due"
               /\ tick[r] # Idle => leads[r]
    <3>1. tick[r] \in Ticks /\ LooseHand(tick[r])
      BY <1>2 DEF LooseInv, LooseTypes
    <3>2. \A item \in tick[r].todo : item.id \in SourceIds /\ item.schedule \in Schedules
      BY <3>1 DEF Ticks, Items
    <3>. QED BY <1>2, <3>1, <3>2 DEF LooseInv, Ticking, Ticks, LooseHand
  <2>. QED BY <1>2, <2>1, <2>2, <2>3 DEF SlotsInv, TypeOK, IInv, LooseInv, ElectionTypes, LostInv
<1>3. Init => Inv
  <2>1. Init => LooseInv
    <3>1. Init /\ IInv => LooseInv
      BY DEF IInv, ElectionInv, Types, InHand, HandOf, LooseInv, LooseTypes, LooseHand
    <3>. QED BY <3>1, SlotsInit
  <2>. QED BY <2>1, SlotsInit, LostInit DEF Init, SyncTypes
<1>. HIDE DEF Inv
<1>. QED BY <1>1, <1>2, <1>3, PTL DEF Spec
=============================================================================
