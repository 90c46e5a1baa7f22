----------------------------- MODULE SyncWindow -----------------------------
(***************************************************************************)
(* When a scheduled source is synced next (internal/syncwindow): the night *)
(* window read from the site configuration, and the slot a source has in   *)
(* it, derived from hashes of its id.                                      *)
(*                                                                         *)
(* Instants are whole hours of one clock (the code has minutes).  A        *)
(* location is "utc", or a zone one hour ahead of it whose clocks are put  *)
(* forward ("spring") or back ("autumn") at the instant ChangeAt.          *)
(***************************************************************************)
EXTENDS Integers

CONSTANTS DayHours,      \* hours of a day; 24 but for small instances
          WeekDays,      \* days of a week
          ChangeAt       \* the instant the clocks change

ASSUME WindowAssumption ==
    /\ DayHours \in Nat \ {0}
    /\ WeekDays \in Nat \ {0}
    /\ ChangeAt \in Int

Unset == 99              \* no such key in site_config, or it is not a number
NoSlot == -99
DefaultStart == 1
DefaultEnd == 5
Schedules == {"manual", "daily", "weekly"}
Windows ==
    [start : 0 .. DayHours - 1, end : 0 .. DayHours - 1, loc : {"utc", "spring", "autumn"}]
IdHashes == [hash : Nat, weekday : 0 .. WeekDays - 1]

-----------------------------------------------------------------------------
(* The time package: the zone's offset at an instant, and time.Date, which *)
(* looks the zone up at the local time and corrects a wrong guess once.    *)

ZoneAt(loc, t) ==
    CASE loc = "utc"    -> 0
      [] loc = "spring" -> IF t < ChangeAt THEN 1 ELSE 2
      [] loc = "autumn" -> IF t < ChangeAt THEN 2 ELSE 1

LocalTime(loc, t) == t + ZoneAt(loc, t)
DateOf(loc, t) == LocalTime(loc, t) \div DayHours
HourOf(loc, t) == LocalTime(loc, t) % DayHours

TimeDate(loc, day, hour) ==
    LET wall == day * DayHours + hour
        guess == wall - ZoneAt(loc, wall)
    IN  IF ZoneAt(loc, guess) = ZoneAt(loc, wall) THEN guess ELSE wall - ZoneAt(loc, guess)

-----------------------------------------------------------------------------
\* A value that is missing or out of range gives the default.
ReadHour(raw, default) == IF raw \in 0 .. DayHours - 1 THEN raw ELSE default

WindowFrom(rawStart, rawEnd, loc) ==
    [start |-> ReadHour(rawStart, DefaultStart),
     end   |-> ReadHour(rawEnd, DefaultEnd),
     loc   |-> loc]

\* Two equal hours give a window of one hour rather than an empty one.
LengthHours(w) ==
    IF w.start = w.end THEN 1 ELSE (w.end - w.start) % DayHours

\* The slot of a source on the night of the given date.
SlotOf(source, w, day) == TimeDate(w.loc, day, w.start) + (source.hash % LengthHours(w))

OnSchedule(source, schedule, day) ==
    schedule = "weekly" => day % WeekDays = source.weekday

\* Mutant of NextSlot: the search starts at the date of the instant itself.
NextSlotFromToday(source, schedule, after, w) ==
    LET today == DateOf(w.loc, after)
        later == {day \in today .. today + WeekDays :
                    OnSchedule(source, schedule, day) /\ SlotOf(source, w, day) > after}
    IN  IF schedule \notin {"daily", "weekly"} \/ later = {} THEN NoSlot
        ELSE SlotOf(source, w, CHOOSE day \in later : \A other \in later : day <= other)

\* The first slot after an instant, looked for from the day before its date on.
NextSlot(source, schedule, after, w) ==
    LET today == DateOf(w.loc, after)
        later == {day \in today - 1 .. today + WeekDays :
                    OnSchedule(source, schedule, day) /\ SlotOf(source, w, day) > after}
    IN  IF schedule \notin {"daily", "weekly"} \/ later = {} THEN NoSlot
        ELSE SlotOf(source, w, CHOOSE day \in later : \A other \in later : day <= other)

-----------------------------------------------------------------------------
(* What NextSlot promises.                                                 *)

\* Of the slots given, this is the first that is still to come.
IsFirst(slot, slots, after) ==
    /\ slot \in slots
    /\ slot > after
    /\ \A other \in slots : other > after => slot <= other

\* The slot lies in the window, on the clock of its location: not before its
\* start, and its end has not passed since.
InWindow(slot, w) ==
    \E late \in 0 .. DayHours - 1 :
        /\ HourOf(w.loc, slot) = (w.start + late) % DayHours
        /\ w.start = w.end => late = 0
        /\ \A passed \in 1 .. late : (w.start + passed) % DayHours # w.end
=============================================================================
