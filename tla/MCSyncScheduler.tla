-------------------------- MODULE MCSyncScheduler --------------------------
(***************************************************************************)
(* Three instances in one run.  The scheduler: two replicas, a daily and a *)
(* weekly source, nights of three hours.  The scheduler again, with one    *)
(* source and locks that lapse.  The calendar: the slots of one source on  *)
(* a real clock (24 hours, seven days), asked for at every hour of eight   *)
(* days in which the clocks may change, under every configuration of the   *)
(* window.  A behaviour is about one of them.                              *)
(***************************************************************************)
EXTENDS SyncScheduler

CONSTANTS r1, r2, s1, s2,
          Starts, Ends, Hashes,   \* the settings and ids the calendar is asked about
          MaxHour                 \* bound: its last hour

VARIABLE asked   \* the calendar's question; of the scheduler, a replica says that
                 \* locks may lapse and NoOne that they do not

MCHashes == [s \in SourceIds |-> [hash |-> IF s = s1 THEN 0 ELSE 1, weekday |-> 0]]
MCSchedules == [s \in SourceIds |-> IF s = s1 THEN "daily" ELSE "weekly"]
MCWindow == WindowFrom(1, 0, "utc")

Calendar == INSTANCE SyncWindow WITH DayHours <- 24, WeekDays <- 7, ChangeAt <- 169

Questions ==
    [after : {0},
     source : [hash : Hashes, weekday : {0, 6}],
     schedule : {"daily", "weekly"},
     window : {Calendar!WindowFrom(s, e, l) : s \in Starts, e \in Ends, l \in {"utc", "spring", "autumn"}}]

Lapsing == INSTANCE SyncScheduler WITH
    Schedule0 <- [MCSchedules EXCEPT ![s2] = "manual"], MaxEdits <- 0, MaxLapses <- 1

MCInit ==
    \/ Init /\ asked \in Questions \cup {NoOne}
    \/ Lapsing!Init /\ asked = r1

Wait ==
    /\ asked' = [asked EXCEPT !.after = IF @ < MaxHour THEN @ + 1 ELSE @]
    /\ UNCHANGED vars

MCNext ==
    \/ asked = NoOne /\ Next /\ UNCHANGED asked
    \/ asked = r1 /\ Lapsing!Next /\ UNCHANGED asked
    \/ asked \notin {NoOne, r1} /\ Wait

MCSpec == MCInit /\ [][MCNext]_<<vars, asked>> /\ Fairness

Slot(q) == Calendar!NextSlot(q.source, q.schedule, q.after, q.window)
AllSlots(q) ==
    {Calendar!SlotOf(q.source, q.window, day) :
        day \in {d \in -8 .. MaxHour \div 24 + 9 : Calendar!OnSchedule(q.source, q.schedule, d)}}

\* Whatever the configuration and the date, the next slot is the first that is
\* still to come: there always is one, none is passed over, and asking again
\* before it has come gives the same.  It lies in the night window where the
\* clocks do not change (the night they go forward it may end an hour late).
NextSlotIsRight ==
    asked \notin {NoOne, r1} =>
        /\ Calendar!IsFirst(Slot(asked), AllSlots(asked), asked.after)
        /\ asked.window.loc = "utc" => Calendar!InWindow(Slot(asked), asked.window)

\* Slots keep coming, locks that lapse or not, and are served where they do not.
SlotsKeepComing == SlotsCome /\ (asked = NoOne => SlotsAreServed)
=============================================================================
