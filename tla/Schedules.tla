------------------------------ MODULE Schedules ------------------------------
(* packages/shared/src/offers.ts: when two agendas of a driver collide, and    *)
(* which occurrence of an agenda a day or an instant belongs to.  Time is      *)
(* counted in DAY units per day instead of 1440 minutes; day 0 is a Sunday.    *)
EXTENDS Integers, FiniteSets, FiniteSetsExt

CONSTANTS
  DAY,         \* units of a day
  Tolerance,   \* units a shift may start before or after its hour
  Never        \* expires_at is null

ASSUME DayAssumption == DAY \in Nat \ {0} /\ Tolerance \in Nat

WEEK == 7

(* An item: on one date or every week on the day of the week, from start to    *)
(* end; an end not after the start is on the next day.                         *)
Item(weekly, date, start, end) ==
  [weekly |-> weekly, day |-> date, start |-> start, end |-> end]

(* What the forms let through: hours of the day, on days of the week or on     *)
(* dates, not both.                                                            *)
Agenda(schedule) ==
  /\ IsFiniteSet(schedule)
  /\ \A i \in schedule : /\ i.weekly \in BOOLEAN /\ i.day \in Int
                         /\ i.start \in 0..(DAY - 1) /\ i.end \in 0..(DAY - 1)
  /\ \A i, j \in schedule : i.weekly = j.weekly

interval(date, w) ==
  <<date * DAY + w.start,
    date * DAY + w.end + (IF w.end <= w.start THEN DAY ELSE 0)>>

overlaps(a, b) == a[1] < b[2] /\ b[1] < a[2]

(* A weekly item stands for itself one week before and after the anchor's.     *)
SameWeek(anchor, item) == anchor - (anchor % WEEK) + item.day

itemIntervals(item, anchor) ==
  IF item.weekly THEN {interval(week + SameWeek(anchor, item), item) : week \in {-WEEK, 0, WEEK}}
                 ELSE {interval(item.day, item)}

Anchor(a, b) == IF ~a.weekly THEN a.day ELSE IF ~b.weekly THEN b.day ELSE 0

itemsConflict(a, b) ==
  \E x \in itemIntervals(a, Anchor(a, b)), y \in itemIntervals(b, Anchor(a, b)) : overlaps(x, y)

schedulesConflict(a, b) == \E x \in a, y \in b : itemsConflict(x, y)

Falls(item, date) == IF item.weekly THEN date % WEEK = item.day ELSE date = item.day

(* At most one item of an agenda falls on a date: offers.ts takes the first.   *)
Occurring(schedule, date) == {i \in schedule : Falls(i, date)}

Occurrence(item, date) ==
  [date |-> date, item |-> item, start |-> interval(date, item)[1], end |-> interval(date, item)[2]]

occurrenceForWorkDate(schedule, date) ==
  {Occurrence(i, date) : i \in Occurring(schedule, date)}

findStartOccurrence(schedule, now) ==
  {o \in UNION {occurrenceForWorkDate(schedule, (now \div DAY) + k) : k \in {-1, 0, 1}} :
     now >= o.start - Tolerance /\ now <= o.start + Tolerance /\ now < o.end}

datedScheduleExpiry(schedule) ==
  LET dated == {i \in schedule : ~i.weekly}
  IN IF dated = {} THEN Never ELSE Max({interval(i.day, i)[2] : i \in dated})

(* When an item really happens, among the dates of a horizon.                  *)
Happens(item, dates) == {interval(d, item) : d \in {x \in dates : Falls(item, x)}}
=============================================================================
