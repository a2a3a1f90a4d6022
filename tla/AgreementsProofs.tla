--------------------------- MODULE AgreementsProofs ---------------------------
(* Theorems of Agreements for any drivers, links, offers, authorizations and   *)
(* agendas: shifts that do not overlap, links that outlast the shifts begun    *)
(* under them, and the slots of an offer.                                      *)
EXTENDS Agreements, Sums

-----------------------------------------------------------------------------
(* Windows of time: an occurrence begins on its date and lasts a day at most.  *)

Window(w) ==
  /\ w.date \in Int /\ w.start \in Int /\ w.end \in Int
  /\ w.date * DAY <= w.start /\ w.start < (w.date + 1) * DAY
  /\ w.start < w.end /\ w.end <= w.start + DAY

LEMMA DaysApart ==
  ASSUME NEW a \in Int, NEW b \in Int, a + 2 <= b  PROVE (a + 1) * DAY + DAY <= b * DAY
<1> USE DayAssumption
<1>1. PICK k \in Nat : b = a + 2 + k
  <2>1. b - (a + 2) \in Nat /\ b = a + 2 + (b - (a + 2))
    OBVIOUS
  <2>2. QED
    BY <2>1
<1>2. k * DAY \in Nat
  OBVIOUS
<1>3. b * DAY = (a + 1) * DAY + DAY + k * DAY
  BY <1>1
<1>4. (a + 1) * DAY \in Int
  OBVIOUS
<1>5. QED
  BY <1>2, <1>3, <1>4

LEMMA FarWindows ==
  ASSUME NEW v, NEW w, Window(v), Window(w), v.date \notin (w.date - 1)..(w.date + 1)
  PROVE  ~overlaps(<<v.start, v.end>>, <<w.start, w.end>>)
<1> USE DayAssumption DEF Window
<1>1. CASE v.date + 2 <= w.date
  <2>1. (v.date + 1) * DAY + DAY <= w.date * DAY
    BY <1>1, DaysApart
  <2>2. v.end <= w.start
    BY <2>1
  <2>3. QED
    BY <2>2 DEF overlaps
<1>2. CASE w.date + 2 <= v.date
  <2>1. (w.date + 1) * DAY + DAY <= v.date * DAY
    BY <1>2, DaysApart
  <2>2. w.end <= v.start
    BY <2>1
  <2>3. QED
    BY <2>2 DEF overlaps
<1>3. QED
  BY <1>1, <1>2

LEMMA OccurrenceWindow ==
  ASSUME NEW schedule, Agenda(schedule), NEW date \in Int,
         NEW o \in occurrenceForWorkDate(schedule, date)
  PROVE  Window(o) /\ o.date = date
<1> USE DayAssumption
<1>1. PICK i \in schedule : o = Occurrence(i, date)
  BY DEF occurrenceForWorkDate, Occurring
<1>2. i.start \in 0..(DAY - 1) /\ i.end \in 0..(DAY - 1)
  BY DEF Agenda
<1>3. /\ o.date = date /\ o.start = date * DAY + i.start
      /\ o.end = date * DAY + i.end + (IF i.end <= i.start THEN DAY ELSE 0)
  BY <1>1 DEF Occurrence, interval
<1>4. date * DAY \in Int /\ (date + 1) * DAY = date * DAY + DAY
  OBVIOUS
<1>5. QED
  BY <1>2, <1>3, <1>4 DEF Window

-----------------------------------------------------------------------------
(* Items of agendas: what schedulesConflict finds of the weeks around one date *)
(* is all that can ever happen.                                                *)

Hours(i) ==
  /\ i.weekly \in BOOLEAN /\ i.day \in Int
  /\ i.start \in 0..(DAY - 1) /\ i.end \in 0..(DAY - 1)

LEMMA IntervalIs ==
  ASSUME NEW i, Hours(i), NEW date \in Int
  PROVE  /\ interval(date, i)[1] = date * DAY + i.start
         /\ interval(date, i)[2] = date * DAY + i.end + (IF i.end <= i.start THEN DAY ELSE 0)
         /\ interval(date, i)[1] \in Int /\ interval(date, i)[2] \in Int
<1> USE DayAssumption
<1>1. date * DAY \in Int
  OBVIOUS
<1>2. QED
  BY <1>1 DEF interval, Hours

LEMMA Weeks ==
  ASSUME NEW date \in Int
  PROVE  \E p \in Int : \E r \in 0..6 : date = 7 * p + r /\ date % 7 = r
<1>1. date \div 7 \in Int /\ date % 7 \in 0..6
  OBVIOUS
<1>2. date = 7 * (date \div 7) + (date % 7)
  OBVIOUS
<1>3. QED
  BY <1>1, <1>2

(* Windows that meet are of the same day or of two that follow one another.    *)
LEMMA NeighbouringDays ==
  ASSUME NEW a, NEW b, Hours(a), Hours(b), NEW x \in Int, NEW y \in Int,
         overlaps(interval(x, a), interval(y, b))
  PROVE  x - 1 <= y /\ y <= x + 1
<1> DEFINE v == [date |-> x, start |-> interval(x, a)[1], end |-> interval(x, a)[2]]
           w == [date |-> y, start |-> interval(y, b)[1], end |-> interval(y, b)[2]]
<1> USE DayAssumption
<1>1. /\ (x + 1) * DAY = x * DAY + DAY /\ (y + 1) * DAY = y * DAY + DAY
      /\ x * DAY \in Int /\ y * DAY \in Int
  OBVIOUS
<1>2. Window(v)
  <2>1. /\ v.date = x /\ v.start = x * DAY + a.start
        /\ v.end = x * DAY + a.end + (IF a.end <= a.start THEN DAY ELSE 0)
    BY IntervalIs
  <2> HIDE DEF v
  <2>2. QED
    BY <1>1, <2>1 DEF Window, Hours
<1>3. Window(w)
  <2>1. /\ w.date = y /\ w.start = y * DAY + b.start
        /\ w.end = y * DAY + b.end + (IF b.end <= b.start THEN DAY ELSE 0)
    BY IntervalIs
  <2> HIDE DEF w
  <2>2. QED
    BY <1>1, <2>1 DEF Window, Hours
<1>4. overlaps(<<v.start, v.end>>, <<w.start, w.end>>)
  BY DEF overlaps
<1>5. v.date = x /\ w.date = y
  OBVIOUS
<1> HIDE DEF v, w
<1>6. v.date \in (w.date - 1)..(w.date + 1)
  BY <1>2, <1>3, <1>4, FarWindows
<1>7. QED
  BY <1>5, <1>6

LEMMA MovedWindow ==
  ASSUME NEW i, Hours(i), NEW date \in Int, NEW n \in Int
  PROVE  /\ interval(date - n, i)[1] = interval(date, i)[1] - n * DAY
         /\ interval(date - n, i)[2] = interval(date, i)[2] - n * DAY
<1> USE DayAssumption
<1>1. /\ (date - n) * DAY = date * DAY - n * DAY
      /\ date - n \in Int /\ date * DAY \in Int /\ n * DAY \in Int
  OBVIOUS
<1>2. /\ interval(date - n, i)[1] = (date - n) * DAY + i.start
      /\ interval(date - n, i)[2] = (date - n) * DAY + i.end + (IF i.end <= i.start THEN DAY ELSE 0)
  BY <1>1, IntervalIs
<1>3. /\ interval(date, i)[1] = date * DAY + i.start
      /\ interval(date, i)[2] = date * DAY + i.end + (IF i.end <= i.start THEN DAY ELSE 0)
  BY IntervalIs
<1>4. QED
  BY <1>1, <1>2, <1>3 DEF Hours

LEMMA Moved ==
  ASSUME NEW a, NEW b, Hours(a), Hours(b), NEW x \in Int, NEW y \in Int, NEW n \in Int,
         overlaps(interval(x, a), interval(y, b))
  PROVE  overlaps(interval(x - n, a), interval(y - n, b))
<1>1. /\ interval(x - n, a)[1] = interval(x, a)[1] - n * DAY
      /\ interval(x - n, a)[2] = interval(x, a)[2] - n * DAY
      /\ interval(x, a)[1] \in Int /\ interval(x, a)[2] \in Int
  BY MovedWindow, IntervalIs
<1>2. /\ interval(y - n, b)[1] = interval(y, b)[1] - n * DAY
      /\ interval(y - n, b)[2] = interval(y, b)[2] - n * DAY
      /\ interval(y, b)[1] \in Int /\ interval(y, b)[2] \in Int
  BY MovedWindow, IntervalIs
<1>3. n * DAY \in Int
  BY DayAssumption
<1>4. QED
  BY <1>1, <1>2, <1>3 DEF overlaps

(* The week of a date next to the anchor is one of the three looked at.        *)
LEMMA NearAnchor ==
  ASSUME NEW i, Hours(i), i.weekly, NEW anchor \in Int, NEW date \in Int,
         anchor - 1 <= date, date <= anchor + 1, Falls(i, date)
  PROVE  interval(date, i) \in itemIntervals(i, anchor)
<1>1. date % 7 = i.day
  BY DEF Falls, WEEK
<1>2. \E week \in {-7, 0, 7} : date = week + (anchor - (anchor % 7) + i.day)
  <2>1. PICK p \in Int, s \in 0..6 : date = 7 * p + s /\ date % 7 = s
    BY Weeks
  <2>2. PICK q \in Int, r \in 0..6 : anchor = 7 * q + r /\ anchor % 7 = r
    BY Weeks
  <2>3. date = 7 * p + s /\ anchor = 7 * q + r
    BY <2>1, <2>2
  <2>4. p - q \in {-1, 0, 1}
    BY <2>3
  <2>5. date - s = anchor - r + 7 * (p - q)
    BY <2>3
  <2>6. s = i.day
    BY <1>1, <2>1
  <2>7. date = 7 * (p - q) + (anchor - r + i.day) /\ 7 * (p - q) \in {-7, 0, 7}
    BY <2>3, <2>4, <2>5, <2>6
  <2>8. QED
    BY <2>2, <2>7
<1>3. QED
  BY <1>2 DEF itemIntervals, SameWeek, WEEK

LEMMA OnItsDate ==
  ASSUME NEW i, ~i.weekly, NEW anchor \in Int, NEW date \in Int, Falls(i, date)
  PROVE  interval(date, i) \in itemIntervals(i, anchor) /\ date = i.day
BY DEF Falls, itemIntervals

(* Two items that itemsConflict lets through never happen at the same time.    *)
LEMMA NeverMeet ==
  ASSUME NEW a, NEW b, Hours(a), Hours(b), ~itemsConflict(a, b),
         NEW x \in Int, NEW y \in Int, Falls(a, x), Falls(b, y)
  PROVE  ~overlaps(interval(x, a), interval(y, b))
<1> SUFFICES ASSUME overlaps(interval(x, a), interval(y, b))  PROVE FALSE
  OBVIOUS
<1> DEFINE anchor == Anchor(a, b)
<1>1. x - 1 <= y /\ y <= x + 1
  BY NeighbouringDays
<1>2. anchor \in Int /\ a.weekly \in BOOLEAN /\ b.weekly \in BOOLEAN
  BY DEF Anchor, Hours
<1>3. \A u \in itemIntervals(a, anchor), v \in itemIntervals(b, anchor) : ~overlaps(u, v)
  BY DEF itemsConflict
<1>4. CASE ~a.weekly
  <2>1. anchor = x /\ interval(x, a) \in itemIntervals(a, anchor)
    BY <1>2, <1>4, OnItsDate DEF Anchor
  <2>2. interval(y, b) \in itemIntervals(b, anchor)
    <3>1. CASE b.weekly
      BY <1>1, <2>1, <3>1, NearAnchor
    <3>2. CASE ~b.weekly
      BY <1>2, <3>2, OnItsDate
    <3>3. QED
      BY <1>2, <3>1, <3>2
  <2>3. QED
    BY <1>3, <2>1, <2>2
<1>5. CASE a.weekly /\ ~b.weekly
  <2>1. anchor = y /\ interval(y, b) \in itemIntervals(b, anchor)
    BY <1>2, <1>5, OnItsDate DEF Anchor
  <2>2. anchor - 1 <= x /\ x <= anchor + 1
    BY <1>1, <2>1
  <2>3. interval(x, a) \in itemIntervals(a, anchor)
    BY <1>2, <1>5, <2>2, NearAnchor
  <2>4. QED
    BY <1>3, <2>1, <2>3
<1>6. CASE a.weekly /\ b.weekly
  <2>1. anchor = 0
    BY <1>6 DEF Anchor
  <2>2. PICK p \in Int : x = 7 * p + a.day /\ a.day \in 0..6
    <3>1. x % 7 = a.day
      BY <1>6 DEF Falls, WEEK
    <3>2. QED
      BY <3>1, Weeks
  <2>3. PICK q \in Int : y = 7 * q + b.day /\ b.day \in 0..6
    <3>1. y % 7 = b.day
      BY <1>6 DEF Falls, WEEK
    <3>2. QED
      BY <3>1, Weeks
  <2>4. q - p \in {-1, 0, 1}
    BY <1>1, <2>2, <2>3
  <2>5. x - 7 * p = a.day /\ y - 7 * p = 7 * (q - p) + b.day /\ 7 * p \in Int
        /\ 7 * (q - p) \in {-7, 0, 7}
    <3>1. 7 * (q - p) \in {-7, 0, 7} /\ 7 * p \in Int
      BY <2>4
    <3>2. QED
      BY <2>2, <2>3, <3>1
  <2>6. overlaps(interval(a.day, a), interval(7 * (q - p) + b.day, b))
    BY <2>5, Moved
  <2>7. /\ interval(a.day, a) \in itemIntervals(a, 0)
        /\ interval(7 * (q - p) + b.day, b) \in itemIntervals(b, 0)
    <3>1. SameWeek(0, a) = a.day /\ SameWeek(0, b) = b.day
      BY <2>2, <2>3 DEF SameWeek, WEEK
    <3>2. 0 + a.day = a.day
      BY <2>2
    <3>3. QED
      BY <1>6, <2>5, <3>1, <3>2 DEF itemIntervals, WEEK
  <2>8. QED
    BY <1>3, <2>1, <2>6, <2>7
<1>7. QED
  BY <1>2, <1>4, <1>5, <1>6

-----------------------------------------------------------------------------
(* The slots of offers.                                                        *)

OfferFields == {"status", "count", "answers"}

Accepted(answers) == {d \in Drivers : answers[d] = "ACCEPTED"}

OfferRight(f, slots) ==
  /\ DOMAIN f = OfferFields /\ f.answers = [d \in Drivers |-> f.answers[d]]
  /\ f.count \in Nat /\ Cardinality(Accepted(f.answers)) = f.count
  /\ f.count <= slots /\ (f.count = slots => f.status = "CLOSED")

OffersRight ==
  /\ offer = [o \in Offers |-> offer[o]]
  /\ \A o \in Offers : OfferRight(offer[o], Slots[o])

Accepting == {t \in holding : t.op = "acceptOffer"}

(* What acceptOffer read still holds when it writes: it has the offer's row.   *)
AcceptsRight ==
  /\ \A t \in Accepting :
       /\ t.offer \in Offers /\ t.driver \in Drivers
       /\ offer[t.offer].count < Slots[t.offer]
       /\ offer[t.offer].answers[t.driver] = "NONE"
  /\ \A t, u \in Accepting : t.offer = u.offer => t = u

SlotsInv == OffersRight /\ AcceptsRight

LEMMA SlotsInit == Init => SlotsInv
<1> SUFFICES ASSUME Init  PROVE SlotsInv
  OBVIOUS
<1> DEFINE f == [status |-> "OPEN", count |-> 0, answers |-> [d \in Drivers |-> "NONE"]]
<1>1. offer = [o \in Offers |-> f] /\ holding = {}
  BY DEF Init
<1>2. Accepted(f.answers) = {}
  BY DEF Accepted
<1>3. \A o \in Offers : OfferRight(f, Slots[o])
  <2>1. /\ DOMAIN f = OfferFields /\ f.count = 0 /\ f.answers = [d \in Drivers |-> f.answers[d]]
    BY DEF OfferFields
  <2>2. Cardinality(Accepted(f.answers)) = 0
    BY <1>2, FS_EmptySet
  <2> HIDE DEF f
  <2>3. QED
    BY <2>1, <2>2, OfferAssumption DEF OfferRight
<1> HIDE DEF f
<1>4. OffersRight
  BY <1>1, <1>3 DEF OffersRight
<1>5. QED
  BY <1>1, <1>4 DEF SlotsInv, AcceptsRight, Accepting

LEMMA SlotsSame ==
  ASSUME SlotsInv, offer' = offer, Accepting' \subseteq Accepting  PROVE SlotsInv'
BY DEF SlotsInv, OffersRight, AcceptsRight

(* The offer f still has a slot for each transaction that is accepting it.     *)
HasSlots(f, o, ts) ==
  \A t \in ts : t.offer = o => f.count < Slots[o] /\ f.answers[t.driver] = "NONE"

(* One offer changes, and those who are accepting it have ended.               *)
LEMMA OneOfferChanges ==
  ASSUME SlotsInv, NEW o \in Offers, NEW f, OfferRight(f, Slots[o]),
         offer' = [offer EXCEPT ![o] = f], Accepting' \subseteq Accepting,
         HasSlots(f, o, Accepting')
  PROVE  SlotsInv'
<1>1. /\ \A n \in Offers : offer'[n] = IF n = o THEN f ELSE offer[n]
      /\ offer' = [n \in Offers |-> offer'[n]]
  BY DEF SlotsInv, OffersRight
<1>2. OffersRight'
  BY <1>1 DEF SlotsInv, OffersRight
<1>3. AcceptsRight'
  BY <1>1 DEF SlotsInv, AcceptsRight, HasSlots
<1>4. QED
  BY <1>2, <1>3 DEF SlotsInv

LEMMA AcceptOfferStep ==
  ASSUME SlotsInv, NEW t \in holding, acceptOffer(t)  PROVE SlotsInv'
<1> DEFINE o == t.offer
           d == t.driver
           old == offer[o]
           count == old.count + 1
           status == IF count >= Slots[o] THEN "CLOSED" ELSE old.status
           answers == [old.answers EXCEPT ![d] = "ACCEPTED"]
           f == [old EXCEPT !.count = count, !.status = status, !.answers = answers]
<1>1. t \in Accepting /\ Accepting' = Accepting \ {t} /\ offer' = [offer EXCEPT ![o] = f]
  BY DEF acceptOffer, Ends, Accepting
<1>2. /\ o \in Offers /\ d \in Drivers /\ old.count < Slots[o] /\ old.answers[d] = "NONE"
      /\ \A u \in Accepting : u.offer = o => u = t
  BY <1>1 DEF SlotsInv, AcceptsRight
<1>3. OfferRight(old, Slots[o]) /\ Slots[o] \in Nat
  BY <1>2, OfferAssumption DEF SlotsInv, OffersRight
<1> HIDE DEF o, d, old
<1>4. /\ answers = [e \in Drivers |-> IF e = d THEN "ACCEPTED" ELSE old.answers[e]]
      /\ answers = [e \in Drivers |-> answers[e]]
  BY <1>3 DEF OfferRight
<1>5. /\ Accepted(answers) = Accepted(old.answers) \cup {d}
      /\ d \notin Accepted(old.answers)
  BY <1>2, <1>4 DEF Accepted
<1>6. IsFiniteSet(Accepted(old.answers))
  BY OfferAssumption, FS_Subset DEF Accepted
<1> HIDE DEF answers
<1>7. Cardinality(Accepted(answers)) = count
  BY <1>3, <1>5, <1>6, FS_AddElement DEF OfferRight
<1>8. count \in Nat /\ count <= Slots[o] /\ (count = Slots[o] => status = "CLOSED")
  BY <1>2, <1>3 DEF OfferRight
<1> HIDE DEF count, status
<1>9. DOMAIN f = OfferFields /\ f.count = count /\ f.status = status /\ f.answers = answers
  BY <1>3 DEF OfferRight, OfferFields
<1> HIDE DEF f
<1>10. OfferRight(f, Slots[o])
  BY <1>4, <1>7, <1>8, <1>9 DEF OfferRight
<1>11. HasSlots(f, o, Accepting')
  BY <1>1, <1>2 DEF HasSlots
<1>12. QED
  BY <1>1, <1>2, <1>10, <1>11, OneOfferChanges

LEMMA DismissStep ==
  ASSUME SlotsInv, NEW o \in Offers, NEW d \in Drivers, dismissOffer(d, o)  PROVE SlotsInv'
<1> DEFINE old == offer[o]
           answers == [old.answers EXCEPT ![d] = "DISMISSED"]
           f == [old EXCEPT !.answers = answers]
<1>1. /\ offer' = [offer EXCEPT ![o] = f] /\ Accepting' = Accepting
      /\ old.answers[d] = "NONE"
      /\ \A t \in Accepting : ~(t.offer = o /\ t.driver = d)
  BY DEF dismissOffer, Accepting
<1>2. OfferRight(old, Slots[o])
  BY DEF SlotsInv, OffersRight
<1>3. \A t \in Accepting : t.offer = o =>
        old.count < Slots[o] /\ old.answers[t.driver] = "NONE" /\ t.driver \in Drivers
  BY DEF SlotsInv, AcceptsRight
<1> HIDE DEF old
<1>4. answers = [e \in Drivers |-> IF e = d THEN "DISMISSED" ELSE old.answers[e]]
  BY <1>2 DEF OfferRight
<1>5. Accepted(answers) = Accepted(old.answers) /\ answers = [e \in Drivers |-> answers[e]]
  BY <1>1, <1>4 DEF Accepted
<1> HIDE DEF answers
<1>6. /\ DOMAIN f = OfferFields /\ f.count = old.count /\ f.status = old.status
      /\ f.answers = answers
  BY <1>2 DEF OfferRight, OfferFields
<1> HIDE DEF f
<1>7. OfferRight(f, Slots[o])
  BY <1>2, <1>5, <1>6 DEF OfferRight
<1>8. \A t \in Accepting : t.offer = o => f.count < Slots[o] /\ f.answers[t.driver] = "NONE"
  BY <1>1, <1>3, <1>4, <1>6
<1>9. HasSlots(f, o, Accepting')
  BY <1>1, <1>8 DEF HasSlots
<1>10. offer' = [offer EXCEPT ![o] = f] /\ Accepting' \subseteq Accepting
  BY <1>1 DEF f, answers, old
<1>11. QED
  BY <1>7, <1>9, <1>10, OneOfferChanges

LEMMA CloseOfferStep ==
  ASSUME SlotsInv, NEW o \in Offers, closeOffer(o)  PROVE SlotsInv'
<1> DEFINE old == offer[o]
           f == [old EXCEPT !.status = "CLOSED"]
<1>1. /\ offer' = [offer EXCEPT ![o] = f] /\ Accepting' = Accepting
      /\ \A t \in Accepting : t.offer # o
  BY DEF closeOffer, Accepting, OfferFree
<1>2. OfferRight(old, Slots[o])
  BY DEF SlotsInv, OffersRight
<1> HIDE DEF old
<1>3. /\ DOMAIN f = OfferFields /\ f.count = old.count /\ f.status = "CLOSED"
      /\ f.answers = old.answers
  BY <1>2 DEF OfferRight, OfferFields
<1> HIDE DEF f
<1>4. OfferRight(f, Slots[o])
  BY <1>2, <1>3 DEF OfferRight
<1>5. HasSlots(f, o, Accepting')
  BY <1>1 DEF HasSlots
<1>6. QED
  BY <1>1, <1>4, <1>5, OneOfferChanges

LEMMA AcceptReadsStep ==
  ASSUME SlotsInv, NEW d \in Drivers, NEW o \in Offers, NEW l \in Links,
         acceptOfferReads(d, o, l)
  PROVE  SlotsInv'
<1> DEFINE t == Txn("acceptOffer", d, l, o, None)
<1>1. /\ holding' = holding \cup {t} /\ offer' = offer
      /\ offer[o].count < Slots[o] /\ offer[o].answers[d] = "NONE"
      /\ \A u \in holding : u.offer # o
  BY DEF acceptOfferReads, Holds, HasRoom, OfferFree
<1>2. t.op = "acceptOffer" /\ t.driver = d /\ t.offer = o
  BY DEF Txn
<1> HIDE DEF t
<1>3. Accepting' = Accepting \cup {t}
  BY <1>1, <1>2 DEF Accepting
<1>4. \A u \in Accepting : u.offer # o
  BY <1>1 DEF Accepting
<1>5. QED
  BY <1>1, <1>2, <1>3, <1>4 DEF SlotsInv, OffersRight, AcceptsRight

(* Steps that hold or end another transaction than an acceptance, or none.     *)
LEMMA SlotsStep == ASSUME SlotsInv, [Next]_vars  PROVE SlotsInv'
<1>1. ASSUME offer' = offer, holding' = holding  PROVE SlotsInv'
  BY <1>1, SlotsSame DEF Accepting
<1>2. ASSUME offer' = offer, NEW t, holding' = holding \ {t}  PROVE SlotsInv'
  BY <1>2, SlotsSame DEF Accepting
<1>3. ASSUME offer' = offer, NEW t, holding' = holding \cup {t}, t.op # "acceptOffer"
      PROVE  SlotsInv'
  BY <1>3, SlotsSame DEF Accepting
<1>4. ASSUME NEW l \in Links, NEW d \in Drivers, NEW o \in Offers, acceptOfferReads(d, o, l)
      PROVE  SlotsInv'
  BY <1>4, AcceptReadsStep
<1>5. ASSUME NEW l \in Links,
             \/ \E d \in Drivers : \E schedule : inviteDriver(l, d, schedule)
             \/ \E schedule : proposeLinkTerms(l, schedule)
             \/ rejectLinkTermsChange(l) \/ removeLink(l)
      PROVE  SlotsInv'
  BY <1>1, <1>5 DEF inviteDriver, proposeLinkTerms, rejectLinkTermsChange, removeLink
<1>6. ASSUME NEW l \in Links, confirmLinkReads(l)  PROVE SlotsInv'
  <2> DEFINE t == Txn("confirmLink", link[l].driver, l, None, None)
  <2>1. offer' = offer /\ holding' = holding \cup {t}
    BY <1>6 DEF confirmLinkReads, Holds
  <2>2. t.op # "acceptOffer"
    BY DEF Txn
  <2> HIDE DEF t
  <2>3. QED
    BY <1>3, <2>1, <2>2
<1>7. ASSUME NEW l \in Links, confirmTermsReads(l)  PROVE SlotsInv'
  <2> DEFINE t == Txn("confirmLinkTermsChange", link[l].driver, l, None, None)
  <2>1. offer' = offer /\ holding' = holding \cup {t}
    BY <1>7 DEF confirmTermsReads, Holds
  <2>2. t.op # "acceptOffer"
    BY DEF Txn
  <2> HIDE DEF t
  <2>3. QED
    BY <1>3, <2>1, <2>2
<1>8. ASSUME NEW x \in Auths, decideAuthorizationReads(x)  PROVE SlotsInv'
  <2> DEFINE l == auth[x].link
             t == Txn("decideShiftAuthorization", link[l].driver, l, None, x)
  <2>1. offer' = offer /\ holding' = holding \cup {t}
    BY <1>8 DEF decideAuthorizationReads, Holds
  <2>2. t.op # "acceptOffer"
    BY DEF Txn
  <2> HIDE DEF t
  <2>3. QED
    BY <1>3, <2>1, <2>2
<1>9. ASSUME NEW l \in Links, NEW o, startShiftReads(l, o)  PROVE SlotsInv'
  <2> DEFINE t == [Txn("startShift", link[l].driver, l, None, o.auth) EXCEPT !.offer = o]
  <2>1. offer' = offer /\ holding' = holding \cup {t}
    BY <1>9 DEF startShiftReads, Holds
  <2>2. t.op # "acceptOffer"
    BY DEF Txn
  <2> HIDE DEF t
  <2>3. QED
    BY <1>3, <2>1, <2>2
<1>10. ASSUME NEW l \in Links, NEW x, NEW o, NEW until, NEW extra,
              createShiftAuthorization(x, l, o, until, extra)
       PROVE  SlotsInv'
  BY <1>1, <1>10 DEF createShiftAuthorization
<1>11. ASSUME NEW t \in holding,
              \/ confirmLink(t) \/ confirmLinkTermsChange(t) \/ acceptShiftAuthorization(t)
              \/ startShift(t)
       PROVE  SlotsInv'
  BY <1>2, <1>11
  DEF confirmLink, confirmLinkTermsChange, acceptShiftAuthorization, startShift, Ends
<1>12. ASSUME NEW t \in holding, acceptOffer(t)  PROVE SlotsInv'
  BY <1>12, AcceptOfferStep
<1>13. ASSUME NEW o \in Offers, closeOffer(o) \/ \E d \in Drivers : dismissOffer(d, o)
       PROVE  SlotsInv'
  BY <1>13, CloseOfferStep, DismissStep
<1>14. ASSUME NEW x \in Auths, rejectShiftAuthorization(x) \/ cancelShiftAuthorization(x)
       PROVE  SlotsInv'
  BY <1>1, <1>14 DEF rejectShiftAuthorization, cancelShiftAuthorization
<1>15. ASSUME NEW s \in shift,
              \/ \E to : endShift(s, to)
              \/ decideShiftDaily(s) \/ offerShiftReactivation(s) \/ reactivateShift(s)
       PROVE  SlotsInv'
  BY <1>1, <1>15 DEF endShift, decideShiftDaily, offerShiftReactivation, reactivateShift
<1>16. CASE TimePasses \/ UNCHANGED vars
  BY <1>1, <1>16 DEF TimePasses, vars
<1>17. QED
  BY <1>4, <1>5, <1>6, <1>7, <1>8, <1>9, <1>10, <1>11, <1>12, <1>13, <1>14, <1>15, <1>16
  DEF Next

(* However acceptances, dismissals and closings race for the last slots, the   *)
(* slots that are gone are the drivers who accepted, and none beyond.          *)
THEOREM OfferSlots == Spec => []OfferKeepsCount
<1>1. Init => SlotsInv
  BY SlotsInit
<1>2. SlotsInv /\ [Next]_vars => SlotsInv'
  BY SlotsStep
<1>3. SlotsInv => OfferKeepsCount
  BY DEF SlotsInv, OffersRight, OfferRight, OfferKeepsCount, Accepted
<1>4. QED
  BY <1>1, <1>2, <1>3, PTL DEF Spec
-----------------------------------------------------------------------------
(* Links and shifts.                                                           *)

LinkFields == {"driver", "status", "schedule", "pending", "expiresAt"}
AuthFields == {"link", "date", "start", "end", "until", "status"}
ShiftFields ==
  {"driver", "link", "date", "start", "end", "regular", "status", "reopened", "until"}

LinkRight(k) ==
  \/ k = NoLink
  \/ /\ DOMAIN k = LinkFields /\ k.driver \in Drivers
     /\ Agenda(k.schedule) /\ (k.pending # None => Agenda(k.pending))

LinksRight == link = [l \in Links |-> link[l]] /\ \A l \in Links : LinkRight(link[l])

AuthRight(a) == DOMAIN a = AuthFields /\ a.link \in Links /\ Window(a)

AuthsRight ==
  /\ auth = [x \in Auths |-> auth[x]]
  /\ \A x \in Auths : auth[x] # None => AuthRight(auth[x])

ShiftsRight ==
  /\ \A s \in shift : DOMAIN s = ShiftFields /\ s.link \in Links /\ Window(s)
  /\ ShiftsDoNotOverlap

Under(schedule, w) ==
  \E o \in occurrenceForWorkDate(schedule, w.date) : o.start = w.start /\ o.end = w.end

Working(s) == s.status = "ACTIVE" /\ ~s.reopened

Keeps(k, s) == k.status = "CONFIRMED" /\ (s.regular => Under(k.schedule, s))

LinksKept == \A s \in shift : Working(s) => Keeps(link[s.link], s)

(* What a transaction read still holds when it writes.                         *)
StartRight(t, k, shifts) ==
  /\ k.status = "CONFIRMED" /\ Window(t.offer)
  /\ t.offer.auth = None => Under(k.schedule, t.offer)
  /\ \A s \in shifts : s.driver = t.driver =>
       ~overlaps(<<s.start, s.end>>, <<t.offer.start, t.offer.end>>)

TermsRight(t, k, shifts) ==
  /\ k.status = "CONFIRMED" /\ k.pending # None
  /\ k.pending # k.schedule => \A s \in shifts : s.link = t.link => ~Working(s)

Deciding(t) ==
  \/ t.op = "decideShiftAuthorization"
  \/ t.op = "startShift" /\ t.offer.auth # None

TxnRight(t) ==
  /\ t.link \in Links
  /\ t.op = "startShift" => StartRight(t, link[t.link], shift) /\ t.auth = t.offer.auth
  /\ t.op = "confirmLinkTermsChange" => TermsRight(t, link[t.link], shift)
  /\ t.op = "confirmLink" => Exists(t.link)
  /\ t.op = "acceptOffer" => ~Exists(t.link) /\ t.driver \in Drivers /\ t.offer \in Offers
  /\ Deciding(t) => t.auth \in Auths /\ AuthRight(auth[t.auth])

(* One transaction at a time has a driver's row and a link's.                  *)
Apart(t, u) == t.driver # u.driver /\ t.link # u.link

TxnsRight ==
  /\ \A t \in holding : TxnRight(t)
  /\ \A t, u \in holding : t = u \/ Apart(t, u)

BookInv ==
  now \in Int /\ LinksRight /\ AuthsRight /\ ShiftsRight /\ LinksKept /\ TxnsRight

LEMMA BookInit == Init => BookInv
<1>1. Start \in Int
  BY AgendaAssumption
<1>2. QED
  BY <1>1 DEF Init, BookInv, LinksRight, LinkRight, AuthsRight, ShiftsRight, ShiftsDoNotOverlap,
              LinksKept, TxnsRight

(* Steps keep the windows of authorizations that exist.                        *)
AuthsKept == \A x \in Auths : AuthRight(auth[x]) => AuthRight(auth'[x])

LEMMA AuthsSame == ASSUME AuthsRight, auth' = auth  PROVE AuthsRight' /\ AuthsKept
BY DEF AuthsRight, AuthsKept

LEMMA AuthDecided ==
  ASSUME AuthsRight, NEW x \in Auths, AuthRight(auth[x]), NEW status,
         auth' = [auth EXCEPT ![x] = [auth[x] EXCEPT !.status = status]]
  PROVE  AuthsRight' /\ AuthsKept
<1> DEFINE a == auth[x]
           b == [a EXCEPT !.status = status]
<1>1. DOMAIN b = AuthFields /\ b.date = a.date /\ b.start = a.start /\ b.end = a.end
      /\ b.link = a.link
  BY DEF AuthRight, AuthFields
<1> HIDE DEF b
<1>2. AuthRight(b)
  BY <1>1 DEF AuthRight, Window
<1>3. /\ auth' = [y \in Auths |-> auth'[y]]
      /\ \A y \in Auths : auth'[y] = IF y = x THEN b ELSE auth[y]
  BY DEF AuthsRight, b
<1>4. QED
  BY <1>2, <1>3 DEF AuthsRight, AuthsKept

(* Shifts of a step are those of before, or none of a transaction's business.  *)
Comes(s, t) ==
  \/ s \in shift
  \/ s.driver # t.driver /\ s.link # t.link
  \/ ~Working(s) /\ \E z \in shift : z.driver = s.driver /\ z.start = s.start /\ z.end = s.end

LEMMA TxnStays ==
  ASSUME NEW t, TxnRight(t), AuthsKept, link'[t.link] = link[t.link],
         \A s \in shift' : Comes(s, t)
  PROVE  TxnRight(t)'
<1>1. t.op = "startShift" => StartRight(t, link'[t.link], shift')
  BY DEF TxnRight, StartRight, Comes
<1>2. t.op = "confirmLinkTermsChange" => TermsRight(t, link'[t.link], shift')
  BY DEF TxnRight, TermsRight, Comes
<1>3. Deciding(t) => t.auth \in Auths /\ AuthRight(auth'[t.auth])
  BY DEF TxnRight, AuthsKept
<1>4. QED
  BY <1>1, <1>2, <1>3 DEF TxnRight, Exists

(* A step that changes no link and no shift.                                   *)
LEMMA QuietStep ==
  ASSUME BookInv, link' = link, shift' = shift, holding' \subseteq holding,
         AuthsRight', AuthsKept, now' \in Int
  PROVE  BookInv'
<1>1. \A t \in holding' : TxnRight(t)'
  BY TxnStays DEF BookInv, TxnsRight, Comes
<1>2. QED
  BY <1>1 DEF BookInv, LinksRight, ShiftsRight, ShiftsDoNotOverlap, LinksKept, TxnsRight

(* A transaction begins, having read what it needs.                            *)
LEMMA HoldStep ==
  ASSUME BookInv, NEW t, Holds(t), TxnRight(t), UserFree(t.driver), LinkFree(t.link)
  PROVE  BookInv'
<1>1. /\ holding' = holding \cup {t} /\ link' = link /\ shift' = shift /\ auth' = auth
      /\ now' = now
  BY DEF Holds
<1>2. AuthsRight' /\ AuthsKept
  BY <1>1, AuthsSame DEF BookInv
<1>3. \A u \in holding' : TxnRight(u)'
  BY <1>1, <1>2, TxnStays DEF BookInv, TxnsRight, Comes
<1>4. \A u, v \in holding' : u = v \/ Apart(u, v)
  BY <1>1 DEF BookInv, TxnsRight, Apart, UserFree, LinkFree
<1>5. QED
  BY <1>1, <1>2, <1>3, <1>4
  DEF BookInv, LinksRight, ShiftsRight, ShiftsDoNotOverlap, LinksKept, TxnsRight

(* A link changes that no other transaction has locked, and not under a shift. *)
Harmless(l, k) ==
  \A s \in shift : s.link = l /\ Working(s) => k.status = "CONFIRMED" /\ k.schedule = link[l].schedule

LEMMA LinkStep ==
  ASSUME BookInv, NEW l \in Links, NEW k, link' = [link EXCEPT ![l] = k], LinkRight(k),
         Harmless(l, k), shift' = shift, holding' \subseteq holding,
         \A t \in holding' : t.link # l, AuthsRight', AuthsKept, now' = now
  PROVE  BookInv'
<1>1. /\ link' = [m \in Links |-> link'[m]]
      /\ \A m \in Links : link'[m] = IF m = l THEN k ELSE link[m]
  BY DEF BookInv, LinksRight
<1>2. LinksRight'
  BY <1>1 DEF BookInv, LinksRight
<1>3. LinksKept'
  <2> SUFFICES ASSUME NEW s \in shift, Working(s)  PROVE Keeps(link'[s.link], s)
    BY DEF LinksKept
  <2>1. Keeps(link[s.link], s) /\ s.link \in Links
    BY DEF BookInv, LinksKept, ShiftsRight
  <2>2. QED
    BY <1>1, <2>1 DEF Keeps, Harmless
<1>4. \A t \in holding' : TxnRight(t)'
  <2> SUFFICES ASSUME NEW t \in holding'  PROVE TxnRight(t)'
    OBVIOUS
  <2>1. TxnRight(t) /\ t.link # l /\ t.link \in Links
    BY DEF BookInv, TxnsRight, TxnRight
  <2>2. link'[t.link] = link[t.link]
    BY <1>1, <2>1
  <2>3. QED
    BY <2>1, <2>2, TxnStays DEF Comes
<1>5. QED
  BY <1>2, <1>3, <1>4 DEF BookInv, ShiftsRight, ShiftsDoNotOverlap, TxnsRight

(* A shift changes its status, and is not working then.                        *)
LEMMA ShiftStep ==
  ASSUME BookInv, NEW s \in shift, NEW z, shift' = (shift \ {s}) \cup {z},
         DOMAIN z = ShiftFields, z.driver = s.driver, z.link = s.link,
         z.date = s.date, z.start = s.start, z.end = s.end, ~Working(z),
         link' = link, auth' = auth, holding' = holding, now' = now
  PROVE  BookInv'
<1>1. AuthsRight' /\ AuthsKept
  BY AuthsSame DEF BookInv
<1>2. \A t \in holding : TxnRight(t)'
  BY <1>1, TxnStays DEF BookInv, TxnsRight, Comes
<1>3. ShiftsDoNotOverlap'
  BY DEF BookInv, ShiftsRight, ShiftsDoNotOverlap
<1>4. ShiftsRight'
  BY <1>3 DEF BookInv, ShiftsRight, Window
<1>5. LinksKept'
  BY DEF BookInv, LinksKept
<1>6. QED
  BY <1>1, <1>2, <1>4, <1>5 DEF BookInv, LinksRight, TxnsRight

LEMMA NoLinkStays == ASSUME NEW e  PROVE [NoLink EXCEPT !.expiresAt = e] = NoLink
<1>1. /\ DOMAIN [NoLink EXCEPT !.expiresAt = e] = {"status"} /\ DOMAIN NoLink = {"status"}
      /\ [NoLink EXCEPT !.expiresAt = e].status = NoLink.status
      /\ NoLink = [i \in {"status"} |-> NoLink[i]]
      /\ [NoLink EXCEPT !.expiresAt = e] = [i \in {"status"} |-> [NoLink EXCEPT !.expiresAt = e][i]]
  BY DEF NoLink
<1>2. QED
  BY <1>1

(* What a link lets its working shifts be.                                     *)
LEMMA KeptBy ==
  ASSUME BookInv, NEW l, NEW s \in shift, s.link = l, Working(s)
  PROVE  link[l].status = "CONFIRMED" /\ Exists(l) /\ ActiveShift(l)
BY DEF BookInv, LinksKept, Keeps, Exists, ActiveShift, Working

LEMMA InviteStep ==
  ASSUME BookInv, NEW l \in Links, NEW d \in Drivers, NEW schedule \in Schedules[d],
         inviteDriver(l, d, schedule)
  PROVE  BookInv'
<1> DEFINE k == NewLink(d, "INVITED", schedule)
<1>1. /\ link' = [link EXCEPT ![l] = k] /\ ~Exists(l) /\ LinkFree(l)
      /\ shift' = shift /\ holding' = holding /\ auth' = auth /\ now' = now
  BY DEF inviteDriver
<1>2. /\ DOMAIN k = LinkFields /\ k.driver = d /\ k.schedule = schedule /\ k.pending = None
  BY DEF NewLink, LinkFields
<1> HIDE DEF k
<1>3. LinkRight(k)
  BY <1>2, AgendaAssumption DEF LinkRight
<1>4. Harmless(l, k)
  BY <1>1, KeptBy DEF Harmless
<1>5. AuthsRight' /\ AuthsKept
  BY <1>1, AuthsSame DEF BookInv
<1>6. QED
  BY <1>1, <1>3, <1>4, <1>5, LinkStep DEF LinkFree

(* A link that exists changes its status, its pending terms or its end.        *)
LEMMA LinkFieldsKept ==
  ASSUME NEW k, DOMAIN k = LinkFields, NEW x
  PROVE  /\ LET n == [k EXCEPT !.status = x]
            IN DOMAIN n = LinkFields /\ n.driver = k.driver /\ n.schedule = k.schedule
                 /\ n.pending = k.pending /\ n.status = x
         /\ LET n == [k EXCEPT !.pending = x]
            IN DOMAIN n = LinkFields /\ n.driver = k.driver /\ n.schedule = k.schedule
                 /\ n.pending = x /\ n.status = k.status
         /\ LET n == [k EXCEPT !.expiresAt = x]
            IN DOMAIN n = LinkFields /\ n.driver = k.driver /\ n.schedule = k.schedule
                 /\ n.pending = k.pending /\ n.status = k.status
BY DEF LinkFields

LEMMA RemoveStep == ASSUME BookInv, NEW l \in Links, removeLink(l)  PROVE BookInv'
<1> DEFINE old == link[l]
           k == [old EXCEPT !.status = "REMOVED", !.pending = None]
<1>1. /\ link' = [link EXCEPT ![l] = k] /\ Exists(l) /\ LinkFree(l) /\ ~ActiveShift(l)
      /\ shift' = shift /\ holding' = holding /\ auth' = auth /\ now' = now
  BY DEF removeLink
<1>2. DOMAIN old = LinkFields /\ old.driver \in Drivers /\ Agenda(old.schedule)
  BY <1>1 DEF BookInv, LinksRight, LinkRight, Exists, NoLink
<1> HIDE DEF old
<1>3. DOMAIN k = LinkFields /\ k.driver = old.driver /\ k.schedule = old.schedule /\ k.pending = None
  BY <1>2 DEF LinkFields
<1> HIDE DEF k
<1>4. LinkRight(k)
  BY <1>2, <1>3 DEF LinkRight
<1>5. Harmless(l, k)
  BY <1>1, KeptBy DEF Harmless
<1>6. AuthsRight' /\ AuthsKept
  BY <1>1, AuthsSame DEF BookInv
<1>7. QED
  BY <1>1, <1>4, <1>5, <1>6, LinkStep DEF LinkFree

LEMMA PendingStep ==
  ASSUME BookInv, NEW l \in Links, NEW pending, pending # None => Agenda(pending),
         Exists(l), LinkFree(l),
         link' = [link EXCEPT ![l] = [link[l] EXCEPT !.pending = pending]],
         shift' = shift, holding' = holding, auth' = auth, now' = now
  PROVE  BookInv'
<1> DEFINE old == link[l]
           k == [old EXCEPT !.pending = pending]
<1>1. DOMAIN old = LinkFields /\ old.driver \in Drivers /\ Agenda(old.schedule)
  BY DEF BookInv, LinksRight, LinkRight, Exists, NoLink
<1>2. /\ DOMAIN k = LinkFields /\ k.driver = old.driver /\ k.schedule = old.schedule
      /\ k.pending = pending /\ k.status = old.status
  BY <1>1, LinkFieldsKept
<1>3. link' = [link EXCEPT ![l] = k]
  OBVIOUS
<1> HIDE DEF k
<1>4. LinkRight(k)
  BY <1>1, <1>2 DEF LinkRight
<1>5. Harmless(l, k)
  BY <1>2, KeptBy DEF Harmless
<1>6. AuthsRight' /\ AuthsKept
  BY AuthsSame DEF BookInv
<1>7. QED
  BY <1>3, <1>4, <1>5, <1>6, LinkStep DEF LinkFree

(* The end of a link changes when an authorization is accepted or withdrawn.   *)
LEMMA ExpiryStep ==
  ASSUME BookInv, NEW l, NEW expiry,
         link' = [link EXCEPT ![l] = [link[l] EXCEPT !.expiresAt = expiry]],
         shift' = shift, holding' \subseteq holding, \A t \in holding' : t.link # l,
         AuthsRight', AuthsKept, now' = now
  PROVE  BookInv'
<1> DEFINE old == link[l]
           k == [old EXCEPT !.expiresAt = expiry]
<1>1. CASE l \notin Links
  <2>1. link' = link
    BY <1>1 DEF BookInv, LinksRight
  <2>2. QED
    BY <2>1, QuietStep DEF BookInv
<1>2. CASE l \in Links
  <2>1. LinkRight(old)
    BY <1>2 DEF BookInv, LinksRight
  <2>2. LinkRight(k) /\ (old.status = "CONFIRMED" => k.status = "CONFIRMED" /\ k.schedule = old.schedule)
    <3>1. CASE old = NoLink
      <4>1. k = NoLink
        BY <3>1, NoLinkStays
      <4>2. QED
        BY <3>1, <4>1 DEF LinkRight, NoLink
    <3>2. CASE old # NoLink
      <4> HIDE DEF old
      <4>1. /\ DOMAIN k = LinkFields /\ k.driver = old.driver /\ k.schedule = old.schedule
            /\ k.pending = old.pending /\ k.status = old.status
        BY <2>1, <3>2, LinkFieldsKept DEF LinkRight
      <4> HIDE DEF k
      <4>2. QED
        BY <2>1, <3>2, <4>1 DEF LinkRight
    <3>3. QED
      BY <3>1, <3>2
  <2>3. link' = [link EXCEPT ![l] = k]
    OBVIOUS
  <2> HIDE DEF k
  <2>4. Harmless(l, k)
    BY <2>2, KeptBy DEF Harmless
  <2>5. QED
    BY <1>2, <2>2, <2>3, <2>4, LinkStep
<1>3. QED
  BY <1>1, <1>2

(* What the transactions read.                                                 *)
LEMMA ReadsStep ==
  ASSUME BookInv, NEW l \in Links,
         \/ confirmLinkReads(l) \/ confirmTermsReads(l)
         \/ \E d \in Drivers, o \in Offers : acceptOfferReads(d, o, l)
  PROVE  BookInv'
<1>1. CASE confirmLinkReads(l)
  <2> DEFINE t == Txn("confirmLink", link[l].driver, l, None, None)
  <2>1. Holds(t) /\ Exists(l) /\ UserFree(link[l].driver) /\ LinkFree(l)
    BY <1>1 DEF confirmLinkReads
  <2>2. t.op = "confirmLink" /\ t.link = l /\ t.driver = link[l].driver
    BY DEF Txn
  <2> HIDE DEF t
  <2>3. TxnRight(t)
    BY <2>1, <2>2 DEF TxnRight, Deciding
  <2>4. QED
    BY <2>1, <2>2, <2>3, HoldStep
<1>2. CASE confirmTermsReads(l)
  <2> DEFINE t == Txn("confirmLinkTermsChange", link[l].driver, l, None, None)
  <2>1. /\ Holds(t) /\ Confirmed(l) /\ UserFree(link[l].driver) /\ LinkFree(l)
        /\ link[l].pending # None
        /\ link[l].pending # link[l].schedule => ~ActiveShift(l)
    BY <1>2 DEF confirmTermsReads
  <2>2. t.op = "confirmLinkTermsChange" /\ t.link = l /\ t.driver = link[l].driver
    BY DEF Txn
  <2> HIDE DEF t
  <2>3. TxnRight(t)
    BY <2>1, <2>2 DEF TxnRight, Deciding, TermsRight, Confirmed, ActiveShift, Working
  <2>4. QED
    BY <2>1, <2>2, <2>3, HoldStep
<1>3. ASSUME NEW d \in Drivers, NEW o \in Offers, acceptOfferReads(d, o, l)  PROVE BookInv'
  <2> DEFINE t == Txn("acceptOffer", d, l, o, None)
  <2>1. Holds(t) /\ ~Exists(l) /\ UserFree(d) /\ LinkFree(l)
    BY <1>3 DEF acceptOfferReads
  <2>2. t.op = "acceptOffer" /\ t.link = l /\ t.driver = d /\ t.offer = o
    BY DEF Txn
  <2> HIDE DEF t
  <2>3. TxnRight(t)
    BY <2>1, <2>2 DEF TxnRight, Deciding
  <2>4. QED
    BY <2>1, <2>2, <2>3, HoldStep
<1>4. QED
  BY <1>1, <1>2, <1>3

LEMMA DecideReadsStep ==
  ASSUME BookInv, NEW x \in Auths, decideAuthorizationReads(x)  PROVE BookInv'
<1> DEFINE l == auth[x].link
           t == Txn("decideShiftAuthorization", link[l].driver, l, None, x)
<1>1. Holds(t) /\ auth[x] # None /\ UserFree(link[l].driver) /\ LinkFree(l)
  BY DEF decideAuthorizationReads
<1>2. AuthRight(auth[x]) /\ l \in Links
  BY <1>1 DEF BookInv, AuthsRight, AuthRight
<1> HIDE DEF l
<1>3. t.op = "decideShiftAuthorization" /\ t.link = l /\ t.driver = link[l].driver /\ t.auth = x
  BY DEF Txn
<1> HIDE DEF t
<1>4. TxnRight(t)
  BY <1>1, <1>2, <1>3 DEF TxnRight, Deciding
<1>5. QED
  BY <1>1, <1>3, <1>4, HoldStep

LEMMA TodayIsADay == ASSUME now \in Int  PROVE now \div DAY \in Int
BY DayAssumption

(* What startShift starts is of the link's agenda, or of an authorization.     *)
LEMMA StartableRight ==
  ASSUME BookInv, NEW l \in Links, Confirmed(l), NEW o \in Startable(l)
  PROVE  /\ Window(o)
         /\ o.auth = None => Under(link[l].schedule, o)
         /\ o.auth # None => o.auth \in Auths /\ AuthRight(auth[o.auth])
<1> DEFINE schedule == link[l].schedule
           regular == findStartOccurrence(schedule, now)
<1>1. Agenda(schedule)
  BY DEF BookInv, LinksRight, LinkRight, NoLink, Confirmed
<1> HIDE DEF schedule
<1>2. CASE regular # {}
  <2>1. PICK r \in regular : o = [date |-> r.date, start |-> r.start, end |-> r.end, auth |-> None]
    BY <1>2 DEF Startable, schedule
  <2>2. PICK k \in {-1, 0, 1} : r \in occurrenceForWorkDate(schedule, (now \div DAY) + k)
    BY <2>1 DEF findStartOccurrence
  <2>3. (now \div DAY) + k \in Int
    BY TodayIsADay DEF BookInv
  <2>4. Window(r) /\ r \in occurrenceForWorkDate(schedule, r.date)
    BY <1>1, <2>2, <2>3, OccurrenceWindow
  <2>5. o.date = r.date /\ o.start = r.start /\ o.end = r.end /\ o.auth = None
    BY <2>1
  <2>6. Window(o) /\ Under(schedule, o)
    BY <2>4, <2>5 DEF Window, Under
  <2>7. QED
    BY <2>5, <2>6 DEF schedule
<1>3. CASE regular = {}
  <2>1. PICK x \in Usable(l) :
          o = [date |-> auth[x].date, start |-> auth[x].start, end |-> auth[x].end, auth |-> x]
    BY <1>3 DEF Startable, schedule
  <2>2. x \in Auths /\ AuthRight(auth[x])
    BY <2>1 DEF Usable, AcceptedAuths, BookInv, AuthsRight
  <2>3. /\ o.date = auth[x].date /\ o.start = auth[x].start /\ o.end = auth[x].end
        /\ o.auth = x
    BY <2>1
  <2>4. Window(o)
    BY <2>2, <2>3 DEF AuthRight, Window
  <2>5. QED
    BY <2>2, <2>3, <2>4, NoneAssumption
<1>4. QED
  BY <1>2, <1>3

LEMMA StartReadsStep ==
  ASSUME BookInv, NEW l \in Links, NEW o, startShiftReads(l, o)  PROVE BookInv'
<1> DEFINE d == link[l].driver
           t == [Txn("startShift", d, l, None, o.auth) EXCEPT !.offer = o]
<1>1. /\ Holds(t) /\ Confirmed(l) /\ o \in Startable(l) /\ UserFree(d) /\ LinkFree(l)
      /\ Prior(d, o) = {}
  BY DEF startShiftReads
<1>2. /\ t.op = "startShift" /\ t.link = l /\ t.driver = d /\ t.offer = o /\ t.auth = o.auth
  BY DEF Txn
<1> HIDE DEF t, d
<1>3. /\ Window(o)
      /\ o.auth = None => Under(link[l].schedule, o)
      /\ o.auth # None => o.auth \in Auths /\ AuthRight(auth[o.auth])
  BY <1>1, StartableRight
<1>4. \A s \in shift : s.driver = d => ~overlaps(<<s.start, s.end>>, <<o.start, o.end>>)
  BY <1>1, <1>3, FarWindows DEF Prior, BookInv, ShiftsRight
<1>5. StartRight(t, link[l], shift)
  BY <1>1, <1>2, <1>3, <1>4 DEF StartRight, Confirmed
<1>6. TxnRight(t)
  BY <1>2, <1>3, <1>5 DEF TxnRight, Deciding
<1>7. QED
  BY <1>1, <1>2, <1>6, HoldStep

(* What the transactions write.                                                *)
LEMMA Alone ==
  ASSUME BookInv, NEW t \in holding
  PROVE  /\ TxnRight(t) /\ t.link \in Links
         /\ \A u \in holding \ {t} : TxnRight(u) /\ u.link # t.link /\ u.driver # t.driver
BY DEF BookInv, TxnsRight, TxnRight, Apart

LEMMA ConfirmStep == ASSUME BookInv, NEW t \in holding, confirmLink(t)  PROVE BookInv'
<1> DEFINE l == t.link
           old == link[l]
           k == [old EXCEPT !.status = "CONFIRMED"]
<1>1. /\ link' = [link EXCEPT ![l] = k] /\ holding' = holding \ {t}
      /\ shift' = shift /\ auth' = auth /\ now' = now /\ t.op = "confirmLink"
  BY DEF confirmLink, Ends
<1>2. l \in Links /\ Exists(l) /\ \A u \in holding' : u.link # l
  BY <1>1, Alone DEF TxnRight
<1>3. LinkRight(old) /\ DOMAIN old = LinkFields
  BY <1>2 DEF BookInv, LinksRight, LinkRight, Exists, NoLink
<1> HIDE DEF l
<1>4. /\ DOMAIN k = LinkFields /\ k.driver = old.driver /\ k.schedule = old.schedule
      /\ k.pending = old.pending /\ k.status = "CONFIRMED"
  BY <1>3, LinkFieldsKept
<1> HIDE DEF k
<1>5. LinkRight(k)
  BY <1>2, <1>3, <1>4 DEF LinkRight, Exists, NoLink
<1>6. Harmless(l, k)
  BY <1>4 DEF Harmless
<1>7. AuthsRight' /\ AuthsKept
  BY <1>1, AuthsSame DEF BookInv
<1>8. QED
  BY <1>1, <1>2, <1>5, <1>6, <1>7, LinkStep

LEMMA TermsStep ==
  ASSUME BookInv, NEW t \in holding, confirmLinkTermsChange(t)  PROVE BookInv'
<1> DEFINE l == t.link
           old == link[l]
           expiry == IF old.pending # old.schedule THEN datedScheduleExpiry(old.pending)
                                                   ELSE old.expiresAt
           k == [old EXCEPT !.schedule = old.pending, !.pending = None, !.expiresAt = expiry]
<1>1. /\ link' = [link EXCEPT ![l] = k] /\ holding' = holding \ {t}
      /\ shift' = shift /\ auth' = auth /\ now' = now /\ t.op = "confirmLinkTermsChange"
  BY DEF confirmLinkTermsChange, Ends
<1>2. l \in Links /\ TermsRight(t, old, shift) /\ \A u \in holding' : u.link # l
  BY <1>1, Alone DEF TxnRight
<1>3. LinkRight(old) /\ old # NoLink
  BY <1>2 DEF BookInv, LinksRight, TermsRight, NoLink
<1> HIDE DEF l
<1>4. /\ DOMAIN k = LinkFields /\ k.driver = old.driver /\ k.schedule = old.pending
      /\ k.pending = None /\ k.status = old.status
  <2> HIDE DEF expiry, old
  <2>1. QED
    BY <1>3 DEF LinkFields, LinkRight
<1> HIDE DEF k
<1>5. LinkRight(k)
  BY <1>2, <1>3, <1>4 DEF LinkRight, TermsRight
<1>6. Harmless(l, k)
  BY <1>2, <1>4 DEF Harmless, TermsRight, l
<1>7. AuthsRight' /\ AuthsKept
  BY <1>1, AuthsSame DEF BookInv
<1>8. QED
  BY <1>1, <1>2, <1>5, <1>6, <1>7, LinkStep

LEMMA AcceptStep == ASSUME BookInv, NEW t \in holding, acceptOffer(t)  PROVE BookInv'
<1> DEFINE l == t.link
           k == NewLink(t.driver, "CONFIRMED", OfferSchedule[t.offer])
<1>1. /\ link' = [link EXCEPT ![l] = k] /\ holding' = holding \ {t}
      /\ shift' = shift /\ auth' = auth /\ now' = now /\ t.op = "acceptOffer"
  BY DEF acceptOffer, Ends
<1>2. /\ l \in Links /\ ~Exists(l) /\ t.driver \in Drivers /\ t.offer \in Offers
      /\ \A u \in holding' : u.link # l
  BY <1>1, Alone DEF TxnRight
<1>3. /\ DOMAIN k = LinkFields /\ k.driver = t.driver /\ k.pending = None
      /\ k.schedule = OfferSchedule[t.offer]
  BY DEF NewLink, LinkFields
<1> HIDE DEF k, l
<1>4. LinkRight(k)
  BY <1>2, <1>3, AgendaAssumption DEF LinkRight
<1>5. Harmless(l, k)
  BY <1>2, KeptBy DEF Harmless
<1>6. AuthsRight' /\ AuthsKept
  BY <1>1, AuthsSame DEF BookInv
<1>7. QED
  BY <1>1, <1>2, <1>4, <1>5, <1>6, LinkStep

LEMMA AcceptAuthStep ==
  ASSUME BookInv, NEW t \in holding, acceptShiftAuthorization(t)  PROVE BookInv'
<1> DEFINE l == t.link
           old == link[l].expiresAt
           expiry == IF old # Never /\ auth[t.auth].end > old THEN auth[t.auth].end ELSE old
           status == "ACCEPTED"
<1>1. /\ holding' = holding \ {t} /\ shift' = shift /\ now' = now
      /\ t.op = "decideShiftAuthorization"
      /\ auth' = [auth EXCEPT ![t.auth] = [auth[t.auth] EXCEPT !.status = status]]
      /\ link' = [link EXCEPT ![l] = [link[l] EXCEPT !.expiresAt = expiry]]
  BY DEF acceptShiftAuthorization, Ends
<1> HIDE DEF status, expiry
<1>2. t.auth \in Auths /\ AuthRight(auth[t.auth]) /\ \A u \in holding' : u.link # l
  BY <1>1, Alone DEF TxnRight, Deciding
<1>3. AuthsRight' /\ AuthsKept
  BY <1>1, <1>2, AuthDecided DEF BookInv
<1>4. QED
  BY <1>1, <1>2, <1>3, ExpiryStep

LEMMA StartStep == ASSUME BookInv, NEW t \in holding, startShift(t)  PROVE BookInv'
<1> DEFINE o == t.offer
           n == [driver |-> t.driver, link |-> t.link, date |-> o.date, start |-> o.start,
                 end |-> o.end, regular |-> o.auth = None, status |-> "ACTIVE",
                 reopened |-> FALSE, until |-> Never]
           used == "USED"
<1>1. /\ holding' = holding \ {t} /\ link' = link /\ now' = now /\ t.op = "startShift"
      /\ \/ shift' = shift /\ auth' = auth
         \/ /\ shift' = shift \cup {n}
            /\ auth' = IF o.auth = None THEN auth
                       ELSE [auth EXCEPT ![o.auth] = [auth[o.auth] EXCEPT !.status = used]]
  BY DEF startShift, Ends
<1>2. /\ TxnRight(t) /\ t.link \in Links /\ StartRight(t, link[t.link], shift)
      /\ \A u \in holding' : TxnRight(u) /\ u.link # t.link /\ u.driver # t.driver
  BY <1>1, Alone DEF TxnRight
<1> HIDE DEF used
<1>3. AuthsRight' /\ AuthsKept
  <2>1. CASE auth' = auth
    BY <2>1, AuthsSame DEF BookInv
  <2>2. CASE /\ o.auth # None
             /\ auth' = [auth EXCEPT ![o.auth] = [auth[o.auth] EXCEPT !.status = used]]
    <3>1. o.auth \in Auths /\ AuthRight(auth[o.auth])
      BY <1>1, <1>2, <2>2 DEF TxnRight, Deciding
    <3>2. QED
      BY <2>2, <3>1, AuthDecided DEF BookInv
  <2>3. QED
    BY <1>1, <2>1, <2>2
<1>4. CASE shift' = shift
  BY <1>1, <1>3, <1>4, QuietStep DEF BookInv
<1>5. CASE shift' = shift \cup {n}
  <2>1. /\ DOMAIN n = ShiftFields /\ n.driver = t.driver /\ n.link = t.link
        /\ n.date = o.date /\ n.start = o.start /\ n.end = o.end
        /\ n.regular => o.auth = None
    BY DEF ShiftFields
  <2> HIDE DEF n
  <2>2. \A u \in holding' : TxnRight(u)'
    BY <1>1, <1>2, <1>3, <1>5, <2>1, TxnStays DEF Comes
  <2>3. \A s \in shift : s.driver = n.driver =>
          ~overlaps(<<s.start, s.end>>, <<n.start, n.end>>)
            /\ ~overlaps(<<n.start, n.end>>, <<s.start, s.end>>)
    BY <1>2, <2>1 DEF StartRight, overlaps
  <2>4. ShiftsDoNotOverlap'
    BY <1>5, <2>3 DEF BookInv, ShiftsRight, ShiftsDoNotOverlap
  <2>5. Window(n)
    BY <1>2, <2>1 DEF StartRight, Window
  <2>6. ShiftsRight'
    BY <1>2, <1>5, <2>1, <2>4, <2>5 DEF BookInv, ShiftsRight
  <2>7. Keeps(link[n.link], n)
    BY <1>2, <2>1 DEF StartRight, Keeps, Under
  <2>8. LinksKept'
    BY <1>1, <1>5, <2>7 DEF BookInv, LinksKept
  <2>9. QED
    BY <1>1, <1>3, <2>2, <2>6, <2>8 DEF BookInv, LinksRight, TxnsRight
<1>6. QED
  BY <1>1, <1>4, <1>5

(* Authorizations asked for, refused and withdrawn.                            *)
LEMMA AskStep ==
  ASSUME BookInv, NEW x \in Auths, NEW l \in Links, NEW date \in Int, Exists(l),
         NEW o \in occurrenceForWorkDate(link[l].schedule, date), NEW until,
         NEW extra \in Extensions, createShiftAuthorization(x, l, o, until, extra)
  PROVE  BookInv'
<1> DEFINE a == [link |-> l, date |-> o.date, start |-> o.start, end |-> o.end + extra,
                 until |-> until, status |-> "PENDING"]
<1>1. /\ auth' = [y \in Auths |-> IF y = x THEN a
                    ELSE IF Lapsed(y, l, o.date) THEN [auth[y] EXCEPT !.status = "CANCELLED"]
                    ELSE auth[y]]
      /\ link' = link /\ shift' = shift /\ holding' = holding /\ now' = now
      /\ o.end + extra - o.start <= DAY
  BY DEF createShiftAuthorization
<1>2. Window(o)
  <2>1. Agenda(link[l].schedule)
    BY DEF BookInv, LinksRight, LinkRight, Exists, NoLink
  <2>2. QED
    BY <2>1, OccurrenceWindow
<1>3. extra \in Nat
  BY AgendaAssumption
<1>4. /\ DOMAIN a = AuthFields /\ a.link = l /\ a.date = o.date /\ a.start = o.start
      /\ a.end = o.end + extra
  BY DEF AuthFields
<1> HIDE DEF a
<1>5. AuthRight(a)
  BY <1>1, <1>2, <1>3, <1>4, DayAssumption DEF AuthRight, Window
<1>6. ASSUME NEW y \in Auths, AuthRight(auth[y])
      PROVE  AuthRight([auth[y] EXCEPT !.status = "CANCELLED"])
  <2> DEFINE old == auth[y]
             b == [old EXCEPT !.status = "CANCELLED"]
  <2>1. /\ DOMAIN b = AuthFields /\ b.date = old.date /\ b.start = old.start /\ b.end = old.end
        /\ b.link = old.link
    BY <1>6 DEF AuthRight, AuthFields
  <2> HIDE DEF b
  <2>2. AuthRight(b)
    BY <1>6, <2>1 DEF AuthRight, Window
  <2>3. QED
    BY <2>2 DEF b
<1>7. /\ auth' = [y \in Auths |-> auth'[y]]
      /\ \A y \in Auths : \/ auth'[y] = a \/ auth'[y] = auth[y]
                          \/ auth[y] # None /\ auth'[y] = [auth[y] EXCEPT !.status = "CANCELLED"]
  BY <1>1 DEF Lapsed
<1>8. AuthsRight' /\ AuthsKept
  BY <1>5, <1>6, <1>7 DEF BookInv, AuthsRight, AuthsKept
<1>9. QED
  BY <1>1, <1>8, QuietStep DEF BookInv

LEMMA RejectAuthStep ==
  ASSUME BookInv, NEW x \in Auths, rejectShiftAuthorization(x)  PROVE BookInv'
<1> DEFINE status == "REJECTED"
<1>1. /\ auth[x] # None /\ link' = link /\ shift' = shift /\ holding' = holding /\ now' = now
      /\ auth' = [auth EXCEPT ![x] = [auth[x] EXCEPT !.status = status]]
  BY DEF rejectShiftAuthorization
<1> HIDE DEF status
<1>2. AuthRight(auth[x])
  BY <1>1 DEF BookInv, AuthsRight
<1>3. AuthsRight' /\ AuthsKept
  BY <1>1, <1>2, AuthDecided DEF BookInv
<1>4. QED
  BY <1>1, <1>3, QuietStep DEF BookInv

LEMMA CancelAuthStep ==
  ASSUME BookInv, NEW x \in Auths, cancelShiftAuthorization(x)  PROVE BookInv'
<1> DEFINE status == "CANCELLED"
           l == auth[x].link
<1>1. /\ auth[x] # None /\ shift' = shift /\ holding' = holding /\ now' = now
      /\ auth' = [auth EXCEPT ![x] = [auth[x] EXCEPT !.status = status]]
      /\ LinkFree(l)
  BY DEF cancelShiftAuthorization
<1>2. PICK expiry : link' = [link EXCEPT ![l] = [link[l] EXCEPT !.expiresAt = expiry]]
  BY DEF cancelShiftAuthorization
<1> HIDE DEF status
<1>3. AuthRight(auth[x])
  BY <1>1 DEF BookInv, AuthsRight
<1>4. AuthsRight' /\ AuthsKept
  BY <1>1, <1>3, AuthDecided DEF BookInv
<1>5. QED
  BY <1>1, <1>2, <1>4, ExpiryStep DEF LinkFree

(* A shift ends, is decided on, offered to be reopened, reopened.              *)
LEMMA ShiftFieldsKept ==
  ASSUME NEW s, DOMAIN s = ShiftFields, NEW status, NEW until
  PROVE  /\ LET z == [s EXCEPT !.status = status]
            IN /\ DOMAIN z = ShiftFields /\ z.driver = s.driver /\ z.link = s.link
               /\ z.date = s.date /\ z.start = s.start /\ z.end = s.end /\ z.status = status
         /\ LET z == [s EXCEPT !.status = status, !.until = until]
            IN /\ DOMAIN z = ShiftFields /\ z.driver = s.driver /\ z.link = s.link
               /\ z.date = s.date /\ z.start = s.start /\ z.end = s.end /\ z.status = status
         /\ LET z == [s EXCEPT !.status = status, !.reopened = TRUE]
            IN /\ DOMAIN z = ShiftFields /\ z.driver = s.driver /\ z.link = s.link
               /\ z.date = s.date /\ z.start = s.start /\ z.end = s.end /\ z.reopened = TRUE
BY DEF ShiftFields

LEMMA ShiftsStep ==
  ASSUME BookInv, NEW s \in shift,
         \/ \E to \in {"PENDING_DAILY", "CLOSED"} : endShift(s, to)
         \/ decideShiftDaily(s) \/ offerShiftReactivation(s) \/ reactivateShift(s)
  PROVE  BookInv'
<1>1. DOMAIN s = ShiftFields
  BY DEF BookInv, ShiftsRight
<1>2. link' = link /\ auth' = auth /\ holding' = holding /\ now' = now
  BY DEF endShift, decideShiftDaily, offerShiftReactivation, reactivateShift
<1>3. ASSUME NEW status, status # "ACTIVE", Becomes(s, status)  PROVE BookInv'
  <2> DEFINE z == [s EXCEPT !.status = status]
  <2>1. shift' = (shift \ {s}) \cup {z}
    BY <1>3 DEF Becomes
  <2>2. /\ DOMAIN z = ShiftFields /\ z.driver = s.driver /\ z.link = s.link
        /\ z.date = s.date /\ z.start = s.start /\ z.end = s.end /\ z.status = status
    BY <1>1, ShiftFieldsKept
  <2> HIDE DEF z
  <2>3. ~Working(z)
    BY <1>3, <2>2 DEF Working
  <2>4. QED
    BY <1>2, <2>1, <2>2, <2>3, ShiftStep
<1>4. CASE \E to \in {"PENDING_DAILY", "CLOSED"} : endShift(s, to)
  BY <1>3, <1>4 DEF endShift
<1>5. CASE decideShiftDaily(s)
  BY <1>3, <1>5 DEF decideShiftDaily
<1>6. CASE offerShiftReactivation(s)
  <2> DEFINE until == now + Tolerance
             status == "REOPEN_ALLOWED"
             z == [s EXCEPT !.status = status, !.until = until]
  <2>1. shift' = (shift \ {s}) \cup {z}
    BY <1>6 DEF offerShiftReactivation
  <2> HIDE DEF until
  <2>2. /\ DOMAIN z = ShiftFields /\ z.driver = s.driver /\ z.link = s.link
        /\ z.date = s.date /\ z.start = s.start /\ z.end = s.end /\ z.status = status
    BY <1>1, ShiftFieldsKept
  <2> HIDE DEF z
  <2>3. ~Working(z)
    BY <2>2 DEF Working
  <2>4. QED
    BY <1>2, <2>1, <2>2, <2>3, ShiftStep
<1>7. CASE reactivateShift(s)
  <2> DEFINE status == "ACTIVE"
             z == [s EXCEPT !.status = status, !.reopened = TRUE]
  <2>1. Becomes(s, "PENDING_DAILY") \/ shift' = (shift \ {s}) \cup {z}
    BY <1>7 DEF reactivateShift
  <2>2. /\ DOMAIN z = ShiftFields /\ z.driver = s.driver /\ z.link = s.link
        /\ z.date = s.date /\ z.start = s.start /\ z.end = s.end /\ z.reopened = TRUE
    BY <1>1, ShiftFieldsKept
  <2> HIDE DEF z
  <2>3. ~Working(z)
    BY <2>2 DEF Working
  <2>4. CASE shift' = (shift \ {s}) \cup {z}
    BY <1>2, <2>2, <2>3, <2>4, ShiftStep
  <2>5. QED
    BY <1>3, <2>1, <2>4
<1>8. QED
  BY <1>4, <1>5, <1>6, <1>7

LEMMA BookStep == ASSUME BookInv, [Next]_vars  PROVE BookInv'
<1>1. ASSUME NEW l \in Links, NEW d \in Drivers, NEW schedule \in Schedules[d],
             inviteDriver(l, d, schedule)
      PROVE  BookInv'
  BY <1>1, InviteStep
<1>2. ASSUME NEW l \in Links, Exists(l), NEW schedule \in NewTerms[link[l].driver],
             proposeLinkTerms(l, schedule)
      PROVE  BookInv'
  <2>1. Agenda(schedule)
    BY <1>2, AgendaAssumption DEF BookInv, LinksRight, LinkRight, Exists, NoLink
  <2>2. QED
    BY <1>2, <2>1, PendingStep DEF proposeLinkTerms
<1>3. ASSUME NEW l \in Links, rejectLinkTermsChange(l)  PROVE BookInv'
  <2> DEFINE pending == None
  <2>1. /\ Exists(l) /\ LinkFree(l)
        /\ link' = [link EXCEPT ![l] = [link[l] EXCEPT !.pending = pending]]
        /\ shift' = shift /\ holding' = holding /\ auth' = auth /\ now' = now
    BY <1>3 DEF rejectLinkTermsChange, Confirmed
  <2>2. pending # None => Agenda(pending)
    OBVIOUS
  <2> HIDE DEF pending
  <2>3. QED
    BY <2>1, <2>2, PendingStep
<1>4. ASSUME NEW l \in Links, removeLink(l)  PROVE BookInv'
  BY <1>4, RemoveStep
<1>5. ASSUME NEW l \in Links,
             \/ confirmLinkReads(l) \/ confirmTermsReads(l)
             \/ \E d \in Drivers, o \in Offers : acceptOfferReads(d, o, l)
      PROVE  BookInv'
  BY <1>5, ReadsStep
<1>6. ASSUME NEW l \in Links, Exists(l), NEW date \in Dates, NEW x \in Auths,
             NEW o \in occurrenceForWorkDate(link[l].schedule, date),
             NEW extra \in Extensions, createShiftAuthorization(x, l, o, now + Validity, extra)
      PROVE  BookInv'
  BY <1>6, AskStep DEF Dates
<1>7. ASSUME NEW l \in Links, NEW o, startShiftReads(l, o)  PROVE BookInv'
  BY <1>7, StartReadsStep
<1>8. ASSUME NEW t \in holding,
             \/ confirmLink(t) \/ confirmLinkTermsChange(t) \/ acceptOffer(t)
             \/ acceptShiftAuthorization(t) \/ startShift(t)
      PROVE  BookInv'
  BY <1>8, ConfirmStep, TermsStep, AcceptStep, AcceptAuthStep, StartStep
<1>9. ASSUME link' = link, shift' = shift, auth' = auth, holding' = holding, now' \in Int
      PROVE  BookInv'
  BY <1>9, AuthsSame, QuietStep DEF BookInv
<1>10. ASSUME NEW o \in Offers, closeOffer(o) \/ \E d \in Drivers : dismissOffer(d, o)
       PROVE  BookInv'
  BY <1>9, <1>10 DEF closeOffer, dismissOffer, BookInv
<1>11. ASSUME NEW x \in Auths,
              \/ decideAuthorizationReads(x) \/ rejectShiftAuthorization(x)
              \/ cancelShiftAuthorization(x)
       PROVE  BookInv'
  BY <1>11, DecideReadsStep, RejectAuthStep, CancelAuthStep
<1>12. ASSUME NEW s \in shift,
              \/ \E to \in {"PENDING_DAILY", "CLOSED"} : endShift(s, to)
              \/ decideShiftDaily(s) \/ offerShiftReactivation(s) \/ reactivateShift(s)
       PROVE  BookInv'
  BY <1>12, ShiftsStep
<1>13. CASE TimePasses \/ UNCHANGED vars
  BY <1>9, <1>13 DEF TimePasses, vars, BookInv
<1>14. QED
  BY <1>1, <1>2, <1>3, <1>4, <1>5, <1>6, <1>7, <1>8, <1>10, <1>11, <1>12, <1>13 DEF Next

LEMMA Booked == Spec => []BookInv
BY BookInit, BookStep, PTL DEF Spec

(* Of all the shifts that a driver ever starts, regular or extended, under any *)
(* links, no two cover the same time.                                          *)
THEOREM ShiftsApart == Spec => []ShiftsDoNotOverlap
<1>1. BookInv => ShiftsDoNotOverlap
  BY DEF BookInv, ShiftsRight
<1>2. QED
  BY <1>1, Booked, PTL

(* However removals and changes of terms race with a start: a shift that was   *)
(* not reopened has its link, with the hours it began under.                   *)
THEOREM ShiftsHaveLinks == Spec => []ShiftKeepsItsLink
<1>1. BookInv => ShiftKeepsItsLink
  BY DEF BookInv, LinksKept, Working, Keeps, Under, ShiftKeepsItsLink, Confirmed, Exists
<1>2. QED
  BY <1>1, Booked, PTL
-----------------------------------------------------------------------------
(* Hours promised twice.                                                       *)

(* The times two items still ask for, on any dates, do not meet.               *)
Clear(a, b, n) ==
  \A x, y \in Int :
    /\ Falls(a, x) /\ interval(x, a)[2] > n
    /\ Falls(b, y) /\ interval(y, b)[2] > n
    => ~overlaps(interval(x, a), interval(y, b))

AllClear(A, B, n) == \A a \in A, b \in B : Clear(a, b, n)

(* Of an agenda, what the checks look at: not the dates that have passed.      *)
Current(agenda) == {i \in agenda : i.weekly \/ i.day >= Today}

(* What a link binds its driver to: its agenda, and the authorizations that    *)
(* can still be used.                                                          *)
Extended(l) == {Exception(x) : x \in {y \in AcceptedAuths(l) : auth[y].until > now}}
BoundTo(l) == Current(link[l].schedule) \cup Extended(l)

(* What a transaction will bind the driver to when it writes.                  *)
Adds(t) ==
  CASE t.op = "confirmLink" -> Current(link[t.link].schedule)
    [] t.op = "confirmLinkTermsChange" -> Current(link[t.link].pending)
    [] t.op = "acceptOffer" -> Current(OfferSchedule[t.offer])
    [] t.op = "decideShiftAuthorization" -> {Exception(t.auth)}
    [] OTHER -> {}

(* A link that ends does when all its dates have passed.                       *)
Ending(k) ==
  k.expiresAt # Never =>
    k.expiresAt \in Int
      /\ \A i \in k.schedule : ~i.weekly /\ interval(i.day, i)[2] <= k.expiresAt

LinkSound(k) ==
  k # NoLink =>
    /\ k.status \in Statuses /\ (k.pending # None => k.status = "CONFIRMED")
    /\ (k.expiresAt = Never <=> datedScheduleExpiry(k.schedule) = Never)
    /\ Ending(k)

AuthStatuses == {"PENDING", "ACCEPTED", "REJECTED", "CANCELLED", "USED"}

AuthSound(a) ==
  a.until \in Int /\ a.start < a.until /\ a.until < a.end /\ a.status \in AuthStatuses

(* Authorizations are of links that were confirmed once.                       *)
AuthsFollow ==
  \A x \in Auths : auth[x] # None =>
    AuthSound(auth[x]) /\ link[auth[x].link].status \in {"CONFIRMED", "REMOVED"}

BoundOnce ==
  \A l, k \in Links : /\ l # k /\ Confirmed(l) /\ Confirmed(k)
                      /\ link[l].driver = link[k].driver
                      => AllClear(BoundTo(l), BoundTo(k), now)

Fitting(t) ==
  /\ t.op = "confirmLink" => link[t.link].status = "INVITED" /\ link[t.link].driver = t.driver
  /\ t.op = "confirmLinkTermsChange" => link[t.link].driver = t.driver
  /\ t.op = "decideShiftAuthorization" => link[t.link].driver = t.driver
  /\ Deciding(t) => auth[t.auth] # None /\ auth[t.auth].link = t.link
  /\ \A k \in Links : Confirmed(k) /\ k # t.link /\ link[k].driver = t.driver =>
       AllClear(Adds(t), BoundTo(k), now)

HoursInv ==
  /\ \A l \in Links : LinkSound(link[l])
  /\ AuthsFollow /\ BoundOnce /\ \A t \in holding : Fitting(t)

(* The hours of what binds a driver are hours of the day.                      *)
LEMMA AgendaHours == ASSUME NEW schedule, Agenda(schedule), NEW i \in schedule  PROVE Hours(i)
BY DEF Agenda, Hours

LEMMA ExceptionHours ==
  ASSUME NEW x, AuthRight(auth[x])  PROVE Hours(Exception(x)) /\ ~Exception(x).weekly
<1>1. auth[x].date \in Int /\ auth[x].start \in Int /\ auth[x].end \in Int
  BY DEF AuthRight, Window
<1>2. auth[x].start % DAY \in 0..(DAY - 1) /\ auth[x].end % DAY \in 0..(DAY - 1)
  BY <1>1, DayAssumption
<1>3. QED
  BY <1>1, <1>2 DEF Exception, Item, Hours

LEMMA BoundHours ==
  ASSUME BookInv, NEW k \in Links, Confirmed(k)
  PROVE  Agenda(link[k].schedule) /\ \A i \in BoundTo(k) : Hours(i)
<1>1. Agenda(link[k].schedule)
  BY DEF BookInv, LinksRight, LinkRight, Confirmed, NoLink
<1>2. \A i \in Extended(k) : Hours(i)
  BY ExceptionHours DEF Extended, AcceptedAuths, BookInv, AuthsRight
<1>3. QED
  BY <1>1, <1>2, AgendaHours DEF BoundTo, Current

BindsHours == \A k \in Links : Confirmed(k) => \A i \in BoundTo(k) : Hours(i)

LEMMA BindsHoursNow == BookInv => BindsHours
BY BoundHours DEF BindsHours

LEMMA BindsHoursNext == BookInv' => BindsHours'
BY BindsHoursNow, PTL

LEMMA ClearBoth ==
  ASSUME NEW A, NEW B, NEW n, AllClear(A, B, n)  PROVE AllClear(B, A, n)
<1>1. ASSUME NEW a \in A, NEW b \in B  PROVE Clear(b, a, n)
  <2>1. Clear(a, b, n)
    BY DEF AllClear
  <2>2. QED
    BY <2>1 DEF Clear, overlaps
<1>2. QED
  BY <1>1 DEF AllClear

LEMMA DaysGrow ==
  ASSUME NEW n \in Int, NEW m \in Int, n <= m  PROVE n \div DAY <= m \div DAY
<1> DEFINE p == n \div DAY
           q == m \div DAY
           r == n % DAY
           s == m % DAY
<1> USE DayAssumption
<1>1. p \in Int /\ q \in Int /\ r \in 0..(DAY - 1) /\ s \in 0..(DAY - 1)
  OBVIOUS
<1>2. n = DAY * p + r
  OBVIOUS
<1>3. m = DAY * q + s
  OBVIOUS
<1> HIDE DEF p, q, r, s
<1>4. ASSUME q + 1 <= p  PROVE FALSE
  <2>1. PICK k \in Nat : p = q + 1 + k
    <3>1. p - (q + 1) \in Nat /\ p = q + 1 + (p - (q + 1))
      BY <1>1, <1>4
    <3>2. QED
      BY <3>1
  <2>2. k * DAY \in Nat /\ DAY * p = DAY * q + DAY + k * DAY /\ DAY * q \in Int
    BY <1>1, <2>1
  <2>3. QED
    BY <1>1, <1>2, <1>3, <2>2
<1>5. p <= q
  BY <1>1, <1>4
<1>6. QED
  BY <1>5 DEF p, q

(* Time only takes away what was still asked for.                              *)
LEMMA ClearLater ==
  ASSUME NEW A, NEW B, NEW n \in Int, NEW m \in Int, n <= m, AllClear(A, B, n),
         \A i \in A \cup B : Hours(i)
  PROVE  AllClear(A, B, m)
<1>1. ASSUME NEW a \in A, NEW b \in B  PROVE Clear(a, b, m)
  <2> SUFFICES ASSUME NEW x \in Int, NEW y \in Int,
                      Falls(a, x), interval(x, a)[2] > m, Falls(b, y), interval(y, b)[2] > m
               PROVE  ~overlaps(interval(x, a), interval(y, b))
    BY DEF Clear
  <2>1. interval(x, a)[2] \in Int
    BY IntervalIs
  <2>2. interval(y, b)[2] \in Int
    BY IntervalIs
  <2>3. interval(x, a)[2] > n /\ interval(y, b)[2] > n
    BY <2>1, <2>2
  <2>4. Clear(a, b, n)
    BY DEF AllClear
  <2>5. QED
    BY <2>3, <2>4 DEF Clear
<1>2. QED
  BY <1>1 DEF AllClear

LEMMA ClearLess ==
  ASSUME NEW A, NEW B, NEW C, NEW D, NEW n, AllClear(A, B, n), C \subseteq A, D \subseteq B
  PROVE  AllClear(C, D, n)
BY DEF AllClear

(* When a set of dates ends.                                                   *)
LEMMA ExpiryIs ==
  ASSUME NEW schedule, Agenda(schedule)
  PROVE  /\ datedScheduleExpiry(schedule) # Never =>
              /\ datedScheduleExpiry(schedule) \in Int
              /\ \A i \in schedule : ~i.weekly /\ interval(i.day, i)[2] <= datedScheduleExpiry(schedule)
<1> DEFINE dated == {i \in schedule : ~i.weekly}
           ends == {interval(i.day, i)[2] : i \in dated}
           last == datedScheduleExpiry(schedule)
<1>1. CASE dated = {}
  BY <1>1 DEF datedScheduleExpiry
<1>2. CASE dated # {}
  <2>1. IsFiniteSet(dated)
    BY FS_Subset DEF Agenda
  <2>2. IsFiniteSet(ends)
    <3> DEFINE f == [i \in dated |-> interval(i.day, i)[2]]
    <3>1. f = [i \in dated |-> f[i]] /\ ends = {f[i] : i \in dated}
      OBVIOUS
    <3> HIDE DEF f, ends, dated
    <3>2. QED
      BY <2>1, <3>1, FiniteValues
  <2>3. ends # {}
    BY <1>2
  <2>4. ends \in SUBSET Int
    BY AgendaHours, IntervalIs DEF Hours
  <2>5. last = CHOOSE t \in ends : \A u \in ends : t >= u
    BY <1>2 DEF datedScheduleExpiry, Max
  <2>6. \A i \in schedule : ~i.weekly
    BY <1>2 DEF Agenda
  <2>7. \A i \in schedule : interval(i.day, i)[2] \in ends
    BY <2>6
  <2> HIDE DEF ends, last
  <2>8. last \in ends /\ \A u \in ends : last >= u
    BY <2>2, <2>3, <2>4, <2>5, LargestFinite
  <2>9. last \in Int /\ \A i \in schedule : interval(i.day, i)[2] <= last
    BY <2>4, <2>7, <2>8
  <2>10. QED
    BY <2>6, <2>9 DEF last
<1>3. QED
  BY <1>1, <1>2

LEMMA FreshEnding ==
  ASSUME NEW k, Agenda(k.schedule), k.expiresAt = datedScheduleExpiry(k.schedule)
  PROVE  Ending(k) /\ (k.expiresAt = Never <=> datedScheduleExpiry(k.schedule) = Never)
BY ExpiryIs DEF Ending

(* What driverActiveSchedule lists is all the other links still ask for: the   *)
(* dates of a link that has expired have passed.                               *)
LEMMA AsksOnlyFor ==
  ASSUME BookInv, NEW d, NEW except, NEW k \in Links, k # except, Confirmed(k),
         link[k].driver = d, LinkSound(link[k]),
         NEW i \in BoundTo(k), NEW date \in Int, Falls(i, date), interval(date, i)[2] > now
  PROVE  i \in driverActiveSchedule(d, except)
<1>1. k \in LinksOf(d) \ {except}
  BY DEF LinksOf, Confirmed
<1>2. CASE i \in Extended(k)
  BY <1>1, <1>2 DEF Extended, driverActiveSchedule
<1>3. CASE i \in Current(link[k].schedule)
  <2>1. ~isLinkExpired(k)
    <3> SUFFICES ASSUME isLinkExpired(k)  PROVE FALSE
      OBVIOUS
    <3>1. Ending(link[k])
      BY DEF LinkSound, Confirmed, NoLink
    <3>2. /\ link[k].expiresAt \in Int /\ link[k].expiresAt <= now
          /\ ~i.weekly /\ interval(i.day, i)[2] <= link[k].expiresAt
      BY <1>3, <3>1 DEF Ending, isLinkExpired, Current
    <3>3. date = i.day /\ now \in Int
      BY <3>2 DEF Falls, BookInv
    <3>4. interval(date, i)[2] \in Int
      BY BoundHours, IntervalIs
    <3>5. QED
      BY <3>2, <3>3, <3>4
  <2>2. QED
    BY <1>1, <1>3, <2>1 DEF driverActiveSchedule, Current
<1>4. QED
  BY <1>2, <1>3 DEF BoundTo

LEMMA FitsClear ==
  ASSUME BookInv, NEW d, NEW except, NEW k \in Links, k # except, Confirmed(k),
         link[k].driver = d, LinkSound(link[k]), NEW C, \A i \in C : Hours(i),
         NEW B, driverActiveSchedule(d, except) \subseteq B, ~schedulesConflict(B, C)
  PROVE  AllClear(C, BoundTo(k), now)
<1> SUFFICES ASSUME NEW a \in C, NEW b \in BoundTo(k), NEW x \in Int, NEW y \in Int,
                    Falls(a, x), interval(x, a)[2] > now,
                    Falls(b, y), interval(y, b)[2] > now
             PROVE  ~overlaps(interval(x, a), interval(y, b))
  BY DEF AllClear, Clear
<1>1. b \in B
  BY AsksOnlyFor
<1>2. ~itemsConflict(b, a)
  BY <1>1 DEF schedulesConflict
<1>3. Hours(a) /\ Hours(b)
  BY BoundHours
<1>4. ~overlaps(interval(y, b), interval(x, a))
  BY <1>2, <1>3, NeverMeet
<1>5. QED
  BY <1>4 DEF overlaps

(* A step leaves a link bound to no more than before, or a transaction adds to *)
(* it what it had found room for.                                              *)
Kept(l) ==
  /\ Confirmed(l) /\ link'[l].driver = link[l].driver
  /\ BoundTo(l)' \subseteq BoundTo(l)

Grown(l, t) ==
  /\ t.link = l /\ link'[l].driver = t.driver
  /\ \/ BoundTo(l)' \subseteq Adds(t)
     \/ Confirmed(l) /\ link[l].driver = t.driver /\ BoundTo(l)' \subseteq Adds(t) \cup BoundTo(l)

Moves(l) == Confirmed(l)' => Kept(l) \/ \E t \in holding \ holding' : Grown(l, t)

LEMMA GrownClear ==
  ASSUME HoursInv, NEW t \in holding, NEW l \in Links, Grown(l, t),
         NEW k \in Links, k # l, Confirmed(k), link[k].driver = t.driver
  PROVE  AllClear(BoundTo(l)', BoundTo(k), now)
<1>1. AllClear(Adds(t), BoundTo(k), now)
  BY DEF HoursInv, Fitting, Grown
<1>2. CASE BoundTo(l)' \subseteq Adds(t)
  BY <1>1, <1>2 DEF AllClear
<1>3. CASE Confirmed(l) /\ link[l].driver = t.driver /\ BoundTo(l)' \subseteq Adds(t) \cup BoundTo(l)
  <2>1. AllClear(BoundTo(l), BoundTo(k), now)
    BY <1>3 DEF HoursInv, BoundOnce
  <2>2. QED
    BY <1>1, <1>3, <2>1 DEF AllClear
<1>4. QED
  BY <1>2, <1>3 DEF Grown

LEMMA HoursKept ==
  ASSUME BookInv, BookInv', HoursInv, now <= now', \A l \in Links : Moves(l),
         \A l \in Links : LinkSound(link[l])', AuthsFollow',
         NEW NewTxns, holding' \ holding \subseteq NewTxns, \A t \in NewTxns : Fitting(t)',
         \A t \in holding' \cap holding :
           /\ Adds(t)' \subseteq Adds(t) /\ \A i \in Adds(t) : Hours(i)
           /\ t.op = "confirmLink" => link'[t.link] = link[t.link]
           /\ t.op = "confirmLinkTermsChange" => link'[t.link] = link[t.link]
           /\ t.op = "decideShiftAuthorization" => link'[t.link] = link[t.link]
           /\ Deciding(t) => auth'[t.auth] # None /\ auth'[t.auth].link = auth[t.auth].link
  PROVE  HoursInv'
<1>1. now \in Int /\ now' \in Int
  BY DEF BookInv
<1>2. \A t, u \in holding : t.driver = u.driver => t = u
  BY DEF BookInv, TxnsRight, Apart
<1>3. \A l \in Links : Confirmed(l)' => \A i \in BoundTo(l)' : Hours(i)
  BY BindsHoursNext DEF BindsHours
<1>4. ASSUME NEW l \in Links, NEW k \in Links, l # k, Confirmed(l)', Confirmed(k)',
             link'[l].driver = link'[k].driver
      PROVE  AllClear(BoundTo(l)', BoundTo(k)', now)
  <2>1. CASE Kept(l) /\ Kept(k)
    <3>1. AllClear(BoundTo(l), BoundTo(k), now)
      BY <1>4, <2>1 DEF HoursInv, BoundOnce, Kept
    <3>2. QED
      BY <2>1, <3>1 DEF AllClear, Kept
  <2>2. ASSUME Kept(k), NEW t \in holding \ holding', Grown(l, t)
        PROVE  AllClear(BoundTo(l)', BoundTo(k)', now)
    <3>1. AllClear(BoundTo(l)', BoundTo(k), now)
      BY <1>4, <2>2, GrownClear DEF Kept, Grown
    <3>2. QED
      BY <2>2, <3>1 DEF AllClear, Kept
  <2>3. ASSUME Kept(l), NEW t \in holding \ holding', Grown(k, t)
        PROVE  AllClear(BoundTo(l)', BoundTo(k)', now)
    <3>1. AllClear(BoundTo(k)', BoundTo(l), now)
      BY <1>4, <2>3, GrownClear DEF Kept, Grown
    <3>2. AllClear(BoundTo(k)', BoundTo(l)', now)
      BY <2>3, <3>1 DEF AllClear, Kept
    <3>3. QED
      BY <3>2, ClearBoth
  <2>4. ASSUME NEW t \in holding \ holding', NEW u \in holding \ holding', Grown(l, t), Grown(k, u)
        PROVE  FALSE
    <3>1. /\ t.link = l /\ u.link = k
          /\ link'[l].driver = t.driver /\ link'[k].driver = u.driver
      BY <2>4 DEF Grown
    <3>2. t.driver = u.driver
      BY <1>4, <3>1
    <3>3. t = u
      BY <1>2, <2>4, <3>2
    <3>4. QED
      BY <1>4, <3>1, <3>3
  <2>5. Moves(l) /\ Moves(k)
    OBVIOUS
  <2>6. QED
    BY <1>4, <2>1, <2>2, <2>3, <2>4, <2>5 DEF Moves
<1>5. BoundOnce'
  <2> SUFFICES ASSUME NEW l \in Links, NEW k \in Links, l # k, Confirmed(l)', Confirmed(k)',
                      link'[l].driver = link'[k].driver
               PROVE  AllClear(BoundTo(l)', BoundTo(k)', now')
    BY DEF BoundOnce
  <2>1. QED
    BY <1>1, <1>3, <1>4, ClearLater
<1>6. ASSUME NEW t \in holding' \cap holding  PROVE Fitting(t)'
  <2>1. Fitting(t)
    BY DEF HoursInv
  <2>2. ASSUME NEW k \in Links, Confirmed(k)', k # t.link, link'[k].driver = t.driver
        PROVE  AllClear(Adds(t)', BoundTo(k)', now')
    <3>1. Kept(k)
      <4>1. \A u \in holding \ holding' : ~Grown(k, u)
        BY <1>2, <2>2 DEF Grown
      <4>2. QED
        BY <2>2, <4>1 DEF Moves
    <3>2. AllClear(Adds(t), BoundTo(k), now)
      BY <2>1, <2>2, <3>1 DEF Fitting, Kept
    <3>3. AllClear(Adds(t), BoundTo(k)', now)
      BY <3>1, <3>2 DEF AllClear, Kept
    <3>4. \A i \in Adds(t) \cup BoundTo(k)' : Hours(i)
      BY <1>3, <2>2
    <3>5. AllClear(Adds(t), BoundTo(k)', now')
      BY <1>1, <3>3, <3>4, ClearLater
    <3>6. QED
      BY <3>5 DEF AllClear
  <2>3. QED
    BY <2>1, <2>2 DEF Fitting
<1>7. \A t \in holding' : Fitting(t)'
  BY <1>6
<1>8. QED
  BY <1>5, <1>7 DEF HoursInv

(* What a step may make of the authorizations without binding anyone to more.  *)
AuthsTurn ==
  \A x \in Auths : auth'[x] # None =>
    /\ AuthSound(auth'[x])
    /\ (auth[x] # None /\ auth'[x].link = auth[x].link) \/ Confirmed(auth'[x].link)
    /\ auth'[x].status = "ACCEPTED" =>
         /\ auth[x] # None /\ auth[x].status = "ACCEPTED" /\ auth'[x].link = auth[x].link
         /\ auth'[x].date = auth[x].date /\ auth'[x].until = auth[x].until
         /\ auth'[x].start = auth[x].start /\ auth'[x].end = auth[x].end

LEMMA SameAuths == ASSUME HoursInv, auth' = auth  PROVE AuthsTurn
BY DEF AuthsTurn, HoursInv, AuthsFollow

LEMMA AuthFieldsKept ==
  ASSUME NEW a, AuthRight(a), NEW status
  PROVE  LET b == [a EXCEPT !.status = status]
         IN /\ b.link = a.link /\ b.date = a.date /\ b.until = a.until
            /\ b.start = a.start /\ b.end = a.end /\ b.status = status
BY DEF AuthRight, AuthFields

LEMMA AuthEnds ==
  ASSUME BookInv, HoursInv, NEW x \in Auths, auth[x] # None,
         NEW status \in AuthStatuses \ {"ACCEPTED"},
         auth' = [auth EXCEPT ![x] = [auth[x] EXCEPT !.status = status]]
  PROVE  AuthsTurn
<1> DEFINE a == auth[x]
           b == [a EXCEPT !.status = status]
<1>1. AuthRight(a) /\ AuthSound(a)
  BY DEF BookInv, AuthsRight, HoursInv, AuthsFollow
<1> HIDE DEF a
<1>2. /\ b.link = a.link /\ b.date = a.date /\ b.until = a.until
      /\ b.start = a.start /\ b.end = a.end /\ b.status = status
  BY <1>1, AuthFieldsKept
<1>3. \A y \in Auths : auth'[y] = IF y = x THEN b ELSE auth[y]
  BY DEF BookInv, AuthsRight, a
<1> HIDE DEF b
<1>4. AuthSound(b)
  BY <1>1, <1>2 DEF AuthSound
<1>5. QED
  BY <1>2, <1>3, <1>4 DEF AuthsTurn, HoursInv, AuthsFollow, a

LEMMA ExtendedShrinks ==
  ASSUME AuthsTurn, HoursInv, now \in Int, now' \in Int, now <= now', NEW l
  PROVE  Extended(l)' \subseteq Extended(l)
<1> SUFFICES ASSUME NEW x \in Auths, auth'[x] # None, auth'[x].link = l,
                    auth'[x].status = "ACCEPTED", auth'[x].until > now'
             PROVE  Exception(x)' \in Extended(l)
  BY DEF Extended, AcceptedAuths
<1>1. /\ auth[x] # None /\ auth[x].status = "ACCEPTED" /\ auth[x].link = l
      /\ auth'[x].until = auth[x].until /\ Exception(x)' = Exception(x)
  BY DEF AuthsTurn, Exception
<1>2. auth[x].until > now
  BY <1>1 DEF HoursInv, AuthsFollow, AuthSound
<1>3. QED
  BY <1>1, <1>2 DEF Extended, AcceptedAuths

(* Dates pass; none comes back.                                                *)
LEMMA CurrentShrinks ==
  ASSUME now \in Int, now' \in Int, now <= now', NEW A, Agenda(A)
  PROVE  {i \in A : i.weekly \/ i.day >= Today'} \subseteq Current(A)
<1>1. /\ now \div DAY \in Int /\ now' \div DAY \in Int
      /\ now \div DAY <= now' \div DAY
  <2>1. PICK m \in Int : m = now'
    OBVIOUS
  <2>2. PICK n \in Int : n = now
    OBVIOUS
  <2>3. n \div DAY \in Int /\ m \div DAY \in Int
    BY DayAssumption
  <2>4. n \div DAY <= m \div DAY
    BY <2>1, <2>2, DaysGrow
  <2>5. QED
    BY <2>1, <2>2, <2>3, <2>4
<1>2. \A i \in A : i.day \in Int
  BY DEF Agenda
<1>3. QED
  BY <1>1, <1>2 DEF Current, Today

LEMMA ScheduleShrinks ==
  ASSUME BookInv, now' \in Int, now <= now', NEW l \in Links, Confirmed(l),
         link'[l].schedule = link[l].schedule
  PROVE  Current(link[l].schedule)' \subseteq Current(link[l].schedule)
<1>1. Agenda(link[l].schedule) /\ now \in Int
  BY BoundHours DEF BookInv
<1>2. Current(link[l].schedule)' = {i \in link[l].schedule : i.weekly \/ i.day >= Today'}
  BY DEF Current
<1>3. QED
  BY <1>1, <1>2, CurrentShrinks

LEMMA AuthsFollowOn ==
  ASSUME BookInv', HoursInv, AuthsTurn,
         \A l \in Links : link[l].status \in {"CONFIRMED", "REMOVED"}
                             => link'[l].status \in {"CONFIRMED", "REMOVED"}
  PROVE  AuthsFollow'
<1> SUFFICES ASSUME NEW x \in Auths, auth'[x] # None
             PROVE  /\ AuthSound(auth'[x])
                    /\ link'[auth'[x].link].status \in {"CONFIRMED", "REMOVED"}
  BY DEF AuthsFollow
<1>1. AuthSound(auth'[x]) /\ auth'[x].link \in Links
  BY DEF AuthsTurn, BookInv, AuthsRight, AuthRight
<1>2. link[auth'[x].link].status \in {"CONFIRMED", "REMOVED"}
  BY DEF AuthsTurn, HoursInv, AuthsFollow, Confirmed
<1>3. QED
  BY <1>1, <1>2

(* A transaction whose link and authorization nobody touches.                  *)
Undisturbed(t) ==
  /\ Adds(t)' \subseteq Adds(t) /\ \A i \in Adds(t) : Hours(i)
  /\ t.op = "confirmLink" => link'[t.link] = link[t.link]
  /\ t.op = "confirmLinkTermsChange" => link'[t.link] = link[t.link]
  /\ t.op = "decideShiftAuthorization" => link'[t.link] = link[t.link]
  /\ Deciding(t) => auth'[t.auth] # None /\ auth'[t.auth].link = auth[t.auth].link

LEMMA AddsHours ==
  ASSUME BookInv, NEW t, TxnRight(t)
  PROVE  \A i \in Adds(t) : Hours(i)
<1>1. CASE t.op = "confirmLink"
  <2>1. Agenda(link[t.link].schedule)
    BY <1>1 DEF TxnRight, BookInv, LinksRight, LinkRight, Exists, NoLink
  <2>2. QED
    BY <1>1, <2>1, AgendaHours DEF Adds, Current
<1>2. CASE t.op = "confirmLinkTermsChange"
  <2>1. Agenda(link[t.link].pending)
    BY <1>2 DEF TxnRight, TermsRight, BookInv, LinksRight, LinkRight, NoLink
  <2>2. QED
    BY <1>2, <2>1, AgendaHours DEF Adds, Current
<1>3. CASE t.op = "acceptOffer"
  BY <1>3, AgendaAssumption, AgendaHours DEF Adds, Current, TxnRight
<1>4. CASE t.op = "decideShiftAuthorization"
  BY <1>4, ExceptionHours DEF Adds, TxnRight, Deciding
<1>5. QED
  BY <1>1, <1>2, <1>3, <1>4 DEF Adds

LEMMA LeftAlone ==
  ASSUME BookInv, HoursInv, now' \in Int, now <= now',
         NEW t \in holding, link'[t.link] = link[t.link],
         Deciding(t) => auth'[t.auth] = auth[t.auth]
  PROVE  Undisturbed(t)
<1>1. \A i \in Adds(t) : Hours(i)
  BY AddsHours DEF BookInv, TxnsRight
<1>2. Adds(t)' \subseteq Adds(t)
  <2>1. now \in Int /\ TxnRight(t)
    BY DEF BookInv, TxnsRight
  <2>2. CASE t.op = "confirmLink"
    <3>1. Agenda(link[t.link].schedule)
      BY <2>1, <2>2 DEF TxnRight, BookInv, LinksRight, LinkRight, Exists, NoLink
    <3>2. Adds(t)' = {i \in link[t.link].schedule : i.weekly \/ i.day >= Today'}
      BY <2>2 DEF Adds, Current
    <3>3. Adds(t) = Current(link[t.link].schedule)
      BY <2>2 DEF Adds
    <3>4. QED
      BY <2>1, <3>1, <3>2, <3>3, CurrentShrinks
  <2>3. CASE t.op = "confirmLinkTermsChange"
    <3>1. Agenda(link[t.link].pending)
      BY <2>1, <2>3 DEF TxnRight, TermsRight, BookInv, LinksRight, LinkRight, NoLink
    <3>2. Adds(t)' = {i \in link[t.link].pending : i.weekly \/ i.day >= Today'}
      BY <2>3 DEF Adds, Current
    <3>3. Adds(t) = Current(link[t.link].pending)
      BY <2>3 DEF Adds
    <3>4. QED
      BY <2>1, <3>1, <3>2, <3>3, CurrentShrinks
  <2>4. CASE t.op = "acceptOffer"
    <3>1. Agenda(OfferSchedule[t.offer])
      BY <2>1, <2>4, AgendaAssumption DEF TxnRight
    <3>2. Adds(t)' = {i \in OfferSchedule[t.offer] : i.weekly \/ i.day >= Today'}
      BY <2>4 DEF Adds, Current
    <3>3. Adds(t) = Current(OfferSchedule[t.offer])
      BY <2>4 DEF Adds
    <3>4. QED
      BY <2>1, <3>1, <3>2, <3>3, CurrentShrinks
  <2>5. CASE t.op = "decideShiftAuthorization"
    BY <2>5 DEF Adds, Exception, Deciding
  <2>6. QED
    BY <2>2, <2>3, <2>4, <2>5 DEF Adds
<1>3. Deciding(t) => auth[t.auth] # None
  BY DEF HoursInv, Fitting
<1>4. QED
  BY <1>1, <1>2, <1>3 DEF Undisturbed

LEMMA NoBusinessOf ==
  ASSUME HoursInv, NEW t \in holding, Deciding(t),
         NEW x, auth[x].link # t.link
  PROVE  t.auth # x
BY DEF HoursInv, Fitting

(* A step that changes no link.                                                *)
LEMMA QuietHours ==
  ASSUME BookInv, BookInv', HoursInv, link' = link, now <= now', AuthsTurn,
         holding' \subseteq holding,
         \A t \in holding' : Deciding(t) => auth'[t.auth] = auth[t.auth]
  PROVE  HoursInv'
<1>1. now \in Int /\ now' \in Int
  BY DEF BookInv
<1>2. \A l \in Links : Moves(l)
  <2> SUFFICES ASSUME NEW l \in Links, Confirmed(l)'  PROVE Kept(l)
    BY DEF Moves
  <2>1. Confirmed(l) /\ link'[l] = link[l]
    BY DEF Confirmed, Exists
  <2>2. Current(link[l].schedule)' \subseteq Current(link[l].schedule)
    BY <1>1, <2>1, ScheduleShrinks
  <2>3. Extended(l)' \subseteq Extended(l)
    BY <1>1, ExtendedShrinks
  <2>4. QED
    BY <2>1, <2>2, <2>3 DEF Kept, BoundTo
<1>3. AuthsFollow'
  BY AuthsFollowOn
<1>4. \A t \in holding' \cap holding : Undisturbed(t)
  BY <1>1, LeftAlone
<1>5. \A l \in Links : LinkSound(link[l])'
  BY DEF HoursInv, LinkSound, Ending
<1> DEFINE none == {}
<1>6. holding' \ holding \subseteq none /\ \A t \in none : Fitting(t)'
  OBVIOUS
<1> HIDE DEF none
<1>7. QED
  BY <1>2, <1>3, <1>4, <1>5, <1>6, HoursKept DEF Undisturbed

(* A transaction begins: what it read leaves room for what it will write.      *)
LEMMA HoldHours ==
  ASSUME BookInv, BookInv', HoursInv, NEW t, Holds(t), Fitting(t)  PROVE HoursInv'
<1>1. /\ link' = link /\ auth' = auth /\ now' = now /\ holding' = holding \cup {t}
  BY DEF Holds
<1>2. now \in Int /\ now <= now'
  BY <1>1 DEF BookInv
<1>3. AuthsTurn
  BY <1>1, SameAuths
<1>4. \A l \in Links : Moves(l)
  <2> SUFFICES ASSUME NEW l \in Links, Confirmed(l)'  PROVE Kept(l)
    BY DEF Moves
  <2>1. Confirmed(l) /\ link'[l] = link[l]
    BY <1>1 DEF Confirmed, Exists
  <2>2. Current(link[l].schedule)' \subseteq Current(link[l].schedule)
    BY <1>1, <1>2, <2>1, ScheduleShrinks
  <2>3. Extended(l)' \subseteq Extended(l)
    BY <1>1, <1>2, <1>3, ExtendedShrinks
  <2>4. QED
    BY <2>1, <2>2, <2>3 DEF Kept, BoundTo
<1>5. AuthsFollow'
  BY <1>1, <1>3, AuthsFollowOn
<1>6. \A u \in holding' \cap holding : Undisturbed(u)
  BY <1>1, <1>2, LeftAlone
<1>7. \A l \in Links : LinkSound(link[l])'
  BY <1>1 DEF HoursInv, LinkSound, Ending
<1>8. Fitting(t)'
  <2>1. \A x : Exception(x)' = Exception(x)
    BY <1>1 DEF Exception
  <2>2. Adds(t)' = Adds(t)
    BY <1>1, <2>1 DEF Adds, Current, Today
  <2>3. \A k \in Links : Extended(k)' = Extended(k)
    <3> SUFFICES ASSUME NEW k \in Links  PROVE Extended(k)' = Extended(k)
      OBVIOUS
    <3>1. AcceptedAuths(k)' = AcceptedAuths(k)
      BY <1>1 DEF AcceptedAuths
    <3>2. QED
      BY <1>1, <2>1, <3>1 DEF Extended
  <2>4. \A k \in Links : BoundTo(k)' = BoundTo(k) /\ Confirmed(k)' = Confirmed(k)
    BY <1>1, <2>3 DEF BoundTo, Current, Today, Confirmed, Exists
  <2>5. QED
    BY <1>1, <2>2, <2>4 DEF Fitting
<1> DEFINE one == {t}
<1>9. holding' \ holding \subseteq one /\ \A u \in one : Fitting(u)'
  BY <1>1, <1>8
<1> HIDE DEF one
<1>10. QED
  BY <1>2, <1>4, <1>5, <1>6, <1>7, <1>9, HoursKept DEF Undisturbed

(* One link changes.                                                           *)
LEMMA LinkHours ==
  ASSUME BookInv, BookInv', HoursInv, NEW l \in Links, NEW k,
         link' = [link EXCEPT ![l] = k], LinkSound(k), now' = now, AuthsTurn,
         link[l].status \in {"CONFIRMED", "REMOVED"} => k.status \in {"CONFIRMED", "REMOVED"},
         holding' \subseteq holding,
         \A t \in holding' :
           /\ t.link # l
           /\ Deciding(t) => auth'[t.auth] = auth[t.auth],
         k.status = "CONFIRMED" =>
           \/ Confirmed(l) /\ k.driver = link[l].driver /\ k.schedule = link[l].schedule
           \/ \E t \in holding \ holding' :
                /\ t.link = l /\ k.driver = t.driver /\ Current(k.schedule) = Adds(t)
                /\ Extended(l) = {} \/ (Confirmed(l) /\ link[l].driver = t.driver)
  PROVE  HoursInv'
<1>1. now \in Int /\ now' \in Int /\ now <= now'
  BY DEF BookInv
<1>2. \A m \in Links : link'[m] = IF m = l THEN k ELSE link[m]
  BY DEF BookInv, LinksRight
<1>3. /\ \A m : Extended(m)' \subseteq Extended(m)
      /\ \A m \in Links : BoundTo(m)' = Current(link'[m].schedule) \cup Extended(m)'
  BY <1>1, ExtendedShrinks DEF BoundTo, Current, Today
<1>4. ASSUME NEW m \in Links  PROVE Moves(m)
  <2>1. CASE m # l
    BY <1>2, <1>3, <2>1 DEF Moves, Kept, BoundTo, Confirmed, Exists
  <2>2. CASE m = l
    <3> SUFFICES ASSUME Confirmed(l)'
                 PROVE  Kept(l) \/ \E t \in holding \ holding' : Grown(l, t)
      BY <2>2 DEF Moves
    <3>1. k.status = "CONFIRMED" /\ link'[l] = k
      BY <1>2 DEF Confirmed
    <3>2. CASE Confirmed(l) /\ k.driver = link[l].driver /\ k.schedule = link[l].schedule
      BY <1>3, <3>1, <3>2 DEF Kept, BoundTo
    <3>3. ASSUME NEW t \in holding \ holding', t.link = l, k.driver = t.driver,
                 Current(k.schedule) = Adds(t),
                 Extended(l) = {} \/ (Confirmed(l) /\ link[l].driver = t.driver)
          PROVE  Grown(l, t)
      <4>1. BoundTo(l)' \subseteq Adds(t) \cup Extended(l)
        BY <1>3, <3>1, <3>3
      <4>2. Extended(l) \subseteq BoundTo(l)
        BY DEF BoundTo
      <4>3. QED
        BY <3>1, <3>3, <4>1, <4>2 DEF Grown
    <3>4. QED
      BY <3>1, <3>2, <3>3
  <2>3. QED
    BY <2>1, <2>2
<1>5. AuthsFollow'
  <2>1. \A m \in Links : link[m].status \in {"CONFIRMED", "REMOVED"}
                             => link'[m].status \in {"CONFIRMED", "REMOVED"}
    BY <1>2
  <2>2. QED
    BY <2>1, AuthsFollowOn
<1>6. \A t \in holding' \cap holding : Undisturbed(t)
  <2> SUFFICES ASSUME NEW t \in holding' \cap holding  PROVE Undisturbed(t)
    OBVIOUS
  <2>1. t.link \in Links /\ t.link # l
    BY DEF BookInv, TxnsRight, TxnRight
  <2>2. link'[t.link] = link[t.link]
    BY <1>2, <2>1
  <2>3. QED
    BY <1>1, <2>2, LeftAlone
<1>7. \A m \in Links : LinkSound(link[m])'
  BY <1>2 DEF HoursInv, LinkSound, Ending
<1> DEFINE none == {}
<1>8. holding' \ holding \subseteq none /\ \A t \in none : Fitting(t)'
  OBVIOUS
<1> HIDE DEF none
<1>9. QED
  BY <1>1, <1>4, <1>5, <1>6, <1>7, <1>8, HoursKept DEF Undisturbed

(* The actions on a link that are no transactions.                             *)
LEMMA LinkEndsKept ==
  ASSUME NEW k, DOMAIN k = LinkFields, NEW x
  PROVE  /\ [k EXCEPT !.status = x].expiresAt = k.expiresAt
         /\ [k EXCEPT !.pending = x].expiresAt = k.expiresAt
         /\ [k EXCEPT !.expiresAt = x].expiresAt = x
BY DEF LinkFields

LEMMA LinkOf ==
  ASSUME BookInv, HoursInv, NEW l \in Links, Exists(l)
  PROVE  /\ DOMAIN link[l] = LinkFields /\ link[l].driver \in Drivers
         /\ Agenda(link[l].schedule) /\ link[l] # NoLink
         /\ link[l].status \in Statuses
         /\ link[l].pending # None => link[l].status = "CONFIRMED" /\ Agenda(link[l].pending)
         /\ link[l].expiresAt = Never <=> datedScheduleExpiry(link[l].schedule) = Never
         /\ Ending(link[l])
BY DEF BookInv, LinksRight, LinkRight, HoursInv, LinkSound, Exists, NoLink

LEMMA InviteHours ==
  ASSUME BookInv, BookInv', HoursInv, NEW l \in Links, NEW d \in Drivers,
         NEW schedule \in Schedules[d], inviteDriver(l, d, schedule)
  PROVE  HoursInv'
<1> DEFINE k == NewLink(d, "INVITED", schedule)
<1>1. /\ link' = [link EXCEPT ![l] = k] /\ ~Exists(l) /\ LinkFree(l)
      /\ holding' = holding /\ auth' = auth /\ now' = now
  BY DEF inviteDriver
<1>2. /\ k.status = "INVITED" /\ k.schedule = schedule /\ k.pending = None
      /\ k.expiresAt = datedScheduleExpiry(schedule)
  BY DEF NewLink
<1> HIDE DEF k
<1>3. LinkSound(k)
  BY <1>2, AgendaAssumption, FreshEnding DEF LinkSound, Statuses
<1>4. link[l].status \notin {"CONFIRMED", "REMOVED"}
  BY <1>1 DEF Exists
<1>5. AuthsTurn
  BY <1>1, SameAuths
<1>6. QED
  BY <1>1, <1>2, <1>3, <1>4, <1>5, LinkHours DEF LinkFree

LEMMA RemoveHours ==
  ASSUME BookInv, BookInv', HoursInv, NEW l \in Links, removeLink(l)  PROVE HoursInv'
<1> DEFINE old == link[l]
           k == [old EXCEPT !.status = "REMOVED", !.pending = None]
<1>1. /\ link' = [link EXCEPT ![l] = k] /\ Exists(l) /\ LinkFree(l)
      /\ holding' = holding /\ auth' = auth /\ now' = now
  BY DEF removeLink
<1>2. /\ DOMAIN old = LinkFields /\ Ending(old)
      /\ old.expiresAt = Never <=> datedScheduleExpiry(old.schedule) = Never
  BY <1>1, LinkOf
<1> HIDE DEF old
<1>3. /\ k.status = "REMOVED" /\ k.pending = None /\ k.schedule = old.schedule
      /\ k.expiresAt = old.expiresAt
  BY <1>2 DEF LinkFields
<1> HIDE DEF k
<1>4. LinkSound(k)
  BY <1>2, <1>3 DEF LinkSound, Statuses, Ending
<1>5. AuthsTurn
  BY <1>1, SameAuths
<1>6. QED
  BY <1>1, <1>3, <1>4, <1>5, LinkHours DEF LinkFree

LEMMA PendingHours ==
  ASSUME BookInv, BookInv', HoursInv, NEW l \in Links, NEW pending, Confirmed(l), LinkFree(l),
         link' = [link EXCEPT ![l] = [link[l] EXCEPT !.pending = pending]],
         holding' = holding, auth' = auth, now' = now
  PROVE  HoursInv'
<1> DEFINE old == link[l]
           k == [old EXCEPT !.pending = pending]
<1>1. /\ DOMAIN old = LinkFields /\ Ending(old) /\ old.status = "CONFIRMED"
      /\ old.expiresAt = Never <=> datedScheduleExpiry(old.schedule) = Never
  BY LinkOf DEF Confirmed
<1>2. link' = [link EXCEPT ![l] = k]
  OBVIOUS
<1>3. /\ k.status = old.status /\ k.pending = pending /\ k.schedule = old.schedule
      /\ k.expiresAt = old.expiresAt /\ k.driver = old.driver
  <2> HIDE DEF old
  <2>1. QED
    BY <1>1, LinkFieldsKept, LinkEndsKept
<1> HIDE DEF k
<1>4. LinkSound(k)
  BY <1>1, <1>3 DEF LinkSound, Statuses, Ending
<1>5. AuthsTurn
  BY SameAuths
<1>6. QED
  BY <1>1, <1>2, <1>3, <1>4, <1>5, LinkHours DEF LinkFree

(* What the transactions read.                                                 *)
LEMMA ConfirmReadsHours ==
  ASSUME BookInv, BookInv', HoursInv, NEW l \in Links, confirmLinkReads(l)  PROVE HoursInv'
<1> DEFINE d == link[l].driver
           t == Txn("confirmLink", d, l, None, None)
           D == Current(link[l].schedule)
<1>1. /\ Holds(t) /\ Exists(l) /\ link[l].status = "INVITED"
      /\ ~schedulesConflict(driverActiveSchedule(d, l), D)
  BY DEF confirmLinkReads, Fits, Current
<1>2. t.op = "confirmLink" /\ t.link = l /\ t.driver = d /\ Adds(t) = D
  BY DEF Txn, Adds
<1>3. \A i \in D : Hours(i)
  BY <1>1, LinkOf, AgendaHours DEF Current
<1> HIDE DEF t, d, D
<1>4. ASSUME NEW k \in Links, Confirmed(k), k # l, link[k].driver = d
      PROVE  AllClear(Adds(t), BoundTo(k), now)
  BY <1>1, <1>2, <1>3, <1>4, FitsClear DEF HoursInv
<1>5. Fitting(t)
  BY <1>1, <1>2, <1>4 DEF Fitting, Deciding, d
<1>6. QED
  BY <1>1, <1>5, HoldHours

LEMMA TermsReadsHours ==
  ASSUME BookInv, BookInv', HoursInv, NEW l \in Links, confirmTermsReads(l)  PROVE HoursInv'
<1> DEFINE d == link[l].driver
           t == Txn("confirmLinkTermsChange", d, l, None, None)
           D == Current(link[l].pending)
<1>1. /\ Holds(t) /\ Exists(l) /\ link[l].pending # None
      /\ ~schedulesConflict(driverActiveSchedule(d, l), D)
  BY DEF confirmTermsReads, Fits, Confirmed, Current
<1>2. t.op = "confirmLinkTermsChange" /\ t.link = l /\ t.driver = d /\ Adds(t) = D
  BY DEF Txn, Adds
<1>3. \A i \in D : Hours(i)
  BY <1>1, LinkOf, AgendaHours DEF Current
<1> HIDE DEF t, d, D
<1>4. ASSUME NEW k \in Links, Confirmed(k), k # l, link[k].driver = d
      PROVE  AllClear(Adds(t), BoundTo(k), now)
  BY <1>1, <1>2, <1>3, <1>4, FitsClear DEF HoursInv
<1>5. Fitting(t)
  BY <1>1, <1>2, <1>4 DEF Fitting, Deciding, d
<1>6. QED
  BY <1>1, <1>5, HoldHours

LEMMA OfferReadsHours ==
  ASSUME BookInv, BookInv', HoursInv, NEW l \in Links, NEW d \in Drivers, NEW o \in Offers,
         acceptOfferReads(d, o, l)
  PROVE  HoursInv'
<1> DEFINE t == Txn("acceptOffer", d, l, o, None)
           D == Current(OfferSchedule[o])
<1>1. /\ Holds(t) /\ ~schedulesConflict(driverActiveSchedule(d, None), D)
  <2>1. {i \in Effective(o) : i.weekly \/ i.day >= Today} = D
    BY DEF Effective, Current
  <2>2. QED
    BY <2>1 DEF acceptOfferReads, Fits
<1>2. t.op = "acceptOffer" /\ t.link = l /\ t.driver = d /\ Adds(t) = D
  BY DEF Txn, Adds
<1>3. \A i \in D : Hours(i)
  BY AgendaAssumption, AgendaHours DEF Current
<1> HIDE DEF t, D
<1>4. ASSUME NEW k \in Links, Confirmed(k), link[k].driver = d
      PROVE  AllClear(Adds(t), BoundTo(k), now)
  <2>1. k # None
    BY NoneAssumption
  <2>2. QED
    BY <1>1, <1>2, <1>3, <1>4, <2>1, FitsClear DEF HoursInv
<1>5. Fitting(t)
  BY <1>1, <1>2, <1>4 DEF Fitting, Deciding
<1>6. QED
  BY <1>1, <1>5, HoldHours

LEMMA DecideReadsHours ==
  ASSUME BookInv, BookInv', HoursInv, NEW x \in Auths, decideAuthorizationReads(x)
  PROVE  HoursInv'
<1> DEFINE l == auth[x].link
           d == link[l].driver
           t == Txn("decideShiftAuthorization", d, l, None, x)
           D == {Exception(x)}
<1>1. Holds(t) /\ auth[x] # None
  BY DEF decideAuthorizationReads
<1>2. PICK B : driverActiveSchedule(d, l) \subseteq B /\ ~schedulesConflict(B, D)
  <2>1. PICK o : ~schedulesConflict(driverActiveSchedule(d, l) \cup (link[l].schedule \ {o.item}), D)
    BY DEF decideAuthorizationReads
  <2>2. QED
    BY <2>1
<1>3. AuthRight(auth[x]) /\ l \in Links
  BY <1>1 DEF BookInv, AuthsRight, AuthRight
<1>4. /\ t.op = "decideShiftAuthorization" /\ t.link = l /\ t.driver = d /\ t.auth = x
      /\ Adds(t) = D
  BY DEF Txn, Adds
<1>5. \A i \in D : Hours(i)
  BY <1>3, ExceptionHours
<1> HIDE DEF t, d, D
<1>6. ASSUME NEW k \in Links, Confirmed(k), k # l, link[k].driver = d
      PROVE  AllClear(Adds(t), BoundTo(k), now)
  <2> HIDE DEF l
  <2>1. QED
    BY <1>2, <1>4, <1>5, <1>6, FitsClear DEF HoursInv
<1>7. Fitting(t)
  BY <1>1, <1>4, <1>6 DEF Fitting, Deciding, d
<1>8. QED
  BY <1>1, <1>7, HoldHours

LEMMA StartReadsHours ==
  ASSUME BookInv, BookInv', HoursInv, NEW l \in Links, NEW o, startShiftReads(l, o)
  PROVE  HoursInv'
<1> DEFINE t == [Txn("startShift", link[l].driver, l, None, o.auth) EXCEPT !.offer = o]
<1>1. Holds(t) /\ o \in Startable(l)
  BY DEF startShiftReads
<1>2. t.op = "startShift" /\ t.link = l /\ t.offer = o /\ t.auth = o.auth /\ Adds(t) = {}
  BY DEF Txn, Adds
<1> HIDE DEF t
<1>3. o.auth # None => auth[o.auth] # None /\ auth[o.auth].link = l
  BY <1>1 DEF Startable, Usable, AcceptedAuths
<1>4. Fitting(t)
  BY <1>2, <1>3 DEF Fitting, Deciding, AllClear
<1>5. QED
  BY <1>1, <1>4, HoldHours

(* What the transactions write.                                                *)
LEMMA NothingExtended ==
  ASSUME HoursInv, NEW l, link[l].status \notin {"CONFIRMED", "REMOVED"}
  PROVE  Extended(l) = {}
BY DEF HoursInv, AuthsFollow, Extended, AcceptedAuths

LEMMA ConfirmHours ==
  ASSUME BookInv, BookInv', HoursInv, NEW t \in holding, confirmLink(t)  PROVE HoursInv'
<1> DEFINE l == t.link
           old == link[l]
           k == [old EXCEPT !.status = "CONFIRMED"]
<1>1. /\ link' = [link EXCEPT ![l] = k] /\ holding' = holding \ {t}
      /\ auth' = auth /\ now' = now /\ t.op = "confirmLink"
  BY DEF confirmLink, Ends
<1>2. l \in Links /\ Exists(l) /\ \A u \in holding' : u.link # l
  BY <1>1, Alone DEF TxnRight
<1>3. old.status = "INVITED" /\ old.driver = t.driver /\ Adds(t) = Current(old.schedule)
  BY <1>1 DEF HoursInv, Fitting, Adds
<1>4. /\ DOMAIN old = LinkFields /\ Ending(old) /\ (old.pending # None => old.status = "CONFIRMED")
      /\ old.expiresAt = Never <=> datedScheduleExpiry(old.schedule) = Never
  BY <1>2, LinkOf
<1>5. Extended(l) = {}
  BY <1>3, NothingExtended
<1> HIDE DEF old, l
<1>6. /\ k.status = "CONFIRMED" /\ k.pending = old.pending /\ k.schedule = old.schedule
      /\ k.expiresAt = old.expiresAt /\ k.driver = old.driver
  BY <1>4, LinkFieldsKept, LinkEndsKept
<1> HIDE DEF k
<1>7. LinkSound(k)
  BY <1>4, <1>6 DEF LinkSound, Statuses, Ending
<1>8. AuthsTurn
  BY <1>1, SameAuths
<1>9. t \in holding \ holding' /\ t.link = l
  BY <1>1 DEF l
<1>10. \E u \in holding \ holding' :
         /\ u.link = l /\ k.driver = u.driver /\ Current(k.schedule) = Adds(u)
         /\ Extended(l) = {} \/ (Confirmed(l) /\ link[l].driver = u.driver)
  <2>1. t.link = l /\ k.driver = t.driver /\ Current(k.schedule) = Adds(t)
    BY <1>3, <1>5, <1>6, <1>9
  <2>2. Extended(l) = {} \/ (Confirmed(l) /\ link[l].driver = t.driver)
    BY <1>5
  <2>3. QED
    BY <1>9, <2>1, <2>2
<1>11. QED
  BY <1>1, <1>2, <1>6, <1>7, <1>8, <1>10, LinkHours

LEMMA TermsHours ==
  ASSUME BookInv, BookInv', HoursInv, NEW t \in holding, confirmLinkTermsChange(t)
  PROVE  HoursInv'
<1> DEFINE l == t.link
           old == link[l]
           expiry == IF old.pending # old.schedule THEN datedScheduleExpiry(old.pending)
                                                   ELSE old.expiresAt
           k == [old EXCEPT !.schedule = old.pending, !.pending = None, !.expiresAt = expiry]
<1>1. /\ link' = [link EXCEPT ![l] = k] /\ holding' = holding \ {t}
      /\ auth' = auth /\ now' = now /\ t.op = "confirmLinkTermsChange"
  BY DEF confirmLinkTermsChange, Ends
<1>2. /\ l \in Links /\ old.status = "CONFIRMED" /\ old.pending # None
      /\ \A u \in holding' : u.link # l
  BY <1>1, Alone DEF TxnRight, TermsRight
<1>3. old.driver = t.driver /\ Adds(t) = Current(old.pending)
  BY <1>1 DEF HoursInv, Fitting, Adds
<1>4. /\ DOMAIN old = LinkFields /\ Ending(old) /\ Agenda(old.pending)
      /\ old.expiresAt = Never <=> datedScheduleExpiry(old.schedule) = Never
  BY <1>2, LinkOf DEF Exists
<1>5. Confirmed(l)
  BY <1>2 DEF Confirmed, Exists
<1>6. link[l].driver = old.driver
  OBVIOUS
<1> HIDE DEF old, l
<1>7. /\ k.status = "CONFIRMED" /\ k.pending = None /\ k.schedule = old.pending
      /\ k.expiresAt = expiry /\ k.driver = old.driver
  <2> HIDE DEF expiry
  <2>1. QED
    BY <1>2, <1>4 DEF LinkFields
<1> HIDE DEF k
<1>8. LinkSound(k)
  <2>1. CASE old.pending # old.schedule
    BY <1>4, <1>7, <2>1, FreshEnding DEF LinkSound, Statuses
  <2>2. CASE old.pending = old.schedule
    BY <1>4, <1>7, <2>2 DEF LinkSound, Statuses, Ending
  <2>3. QED
    BY <2>1, <2>2
<1>9. AuthsTurn
  BY <1>1, SameAuths
<1>10. t \in holding \ holding' /\ t.link = l
  BY <1>1 DEF l
<1> HIDE DEF expiry
<1>11. \E u \in holding \ holding' :
         /\ u.link = l /\ k.driver = u.driver /\ Current(k.schedule) = Adds(u)
         /\ Extended(l) = {} \/ (Confirmed(l) /\ link[l].driver = u.driver)
  BY <1>3, <1>5, <1>6, <1>7, <1>10
<1>12. QED
  BY <1>1, <1>2, <1>7, <1>8, <1>9, <1>11, LinkHours

LEMMA AcceptHours ==
  ASSUME BookInv, BookInv', HoursInv, NEW t \in holding, acceptOffer(t)  PROVE HoursInv'
<1> DEFINE l == t.link
           k == NewLink(t.driver, "CONFIRMED", OfferSchedule[t.offer])
<1>1. /\ link' = [link EXCEPT ![l] = k] /\ holding' = holding \ {t}
      /\ auth' = auth /\ now' = now /\ t.op = "acceptOffer"
  BY DEF acceptOffer, Ends
<1>2. /\ l \in Links /\ ~Exists(l) /\ t.offer \in Offers
      /\ \A u \in holding' : u.link # l
  BY <1>1, Alone DEF TxnRight
<1>3. /\ k.driver = t.driver /\ k.pending = None /\ k.status = "CONFIRMED"
      /\ k.schedule = OfferSchedule[t.offer]
      /\ k.expiresAt = datedScheduleExpiry(OfferSchedule[t.offer])
  BY DEF NewLink
<1>4. Adds(t) = Current(OfferSchedule[t.offer]) /\ Agenda(OfferSchedule[t.offer])
  BY <1>1, <1>2, AgendaAssumption DEF Adds
<1>5. Extended(l) = {}
  BY <1>2, NothingExtended DEF Exists
<1> HIDE DEF k
<1>6. LinkSound(k)
  BY <1>3, <1>4, FreshEnding DEF LinkSound, Statuses
<1>7. AuthsTurn
  BY <1>1, SameAuths
<1>8. t \in holding \ holding' /\ t.link = l
  BY <1>1
<1> HIDE DEF l
<1>9. \E u \in holding \ holding' :
         /\ u.link = l /\ k.driver = u.driver /\ Current(k.schedule) = Adds(u)
         /\ Extended(l) = {} \/ (Confirmed(l) /\ link[l].driver = u.driver)
  <2>1. t.link = l /\ k.driver = t.driver /\ Current(k.schedule) = Adds(t)
    BY <1>3, <1>4, <1>5, <1>8
  <2>2. Extended(l) = {} \/ (Confirmed(l) /\ link[l].driver = t.driver)
    BY <1>5
  <2>3. QED
    BY <1>8, <2>1, <2>2
<1>10. QED
  BY <1>1, <1>2, <1>3, <1>6, <1>7, <1>9, LinkHours

(* An authorization accepted: the link may end later, and binds to one more.   *)
LEMMA AcceptAuthHours ==
  ASSUME BookInv, BookInv', HoursInv, NEW t \in holding, acceptShiftAuthorization(t)
  PROVE  HoursInv'
<1> DEFINE l == t.link
           x == t.auth
           a == auth[x]
           old == link[l]
           expiry == IF old.expiresAt # Never /\ a.end > old.expiresAt THEN a.end
                                                                      ELSE old.expiresAt
           status == "ACCEPTED"
           k == [old EXCEPT !.expiresAt = expiry]
           b == [a EXCEPT !.status = status]
<1>1. /\ holding' = holding \ {t} /\ now' = now /\ t.op = "decideShiftAuthorization"
      /\ auth' = [auth EXCEPT ![x] = b] /\ link' = [link EXCEPT ![l] = k]
  BY DEF acceptShiftAuthorization, Ends
<1>2. /\ l \in Links /\ x \in Auths /\ AuthRight(a)
      /\ \A u \in holding' : TxnRight(u) /\ u.link # l
  BY <1>1, Alone DEF TxnRight, Deciding
<1>3. a # None /\ a.link = l /\ old.driver = t.driver /\ Adds(t) = {Exception(x)}
  BY <1>1 DEF HoursInv, Fitting, Adds, Deciding
<1>4. AuthSound(a) /\ old.status \in {"CONFIRMED", "REMOVED"}
  BY <1>2, <1>3 DEF HoursInv, AuthsFollow
<1>5. /\ DOMAIN old = LinkFields /\ Ending(old)
      /\ (old.pending # None => old.status = "CONFIRMED") /\ old.status \in Statuses
      /\ old.expiresAt = Never <=> datedScheduleExpiry(old.schedule) = Never
  <2>1. Exists(l)
    BY <1>4 DEF Exists
  <2>2. QED
    BY <1>2, <2>1, LinkOf
<1>6. /\ \A m \in Links : link'[m] = IF m = l THEN k ELSE link[m]
      /\ \A y \in Auths : auth'[y] = IF y = x THEN b ELSE auth[y]
  BY <1>1 DEF BookInv, LinksRight, AuthsRight
<1> HIDE DEF old, a
<1>7. /\ k.status = old.status /\ k.pending = old.pending /\ k.schedule = old.schedule
      /\ k.expiresAt = expiry /\ k.driver = old.driver
  <2> HIDE DEF expiry
  <2>1. QED
    BY <1>5, LinkFieldsKept, LinkEndsKept
<1>8. /\ b.link = a.link /\ b.date = a.date /\ b.until = a.until
      /\ b.start = a.start /\ b.end = a.end /\ b.status = status
  BY <1>2, AuthFieldsKept
<1> HIDE DEF k, b
<1>9. LinkSound(k)
  <2>1. a.end \in Int
    BY <1>2 DEF AuthRight, Window
  <2>2. CASE old.expiresAt = Never
    BY <1>5, <1>7, <2>2 DEF LinkSound, Ending
  <2>3. CASE old.expiresAt # Never
    <3>1. old.expiresAt \in Int /\ \A i \in old.schedule : ~i.weekly /\ interval(i.day, i)[2] <= old.expiresAt
      BY <1>5, <2>3 DEF Ending
    <3>2. expiry \in Int /\ old.expiresAt <= expiry /\ expiry # Never
      BY <2>1, <2>3, <3>1, NoneAssumption
    <3>3. Agenda(old.schedule)
      BY <1>2, <1>4, LinkOf DEF Exists, old
    <3>4. \A i \in old.schedule : interval(i.day, i)[2] \in Int
      BY <3>3, AgendaHours, IntervalIs DEF Hours
    <3>5. \A i \in old.schedule : ~i.weekly /\ interval(i.day, i)[2] <= expiry
      <4> HIDE DEF expiry
      <4>1. QED
        BY <3>1, <3>2, <3>4
    <3> HIDE DEF expiry
    <3>6. QED
      BY <1>5, <1>7, <2>3, <3>2, <3>5 DEF LinkSound, Ending
  <2>4. QED
    BY <2>2, <2>3
<1>10. now \in Int /\ now <= now'
  BY <1>1 DEF BookInv
<1>11. \A m : Extended(m)' \subseteq Extended(m) \cup (IF m = l THEN {Exception(x)} ELSE {})
  <2> SUFFICES ASSUME NEW m, NEW y \in Auths, auth'[y] # None, auth'[y].link = m,
                      auth'[y].status = "ACCEPTED", auth'[y].until > now'
               PROVE  Exception(y)' \in Extended(m) \cup (IF m = l THEN {Exception(x)} ELSE {})
    BY DEF Extended, AcceptedAuths
  <2>1. CASE y = x
    <3>1. auth'[y] = b /\ m = l
      BY <1>3, <1>6, <1>8, <2>1
    <3>2. Exception(y)' = Exception(x)
      BY <1>8, <2>1, <3>1 DEF Exception, a
    <3>3. QED
      BY <3>1, <3>2
  <2>2. CASE y # x
    <3>1. auth'[y] = auth[y]
      BY <1>6, <2>2
    <3>2. Exception(y)' = Exception(y)
      BY <3>1 DEF Exception
    <3>3. QED
      BY <1>1, <3>1, <3>2 DEF Extended, AcceptedAuths
  <2>3. QED
    BY <2>1, <2>2
<1>12. ASSUME NEW m \in Links  PROVE Moves(m)
  <2>0. BoundTo(m)' = Current(link'[m].schedule) \cup Extended(m)'
    BY <1>1 DEF BoundTo, Current, Today
  <2>1. CASE m # l
    BY <1>6, <1>11, <2>0, <2>1 DEF Moves, Kept, BoundTo, Confirmed, Exists
  <2>2. CASE m = l
    <3> SUFFICES ASSUME Confirmed(l)'  PROVE Grown(l, t)
      BY <1>1, <2>2 DEF Moves
    <3>1. link'[l] = k /\ link[l] = old
      BY <1>2, <1>6 DEF old
    <3>2. Confirmed(l)
      BY <1>7, <3>1 DEF Confirmed, Exists
    <3>3. BoundTo(l)' \subseteq Adds(t) \cup BoundTo(l)
      BY <1>3, <1>7, <1>11, <2>0, <2>2, <3>1 DEF BoundTo
    <3>4. QED
      BY <1>3, <1>7, <3>1, <3>2, <3>3 DEF Grown
  <2>3. QED
    BY <2>1, <2>2
<1>13. AuthsFollow'
  <2> SUFFICES ASSUME NEW y \in Auths, auth'[y] # None
               PROVE  AuthSound(auth'[y]) /\ link'[auth'[y].link].status \in {"CONFIRMED", "REMOVED"}
    BY DEF AuthsFollow
  <2>1. CASE y = x
    <3>1. auth'[y] = b /\ link'[b.link] = k
      BY <1>2, <1>3, <1>6, <1>8, <2>1
    <3>2. AuthSound(b)
      BY <1>4, <1>8 DEF AuthSound, AuthStatuses
    <3>3. QED
      BY <1>4, <1>7, <3>1, <3>2
  <2>2. CASE y # x
    <3>1. auth'[y] = auth[y] /\ auth[y].link \in Links
      BY <1>6, <2>2 DEF BookInv, AuthsRight, AuthRight
    <3>2. AuthSound(auth[y]) /\ link[auth[y].link].status \in {"CONFIRMED", "REMOVED"}
      BY <3>1 DEF HoursInv, AuthsFollow
    <3>3. QED
      BY <1>4, <1>6, <1>7, <3>1, <3>2 DEF old
  <2>3. QED
    BY <2>1, <2>2
<1>14. ASSUME NEW u \in holding' \cap holding  PROVE Undisturbed(u)
  <2>1. u.link \in Links /\ u.link # l /\ TxnRight(u)
    BY <1>2 DEF TxnRight
  <2>2. link'[u.link] = link[u.link]
    BY <1>6, <2>1
  <2>3. Deciding(u) => u.auth # x /\ u.auth \in Auths
    <3>1. Deciding(u) => auth[u.auth].link = u.link
      BY DEF HoursInv, Fitting
    <3>2. QED
      BY <1>3, <2>1, <3>1 DEF TxnRight, a
  <2>4. QED
    BY <1>1, <1>6, <1>10, <2>2, <2>3, LeftAlone DEF BookInv
<1>15. \A m \in Links : LinkSound(link[m])'
  BY <1>6, <1>9 DEF HoursInv, LinkSound, Ending
<1> DEFINE none == {}
<1>16. holding' \ holding \subseteq none /\ \A u \in none : Fitting(u)'
  BY <1>1
<1> HIDE DEF none
<1>17. QED
  BY <1>10, <1>12, <1>13, <1>14, <1>15, <1>16, HoursKept DEF Undisturbed

(* Authorizations used, asked for, refused and withdrawn.                      *)
LEMMA StartHours ==
  ASSUME BookInv, BookInv', HoursInv, NEW t \in holding, startShift(t)  PROVE HoursInv'
<1> DEFINE x == t.offer.auth
           used == "USED"
<1>1. /\ holding' = holding \ {t} /\ link' = link /\ now' = now /\ t.op = "startShift"
      /\ \/ auth' = auth
         \/ x # None /\ auth' = [auth EXCEPT ![x] = [auth[x] EXCEPT !.status = used]]
  BY DEF startShift, Ends
<1>2. now <= now'
  BY <1>1 DEF BookInv
<1>3. used \in AuthStatuses \ {"ACCEPTED"}
  BY DEF AuthStatuses
<1> HIDE DEF used
<1>4. CASE auth' = auth
  BY <1>1, <1>2, <1>4, SameAuths, QuietHours
<1>5. CASE x # None /\ auth' = [auth EXCEPT ![x] = [auth[x] EXCEPT !.status = used]]
  <2>1. /\ x \in Auths /\ auth[x] # None /\ auth[x].link = t.link
        /\ \A u \in holding' : u.link # t.link /\ TxnRight(u)
    <3>1. Deciding(t) /\ t.auth = x
      BY <1>1, <1>5, Alone DEF Deciding, TxnRight
    <3>2. QED
      BY <1>1, <3>1, Alone DEF TxnRight, HoursInv, Fitting
  <2>2. AuthsTurn
    BY <1>3, <1>5, <2>1, AuthEnds
  <2>3. \A u \in holding' : Deciding(u) => auth'[u.auth] = auth[u.auth]
    <3> SUFFICES ASSUME NEW u \in holding', Deciding(u)  PROVE auth'[u.auth] = auth[u.auth]
      OBVIOUS
    <3>1. u.auth # x
      BY <1>1, <2>1, NoBusinessOf
    <3>2. auth = [y \in Auths |-> auth[y]]
      BY DEF BookInv, AuthsRight
    <3>3. auth'[u.auth] = auth[u.auth]
      <4> DEFINE decided == [auth[x] EXCEPT !.status = used]
      <4> HIDE DEF decided
      <4>1. auth' = [auth EXCEPT ![x] = decided]
        BY <1>5 DEF decided
      <4>2. QED
        BY <2>1, <3>1, <3>2, <4>1
    <3>4. QED
      BY <3>3
  <2>4. QED
    BY <1>1, <1>2, <2>2, <2>3, QuietHours
<1>6. QED
  BY <1>1, <1>4, <1>5

LEMMA AskHours ==
  ASSUME BookInv, BookInv', HoursInv, NEW x \in Auths, NEW l \in Links, NEW date \in Int,
         Exists(l), NEW o \in occurrenceForWorkDate(link[l].schedule, date), NEW until \in Int,
         NEW extra \in Extensions, createShiftAuthorization(x, l, o, until, extra)
  PROVE  HoursInv'
<1> DEFINE a == [link |-> l, date |-> o.date, start |-> o.start, end |-> o.end + extra,
                 until |-> until, status |-> "PENDING"]
<1>1. /\ auth' = [y \in Auths |-> IF y = x THEN a
                    ELSE IF Lapsed(y, l, o.date) THEN [auth[y] EXCEPT !.status = "CANCELLED"]
                    ELSE auth[y]]
      /\ link' = link /\ holding' = holding /\ now' = now
      /\ auth[x] = None /\ Confirmed(l) /\ LinkFree(l)
      /\ now > o.start + Tolerance /\ now < until /\ until < o.end + extra
  BY DEF createShiftAuthorization
<1>2. a.link = l /\ a.start = o.start /\ a.end = o.end + extra /\ a.until = until /\ a.status = "PENDING"
  OBVIOUS
<1> HIDE DEF a
<1>3. AuthSound(a)
  <2>1. Window(o)
    BY LinkOf, OccurrenceWindow
  <2>2. o.start \in Int /\ Tolerance \in Nat /\ now \in Int
    BY <2>1, DayAssumption DEF Window, BookInv
  <2>3. o.start < until
    BY <1>1, <2>2
  <2>4. QED
    BY <1>1, <1>2, <2>3 DEF AuthSound, AuthStatuses
<1>4. ASSUME NEW y \in Auths, auth[y] # None
      PROVE  LET b == [auth[y] EXCEPT !.status = "CANCELLED"]
             IN AuthSound(b) /\ b.link = auth[y].link /\ b.status = "CANCELLED"
  <2> DEFINE old == auth[y]
             status == "CANCELLED"
             b == [old EXCEPT !.status = status]
  <2>1. AuthRight(old) /\ AuthSound(old)
    BY <1>4 DEF BookInv, AuthsRight, HoursInv, AuthsFollow
  <2> HIDE DEF old
  <2>2. /\ b.link = old.link /\ b.until = old.until
        /\ b.start = old.start /\ b.end = old.end /\ b.status = status
    BY <2>1, AuthFieldsKept
  <2> HIDE DEF b
  <2>3. AuthSound(b)
    BY <2>1, <2>2 DEF AuthSound, AuthStatuses
  <2>4. QED
    BY <2>2, <2>3 DEF b, old
<1>5. AuthsTurn
  <2> SUFFICES ASSUME NEW y \in Auths, auth'[y] # None
               PROVE  /\ AuthSound(auth'[y])
                      /\ (auth[y] # None /\ auth'[y].link = auth[y].link) \/ Confirmed(auth'[y].link)
                      /\ auth'[y].status = "ACCEPTED" => auth'[y] = auth[y] /\ auth[y] # None
    BY DEF AuthsTurn
  <2>1. CASE y = x
    BY <1>1, <1>2, <1>3, <2>1
  <2>2. CASE y # x /\ Lapsed(y, l, o.date)
    BY <1>1, <1>4, <2>2 DEF Lapsed
  <2>3. CASE y # x /\ ~Lapsed(y, l, o.date)
    BY <1>1, <2>3 DEF HoursInv, AuthsFollow
  <2>4. QED
    BY <2>1, <2>2, <2>3
<1>6. \A t \in holding' : Deciding(t) => auth'[t.auth] = auth[t.auth]
  <2> SUFFICES ASSUME NEW t \in holding, Deciding(t)  PROVE auth'[t.auth] = auth[t.auth]
    BY <1>1
  <2>1. /\ t.auth \in Auths /\ auth[t.auth] # None /\ auth[t.auth].link = t.link /\ t.link # l
    BY <1>1 DEF HoursInv, Fitting, BookInv, TxnsRight, TxnRight, LinkFree
  <2>2. QED
    BY <1>1, <2>1 DEF Lapsed
<1>7. now <= now'
  BY <1>1 DEF BookInv
<1>8. QED
  BY <1>1, <1>5, <1>6, <1>7, QuietHours

LEMMA RejectHours ==
  ASSUME BookInv, BookInv', HoursInv, NEW x \in Auths, rejectShiftAuthorization(x)
  PROVE  HoursInv'
<1> DEFINE status == "REJECTED"
<1>1. /\ auth[x] # None /\ link' = link /\ holding' = holding /\ now' = now
      /\ auth' = [auth EXCEPT ![x] = [auth[x] EXCEPT !.status = status]]
      /\ LinkFree(auth[x].link)
  BY DEF rejectShiftAuthorization
<1>2. status \in AuthStatuses \ {"ACCEPTED"}
  BY DEF AuthStatuses
<1> HIDE DEF status
<1>3. AuthsTurn
  BY <1>1, <1>2, AuthEnds
<1>4. \A u \in holding' : Deciding(u) => auth'[u.auth] = auth[u.auth]
  <2> SUFFICES ASSUME NEW u \in holding, Deciding(u)  PROVE auth'[u.auth] = auth[u.auth]
    BY <1>1
  <2>1. u.auth # x
    BY <1>1, NoBusinessOf DEF LinkFree
  <2>2. QED
    BY <1>1, <2>1 DEF BookInv, AuthsRight
<1>5. now <= now'
  BY <1>1 DEF BookInv
<1>6. QED
  BY <1>1, <1>3, <1>4, <1>5, QuietHours

(* Withdrawn, an authorization leaves the link its dates at least.             *)
LEMMA CancelHours ==
  ASSUME BookInv, BookInv', HoursInv, NEW x \in Auths, cancelShiftAuthorization(x)
  PROVE  HoursInv'
<1> DEFINE status == "CANCELLED"
           l == auth[x].link
           old == link[l]
           last == datedScheduleExpiry(old.schedule)
           ends == {auth[y].end : y \in AcceptedAuths(l) \ {x}}
           until == IF last = Never THEN Never ELSE Max({last} \cup ends)
           k == [old EXCEPT !.expiresAt = until]
<1>1. /\ auth[x] # None /\ holding' = holding /\ now' = now
      /\ auth' = [auth EXCEPT ![x] = [auth[x] EXCEPT !.status = status]]
      /\ LinkFree(l) /\ link' = [link EXCEPT ![l] = k]
  BY DEF cancelShiftAuthorization
<1>2. status \in AuthStatuses \ {"ACCEPTED"}
  BY DEF AuthStatuses
<1> HIDE DEF status
<1>3. AuthsTurn
  BY <1>1, <1>2, AuthEnds
<1>4. \A u \in holding' : Deciding(u) => auth'[u.auth] = auth[u.auth]
  <2> SUFFICES ASSUME NEW u \in holding, Deciding(u)  PROVE auth'[u.auth] = auth[u.auth]
    BY <1>1
  <2>1. u.auth # x
    BY <1>1, NoBusinessOf DEF LinkFree
  <2>2. QED
    BY <1>1, <2>1 DEF BookInv, AuthsRight
<1>5. l \in Links /\ old.status \in {"CONFIRMED", "REMOVED"}
  BY <1>1 DEF BookInv, AuthsRight, AuthRight, HoursInv, AuthsFollow
<1>6. /\ DOMAIN old = LinkFields /\ Agenda(old.schedule)
      /\ (old.pending # None => old.status = "CONFIRMED") /\ old.status \in Statuses
  <2>1. Exists(l)
    BY <1>5 DEF Exists
  <2>2. QED
    BY <1>5, <2>1, LinkOf
<1>7. last # Never =>
        until \in Int /\ \A i \in old.schedule : ~i.weekly /\ interval(i.day, i)[2] <= until
  <2> SUFFICES ASSUME last # Never
               PROVE  until \in Int /\ \A i \in old.schedule : ~i.weekly /\ interval(i.day, i)[2] <= until
    OBVIOUS
  <2>1. last \in Int /\ \A i \in old.schedule : ~i.weekly /\ interval(i.day, i)[2] <= last
    BY <1>6, ExpiryIs
  <2>2. \A i \in old.schedule : interval(i.day, i)[2] \in Int
    BY <1>6, AgendaHours, IntervalIs DEF Hours
  <2>3. {last} \cup ends \in SUBSET Int
    <3>1. \A y \in AcceptedAuths(l) : auth[y].end \in Int
      BY DEF AcceptedAuths, BookInv, AuthsRight, AuthRight, Window
    <3>2. QED
      BY <2>1, <3>1
  <2>4. IsFiniteSet({last} \cup ends)
    <3> DEFINE S == AcceptedAuths(l) \ {x}
               f == [y \in S |-> auth[y].end]
    <3>1. IsFiniteSet(S)
      <4>1. S \subseteq Auths /\ IsFiniteSet(Auths)
        BY OfferAssumption DEF AcceptedAuths
      <4>2. QED
        BY <4>1, FS_Subset
    <3>2. f = [y \in S |-> f[y]] /\ ends = {f[y] : y \in S}
      OBVIOUS
    <3> HIDE DEF S, f, ends
    <3>3. IsFiniteSet(ends)
      BY <3>1, <3>2, FiniteValues
    <3>4. QED
      BY <3>3, FS_Singleton, FS_Union
  <2>5. until = CHOOSE t \in {last} \cup ends : \A u \in {last} \cup ends : t >= u
    BY DEF Max
  <2> DEFINE T == {last} \cup ends
  <2>6. T \in SUBSET Int /\ IsFiniteSet(T) /\ T # {} /\ last \in T
        /\ until = CHOOSE t \in T : \A u \in T : t >= u
    BY <2>3, <2>4, <2>5
  <2> HIDE DEF T, until, last
  <2>7. until \in T /\ until >= last
    BY <2>6, LargestFinite
  <2>8. until \in Int
    BY <2>6, <2>7
  <2>9. QED
    BY <2>1, <2>2, <2>7, <2>8
<1>8. last = Never => until = Never
  OBVIOUS
<1> HIDE DEF until
<1>9. until = Never <=> last = Never
  BY <1>7, <1>8, NoneAssumption
<1> HIDE DEF old
<1>10. /\ k.status = old.status /\ k.pending = old.pending /\ k.schedule = old.schedule
       /\ k.expiresAt = until /\ k.driver = old.driver
  BY <1>6, LinkFieldsKept, LinkEndsKept
<1> HIDE DEF k
<1>11. LinkSound(k)
  BY <1>6, <1>7, <1>9, <1>10 DEF LinkSound, Ending
<1>12. \A t \in holding' : t.link # l
  BY <1>1 DEF LinkFree
<1>13. k.status = "CONFIRMED" => Confirmed(l) /\ k.driver = link[l].driver /\ k.schedule = link[l].schedule
  BY <1>10 DEF Confirmed, Exists, old
<1>14. k.status \in {"CONFIRMED", "REMOVED"} /\ holding' \subseteq holding
  BY <1>1, <1>5, <1>10
<1> HIDE DEF l
<1>15. QED
  BY <1>1, <1>3, <1>4, <1>5, <1>11, <1>12, <1>13, <1>14, LinkHours

LEMMA HoursInit == Init => HoursInv
BY DEF Init, HoursInv, LinkSound, NoLink, AuthsFollow, BoundOnce, Confirmed, Exists

LEMMA HoursStep == ASSUME BookInv, HoursInv, [Next]_vars  PROVE HoursInv'
<1>1. BookInv'
  BY BookStep
<1>2. ASSUME NEW l \in Links, NEW d \in Drivers, NEW schedule \in Schedules[d],
             inviteDriver(l, d, schedule)
      PROVE  HoursInv'
  BY <1>1, <1>2, InviteHours
<1>3. ASSUME NEW l \in Links, NEW schedule, proposeLinkTerms(l, schedule)
      PROVE  HoursInv'
  BY <1>1, <1>3, PendingHours DEF proposeLinkTerms
<1>4. ASSUME NEW l \in Links, rejectLinkTermsChange(l)  PROVE HoursInv'
  <2> DEFINE pending == None
  <2>1. /\ Confirmed(l) /\ LinkFree(l)
        /\ link' = [link EXCEPT ![l] = [link[l] EXCEPT !.pending = pending]]
        /\ holding' = holding /\ auth' = auth /\ now' = now
    BY <1>4 DEF rejectLinkTermsChange
  <2> HIDE DEF pending
  <2>2. QED
    BY <1>1, <2>1, PendingHours
<1>5. ASSUME NEW l \in Links,
             \/ removeLink(l) \/ confirmLinkReads(l) \/ confirmTermsReads(l)
             \/ \E d \in Drivers, o \in Offers : acceptOfferReads(d, o, l)
             \/ \E o : startShiftReads(l, o)
      PROVE  HoursInv'
  BY <1>1, <1>5, RemoveHours, ConfirmReadsHours, TermsReadsHours, OfferReadsHours, StartReadsHours
<1>6. ASSUME NEW l \in Links, Exists(l), NEW date \in Dates, NEW x \in Auths,
             NEW o \in occurrenceForWorkDate(link[l].schedule, date),
             NEW extra \in Extensions, createShiftAuthorization(x, l, o, now + Validity, extra)
      PROVE  HoursInv'
  <2> DEFINE until == now + Validity
  <2>1. until \in Int /\ date \in Int
    BY AgendaAssumption DEF BookInv, Dates
  <2>2. createShiftAuthorization(x, l, o, until, extra)
    BY <1>6
  <2> HIDE DEF until
  <2>3. QED
    BY <1>1, <1>6, <2>1, <2>2, AskHours
<1>7. ASSUME NEW t \in holding,
             \/ confirmLink(t) \/ confirmLinkTermsChange(t) \/ acceptOffer(t)
             \/ acceptShiftAuthorization(t) \/ startShift(t)
      PROVE  HoursInv'
  BY <1>1, <1>7, ConfirmHours, TermsHours, AcceptHours, AcceptAuthHours, StartHours
<1>8. ASSUME NEW x \in Auths,
             \/ decideAuthorizationReads(x) \/ rejectShiftAuthorization(x)
             \/ cancelShiftAuthorization(x)
      PROVE  HoursInv'
  BY <1>1, <1>8, DecideReadsHours, RejectHours, CancelHours
<1>9. ASSUME link' = link, auth' = auth, holding' = holding, now <= now'  PROVE HoursInv'
  BY <1>1, <1>9, SameAuths, QuietHours
<1>10. ASSUME NEW o \in Offers, closeOffer(o) \/ \E d \in Drivers : dismissOffer(d, o)
       PROVE  HoursInv'
  BY <1>9, <1>10 DEF closeOffer, dismissOffer, BookInv
<1>11. ASSUME NEW s \in shift,
              \/ \E to \in {"PENDING_DAILY", "CLOSED"} : endShift(s, to)
              \/ decideShiftDaily(s) \/ offerShiftReactivation(s) \/ reactivateShift(s)
       PROVE  HoursInv'
  BY <1>9, <1>11 DEF endShift, decideShiftDaily, offerShiftReactivation, reactivateShift, BookInv
<1>12. CASE TimePasses \/ UNCHANGED vars
  BY <1>9, <1>12 DEF TimePasses, vars, BookInv
<1>13. QED
  BY <1>2, <1>3, <1>4, <1>5, <1>6, <1>7, <1>8, <1>10, <1>11, <1>12 DEF Next

LEMMA HoursHold == Spec => [](BookInv /\ HoursInv)
BY BookInit, BookStep, HoursInit, HoursStep, PTL DEF Spec

(* Whatever invitations, changes of terms, offers and authorizations race, two *)
(* links in force never bind a driver to the same hours by what assertNo-      *)
(* ScheduleConflict looks at, asked under the lock of the driver's row: weekly *)
(* items, dates from today on, late starts allowed.                            *)
THEOREM DriversBoundOnce == Spec => []BoundOnceFromToday
<1>1. ASSUME BookInv, HoursInv  PROVE BoundOnceFromToday
  <2> SUFFICES ASSUME NEW d \in Drivers, NEW l \in LinksOf(d), NEW k \in LinksOf(d),
                      Confirmed(l), Confirmed(k), l # k,
                      NEW a \in StillToCome(FromToday(l)), NEW b \in StillToCome(FromToday(k))
               PROVE  ~overlaps(a, b)
    BY DEF BoundOnceFromToday, InForce, Meet
  <2>1. AllClear(BoundTo(l), BoundTo(k), now)
    BY <1>1 DEF HoursInv, BoundOnce, LinksOf
  <2>2. FromToday(l) = BoundTo(l) /\ FromToday(k) = BoundTo(k)
    BY DEF FromToday, BoundTo, Current, Allowed, Extended
  <2>3. Today \in Int
    BY <1>1, DayAssumption DEF BookInv, Today
  <2> DEFINE dates == (Today - 1)..(Horizon \div DAY + WEEK)
  <2>4. dates \subseteq Int
    BY <2>3
  <2> HIDE DEF dates
  <2>5. PICK i \in BoundTo(l), x \in dates :
          Falls(i, x) /\ a = interval(x, i) /\ interval(x, i)[2] > now
    BY <2>2 DEF StillToCome, Happens, dates
  <2>6. PICK j \in BoundTo(k), y \in dates :
          Falls(j, y) /\ b = interval(y, j) /\ interval(y, j)[2] > now
    BY <2>2 DEF StillToCome, Happens, dates
  <2>7. Clear(i, j, now)
    BY <2>1 DEF AllClear
  <2>8. QED
    BY <2>4, <2>5, <2>6, <2>7 DEF Clear
<1>2. QED
  BY <1>1, HoursHold, PTL

-----------------------------------------------------------------------------
(* What the rows hold.                                                         *)

RowsInv ==
  /\ now \in Start..Horizon
  /\ \A o \in Offers : offer[o].status \in {"OPEN", "CLOSED"}
  /\ \A s \in shift : s.status \in {"ACTIVE", "PENDING_DAILY", "REOPEN_ALLOWED", "CLOSED"}
  /\ \A t \in holding : t.driver \in Drivers

LEMMA RowsInit == Init => RowsInv
BY AgendaAssumption DEF Init, RowsInv

LEMMA SameRows ==
  ASSUME RowsInv, now' = now, offer' = offer, shift' = shift, holding' \subseteq holding
  PROVE  RowsInv'
BY DEF RowsInv

LEMMA HoldRows ==
  ASSUME RowsInv, NEW t, Holds(t), t.driver \in Drivers  PROVE RowsInv'
BY DEF RowsInv, Holds

LEMMA ReadsRows ==
  ASSUME BookInv, HoursInv, RowsInv, NEW l \in Links,
         \/ confirmLinkReads(l) \/ confirmTermsReads(l)
         \/ \E d \in Drivers, o \in Offers : acceptOfferReads(d, o, l)
         \/ \E o : startShiftReads(l, o)
  PROVE  RowsInv'
<1>1. Exists(l) => link[l].driver \in Drivers
  BY LinkOf
<1>2. CASE confirmLinkReads(l)
  <2> DEFINE t == Txn("confirmLink", link[l].driver, l, None, None)
  <2>1. Holds(t) /\ t.driver \in Drivers
    BY <1>1, <1>2 DEF confirmLinkReads, Txn
  <2> HIDE DEF t
  <2>2. QED
    BY <2>1, HoldRows
<1>3. CASE confirmTermsReads(l)
  <2> DEFINE t == Txn("confirmLinkTermsChange", link[l].driver, l, None, None)
  <2>1. Holds(t) /\ t.driver \in Drivers
    BY <1>1, <1>3 DEF confirmTermsReads, Txn, Confirmed
  <2> HIDE DEF t
  <2>2. QED
    BY <2>1, HoldRows
<1>4. ASSUME NEW d \in Drivers, NEW o \in Offers, acceptOfferReads(d, o, l)  PROVE RowsInv'
  <2> DEFINE t == Txn("acceptOffer", d, l, o, None)
  <2>1. Holds(t) /\ t.driver \in Drivers
    BY <1>4 DEF acceptOfferReads, Txn
  <2> HIDE DEF t
  <2>2. QED
    BY <2>1, HoldRows
<1>5. ASSUME NEW o, startShiftReads(l, o)  PROVE RowsInv'
  <2> DEFINE t == [Txn("startShift", link[l].driver, l, None, o.auth) EXCEPT !.offer = o]
  <2>1. Holds(t) /\ t.driver \in Drivers
    BY <1>1, <1>5 DEF startShiftReads, Txn, Confirmed
  <2> HIDE DEF t
  <2>2. QED
    BY <2>1, HoldRows
<1>6. QED
  BY <1>2, <1>3, <1>4, <1>5

LEMMA DecideReadsRows ==
  ASSUME BookInv, HoursInv, RowsInv, NEW x \in Auths, decideAuthorizationReads(x)
  PROVE  RowsInv'
<1> DEFINE l == auth[x].link
           t == Txn("decideShiftAuthorization", link[l].driver, l, None, x)
<1>1. Holds(t) /\ auth[x] # None
  BY DEF decideAuthorizationReads
<1>2. l \in Links /\ Exists(l)
  BY <1>1 DEF BookInv, AuthsRight, AuthRight, HoursInv, AuthsFollow, Exists
<1>3. link[l].driver \in Drivers
  BY <1>2, LinkOf
<1>4. t.driver \in Drivers
  BY <1>3 DEF Txn
<1> HIDE DEF t
<1>5. QED
  BY <1>1, <1>4, HoldRows

(* An offer that changes has one of its statuses still.                        *)
LEMMA OfferRows ==
  ASSUME SlotsInv, SlotsInv', RowsInv, NEW o \in Offers, NEW f, offer' = [offer EXCEPT ![o] = f],
         f.status \in {"OPEN", "CLOSED"}, now' = now, shift' = shift, holding' \subseteq holding
  PROVE  RowsInv'
<1>1. \A n \in Offers : offer'[n] = IF n = o THEN f ELSE offer[n]
  BY DEF SlotsInv, OffersRight
<1>2. QED
  BY <1>1 DEF RowsInv

LEMMA OffersRows ==
  ASSUME BookInv, SlotsInv, SlotsInv', RowsInv,
         \/ \E t \in holding : acceptOffer(t)
         \/ \E o \in Offers : closeOffer(o) \/ \E d \in Drivers : dismissOffer(d, o)
  PROVE  RowsInv'
<1>1. ASSUME NEW o \in Offers
      PROVE  DOMAIN offer[o] = OfferFields /\ offer[o].status \in {"OPEN", "CLOSED"}
  BY DEF SlotsInv, OffersRight, OfferRight, RowsInv
<1>2. ASSUME NEW t \in holding, acceptOffer(t)  PROVE RowsInv'
  <2> DEFINE o == t.offer
             old == offer[o]
             count == old.count + 1
             status == IF count >= Slots[o] THEN "CLOSED" ELSE old.status
             answers == [old.answers EXCEPT ![t.driver] = "ACCEPTED"]
             f == [old EXCEPT !.count = count, !.status = status, !.answers = answers]
  <2>1. /\ offer' = [offer EXCEPT ![o] = f] /\ now' = now /\ shift' = shift
        /\ holding' = holding \ {t} /\ t.op = "acceptOffer"
    BY <1>2 DEF acceptOffer, Ends
  <2>2. o \in Offers
    BY <2>1, Alone DEF TxnRight
  <2>3. DOMAIN old = OfferFields /\ status \in {"OPEN", "CLOSED"}
    BY <1>1, <2>2
  <2> HIDE DEF old, status, answers, count
  <2>4. f.status = status
    BY <2>3 DEF OfferFields
  <2> HIDE DEF f
  <2>5. QED
    BY <2>1, <2>2, <2>3, <2>4, OfferRows
<1>3. ASSUME NEW o \in Offers, closeOffer(o)  PROVE RowsInv'
  <2> DEFINE old == offer[o]
             f == [old EXCEPT !.status = "CLOSED"]
  <2>1. /\ offer' = [offer EXCEPT ![o] = f] /\ now' = now /\ shift' = shift
        /\ holding' = holding
    BY <1>3 DEF closeOffer
  <2>2. DOMAIN old = OfferFields
    BY <1>1
  <2> HIDE DEF old
  <2>3. f.status = "CLOSED"
    BY <2>2 DEF OfferFields
  <2> HIDE DEF f
  <2>4. QED
    BY <2>1, <2>3, OfferRows
<1>4. ASSUME NEW o \in Offers, NEW d \in Drivers, dismissOffer(d, o)  PROVE RowsInv'
  <2> DEFINE old == offer[o]
             answers == [old.answers EXCEPT ![d] = "DISMISSED"]
             f == [old EXCEPT !.answers = answers]
  <2>1. /\ offer' = [offer EXCEPT ![o] = f] /\ now' = now /\ shift' = shift
        /\ holding' = holding
    BY <1>4 DEF dismissOffer
  <2>2. DOMAIN old = OfferFields /\ old.status \in {"OPEN", "CLOSED"}
    BY <1>1
  <2> HIDE DEF old, answers
  <2>3. f.status = old.status
    BY <2>2 DEF OfferFields
  <2> HIDE DEF f
  <2>4. QED
    BY <2>1, <2>2, <2>3, OfferRows
<1>5. QED
  BY <1>2, <1>3, <1>4

LEMMA ShiftRows ==
  ASSUME RowsInv, NEW s, NEW z, shift' = (shift \ {s}) \cup {z},
         z.status \in {"ACTIVE", "PENDING_DAILY", "REOPEN_ALLOWED", "CLOSED"},
         now' = now, offer' = offer, holding' \subseteq holding
  PROVE  RowsInv'
BY DEF RowsInv

LEMMA ShiftsRows ==
  ASSUME BookInv, RowsInv, NEW s \in shift,
         \/ \E to \in {"PENDING_DAILY", "CLOSED"} : endShift(s, to)
         \/ decideShiftDaily(s) \/ offerShiftReactivation(s) \/ reactivateShift(s)
  PROVE  RowsInv'
<1>1. DOMAIN s = ShiftFields /\ now' = now /\ offer' = offer /\ holding' = holding
  BY DEF BookInv, ShiftsRight, endShift, decideShiftDaily, offerShiftReactivation, reactivateShift
<1>2. ASSUME NEW status \in {"PENDING_DAILY", "CLOSED"}, Becomes(s, status)  PROVE RowsInv'
  <2> DEFINE z == [s EXCEPT !.status = status]
  <2>1. shift' = (shift \ {s}) \cup {z} /\ z.status = status
    BY <1>1, <1>2, ShiftFieldsKept DEF Becomes
  <2> HIDE DEF z
  <2>2. QED
    BY <1>1, <2>1, ShiftRows
<1>3. CASE \E to \in {"PENDING_DAILY", "CLOSED"} : endShift(s, to)
  BY <1>2, <1>3 DEF endShift
<1>4. CASE decideShiftDaily(s)
  BY <1>2, <1>4 DEF decideShiftDaily
<1>5. CASE offerShiftReactivation(s)
  <2> DEFINE until == now + Tolerance
             status == "REOPEN_ALLOWED"
             z == [s EXCEPT !.status = status, !.until = until]
  <2>1. shift' = (shift \ {s}) \cup {z}
    BY <1>5 DEF offerShiftReactivation
  <2> HIDE DEF until
  <2>2. z.status = status
    BY <1>1, ShiftFieldsKept
  <2> HIDE DEF z
  <2>3. QED
    BY <1>1, <2>1, <2>2, ShiftRows
<1>6. CASE reactivateShift(s)
  <2> DEFINE status == "ACTIVE"
             z == [s EXCEPT !.status = status, !.reopened = TRUE]
  <2>1. Becomes(s, "PENDING_DAILY") \/ shift' = (shift \ {s}) \cup {z}
    BY <1>6 DEF reactivateShift
  <2>2. z.status = status
    BY <1>1 DEF ShiftFields
  <2> HIDE DEF z
  <2>3. CASE shift' = (shift \ {s}) \cup {z}
    BY <1>1, <2>2, <2>3, ShiftRows
  <2>4. QED
    BY <1>2, <2>1, <2>3
<1>7. QED
  BY <1>3, <1>4, <1>5, <1>6

LEMMA StartRows ==
  ASSUME RowsInv, NEW t \in holding, startShift(t)  PROVE RowsInv'
<1> DEFINE o == t.offer
           n == [driver |-> t.driver, link |-> t.link, date |-> o.date, start |-> o.start,
                 end |-> o.end, regular |-> o.auth = None, status |-> "ACTIVE",
                 reopened |-> FALSE, until |-> Never]
<1>1. /\ holding' = holding \ {t} /\ offer' = offer /\ now' = now
      /\ shift' = shift \/ shift' = shift \cup {n}
  BY DEF startShift, Ends
<1>2. n.status = "ACTIVE"
  OBVIOUS
<1> HIDE DEF n
<1>3. QED
  BY <1>1, <1>2 DEF RowsInv

LEMMA RowsStep ==
  ASSUME BookInv, SlotsInv, HoursInv, RowsInv, [Next]_vars  PROVE RowsInv'
<1>1. SlotsInv'
  BY SlotsStep
<1>2. ASSUME NEW l \in Links,
             \/ \E d, schedule : inviteDriver(l, d, schedule)
             \/ \E schedule : proposeLinkTerms(l, schedule)
             \/ rejectLinkTermsChange(l) \/ removeLink(l)
             \/ \E x, o, until, extra : createShiftAuthorization(x, l, o, until, extra)
      PROVE  RowsInv'
  BY <1>2, SameRows
  DEF inviteDriver, proposeLinkTerms, rejectLinkTermsChange, removeLink, createShiftAuthorization
<1>3. ASSUME NEW l \in Links,
             \/ confirmLinkReads(l) \/ confirmTermsReads(l)
             \/ \E d \in Drivers, o \in Offers : acceptOfferReads(d, o, l)
             \/ \E o : startShiftReads(l, o)
      PROVE  RowsInv'
  BY <1>3, ReadsRows
<1>4. ASSUME NEW t \in holding,
             confirmLink(t) \/ confirmLinkTermsChange(t) \/ acceptShiftAuthorization(t)
      PROVE  RowsInv'
  BY <1>4, SameRows DEF confirmLink, confirmLinkTermsChange, acceptShiftAuthorization, Ends
<1>5. ASSUME NEW t \in holding, acceptOffer(t)  PROVE RowsInv'
  BY <1>1, <1>5, OffersRows
<1>6. ASSUME NEW t \in holding, startShift(t)  PROVE RowsInv'
  BY <1>6, StartRows
<1>7. ASSUME NEW o \in Offers, closeOffer(o) \/ \E d \in Drivers : dismissOffer(d, o)
      PROVE  RowsInv'
  BY <1>1, <1>7, OffersRows
<1>8. ASSUME NEW x \in Auths, rejectShiftAuthorization(x) \/ cancelShiftAuthorization(x)
      PROVE  RowsInv'
  BY <1>8, SameRows DEF rejectShiftAuthorization, cancelShiftAuthorization
<1>9. ASSUME NEW x \in Auths, decideAuthorizationReads(x)  PROVE RowsInv'
  BY <1>9, DecideReadsRows
<1>10. ASSUME NEW s \in shift,
              \/ \E to \in {"PENDING_DAILY", "CLOSED"} : endShift(s, to)
              \/ decideShiftDaily(s) \/ offerShiftReactivation(s) \/ reactivateShift(s)
       PROVE  RowsInv'
  BY <1>10, ShiftsRows
<1>11. CASE TimePasses
  BY <1>11, AgendaAssumption DEF TimePasses, RowsInv
<1>12. CASE UNCHANGED vars
  BY <1>12, SameRows DEF vars
<1>13. QED
  BY <1>2, <1>3, <1>4, <1>5, <1>6, <1>7, <1>8, <1>9, <1>10, <1>11, <1>12 DEF Next

(* Links, offers, authorizations, shifts and transactions hold what the types  *)
(* say; terms proposed are on confirmed links only, and a link has an end when *)
(* all its agenda is of dates.                                                 *)
THEOREM AgreementTypes == Spec => []TypeOK
<1>1. BookInv /\ SlotsInv /\ HoursInv /\ RowsInv => TypeOK
  <2> SUFFICES ASSUME BookInv, SlotsInv, HoursInv, RowsInv  PROVE TypeOK
    OBVIOUS
  <2>1. ASSUME NEW l \in Links, Exists(l)
        PROVE  /\ link[l].driver \in Drivers /\ link[l].status \in Statuses
               /\ link[l].pending # None => link[l].status = "CONFIRMED"
               /\ link[l].expiresAt = Never <=> datedScheduleExpiry(link[l].schedule) = Never
    BY <2>1, LinkOf
  <2>2. ASSUME NEW o \in Offers  PROVE offer[o].count \in 0..Slots[o]
    <3>1. OfferRight(offer[o], Slots[o]) /\ Slots[o] \in Nat
      BY OfferAssumption DEF SlotsInv, OffersRight
    <3>2. QED
      BY <3>1 DEF OfferRight
  <2>3. ASSUME NEW x \in Auths, auth[x] # None  PROVE AuthSound(auth[x])
    BY <2>3 DEF HoursInv, AuthsFollow
  <2>4. \A t \in holding : t.driver \in Drivers /\ t.link \in Links
    BY DEF RowsInv, BookInv, TxnsRight, TxnRight
  <2>5. QED
    BY <2>1, <2>2, <2>3, <2>4 DEF TypeOK, RowsInv, AuthSound, AuthStatuses
<1>2. QED
  BY <1>1, BookInit, BookStep, SlotsInit, SlotsStep, HoursInit, HoursStep, RowsInit, RowsStep,
     PTL DEF Spec

=============================================================================
