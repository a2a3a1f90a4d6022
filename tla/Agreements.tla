----------------------------- MODULE Agreements -----------------------------
(* store-driver.service.ts, offer.service.ts, shift-proposal.service.ts and    *)
(* the start of shift.service.ts: by which ways a driver becomes bound to a    *)
(* store's hours, and when he may start working.  What binds the driver locks  *)
(* the driver's users row, reads, and commits in a later step.                 *)
EXTENDS Schedules

CONSTANTS
  Drivers, Links, Offers, Auths,  \* people; rows that can be created
  Schedules, NewTerms,            \* agendas a driver may be invited to, or changed to
  OfferSchedule, Slots,           \* of each offer
  Extensions,                     \* units an authorization may add to the end
  Validity,                       \* units an authorization stays usable
  Start, Horizon, MaxShifts,      \* bounds: first and last instant, shifts started
  None

ASSUME AgendaAssumption ==
  /\ \A d \in Drivers : \A schedule \in Schedules[d] \cup NewTerms[d] : Agenda(schedule)
  /\ \A o \in Offers : Agenda(OfferSchedule[o])
  /\ Extensions \subseteq Nat /\ Validity \in Nat /\ Horizon \in Nat
  /\ Start \in 0..Horizon

ASSUME OfferAssumption ==
  IsFiniteSet(Drivers) /\ IsFiniteSet(Auths) /\ \A o \in Offers : Slots[o] \in Nat \ {0}

(* The absence of a row and of a date are not values of theirs.                *)
ASSUME NoneAssumption == None \notin Auths \cup Links /\ Never \notin Int

VARIABLES
  link,      \* store_drivers
  offer,     \* driver_offers: status and the driver_acceptances rows
  auth,      \* shift_start_authorizations
  shift,     \* driver_shifts, one for each link and date
  holding,   \* transactions that have read, hold their locks and will write
  now

vars == <<link, offer, auth, shift, holding, now>>

NoLink == [status |-> "NONE"]

Init ==
  /\ link = [l \in Links |-> NoLink]
  /\ offer = [o \in Offers |-> [status |-> "OPEN", count |-> 0,
                                answers |-> [d \in Drivers |-> "NONE"]]]
  /\ auth = [x \in Auths |-> None]
  /\ shift = {}
  /\ holding = {}
  /\ now = Start

Today == now \div DAY

Exists(l) == link[l].status # "NONE"
Confirmed(l) == Exists(l) /\ link[l].status = "CONFIRMED"
isLinkExpired(l) == link[l].expiresAt # Never /\ link[l].expiresAt <= now
LinksOf(d) == {l \in Links : Exists(l) /\ link[l].driver = d}

AcceptedAuths(l) ==
  {x \in Auths : auth[x] # None /\ auth[x].link = l /\ auth[x].status = "ACCEPTED"}

Exception(x) == Item(FALSE, auth[x].date, auth[x].start % DAY, auth[x].end % DAY)

ignoresExceptions(d, except) ==          \* mutant: authorizations are forgotten
  {i \in UNION {link[l].schedule : l \in {k \in LinksOf(d) \ {except} :
                                            Confirmed(k) /\ ~isLinkExpired(k)}} :
     i.weekly \/ i.day >= Today}

(* Items of confirmed links from today on, and accepted authorizations that    *)
(* can still be used, of whatever link.                                        *)
driverActiveSchedule(d, except) ==
  {i \in UNION {link[l].schedule : l \in {k \in LinksOf(d) \ {except} :
                                            Confirmed(k) /\ ~isLinkExpired(k)}} :
     i.weekly \/ i.day >= Today}
  \cup {Exception(x) : x \in {y \in UNION {AcceptedAuths(l) : l \in LinksOf(d) \ {except}} :
                                auth[y].until > now}}

Fits(d, candidate, except) ==            \* assertNoScheduleConflict
  ~schedulesConflict(driverActiveSchedule(d, except),
                     {i \in candidate : i.weekly \/ i.day >= Today})

nobodyLocks(d) == d \in Drivers          \* mutant: the users row is not locked

UserFree(d) == \A t \in holding : t.driver # d
LinkFree(l) == \A t \in holding : t.link # l
OfferFree(o) == \A t \in holding : t.offer # o
AuthFree(x) == \A t \in holding : t.auth # x

Txn(op, d, l, o, x) == [op |-> op, driver |-> d, link |-> l, offer |-> o, auth |-> x]

Holds(t) == holding' = holding \cup {t} /\ UNCHANGED <<link, offer, auth, shift, now>>
Ends(t) == t \in holding /\ holding' = holding \ {t}

NewLink(d, status, schedule) ==
  [driver |-> d, status |-> status, schedule |-> schedule, pending |-> None,
   expiresAt |-> datedScheduleExpiry(schedule)]

(* The invitation looks for a conflict but reserves nothing.                   *)
inviteDriver(l, d, schedule) ==
  /\ ~Exists(l) /\ LinkFree(l) /\ UserFree(d)
  /\ Fits(d, schedule, None)
  /\ link' = [link EXCEPT ![l] = NewLink(d, "INVITED", schedule)]
  /\ UNCHANGED <<offer, auth, shift, holding, now>>

confirmLinkReads(l) ==
  /\ Exists(l) /\ link[l].status = "INVITED"
  /\ UserFree(link[l].driver) /\ LinkFree(l)
  /\ Fits(link[l].driver, link[l].schedule, l)
  /\ Holds(Txn("confirmLink", link[l].driver, l, None, None))

confirmLink(t) ==
  /\ t.op = "confirmLink" /\ Ends(t)
  /\ link' = [link EXCEPT ![t.link] = [@ EXCEPT !.status = "CONFIRMED"]]
  /\ UNCHANGED <<offer, auth, shift, now>>

ActiveShift(l) == \E s \in shift : s.link = l /\ s.status = "ACTIVE"

removesAnyway(l) ==                      \* mutant: a shift in progress is not looked for
  /\ Exists(l) /\ LinkFree(l)
  /\ link' = [link EXCEPT ![l] = [@ EXCEPT !.status = "REMOVED", !.pending = None]]
  /\ UNCHANGED <<offer, auth, shift, holding, now>>

keepsPending(l) ==                       \* mutant: proposed terms stay on the link
  /\ Exists(l) /\ LinkFree(l)
  /\ ~ActiveShift(l)
  /\ link' = [link EXCEPT ![l] = [@ EXCEPT !.status = "REMOVED"]]
  /\ UNCHANGED <<offer, auth, shift, holding, now>>

removeLink(l) ==
  /\ Exists(l) /\ LinkFree(l)
  /\ ~ActiveShift(l)
  /\ link' = [link EXCEPT ![l] = [@ EXCEPT !.status = "REMOVED", !.pending = None]]
  /\ UNCHANGED <<offer, auth, shift, holding, now>>

proposeLinkTerms(l, schedule) ==
  /\ Confirmed(l) /\ LinkFree(l)
  /\ Fits(link[l].driver, schedule, l)
  /\ link' = [link EXCEPT ![l] = [@ EXCEPT !.pending = schedule]]
  /\ UNCHANGED <<offer, auth, shift, holding, now>>

confirmTermsReads(l) ==
  /\ Confirmed(l) /\ UserFree(link[l].driver) /\ LinkFree(l)
  /\ link[l].pending # None
  /\ link[l].pending # link[l].schedule => ~ActiveShift(l)
  /\ Fits(link[l].driver, link[l].pending, l)
  /\ Holds(Txn("confirmLinkTermsChange", link[l].driver, l, None, None))

confirmLinkTermsChange(t) ==
  /\ t.op = "confirmLinkTermsChange" /\ Ends(t)
  /\ LET k == link[t.link] IN
       link' = [link EXCEPT ![t.link] = [k EXCEPT
         !.schedule = k.pending, !.pending = None,
         !.expiresAt = IF k.pending # k.schedule THEN datedScheduleExpiry(k.pending)
                                                 ELSE k.expiresAt]]
  /\ UNCHANGED <<offer, auth, shift, now>>

rejectLinkTermsChange(l) ==
  /\ Confirmed(l) /\ LinkFree(l) /\ link[l].pending # None
  /\ link' = [link EXCEPT ![l] = [@ EXCEPT !.pending = None]]
  /\ UNCHANGED <<offer, auth, shift, holding, now>>

Effective(o) == {i \in OfferSchedule[o] : i.weekly \/ i.day >= Today}

seesRoom(o) == offer[o].status = "OPEN"  \* mutant: the offer's row is not locked

HasRoom(o) == OfferFree(o) /\ offer[o].count < Slots[o] /\ offer[o].status = "OPEN"

acceptOfferReads(d, o, l) ==
  /\ ~Exists(l) /\ LinkFree(l) /\ UserFree(d)
  /\ HasRoom(o)
  /\ offer[o].answers[d] = "NONE"
  /\ Effective(o) # {}
  /\ Fits(d, Effective(o), None)
  /\ Holds(Txn("acceptOffer", d, l, o, None))

(* The slot is claimed, the answer recorded and a confirmed link inserted.     *)
acceptOffer(t) ==
  /\ t.op = "acceptOffer" /\ Ends(t)
  /\ LET old == offer[t.offer]
         count == old.count + 1
         status == IF count >= Slots[t.offer] THEN "CLOSED" ELSE old.status
         answers == [old.answers EXCEPT ![t.driver] = "ACCEPTED"]
     IN offer' = [offer EXCEPT ![t.offer] =
                    [old EXCEPT !.count = count, !.status = status, !.answers = answers]]
  /\ link' = [link EXCEPT ![t.link] = NewLink(t.driver, "CONFIRMED", OfferSchedule[t.offer])]
  /\ UNCHANGED <<auth, shift, now>>

closeOffer(o) ==
  /\ OfferFree(o) /\ offer[o].status = "OPEN"
  /\ offer' = [offer EXCEPT ![o] = [@ EXCEPT !.status = "CLOSED"]]
  /\ UNCHANGED <<link, auth, shift, holding, now>>

(* offer_acceptances_offer_driver_unique: one answer per driver.               *)
dismissOffer(d, o) ==
  /\ offer[o].status = "OPEN" /\ offer[o].answers[d] = "NONE"
  /\ \A t \in holding : ~(t.offer = o /\ t.driver = d)
  /\ LET answers == [offer[o].answers EXCEPT ![d] = "DISMISSED"]
     IN offer' = [offer EXCEPT ![o] = [@ EXCEPT !.answers = answers]]
  /\ UNCHANGED <<link, auth, shift, holding, now>>

Lapsed(x, l, date) ==
  /\ auth[x] # None /\ auth[x].link = l /\ auth[x].date = date
  /\ auth[x].status \in {"PENDING", "ACCEPTED"} /\ auth[x].until <= now

OpenAuth(x, l, date) ==
  /\ auth[x] # None /\ auth[x].link = l /\ auth[x].date = date
  /\ auth[x].status \in {"PENDING", "ACCEPTED"} /\ auth[x].until > now

(* The window of an occurrence, perhaps longer, against the other links and    *)
(* the other items of its own.                                                 *)
ExtensionFits(l, o, end) ==
  ~schedulesConflict(driverActiveSchedule(link[l].driver, l) \cup (link[l].schedule \ {o.item}),
                     {Item(FALSE, o.date, o.item.start, end % DAY)})

createShiftAuthorization(x, l, o, until, extra) ==
  /\ auth[x] = None
  /\ Confirmed(l) /\ ~isLinkExpired(l) /\ LinkFree(l) /\ UserFree(link[l].driver)
  /\ o \in occurrenceForWorkDate(link[l].schedule, o.date)
  /\ now > o.start + Tolerance
  /\ now < until /\ until < o.end + extra
  /\ o.end + extra - o.start <= DAY
  /\ ExtensionFits(l, o, o.end + extra)
  /\ \A y \in Auths : ~OpenAuth(y, l, o.date)
  /\ auth' = [y \in Auths |->
       IF y = x THEN [link |-> l, date |-> o.date, start |-> o.start, end |-> o.end + extra,
                      until |-> until, status |-> "PENDING"]
       ELSE IF Lapsed(y, l, o.date) THEN [auth[y] EXCEPT !.status = "CANCELLED"]
       ELSE auth[y]]
  /\ UNCHANGED <<link, offer, shift, holding, now>>

decideAuthorizationReads(x) ==
  /\ auth[x] # None /\ auth[x].status = "PENDING"
  /\ LET l == auth[x].link IN
       /\ UserFree(link[l].driver) /\ LinkFree(l) /\ AuthFree(x)
       /\ now < auth[x].until /\ now < auth[x].end
       /\ \E o \in occurrenceForWorkDate(link[l].schedule, auth[x].date) :
            ~schedulesConflict(
               driverActiveSchedule(link[l].driver, l) \cup (link[l].schedule \ {o.item}),
               {Exception(x)})
       /\ Holds(Txn("decideShiftAuthorization", link[l].driver, l, None, x))

acceptShiftAuthorization(t) ==
  /\ t.op = "decideShiftAuthorization" /\ Ends(t)
  /\ auth' = [auth EXCEPT ![t.auth] = [@ EXCEPT !.status = "ACCEPTED"]]
  /\ LET old == link[t.link].expiresAt
         expiry == IF old # Never /\ auth[t.auth].end > old THEN auth[t.auth].end ELSE old
     IN link' = [link EXCEPT ![t.link] = [@ EXCEPT !.expiresAt = expiry]]
  /\ UNCHANGED <<offer, shift, now>>

rejectShiftAuthorization(x) ==
  /\ auth[x] # None /\ auth[x].status = "PENDING"
  /\ AuthFree(x) /\ LinkFree(auth[x].link) /\ UserFree(link[auth[x].link].driver)
  /\ auth' = [auth EXCEPT ![x] = [@ EXCEPT !.status = "REJECTED"]]
  /\ UNCHANGED <<link, offer, shift, holding, now>>

(* The link expires when its agenda, or an accepted authorization left, does.  *)
cancelShiftAuthorization(x) ==
  /\ auth[x] # None /\ auth[x].status \in {"PENDING", "ACCEPTED"}
  /\ AuthFree(x) /\ LinkFree(auth[x].link)
  /\ LET l == auth[x].link
         expiry == datedScheduleExpiry(link[l].schedule)
         ends == {auth[y].end : y \in AcceptedAuths(l) \ {x}}
         until == IF expiry = Never THEN Never ELSE Max({expiry} \cup ends)
     IN link' = [link EXCEPT ![l] = [@ EXCEPT !.expiresAt = until]]
  /\ auth' = [auth EXCEPT ![x] = [@ EXCEPT !.status = "CANCELLED"]]
  /\ UNCHANGED <<offer, shift, holding, now>>

onSameDate(d, o) ==                      \* mutant: the neighbouring days are not read
  {s \in shift : s.driver = d /\ s.date = o.date
                   /\ overlaps(<<s.start, s.end>>, <<o.start, o.end>>)}

Prior(d, o) ==
  {s \in shift : s.driver = d /\ s.date \in (o.date - 1)..(o.date + 1)
                   /\ overlaps(<<s.start, s.end>>, <<o.start, o.end>>)}

Usable(l) == {x \in AcceptedAuths(l) : now <= auth[x].until /\ now < auth[x].end}

(* The occurrence to start: a regular one of an agenda in force, else one that *)
(* an accepted authorization keeps open.                                       *)
Startable(l) ==
  LET regular == findStartOccurrence(link[l].schedule, now)
  IN IF regular # {}
       THEN {[date |-> o.date, start |-> o.start, end |-> o.end, auth |-> None] :
               o \in {r \in regular : ~isLinkExpired(l)}}
       ELSE {[date |-> auth[x].date, start |-> auth[x].start, end |-> auth[x].end, auth |-> x] :
               x \in Usable(l)}

startShiftReads(l, o) ==
  /\ Confirmed(l) /\ UserFree(link[l].driver) /\ LinkFree(l)
  /\ link[l].schedule # {}
  /\ o \in Startable(l)
  /\ Prior(link[l].driver, o) = {}
  /\ Cardinality(shift) < MaxShifts
  /\ Holds([Txn("startShift", link[l].driver, l, None, o.auth) EXCEPT !.offer = o])

startShift(t) ==
  /\ t.op = "startShift" /\ Ends(t)
  /\ LET o == t.offer IN
       IF \E s \in shift : \/ s.link = t.link /\ s.date = o.date
                           \/ s.driver = t.driver /\ s.status = "ACTIVE"
         THEN UNCHANGED <<shift, auth>>        \* refused by a unique index
         ELSE /\ shift' = shift \cup
                   {[driver |-> t.driver, link |-> t.link, date |-> o.date, start |-> o.start,
                     end |-> o.end, regular |-> o.auth = None, status |-> "ACTIVE",
                     reopened |-> FALSE, until |-> Never]}
              /\ auth' = IF o.auth = None THEN auth
                         ELSE [auth EXCEPT ![o.auth] = [@ EXCEPT !.status = "USED"]]
  /\ UNCHANGED <<link, offer, now>>

Becomes(s, status) == shift' = (shift \ {s}) \cup {[s EXCEPT !.status = status]}

endShift(s, to) ==
  /\ s.status = "ACTIVE"
  /\ Becomes(s, to)
  /\ UNCHANGED <<link, offer, auth, holding, now>>

decideShiftDaily(s) ==
  /\ s.status \in {"PENDING_DAILY", "REOPEN_ALLOWED"}
  /\ Becomes(s, "CLOSED")
  /\ UNCHANGED <<link, offer, auth, holding, now>>

offerShiftReactivation(s) ==
  /\ s.status = "PENDING_DAILY" /\ Confirmed(s.link) /\ now < s.end
  /\ shift' = (shift \ {s}) \cup {[s EXCEPT !.status = "REOPEN_ALLOWED", !.until = now + Tolerance]}
  /\ UNCHANGED <<link, offer, auth, holding, now>>

reactivateShift(s) ==
  /\ s.status = "REOPEN_ALLOWED" /\ UserFree(s.driver)
  /\ IF now > s.until THEN Becomes(s, "PENDING_DAILY")
     ELSE /\ \A t \in shift : t.driver = s.driver => t.status # "ACTIVE"
          /\ shift' = (shift \ {s}) \cup {[s EXCEPT !.status = "ACTIVE", !.reopened = TRUE]}
  /\ UNCHANGED <<link, offer, auth, holding, now>>

TimePasses ==
  /\ now < Horizon
  /\ now' = now + 1
  /\ UNCHANGED <<link, offer, auth, shift, holding>>

Dates == (Start \div DAY)..(Horizon \div DAY)

Next ==
  \/ \E l \in Links :
       \/ \E d \in Drivers : \/ \E s \in Schedules[d] : inviteDriver(l, d, s)
                            \/ \E o \in Offers : acceptOfferReads(d, o, l)
       \/ Exists(l) /\ \E s \in NewTerms[link[l].driver] : proposeLinkTerms(l, s)
       \/ confirmLinkReads(l) \/ confirmTermsReads(l)
       \/ rejectLinkTermsChange(l) \/ removeLink(l)
       \/ Exists(l) /\ \E date \in Dates, x \in Auths :
            \E o \in occurrenceForWorkDate(link[l].schedule, date),
              extra \in Extensions : createShiftAuthorization(x, l, o, now + Validity, extra)
       \/ Exists(l) /\ \E o \in Startable(l) : startShiftReads(l, o)
  \/ \E t \in holding : \/ confirmLink(t) \/ confirmLinkTermsChange(t) \/ acceptOffer(t)
                        \/ acceptShiftAuthorization(t) \/ startShift(t)
  \/ \E o \in Offers : closeOffer(o) \/ \E d \in Drivers : dismissOffer(d, o)
  \/ \E x \in Auths : \/ decideAuthorizationReads(x) \/ rejectShiftAuthorization(x)
                       \/ cancelShiftAuthorization(x)
  \/ \E s \in shift : \/ \E to \in {"PENDING_DAILY", "CLOSED"} : endShift(s, to)
                      \/ decideShiftDaily(s) \/ offerShiftReactivation(s) \/ reactivateShift(s)
  \/ TimePasses

Spec == Init /\ [][Next]_vars

Statuses == {"INVITED", "CONFIRMED", "REMOVED"}

TypeOK ==
  /\ \A l \in Links : Exists(l) =>
       /\ link[l].driver \in Drivers /\ link[l].status \in Statuses
       /\ link[l].pending # None => link[l].status = "CONFIRMED"
       /\ link[l].expiresAt = Never <=> datedScheduleExpiry(link[l].schedule) = Never
  /\ \A o \in Offers : /\ offer[o].status \in {"OPEN", "CLOSED"}
                       /\ offer[o].count \in 0..Slots[o]
  /\ \A x \in Auths : auth[x] # None =>
       /\ auth[x].start < auth[x].until /\ auth[x].until < auth[x].end
       /\ auth[x].status \in {"PENDING", "ACCEPTED", "REJECTED", "CANCELLED", "USED"}
  /\ \A s \in shift : s.status \in {"ACTIVE", "PENDING_DAILY", "REOPEN_ALLOWED", "CLOSED"}
  /\ \A t \in holding : t.driver \in Drivers /\ t.link \in Links
  /\ now \in Start..Horizon

InForce(d) == {m \in LinksOf(d) : Confirmed(m) /\ ~isLinkExpired(m)}

Allowed(l) == {Exception(x) : x \in {y \in AcceptedAuths(l) : auth[y].until > now}}

(* The hours some items still bind a driver to: what runs now, if it began     *)
(* yesterday too, and what is to come.                                         *)
StillToCome(agenda) ==
  {h \in UNION {Happens(i, (Today - 1)..(Horizon \div DAY + WEEK)) : i \in agenda} : h[2] > now}

Meet(A, B) == \E a \in A, b \in B : overlaps(a, b)

(* assertNoScheduleConflict under the users lock: whatever invitations, term   *)
(* changes, offers and authorizations race, two links in force never bind a    *)
(* driver to the same hours by what recurs every week, by dates from today on  *)
(* and by late starts still allowed.  A date of yesterday whose hours run past *)
(* midnight is left out, as the code does: see NoDoubleBooking.                *)
FromToday(l) == {i \in link[l].schedule : i.weekly \/ i.day >= Today} \cup Allowed(l)

BoundOnceFromToday ==
  \A d \in Drivers : \A l, k \in InForce(d) :
    l # k => ~Meet(StillToCome(FromToday(l)), StillToCome(FromToday(k)))

(* startShift's look at the neighbouring days: of all the shifts a driver ever *)
(* started, regular or extended, no two cover the same time.                   *)
ShiftsDoNotOverlap ==
  \A s, t \in shift : s # t /\ s.driver = t.driver =>
    ~overlaps(<<s.start, s.end>>, <<t.start, t.end>>)

(* removeLink and confirmLinkTermsChange against startShift: unless it was     *)
(* reopened, a shift in progress has its link, with the hours it began under.  *)
ShiftKeepsItsLink ==
  \A s \in shift : s.status = "ACTIVE" /\ ~s.reopened =>
    /\ Confirmed(s.link)
    /\ s.regular => \E o \in occurrenceForWorkDate(link[s.link].schedule, s.date) :
                       o.start = s.start /\ o.end = s.end

(* acceptOffer: whatever acceptances, dismissals and closings race, as many    *)
(* slots are gone as drivers accepted, none beyond the offer's, and an offer   *)
(* without slots is closed.                                                    *)
OfferKeepsCount ==
  \A o \in Offers :
    LET accepted == {d \in Drivers : offer[o].answers[d] = "ACCEPTED"}
    IN /\ Cardinality(accepted) = offer[o].count
       /\ offer[o].count <= Slots[o]
       /\ offer[o].count = Slots[o] => offer[o].status = "CLOSED"

-----------------------------------------------------------------------------
(* docs/superpowers/plans/2026-07-11-ofertas-vagas.md:18 wants the overlap     *)
(* looked for against all of the driver's agenda in force, overnight windows   *)
(* included.  One dated yesterday is not seen after midnight                   *)
(* (store-driver.service.ts:33 and :49), and another link can be confirmed for *)
(* its last hours.                                                             *)
NoDoubleBooking ==
  \A d \in Drivers : \A l, k \in InForce(d) :
    l # k => ~Meet(StillToCome(link[l].schedule \cup Allowed(l)),
                   StillToCome(link[k].schedule \cup Allowed(k)))
=============================================================================
