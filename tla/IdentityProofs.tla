---------------------------- MODULE IdentityProofs ----------------------------
(* Theorems of Identity for any addresses, registrations, numbers of codes,    *)
(* tokens and workers, instants and scenarios. In turn: codes and tickets      *)
(* (CodeInv), mail (MailInv), sessions (TokenInv), accounts (AccountInv), the  *)
(* way an open registration still has to its code (WayInv), types (TypeInv).   *)
EXTENDS Identity, TLAPS

-----------------------------------------------------------------------------
(* Rows: one that exists has columns, none of which is "row".                  *)

LEMMA HasColumns == ASSUME NEW x, NEW f \in DOMAIN x, f # "row"  PROVE IsRow(x)
BY DEF IsRow, NoRow, Gone

LEMMA NoRows == ~IsRow(NoRow) /\ ~IsRow(Gone) /\ NoRow # Gone
BY DEF IsRow, NoRow, Gone

(* What stands for the absence of a value is none.                             *)
LEMMA Names ==
  /\ Pendings \cap {"ADMIN_PROVISIONED", "BOOTSTRAP"} = {}
  /\ None \notin Instants /\ None \notin Nat
  /\ None \notin {"REPLACED", "STORE_CLOSED", "ATTEMPTS_EXHAUSTED", "CONFIRMED",
                  "ACCOUNT_COLLISION", "PENDING_ACTIVATION", "ACTIVE", "SUSPENDED", "CLOSED"}
BY NameAssumption, SizeAssumption

Table(rows, K, columns) ==
  /\ rows = [k \in K |-> rows[k]]
  /\ \A k \in K : IsRow(rows[k]) => DOMAIN rows[k] = columns

-----------------------------------------------------------------------------
(* Codes, tickets and registrations: which exist, and which still count.       *)

ChallengeFields ==
  {"purpose", "of", "attempts", "createdAt", "expiresAt", "consumedAt", "invalidatedAt", "reason"}
PendingFields == {"email", "role", "expiresAt", "consumedAt", "closeReason"}
TicketFields == {"purpose", "of", "expiresAt", "consumedAt"}

Codes(rows) == Table(rows, Challenges, ChallengeFields)

Accounts(rows) ==
  /\ rows = [e \in Emails |-> rows[e]]
  /\ \A e \in Emails : rows[e] = NoRow \/ DOMAIN rows[e] = AccountFields

Alive(x) == IsRow(x) /\ x.consumedAt = None /\ x.reason = None
SameFlow(x, y) == x.purpose = y.purpose /\ x.of = y.of
ForRegistration(x) == IsRow(x) /\ x.purpose = "REGISTRATION_VERIFY"
ForStore(x) == IsRow(x) /\ x.purpose = "STORE_ACTIVATION"
ForAdmin(x) == IsRow(x) /\ x.purpose = "ADMIN_ACTIVATION"
OpenSetup(x) == IsRow(x) /\ x.purpose = "INITIAL_PASSWORD_SETUP" /\ x.consumedAt = None

InOrder ==
  \A c \in Challenges : challenge[c] # NoRow => \A b \in 1..(c - 1) : challenge[b] # NoRow

(* A code that counts is the last of its flow.                                 *)
LastOne ==
  \A b, c \in Challenges :
    Alive(challenge[b]) /\ IsRow(challenge[c]) /\ SameFlow(challenge[b], challenge[c]) => c <= b

(* Codes have somebody to be sent to.                                          *)
HasOrigin(x, pendings, accounts) ==
  /\ ForRegistration(x) => x.of \in Pendings /\ pendings[x.of] # NoRow
  /\ ForStore(x) \/ ForAdmin(x) => x.of \in Emails /\ accounts[x.of] # NoRow

Origins == \A c \in Challenges : HasOrigin(challenge[c], pending, account)

(* A ticket for the first password is alone: no other one, and no code that    *)
(* another could be issued for.                                                *)
SetupsRight ==
  /\ \A b \in Challenges : OpenSetup(ticket[b]) =>
       ticket[b].of \in Emails /\ account[ticket[b].of] # NoRow
  /\ \A b, c \in Challenges :
       OpenSetup(ticket[b]) /\ OpenSetup(ticket[c]) /\ ticket[b].of = ticket[c].of => b = c
  /\ \A b, c \in Challenges :
       OpenSetup(ticket[b]) /\ Alive(challenge[c]) /\ ForStore(challenge[c])
         => ticket[b].of # challenge[c].of

(* A confirmation has the rows of its code and of its registration.            *)
Confirming == {t \in open : t.op = "confirm"}

ConfirmRight(t, code, form) ==
  /\ t.pending \in Pendings /\ t.challenge \in Challenges /\ t.at \in Instants
  /\ ForRegistration(code) /\ code.of = t.pending
  /\ IsRow(form) /\ form.consumedAt = None

ConfirmsRight ==
  /\ \A t \in Confirming : ConfirmRight(t, challenge[t.challenge], pending[t.pending])
  /\ \A t, u \in Confirming : t.pending = u.pending => t = u

CodeInv ==
  /\ now \in Instants
  /\ Accounts(account) /\ Table(pending, Pendings, PendingFields)
  /\ Table(ticket, Challenges, TicketFields) /\ Codes(challenge)
  /\ InOrder /\ LastOne /\ Origins /\ SetupsRight /\ ConfirmsRight

LEMMA CodeInit == Init => CodeInv
<1> SUFFICES ASSUME Init  PROVE CodeInv
  OBVIOUS
<1>1. PICK s \in Scenarios : account = s.account
  BY DEF Init
<1>2. Accounts(account)
  BY <1>1, ScenarioAssumption DEF Accounts
<1>3. \A c \in Challenges : challenge[c] = NoRow /\ ticket[c] = NoRow
  BY DEF Init
<1>4. InOrder /\ LastOne /\ Origins /\ SetupsRight
  BY <1>3, NoRows DEF InOrder, LastOne, Origins, HasOrigin, SetupsRight, Alive, OpenSetup,
                      ForRegistration, ForStore, ForAdmin
<1>5. /\ Table(pending, Pendings, PendingFields) /\ Table(ticket, Challenges, TicketFields)
      /\ Codes(challenge)
  BY NoRows DEF Init, Table, Codes
<1>6. now \in Instants /\ ConfirmsRight
  BY SizeAssumption DEF Init, ConfirmsRight, Confirming
<1>7. QED
  BY <1>2, <1>4, <1>5, <1>6 DEF CodeInv

(* What a step may make of a code or a ticket that it does not create.         *)
CodeFades(x, y) ==
  \/ y = x
  \/ y = Gone /\ IsRow(x)
  \/ /\ IsRow(x) /\ DOMAIN y = ChallengeFields /\ SameFlow(x, y)
     /\ Alive(y) => Alive(x)

TicketFades(x, y) ==
  \/ y = x
  \/ y = Gone
  \/ /\ DOMAIN y = TicketFields
     /\ OpenSetup(y) => OpenSetup(x) /\ y.of = x.of

CodesFading(next) ==
  next = [c \in Challenges |-> next[c]] /\ \A c \in Challenges : CodeFades(challenge[c], next[c])

TicketsFading(next) ==
  next = [c \in Challenges |-> next[c]] /\ \A c \in Challenges : TicketFades(ticket[c], next[c])

(* What exists goes on existing, if only as something deleted.                 *)
Stay(K, rows, next) == \A k \in K : rows[k] # NoRow => next[k] # NoRow

LEMMA FadedCode ==
  ASSUME NEW x, NEW y, CodeFades(x, y)
  PROVE  /\ Alive(y) => Alive(x) /\ SameFlow(x, y)
         /\ IsRow(y) => IsRow(x) /\ SameFlow(x, y)
         /\ y = NoRow <=> x = NoRow
<1>1. DOMAIN y = ChallengeFields => IsRow(y)
  BY HasColumns DEF ChallengeFields
<1>2. IsRow(y) => y # NoRow
  BY NoRows
<1>3. QED
  BY <1>1, <1>2, NoRows DEF CodeFades, Alive, SameFlow

LEMMA FadedTicket ==
  ASSUME NEW x, NEW y, TicketFades(x, y)
  PROVE  OpenSetup(y) => OpenSetup(x) /\ y.of = x.of
BY NoRows DEF TicketFades, OpenSetup

LEMMA FadedOrigin ==
  ASSUME NEW x, NEW y, CodeFades(x, y), NEW pendings, NEW accounts,
         HasOrigin(x, pending, account), Stay(Pendings, pending, pendings),
         Stay(Emails, account, accounts)
  PROVE  HasOrigin(y, pendings, accounts)
BY FadedCode DEF HasOrigin, Stay, ForRegistration, ForStore, ForAdmin, SameFlow

LEMMA TicketsFade ==
  ASSUME Table(ticket, Challenges, TicketFields), NEW next, TicketsFading(next)
  PROVE  Table(next, Challenges, TicketFields)
BY NoRows DEF Table, TicketFades, TicketsFading

LEMMA CodesFadeTable ==
  ASSUME Codes(challenge), NEW next, CodesFading(next)
  PROVE  Codes(next)
BY NoRows DEF Codes, Table, CodeFades, CodesFading

(* Steps that create no code.                                                  *)
LEMMA CodesFade ==
  ASSUME CodeInv, now' \in Instants, Accounts(account'), Stay(Emails, account, account'),
         Table(pending', Pendings, PendingFields), Stay(Pendings, pending, pending'),
         TicketsFading(ticket'),
         CodesFading(challenge'),
         ConfirmsRight'
  PROVE  CodeInv'
<1> USE DEF CodeInv
<1>1. Codes(challenge') /\ Table(ticket', Challenges, TicketFields)
  BY CodesFadeTable, TicketsFade
<1> USE DEF CodesFading, TicketsFading
<1>2. InOrder'
  <2>1. \A c \in Challenges : challenge'[c] = NoRow <=> challenge[c] = NoRow
    BY FadedCode
  <2>2. \A c \in Challenges : \A b \in 1..(c - 1) : b \in Challenges
    BY SizeAssumption DEF Challenges
  <2>3. QED
    BY <2>1, <2>2 DEF InOrder
<1>3. LastOne'
  <2>1. \A c \in Challenges :
          /\ Alive(challenge'[c]) => Alive(challenge[c]) /\ SameFlow(challenge[c], challenge'[c])
          /\ IsRow(challenge'[c]) => IsRow(challenge[c]) /\ SameFlow(challenge[c], challenge'[c])
    BY FadedCode
  <2>2. QED
    BY <2>1 DEF LastOne, SameFlow
<1>4. Origins'
  BY FadedOrigin DEF Origins
<1>5. SetupsRight'
  <2>1. \A c \in Challenges :
          OpenSetup(ticket'[c]) => OpenSetup(ticket[c]) /\ ticket'[c].of = ticket[c].of
    BY FadedTicket
  <2>2. \A c \in Challenges :
          Alive(challenge'[c]) /\ ForStore(challenge'[c]) =>
            /\ Alive(challenge[c]) /\ ForStore(challenge[c])
            /\ challenge'[c].of = challenge[c].of
    BY FadedCode DEF ForStore, SameFlow
  <2>3. QED
    BY <2>1, <2>2 DEF SetupsRight, Stay
<1>6. QED
  BY <1>1, <1>2, <1>3, <1>4, <1>5

(* A step that creates one, when none of its flow counts any more.             *)
LEMMA CodeComes ==
  ASSUME CodeInv, now' = now, Accounts(account'), Stay(Emails, account, account'),
         Table(pending', Pendings, PendingFields), Stay(Pendings, pending, pending'),
         TicketsFading(ticket'),
         NEW c \in Challenges, Fresh(c), Codes(challenge'),
         IsRow(challenge'[c]), HasOrigin(challenge'[c], pending', account'),
         \A b \in Challenges \ {c} : CodeFades(challenge[b], challenge'[b]),
         \A b \in Challenges \ {c} :
           Alive(challenge'[b]) => ~SameFlow(challenge'[b], challenge'[c]),
         ForStore(challenge'[c]) =>
           \A b \in Challenges : OpenSetup(ticket'[b]) => ticket'[b].of # challenge'[c].of,
         ConfirmsRight'
  PROVE  CodeInv'
<1> USE DEF CodeInv
<1>1. Table(ticket', Challenges, TicketFields)
  BY TicketsFade
<1> USE DEF TicketsFading
<1>2. /\ challenge[c] = NoRow
      /\ \A b \in Challenges : b < c => challenge[b] # NoRow
      /\ \A b \in Challenges : b > c => challenge[b] = NoRow
  BY SizeAssumption DEF InOrder, Fresh, Challenges
<1>3. \A b \in Challenges \ {c} : challenge'[b] = NoRow <=> challenge[b] = NoRow
  BY FadedCode
<1>4. InOrder'
  BY <1>2, <1>3, SizeAssumption, NoRows DEF InOrder, Challenges
<1>5. \A b \in Challenges \ {c} :
        /\ Alive(challenge'[b]) => Alive(challenge[b]) /\ SameFlow(challenge[b], challenge'[b])
        /\ IsRow(challenge'[b]) => IsRow(challenge[b]) /\ SameFlow(challenge[b], challenge'[b])
  BY FadedCode
<1>6. LastOne'
  <2> SUFFICES ASSUME NEW b \in Challenges, NEW d \in Challenges, Alive(challenge'[b]),
                      IsRow(challenge'[d]), SameFlow(challenge'[b], challenge'[d])
               PROVE  d <= b
    BY DEF LastOne
  <2>1. b \in Int /\ c \in Int /\ d \in Int
    BY SizeAssumption DEF Challenges
  <2>2. CASE b = c /\ d = c
    BY <2>1, <2>2
  <2>3. CASE b = c /\ d # c
    <3>1. challenge[d] # NoRow
      BY <1>3, <2>3, NoRows
    <3>2. QED
      BY <1>2, <2>1, <2>3, <3>1
  <2>4. CASE b # c /\ d = c
    BY <2>4
  <2>5. CASE b # c /\ d # c
    BY <1>5, <2>5 DEF LastOne, SameFlow
  <2>6. QED
    BY <2>2, <2>3, <2>4, <2>5
<1>7. Origins'
  BY FadedOrigin DEF Origins
<1>8. SetupsRight'
  <2>1. \A b \in Challenges :
          OpenSetup(ticket'[b]) => OpenSetup(ticket[b]) /\ ticket'[b].of = ticket[b].of
    BY FadedTicket
  <2>2. \A b \in Challenges \ {c} :
          Alive(challenge'[b]) /\ ForStore(challenge'[b]) =>
            /\ Alive(challenge[b]) /\ ForStore(challenge[b])
            /\ challenge'[b].of = challenge[b].of
    BY FadedCode DEF ForStore, SameFlow
  <2>3. QED
    BY <2>1, <2>2 DEF SetupsRight, Stay
<1>9. QED
  BY <1>1, <1>4, <1>6, <1>7, <1>8

LEMMA ConfirmsSame ==
  ASSUME ConfirmsRight, Confirming' \subseteq Confirming,
         \A t \in Confirming' : /\ challenge'[t.challenge] = challenge[t.challenge]
                                /\ pending'[t.pending] = pending[t.pending]
  PROVE  ConfirmsRight'
BY DEF ConfirmsRight

(* Steps that leave all of this alone.                                         *)
LEMMA CodesSame ==
  ASSUME CodeInv, UNCHANGED <<account, pending, ticket, challenge>>, now' \in Instants,
         Confirming' \subseteq Confirming
  PROVE  CodeInv'
<1>1. ConfirmsRight'
  BY ConfirmsSame DEF CodeInv
<1>2. Accounts(account)' /\ InOrder' /\ LastOne' /\ Origins' /\ SetupsRight'
  BY DEF CodeInv, Accounts, InOrder, LastOne, Origins, SetupsRight
<1>3. QED
  BY <1>1, <1>2 DEF CodeInv, Table, Codes

(* insertChallenge after a replacement of the codes in S, of which there may   *)
(* be none.                                                                    *)
Inserts(next, c, S, purpose, of, limit) ==
  next = insertChallenge(Invalidated(challenge, S, "REPLACED"), c, purpose, of, limit)

InsertedRight(next, c, S, purpose, of, limit) ==
  /\ Codes(next)
  /\ IsRow(next[c]) /\ next[c].purpose = purpose /\ next[c].of = of
  /\ next[c].consumedAt = None /\ next[c].reason = None /\ next[c].invalidatedAt = None
  /\ next[c].expiresAt = Min({now + CHALLENGE_TTL, limit})
  /\ \A b \in Challenges \ {c} :
       /\ CodeFades(challenge[b], next[b])
       /\ b \notin S => next[b] = challenge[b]
       /\ b \in S => ~Alive(next[b]) /\ IsRow(next[b]) /\ next[b].reason = "REPLACED"

LEMMA Inserted ==
  ASSUME CodeInv, NEW c \in Challenges, Fresh(c), NEW S \in SUBSET Challenges,
         \A b \in S : IsRow(challenge[b]), NEW purpose, NEW of, NEW limit, NEW next,
         Inserts(next, c, S, purpose, of, limit)
  PROVE  InsertedRight(next, c, S, purpose, of, limit)
<1> DEFINE new == [purpose |-> purpose, of |-> of, attempts |-> 0, createdAt |-> now,
                   expiresAt |-> Min({now + CHALLENGE_TTL, limit}),
                   consumedAt |-> None, invalidatedAt |-> None, reason |-> None]
           killed(b) == [challenge[b] EXCEPT !.invalidatedAt = now, !.reason = "REPLACED"]
<1>1. /\ DOMAIN new = ChallengeFields
      /\ new.purpose = purpose /\ new.of = of /\ new.consumedAt = None /\ new.reason = None
      /\ new.invalidatedAt = None /\ new.expiresAt = Min({now + CHALLENGE_TTL, limit})
  BY DEF ChallengeFields
<1>2. /\ next = [b \in Challenges |-> next[b]] /\ next[c] = new
      /\ \A b \in Challenges \ {c} : next[b] = IF b \in S THEN killed(b) ELSE challenge[b]
  BY DEF Inserts, insertChallenge, Invalidated
<1>3. ASSUME NEW b \in S
      PROVE  /\ DOMAIN killed(b) = ChallengeFields /\ SameFlow(challenge[b], killed(b))
             /\ killed(b).reason = "REPLACED"
  <2>1. DOMAIN challenge[b] = ChallengeFields
    BY DEF CodeInv, Codes, Table
  <2>2. QED
    BY <2>1 DEF ChallengeFields, SameFlow
<1> HIDE DEF new, killed
<1>4. IsRow(new)
  BY <1>1, HasColumns DEF ChallengeFields
<1>5. ASSUME NEW b \in Challenges \ {c}
      PROVE  /\ CodeFades(challenge[b], next[b])
             /\ b \notin S => next[b] = challenge[b]
             /\ b \in S => ~Alive(next[b]) /\ IsRow(next[b]) /\ next[b].reason = "REPLACED"
  <2>1. CASE b \in S
    <3>1. next[b] = killed(b) /\ ~Alive(next[b])
      BY <1>2, <1>3, <2>1, Names DEF Alive
    <3>2. IsRow(next[b])
      BY <1>3, <2>1, <3>1, HasColumns DEF ChallengeFields
    <3>3. QED
      BY <1>3, <2>1, <3>1, <3>2 DEF CodeFades
  <2>2. CASE b \notin S
    BY <1>2, <2>2 DEF CodeFades
  <2>3. QED
    BY <2>1, <2>2
<1>6. Codes(next)
  BY <1>1, <1>2, <1>5, NoRows DEF Codes, Table, CodeFades, CodeInv
<1>7. QED
  BY <1>1, <1>2, <1>4, <1>5, <1>6 DEF InsertedRight

LEMMA NoneReplaced ==
  ASSUME CodeInv  PROVE Invalidated(challenge, {}, "REPLACED") = challenge
BY DEF CodeInv, Codes, Table, Invalidated

Uses(next, c, at) == next = [challenge EXCEPT ![c].consumedAt = at]

UsedRight(next, c) ==
  /\ CodesFading(next) /\ \A b \in Challenges \ {c} : next[b] = challenge[b]
  /\ ~Alive(next[c]) /\ next[c].reason = challenge[c].reason

LEMMA ConsumedFades ==
  ASSUME CodeInv, NEW c \in Challenges, IsRow(challenge[c]), NEW at \in Instants,
         NEW next, Uses(next, c, at)
  PROVE  UsedRight(next, c)
<1>1. DOMAIN challenge[c] = ChallengeFields
  BY DEF CodeInv, Codes, Table
<1> DEFINE used == [challenge[c] EXCEPT !.consumedAt = at]
<1>2. /\ DOMAIN used = ChallengeFields /\ SameFlow(challenge[c], used)
      /\ used.consumedAt = at /\ used.reason = challenge[c].reason
  BY <1>1 DEF ChallengeFields, SameFlow
<1>3. next = [challenge EXCEPT ![c] = used]
  BY DEF Uses
<1> HIDE DEF used
<1>4. at # None
  BY Names
<1>5. ~Alive(used)
  BY <1>2, <1>4 DEF Alive
<1>6. challenge = [b \in Challenges |-> challenge[b]]
  BY DEF CodeInv, Codes, Table
<1>7. next = [b \in Challenges |-> next[b]] /\ next[c] = used
  BY <1>3, <1>6
<1>8. \A b \in Challenges \ {c} : next[b] = challenge[b]
  BY <1>3, <1>6
<1>9. \A b \in Challenges : CodeFades(challenge[b], next[b])
  BY <1>2, <1>5, <1>7, <1>8 DEF CodeFades
<1>10. QED
  BY <1>2, <1>5, <1>7, <1>8, <1>9 DEF UsedRight, CodesFading

(* The code that a resending finds is the only one of its flow that can count. *)
LEMMA NewestAlive ==
  ASSUME CodeInv, NEW S \in SUBSET Challenges, NEW old \in Newest(S), IsRow(challenge[old]),
         \A b \in Challenges :
           Alive(challenge[b]) /\ SameFlow(challenge[b], challenge[old]) => b \in S
  PROVE  /\ old \in Challenges
         /\ \A b \in Challenges :
              Alive(challenge[b]) /\ SameFlow(challenge[b], challenge[old]) => b = old
<1>1. old \in S /\ \A b \in S : b <= old
  BY DEF Newest
<1>2. ASSUME NEW b \in Challenges, Alive(challenge[b]), SameFlow(challenge[b], challenge[old])
      PROVE  b = old
  <2>1. b <= old /\ old <= b
    BY <1>1, <1>2 DEF CodeInv, LastOne
  <2>2. b \in Int /\ old \in Int
    BY <1>1, SizeAssumption DEF Challenges
  <2>3. QED
    BY <2>1, <2>2
<1>3. QED
  BY <1>1, <1>2

(* A code comes for those in S, after which none of its flow counts.           *)
LEMMA InsertStep ==
  ASSUME CodeInv, now' = now, Accounts(account'), Stay(Emails, account, account'),
         Table(pending', Pendings, PendingFields), Stay(Pendings, pending, pending'),
         TicketsFading(ticket'),
         NEW c \in Challenges, Fresh(c), NEW S \in SUBSET Challenges,
         \A b \in S : IsRow(challenge[b]),
         NEW purpose, NEW of, NEW limit,
         Inserts(challenge', c, S, purpose, of, limit),
         \A b \in Challenges \ S : Alive(challenge[b]) =>
           ~(challenge[b].purpose = purpose /\ challenge[b].of = of),
         purpose = "REGISTRATION_VERIFY" => of \in Pendings /\ pending'[of] # NoRow,
         purpose \in {"STORE_ACTIVATION", "ADMIN_ACTIVATION"} =>
           of \in Emails /\ account'[of] # NoRow,
         purpose = "STORE_ACTIVATION" =>
           \A b \in Challenges : OpenSetup(ticket'[b]) => ticket'[b].of # of,
         open' = open,
         \A t \in Confirming : t.challenge \notin S /\ pending'[t.pending] = pending[t.pending]
  PROVE  CodeInv'
<1>1. /\ Codes(challenge')
      /\ IsRow(challenge'[c]) /\ challenge'[c].purpose = purpose /\ challenge'[c].of = of
      /\ \A b \in Challenges \ {c} :
           /\ CodeFades(challenge[b], challenge'[b])
           /\ b \notin S => challenge'[b] = challenge[b]
           /\ b \in S => ~Alive(challenge'[b])
  <2>1. InsertedRight(challenge', c, S, purpose, of, limit)
    BY Inserted
  <2>2. QED
    BY <2>1 DEF InsertedRight
<1>2. HasOrigin(challenge'[c], pending', account')
  BY <1>1 DEF HasOrigin, ForRegistration, ForStore, ForAdmin
<1>3. \A b \in Challenges \ {c} :
        Alive(challenge'[b]) => ~SameFlow(challenge'[b], challenge'[c])
  BY <1>1 DEF SameFlow
<1>4. ForStore(challenge'[c]) =>
        \A b \in Challenges : OpenSetup(ticket'[b]) => ticket'[b].of # challenge'[c].of
  BY <1>1 DEF ForStore
<1>5. ConfirmsRight'
  <2>1. ASSUME NEW t \in Confirming  PROVE challenge'[t.challenge] = challenge[t.challenge]
    <3>1. t.challenge \in Challenges /\ IsRow(challenge[t.challenge])
      BY DEF CodeInv, ConfirmsRight, ConfirmRight, ForRegistration
    <3>2. t.challenge # c
      BY <3>1, NoRows DEF Fresh
    <3>3. QED
      BY <1>1, <3>1, <3>2
  <2>2. Confirming' = Confirming
    BY DEF Confirming
  <2>3. QED
    BY <2>1, <2>2, ConfirmsSame DEF CodeInv
<1>6. \A b \in Challenges \ {c} : CodeFades(challenge[b], challenge'[b])
  BY <1>1
<1>7. QED
  BY <1>1, <1>2, <1>3, <1>4, <1>5, <1>6, CodeComes

LEMMA TicketsSame ==
  ASSUME CodeInv, ticket' = ticket
  PROVE  /\ TicketsFading(ticket')
BY DEF CodeInv, Table, TicketFades, TicketsFading

LEMMA StartRegistrationStep ==
  ASSUME CodeInv, NEW e, NEW p \in Pendings, NEW role, NEW c \in Challenges,
         startRegistration(e, p, role, c)
  PROVE  CodeInv'
<1>1. CASE IsRow(account[e])
  BY <1>1, CodesSame DEF startRegistration, CodeInv, Confirming
<1>2. CASE ~IsRow(account[e])
  <2> DEFINE form == [email |-> e, role |-> role, expiresAt |-> now + PENDING_TTL,
                      consumedAt |-> None, closeReason |-> None]
  <2>1. /\ pending[p] = NoRow /\ pending' = [pending EXCEPT ![p] = form]
        /\ createChallenge(c, "REGISTRATION_VERIFY", p, now + PENDING_TTL)
        /\ account' = account /\ ticket' = ticket /\ open' = open /\ now' = now
    BY <1>2 DEF startRegistration
  <2>2. DOMAIN form = PendingFields
    BY DEF PendingFields
  <2> HIDE DEF form
  <2>3. IsRow(form)
    BY <2>2, HasColumns DEF PendingFields
  <2>4. /\ Table(pending', Pendings, PendingFields)
        /\ \A q \in Pendings : pending'[q] = IF q = p THEN form ELSE pending[q]
    BY <2>1, <2>2 DEF CodeInv, Table
  <2>5. Stay(Pendings, pending, pending') /\ pending'[p] # NoRow
    BY <2>3, <2>4, NoRows DEF Stay
  <2>6. /\ Fresh(c)
        /\ Inserts(challenge', c, {}, "REGISTRATION_VERIFY", p, now + PENDING_TTL)
    BY <2>1, NoneReplaced DEF createChallenge, Inserts
  <2>7. \A b \in Challenges : Alive(challenge[b]) =>
          ~(challenge[b].purpose = "REGISTRATION_VERIFY" /\ challenge[b].of = p)
    BY <2>1 DEF CodeInv, Origins, HasOrigin, ForRegistration, Alive
  <2>8. \A t \in Confirming : pending'[t.pending] = pending[t.pending]
    BY <2>1, <2>4, NoRows DEF CodeInv, ConfirmsRight, ConfirmRight
  <2>9. Accounts(account') /\ Stay(Emails, account, account')
    BY <2>1 DEF CodeInv, Stay
  <2>10. QED
    BY <2>1, <2>4, <2>5, <2>6, <2>7, <2>8, <2>9, TicketsSame, InsertStep
<1>3. QED
  BY <1>1, <1>2

LEMMA ConfirmReadsStep ==
  ASSUME CodeInv, NEW p \in Pendings, NEW c \in Challenges, confirmReads(p, c)
  PROVE  CodeInv'
<1> DEFINE t == [op |-> "confirm", pending |-> p, challenge |-> c, token |-> None,
                 saw |-> IsRow(account[pending[p].email]), at |-> now]
<1>1. /\ open' = open \cup {t} /\ UNCHANGED <<account, pending, ticket, challenge>> /\ now' = now
      /\ c \in activeRegistrationChallenge(p)
      /\ IsRow(pending[p]) /\ pending[p].consumedAt = None
      /\ \A u \in open : u.pending # p
  BY DEF confirmReads, OpenPending, PendingFree
<1>2. t.pending = p /\ t.challenge = c /\ t.at = now /\ t.op = "confirm"
  OBVIOUS
<1> HIDE DEF t
<1>3. ForRegistration(challenge[c]) /\ challenge[c].of = p
  BY <1>1 DEF activeRegistrationChallenge, Newest, ChallengesOf, ForRegistration
<1>4. Confirming' = Confirming \cup {t}
  BY <1>1, <1>2 DEF Confirming
<1>5. ConfirmRight(t, challenge[c], pending[p])
  BY <1>1, <1>2, <1>3 DEF ConfirmRight, CodeInv
<1>6. ConfirmsRight'
  <2>1. \A u \in Confirming : u.pending # p
    BY <1>1 DEF Confirming
  <2>2. \A u \in Confirming' : ConfirmRight(u, challenge'[u.challenge], pending'[u.pending])
    BY <1>1, <1>2, <1>4, <1>5 DEF CodeInv, ConfirmsRight
  <2>3. \A u, v \in Confirming' : u.pending = v.pending => u = v
    BY <1>2, <1>4, <2>1 DEF CodeInv, ConfirmsRight
  <2>4. QED
    BY <2>2, <2>3 DEF ConfirmsRight
<1>7. Accounts(account)' /\ InOrder' /\ LastOne' /\ Origins' /\ SetupsRight'
  BY <1>1 DEF CodeInv, Accounts, InOrder, LastOne, Origins, SetupsRight
<1>8. QED
  BY <1>1, <1>6, <1>7 DEF CodeInv, Table, Codes

LEMMA FadeStep ==
  ASSUME CodeInv, now' = now, open' = open, pending' = pending,
         Accounts(account'), Stay(Emails, account, account'),
         TicketsFading(ticket'),
         CodesFading(challenge'),
         \A t \in Confirming : challenge'[t.challenge] = challenge[t.challenge]
  PROVE  CodeInv'
<1>1. ConfirmsRight'
  BY ConfirmsSame DEF CodeInv, Confirming
<1>2. /\ Table(pending', Pendings, PendingFields) /\ Stay(Pendings, pending, pending')
      /\ now' \in Instants
  BY DEF CodeInv, Stay
<1>3. QED
  BY <1>1, <1>2, CodesFade

LEMMA CodesStay ==
  ASSUME CodeInv, challenge' = challenge
  PROVE  /\ CodesFading(challenge')
         /\ \A t \in Confirming : challenge'[t.challenge] = challenge[t.challenge]
BY DEF CodeInv, Codes, Table, CodeFades, CodesFading

LEMMA AccountsStay ==
  ASSUME CodeInv, account' = account
  PROVE  Accounts(account') /\ Stay(Emails, account, account')
BY DEF CodeInv, Accounts, Stay

LEMMA AccountWritten ==
  ASSUME CodeInv, NEW e, NEW row, e \in Emails => DOMAIN row = AccountFields,
         account' = [account EXCEPT ![e] = row]
  PROVE  /\ Accounts(account') /\ Stay(Emails, account, account')
         /\ e \in Emails => account'[e] # NoRow
<1>1. e \in Emails => IsRow(row)
  BY HasColumns DEF AccountFields
<1>2. /\ account' = [x \in Emails |-> account'[x]]
      /\ \A x \in Emails : account'[x] = IF x = e THEN row ELSE account[x]
  BY DEF CodeInv, Accounts
<1>3. QED
  BY <1>1, <1>2, NoRows DEF CodeInv, Accounts, Stay

LEMMA AccountRow ==
  ASSUME CodeInv, NEW e \in Emails, IsRow(account[e])  PROVE DOMAIN account[e] = AccountFields
BY NoRows DEF CodeInv, Accounts

(* A code that was used or mistyped is not one that a confirmation has locked, *)
(* being for another purpose or unlocked.                                      *)
LEMMA OtherPurpose ==
  ASSUME CodeInv, NEW t \in Confirming
  PROVE  ForRegistration(challenge[t.challenge]) /\ t.challenge \in Challenges
BY DEF CodeInv, ConfirmsRight, ConfirmRight

LEMMA UseCode ==
  ASSUME CodeInv, NEW c \in Challenges, IsRow(challenge[c]), ~ForRegistration(challenge[c]),
         challenge' = Consumed(challenge, c)
  PROVE  /\ CodesFading(challenge')
         /\ ~Alive(challenge'[c])
         /\ \A t \in Confirming : challenge'[t.challenge] = challenge[t.challenge]
<1>1. Uses(challenge', c, now) /\ now \in Instants
  BY DEF Consumed, CodeInv, Uses
<1>2. UsedRight(challenge', c)
  BY <1>1, ConsumedFades
<1>3. QED
  BY <1>2, OtherPurpose DEF UsedRight

LEMMA MistypeStep ==
  ASSUME CodeInv, NEW c \in Challenges, failVerification(c)  PROVE CodeInv'
<1> DEFINE last == challenge[c].attempts + 1 >= MAX_ATTEMPTS
           row == [challenge[c] EXCEPT
                     !.attempts = challenge[c].attempts + 1,
                     !.invalidatedAt = IF last THEN now ELSE challenge[c].invalidatedAt,
                     !.reason = IF last THEN "ATTEMPTS_EXHAUSTED" ELSE challenge[c].reason]
<1>1. /\ challenge' = [challenge EXCEPT ![c] = row] /\ Alive(challenge[c])
      /\ UNCHANGED <<account, pending, ticket, open, now>>
      /\ \A t \in open : t.challenge # c
  BY DEF failVerification, activeAt, Live, Alive, ChallengeFree
<1>2. DOMAIN challenge[c] = ChallengeFields /\ challenge = [b \in Challenges |-> challenge[b]]
  BY <1>1 DEF CodeInv, Codes, Table, Alive
<1>3. DOMAIN row = ChallengeFields /\ SameFlow(challenge[c], row)
  BY <1>2 DEF ChallengeFields, SameFlow
<1> HIDE DEF row
<1>4. CodeFades(challenge[c], row)
  BY <1>1, <1>3 DEF CodeFades, Alive
<1>5. /\ challenge' = [b \in Challenges |-> challenge'[b]]
      /\ \A b \in Challenges : challenge'[b] = IF b = c THEN row ELSE challenge[b]
  BY <1>1, <1>2
<1>6. CodesFading(challenge')
  BY <1>4, <1>5 DEF CodeFades, CodesFading
<1>7. \A t \in Confirming : challenge'[t.challenge] = challenge[t.challenge]
  BY <1>1, <1>5, OtherPurpose DEF Confirming
<1>8. QED
  BY <1>1, <1>5, <1>6, <1>7, TicketsSame, AccountsStay, FadeStep

(* Tickets.                                                                    *)
LEMMA ClaimedFades ==
  ASSUME CodeInv, NEW c \in Challenges, Usable(c), ticket' = Claimed(c)
  PROVE  /\ TicketsFading(ticket')
<1> DEFINE row == [ticket[c] EXCEPT !.consumedAt = now]
<1>1. /\ ticket' = [ticket EXCEPT ![c] = row] /\ IsRow(ticket[c])
      /\ now # None
  BY Names DEF Claimed, Usable, CodeInv
<1>2. DOMAIN ticket[c] = TicketFields /\ ticket = [b \in Challenges |-> ticket[b]]
  BY <1>1 DEF CodeInv, Table
<1>3. DOMAIN row = TicketFields /\ row.consumedAt = now
  BY <1>2 DEF TicketFields
<1> HIDE DEF row
<1>4. TicketFades(ticket[c], row)
  BY <1>1, <1>3 DEF TicketFades, OpenSetup
<1>5. /\ ticket' = [b \in Challenges |-> ticket'[b]]
      /\ \A b \in Challenges : ticket'[b] = IF b = c THEN row ELSE ticket[b]
  BY <1>1, <1>2
<1>6. QED
  BY <1>4, <1>5 DEF TicketFades, TicketsFading

LEMMA IssuedIs ==
  ASSUME CodeInv, NEW c \in Challenges, NEW purpose, ticket' = IssuedTicket(c, purpose)
  PROVE  /\ ticket' = [b \in Challenges |-> ticket'[b]]
         /\ \A b \in Challenges \ {c} : ticket'[b] = ticket[b]
         /\ DOMAIN ticket'[c] = TicketFields /\ ticket'[c].purpose = purpose
         /\ ticket'[c].of = challenge[c].of
<1> DEFINE row == [purpose |-> purpose, of |-> challenge[c].of,
                   expiresAt |-> now + TICKET_TTL, consumedAt |-> None]
<1>1. DOMAIN row = TicketFields /\ row.purpose = purpose /\ row.of = challenge[c].of
  BY DEF TicketFields
<1>2. ticket' = [ticket EXCEPT ![c] = row] /\ ticket = [b \in Challenges |-> ticket[b]]
  BY DEF IssuedTicket, CodeInv, Table
<1> HIDE DEF row
<1>3. QED
  BY <1>1, <1>2

LEMMA SetupsUsed ==
  ASSUME CodeInv, NEW e, ticket' = SetupTicketsUsed(e)
  PROVE  /\ TicketsFading(ticket')
         /\ \A b \in Challenges : OpenSetup(ticket'[b]) => ticket'[b].of # e
<1> DEFINE used(b) == [ticket[b] EXCEPT !.consumedAt = now]
<1>1. /\ ticket' = [b \in Challenges |-> ticket'[b]]
      /\ \A b \in Challenges :
           ticket'[b] = IF OpenSetup(ticket[b]) /\ ticket[b].of = e THEN used(b) ELSE ticket[b]
  BY DEF SetupTicketsUsed, OpenSetup
<1>2. now # None
  BY Names DEF CodeInv
<1>3. ASSUME NEW b \in Challenges, OpenSetup(ticket[b])
      PROVE  DOMAIN used(b) = TicketFields /\ ~OpenSetup(used(b))
  <2>1. DOMAIN ticket[b] = TicketFields
    BY <1>3 DEF CodeInv, Table, OpenSetup
  <2>2. DOMAIN used(b) = TicketFields /\ used(b).consumedAt = now
    BY <2>1 DEF TicketFields
  <2>3. QED
    BY <1>2, <2>2 DEF OpenSetup
<1> HIDE DEF used
<1>4. QED
  BY <1>1, <1>3 DEF TicketFades, TicketsFading

-----------------------------------------------------------------------------
(* The actions, on codes, tickets and registrations.                           *)

LEMMA ConfirmStep ==
  ASSUME CodeInv, NEW t \in open, NEW k, confirmRegistration(t, k)  PROVE CodeInv'
<1> DEFINE p == pending[t.pending]
           created == NewAccount(p.role, IF p.role = "DRIVER" THEN "PENDING_APPROVAL" ELSE "ACTIVE",
                                 TRUE, t.pending, TRUE)
<1>1. /\ t \in Confirming /\ open' = open \ {t} /\ now' = now /\ ticket' = ticket
      /\ Uses(challenge', t.challenge, t.at)
      /\ \E reason : closePending(t, reason)
      /\ account' = account \/ account' = [account EXCEPT ![p.email] = created]
  BY DEF confirmRegistration, ends, Confirming, Uses
<1>2. PICK reason : closePending(t, reason)
  BY <1>1
<1>3. ConfirmRight(t, challenge[t.challenge], p)
  BY <1>1 DEF CodeInv, ConfirmsRight
<1>4. UsedRight(challenge', t.challenge)
  BY <1>1, <1>3, ConsumedFades DEF ConfirmRight, ForRegistration
<1>5. Accounts(account') /\ Stay(Emails, account, account')
  <2>1. DOMAIN created = AccountFields
    BY DEF NewAccount, AccountFields
  <2> HIDE DEF created
  <2>2. QED
    BY <1>1, <2>1, AccountWritten, AccountsStay
<1> DEFINE form == [p EXCEPT !.consumedAt = t.at, !.closeReason = reason]
<1>6. DOMAIN p = PendingFields /\ pending = [q \in Pendings |-> pending[q]]
  BY <1>3 DEF ConfirmRight, CodeInv, Table
<1>7. DOMAIN form = PendingFields
  BY <1>6 DEF PendingFields
<1>8. pending' = [pending EXCEPT ![t.pending] = form]
  BY <1>2 DEF closePending
<1> HIDE DEF form, p, created
<1>9. IsRow(form)
  BY <1>7, HasColumns DEF PendingFields
<1>10. /\ Table(pending', Pendings, PendingFields) /\ Stay(Pendings, pending, pending')
       /\ \A q \in Pendings \ {t.pending} : pending'[q] = pending[q]
  BY <1>6, <1>7, <1>8, <1>9, NoRows DEF Table, Stay, CodeInv
<1>11. ConfirmsRight'
  <2>1. Confirming' = Confirming \ {t}
    BY <1>1 DEF Confirming
  <2>2. ASSUME NEW u \in Confirming, u # t
        PROVE  /\ challenge'[u.challenge] = challenge[u.challenge]
               /\ pending'[u.pending] = pending[u.pending]
    <3>1. u.pending # t.pending /\ u.pending \in Pendings
      BY <1>1, <2>2 DEF CodeInv, ConfirmsRight, ConfirmRight
    <3>2. challenge[u.challenge].of = u.pending /\ u.challenge \in Challenges
      BY DEF CodeInv, ConfirmsRight, ConfirmRight
    <3>3. u.challenge # t.challenge
      BY <1>3, <3>1, <3>2 DEF ConfirmRight
    <3>4. QED
      BY <1>4, <1>10, <3>1, <3>2, <3>3 DEF UsedRight
  <2>3. QED
    BY <2>1, <2>2, ConfirmsSame DEF CodeInv
<1>12. QED
  BY <1>1, <1>4, <1>5, <1>10, <1>11, TicketsSame, CodesFade DEF UsedRight, CodeInv

(* replaceChallenge, for the last code of a flow.                              *)
LEMMA ReplaceStep ==
  ASSUME CodeInv, now' = now, open' = open, pending' = pending,
         Accounts(account'), Stay(Emails, account, account'), TicketsFading(ticket'),
         NEW c \in Challenges, NEW S \in SUBSET Challenges, NEW old \in Newest(S),
         IsRow(challenge[old]), NEW limit, replaceChallenge(c, old, limit),
         \A b \in Challenges :
           Alive(challenge[b]) /\ SameFlow(challenge[b], challenge[old]) => b \in S,
         ForStore(challenge[old]) =>
           \A b \in Challenges : OpenSetup(ticket'[b]) => ticket'[b].of # challenge[old].of
  PROVE  CodeInv'
<1> DEFINE purpose == challenge[old].purpose
           of == challenge[old].of
<1>1. /\ old \in Challenges
      /\ \A b \in Challenges :
           Alive(challenge[b]) /\ SameFlow(challenge[b], challenge[old]) => b = old
  BY NewestAlive
<1>2. /\ Fresh(c) /\ Inserts(challenge', c, {old}, purpose, of, limit)
      /\ \A t \in open : t.challenge # old
  BY DEF replaceChallenge, Inserts, ChallengeFree
<1>3. HasOrigin(challenge[old], pending, account)
  BY <1>1 DEF CodeInv, Origins
<1>4. /\ purpose = "REGISTRATION_VERIFY" => of \in Pendings /\ pending'[of] # NoRow
      /\ purpose \in {"STORE_ACTIVATION", "ADMIN_ACTIVATION"} =>
           of \in Emails /\ account'[of] # NoRow
      /\ purpose = "STORE_ACTIVATION" =>
           \A b \in Challenges : OpenSetup(ticket'[b]) => ticket'[b].of # of
  BY <1>3 DEF HasOrigin, ForRegistration, ForStore, ForAdmin, Stay
<1>5. \A b \in Challenges \ {old} : Alive(challenge[b]) =>
        ~(challenge[b].purpose = purpose /\ challenge[b].of = of)
  BY <1>1 DEF SameFlow
<1>6. \A t \in Confirming : t.challenge \notin {old} /\ pending'[t.pending] = pending[t.pending]
  BY <1>2 DEF Confirming
<1>7. Table(pending', Pendings, PendingFields) /\ Stay(Pendings, pending, pending')
  BY DEF CodeInv, Stay
<1> HIDE DEF purpose, of
<1>8. {old} \in SUBSET Challenges /\ \A b \in {old} : IsRow(challenge[b])
  BY <1>1
<1>9. QED
  BY <1>2, <1>4, <1>5, <1>6, <1>7, <1>8, InsertStep

LEMMA ResendStep ==
  ASSUME CodeInv, NEW p \in Pendings, NEW c \in Challenges, resendRegistrationVerification(p, c)
  PROVE  CodeInv'
<1> DEFINE S == {b \in ChallengesOf("REGISTRATION_VERIFY", p) : replacementAllowed(b)}
<1>1. PICK old \in Newest(S) : replaceChallenge(c, old, pending[p].expiresAt)
  BY DEF resendRegistrationVerification, currentRegistrationChallenge
<1>2. UNCHANGED <<account, pending, ticket, open, now>>
  BY DEF resendRegistrationVerification
<1>3. /\ old \in S /\ S \in SUBSET Challenges
      /\ challenge[old].purpose = "REGISTRATION_VERIFY" /\ challenge[old].of = p
      /\ IsRow(challenge[old])
  BY DEF Newest, ChallengesOf
<1>4. \A b \in Challenges :
        Alive(challenge[b]) /\ SameFlow(challenge[b], challenge[old]) => b \in S
  BY <1>3 DEF Alive, SameFlow, ChallengesOf, replacementAllowed
<1>5. ~ForStore(challenge[old])
  BY <1>3 DEF ForStore
<1> HIDE DEF S
<1>6. QED
  BY <1>1, <1>2, <1>3, <1>4, <1>5, TicketsSame, AccountsStay, ReplaceStep

LEMMA RecoverStep ==
  ASSUME CodeInv, NEW e, NEW c \in Challenges, startPasswordRecovery(e, c)  PROVE CodeInv'
<1> DEFINE S == LiveRecoveries(e)
<1>1. /\ Fresh(c) /\ Inserts(challenge', c, S, "PASSWORD_RECOVERY", e, now + CHALLENGE_TTL)
      /\ UNCHANGED <<account, pending, ticket, open, now>>
  BY DEF startPasswordRecovery, Inserts
<1>2. /\ S \in SUBSET Challenges
      /\ \A b \in S : IsRow(challenge[b]) /\ challenge[b].purpose = "PASSWORD_RECOVERY"
      /\ \A b \in Challenges \ S : Alive(challenge[b]) =>
           ~(challenge[b].purpose = "PASSWORD_RECOVERY" /\ challenge[b].of = e)
  BY DEF LiveRecoveries, ChallengesOf, Live, Alive
<1>3. \A t \in Confirming : t.challenge \notin S /\ pending'[t.pending] = pending[t.pending]
  BY <1>1, <1>2, OtherPurpose DEF ForRegistration
<1>4. Table(pending', Pendings, PendingFields) /\ Stay(Pendings, pending, pending')
  BY <1>1 DEF CodeInv, Stay
<1> HIDE DEF S
<1>5. QED
  BY <1>1, <1>2, <1>3, <1>4, TicketsSame, AccountsStay, InsertStep

LEMMA VerifyStep ==
  ASSUME CodeInv, NEW c \in Challenges, verifyPasswordRecovery(c)  PROVE CodeInv'
<1>1. /\ IsRow(challenge[c]) /\ ~ForRegistration(challenge[c])
      /\ challenge' = Consumed(challenge, c) /\ ticket' = IssuedTicket(c, "PASSWORD_RESET")
      /\ UNCHANGED <<account, pending, open, now>>
  BY DEF verifyPasswordRecovery, ForRegistration
<1>2. TicketsFading(ticket')
  BY <1>1, IssuedIs DEF TicketsFading, TicketFades, OpenSetup
<1>3. QED
  BY <1>1, <1>2, UseCode, AccountsStay, FadeStep

LEMMA ResetStep ==
  ASSUME CodeInv, NEW c \in Challenges, resetPassword(c)  PROVE CodeInv'
<1> DEFINE e == ticket[c].of
           row == [account[e] EXCEPT !.version = account[e].version + 1]
<1>1. /\ Usable(c) /\ ticket' = Claimed(c) /\ UNCHANGED <<challenge, pending, open, now>>
      /\ account' = [account EXCEPT ![e] = row] /\ IsRow(account[e])
  BY DEF resetPassword, recoveryEligible
<1>2. e \in Emails => DOMAIN row = AccountFields
  BY <1>1, AccountRow
<1> HIDE DEF e, row
<1>3. QED
  BY <1>1, <1>2, AccountWritten, ClaimedFades, CodesStay, FadeStep

LEMMA SetupStep ==
  ASSUME CodeInv, NEW c \in Challenges, setupInitialPassword(c)  PROVE CodeInv'
<1> DEFINE e == ticket[c].of
           row == [account[e] EXCEPT !.status = "ACTIVE", !.verified = TRUE, !.password = TRUE,
                                     !.store = "ACTIVE"]
<1>1. /\ Usable(c) /\ ticket' = Claimed(c) /\ UNCHANGED <<challenge, pending, open, now>>
      /\ account' = [account EXCEPT ![e] = row] /\ IsRow(account[e])
  BY DEF setupInitialPassword, PendingStore
<1>2. e \in Emails => DOMAIN row = AccountFields
  BY <1>1, AccountRow
<1> HIDE DEF e, row
<1>3. QED
  BY <1>1, <1>2, AccountWritten, ClaimedFades, CodesStay, FadeStep

LEMMA ProvisionStep ==
  ASSUME CodeInv, NEW e \in Emails, NEW c \in Challenges, provisionStoreWithOwner(e, c)
  PROVE  CodeInv'
<1> DEFINE row == [NewAccount("STORE", "PENDING_EMAIL", FALSE, "ADMIN_PROVISIONED", FALSE)
                     EXCEPT !.store = "PENDING_ACTIVATION"]
<1>1. /\ account[e] = NoRow /\ account' = [account EXCEPT ![e] = row]
      /\ createChallenge(c, "STORE_ACTIVATION", e, now + CHALLENGE_TTL)
      /\ UNCHANGED <<pending, ticket, open, now>>
  BY DEF provisionStoreWithOwner
<1>2. DOMAIN row = AccountFields
  BY DEF NewAccount, AccountFields
<1> HIDE DEF row
<1>3. Accounts(account') /\ Stay(Emails, account, account') /\ account'[e] # NoRow
  BY <1>1, <1>2, AccountWritten
<1>4. Fresh(c) /\ Inserts(challenge', c, {}, "STORE_ACTIVATION", e, now + CHALLENGE_TTL)
  BY <1>1, NoneReplaced DEF createChallenge, Inserts
<1>5. \A b \in Challenges : Alive(challenge[b]) =>
        ~(challenge[b].purpose = "STORE_ACTIVATION" /\ challenge[b].of = e)
  BY <1>1 DEF CodeInv, Origins, HasOrigin, ForStore, Alive
<1>6. \A b \in Challenges : OpenSetup(ticket'[b]) => ticket'[b].of # e
  BY <1>1 DEF CodeInv, SetupsRight
<1>7. Table(pending', Pendings, PendingFields) /\ Stay(Pendings, pending, pending')
  BY <1>1 DEF CodeInv, Stay
<1>8. QED
  BY <1>1, <1>3, <1>4, <1>5, <1>6, <1>7, TicketsSame, InsertStep

LEMMA ResendStoreStep ==
  ASSUME CodeInv, NEW e \in Emails, NEW c \in Challenges, resendStoreActivation(e, c)
  PROVE  CodeInv'
<1> DEFINE S == ChallengesOf("STORE_ACTIVATION", e)
<1>1. /\ UNCHANGED <<account, pending, open, now>> /\ ticket' = SetupTicketsUsed(e)
      /\ IsRow(account[e])
  BY DEF resendStoreActivation, PendingStore
<1>2. PICK old \in Newest(S) :
        IF challenge[old].consumedAt = None
          THEN replaceChallenge(c, old, now + CHALLENGE_TTL)
          ELSE Fresh(c) /\ challenge' = insertChallenge(challenge, c, "STORE_ACTIVATION", e,
                                                        now + CHALLENGE_TTL)
  BY DEF resendStoreActivation
<1>3. /\ old \in S /\ S \in SUBSET Challenges
      /\ challenge[old].purpose = "STORE_ACTIVATION" /\ challenge[old].of = e
      /\ IsRow(challenge[old])
  BY DEF Newest, ChallengesOf
<1>4. \A b \in Challenges :
        Alive(challenge[b]) /\ SameFlow(challenge[b], challenge[old]) => b \in S
  BY <1>3 DEF Alive, SameFlow, ChallengesOf
<1>5. /\ TicketsFading(ticket')
      /\ \A b \in Challenges : OpenSetup(ticket'[b]) => ticket'[b].of # e
  BY <1>1, SetupsUsed
<1> HIDE DEF S
<1>6. CASE challenge[old].consumedAt = None
  BY <1>1, <1>2, <1>3, <1>4, <1>5, <1>6, AccountsStay, ReplaceStep
<1>7. CASE challenge[old].consumedAt # None
  <2>1. Fresh(c) /\ Inserts(challenge', c, {}, "STORE_ACTIVATION", e, now + CHALLENGE_TTL)
    BY <1>2, <1>7, NoneReplaced DEF Inserts
  <2>2. \A b \in Challenges :
          Alive(challenge[b]) /\ SameFlow(challenge[b], challenge[old]) => b = old
    BY <1>3, <1>4, NewestAlive
  <2>3. \A b \in Challenges : Alive(challenge[b]) =>
          ~(challenge[b].purpose = "STORE_ACTIVATION" /\ challenge[b].of = e)
    BY <1>3, <1>7, <2>2 DEF SameFlow, Alive
  <2>4. /\ Table(pending', Pendings, PendingFields) /\ Stay(Pendings, pending, pending')
        /\ account'[e] # NoRow
    BY <1>1, NoRows DEF CodeInv, Stay
  <2>5. QED
    BY <1>1, <1>5, <2>1, <2>3, <2>4, AccountsStay, InsertStep
<1>8. QED
  BY <1>6, <1>7

(* The ticket comes when its code, the only one that counted, was used.        *)
LEMMA ConfirmStoreStep ==
  ASSUME CodeInv, NEW c \in Challenges, confirmStore(c)  PROVE CodeInv'
<1> DEFINE e == challenge[c].of
<1>1. /\ ForStore(challenge[c]) /\ ~ForRegistration(challenge[c]) /\ Alive(challenge[c])
      /\ challenge' = Consumed(challenge, c)
      /\ UNCHANGED <<account, pending, open, now>>
      /\ ticket' = ticket \/ ticket' = IssuedTicket(c, "INITIAL_PASSWORD_SETUP")
  BY DEF confirmStore, ForStore, ForRegistration, activeAt, Live, Alive
<1>2. /\ CodesFading(challenge') /\ ~Alive(challenge'[c])
      /\ \A t \in Confirming : challenge'[t.challenge] = challenge[t.challenge]
  BY <1>1, UseCode DEF ForStore
<1>3. CASE ticket' = ticket
  BY <1>1, <1>2, <1>3, TicketsSame, AccountsStay, FadeStep
<1>4. CASE ticket' = IssuedTicket(c, "INITIAL_PASSWORD_SETUP")
  <2>1. /\ ticket' = [b \in Challenges |-> ticket'[b]]
        /\ \A b \in Challenges \ {c} : ticket'[b] = ticket[b]
        /\ DOMAIN ticket'[c] = TicketFields /\ ticket'[c].of = e
    BY <1>4, IssuedIs
  <2>2. Table(ticket', Challenges, TicketFields)
    BY <2>1 DEF CodeInv, Table
  <2>3. e \in Emails /\ account'[e] # NoRow
    BY <1>1 DEF CodeInv, Origins, HasOrigin
  <2>4. \A b \in Challenges : OpenSetup(ticket[b]) => ticket[b].of # e
    BY <1>1 DEF CodeInv, SetupsRight
  <2>5. \A b \in Challenges : Alive(challenge'[b]) /\ ForStore(challenge'[b]) =>
          challenge'[b].of # e /\ Alive(challenge[b]) /\ ForStore(challenge[b])
                               /\ challenge'[b].of = challenge[b].of
    <3> SUFFICES ASSUME NEW b \in Challenges, Alive(challenge'[b]), ForStore(challenge'[b])
                 PROVE  /\ challenge'[b].of # e /\ Alive(challenge[b]) /\ ForStore(challenge[b])
                        /\ challenge'[b].of = challenge[b].of
      OBVIOUS
    <3>1. b # c
      BY <1>2
    <3>2. /\ Alive(challenge[b]) /\ ForStore(challenge[b]) /\ challenge'[b].of = challenge[b].of
      BY <1>2, FadedCode DEF CodesFading, SameFlow, ForStore
    <3>3. challenge[b].of = e => b <= c /\ c <= b
      BY <1>1, <3>2 DEF CodeInv, LastOne, SameFlow, ForStore
    <3>4. b \in Int /\ c \in Int
      BY SizeAssumption DEF Challenges
    <3>5. QED
      BY <3>1, <3>2, <3>3, <3>4
  <2>6. SetupsRight'
    <3>1. \A b \in Challenges \ {c} : OpenSetup(ticket'[b]) =>
            OpenSetup(ticket[b]) /\ ticket'[b].of = ticket[b].of /\ ticket'[b].of # e
      BY <2>1, <2>4
    <3>2. QED
      BY <1>1, <2>1, <2>3, <2>5, <3>1 DEF CodeInv, SetupsRight
  <2>7. /\ CodeInv => Codes(challenge') /\ InOrder' /\ LastOne' /\ Origins'
    <3>1. \A b \in Challenges :
            /\ Alive(challenge'[b]) => Alive(challenge[b]) /\ SameFlow(challenge[b], challenge'[b])
            /\ IsRow(challenge'[b]) => IsRow(challenge[b]) /\ SameFlow(challenge[b], challenge'[b])
            /\ challenge'[b] = NoRow <=> challenge[b] = NoRow
      BY <1>2, FadedCode DEF CodesFading
    <3>2. InOrder'
      BY <3>1, SizeAssumption DEF CodeInv, InOrder, Challenges
    <3>3. LastOne'
      BY <3>1 DEF CodeInv, LastOne, SameFlow
    <3>4. Origins'
      BY <1>1, <1>2, FadedOrigin, AccountsStay DEF CodeInv, Origins, CodesFading, Stay
    <3>5. QED
      BY <1>2, <3>2, <3>3, <3>4, CodesFadeTable DEF CodeInv
  <2>8. ConfirmsRight'
    BY <1>1, <1>2, ConfirmsSame DEF CodeInv, Confirming
  <2>9. QED
    BY <1>1, <2>2, <2>6, <2>7, <2>8 DEF CodeInv, Accounts, Table
<1>5. QED
  BY <1>1, <1>3, <1>4

(* Invalidated codes of stores.                                                *)
LEMMA CloseStoreStep ==
  ASSUME CodeInv, NEW e \in Emails, NEW status, setStoreSecurityStatus(e, status)
  PROVE  CodeInv'
<1> DEFINE S == {b \in ChallengesOf("STORE_ACTIVATION", e) : challenge[b].consumedAt = None}
           row == IF status = "ACTIVE" THEN [account[e] EXCEPT !.store = status]
                  ELSE [account[e] EXCEPT !.store = status, !.version = account[e].version + 1]
           killed(b) == [challenge[b] EXCEPT !.invalidatedAt = now, !.reason = "STORE_CLOSED"]
<1>1. /\ UNCHANGED <<pending, ticket, open, now>> /\ IsRow(account[e])
      /\ account' = [account EXCEPT ![e] = row]
      /\ challenge' = challenge \/ challenge' = Invalidated(challenge, S, "STORE_CLOSED")
  BY DEF setStoreSecurityStatus
<1>2. DOMAIN row = AccountFields
  BY <1>1, AccountRow
<1> HIDE DEF row
<1>3. Accounts(account') /\ Stay(Emails, account, account')
  BY <1>1, <1>2, AccountWritten
<1>4. CASE challenge' = challenge
  BY <1>1, <1>3, <1>4, CodesStay, TicketsSame, FadeStep
<1>5. CASE challenge' = Invalidated(challenge, S, "STORE_CLOSED")
  <2>1. /\ challenge' = [b \in Challenges |-> challenge'[b]]
        /\ \A b \in Challenges : challenge'[b] = IF b \in S THEN killed(b) ELSE challenge[b]
    BY <1>5 DEF Invalidated
  <2>2. \A b \in S : b \in Challenges /\ IsRow(challenge[b]) /\ ~ForRegistration(challenge[b])
    BY DEF ChallengesOf, ForRegistration
  <2>3. ASSUME NEW b \in S  PROVE CodeFades(challenge[b], killed(b))
    <3>1. DOMAIN challenge[b] = ChallengeFields
      BY <2>2 DEF CodeInv, Codes, Table
    <3>2. DOMAIN killed(b) = ChallengeFields /\ SameFlow(challenge[b], killed(b))
          /\ killed(b).reason = "STORE_CLOSED"
      BY <3>1 DEF ChallengeFields, SameFlow
    <3>3. ~Alive(killed(b))
      BY <3>2, Names DEF Alive
    <3>4. QED
      BY <2>2, <3>2, <3>3 DEF CodeFades
  <2> HIDE DEF S, killed
  <2>4. CodesFading(challenge')
    BY <2>1, <2>3 DEF CodesFading, CodeFades
  <2>5. \A t \in Confirming : challenge'[t.challenge] = challenge[t.challenge]
    BY <2>1, <2>2, OtherPurpose
  <2>6. QED
    BY <1>1, <1>3, <2>4, <2>5, TicketsSame, FadeStep
<1>6. QED
  BY <1>1, <1>4, <1>5

LEMMA DriverStep ==
  ASSUME CodeInv, NEW e \in Emails, NEW status, setDriverAccountStatus(e, status)
  PROVE  CodeInv'
<1> DEFINE row == [account[e] EXCEPT
                     !.status = status,
                     !.version = account[e].version
                       + (IF status = "BLOCKED" /\ account[e].status # "BLOCKED" THEN 1 ELSE 0)]
<1>1. /\ UNCHANGED <<pending, ticket, challenge, open, now>> /\ IsRow(account[e])
      /\ account' = [account EXCEPT ![e] = row]
  BY DEF setDriverAccountStatus
<1>2. DOMAIN row = AccountFields
  BY <1>1, AccountRow
<1> HIDE DEF row
<1>3. QED
  BY <1>1, <1>2, AccountWritten, CodesStay, TicketsSame, FadeStep

LEMMA RevokeAllStep ==
  ASSUME CodeInv, NEW k, revokeAllSessions(k)  PROVE CodeInv'
<1> DEFINE e == token[k].of
           row == [account[e] EXCEPT !.version = account[e].version + 1]
<1>1. /\ UNCHANGED <<pending, ticket, challenge, open, now>> /\ IsRow(account[e])
      /\ account' = [account EXCEPT ![e] = row]
  BY DEF revokeAllSessions, resolveLivePrincipal, assertLoginable
<1>2. e \in Emails => DOMAIN row = AccountFields
  BY <1>1, AccountRow
<1> HIDE DEF e, row
<1>3. QED
  BY <1>1, <1>2, AccountWritten, CodesStay, TicketsSame, FadeStep

LEMMA BootstrapStep ==
  ASSUME CodeInv, NEW e \in Emails, NEW c \in Challenges, bootstrapAdmin(e, c)  PROVE CodeInv'
<1>1. UNCHANGED <<pending, ticket, open, now>>
  BY DEF bootstrapAdmin
<1>2. ASSUME account[e] = NoRow,
             account' = [account EXCEPT ![e] =
               NewAccount("ADMIN", "PENDING_EMAIL", FALSE, "BOOTSTRAP", TRUE)],
             createChallenge(c, "ADMIN_ACTIVATION", e, now + CHALLENGE_TTL)
      PROVE  CodeInv'
  <2>1. DOMAIN NewAccount("ADMIN", "PENDING_EMAIL", FALSE, "BOOTSTRAP", TRUE) = AccountFields
    BY DEF NewAccount, AccountFields
  <2>2. Accounts(account') /\ Stay(Emails, account, account') /\ account'[e] # NoRow
    BY <1>2, <2>1, AccountWritten
  <2>3. Fresh(c) /\ Inserts(challenge', c, {}, "ADMIN_ACTIVATION", e, now + CHALLENGE_TTL)
    BY <1>2, NoneReplaced DEF createChallenge, Inserts
  <2>4. \A b \in Challenges : Alive(challenge[b]) =>
          ~(challenge[b].purpose = "ADMIN_ACTIVATION" /\ challenge[b].of = e)
    BY <1>2 DEF CodeInv, Origins, HasOrigin, ForAdmin, Alive
  <2>5. Table(pending', Pendings, PendingFields) /\ Stay(Pendings, pending, pending')
    BY <1>1 DEF CodeInv, Stay
  <2>6. QED
    BY <1>1, <2>2, <2>3, <2>4, <2>5, TicketsSame, InsertStep
<1>3. ASSUME NEW old \in Newest(ChallengesOf("ADMIN_ACTIVATION", e)), account' = account,
             replaceChallenge(c, old, now + CHALLENGE_TTL)
      PROVE  CodeInv'
  <2> DEFINE S == ChallengesOf("ADMIN_ACTIVATION", e)
  <2>1. /\ old \in S /\ S \in SUBSET Challenges /\ IsRow(challenge[old])
        /\ challenge[old].purpose = "ADMIN_ACTIVATION" /\ challenge[old].of = e
    BY <1>3 DEF Newest, ChallengesOf
  <2>2. \A b \in Challenges :
          Alive(challenge[b]) /\ SameFlow(challenge[b], challenge[old]) => b \in S
    BY <2>1 DEF Alive, SameFlow, ChallengesOf
  <2>3. ~ForStore(challenge[old])
    BY <2>1 DEF ForStore
  <2>4. QED
    BY <1>1, <1>3, <2>1, <2>2, <2>3, TicketsSame, AccountsStay, ReplaceStep
<1>4. QED
  BY <1>2, <1>3 DEF bootstrapAdmin

LEMMA ConfirmAdminStep ==
  ASSUME CodeInv, NEW c \in Challenges, confirmAdmin(c)  PROVE CodeInv'
<1> DEFINE e == challenge[c].of
           row == [account[e] EXCEPT !.status = "ACTIVE", !.verified = TRUE]
<1>1. /\ ForAdmin(challenge[c]) /\ ~ForRegistration(challenge[c])
      /\ challenge' = Consumed(challenge, c) /\ UNCHANGED <<pending, ticket, open, now>>
      /\ account' = account \/ account' = [account EXCEPT ![e] = row]
  BY DEF confirmAdmin, ForAdmin, ForRegistration
<1>2. e \in Emails /\ account[e] # NoRow
  BY <1>1 DEF CodeInv, Origins, HasOrigin
<1>3. DOMAIN account[e] = AccountFields
  BY <1>2 DEF CodeInv, Accounts
<1>4. DOMAIN row = AccountFields
  BY <1>3
<1> HIDE DEF row, e
<1>5. Accounts(account') /\ Stay(Emails, account, account')
  BY <1>1, <1>4, AccountWritten, AccountsStay
<1>6. QED
  BY <1>1, <1>5, UseCode, TicketsSame, FadeStep DEF ForAdmin

(* The cleanup does not delete what a confirmation has locked.                 *)
LEMMA WithoutFades ==
  ASSUME CodeInv, NEW S \in SUBSET Challenges, \A c \in S : IsRow(challenge[c]), Without(S)
  PROVE  /\ CodesFading(challenge') /\ TicketsFading(ticket')
         /\ \A c \in Challenges \ S : challenge'[c] = challenge[c]
         /\ \A c \in S : challenge'[c] = Gone
<1>1. /\ challenge' = [c \in Challenges |-> IF c \in S THEN Gone ELSE challenge[c]]
      /\ ticket' = [c \in Challenges |-> IF c \in S /\ ticket[c] # NoRow THEN Gone ELSE ticket[c]]
  BY DEF Without
<1>2. /\ challenge' = [c \in Challenges |-> challenge'[c]]
      /\ ticket' = [c \in Challenges |-> ticket'[c]]
  BY <1>1
<1>3. /\ \A c \in Challenges : challenge'[c] = IF c \in S THEN Gone ELSE challenge[c]
      /\ \A c \in Challenges : ticket'[c] = Gone \/ ticket'[c] = ticket[c]
  BY <1>1
<1>4. QED
  BY <1>2, <1>3 DEF CodesFading, TicketsFading, CodeFades, TicketFades

LEMMA CleanupStep ==
  ASSUME CodeInv, NEW c \in Challenges, cleanupDeletesTicket(c) \/ cleanupDeletesChallenge(c)
  PROVE  CodeInv'
<1>1. CASE cleanupDeletesTicket(c)
  <2>1. ticket' = [ticket EXCEPT ![c] = Gone] /\ UNCHANGED <<account, pending, challenge, open, now>>
    BY <1>1 DEF cleanupDeletesTicket
  <2>2. TicketsFading(ticket')
    BY <2>1 DEF TicketsFading, TicketFades, CodeInv, Table
  <2>3. QED
    BY <2>1, <2>2, CodesStay, AccountsStay, FadeStep
<1>2. CASE cleanupDeletesChallenge(c)
  <2>1. /\ Without({c}) /\ IsRow(challenge[c]) /\ UNCHANGED <<account, pending, open, now>>
        /\ \A t \in open : t.challenge # c
    BY <1>2 DEF cleanupDeletesChallenge, ChallengeFree
  <2>2. /\ CodesFading(challenge') /\ TicketsFading(ticket')
        /\ \A b \in Challenges \ {c} : challenge'[b] = challenge[b]
    BY <2>1, WithoutFades
  <2>3. \A t \in Confirming : challenge'[t.challenge] = challenge[t.challenge]
    BY <2>1, <2>2, OtherPurpose DEF Confirming
  <2>4. QED
    BY <2>1, <2>2, <2>3, AccountsStay, FadeStep
<1>3. QED
  BY <1>1, <1>2

LEMMA CleanupPendingStep ==
  ASSUME CodeInv, NEW p \in Pendings, cleanupDeletesPending(p)  PROVE CodeInv'
<1> DEFINE S == ChallengesOf("REGISTRATION_VERIFY", p)
<1>1. /\ IsRow(pending[p]) /\ pending' = [pending EXCEPT ![p] = Gone] /\ Without(S)
      /\ UNCHANGED <<account, open, now>> /\ \A t \in open : t.pending # p
  BY DEF cleanupDeletesPending, PendingFree
<1>2. S \in SUBSET Challenges /\ \A c \in S : IsRow(challenge[c]) /\ challenge[c].of = p
  BY DEF ChallengesOf
<1> HIDE DEF S
<1>3. /\ CodesFading(challenge') /\ TicketsFading(ticket')
      /\ \A c \in Challenges \ S : challenge'[c] = challenge[c]
  BY <1>1, <1>2, WithoutFades
<1>4. /\ Table(pending', Pendings, PendingFields) /\ Stay(Pendings, pending, pending')
      /\ \A q \in Pendings \ {p} : pending'[q] = pending[q]
  BY <1>1, NoRows DEF CodeInv, Table, Stay
<1>5. ASSUME NEW t \in Confirming
      PROVE  /\ challenge'[t.challenge] = challenge[t.challenge]
             /\ pending'[t.pending] = pending[t.pending]
  <2>1. /\ t.pending \in Pendings /\ t.challenge \in Challenges
        /\ challenge[t.challenge].of = t.pending
    BY DEF CodeInv, ConfirmsRight, ConfirmRight
  <2>2. t.pending # p
    BY <1>1 DEF Confirming
  <2>3. QED
    BY <1>2, <1>3, <1>4, <2>1, <2>2
<1>6. ConfirmsRight'
  BY <1>1, <1>5, ConfirmsSame DEF CodeInv, Confirming
<1>7. QED
  BY <1>1, <1>3, <1>4, <1>6, AccountsStay, CodesFade DEF CodeInv

LEMMA SignInQuiet ==
  ASSUME NEW k,
         \/ \E e \in Emails : loginUser(e, k)
         \/ rotateClaims(k) \/ rotateRevokes(k) \/ revokeSessionFamily(k)
         \/ \E t \in open : rotateRefreshToken(t, k)
  PROVE  /\ UNCHANGED <<account, pending, ticket, challenge, mail, now>>
         /\ Confirming' \subseteq Confirming
<1>1. UNCHANGED <<account, pending, ticket, challenge, mail, now>>
  BY DEF loginUser, rotateClaims, rotateRevokes, revokeSessionFamily, rotateRefreshToken
<1>2. \/ open' = open
      \/ \E t \in open : open' = open \ {t}
      \/ \E t : t.op = "rotate" /\ open' = open \cup {t}
  BY DEF loginUser, rotateClaims, rotateRevokes, revokeSessionFamily, rotateRefreshToken, ends
<1>3. QED
  BY <1>1, <1>2 DEF Confirming

LEMMA MailQuiet ==
  ASSUME Dispatch \/ \E r \in Rows : cleanupCancelsMail(r) \/ cleanupDeletesMail(r)
  PROVE  UNCHANGED <<account, pending, ticket, challenge, token, open, now>>
BY DEF Dispatch, claimOutbox, renderOutboxEnvelope, finishWithStatus, send, sendRejected,
       scheduleRetry, Finish, crash, cleanupCancelsMail, cleanupDeletesMail

LEMMA CodeStep == ASSUME CodeInv, [Next]_vars  PROVE CodeInv'
<1>1. ASSUME NEW c \in Challenges, NEW p \in Pendings,
             \/ \E e \in Emails, role \in {"CUSTOMER", "DRIVER"} : startRegistration(e, p, role, c)
             \/ confirmReads(p, c) \/ resendRegistrationVerification(p, c)
      PROVE  CodeInv'
  BY <1>1, StartRegistrationStep, ConfirmReadsStep, ResendStep
<1>2. ASSUME NEW t \in open, NEW k \in Tokens, confirmRegistration(t, k)  PROVE CodeInv'
  BY <1>2, ConfirmStep
<1>3. ASSUME NEW c \in Challenges, failVerification(c)  PROVE CodeInv'
  BY <1>3, MistypeStep
<1>4. ASSUME NEW c \in Challenges,
             \/ verifyPasswordRecovery(c) \/ resetPassword(c)
             \/ confirmStore(c) \/ setupInitialPassword(c) \/ confirmAdmin(c)
      PROVE  CodeInv'
  BY <1>4, VerifyStep, ResetStep, ConfirmStoreStep, SetupStep, ConfirmAdminStep
<1>5. ASSUME NEW c \in Challenges, NEW e \in Emails,
             \/ startPasswordRecovery(e, c) \/ provisionStoreWithOwner(e, c)
             \/ resendStoreActivation(e, c) \/ bootstrapAdmin(e, c)
      PROVE  CodeInv'
  BY <1>5, RecoverStep, ProvisionStep, ResendStoreStep, BootstrapStep
<1>6. ASSUME NEW e \in Emails,
             \E s : setStoreSecurityStatus(e, s) \/ setDriverAccountStatus(e, s)
      PROVE  CodeInv'
  BY <1>6, CloseStoreStep, DriverStep
<1>7. CASE SigningIn
  BY <1>7, SignInQuiet, RevokeAllStep, CodesSame DEF SigningIn, CodeInv
<1>8. CASE Dispatch \/ \E r \in Rows : cleanupCancelsMail(r) \/ cleanupDeletesMail(r)
  BY <1>8, MailQuiet, CodesSame DEF CodeInv, Confirming
<1>9. ASSUME NEW c \in Challenges, cleanupDeletesTicket(c) \/ cleanupDeletesChallenge(c)
      PROVE  CodeInv'
  BY <1>9, CleanupStep
<1>10. ASSUME NEW p \in Pendings, cleanupDeletesPending(p)  PROVE CodeInv'
  BY <1>10, CleanupPendingStep
<1>11. CASE TimePasses \/ UNCHANGED vars
  BY <1>11, CodesSame DEF TimePasses, vars, CodeInv, Confirming
<1>12. QED
  BY <1>1, <1>2, <1>3, <1>4, <1>5, <1>6, <1>7, <1>8, <1>9, <1>10, <1>11
     DEF Next, Registering, Administering, Cleanup

LEMMA CodesRight == Spec => []CodeInv
BY CodeInit, CodeStep, PTL DEF Spec

(* Of each flow at most one code counts, and each owner has at most one ticket *)
(* for the first password, however codes and resendings cross.                 *)
THEOREM OneCodeEach == Spec => []OneWayIn
<1>1. ASSUME CodeInv  PROVE OneWayIn
  <2>1. \A b, c \in Challenges :
          Alive(challenge[b]) /\ Alive(challenge[c]) /\ SameFlow(challenge[b], challenge[c]) => b = c
    <3>1. \A b \in Challenges : b \in Int
      BY SizeAssumption DEF Challenges
    <3>2. \A b, c \in Challenges :
            Alive(challenge[b]) /\ Alive(challenge[c]) /\ SameFlow(challenge[b], challenge[c]) =>
              b <= c /\ c <= b
      BY <1>1 DEF CodeInv, LastOne, SameFlow, Alive
    <3>3. QED
      BY <3>1, <3>2
  <2>2. \A b, c \in Challenges :
          OpenSetup(ticket[b]) /\ OpenSetup(ticket[c]) /\ ticket[b].of = ticket[c].of => b = c
    BY <1>1 DEF CodeInv, SetupsRight
  <2>3. QED
    BY <2>1, <2>2 DEF OneWayIn, Live, Alive, SameFlow, Usable, OpenSetup
<1>2. QED
  BY <1>1, CodesRight, PTL

-----------------------------------------------------------------------------
(* Mail.                                                                       *)

MailFields == {"status", "attempts", "created", "nextAt", "lease", "updated"}
Mails(rows) == Table(rows, Rows, MailFields)

Queued(x) == IsRow(x) /\ x.status \in {"PENDING", "PROCESSING"}

Dead(x) == IsRow(x) /\ x.reason \notin {None, "ATTEMPTS_EXHAUSTED"}

(* What a step may make of a row: delete it, queue one that was not there, or  *)
(* change one that is queued.                                                  *)
MailGoes(x, y) ==
  \/ y = x
  \/ y = NoRow
  \/ DOMAIN y = MailFields /\ (Queued(x) \/ ~IsRow(x))

MailMoves(next) ==
  next = [r \in Rows |-> next[r]] /\ \A r \in Rows : MailGoes(mail[r], next[r])

(* No step makes a code dead and leaves its mail in the queue, or puts back    *)
(* the mail of a dead code.                                                    *)
DeadWereDead ==
  \A c \in Challenges : Dead(challenge'[c]) /\ Queued(mail'[Code(c)]) =>
    Dead(challenge[c]) /\ Queued(mail[Code(c)])

MailInv == Mails(mail) /\ DeadCodesAreNotQueued

LEMMA CodeIsRow == ASSUME NEW c \in Challenges  PROVE Code(c) \in Rows
BY DEF Rows

LEMMA OneCode == ASSUME NEW b, NEW c, Code(b) = Code(c)  PROVE b = c
BY DEF Code

LEMMA EnqueuedIs ==
  ASSUME NEW rows, Mails(rows), NEW q, NEW next, next = Enqueued(rows, q)
  PROVE  /\ next = [r \in Rows |-> next[r]]
         /\ \A r \in Rows : MailGoes(rows[r], next[r])
         /\ \A r \in Rows : r # q => next[r] = rows[r]
<1> DEFINE new == [status |-> "PENDING", attempts |-> 0, created |-> now,
                   nextAt |-> now, lease |-> None, updated |-> now]
<1>1. DOMAIN new = MailFields
  BY DEF MailFields
<1>2. next = IF IsRow(rows[q]) THEN rows ELSE [rows EXCEPT ![q] = new]
  BY DEF Enqueued
<1> HIDE DEF new
<1>3. QED
  BY <1>1, <1>2 DEF Mails, Table, MailGoes

LEMMA CancelledIs ==
  ASSUME NEW rows, Mails(rows), NEW S, NEW next, next = Cancelled(rows, S)
  PROVE  /\ next = [r \in Rows |-> next[r]]
         /\ \A r \in Rows : next[r] = rows[r] \/ (DOMAIN next[r] = MailFields /\ Queued(rows[r]))
         /\ \A r \in Rows : r \notin S => next[r] = rows[r]
         /\ \A r \in Rows : Queued(next[r]) => Queued(rows[r]) /\ r \notin S
<1>1. /\ next = [r \in Rows |-> next[r]]
      /\ \A r \in Rows :
           next[r] = IF r \in S /\ Queued(rows[r])
                       THEN [rows[r] EXCEPT !.status = "CANCELLED", !.lease = None, !.updated = now]
                       ELSE rows[r]
  BY DEF Cancelled, Queued
<1>2. ASSUME NEW r \in Rows, r \in S, Queued(rows[r])
      PROVE  DOMAIN next[r] = MailFields /\ next[r].status = "CANCELLED"
  <2>1. DOMAIN rows[r] = MailFields
    BY <1>2 DEF Mails, Table, Queued
  <2>2. QED
    BY <1>1, <1>2, <2>1 DEF MailFields
<1>3. \A r \in Rows : r \in S => ~Queued(next[r])
  <2> SUFFICES ASSUME NEW r \in Rows, r \in S  PROVE ~Queued(next[r])
    OBVIOUS
  <2>1. CASE Queued(rows[r])
    BY <1>2, <2>1 DEF Queued
  <2>2. CASE ~Queued(rows[r])
    BY <1>1, <2>2
  <2>3. QED
    BY <2>1, <2>2
<1>4. ASSUME NEW r \in Rows
      PROVE  /\ next[r] = rows[r] \/ (DOMAIN next[r] = MailFields /\ Queued(rows[r]))
             /\ r \notin S => next[r] = rows[r]
             /\ Queued(next[r]) => Queued(rows[r]) /\ r \notin S
  BY <1>1, <1>2, <1>3
<1>5. next = [r \in Rows |-> next[r]]
  BY <1>1
<1>6. QED
  BY <1>4, <1>5

LEMMA MailShapes ==
  ASSUME NEW rows, NEW next, Mails(rows), next = [r \in Rows |-> next[r]],
         \A r \in Rows : MailGoes(rows[r], next[r])
  PROVE  Mails(next)
BY NoRows DEF Mails, Table, MailGoes

(* Mail that changes once is right, and so is mail that changes twice.         *)
LEMMA BothGo ==
  ASSUME NEW rows, Mails(rows), NEW S, NEW q, NEW next, next = Enqueued(Cancelled(rows, S), q)
  PROVE  /\ next = [r \in Rows |-> next[r]]
         /\ \A r \in Rows : MailGoes(rows[r], next[r])
         /\ \A r \in Rows : r # q => (Queued(next[r]) => Queued(rows[r]) /\ r \notin S)
<1> DEFINE mid == Cancelled(rows, S)
<1>1. /\ mid = [r \in Rows |-> mid[r]]
      /\ \A r \in Rows : mid[r] = rows[r] \/ (DOMAIN mid[r] = MailFields /\ Queued(rows[r]))
      /\ \A r \in Rows : Queued(mid[r]) => Queued(rows[r]) /\ r \notin S
      /\ \A r \in Rows : r \notin S => mid[r] = rows[r]
  BY CancelledIs
<1>2. next = Enqueued(mid, q)
  OBVIOUS
<1> HIDE DEF mid
<1>3. Mails(mid)
  BY <1>1, MailShapes DEF MailGoes
<1>4. /\ next = [r \in Rows |-> next[r]]
      /\ \A r \in Rows : MailGoes(mid[r], next[r])
      /\ \A r \in Rows : r # q => next[r] = mid[r]
  BY <1>2, <1>3, EnqueuedIs
<1>5. \A r \in Rows : MailGoes(rows[r], next[r])
  BY <1>1, <1>4 DEF MailGoes, Queued
<1>6. QED
  BY <1>1, <1>4, <1>5

LEMMA MailMoved ==
  ASSUME MailInv, MailMoves(mail'), DeadWereDead
  PROVE  MailInv'
<1>1. Mails(mail')
  BY NoRows DEF MailInv, MailMoves, MailGoes, Mails, Table
<1>2. DeadCodesAreNotQueued'
  BY CodeIsRow DEF MailInv, DeadCodesAreNotQueued, DeadWereDead, Dead, Queued
<1>3. QED
  BY <1>1, <1>2 DEF MailInv

LEMMA MailSame ==
  ASSUME Mails(mail), mail' = mail  PROVE MailMoves(mail')
BY DEF Mails, Table, MailMoves, MailGoes

(* Codes are used, mistyped or deleted, and no mail is touched.                *)
LEMMA QuietStep ==
  ASSUME MailInv, mail' = mail,
         \A c \in Challenges : Dead(challenge'[c]) => Dead(challenge[c])
  PROVE  MailMoves(mail') /\ DeadWereDead
BY MailSame DEF MailInv, DeadWereDead

(* Mail is touched, and no code.                                               *)
LEMMA MailOnlyStep ==
  ASSUME MailInv, challenge' = challenge, MailMoves(mail'),
         \A c \in Challenges : Queued(mail'[Code(c)]) => Queued(mail[Code(c)])
  PROVE  DeadWereDead
BY DEF MailInv, DeadWereDead

(* A code is sent, those in S are replaced and the mail in T is cancelled.     *)
Sends(next, T, c) == next = Enqueued(Cancelled(mail, T), Code(c))

LEMMA NoneCancelled ==
  ASSUME Mails(mail)  PROVE Cancelled(mail, {}) = mail
BY DEF Mails, Table, Cancelled

SentRight(next, T, c) ==
  /\ MailMoves(next)
  /\ \A r \in Rows : r # Code(c) => (Queued(next[r]) => Queued(mail[r]) /\ r \notin T)

LEMMA Sent ==
  ASSUME Mails(mail), NEW T, NEW c, NEW next, Sends(next, T, c)
  PROVE  SentRight(next, T, c)
BY BothGo DEF Sends, SentRight, MailMoves

LEMMA SendStep ==
  ASSUME CodeInv, MailInv, NEW c \in Challenges, Fresh(c), NEW S \in SUBSET Challenges,
         \A b \in S : IsRow(challenge[b]), NEW purpose, NEW of, NEW limit,
         Inserts(challenge', c, S, purpose, of, limit),
         NEW T, \A b \in S : Code(b) \in T, Sends(mail', T, c)
  PROVE  MailMoves(mail') /\ DeadWereDead
<1>1. InsertedRight(challenge', c, S, purpose, of, limit)
  BY Inserted
<1>2. SentRight(mail', T, c)
  BY Sent DEF MailInv
<1>3. ASSUME NEW b \in Challenges, Dead(challenge'[b]), Queued(mail'[Code(b)])
      PROVE  Dead(challenge[b]) /\ Queued(mail[Code(b)])
  <2>1. b # c
    BY <1>1, <1>3 DEF InsertedRight, Dead
  <2>2. Code(b) # Code(c)
    BY <2>1, OneCode
  <2>3. Queued(mail[Code(b)]) /\ Code(b) \notin T
    BY <1>2, <1>3, <2>2, CodeIsRow DEF SentRight
  <2>4. challenge'[b] = challenge[b]
    BY <1>1, <2>1, <2>3 DEF InsertedRight
  <2>5. QED
    BY <1>3, <2>3, <2>4
<1>4. QED
  BY <1>2, <1>3 DEF SentRight, DeadWereDead

LEMMA SendOne ==
  ASSUME CodeInv, MailInv, NEW c \in Challenges, NEW purpose, NEW of, NEW limit,
         createChallenge(c, purpose, of, limit)
  PROVE  MailMoves(mail') /\ DeadWereDead
<1>1. Fresh(c) /\ Inserts(challenge', c, {}, purpose, of, limit)
  BY NoneReplaced DEF createChallenge, Inserts
<1>2. Sends(mail', {}, c)
  BY NoneCancelled DEF createChallenge, Sends, MailInv
<1>3. QED
  BY <1>1, <1>2, SendStep

LEMMA SendAnother ==
  ASSUME CodeInv, MailInv, NEW c \in Challenges, NEW old \in Challenges, NEW limit,
         replaceChallenge(c, old, limit)
  PROVE  MailMoves(mail') /\ DeadWereDead
<1>1. /\ Fresh(c) /\ IsRow(challenge[old]) /\ Sends(mail', {Code(old)}, c)
      /\ Inserts(challenge', c, {old}, challenge[old].purpose, challenge[old].of, limit)
  BY DEF replaceChallenge, Inserts, Sends, replacementAllowed
<1>2. {old} \in SUBSET Challenges /\ \A b \in {old} : IsRow(challenge[b]) /\ Code(b) \in {Code(old)}
  BY <1>1
<1>3. QED
  BY <1>1, <1>2, SendStep

(* The notice that comes without a code.                                       *)
LEMMA NoticeStep ==
  ASSUME MailInv, challenge' = challenge, NEW q, \A c \in Challenges : q # Code(c),
         mail' = Enqueued(mail, q)
  PROVE  MailMoves(mail') /\ DeadWereDead
<1>1. /\ MailMoves(mail')
      /\ \A r \in Rows : r # q => mail'[r] = mail[r]
  BY EnqueuedIs DEF MailInv, MailMoves
<1>2. \A c \in Challenges : Queued(mail'[Code(c)]) => Queued(mail[Code(c)])
  BY <1>1, CodeIsRow
<1>3. QED
  BY <1>1, <1>2, MailOnlyStep

LEMMA NoticesAreNotCodes ==
  ASSUME NEW c, NEW x  PROVE Changed(x) # Code(c) /\ \A day : Exists(x, day) # Code(c)
<1>1. Changed(x)[1] = "PASSWORD_CHANGED" /\ Code(c)[1] = "CODE"
  BY DEF Changed, Code
<1>2. \A day : Exists(x, day)[1] = "ACCOUNT_EXISTS"
  BY DEF Exists
<1>3. QED
  BY <1>1, <1>2

(* One row is written, of one that was queued.                                 *)
LEMMA WriteStep ==
  ASSUME MailInv, challenge' = challenge, NEW q \in Rows, Queued(mail[q]), NEW row,
         DOMAIN row = MailFields, mail' = [mail EXCEPT ![q] = row]
  PROVE  MailMoves(mail') /\ DeadWereDead
<1>1. /\ mail' = [r \in Rows |-> mail'[r]]
      /\ \A r \in Rows : mail'[r] = IF r = q THEN row ELSE mail[r]
  BY DEF MailInv, Mails, Table
<1>2. MailMoves(mail')
  BY <1>1 DEF MailMoves, MailGoes
<1>3. \A c \in Challenges : Queued(mail'[Code(c)]) => Queued(mail[Code(c)])
  BY <1>1, CodeIsRow
<1>4. QED
  BY <1>2, <1>3, MailOnlyStep

LEMMA QueuedColumns ==
  ASSUME MailInv, NEW q \in Rows, Queued(mail[q])  PROVE DOMAIN mail[q] = MailFields
BY DEF MailInv, Mails, Table, Queued

LEMMA FinishStep ==
  ASSUME MailInv, NEW w, NEW status, NEW attempts, NEW nextAt, Finish(w, status, attempts, nextAt)
  PROVE  MailMoves(mail') /\ DeadWereDead
<1> DEFINE q == worker[w].row
           row == [mail[q] EXCEPT !.status = status, !.attempts = attempts, !.nextAt = nextAt,
                                  !.lease = None, !.updated = worker[w].at]
<1>1. challenge' = challenge /\ (mail' = mail \/ (ownsLease(w) /\ mail' = [mail EXCEPT ![q] = row]))
  BY DEF Finish
<1>2. CASE mail' = mail
  BY <1>1, <1>2, QuietStep
<1>3. CASE ownsLease(w) /\ mail' = [mail EXCEPT ![q] = row] /\ q \in Rows
  <2>1. Queued(mail[q])
    BY <1>3 DEF ownsLease, Queued
  <2>2. DOMAIN row = MailFields
    BY <1>3, <2>1, QueuedColumns DEF MailFields
  <2> HIDE DEF q, row
  <2>3. QED
    BY <1>1, <1>3, <2>1, <2>2, WriteStep
<1>4. CASE mail' = [mail EXCEPT ![q] = row] /\ q \notin Rows
  <2>1. mail' = mail
    BY <1>4 DEF MailInv, Mails, Table
  <2>2. QED
    BY <1>2, <2>1
<1>5. QED
  BY <1>1, <1>2, <1>3, <1>4

LEMMA ClaimStep ==
  ASSUME MailInv, NEW w, NEW r \in Rows, claimOutbox(w, r)
  PROVE  MailMoves(mail') /\ DeadWereDead
<1>1. PICK at : /\ Due(r, at) /\ challenge' = challenge
                /\ mail' = [mail EXCEPT ![r] = [mail[r] EXCEPT !.status = "PROCESSING",
                                                !.lease = at + LEASE, !.updated = at]]
  BY DEF claimOutbox
<1> DEFINE row == [mail[r] EXCEPT !.status = "PROCESSING", !.lease = at + LEASE, !.updated = at]
<1>2. Queued(mail[r])
  BY <1>1 DEF Due, Queued
<1>3. DOMAIN row = MailFields
  BY <1>2, QueuedColumns DEF MailFields
<1>4. mail' = [mail EXCEPT ![r] = row]
  BY <1>1
<1> HIDE DEF row
<1>5. QED
  BY <1>1, <1>2, <1>3, <1>4, WriteStep

LEMMA DispatchStep ==
  ASSUME MailInv, Dispatch  PROVE MailMoves(mail') /\ DeadWereDead
<1>1. PICK w \in Workers :
        \/ \E r \in Rows : claimOutbox(w, r)
        \/ renderOutboxEnvelope(w) \/ finishWithStatus(w)
        \/ send(w) \/ sendRejected(w) \/ scheduleRetry(w) \/ crash(w)
  BY DEF Dispatch
<1>2. CASE \E r \in Rows : claimOutbox(w, r)
  BY <1>2, ClaimStep
<1>3. CASE renderOutboxEnvelope(w) \/ crash(w)
  BY <1>3, QuietStep DEF renderOutboxEnvelope, crash
<1>4. CASE finishWithStatus(w) \/ send(w) \/ sendRejected(w) \/ scheduleRetry(w)
  BY <1>4, FinishStep DEF finishWithStatus, send, sendRejected, scheduleRetry
<1>5. QED
  BY <1>1, <1>2, <1>3, <1>4

LEMMA CleanMailStep ==
  ASSUME MailInv, NEW r \in Rows, cleanupCancelsMail(r) \/ cleanupDeletesMail(r)
  PROVE  MailMoves(mail') /\ DeadWereDead
<1>1. CASE cleanupCancelsMail(r)
  <2>1. PICK T : mail' = Cancelled(mail, T) /\ challenge' = challenge
    BY <1>1 DEF cleanupCancelsMail
  <2>2. MailMoves(mail') /\ \A q \in Rows : Queued(mail'[q]) => Queued(mail[q])
    BY <2>1, CancelledIs DEF MailInv, MailMoves, MailGoes
  <2>3. QED
    BY <2>1, <2>2, MailOnlyStep, CodeIsRow
<1>2. CASE cleanupDeletesMail(r)
  <2>1. mail' = [mail EXCEPT ![r] = NoRow] /\ challenge' = challenge
    BY <1>2 DEF cleanupDeletesMail
  <2>2. /\ mail' = [q \in Rows |-> mail'[q]]
        /\ \A q \in Rows : mail'[q] = NoRow \/ mail'[q] = mail[q]
    BY <2>1 DEF MailInv, Mails, Table
  <2>3. QED
    BY <2>1, <2>2, MailOnlyStep, CodeIsRow, NoRows DEF MailMoves, MailGoes, Queued
<1>3. QED
  BY <1>1, <1>2

(* The actions, on mail.                                                       *)
LEMMA UsedIsNotDead ==
  ASSUME CodeInv, MailInv, mail' = mail, NEW c \in Challenges, IsRow(challenge[c]),
         NEW at \in Instants, Uses(challenge', c, at)
  PROVE  MailMoves(mail') /\ DeadWereDead
<1>1. UsedRight(challenge', c)
  BY ConsumedFades
<1>2. \A b \in Challenges : Dead(challenge'[b]) => Dead(challenge[b])
  BY <1>1 DEF UsedRight, Dead
<1>3. QED
  BY <1>2, QuietStep

LEMMA MailRegistering ==
  ASSUME CodeInv, MailInv, Registering  PROVE MailMoves(mail') /\ DeadWereDead
<1>1. ASSUME NEW c \in Challenges, NEW p \in Pendings, NEW e, NEW role,
             startRegistration(e, p, role, c)
      PROVE  MailMoves(mail') /\ DeadWereDead
  <2>1. CASE IsRow(account[e])
    <3>1. mail' = Enqueued(mail, Exists(e, now \div DAY)) /\ challenge' = challenge
      BY <1>1, <2>1 DEF startRegistration
    <3>2. QED
      BY <3>1, NoticesAreNotCodes, NoticeStep
  <2>2. CASE ~IsRow(account[e])
    BY <1>1, <2>2, SendOne DEF startRegistration
  <2>3. QED
    BY <2>1, <2>2
<1>2. ASSUME NEW c \in Challenges, NEW p \in Pendings, confirmReads(p, c)
      PROVE  MailMoves(mail') /\ DeadWereDead
  BY <1>2, QuietStep DEF confirmReads
<1>3. ASSUME NEW c \in Challenges, NEW p \in Pendings, resendRegistrationVerification(p, c)
      PROVE  MailMoves(mail') /\ DeadWereDead
  <2>1. PICK old \in currentRegistrationChallenge(p) : replaceChallenge(c, old, pending[p].expiresAt)
    BY <1>3 DEF resendRegistrationVerification
  <2>2. old \in Challenges
    BY DEF currentRegistrationChallenge, Newest, ChallengesOf
  <2>3. QED
    BY <2>1, <2>2, SendAnother
<1>4. ASSUME NEW t \in open, NEW k \in Tokens, confirmRegistration(t, k)
      PROVE  MailMoves(mail') /\ DeadWereDead
  <2>1. t \in Confirming /\ Uses(challenge', t.challenge, t.at) /\ mail' = mail
    BY <1>4 DEF confirmRegistration, ends, Confirming, Uses
  <2>2. t.challenge \in Challenges /\ t.at \in Instants /\ IsRow(challenge[t.challenge])
    BY <2>1 DEF CodeInv, ConfirmsRight, ConfirmRight, ForRegistration
  <2>3. QED
    BY <2>1, <2>2, UsedIsNotDead
<1>5. ASSUME NEW c \in Challenges, failVerification(c)  PROVE MailMoves(mail') /\ DeadWereDead
  <2> DEFINE last == challenge[c].attempts + 1 >= MAX_ATTEMPTS
             row == [challenge[c] EXCEPT
                       !.attempts = challenge[c].attempts + 1,
                       !.invalidatedAt = IF last THEN now ELSE challenge[c].invalidatedAt,
                       !.reason = IF last THEN "ATTEMPTS_EXHAUSTED" ELSE challenge[c].reason]
  <2>1. /\ challenge' = [challenge EXCEPT ![c] = row] /\ mail' = mail /\ Alive(challenge[c])
    BY <1>5 DEF failVerification, activeAt, Live, Alive
  <2>2. DOMAIN challenge[c] = ChallengeFields /\ challenge = [b \in Challenges |-> challenge[b]]
    BY <2>1 DEF CodeInv, Codes, Table, Alive
  <2>3. row.reason \in {None, "ATTEMPTS_EXHAUSTED"}
    BY <2>1, <2>2 DEF ChallengeFields, Alive
  <2> HIDE DEF row
  <2>4. \A b \in Challenges : Dead(challenge'[b]) => Dead(challenge[b])
    BY <2>1, <2>2, <2>3 DEF Dead
  <2>5. QED
    BY <2>1, <2>4, QuietStep
<1>6. QED
  BY <1>1, <1>2, <1>3, <1>4, <1>5 DEF Registering

LEMMA MailOfCodes ==
  ASSUME CodeInv, MailInv, NEW c \in Challenges,
         \/ verifyPasswordRecovery(c) \/ resetPassword(c)
         \/ confirmStore(c) \/ setupInitialPassword(c) \/ confirmAdmin(c)
  PROVE  MailMoves(mail') /\ DeadWereDead
<1>1. CASE verifyPasswordRecovery(c) \/ confirmStore(c) \/ confirmAdmin(c)
  <2>1. IsRow(challenge[c]) /\ mail' = mail /\ Uses(challenge', c, now) /\ now \in Instants
    BY <1>1 DEF verifyPasswordRecovery, confirmStore, confirmAdmin, Consumed, Uses, CodeInv
  <2>2. QED
    BY <2>1, UsedIsNotDead
<1>2. CASE resetPassword(c)
  BY <1>2, NoticesAreNotCodes, NoticeStep DEF resetPassword
<1>3. CASE setupInitialPassword(c)
  BY <1>3, QuietStep DEF setupInitialPassword
<1>4. QED
  BY <1>1, <1>2, <1>3

LEMMA MailOfRecovery ==
  ASSUME CodeInv, MailInv, NEW e, NEW c \in Challenges, startPasswordRecovery(e, c)
  PROVE  MailMoves(mail') /\ DeadWereDead
<1> DEFINE S == LiveRecoveries(e)
           T == {Code(old) : old \in S}
<1>1. /\ Fresh(c) /\ Inserts(challenge', c, S, "PASSWORD_RECOVERY", e, now + CHALLENGE_TTL)
      /\ Sends(mail', T, c)
  BY DEF startPasswordRecovery, Inserts, Sends
<1>2. /\ S \in SUBSET Challenges /\ \A b \in S : IsRow(challenge[b])
      /\ \A b \in S : Code(b) \in T
  BY DEF LiveRecoveries, ChallengesOf
<1> HIDE DEF S, T
<1>3. QED
  BY <1>1, <1>2, SendStep

LEMMA MailOfResending ==
  ASSUME CodeInv, MailInv, NEW e, NEW c \in Challenges, resendStoreActivation(e, c)
  PROVE  MailMoves(mail') /\ DeadWereDead
<1>1. PICK old \in Newest(ChallengesOf("STORE_ACTIVATION", e)) :
        IF challenge[old].consumedAt = None
          THEN replaceChallenge(c, old, now + CHALLENGE_TTL)
          ELSE /\ Fresh(c)
               /\ challenge' = insertChallenge(challenge, c, "STORE_ACTIVATION", e,
                                               now + CHALLENGE_TTL)
               /\ Sends(mail', {Code(old)}, c)
  BY DEF resendStoreActivation, Sends
<1>2. old \in Challenges
  BY DEF Newest, ChallengesOf
<1>3. CASE challenge[old].consumedAt = None
  BY <1>1, <1>2, <1>3, SendAnother
<1>4. CASE challenge[old].consumedAt # None
  <2>1. Fresh(c) /\ Inserts(challenge', c, {}, "STORE_ACTIVATION", e, now + CHALLENGE_TTL)
    BY <1>1, <1>4, NoneReplaced DEF Inserts
  <2>2. QED
    BY <1>1, <1>4, <2>1, SendStep
<1>5. QED
  BY <1>3, <1>4

LEMMA MailOfBootstrap ==
  ASSUME CodeInv, MailInv, NEW e, NEW c \in Challenges, bootstrapAdmin(e, c)
  PROVE  MailMoves(mail') /\ DeadWereDead
<1>1. CASE createChallenge(c, "ADMIN_ACTIVATION", e, now + CHALLENGE_TTL)
  BY <1>1, SendOne
<1>2. ASSUME NEW old \in Newest(ChallengesOf("ADMIN_ACTIVATION", e)),
             replaceChallenge(c, old, now + CHALLENGE_TTL)
      PROVE  MailMoves(mail') /\ DeadWereDead
  <2>1. old \in Challenges
    BY DEF Newest, ChallengesOf
  <2>2. QED
    BY <1>2, <2>1, SendAnother
<1>3. QED
  BY <1>1, <1>2 DEF bootstrapAdmin

LEMMA MailOfClosing ==
  ASSUME CodeInv, MailInv, NEW e, NEW status, setStoreSecurityStatus(e, status)
  PROVE  MailMoves(mail') /\ DeadWereDead
<1> DEFINE S == {b \in ChallengesOf("STORE_ACTIVATION", e) : challenge[b].consumedAt = None}
           T == {Code(b) : b \in S}
<1>1. \/ challenge' = challenge /\ mail' = mail
      \/ challenge' = Invalidated(challenge, S, "STORE_CLOSED") /\ mail' = Cancelled(mail, T)
  BY DEF setStoreSecurityStatus
<1>2. \A b \in S : Code(b) \in T
  OBVIOUS
<1> HIDE DEF S, T
<1>3. CASE challenge' = challenge /\ mail' = mail
  BY <1>3, QuietStep
<1>4. CASE challenge' = Invalidated(challenge, S, "STORE_CLOSED") /\ mail' = Cancelled(mail, T)
  <2>1. \A b \in Challenges \ S : challenge'[b] = challenge[b]
    BY <1>4 DEF Invalidated
  <2>2. /\ MailMoves(mail')
        /\ \A r \in Rows : Queued(mail'[r]) => Queued(mail[r]) /\ r \notin T
    BY <1>4, CancelledIs DEF MailInv, MailMoves, MailGoes
  <2>3. QED
    BY <1>2, <2>1, <2>2, CodeIsRow DEF DeadWereDead
<1>5. QED
  BY <1>1, <1>3, <1>4

LEMMA MailAdministering ==
  ASSUME CodeInv, MailInv, Administering  PROVE MailMoves(mail') /\ DeadWereDead
<1>1. ASSUME NEW c \in Challenges, NEW e \in Emails,
             \/ startPasswordRecovery(e, c) \/ provisionStoreWithOwner(e, c)
             \/ resendStoreActivation(e, c) \/ bootstrapAdmin(e, c)
      PROVE  MailMoves(mail') /\ DeadWereDead
  BY <1>1, MailOfRecovery, MailOfResending, MailOfBootstrap, SendOne DEF provisionStoreWithOwner
<1>2. ASSUME NEW e \in Emails,
             \E s : setStoreSecurityStatus(e, s) \/ setDriverAccountStatus(e, s)
      PROVE  MailMoves(mail') /\ DeadWereDead
  BY <1>2, MailOfClosing, QuietStep DEF setDriverAccountStatus
<1>3. QED
  BY <1>1, <1>2, MailOfCodes DEF Administering

LEMMA MailCleanup ==
  ASSUME CodeInv, MailInv, Cleanup  PROVE MailMoves(mail') /\ DeadWereDead
<1>1. ASSUME NEW S \in SUBSET Challenges, \A c \in S : IsRow(challenge[c]), Without(S), mail' = mail
      PROVE  MailMoves(mail') /\ DeadWereDead
  <2>1. \A b \in Challenges : Dead(challenge'[b]) => Dead(challenge[b])
    BY <1>1, WithoutFades, NoRows DEF Dead
  <2>2. QED
    BY <1>1, <2>1, QuietStep
<1>2. ASSUME NEW c \in Challenges, cleanupDeletesTicket(c) \/ cleanupDeletesChallenge(c)
      PROVE  MailMoves(mail') /\ DeadWereDead
  BY <1>1, <1>2, QuietStep DEF cleanupDeletesTicket, cleanupDeletesChallenge
<1>3. ASSUME NEW p \in Pendings, cleanupDeletesPending(p)  PROVE MailMoves(mail') /\ DeadWereDead
  <2>1. /\ ChallengesOf("REGISTRATION_VERIFY", p) \in SUBSET Challenges
        /\ \A c \in ChallengesOf("REGISTRATION_VERIFY", p) : IsRow(challenge[c])
    BY DEF ChallengesOf
  <2>2. QED
    BY <1>1, <1>3, <2>1 DEF cleanupDeletesPending
<1>4. QED
  BY <1>2, <1>3, CleanMailStep DEF Cleanup

LEMMA MailStep ==
  ASSUME CodeInv, MailInv, [Next]_vars  PROVE MailMoves(mail') /\ DeadWereDead
<1>1. CASE SigningIn
  BY <1>1, SignInQuiet, QuietStep DEF SigningIn, revokeAllSessions
<1>2. CASE TimePasses \/ UNCHANGED vars
  BY <1>2, QuietStep DEF TimePasses, vars
<1>3. QED
  BY <1>1, <1>2, MailRegistering, MailAdministering, DispatchStep, MailCleanup DEF Next

LEMMA MailInit == Init => MailInv
BY NoRows DEF Init, MailInv, Mails, Table, DeadCodesAreNotQueued

LEMMA MailRight == Spec => [](CodeInv /\ MailInv)
<1>1. CodeInv /\ MailInv /\ [Next]_vars => (CodeInv /\ MailInv)'
  BY CodeStep, MailStep, MailMoved
<1>2. QED
  BY <1>1, CodeInit, MailInit, PTL DEF Spec

(* The mail of a code that was replaced, or whose store was closed, is out of  *)
(* the queue and no worker puts it back.                                       *)
THEOREM NoDeadMail == Spec => []DeadCodesAreNotQueued
BY MailRight, PTL DEF MailInv

(* What a dispatch has decided stays decided, whoever held the lease.          *)
THEOREM MailIsFinal == Spec => FinalMailStays
<1>1. CodeInv /\ MailInv /\ [Next]_vars =>
        [\A r \in Rows : IsRow(mail[r]) /\ mail[r].status \in FinalMail
           => mail'[r] = NoRow \/ mail'[r].status = mail[r].status]_vars
  BY MailStep DEF MailMoves, MailGoes, Queued, FinalMail
<1>2. QED
  BY <1>1, MailRight, PTL DEF Spec, FinalMailStays

-----------------------------------------------------------------------------
(* Sessions.                                                                   *)

TokenFields == {"of", "family", "expiresAt", "used", "revoked", "version"}

Unused(x) == IsRow(x) /\ ~x.used

Rotating == {t \in open : t.op = "rotate"}

(* Of a family one token at most was not exchanged yet, revoked or not, and    *)
(* whoever is about to exchange it is alone.                                   *)
TokenInv ==
  /\ Table(token, Tokens, TokenFields)
  /\ \A k \in Tokens : token[k] # NoRow => \A j \in 1..(k - 1) : token[j] # NoRow
  /\ \A k \in Tokens : IsRow(token[k]) => token[k].family \in 1..k
  /\ \A j, k \in Tokens :
       Unused(token[j]) /\ Unused(token[k]) /\ token[j].family = token[k].family => j = k
  /\ \A t \in Rotating : t.token \in Tokens /\ Unused(token[t.token])
  /\ \A t, u \in Rotating : t.token = u.token => t = u

LEMMA TokenInit == Init => TokenInv
BY NoRows DEF Init, TokenInv, Table, Unused, Rotating

(* What a revocation may make of a token.                                      *)
TokenFades(x, y) ==
  \/ y = x
  \/ /\ IsRow(x) /\ IsRow(y) /\ DOMAIN y = TokenFields /\ y.family = x.family
     /\ Unused(y) <=> Unused(x)

TokensFading(next) ==
  next = [k \in Tokens |-> next[k]] /\ \A k \in Tokens : TokenFades(token[k], next[k])

LEMMA TokensFade ==
  ASSUME TokenInv, TokensFading(token'), Rotating' \subseteq Rotating
  PROVE  TokenInv'
<1>1. \A k \in Tokens :
        /\ token'[k] = NoRow <=> token[k] = NoRow
        /\ IsRow(token'[k]) <=> IsRow(token[k])
        /\ IsRow(token[k]) => token'[k].family = token[k].family
        /\ Unused(token'[k]) <=> Unused(token[k])
        /\ DOMAIN token'[k] = DOMAIN token[k] \/ DOMAIN token'[k] = TokenFields
  BY NoRows DEF TokensFading, TokenFades
<1>2. Table(token', Tokens, TokenFields)
  BY <1>1, NoRows DEF TokenInv, Table, TokensFading
<1>3. \A k \in Tokens : token'[k] # NoRow => \A j \in 1..(k - 1) : token'[j] # NoRow
  BY <1>1, SizeAssumption DEF TokenInv, Tokens
<1>4. \A j, k \in Tokens :
        Unused(token'[j]) /\ Unused(token'[k]) /\ token'[j].family = token'[k].family => j = k
  BY <1>1 DEF TokenInv, Unused
<1>5. QED
  BY <1>1, <1>2, <1>3, <1>4 DEF TokenInv

LEMMA Revoked ==
  ASSUME TokenInv, NEW S \in SUBSET Tokens, \A k \in S : IsRow(token[k]), NEW next,
         next = [k \in Tokens |-> IF k \in S THEN [token[k] EXCEPT !.revoked = TRUE] ELSE token[k]]
  PROVE  TokensFading(next)
<1> DEFINE dead(k) == [token[k] EXCEPT !.revoked = TRUE]
<1>1. ASSUME NEW k \in S
      PROVE  DOMAIN dead(k) = TokenFields /\ dead(k).family = token[k].family
             /\ dead(k).used = token[k].used
  <2>1. DOMAIN token[k] = TokenFields
    BY DEF TokenInv, Table
  <2>2. QED
    BY <2>1 DEF TokenFields
<1>2. /\ next = [k \in Tokens |-> next[k]]
      /\ \A k \in Tokens : next[k] = IF k \in S THEN dead(k) ELSE token[k]
  OBVIOUS
<1> HIDE DEF dead
<1>3. \A k \in S : IsRow(dead(k))
  BY <1>1, HasColumns DEF TokenFields
<1>4. QED
  BY <1>1, <1>2, <1>3 DEF TokensFading, TokenFades, Unused

LEMMA Revocations ==
  ASSUME TokenInv
  PROVE  /\ \A e : TokensFading(RevokedOf(e))
         /\ \A k : TokensFading(RevokedFamily(k))
         /\ TokensFading(token)
<1>1. ASSUME NEW e  PROVE TokensFading(RevokedOf(e))
  <2> DEFINE S == {k \in Tokens : IsRow(token[k]) /\ token[k].of = e}
  <2>1. RevokedOf(e) =
          [k \in Tokens |-> IF k \in S THEN [token[k] EXCEPT !.revoked = TRUE] ELSE token[k]]
    BY DEF RevokedOf
  <2>2. S \in SUBSET Tokens /\ \A k \in S : IsRow(token[k])
    OBVIOUS
  <2> HIDE DEF S
  <2>3. QED
    BY <2>1, <2>2, Revoked
<1>2. ASSUME NEW x  PROVE TokensFading(RevokedFamily(x))
  <2> DEFINE S == FamilyOf(x)
  <2>1. RevokedFamily(x) =
          [k \in Tokens |-> IF k \in S THEN [token[k] EXCEPT !.revoked = TRUE] ELSE token[k]]
    BY DEF RevokedFamily
  <2>2. S \in SUBSET Tokens /\ \A k \in S : IsRow(token[k])
    BY DEF FamilyOf
  <2> HIDE DEF S
  <2>3. QED
    BY <2>1, <2>2, Revoked
<1>3. TokensFading(token)
  BY DEF TokensFading, TokenFades, TokenInv, Table
<1>4. QED
  BY <1>1, <1>2, <1>3

TokenComes(next, k, family) ==
  /\ next = [j \in Tokens |-> next[j]]
  /\ DOMAIN next[k] = TokenFields /\ Unused(next[k]) /\ next[k].family = family

LEMMA TokenInserted ==
  ASSUME TokenInv, NEW k \in Tokens, NEW e, NEW family, NEW version, NEW next,
         next = insertToken(k, e, family, version)
  PROVE  TokenComes(next, k, family) /\ \A j \in Tokens \ {k} : next[j] = token[j]
<1> DEFINE row == [of |-> e, family |-> family, expiresAt |-> now + REFRESH_TTL,
                   used |-> FALSE, revoked |-> FALSE, version |-> version]
<1>1. DOMAIN row = TokenFields /\ row.family = family /\ row.used = FALSE
  BY DEF TokenFields
<1>2. next = [token EXCEPT ![k] = row] /\ token = [j \in Tokens |-> token[j]]
  BY DEF insertToken, TokenInv, Table
<1> HIDE DEF row
<1>3. IsRow(row)
  BY <1>1, HasColumns DEF TokenFields
<1>4. QED
  BY <1>1, <1>2, <1>3 DEF TokenComes, Unused

LEMMA Earlier ==
  ASSUME TokenInv, NEW k \in Tokens, FreshToken(k)
  PROVE  /\ \A j \in Tokens : j < k => token[j] # NoRow
         /\ \A j \in Tokens : token[j] # NoRow => j < k
         /\ token[k] = NoRow
BY SizeAssumption DEF TokenInv, FreshToken, Tokens

(* A family begins.                                                            *)
LEMMA FamilyBegins ==
  ASSUME TokenInv, NEW k \in Tokens, FreshToken(k), NEW e, NEW version,
         token' = insertToken(k, e, k, version), Rotating' \subseteq Rotating
  PROVE  TokenInv'
<1>1. TokenComes(token', k, k) /\ \A j \in Tokens \ {k} : token'[j] = token[j]
  BY TokenInserted
<1> USE DEF TokenInv
<1>2. IsRow(token'[k]) /\ Unused(token'[k]) /\ DOMAIN token'[k] = TokenFields
      /\ token'[k].family = k
  BY <1>1 DEF TokenComes, Unused
<1>3. Table(token', Tokens, TokenFields)
  BY <1>1, <1>2 DEF Table, TokenComes
<1>4. \A j \in Tokens : token'[j] # NoRow => \A i \in 1..(j - 1) : token'[i] # NoRow
  BY <1>1, <1>2, Earlier, NoRows, SizeAssumption DEF Tokens
<1>5. \A j \in Tokens : IsRow(token'[j]) => token'[j].family \in 1..j
  BY <1>1, <1>2, SizeAssumption DEF Tokens
<1>6. \A j \in Tokens \ {k} : IsRow(token'[j]) => token'[j].family # k
  <2> SUFFICES ASSUME NEW j \in Tokens \ {k}, IsRow(token[j])  PROVE token[j].family # k
    BY <1>1
  <2>1. j < k /\ token[j].family \in 1..j
    BY Earlier, NoRows
  <2>2. QED
    BY <2>1, SizeAssumption DEF Tokens
<1>7. \A i, j \in Tokens :
        Unused(token'[i]) /\ Unused(token'[j]) /\ token'[i].family = token'[j].family => i = j
  BY <1>1, <1>2, <1>6 DEF Unused
<1>8. \A t \in Rotating' : t.token \in Tokens /\ Unused(token'[t.token])
  BY <1>1, <1>2
<1>9. QED
  BY <1>3, <1>4, <1>5, <1>7, <1>8

LEMMA RotateStep ==
  ASSUME TokenInv, NEW t \in open, NEW k \in Tokens, rotateRefreshToken(t, k)
  PROVE  TokenInv'
<1> DEFINE x == t.token
           mid == insertToken(k, token[x].of, token[x].family, t.saw)
           used == [mid[x] EXCEPT !.used = TRUE]
<1>1. /\ t \in Rotating /\ Rotating' = Rotating \ {t} /\ FreshToken(k)
      /\ token' = [mid EXCEPT ![x] = used]
  BY DEF rotateRefreshToken, ends, Rotating
<1>2. TokenComes(mid, k, token[x].family) /\ \A j \in Tokens \ {k} : mid[j] = token[j]
  BY TokenInserted
<1>3. x \in Tokens /\ Unused(token[x]) /\ IsRow(token[x])
  BY <1>1 DEF TokenInv, Unused
<1>4. x < k
  BY <1>1, <1>3, Earlier, NoRows
<1>5. mid[x] = token[x] /\ DOMAIN token[x] = TokenFields
  BY <1>2, <1>3, <1>4, SizeAssumption DEF TokenInv, Table, Tokens
<1>6. DOMAIN used = TokenFields /\ used.family = token[x].family /\ used.used = TRUE
  BY <1>5 DEF TokenFields
<1> HIDE DEF mid, used, x
<1>7. IsRow(used) /\ ~Unused(used)
  BY <1>6, HasColumns DEF TokenFields, Unused
<1>8. /\ token' = [j \in Tokens |-> token'[j]] /\ token'[x] = used /\ token'[k] = mid[k]
      /\ \A j \in Tokens \ {k, x} : token'[j] = token[j]
  <2>1. x # k /\ mid = [j \in Tokens |-> mid[j]]
    BY <1>2, <1>4, SizeAssumption DEF TokenComes, Tokens
  <2>2. /\ token' = [j \in Tokens |-> token'[j]] /\ token'[x] = used
        /\ \A j \in Tokens \ {x} : token'[j] = mid[j]
    BY <1>1, <1>3, <2>1
  <2>3. QED
    BY <1>2, <2>1, <2>2
<1> USE DEF TokenInv
<1>9. IsRow(token'[k]) /\ Unused(token'[k]) /\ DOMAIN token'[k] = TokenFields
      /\ token'[k].family = token[x].family
  BY <1>2, <1>8 DEF TokenComes, Unused
<1>10. Table(token', Tokens, TokenFields)
  BY <1>6, <1>7, <1>8, <1>9 DEF Table
<1>11. \A j \in Tokens : token'[j] # NoRow => \A i \in 1..(j - 1) : token'[i] # NoRow
  <2>1. \A j \in Tokens : j # k => (token'[j] = NoRow <=> token[j] = NoRow)
    BY <1>3, <1>7, <1>8, NoRows
  <2>2. \A j \in Tokens : j < k => token[j] # NoRow
    BY <1>1, Earlier
  <2>3. \A j \in Tokens : token[j] # NoRow => j < k
    BY <1>1, Earlier
  <2>4. QED
    BY <1>9, <2>1, <2>2, <2>3, NoRows, SizeAssumption DEF Tokens
<1>12. \A j \in Tokens : IsRow(token'[j]) => token'[j].family \in 1..j
  <2>1. token[x].family \in 1..x
    BY <1>3
  <2>2. token'[k].family \in 1..k /\ token'[x].family \in 1..x
    BY <1>3, <1>4, <1>6, <1>8, <1>9, <2>1, SizeAssumption DEF Tokens
  <2>3. QED
    BY <1>8, <2>2
<1>13. \A j \in Tokens \ {k} : Unused(token'[j]) =>
         Unused(token[j]) /\ token'[j] = token[j] /\ token[j].family # token[x].family
  BY <1>3, <1>7, <1>8
<1>14. \A i, j \in Tokens :
         Unused(token'[i]) /\ Unused(token'[j]) /\ token'[i].family = token'[j].family => i = j
  BY <1>9, <1>13
<1>15. \A u \in Rotating' : u.token \in Tokens /\ Unused(token'[u.token])
  <2> SUFFICES ASSUME NEW u \in Rotating, u # t  PROVE u.token \in Tokens /\ Unused(token'[u.token])
    BY <1>1
  <2>1. u.token \in Tokens /\ Unused(token[u.token]) /\ u.token # x
    BY <1>1 DEF x
  <2>2. u.token # k
    BY <1>1, <2>1, Earlier, NoRows DEF Unused
  <2>3. QED
    BY <1>8, <2>1, <2>2
<1>16. QED
  BY <1>1, <1>10, <1>11, <1>12, <1>14, <1>15

LEMMA ClaimTokenStep ==
  ASSUME TokenInv, NEW k \in Tokens, rotateClaims(k)  PROVE TokenInv'
<1> DEFINE t == [op |-> "rotate", pending |-> None, challenge |-> None, token |-> k,
                 saw |-> account[token[k].of].version, at |-> now]
<1>1. /\ open' = open \cup {t} /\ token' = token /\ Unused(token[k])
      /\ \A u \in open : u.token # k
  BY DEF rotateClaims, TokenFree, Unexpired, Unused
<1>2. t.op = "rotate" /\ t.token = k
  OBVIOUS
<1> HIDE DEF t
<1>3. Rotating' = Rotating \cup {t} /\ \A u \in Rotating : u.token # k
  BY <1>1, <1>2 DEF Rotating
<1>4. QED
  BY <1>1, <1>2, <1>3 DEF TokenInv

LEMMA TokenStep == ASSUME TokenInv, [Next]_vars  PROVE TokenInv'
<1>1. ASSUME NEW t \in open, NEW k \in Tokens, confirmRegistration(t, k)  PROVE TokenInv'
  <2>1. Rotating' \subseteq Rotating
    BY <1>1 DEF confirmRegistration, ends, Rotating
  <2>2. token' = token \/ (FreshToken(k) /\ \E e : token' = insertToken(k, e, k, 0))
    BY <1>1 DEF confirmRegistration
  <2>3. QED
    BY <2>1, <2>2, Revocations, TokensFade, FamilyBegins
<1>2. ASSUME NEW e, NEW k \in Tokens, loginUser(e, k)  PROVE TokenInv'
  <2>1. Rotating' \subseteq Rotating /\ FreshToken(k)
        /\ token' = insertToken(k, e, k, account[e].version)
    BY <1>2 DEF loginUser, Rotating
  <2>2. QED
    BY <2>1, FamilyBegins
<1>3. ASSUME open' = open \/ (\E t : t.op # "rotate" /\ open' = open \cup {t}), token' = token
      PROVE  TokenInv'
  BY <1>3, Revocations, TokensFade DEF Rotating
<1>4. ASSUME NEW x, open' = open,
             token' = RevokedOf(x) \/ token' = RevokedFamily(x)
      PROVE  TokenInv'
  BY <1>4, Revocations, TokensFade DEF Rotating
<1>5. CASE Registering
  <2>1. ASSUME NEW c, NEW p, NEW e, NEW role,
               startRegistration(e, p, role, c) \/ confirmReads(p, c)
                 \/ resendRegistrationVerification(p, c) \/ failVerification(c)
        PROVE  TokenInv'
    BY <1>3, <2>1 DEF startRegistration, confirmReads, resendRegistrationVerification,
                      failVerification
  <2>2. QED
    BY <1>1, <1>5, <2>1 DEF Registering
<1>6. CASE Administering
  <2>1. ASSUME NEW c, NEW e, NEW s,
               \/ verifyPasswordRecovery(c) \/ resetPassword(c) \/ confirmStore(c)
               \/ setupInitialPassword(c) \/ confirmAdmin(c)
               \/ startPasswordRecovery(e, c) \/ provisionStoreWithOwner(e, c)
               \/ resendStoreActivation(e, c) \/ bootstrapAdmin(e, c)
               \/ setStoreSecurityStatus(e, s) \/ setDriverAccountStatus(e, s)
        PROVE  TokenInv'
    <3>1. open' = open
      BY <2>1 DEF verifyPasswordRecovery, resetPassword, confirmStore, setupInitialPassword,
                  confirmAdmin, startPasswordRecovery, provisionStoreWithOwner,
                  resendStoreActivation, bootstrapAdmin, setStoreSecurityStatus,
                  setDriverAccountStatus
    <3>2. token' = token \/ \E x : token' = RevokedOf(x)
      BY <2>1 DEF verifyPasswordRecovery, resetPassword, confirmStore, setupInitialPassword,
                  confirmAdmin, startPasswordRecovery, provisionStoreWithOwner,
                  resendStoreActivation, bootstrapAdmin, setStoreSecurityStatus,
                  setDriverAccountStatus
    <3>3. QED
      BY <1>3, <1>4, <3>1, <3>2
  <2>2. QED
    BY <1>6, <2>1 DEF Administering
<1>7. CASE SigningIn
  <2>1. ASSUME NEW k, rotateRevokes(k) \/ revokeSessionFamily(k) \/ revokeAllSessions(k)
        PROVE  TokenInv'
    BY <1>4, <2>1 DEF rotateRevokes, revokeSessionFamily, revokeAllSessions
  <2>2. QED
    BY <1>2, <1>7, <2>1, RotateStep, ClaimTokenStep DEF SigningIn
<1>8. CASE Dispatch \/ Cleanup \/ TimePasses \/ UNCHANGED vars
  <2>1. open' = open /\ token' = token
    BY <1>8, MailQuiet DEF Cleanup, TimePasses, vars, cleanupDeletesTicket,
       cleanupDeletesChallenge, cleanupDeletesPending
  <2>2. QED
    BY <1>3, <2>1
<1>9. QED
  BY <1>5, <1>6, <1>7, <1>8 DEF Next

(* Of a session one token at most can be exchanged, whatever rotations and     *)
(* revocations meet.                                                           *)
THEOREM OneTokenEach == Spec => []OneLiveToken
<1>1. TokenInv => OneLiveToken
  BY DEF TokenInv, OneLiveToken, Unexpired, Unused
<1>2. TokenInv /\ [Next]_vars => TokenInv'
  BY TokenStep
<1>3. QED
  BY <1>1, <1>2, TokenInit, PTL DEF Spec

-----------------------------------------------------------------------------
(* Accounts, and the registrations they were made from.                        *)

FormRight(x) ==
  IsRow(x) => x.email \in Emails /\ (x.consumedAt = None => x.closeReason = None)

AccountInv == (\A p \in Pendings : FormRight(pending[p])) /\ ConfirmedHasAccount

(* What a step but a confirmation may make of an account and of a registration. *)
AccountGoes(x, y) ==
  \/ y = x
  \/ IsRow(x) /\ IsRow(y) /\ y.from = x.from
  \/ ~IsRow(x) /\ y.from \notin Pendings

FormGoes(x, y) ==
  \/ y = x
  \/ y = Gone
  \/ FormRight(y) /\ y.consumedAt = None /\ y.closeReason = None /\ ~IsRow(account[y.email])

AccountsGoing(next) == \A e \in Emails : AccountGoes(account[e], next[e])

LEMMA AccountsGo ==
  ASSUME AccountInv, AccountsGoing(account'),
         \/ \A p \in Pendings : pending'[p] \in {pending[p], Gone}
         \/ account' = account /\ \A p \in Pendings : FormGoes(pending[p], pending'[p])
  PROVE  AccountInv'
<1>1. None # "CONFIRMED"
  BY Names
<1>2. ASSUME NEW p \in Pendings  PROVE FormRight(pending'[p])
  BY NoRows DEF AccountInv, FormRight, FormGoes
<1>3. ASSUME NEW p \in Pendings, IsRow(pending'[p])
      PROVE  pending'[p].closeReason = "CONFIRMED" <=>
               IsRow(account'[pending'[p].email]) /\ account'[pending'[p].email].from = p
  <2>1. CASE pending'[p] = pending[p]
    <3> DEFINE e == pending[p].email
    <3>1. /\ e \in Emails
          /\ pending[p].closeReason = "CONFIRMED" <=> IsRow(account[e]) /\ account[e].from = p
      BY <1>3, <2>1 DEF AccountInv, FormRight, ConfirmedHasAccount
    <3>2. AccountGoes(account[e], account'[e])
      BY <3>1 DEF AccountsGoing
    <3>3. IsRow(account'[e]) /\ account'[e].from = p <=> IsRow(account[e]) /\ account[e].from = p
      BY <3>2 DEF AccountGoes
    <3>4. QED
      BY <2>1, <3>1, <3>3
  <2>2. CASE pending'[p] # pending[p]
    <3>1. /\ account' = account /\ pending'[p].closeReason = None
          /\ ~IsRow(account[pending'[p].email])
      BY <1>3, <2>2, NoRows DEF FormGoes
    <3>2. QED
      BY <1>1, <3>1
  <2>3. QED
    BY <2>1, <2>2
<1>4. QED
  BY <1>2, <1>3 DEF AccountInv, ConfirmedHasAccount

LEMMA AccountChanged ==
  ASSUME CodeInv, NEW e, NEW row, e \in Emails => AccountGoes(account[e], row),
         account' = [account EXCEPT ![e] = row]
  PROVE  AccountsGoing(account')
BY DEF CodeInv, Accounts, AccountsGoing, AccountGoes

(* Writing columns other than "from".                                          *)
LEMMA Rewritten ==
  ASSUME CodeInv, NEW e, e \in Emails => account[e] # NoRow, NEW row,
         e \in Emails => DOMAIN row = AccountFields /\ row.from = account[e].from,
         account' = [account EXCEPT ![e] = row]
  PROVE  AccountsGoing(account')
<1>1. e \in Emails => IsRow(row) /\ IsRow(account[e])
  BY HasColumns DEF AccountFields, CodeInv, Accounts
<1>2. e \in Emails => AccountGoes(account[e], row)
  BY <1>1 DEF AccountGoes
<1>3. QED
  BY <1>2, AccountChanged

LEMMA AccountRegistering ==
  ASSUME CodeInv, AccountInv, Registering  PROVE AccountInv'
<1>1. ASSUME NEW c \in Challenges, NEW p \in Pendings, NEW e \in Emails, NEW role,
             startRegistration(e, p, role, c)
      PROVE  AccountInv'
  <2> DEFINE form == [email |-> e, role |-> role, expiresAt |-> now + PENDING_TTL,
                      consumedAt |-> None, closeReason |-> None]
  <2>1. /\ account' = account
        /\ \/ pending' = pending
           \/ ~IsRow(account[e]) /\ pending' = [pending EXCEPT ![p] = form]
    BY <1>1 DEF startRegistration
  <2>2. /\ form.email = e /\ form.consumedAt = None /\ form.closeReason = None /\ FormRight(form)
    BY DEF FormRight
  <2> HIDE DEF form
  <2>3. AccountsGoing(account')
    BY <2>1 DEF AccountsGoing, AccountGoes
  <2>4. \A q \in Pendings : FormGoes(pending[q], pending'[q])
    BY <2>1, <2>2 DEF FormGoes, CodeInv, Table
  <2>5. QED
    BY <2>1, <2>3, <2>4, AccountsGo
<1>2. ASSUME NEW c, NEW p,
             \/ confirmReads(p, c) \/ resendRegistrationVerification(p, c) \/ failVerification(c)
      PROVE  AccountInv'
  BY <1>2, AccountsGo DEF confirmReads, resendRegistrationVerification, failVerification,
     AccountsGoing, AccountGoes
<1>3. ASSUME NEW t \in open, NEW k \in Tokens, confirmRegistration(t, k)
      PROVE  AccountInv'
  <2> DEFINE p == pending[t.pending]
             created == NewAccount(p.role,
               IF p.role = "DRIVER" THEN "PENDING_APPROVAL" ELSE "ACTIVE", TRUE, t.pending, TRUE)
             form(reason) == [p EXCEPT !.consumedAt = t.at, !.closeReason = reason]
  <2>1. t \in Confirming
    BY <1>3 DEF confirmRegistration, ends, Confirming
  <2>2. /\ t.pending \in Pendings /\ t.at # None /\ IsRow(p) /\ p.consumedAt = None
    BY <2>1, Names DEF CodeInv, ConfirmsRight, ConfirmRight
  <2>3. p.email \in Emails /\ p.closeReason # "CONFIRMED" /\ DOMAIN p = PendingFields
        /\ pending = [q \in Pendings |-> pending[q]]
    BY <2>2, Names DEF AccountInv, FormRight, CodeInv, Table
  <2>4. \E reason \in {"ACCOUNT_COLLISION", "CONFIRMED"} :
          /\ pending' = [pending EXCEPT ![t.pending] = form(reason)]
          /\ reason = "ACCOUNT_COLLISION" => account' = account
          /\ reason = "CONFIRMED" => ~IsRow(account[p.email])
               /\ account' = [account EXCEPT ![p.email] = created]
    BY <1>3 DEF confirmRegistration, closePending
  <2>5. created.from = t.pending /\ DOMAIN created = AccountFields
    BY DEF NewAccount, AccountFields
  <2>6. \A reason : /\ form(reason).email = p.email /\ form(reason).consumedAt = t.at
                    /\ form(reason).closeReason = reason
    BY <2>3 DEF PendingFields
  <2> HIDE DEF created, form
  <2>7. IsRow(created)
    BY <2>5, HasColumns DEF AccountFields
  <2>8. PICK reason \in {"ACCOUNT_COLLISION", "CONFIRMED"} :
          /\ pending' = [pending EXCEPT ![t.pending] = form(reason)]
          /\ reason = "ACCOUNT_COLLISION" => account' = account
          /\ reason = "CONFIRMED" => ~IsRow(account[p.email])
               /\ account' = [account EXCEPT ![p.email] = created]
    BY <2>4
  <2>9. /\ pending'[t.pending] = form(reason)
        /\ \A q \in Pendings \ {t.pending} : pending'[q] = pending[q]
    BY <2>2, <2>3, <2>8
  <2>10. ~(IsRow(account[p.email]) /\ account[p.email].from = t.pending)
    BY <2>2, <2>3 DEF AccountInv, ConfirmedHasAccount
  <2>11. /\ reason = "CONFIRMED" => IsRow(account'[p.email]) /\ account'[p.email].from = t.pending
         /\ \A e \in Emails : (e = p.email /\ reason = "CONFIRMED") \/ account'[e] = account[e]
    BY <2>3, <2>5, <2>7, <2>8 DEF CodeInv, Accounts
  <2> HIDE DEF p
  <2>12. \A q \in Pendings : FormRight(pending'[q])
    BY <2>2, <2>3, <2>6, <2>9 DEF AccountInv, FormRight
  <2>13. ASSUME NEW q \in Pendings, IsRow(pending'[q])
         PROVE  pending'[q].closeReason = "CONFIRMED" <=>
                  IsRow(account'[pending'[q].email]) /\ account'[pending'[q].email].from = q
    <3>1. CASE q = t.pending
      <4>1. pending'[q].email = p.email /\ pending'[q].closeReason = reason
        BY <2>6, <2>9, <3>1
      <4>2. CASE reason = "CONFIRMED"
        BY <2>11, <3>1, <4>1, <4>2
      <4>3. CASE reason = "ACCOUNT_COLLISION"
        BY <2>8, <2>10, <3>1, <4>1, <4>3
      <4>4. QED
        BY <4>2, <4>3
    <3>2. CASE q # t.pending
      <4> DEFINE e == pending[q].email
      <4>1. pending'[q] = pending[q]
        BY <2>9, <3>2
      <4>2. /\ e \in Emails
            /\ pending[q].closeReason = "CONFIRMED" <=> IsRow(account[e]) /\ account[e].from = q
        BY <1>3, <2>13, <4>1 DEF AccountInv, FormRight, ConfirmedHasAccount
      <4>3. CASE e = p.email /\ reason = "CONFIRMED"
        BY <2>8, <2>11, <3>2, <4>1, <4>2, <4>3
      <4>4. CASE account'[e] = account[e]
        BY <4>1, <4>2, <4>4
      <4>5. QED
        BY <2>11, <4>2, <4>3, <4>4
    <3>3. QED
      BY <3>1, <3>2
  <2>14. QED
    BY <2>12, <2>13 DEF AccountInv, ConfirmedHasAccount
<1>4. QED
  BY <1>1, <1>2, <1>3 DEF Registering

(* Changes to an account that exists, and new accounts of other origins.       *)
LEMMA AccountsKept ==
  ASSUME CodeInv, NEW c, NEW e, NEW status, NEW k,
         \/ resetPassword(c) \/ setupInitialPassword(c)
         \/ c \in Challenges /\ confirmAdmin(c)
         \/ setStoreSecurityStatus(e, status) \/ setDriverAccountStatus(e, status)
         \/ revokeAllSessions(k)
  PROVE  AccountsGoing(account')
<1>1. CASE account' = account
  BY <1>1 DEF AccountsGoing, AccountGoes
<1>2. ASSUME NEW x, x \in Emails => account[x] # NoRow, NEW row,
             account' = [account EXCEPT ![x] = row],
             \/ row = [account[x] EXCEPT !.version = account[x].version + 1]
             \/ row = [account[x] EXCEPT !.status = "ACTIVE", !.verified = TRUE, !.password = TRUE,
                                         !.store = "ACTIVE"]
             \/ row = [account[x] EXCEPT !.status = "ACTIVE", !.verified = TRUE]
             \/ row = [account[x] EXCEPT !.store = status]
             \/ row = [account[x] EXCEPT !.store = status, !.version = account[x].version + 1]
             \/ \E n : row = [account[x] EXCEPT !.status = status, !.version = n]
      PROVE  AccountsGoing(account')
  <2>1. x \in Emails => DOMAIN account[x] = AccountFields
    BY <1>2 DEF CodeInv, Accounts
  <2>2. x \in Emails => DOMAIN row = AccountFields /\ row.from = account[x].from
    BY <1>2, <2>1 DEF AccountFields
  <2>3. QED
    BY <1>2, <2>2, Rewritten
<1>3. CASE resetPassword(c)
  <2> DEFINE x == ticket[c].of
  <2>1. /\ account' = [account EXCEPT ![x] = [account[x] EXCEPT !.version = account[x].version + 1]]
        /\ account[x] # NoRow
    BY <1>3, NoRows DEF resetPassword, recoveryEligible
  <2> HIDE DEF x
  <2>2. QED
    BY <1>2, <2>1
<1>4. CASE setupInitialPassword(c)
  <2> DEFINE x == ticket[c].of
  <2>1. /\ account' = [account EXCEPT ![x] =
             [account[x] EXCEPT !.status = "ACTIVE", !.verified = TRUE, !.password = TRUE,
                                !.store = "ACTIVE"]]
        /\ account[x] # NoRow
    BY <1>4, NoRows DEF setupInitialPassword, PendingStore
  <2> HIDE DEF x
  <2>2. QED
    BY <1>2, <2>1
<1>5. CASE c \in Challenges /\ confirmAdmin(c)
  <2> DEFINE x == challenge[c].of
  <2>1. /\ ForAdmin(challenge[c])
        /\ \/ account' = account
           \/ account' = [account EXCEPT ![x] =
                [account[x] EXCEPT !.status = "ACTIVE", !.verified = TRUE]]
    BY <1>5 DEF confirmAdmin, ForAdmin
  <2>2. account[x] # NoRow
    BY <1>5, <2>1 DEF CodeInv, Origins, HasOrigin
  <2> HIDE DEF x
  <2>3. QED
    BY <1>1, <1>2, <2>1, <2>2
<1>6. CASE setStoreSecurityStatus(e, status)
  <2>1. /\ \/ account' = [account EXCEPT ![e] = [account[e] EXCEPT !.store = status]]
           \/ account' = [account EXCEPT ![e] =
                [account[e] EXCEPT !.store = status, !.version = account[e].version + 1]]
        /\ account[e] # NoRow
    BY <1>6, NoRows DEF setStoreSecurityStatus
  <2>2. QED
    BY <1>2, <2>1
<1>7. CASE setDriverAccountStatus(e, status)
  <2>1. PICK n : /\ account' = [account EXCEPT ![e] =
                      [account[e] EXCEPT !.status = status, !.version = n]]
                 /\ account[e] # NoRow
    BY <1>7, NoRows DEF setDriverAccountStatus
  <2>2. QED
    BY <1>2, <2>1
<1>8. CASE revokeAllSessions(k)
  <2> DEFINE x == token[k].of
  <2>1. /\ account' = [account EXCEPT ![x] = [account[x] EXCEPT !.version = account[x].version + 1]]
        /\ account[x] # NoRow
    BY <1>8, NoRows DEF revokeAllSessions, resolveLivePrincipal, assertLoginable
  <2> HIDE DEF x
  <2>2. QED
    BY <1>2, <2>1
<1>9. QED
  BY <1>3, <1>4, <1>5, <1>6, <1>7, <1>8

LEMMA AccountsMade ==
  ASSUME CodeInv, NEW c \in Challenges, NEW e \in Emails,
         provisionStoreWithOwner(e, c) \/ bootstrapAdmin(e, c)
  PROVE  AccountsGoing(account')
<1>1. CASE provisionStoreWithOwner(e, c)
  <2> DEFINE row == [NewAccount("STORE", "PENDING_EMAIL", FALSE, "ADMIN_PROVISIONED", FALSE)
                       EXCEPT !.store = "PENDING_ACTIVATION"]
  <2>1. account[e] = NoRow /\ account' = [account EXCEPT ![e] = row]
    BY <1>1 DEF provisionStoreWithOwner
  <2>2. row.from = "ADMIN_PROVISIONED"
    BY DEF NewAccount
  <2> HIDE DEF row
  <2>3. AccountGoes(account[e], row)
    BY <2>1, <2>2, Names, NoRows DEF AccountGoes
  <2>4. QED
    BY <2>1, <2>3, AccountChanged
<1>2. CASE bootstrapAdmin(e, c)
  <2> DEFINE row == NewAccount("ADMIN", "PENDING_EMAIL", FALSE, "BOOTSTRAP", TRUE)
  <2>1. \/ account' = account
        \/ account[e] = NoRow /\ account' = [account EXCEPT ![e] = row]
    BY <1>2 DEF bootstrapAdmin
  <2>2. row.from = "BOOTSTRAP"
    BY DEF NewAccount
  <2> HIDE DEF row
  <2>3. account[e] = NoRow => AccountGoes(account[e], row)
    BY <2>1, <2>2, Names, NoRows DEF AccountGoes
  <2>4. CASE account' = account
    BY <2>4 DEF AccountsGoing, AccountGoes
  <2>5. QED
    BY <2>1, <2>3, <2>4, AccountChanged
<1>3. QED
  BY <1>1, <1>2

LEMMA AccountStep == ASSUME CodeInv, AccountInv, [Next]_vars  PROVE AccountInv'
<1>1. ASSUME account' = account, pending' = pending  PROVE AccountInv'
  BY <1>1, AccountsGo DEF AccountsGoing, AccountGoes
<1>2. ASSUME AccountsGoing(account'), pending' = pending  PROVE AccountInv'
  BY <1>2, AccountsGo
<1>3. CASE Administering
  <2>1. ASSUME NEW c \in Challenges, NEW e,
               verifyPasswordRecovery(c) \/ confirmStore(c) \/ startPasswordRecovery(e, c)
                 \/ resendStoreActivation(e, c)
        PROVE  AccountInv'
    BY <1>1, <2>1 DEF verifyPasswordRecovery, confirmStore, startPasswordRecovery,
                      resendStoreActivation
  <2>2. ASSUME NEW c \in Challenges, resetPassword(c) \/ setupInitialPassword(c) \/ confirmAdmin(c)
        PROVE  AccountInv'
    <3>1. AccountsGoing(account')
      BY <2>2, AccountsKept
    <3>2. QED
      BY <1>2, <2>2, <3>1 DEF resetPassword, setupInitialPassword, confirmAdmin
  <2>3. ASSUME NEW c \in Challenges, NEW e \in Emails,
               provisionStoreWithOwner(e, c) \/ bootstrapAdmin(e, c)
        PROVE  AccountInv'
    BY <1>2, <2>3, AccountsMade DEF provisionStoreWithOwner, bootstrapAdmin
  <2>4. ASSUME NEW e \in Emails, NEW s,
               setStoreSecurityStatus(e, s) \/ setDriverAccountStatus(e, s)
        PROVE  AccountInv'
    <3>1. pending' = pending
      BY <2>4 DEF setStoreSecurityStatus, setDriverAccountStatus
    <3>2. AccountsGoing(account')
      BY <2>4, AccountsKept
    <3>3. QED
      BY <1>2, <3>1, <3>2
  <2>5. QED
    BY <1>3, <2>1, <2>2, <2>3, <2>4 DEF Administering
<1>4. CASE SigningIn
  <2>1. ASSUME NEW k, revokeAllSessions(k)  PROVE AccountInv'
    BY <1>2, <2>1, AccountsKept DEF revokeAllSessions
  <2>2. QED
    BY <1>1, <1>4, <2>1, SignInQuiet DEF SigningIn
<1>5. CASE Dispatch \/ TimePasses \/ UNCHANGED vars
  BY <1>1, <1>5, MailQuiet DEF TimePasses, vars
<1>6. CASE Cleanup
  <2>1. account' = account /\ \A p \in Pendings : pending'[p] \in {pending[p], Gone}
    <3>1. ASSUME NEW p, cleanupDeletesPending(p)
          PROVE  account' = account /\ pending' = [pending EXCEPT ![p] = Gone]
      BY <3>1 DEF cleanupDeletesPending
    <3>2. QED
      BY <1>6, <3>1, MailQuiet DEF Cleanup, cleanupDeletesTicket, cleanupDeletesChallenge,
         CodeInv, Table
  <2>2. QED
    BY <2>1, AccountsGo DEF AccountsGoing, AccountGoes
<1>7. QED
  BY <1>3, <1>4, <1>5, <1>6, AccountRegistering DEF Next

LEMMA AccountInit == Init => AccountInv
BY NoRows DEF Init, AccountInv, FormRight, ConfirmedHasAccount

(* A registration is closed as confirmed exactly when the account of its       *)
(* address was made from it, though the address is looked up unlocked.         *)
THEOREM AccountsAreConfirmed == Spec => []ConfirmedHasAccount
<1>1. CodeInv /\ AccountInv /\ [Next]_vars => (CodeInv /\ AccountInv)'
  BY CodeStep, AccountStep
<1>2. QED
  BY <1>1, CodeInit, AccountInit, PTL DEF Spec, AccountInv

-----------------------------------------------------------------------------
(* The way on from an open registration.                                       *)

Waits(form, at) == IsRow(form) /\ form.consumedAt = None /\ form.expiresAt > at

(* A code that can be replaced, and that the cleanup leaves until the end.     *)
Way(p, x, end) ==
  /\ ForRegistration(x) /\ x.of = p /\ x.consumedAt = None
  /\ x.reason \in {None, "ATTEMPTS_EXHAUSTED"}
  /\ x.expiresAt \in Nat /\ end <= x.expiresAt + DAY
  /\ x.invalidatedAt = None \/ (x.invalidatedAt \in Nat /\ end <= x.invalidatedAt + DAY)

Last(rows, c) ==
  \A b \in Challenges : ForRegistration(rows[b]) /\ rows[b].of = rows[c].of => b <= c

EndsRight(form, at) == IsRow(form) => form.expiresAt \in Nat /\ form.expiresAt <= at + DAY

WayInv ==
  \A p \in Pendings :
    /\ EndsRight(pending[p], now)
    /\ Waits(pending[p], now) => \E c \in Challenges :
         Way(p, challenge[c], pending[p].expiresAt) /\ Last(challenge, c)

LEMMA WayInit == Init => WayInv
BY NoRows DEF Init, WayInv, Waits, EndsRight

(* Registrations neither begin nor lose their way.                             *)
FormsWait(nextForms) ==
  \A p \in Pendings :
    \/ nextForms[p] = pending[p]
    \/ nextForms[p] = Gone
    \/ /\ IsRow(pending[p]) /\ nextForms[p].expiresAt = pending[p].expiresAt
       /\ nextForms[p].consumedAt # None

WaysLead(nextCodes, nextForms) ==
  \A p \in Pendings, c \in Challenges :
    Way(p, challenge[c], pending[p].expiresAt) /\ Waits(pending[p], now)
      /\ nextForms[p] = pending[p] => Way(p, nextCodes[c], pending[p].expiresAt)

NoneRegisters(nextCodes) ==
  \A b \in Challenges : ForRegistration(nextCodes[b]) =>
    ForRegistration(challenge[b]) /\ nextCodes[b].of = challenge[b].of

LEMMA WaysKept ==
  ASSUME CodeInv, WayInv, now' \in Instants, now <= now', FormsWait(pending'),
         WaysLead(challenge', pending'), NoneRegisters(challenge')
  PROVE  WayInv'
<1>1. now \in Nat /\ now' \in Nat /\ DAY \in Nat
  BY SizeAssumption DEF CodeInv, DAY
<1>2. ASSUME NEW p \in Pendings  PROVE EndsRight(pending'[p], now')
  <2>1. EndsRight(pending[p], now)
    BY DEF WayInv
  <2>2. QED
    BY <1>1, <2>1, NoRows DEF EndsRight, FormsWait
<1>3. ASSUME NEW p \in Pendings, Waits(pending'[p], now')
      PROVE  \E c \in Challenges :
               Way(p, challenge'[c], pending'[p].expiresAt) /\ Last(challenge', c)
  <2>1. pending'[p] = pending[p]
    BY <1>3, NoRows DEF FormsWait, Waits
  <2>2. Waits(pending[p], now)
    BY <1>1, <1>3, <2>1 DEF Waits, WayInv, EndsRight
  <2>3. PICK c \in Challenges : Way(p, challenge[c], pending[p].expiresAt) /\ Last(challenge, c)
    BY <2>2 DEF WayInv
  <2>4. Way(p, challenge'[c], pending'[p].expiresAt)
    BY <2>1, <2>2, <2>3 DEF WaysLead
  <2>5. Last(challenge', c)
    BY <2>3, <2>4 DEF NoneRegisters, Last, Way
  <2>6. QED
    BY <2>4, <2>5
<1>4. QED
  BY <1>2, <1>3 DEF WayInv

LEMMA FadingRegistersNone ==
  ASSUME NEW next, CodesFading(next)  PROVE NoneRegisters(next)
<1> SUFFICES ASSUME NEW b \in Challenges, ForRegistration(next[b])
             PROVE  ForRegistration(challenge[b]) /\ next[b].of = challenge[b].of
  BY DEF NoneRegisters
<1>1. CodeFades(challenge[b], next[b])
  BY DEF CodesFading
<1>2. QED
  BY <1>1, FadedCode DEF ForRegistration, SameFlow

(* Steps that do not touch the codes of registrations.                         *)
OthersOnly(next) == \A c \in Challenges : ForRegistration(challenge[c]) => next[c] = challenge[c]

LEMMA WaysApart ==
  ASSUME CodeInv, WayInv, now' = now, pending' = pending,
         OthersOnly(challenge'), NoneRegisters(challenge')
  PROVE  WayInv'
<1>1. WaysLead(challenge', pending')
  BY DEF WaysLead, OthersOnly, Way
<1>2. now' \in Instants /\ now <= now' /\ FormsWait(pending')
  BY SizeAssumption DEF CodeInv, FormsWait
<1>3. QED
  BY <1>1, <1>2, WaysKept

LEMMA WaySame ==
  ASSUME CodeInv, WayInv, now' = now, pending' = pending, challenge' = challenge
  PROVE  WayInv'
BY WaysApart DEF OthersOnly, NoneRegisters

LEMMA LesserOfTwo ==
  ASSUME NEW a \in Nat, NEW b \in Nat
  PROVE  Min({a, b}) = IF a <= b THEN a ELSE b
<1>1. \E x \in {a, b} : \A y \in {a, b} : x <= y
  OBVIOUS
<1>2. Min({a, b}) \in {a, b} /\ \A y \in {a, b} : Min({a, b}) <= y
  BY <1>1 DEF Min
<1>3. QED
  BY <1>2

(* A code is sent for p, and replaces those in S.                              *)
LEMMA WayComes ==
  ASSUME CodeInv, WayInv, now' = now, NEW p \in Pendings,
         NEW c \in Challenges, Fresh(c), NEW S \in SUBSET Challenges,
         \A b \in S : ForRegistration(challenge[b]) /\ challenge[b].of = p,
         NEW limit \in Nat, limit <= now + DAY,
         Inserts(challenge', c, S, "REGISTRATION_VERIFY", p, limit),
         EndsRight(pending'[p], now), IsRow(pending'[p]) => pending'[p].expiresAt = limit,
         \A q \in Pendings \ {p} : pending'[q] = pending[q]
  PROVE  WayInv'
<1>1. InsertedRight(challenge', c, S, "REGISTRATION_VERIFY", p, limit)
  <2>1. \A b \in S : IsRow(challenge[b])
    BY DEF ForRegistration
  <2>2. QED
    BY <2>1, Inserted
<1>2. now \in Nat /\ CHALLENGE_TTL = 10 /\ DAY = 1440
  BY SizeAssumption DEF CodeInv, CHALLENGE_TTL, DAY
<1>3. /\ IsRow(challenge'[c]) /\ ForRegistration(challenge'[c]) /\ challenge'[c].of = p
      /\ challenge'[c].expiresAt = IF now + 10 <= limit THEN now + 10 ELSE limit
      /\ challenge'[c].consumedAt = None /\ challenge'[c].reason = None
      /\ challenge'[c].invalidatedAt = None
  BY <1>1, <1>2, LesserOfTwo DEF InsertedRight, ForRegistration
<1>4. Way(p, challenge'[c], limit)
  BY <1>2, <1>3 DEF Way
<1>5. ASSUME NEW b \in Challenges \ {c}, ForRegistration(challenge'[b])
      PROVE  /\ ForRegistration(challenge[b]) /\ challenge'[b].of = challenge[b].of
             /\ b < c
  <2>1. CodeFades(challenge[b], challenge'[b])
    BY <1>1 DEF InsertedRight
  <2>2. /\ IsRow(challenge[b]) /\ ForRegistration(challenge[b])
        /\ challenge'[b].of = challenge[b].of
    BY <1>5, <2>1, FadedCode DEF ForRegistration, SameFlow
  <2>3. b < c
    <3>1. challenge[b] # NoRow /\ challenge[c] = NoRow
      BY <2>2, NoRows DEF Fresh
    <3>2. \A d \in 1..(b - 1) : challenge[d] # NoRow
      BY <3>1 DEF CodeInv, InOrder
    <3>3. QED
      BY <3>1, <3>2, SizeAssumption DEF Challenges
  <2>4. QED
    BY <2>2, <2>3
<1>6. Last(challenge', c)
  BY <1>5, SizeAssumption DEF Last, Challenges
<1>7. ASSUME NEW q \in Pendings, q # p, Waits(pending'[q], now)
      PROVE  \E d \in Challenges :
               Way(q, challenge'[d], pending'[q].expiresAt) /\ Last(challenge', d)
  <2>1. pending'[q] = pending[q]
    BY <1>7
  <2>2. PICK d \in Challenges : Way(q, challenge[d], pending[q].expiresAt) /\ Last(challenge, d)
    BY <1>7, <2>1 DEF WayInv
  <2>3. d # c /\ d \notin S
    BY <1>7, <2>2, NoRows DEF Way, ForRegistration, Fresh
  <2>4. challenge'[d] = challenge[d]
    BY <1>1, <2>3 DEF InsertedRight
  <2>5. Last(challenge', d)
    <3>1. challenge'[d].of = q
      BY <2>2, <2>4 DEF Way
    <3>2. QED
      BY <1>3, <1>5, <1>7, <2>2, <2>4, <3>1 DEF Last
  <2>6. QED
    BY <2>1, <2>2, <2>4, <2>5
<1>8. ASSUME NEW q \in Pendings  PROVE EndsRight(pending'[q], now)
  BY DEF WayInv
<1>9. Waits(pending'[p], now) => Way(p, challenge'[c], pending'[p].expiresAt)
  BY <1>4 DEF Waits
<1>10. ASSUME NEW q \in Pendings
       PROVE  /\ EndsRight(pending'[q], now')
              /\ Waits(pending'[q], now') => \E d \in Challenges :
                   Way(q, challenge'[d], pending'[q].expiresAt) /\ Last(challenge', d)
  BY <1>6, <1>7, <1>8, <1>9
<1>11. QED
  BY <1>10 DEF WayInv

LEMMA WayStarts ==
  ASSUME CodeInv, WayInv, NEW e, NEW p \in Pendings, NEW role, NEW c \in Challenges,
         startRegistration(e, p, role, c)
  PROVE  WayInv'
<1>1. CASE IsRow(account[e])
  BY <1>1, WaySame DEF startRegistration
<1>2. CASE ~IsRow(account[e])
  <2> DEFINE limit == now + PENDING_TTL
             form == [email |-> e, role |-> role, expiresAt |-> limit,
                      consumedAt |-> None, closeReason |-> None]
  <2>1. /\ pending' = [pending EXCEPT ![p] = form] /\ now' = now
        /\ createChallenge(c, "REGISTRATION_VERIFY", p, limit)
    BY <1>2 DEF startRegistration
  <2>2. /\ Fresh(c) /\ Inserts(challenge', c, {}, "REGISTRATION_VERIFY", p, limit)
    BY <2>1, NoneReplaced DEF createChallenge, Inserts
  <2>3. form.expiresAt = limit
    OBVIOUS
  <2>4. limit \in Nat /\ limit <= now + DAY
    BY SizeAssumption DEF CodeInv, PENDING_TTL, DAY
  <2> HIDE DEF form, limit
  <2>5. /\ pending'[p] = form
        /\ \A q \in Pendings \ {p} : pending'[q] = pending[q]
    BY <2>1 DEF CodeInv, Table
  <2>6. EndsRight(pending'[p], now) /\ pending'[p].expiresAt = limit
    BY <2>3, <2>4, <2>5 DEF EndsRight
  <2>7. {} \in SUBSET Challenges /\ \A b \in {} : ForRegistration(challenge[b]) /\ challenge[b].of = p
    OBVIOUS
  <2>8. QED
    BY <2>1, <2>2, <2>4, <2>5, <2>6, <2>7, WayComes
<1>3. QED
  BY <1>1, <1>2

LEMMA WayResends ==
  ASSUME CodeInv, WayInv, NEW p \in Pendings, NEW c \in Challenges,
         resendRegistrationVerification(p, c)
  PROVE  WayInv'
<1> DEFINE limit == pending[p].expiresAt
<1>1. PICK old \in currentRegistrationChallenge(p) : replaceChallenge(c, old, limit)
  BY DEF resendRegistrationVerification
<1>2. pending' = pending /\ now' = now /\ IsRow(pending[p])
  BY DEF resendRegistrationVerification, OpenPending
<1>3. /\ old \in Challenges /\ ForRegistration(challenge[old])
      /\ challenge[old].purpose = "REGISTRATION_VERIFY" /\ challenge[old].of = p
  BY DEF currentRegistrationChallenge, Newest, ChallengesOf, ForRegistration
<1>4. Fresh(c) /\ Inserts(challenge', c, {old}, "REGISTRATION_VERIFY", p, limit)
  BY <1>1, <1>3 DEF replaceChallenge, Inserts
<1>5. EndsRight(pending[p], now) /\ limit \in Nat /\ limit <= now + DAY
  BY <1>2 DEF WayInv, EndsRight
<1>6. {old} \in SUBSET Challenges
      /\ \A b \in {old} : ForRegistration(challenge[b]) /\ challenge[b].of = p
  BY <1>3
<1>7. /\ EndsRight(pending'[p], now) /\ pending'[p].expiresAt = limit
      /\ \A q \in Pendings \ {p} : pending'[q] = pending[q]
  BY <1>2, <1>5
<1> HIDE DEF limit
<1>8. QED
  BY <1>2, <1>4, <1>5, <1>6, <1>7, WayComes

LEMMA WayConfirms ==
  ASSUME CodeInv, WayInv, NEW t \in open, NEW k, confirmRegistration(t, k)
  PROVE  WayInv'
<1> DEFINE p == pending[t.pending]
<1>1. /\ t \in Confirming /\ now' = now /\ Uses(challenge', t.challenge, t.at)
      /\ \E reason : closePending(t, reason)
  BY DEF confirmRegistration, ends, Confirming, Uses
<1>2. ConfirmRight(t, challenge[t.challenge], p)
  BY <1>1 DEF CodeInv, ConfirmsRight
<1>3. UsedRight(challenge', t.challenge)
  BY <1>1, <1>2, ConsumedFades DEF ConfirmRight, ForRegistration
<1>4. PICK reason : closePending(t, reason)
  BY <1>1
<1> DEFINE form == [p EXCEPT !.consumedAt = t.at, !.closeReason = reason]
<1>5. pending' = [pending EXCEPT ![t.pending] = form]
  BY <1>4 DEF closePending
<1>6. /\ t.pending \in Pendings /\ IsRow(p) /\ t.at # None /\ p.consumedAt = None
      /\ DOMAIN p = PendingFields /\ pending = [q \in Pendings |-> pending[q]]
  BY <1>2, Names DEF ConfirmRight, CodeInv, Table
<1>7. form.expiresAt = p.expiresAt /\ form.consumedAt = t.at
  BY <1>6 DEF PendingFields
<1> HIDE DEF form
<1>8. /\ pending'[t.pending] = form
      /\ \A q \in Pendings \ {t.pending} : pending'[q] = pending[q]
  BY <1>5, <1>6
<1>9. FormsWait(pending')
  BY <1>6, <1>7, <1>8 DEF FormsWait
<1>10. WaysLead(challenge', pending')
  <2> SUFFICES ASSUME NEW q \in Pendings, NEW c \in Challenges,
                      Way(q, challenge[c], pending[q].expiresAt), pending'[q] = pending[q]
               PROVE  challenge'[c] = challenge[c]
    BY DEF WaysLead
  <2>1. q # t.pending
    BY <1>6, <1>7, <1>8
  <2>2. c # t.challenge
    BY <1>2, <2>1 DEF Way, ConfirmRight
  <2>3. QED
    BY <1>3, <2>2 DEF UsedRight
<1>11. NoneRegisters(challenge')
  BY <1>3, FadingRegistersNone DEF UsedRight
<1>12. now' \in Instants /\ now <= now'
  BY <1>1, SizeAssumption DEF CodeInv
<1>13. QED
  BY <1>9, <1>10, <1>11, <1>12, WaysKept

LEMMA WayMistyped ==
  ASSUME CodeInv, WayInv, NEW c \in Challenges, failVerification(c)  PROVE WayInv'
<1> DEFINE last == challenge[c].attempts + 1 >= MAX_ATTEMPTS
           row == [challenge[c] EXCEPT
                     !.attempts = challenge[c].attempts + 1,
                     !.invalidatedAt = IF last THEN now ELSE challenge[c].invalidatedAt,
                     !.reason = IF last THEN "ATTEMPTS_EXHAUSTED" ELSE challenge[c].reason]
<1>1. /\ challenge' = [challenge EXCEPT ![c] = row] /\ Alive(challenge[c])
      /\ pending' = pending /\ now' = now
  BY DEF failVerification, activeAt, Live, Alive
<1>2. DOMAIN challenge[c] = ChallengeFields /\ challenge = [b \in Challenges |-> challenge[b]]
  BY <1>1 DEF CodeInv, Codes, Table, Alive
<1>3. /\ DOMAIN row = ChallengeFields
      /\ row.purpose = challenge[c].purpose /\ row.of = challenge[c].of
      /\ row.consumedAt = challenge[c].consumedAt /\ row.expiresAt = challenge[c].expiresAt
      /\ row.reason \in {challenge[c].reason, "ATTEMPTS_EXHAUSTED"}
      /\ row.invalidatedAt \in {challenge[c].invalidatedAt, now}
  BY <1>2 DEF ChallengeFields
<1> HIDE DEF row
<1>4. IsRow(row)
  BY <1>3, HasColumns DEF ChallengeFields
<1>5. challenge'[c] = row /\ \A b \in Challenges \ {c} : challenge'[b] = challenge[b]
  BY <1>1, <1>2
<1>6. now \in Nat /\ now' \in Instants /\ now <= now'
  BY <1>1, SizeAssumption DEF CodeInv
<1>7. ASSUME NEW p \in Pendings, Way(p, challenge[c], pending[p].expiresAt),
             Waits(pending[p], now)
      PROVE  Way(p, row, pending[p].expiresAt)
  <2>1. pending[p].expiresAt <= now + DAY
    BY <1>7 DEF WayInv, EndsRight, Waits
  <2>2. QED
    BY <1>3, <1>4, <1>6, <1>7, <2>1 DEF Way, ForRegistration
<1>8. WaysLead(challenge', pending')
  BY <1>5, <1>7 DEF WaysLead
<1>9. NoneRegisters(challenge')
  BY <1>1, <1>3, <1>5 DEF NoneRegisters, ForRegistration, Alive
<1>10. FormsWait(pending')
  BY <1>1 DEF FormsWait
<1>11. QED
  BY <1>6, <1>8, <1>9, <1>10, WaysKept

(* Codes for other purposes.                                                   *)
LEMMA WayBesides ==
  ASSUME CodeInv, WayInv, now' = now, pending' = pending,
         NEW c \in Challenges, Fresh(c), NEW S \in SUBSET Challenges,
         \A b \in S : IsRow(challenge[b]) /\ ~ForRegistration(challenge[b]),
         NEW purpose, purpose # "REGISTRATION_VERIFY", NEW of, NEW limit,
         Inserts(challenge', c, S, purpose, of, limit)
  PROVE  WayInv'
<1>1. InsertedRight(challenge', c, S, purpose, of, limit)
  BY Inserted
<1>2. OthersOnly(challenge')
  BY <1>1, NoRows DEF OthersOnly, InsertedRight, Fresh, ForRegistration
<1>3. ~ForRegistration(challenge'[c])
  BY <1>1 DEF InsertedRight, ForRegistration
<1>4. NoneRegisters(challenge')
  <2> SUFFICES ASSUME NEW b \in Challenges \ {c}, ForRegistration(challenge'[b])
               PROVE  ForRegistration(challenge[b]) /\ challenge'[b].of = challenge[b].of
    BY <1>3 DEF NoneRegisters
  <2>1. CodeFades(challenge[b], challenge'[b])
    BY <1>1 DEF InsertedRight
  <2>2. QED
    BY <2>1, FadedCode DEF ForRegistration, SameFlow
<1>5. QED
  BY <1>2, <1>4, WaysApart

LEMMA WayUsed ==
  ASSUME CodeInv, WayInv, now' = now, pending' = pending, NEW c \in Challenges,
         IsRow(challenge[c]), ~ForRegistration(challenge[c]), challenge' = Consumed(challenge, c)
  PROVE  WayInv'
<1>1. Uses(challenge', c, now) /\ now \in Instants
  BY DEF Consumed, CodeInv, Uses
<1>2. UsedRight(challenge', c)
  BY <1>1, ConsumedFades
<1>3. OthersOnly(challenge') /\ NoneRegisters(challenge')
  BY <1>2, FadingRegistersNone DEF UsedRight, OthersOnly
<1>4. QED
  BY <1>3, WaysApart

LEMMA WayOfStores ==
  ASSUME CodeInv, WayInv, NEW e, NEW c \in Challenges,
         \/ startPasswordRecovery(e, c) \/ provisionStoreWithOwner(e, c)
         \/ resendStoreActivation(e, c) \/ bootstrapAdmin(e, c)
  PROVE  WayInv'
<1>1. ASSUME now' = now, pending' = pending,
             NEW purpose \in {"STORE_ACTIVATION", "ADMIN_ACTIVATION"},
             NEW old \in Newest(ChallengesOf(purpose, e)),
             replaceChallenge(c, old, now + CHALLENGE_TTL)
      PROVE  WayInv'
  <2>1. /\ old \in Challenges /\ IsRow(challenge[old]) /\ challenge[old].purpose = purpose
        /\ ~ForRegistration(challenge[old])
    BY DEF Newest, ChallengesOf, ForRegistration
  <2>2. /\ Fresh(c)
        /\ Inserts(challenge', c, {old}, purpose, challenge[old].of, now + CHALLENGE_TTL)
    BY <1>1, <2>1 DEF replaceChallenge, Inserts
  <2>3. {old} \in SUBSET Challenges
        /\ \A b \in {old} : IsRow(challenge[b]) /\ ~ForRegistration(challenge[b])
    BY <2>1
  <2>4. QED
    BY <1>1, <2>2, <2>3, WayBesides
<1>2. ASSUME now' = now, pending' = pending,
             NEW purpose \in {"STORE_ACTIVATION", "ADMIN_ACTIVATION"}, Fresh(c),
             challenge' = insertChallenge(challenge, c, purpose, e, now + CHALLENGE_TTL)
      PROVE  WayInv'
  <2>1. Inserts(challenge', c, {}, purpose, e, now + CHALLENGE_TTL)
    BY <1>2, NoneReplaced DEF Inserts
  <2>2. QED
    BY <1>2, <2>1, WayBesides
<1>3. CASE startPasswordRecovery(e, c)
  <2> DEFINE S == LiveRecoveries(e)
  <2>1. /\ Fresh(c) /\ Inserts(challenge', c, S, "PASSWORD_RECOVERY", e, now + CHALLENGE_TTL)
        /\ pending' = pending /\ now' = now
    BY <1>3 DEF startPasswordRecovery, Inserts
  <2>2. /\ S \in SUBSET Challenges
        /\ \A b \in S : IsRow(challenge[b]) /\ ~ForRegistration(challenge[b])
    BY DEF LiveRecoveries, ChallengesOf, ForRegistration
  <2> HIDE DEF S
  <2>3. QED
    BY <2>1, <2>2, WayBesides
<1>4. CASE provisionStoreWithOwner(e, c)
  BY <1>2, <1>4 DEF provisionStoreWithOwner, createChallenge
<1>5. CASE resendStoreActivation(e, c)
  BY <1>1, <1>2, <1>5 DEF resendStoreActivation
<1>6. CASE bootstrapAdmin(e, c)
  BY <1>1, <1>2, <1>6 DEF bootstrapAdmin, createChallenge
<1>7. QED
  BY <1>3, <1>4, <1>5, <1>6

LEMMA WayCloses ==
  ASSUME CodeInv, WayInv, NEW e, NEW status, setStoreSecurityStatus(e, status)
  PROVE  WayInv'
<1> DEFINE S == {b \in ChallengesOf("STORE_ACTIVATION", e) : challenge[b].consumedAt = None}
           killed(b) == [challenge[b] EXCEPT !.invalidatedAt = now, !.reason = "STORE_CLOSED"]
<1>1. /\ pending' = pending /\ now' = now
      /\ challenge' = challenge \/ challenge' = Invalidated(challenge, S, "STORE_CLOSED")
  BY DEF setStoreSecurityStatus
<1>2. CASE challenge' = challenge
  BY <1>1, <1>2, WaySame
<1>3. CASE challenge' = Invalidated(challenge, S, "STORE_CLOSED")
  <2>1. \A b \in Challenges : challenge'[b] = IF b \in S THEN killed(b) ELSE challenge[b]
    BY <1>3 DEF Invalidated
  <2>2. ASSUME NEW b \in S
        PROVE  b \in Challenges /\ ~ForRegistration(challenge[b]) /\ ~ForRegistration(killed(b))
    <3>1. b \in Challenges /\ IsRow(challenge[b]) /\ challenge[b].purpose = "STORE_ACTIVATION"
      BY DEF ChallengesOf
    <3>2. DOMAIN challenge[b] = ChallengeFields
      BY <3>1 DEF CodeInv, Codes, Table
    <3>3. killed(b).purpose = "STORE_ACTIVATION"
      BY <3>1, <3>2 DEF ChallengeFields
    <3>4. QED
      BY <3>1, <3>3 DEF ForRegistration
  <2> HIDE DEF S, killed
  <2>3. OthersOnly(challenge') /\ NoneRegisters(challenge')
    BY <2>1, <2>2 DEF OthersOnly, NoneRegisters
  <2>4. QED
    BY <1>1, <2>3, WaysApart
<1>4. QED
  BY <1>1, <1>2, <1>3

LEMMA WayAdministering ==
  ASSUME CodeInv, WayInv, Administering  PROVE WayInv'
<1>1. ASSUME NEW c \in Challenges, verifyPasswordRecovery(c) \/ confirmStore(c) \/ confirmAdmin(c)
      PROVE  WayInv'
  BY <1>1, WayUsed DEF verifyPasswordRecovery, confirmStore, confirmAdmin, ForRegistration
<1>2. ASSUME NEW c \in Challenges, resetPassword(c) \/ setupInitialPassword(c)
      PROVE  WayInv'
  BY <1>2, WaySame DEF resetPassword, setupInitialPassword
<1>3. ASSUME NEW e \in Emails, NEW s, setDriverAccountStatus(e, s)
      PROVE  WayInv'
  BY <1>3, WaySame DEF setDriverAccountStatus
<1>4. QED
  BY <1>1, <1>2, <1>3, WayOfStores, WayCloses DEF Administering

LEMMA WayCleanup ==
  ASSUME CodeInv, WayInv, Cleanup  PROVE WayInv'
<1>1. now \in Nat /\ now' = now /\ now' \in Instants /\ DAY \in Nat /\ now <= now'
  <2>1. now' = now
    BY MailQuiet DEF Cleanup, cleanupDeletesTicket, cleanupDeletesChallenge, cleanupDeletesPending
  <2>2. QED
    BY <2>1, SizeAssumption DEF CodeInv, DAY
<1>2. ASSUME NEW S \in SUBSET Challenges, \A c \in S : IsRow(challenge[c]), Without(S),
             FormsWait(pending'),
             \A p \in Pendings, c \in S : Waits(pending[p], now) /\ pending'[p] = pending[p]
               => ~Way(p, challenge[c], pending[p].expiresAt)
      PROVE  WayInv'
  <2>1. WaysLead(challenge', pending') /\ NoneRegisters(challenge')
    BY <1>2, WithoutFades, FadingRegistersNone DEF WaysLead
  <2>2. QED
    BY <1>1, <1>2, <2>1, WaysKept
<1>3. ASSUME NEW c \in Challenges, cleanupDeletesChallenge(c)  PROVE WayInv'
  <2>1. /\ Without({c}) /\ IsRow(challenge[c]) /\ pending' = pending
        /\ \/ Old(challenge[c].expiresAt) \/ Old(challenge[c].consumedAt)
           \/ Old(challenge[c].invalidatedAt)
    BY <1>3 DEF cleanupDeletesChallenge
  <2>2. ASSUME NEW p \in Pendings, Waits(pending[p], now)
        PROVE  ~Way(p, challenge[c], pending[p].expiresAt)
    <3>1. pending[p].expiresAt \in Nat /\ pending[p].expiresAt > now
      BY <2>2 DEF Waits, WayInv, EndsRight
    <3>2. QED
      BY <1>1, <2>1, <3>1 DEF Way, Old
  <2>3. FormsWait(pending')
    BY <2>1 DEF FormsWait
  <2>4. {c} \in SUBSET Challenges /\ \A b \in {c} : IsRow(challenge[b])
    BY <2>1
  <2>5. QED
    BY <1>2, <2>1, <2>2, <2>3, <2>4
<1>4. ASSUME NEW p \in Pendings, cleanupDeletesPending(p)  PROVE WayInv'
  <2> DEFINE S == ChallengesOf("REGISTRATION_VERIFY", p)
  <2>1. /\ IsRow(pending[p]) /\ pending' = [pending EXCEPT ![p] = Gone] /\ Without(S)
    BY <1>4 DEF cleanupDeletesPending
  <2>2. S \in SUBSET Challenges /\ \A c \in S : IsRow(challenge[c]) /\ challenge[c].of = p
    BY DEF ChallengesOf
  <2> HIDE DEF S
  <2>3. /\ pending'[p] = Gone /\ pending[p] # Gone
        /\ \A q \in Pendings \ {p} : pending'[q] = pending[q]
    BY <2>1, NoRows DEF CodeInv, Table
  <2>4. FormsWait(pending')
    BY <2>3 DEF FormsWait
  <2>5. \A q \in Pendings, c \in S : pending'[q] = pending[q]
          => ~Way(q, challenge[c], pending[q].expiresAt)
    BY <2>2, <2>3 DEF Way
  <2>6. QED
    BY <1>2, <2>1, <2>2, <2>4, <2>5
<1>5. ASSUME NEW c \in Challenges, cleanupDeletesTicket(c)  PROVE WayInv'
  BY <1>5, WaySame DEF cleanupDeletesTicket
<1>6. QED
  BY <1>3, <1>4, <1>5, MailQuiet, WaySame, <1>1 DEF Cleanup, cleanupCancelsMail, cleanupDeletesMail

LEMMA WayStep == ASSUME CodeInv, WayInv, [Next]_vars  PROVE WayInv'
<1>1. CASE Registering
  BY <1>1, WayStarts, WayResends, WayConfirms, WayMistyped, WaySame DEF Registering, confirmReads
<1>2. CASE SigningIn
  BY <1>2, SignInQuiet, WaySame DEF SigningIn, revokeAllSessions
<1>3. CASE Dispatch \/ UNCHANGED vars
  BY <1>3, MailQuiet, WaySame DEF vars
<1>4. CASE TimePasses
  <2>1. now' \in Instants /\ now' > now /\ pending' = pending /\ challenge' = challenge
    BY <1>4 DEF TimePasses
  <2>2. /\ now <= now' /\ FormsWait(pending') /\ WaysLead(challenge', pending')
        /\ NoneRegisters(challenge')
    BY <2>1, SizeAssumption DEF CodeInv, FormsWait, WaysLead, NoneRegisters
  <2>3. QED
    BY <2>1, <2>2, WaysKept
<1>5. QED
  BY <1>1, <1>2, <1>3, <1>4, WayAdministering, WayCleanup DEF Next

(* While a registration is open its sender can be sent another code: wrong     *)
(* attempts, resendings, expiry and the cleanup leave one that can be replaced. *)
THEOREM OpenFlowsRecover == Spec => []OpenFlowIsRecoverable
<1>1. CodeInv /\ WayInv => OpenFlowIsRecoverable
  <2> SUFFICES ASSUME CodeInv, WayInv, NEW p \in Pendings, OpenPending(p)
               PROVE  currentRegistrationChallenge(p) # {}
    BY DEF OpenFlowIsRecoverable
  <2>1. PICK c \in Challenges : Way(p, challenge[c], pending[p].expiresAt) /\ Last(challenge, c)
    BY DEF OpenPending, Waits, WayInv
  <2> DEFINE S == {b \in ChallengesOf("REGISTRATION_VERIFY", p) : replacementAllowed(b)}
  <2>2. c \in S
    BY <2>1 DEF Way, ForRegistration, ChallengesOf, replacementAllowed
  <2>3. \A b \in S : b <= c
    BY <2>1 DEF Last, Way, ForRegistration, ChallengesOf
  <2> HIDE DEF S
  <2>4. c \in Newest(S)
    BY <2>2, <2>3 DEF Newest
  <2>5. QED
    BY <2>4 DEF currentRegistrationChallenge, S
<1>2. CodeInv /\ WayInv /\ [Next]_vars => (CodeInv /\ WayInv)'
  BY CodeStep, WayStep
<1>3. QED
  BY <1>1, <1>2, CodeInit, WayInit, PTL DEF Spec


-----------------------------------------------------------------------------
(* Types.  What each row keeps to, with what that takes: the code of an        *)
(* administrator is of an administrator, a queued message has an attempt left, *)
(* and so has a dispatch that works on one.                                    *)

FormTyped(x) ==
  IsRow(x) => /\ x.role \in {"CUSTOMER", "DRIVER"}
              /\ x.closeReason \in {None, "CONFIRMED", "ACCOUNT_COLLISION"}

CodeTyped(x) ==
  IsRow(x) => /\ x.purpose \in Purposes
              /\ x.attempts \in 0..MAX_ATTEMPTS
              /\ x.attempts = MAX_ATTEMPTS => ~Alive(x)
              /\ x.reason = None <=> x.invalidatedAt = None

Tries == 0..(Len(NOTICE_ATTEMPT_OFFSETS) - 1)

MailTyped(x) ==
  IsRow(x) => /\ x.status \in MailStatuses
              /\ x.status = "PROCESSING" <=> x.lease # None
              /\ x.attempts \in 0..Len(NOTICE_ATTEMPT_OFFSETS)
              /\ Queued(x) => x.attempts \in Tries

WorkerTyped(k) ==
  /\ k.at # None => k.at \in Nat
  /\ k.next # "CLAIM" => k.at \in Nat /\ k.attempts \in Tries

AccountsTyped == \A e \in Emails : IsRow(account[e]) => AccountRight(account[e])
FormsTyped == \A p \in Pendings : FormTyped(pending[p])
CodesTyped ==
  \A c \in Challenges :
    /\ CodeTyped(challenge[c])
    /\ ForAdmin(challenge[c]) => account[challenge[c].of].role = "ADMIN"
MailTypes(rows) == \A r \in Rows : MailTyped(rows[r])
WorkersTyped == worker = [w \in Workers |-> worker[w]] /\ \A w \in Workers : WorkerTyped(worker[w])

TypeInv == AccountsTyped /\ FormsTyped /\ CodesTyped /\ MailTypes(mail) /\ WorkersTyped

LEMMA FiveTries == Len(NOTICE_ATTEMPT_OFFSETS) = 5 /\ Tries = 0..4
BY DEF NOTICE_ATTEMPT_OFFSETS, Tries

LEMMA TypeInit == Init => TypeInv
<1> SUFFICES ASSUME Init  PROVE TypeInv
  OBVIOUS
<1>1. PICK s \in Scenarios : account = s.account
  BY DEF Init
<1>2. AccountsTyped
  BY <1>1, StartAssumption DEF AccountsTyped
<1>3. FormsTyped /\ CodesTyped /\ MailTypes(mail)
  BY NoRows DEF Init, FormsTyped, FormTyped, CodesTyped, CodeTyped, ForAdmin, MailTypes, MailTyped
<1>4. WorkersTyped
  BY DEF Init, Idle, WorkersTyped, WorkerTyped
<1>5. QED
  BY <1>2, <1>3, <1>4 DEF TypeInv

(* Accounts: what a step writes is right, and whoever exists keeps the role.   *)
AccountTurns(x, y) == y = x \/ (AccountRight(y) /\ (IsRow(x) => y.role = x.role))
AccountsTurn == \A e \in Emails : AccountTurns(account[e], account'[e])

LEMMA AccountWrites ==
  ASSUME CodeInv, NEW e, NEW row, e \in Emails => AccountTurns(account[e], row),
         account' = [account EXCEPT ![e] = row]
  PROVE  AccountsTurn
BY DEF CodeInv, Accounts, AccountsTurn, AccountTurns


LEMMA AccountsKeptTyped ==
  ASSUME CodeInv, TypeInv, NEW c, NEW e, NEW status, NEW k,
         \/ resetPassword(c) \/ setupInitialPassword(c)
         \/ c \in Challenges /\ confirmAdmin(c)
         \/ status \in {"ACTIVE", "SUSPENDED", "CLOSED"} /\ setStoreSecurityStatus(e, status)
         \/ status \in {"ACTIVE", "BLOCKED"} /\ setDriverAccountStatus(e, status)
         \/ revokeAllSessions(k)
  PROVE  AccountsTurn
<1> DEFINE Columns(x) == x \in Emails => DOMAIN account[x] = AccountFields /\ AccountRight(account[x])
<1>1. ASSUME NEW x, IsRow(account[x])  PROVE Columns(x)
  BY <1>1, NoRows DEF TypeInv, AccountsTyped, CodeInv, Accounts
<1>2. ASSUME NEW x, IsRow(account[x]),
             account' = [account EXCEPT ![x] = [account[x] EXCEPT !.version = account[x].version + 1]]
      PROVE  AccountsTurn
  <2> DEFINE row == [account[x] EXCEPT !.version = account[x].version + 1]
  <2>1. Columns(x)
    BY <1>1, <1>2
  <2>2. x \in Emails => /\ row.role = account[x].role /\ row.status = account[x].status
                        /\ row.verified = account[x].verified
                        /\ row.password = account[x].password /\ row.store = account[x].store
    BY <2>1 DEF AccountFields
  <2>3. account' = [account EXCEPT ![x] = row]
    BY <1>2
  <2> HIDE DEF row
  <2>4. x \in Emails => AccountTurns(account[x], row)
    BY <2>1, <2>2 DEF AccountTurns, AccountRight
  <2>5. QED
    BY <2>3, <2>4, AccountWrites
<1>3. CASE resetPassword(c)
  <2> DEFINE x == ticket[c].of
  <2>1. /\ account' = [account EXCEPT ![x] = [account[x] EXCEPT !.version = account[x].version + 1]]
        /\ IsRow(account[x])
    BY <1>3 DEF resetPassword, recoveryEligible
  <2> HIDE DEF x
  <2>2. QED
    BY <1>2, <2>1
<1>4. CASE revokeAllSessions(k)
  <2> DEFINE x == token[k].of
  <2>1. /\ account' = [account EXCEPT ![x] = [account[x] EXCEPT !.version = account[x].version + 1]]
        /\ IsRow(account[x])
    BY <1>4 DEF revokeAllSessions, resolveLivePrincipal, assertLoginable
  <2> HIDE DEF x
  <2>2. QED
    BY <1>2, <2>1
<1>5. CASE setupInitialPassword(c)
  <2> DEFINE x == ticket[c].of
             row == [account[x] EXCEPT !.status = "ACTIVE", !.verified = TRUE, !.password = TRUE,
                                       !.store = "ACTIVE"]
  <2>1. /\ account' = [account EXCEPT ![x] = row]
        /\ IsRow(account[x]) /\ account[x].role = "STORE"
    BY <1>5 DEF setupInitialPassword, PendingStore
  <2> HIDE DEF x
  <2>2. Columns(x)
    BY <1>1, <2>1
  <2>3. x \in Emails => /\ row.role = account[x].role /\ row.status = "ACTIVE"
                        /\ row.verified = TRUE /\ row.password = TRUE /\ row.store = "ACTIVE"
    BY <2>2 DEF AccountFields
  <2> HIDE DEF row
  <2>4. x \in Emails => AccountTurns(account[x], row)
    BY <2>1, <2>3, Names DEF AccountTurns, AccountRight
  <2>5. QED
    BY <2>1, <2>4, AccountWrites
<1>6. CASE c \in Challenges /\ confirmAdmin(c)
  <2> DEFINE x == challenge[c].of
             row == [account[x] EXCEPT !.status = "ACTIVE", !.verified = TRUE]
  <2>1. /\ ForAdmin(challenge[c])
        /\ account' = account \/ account' = [account EXCEPT ![x] = row]
    BY <1>6 DEF confirmAdmin, ForAdmin
  <2>2. x \in Emails /\ account[x] # NoRow /\ account[x].role = "ADMIN"
    BY <1>6, <2>1 DEF CodeInv, Origins, HasOrigin, TypeInv, CodesTyped
  <2>3. DOMAIN account[x] = AccountFields
    BY <2>2 DEF CodeInv, Accounts
  <2>4. IsRow(account[x])
    BY <2>3, HasColumns DEF AccountFields
  <2> HIDE DEF x
  <2>5. Columns(x)
    BY <1>1, <2>4
  <2>6. /\ row.role = account[x].role /\ row.status = "ACTIVE" /\ row.verified = TRUE
        /\ row.password = account[x].password /\ row.store = account[x].store
    BY <2>3 DEF AccountFields
  <2> HIDE DEF row
  <2>7. AccountTurns(account[x], row)
    BY <2>2, <2>5, <2>6 DEF AccountTurns, AccountRight
  <2>8. CASE account' = account
    BY <2>8 DEF AccountsTurn, AccountTurns
  <2>9. QED
    BY <2>1, <2>7, <2>8, AccountWrites
<1>7. CASE status \in {"ACTIVE", "SUSPENDED", "CLOSED"} /\ setStoreSecurityStatus(e, status)
  <2>1. PICK row : /\ account' = [account EXCEPT ![e] = row]
                   /\ \/ row = [account[e] EXCEPT !.store = status]
                      \/ row = [account[e] EXCEPT !.store = status, !.version = account[e].version + 1]
    BY <1>7 DEF setStoreSecurityStatus
  <2>2. IsRow(account[e]) /\ account[e].store # None
    BY <1>7 DEF setStoreSecurityStatus
  <2>3. Columns(e)
    BY <1>1, <2>2
  <2>4. e \in Emails => /\ row.role = account[e].role /\ row.status = account[e].status
                        /\ row.verified = account[e].verified
                        /\ row.password = account[e].password /\ row.store = status
    BY <2>1, <2>3 DEF AccountFields
  <2>5. status # None
    BY <1>7, Names
  <2>6. e \in Emails => AccountTurns(account[e], row)
    BY <2>2, <2>3, <2>4, <2>5 DEF AccountTurns, AccountRight
  <2>7. QED
    BY <2>1, <2>6, AccountWrites
<1>8. CASE status \in {"ACTIVE", "BLOCKED"} /\ setDriverAccountStatus(e, status)
  <2>1. PICK n : /\ account' = [account EXCEPT ![e] =
                      [account[e] EXCEPT !.status = status, !.version = n]]
                 /\ IsRow(account[e]) /\ account[e].role = "DRIVER"
    BY <1>8 DEF setDriverAccountStatus
  <2> DEFINE row == [account[e] EXCEPT !.status = status, !.version = n]
  <2>2. Columns(e)
    BY <1>1, <2>1
  <2>3. e \in Emails => /\ row.role = account[e].role /\ row.status = status
                        /\ row.verified = account[e].verified
                        /\ row.password = account[e].password /\ row.store = account[e].store
    BY <2>2 DEF AccountFields
  <2> HIDE DEF row
  <2>4. e \in Emails => AccountTurns(account[e], row)
    BY <1>8, <2>1, <2>2, <2>3 DEF AccountTurns, AccountRight
  <2>5. QED
    BY <2>1, <2>4, AccountWrites DEF row
<1>9. QED
  BY <1>3, <1>4, <1>5, <1>6, <1>7, <1>8

LEMMA AccountsMadeTyped ==
  ASSUME CodeInv, NEW c \in Challenges, NEW e \in Emails,
         provisionStoreWithOwner(e, c) \/ bootstrapAdmin(e, c)
  PROVE  AccountsTurn
<1>1. CASE provisionStoreWithOwner(e, c)
  <2> DEFINE new == NewAccount("STORE", "PENDING_EMAIL", FALSE, "ADMIN_PROVISIONED", FALSE)
             row == [new EXCEPT !.store = "PENDING_ACTIVATION"]
  <2>1. account[e] = NoRow /\ account' = [account EXCEPT ![e] = row]
    BY <1>1 DEF provisionStoreWithOwner
  <2>2. /\ row.role = "STORE" /\ row.status = "PENDING_EMAIL" /\ row.verified = FALSE
        /\ row.password = FALSE /\ row.store = "PENDING_ACTIVATION"
    BY DEF NewAccount
  <2> HIDE DEF row
  <2>3. AccountTurns(account[e], row)
    BY <2>1, <2>2, Names, NoRows DEF AccountTurns, AccountRight
  <2>4. QED
    BY <2>1, <2>3, AccountWrites
<1>2. CASE bootstrapAdmin(e, c)
  <2> DEFINE row == NewAccount("ADMIN", "PENDING_EMAIL", FALSE, "BOOTSTRAP", TRUE)
  <2>1. \/ account' = account
        \/ account[e] = NoRow /\ account' = [account EXCEPT ![e] = row]
    BY <1>2 DEF bootstrapAdmin
  <2>2. /\ row.role = "ADMIN" /\ row.status = "PENDING_EMAIL" /\ row.verified = FALSE
        /\ row.password = TRUE /\ row.store = None
    BY DEF NewAccount
  <2> HIDE DEF row
  <2>3. account[e] = NoRow => AccountTurns(account[e], row)
    BY <2>2, NoRows DEF AccountTurns, AccountRight
  <2>4. CASE account' = account
    BY <2>4 DEF AccountsTurn, AccountTurns
  <2>5. QED
    BY <2>1, <2>3, <2>4, AccountWrites
<1>3. QED
  BY <1>1, <1>2

LEMMA FormIs ==
  ASSUME CodeInv, TypeInv, NEW t \in open, NEW k, confirmRegistration(t, k)
  PROVE  /\ t \in Confirming /\ t.pending \in Pendings /\ t.challenge \in Challenges
         /\ t.at \in Instants
         /\ DOMAIN pending[t.pending] = PendingFields
         /\ pending[t.pending].role \in {"CUSTOMER", "DRIVER"}
<1>1. t \in Confirming
  BY DEF confirmRegistration, ends, Confirming
<1>2. /\ t.pending \in Pendings /\ t.challenge \in Challenges /\ t.at \in Instants
      /\ IsRow(pending[t.pending])
  BY <1>1 DEF CodeInv, ConfirmsRight, ConfirmRight
<1>3. QED
  BY <1>1, <1>2 DEF CodeInv, Table, TypeInv, FormsTyped, FormTyped

LEMMA AccountConfirmed ==
  ASSUME CodeInv, TypeInv, NEW t \in open, NEW k, confirmRegistration(t, k)
  PROVE  AccountsTurn
<1> DEFINE p == pending[t.pending]
           status == IF p.role = "DRIVER" THEN "PENDING_APPROVAL" ELSE "ACTIVE"
           created == NewAccount(p.role, status, TRUE, t.pending, TRUE)
<1>1. \/ account' = account
      \/ ~IsRow(account[p.email]) /\ account' = [account EXCEPT ![p.email] = created]
  BY DEF confirmRegistration
<1>2. p.role \in {"CUSTOMER", "DRIVER"}
  BY FormIs
<1>3. /\ created.role = p.role /\ created.status = status /\ created.verified = TRUE
      /\ created.password = TRUE /\ created.store = None
  BY DEF NewAccount
<1> HIDE DEF p, created
<1>4. AccountRight(created)
  BY <1>2, <1>3 DEF AccountRight
<1>5. CASE account' = account
  BY <1>5 DEF AccountsTurn, AccountTurns
<1>6. QED
  BY <1>1, <1>4, <1>5, AccountWrites DEF AccountTurns

LEMMA AccountsTurnStep == ASSUME CodeInv, TypeInv, [Next]_vars  PROVE AccountsTurn
<1>1. ASSUME account' = account  PROVE AccountsTurn
  BY <1>1 DEF AccountsTurn, AccountTurns
<1>2. CASE Registering
  BY <1>1, <1>2, AccountConfirmed DEF Registering, startRegistration, confirmReads,
     resendRegistrationVerification, failVerification
<1>3. CASE Administering
  <2>1. ASSUME NEW c \in Challenges, NEW e \in Emails,
               startPasswordRecovery(e, c) \/ resendStoreActivation(e, c)
        PROVE  AccountsTurn
    BY <1>1, <2>1 DEF startPasswordRecovery, resendStoreActivation
  <2>2. ASSUME NEW c \in Challenges, verifyPasswordRecovery(c) \/ confirmStore(c)
        PROVE  AccountsTurn
    BY <1>1, <2>2 DEF verifyPasswordRecovery, confirmStore
  <2>3. ASSUME NEW c \in Challenges, resetPassword(c) \/ setupInitialPassword(c) \/ confirmAdmin(c)
        PROVE  AccountsTurn
    BY <2>3, AccountsKeptTyped
  <2>4. ASSUME NEW c \in Challenges, NEW e \in Emails,
               provisionStoreWithOwner(e, c) \/ bootstrapAdmin(e, c)
        PROVE  AccountsTurn
    BY <2>4, AccountsMadeTyped
  <2>5. ASSUME NEW e \in Emails,
               \/ \E s \in {"ACTIVE", "SUSPENDED", "CLOSED"} : setStoreSecurityStatus(e, s)
               \/ \E s \in {"ACTIVE", "BLOCKED"} : setDriverAccountStatus(e, s)
        PROVE  AccountsTurn
    BY <2>5, AccountsKeptTyped
  <2>6. QED
    BY <1>3, <2>1, <2>2, <2>3, <2>4, <2>5 DEF Administering
<1>4. CASE SigningIn
  <2>1. ASSUME NEW k, revokeAllSessions(k)  PROVE AccountsTurn
    BY <2>1, AccountsKeptTyped
  <2>2. QED
    BY <1>1, <1>4, <2>1, SignInQuiet DEF SigningIn
<1>5. CASE Dispatch \/ TimePasses \/ UNCHANGED vars
  BY <1>1, <1>5, MailQuiet DEF TimePasses, vars
<1>6. CASE Cleanup
  BY <1>1, <1>6, MailQuiet DEF Cleanup, cleanupDeletesTicket, cleanupDeletesChallenge,
     cleanupDeletesPending
<1>7. QED
  BY <1>2, <1>3, <1>4, <1>5, <1>6 DEF Next

(* Registrations.                                                              *)
LEMMA FormsTypedStep == ASSUME CodeInv, TypeInv, [Next]_vars  PROVE FormsTyped'
<1>1. ASSUME \A p \in Pendings : pending'[p] \in {pending[p], Gone}  PROVE FormsTyped'
  BY <1>1, NoRows DEF TypeInv, FormsTyped, FormTyped
<1>2. ASSUME NEW p \in Pendings, NEW row, FormTyped(row), pending' = [pending EXCEPT ![p] = row]
      PROVE  FormsTyped'
  BY <1>2 DEF TypeInv, FormsTyped, CodeInv, Table
<1>3. CASE Registering
  <2>1. ASSUME NEW c \in Challenges, NEW p \in Pendings, NEW e \in Emails,
               NEW role \in {"CUSTOMER", "DRIVER"}, startRegistration(e, p, role, c)
        PROVE  FormsTyped'
    <3> DEFINE form == [email |-> e, role |-> role, expiresAt |-> now + PENDING_TTL,
                        consumedAt |-> None, closeReason |-> None]
    <3>1. pending' = pending \/ pending' = [pending EXCEPT ![p] = form]
      BY <2>1 DEF startRegistration
    <3>2. FormTyped(form)
      BY DEF FormTyped
    <3> HIDE DEF form
    <3>3. QED
      BY <1>1, <1>2, <3>1, <3>2
  <2>2. ASSUME NEW t \in open, NEW k \in Tokens, confirmRegistration(t, k)  PROVE FormsTyped'
    <3> DEFINE p == pending[t.pending]
               form(reason) == [p EXCEPT !.consumedAt = t.at, !.closeReason = reason]
    <3>1. t.pending \in Pendings /\ DOMAIN p = PendingFields /\ p.role \in {"CUSTOMER", "DRIVER"}
      BY <2>2, FormIs
    <3>2. PICK reason \in {"ACCOUNT_COLLISION", "CONFIRMED"} :
            pending' = [pending EXCEPT ![t.pending] = form(reason)]
      BY <2>2 DEF confirmRegistration, closePending
    <3>3. form(reason).role = p.role /\ form(reason).closeReason = reason
      BY <3>1 DEF PendingFields
    <3> HIDE DEF p, form
    <3>4. FormTyped(form(reason))
      BY <3>1, <3>3 DEF FormTyped
    <3>5. QED
      BY <1>2, <3>1, <3>2, <3>4
  <2>3. QED
    BY <1>1, <1>3, <2>1, <2>2 DEF Registering, confirmReads, resendRegistrationVerification,
       failVerification
<1>4. CASE Administering
  BY <1>1, <1>4 DEF Administering, verifyPasswordRecovery, resetPassword, confirmStore,
     setupInitialPassword, confirmAdmin, startPasswordRecovery, provisionStoreWithOwner,
     resendStoreActivation, bootstrapAdmin, setStoreSecurityStatus, setDriverAccountStatus
<1>5. CASE SigningIn
  BY <1>1, <1>5, SignInQuiet DEF SigningIn, revokeAllSessions
<1>6. CASE Dispatch \/ TimePasses \/ UNCHANGED vars
  BY <1>1, <1>6, MailQuiet DEF TimePasses, vars
<1>7. CASE Cleanup
  <2>1. ASSUME NEW p \in Pendings, cleanupDeletesPending(p)  PROVE FormsTyped'
    <3>1. pending' = [pending EXCEPT ![p] = Gone] /\ FormTyped(Gone)
      BY <2>1, NoRows DEF cleanupDeletesPending, FormTyped
    <3>2. QED
      BY <1>2, <3>1
  <2>2. QED
    BY <1>1, <1>7, <2>1, MailQuiet DEF Cleanup, cleanupDeletesTicket, cleanupDeletesChallenge
<1>8. QED
  BY <1>3, <1>4, <1>5, <1>6, <1>7 DEF Next

(* Codes: one that was there is changed to one that is right and in the same   *)
(* flow, deleted or left; a new one is right, and an administrator's is his.   *)
CodeTurns(x, y) ==
  \/ y = x \/ y = Gone
  \/ CodeTyped(y) /\ IsRow(x) /\ SameFlow(x, y)
  \/ CodeTyped(y) /\ (ForAdmin(y) => y.of \in Emails /\ account'[y.of].role = "ADMIN")
CodesTurn == \A c \in Challenges : CodeTurns(challenge[c], challenge'[c])

LEMMA CodesTurned == ASSUME CodeInv, TypeInv, AccountsTurn, CodesTurn  PROVE CodesTyped'
<1> SUFFICES ASSUME NEW c \in Challenges
             PROVE  /\ CodeTyped(challenge'[c])
                    /\ ForAdmin(challenge'[c]) => account'[challenge'[c].of].role = "ADMIN"
  BY DEF CodesTyped
<1> DEFINE x == challenge[c]
           y == challenge'[c]
<1>1. CodeTyped(x)
  BY DEF TypeInv, CodesTyped
<1>2. ForAdmin(x) => x.of \in Emails /\ account[x.of] # NoRow /\ account[x.of].role = "ADMIN"
  BY DEF CodeInv, Origins, HasOrigin, TypeInv, CodesTyped
<1>3. \A e \in Emails : account[e] # NoRow => IsRow(account[e])
  <2>1. \A e \in Emails : account[e] # NoRow => DOMAIN account[e] = AccountFields
    BY DEF CodeInv, Accounts
  <2>2. QED
    BY <2>1, HasColumns DEF AccountFields
<1>4. ForAdmin(x) => account'[x.of].role = "ADMIN"
  BY <1>2, <1>3 DEF AccountsTurn, AccountTurns
<1>5. CodeTurns(x, y)
  BY DEF CodesTurn
<1>6. CASE y = x
  BY <1>1, <1>4, <1>6
<1>7. CASE y = Gone
  BY <1>7, NoRows DEF CodeTyped, ForAdmin
<1>8. CASE CodeTyped(y) /\ IsRow(x) /\ SameFlow(x, y)
  BY <1>4, <1>8 DEF ForAdmin, SameFlow
<1>9. CASE CodeTyped(y) /\ (ForAdmin(y) => y.of \in Emails /\ account'[y.of].role = "ADMIN")
  BY <1>9
<1>10. QED
  BY <1>5, <1>6, <1>7, <1>8, <1>9 DEF CodeTurns

LEMMA CodesLeft == ASSUME challenge' = challenge  PROVE CodesTurn
BY DEF CodesTurn, CodeTurns

LEMMA Columns ==
  ASSUME CodeInv, NEW c \in Challenges, IsRow(challenge[c])
  PROVE  DOMAIN challenge[c] = ChallengeFields
BY DEF CodeInv, Codes, Table

LEMMA KilledTyped ==
  ASSUME CodeInv, TypeInv, NEW c \in Challenges, IsRow(challenge[c]), NEW reason, reason # None
  PROVE  LET y == [challenge[c] EXCEPT !.invalidatedAt = now, !.reason = reason] IN
           CodeTyped(y) /\ SameFlow(challenge[c], y)
<1> DEFINE x == challenge[c]
           y == [x EXCEPT !.invalidatedAt = now, !.reason = reason]
<1>1. DOMAIN x = ChallengeFields
  BY Columns
<1>2. /\ y.purpose = x.purpose /\ y.of = x.of /\ y.attempts = x.attempts
      /\ y.invalidatedAt = now /\ y.reason = reason
  BY <1>1 DEF ChallengeFields
<1>3. CodeTyped(x)
  BY DEF TypeInv, CodesTyped
<1>4. now # None
  BY Names DEF CodeInv
<1> HIDE DEF y
<1>5. CodeTyped(y) /\ SameFlow(x, y)
  BY <1>2, <1>3, <1>4 DEF CodeTyped, SameFlow, Alive
<1>6. QED
  BY <1>5 DEF y

LEMMA UsedTyped ==
  ASSUME CodeInv, TypeInv, NEW c \in Challenges, IsRow(challenge[c]), NEW at \in Instants,
         Uses(challenge', c, at)
  PROVE  CodesTurn
<1> DEFINE x == challenge[c]
           y == [x EXCEPT !.consumedAt = at]
<1>1. DOMAIN x = ChallengeFields
  BY Columns
<1>2. /\ y.purpose = x.purpose /\ y.of = x.of /\ y.attempts = x.attempts
      /\ y.invalidatedAt = x.invalidatedAt /\ y.reason = x.reason /\ y.consumedAt = at
  BY <1>1 DEF ChallengeFields
<1>3. challenge' = [challenge EXCEPT ![c] = y]
  BY DEF Uses
<1>4. CodeTyped(x) /\ at # None
  BY Names DEF TypeInv, CodesTyped
<1> HIDE DEF y
<1>5. CodeTyped(y) /\ SameFlow(x, y)
  BY <1>2, <1>4 DEF CodeTyped, SameFlow, Alive
<1>6. QED
  BY <1>3, <1>5 DEF CodesTurn, CodeTurns, CodeInv, Codes, Table

LEMMA InsertTyped ==
  ASSUME CodeInv, TypeInv, NEW c \in Challenges, NEW S \in SUBSET Challenges,
         \A b \in S : IsRow(challenge[b]), NEW purpose \in Purposes, NEW of, NEW limit,
         Inserts(challenge', c, S, purpose, of, limit),
         purpose = "ADMIN_ACTIVATION" => of \in Emails /\ account'[of].role = "ADMIN"
  PROVE  CodesTurn
<1> DEFINE new == [purpose |-> purpose, of |-> of, attempts |-> 0, createdAt |-> now,
                   expiresAt |-> Min({now + CHALLENGE_TTL, limit}),
                   consumedAt |-> None, invalidatedAt |-> None, reason |-> None]
           killed(b) == [challenge[b] EXCEPT !.invalidatedAt = now, !.reason = "REPLACED"]
<1>1. /\ challenge' = [b \in Challenges |-> challenge'[b]] /\ challenge'[c] = new
      /\ \A b \in Challenges \ {c} : challenge'[b] = IF b \in S THEN killed(b) ELSE challenge[b]
  BY DEF Inserts, insertChallenge, Invalidated
<1>2. CodeTyped(new) /\ new.purpose = purpose /\ new.of = of
  BY SizeAssumption DEF CodeTyped
<1>3. \A b \in S : CodeTyped(killed(b)) /\ SameFlow(challenge[b], killed(b))
  BY KilledTyped, Names
<1> HIDE DEF new, killed
<1>4. CodeTurns(challenge[c], challenge'[c])
  BY <1>1, <1>2 DEF CodeTurns, ForAdmin
<1>5. \A b \in Challenges \ {c} : CodeTurns(challenge[b], challenge'[b])
  BY <1>1, <1>3 DEF CodeTurns
<1>6. QED
  BY <1>4, <1>5 DEF CodesTurn

LEMMA SentTyped ==
  ASSUME CodeInv, TypeInv, NEW c \in Challenges, NEW purpose \in Purposes, NEW of, NEW limit,
         createChallenge(c, purpose, of, limit),
         purpose = "ADMIN_ACTIVATION" => of \in Emails /\ account'[of].role = "ADMIN"
  PROVE  CodesTurn
<1>1. Inserts(challenge', c, {}, purpose, of, limit)
  BY NoneReplaced DEF createChallenge, Inserts
<1>2. QED
  BY <1>1, InsertTyped

LEMMA ReplacedTyped ==
  ASSUME CodeInv, TypeInv, account' = account, NEW c \in Challenges, NEW old \in Challenges,
         NEW limit, replaceChallenge(c, old, limit)
  PROVE  CodesTurn
<1>1. /\ IsRow(challenge[old])
      /\ Inserts(challenge', c, {old}, challenge[old].purpose, challenge[old].of, limit)
  BY DEF replaceChallenge, Inserts, replacementAllowed
<1>2. /\ challenge[old].purpose \in Purposes
      /\ challenge[old].purpose = "ADMIN_ACTIVATION" =>
           challenge[old].of \in Emails /\ account'[challenge[old].of].role = "ADMIN"
  BY <1>1 DEF TypeInv, CodesTyped, CodeTyped, ForAdmin, CodeInv, Origins, HasOrigin
<1>3. {old} \in SUBSET Challenges /\ \A b \in {old} : IsRow(challenge[b])
  BY <1>1
<1>4. QED
  BY <1>1, <1>2, <1>3, InsertTyped

LEMMA MistypedTyped ==
  ASSUME CodeInv, TypeInv, NEW c \in Challenges, failVerification(c)  PROVE CodesTurn
<1> DEFINE x == challenge[c]
           last == x.attempts + 1 >= MAX_ATTEMPTS
           y == [x EXCEPT !.attempts = x.attempts + 1,
                          !.invalidatedAt = IF last THEN now ELSE x.invalidatedAt,
                          !.reason = IF last THEN "ATTEMPTS_EXHAUSTED" ELSE x.reason]
<1>1. /\ challenge' = [challenge EXCEPT ![c] = y]
      /\ IsRow(x) /\ x.reason = None /\ x.attempts < MAX_ATTEMPTS
  BY DEF failVerification, activeAt, Live
<1>2. DOMAIN x = ChallengeFields
  BY <1>1, Columns
<1>3. /\ y.purpose = x.purpose /\ y.of = x.of /\ y.attempts = x.attempts + 1
      /\ y.invalidatedAt = (IF last THEN now ELSE x.invalidatedAt)
      /\ y.reason = (IF last THEN "ATTEMPTS_EXHAUSTED" ELSE x.reason)
  BY <1>2 DEF ChallengeFields
<1>4. CodeTyped(x) /\ now # None
  BY Names DEF TypeInv, CodesTyped, CodeInv
<1> HIDE DEF y
<1>5. x.attempts \in Nat /\ y.attempts \in 0..MAX_ATTEMPTS
  BY <1>1, <1>3, <1>4, SizeAssumption DEF CodeTyped
<1>6. y.attempts = MAX_ATTEMPTS => last
  BY <1>3, <1>5, SizeAssumption
<1> HIDE DEF last
<1>7. /\ y.reason = None <=> y.invalidatedAt = None
      /\ last => y.reason # None
  BY <1>1, <1>3, <1>4, Names DEF CodeTyped
<1>8. CodeTyped(y) /\ SameFlow(x, y)
  BY <1>1, <1>3, <1>4, <1>5, <1>6, <1>7 DEF CodeTyped, SameFlow, Alive
<1>9. QED
  BY <1>1, <1>8 DEF CodesTurn, CodeTurns, CodeInv, Codes, Table

LEMMA CodesRegistering ==
  ASSUME CodeInv, TypeInv, Registering  PROVE CodesTurn
<1>1. ASSUME NEW c \in Challenges, NEW p \in Pendings, NEW e, NEW role,
             startRegistration(e, p, role, c)
      PROVE  CodesTurn
  BY <1>1, SentTyped, CodesLeft DEF startRegistration, Purposes
<1>2. ASSUME NEW c \in Challenges, NEW p \in Pendings, resendRegistrationVerification(p, c)
      PROVE  CodesTurn
  <2>1. PICK old \in currentRegistrationChallenge(p) : replaceChallenge(c, old, pending[p].expiresAt)
    BY <1>2 DEF resendRegistrationVerification
  <2>2. old \in Challenges
    BY DEF currentRegistrationChallenge, Newest, ChallengesOf
  <2>3. account' = account
    BY <1>2 DEF resendRegistrationVerification
  <2>4. QED
    BY <2>1, <2>2, <2>3, ReplacedTyped
<1>3. ASSUME NEW t \in open, NEW k \in Tokens, confirmRegistration(t, k)  PROVE CodesTurn
  <2>1. t \in Confirming /\ Uses(challenge', t.challenge, t.at)
    BY <1>3 DEF confirmRegistration, ends, Confirming, Uses
  <2>2. t.challenge \in Challenges /\ t.at \in Instants /\ IsRow(challenge[t.challenge])
    BY <2>1 DEF CodeInv, ConfirmsRight, ConfirmRight, ForRegistration
  <2>3. QED
    BY <2>1, <2>2, UsedTyped
<1>4. QED
  BY <1>1, <1>2, <1>3, MistypedTyped, CodesLeft DEF Registering, confirmReads

LEMMA CodesAdministering ==
  ASSUME CodeInv, TypeInv, AccountsTurn, Administering  PROVE CodesTurn
<1>1. ASSUME NEW c \in Challenges, verifyPasswordRecovery(c) \/ confirmStore(c) \/ confirmAdmin(c)
      PROVE  CodesTurn
  <2>1. IsRow(challenge[c]) /\ Uses(challenge', c, now) /\ now \in Instants
    BY <1>1 DEF verifyPasswordRecovery, confirmStore, confirmAdmin, Consumed, Uses, CodeInv
  <2>2. QED
    BY <2>1, UsedTyped
<1>2. ASSUME NEW c \in Challenges, resetPassword(c) \/ setupInitialPassword(c)  PROVE CodesTurn
  BY <1>2, CodesLeft DEF resetPassword, setupInitialPassword
<1>3. ASSUME NEW c \in Challenges, NEW e \in Emails, startPasswordRecovery(e, c)  PROVE CodesTurn
  <2>1. Inserts(challenge', c, LiveRecoveries(e), "PASSWORD_RECOVERY", e, now + CHALLENGE_TTL)
    BY <1>3 DEF startPasswordRecovery, Inserts
  <2>2. /\ LiveRecoveries(e) \in SUBSET Challenges
        /\ \A b \in LiveRecoveries(e) : IsRow(challenge[b])
    BY DEF LiveRecoveries, ChallengesOf
  <2>3. QED
    BY <2>1, <2>2, InsertTyped DEF Purposes
<1>4. ASSUME NEW c \in Challenges, NEW e \in Emails, provisionStoreWithOwner(e, c)  PROVE CodesTurn
  BY <1>4, SentTyped DEF provisionStoreWithOwner, Purposes
<1>5. ASSUME NEW c \in Challenges, NEW e \in Emails, resendStoreActivation(e, c)  PROVE CodesTurn
  <2>1. PICK old \in Newest(ChallengesOf("STORE_ACTIVATION", e)) :
          \/ replaceChallenge(c, old, now + CHALLENGE_TTL)
          \/ challenge' = insertChallenge(challenge, c, "STORE_ACTIVATION", e, now + CHALLENGE_TTL)
    BY <1>5 DEF resendStoreActivation
  <2>2. old \in Challenges /\ account' = account
    BY <1>5 DEF Newest, ChallengesOf, resendStoreActivation
  <2>3. CASE challenge' = insertChallenge(challenge, c, "STORE_ACTIVATION", e, now + CHALLENGE_TTL)
    <3>1. Inserts(challenge', c, {}, "STORE_ACTIVATION", e, now + CHALLENGE_TTL)
      BY <2>3, NoneReplaced DEF Inserts
    <3>2. QED
      BY <3>1, InsertTyped DEF Purposes
  <2>4. QED
    BY <2>1, <2>2, <2>3, ReplacedTyped
<1>6. ASSUME NEW c \in Challenges, NEW e \in Emails, bootstrapAdmin(e, c)  PROVE CodesTurn
  <2>1. CASE /\ account' = [account EXCEPT ![e] =
                  NewAccount("ADMIN", "PENDING_EMAIL", FALSE, "BOOTSTRAP", TRUE)]
             /\ createChallenge(c, "ADMIN_ACTIVATION", e, now + CHALLENGE_TTL)
    <3>1. account'[e].role = "ADMIN"
      BY <2>1 DEF CodeInv, Accounts, NewAccount
    <3>2. QED
      BY <2>1, <3>1, SentTyped DEF Purposes
  <2>2. ASSUME NEW old \in Newest(ChallengesOf("ADMIN_ACTIVATION", e)), account' = account,
               replaceChallenge(c, old, now + CHALLENGE_TTL)
        PROVE  CodesTurn
    <3>1. old \in Challenges
      BY DEF Newest, ChallengesOf
    <3>2. QED
      BY <2>2, <3>1, ReplacedTyped
  <2>3. QED
    BY <1>6, <2>1, <2>2 DEF bootstrapAdmin
<1>7. ASSUME NEW e \in Emails, NEW s, setStoreSecurityStatus(e, s)  PROVE CodesTurn
  <2> DEFINE S == {b \in ChallengesOf("STORE_ACTIVATION", e) : challenge[b].consumedAt = None}
  <2>1. challenge' = challenge \/ challenge' = Invalidated(challenge, S, "STORE_CLOSED")
    BY <1>7 DEF setStoreSecurityStatus
  <2>2. S \in SUBSET Challenges /\ \A b \in S : IsRow(challenge[b])
    BY DEF ChallengesOf
  <2> HIDE DEF S
  <2>3. CASE challenge' = Invalidated(challenge, S, "STORE_CLOSED")
    <3> SUFFICES ASSUME NEW b \in Challenges  PROVE CodeTurns(challenge[b], challenge'[b])
      BY DEF CodesTurn
    <3> DEFINE killed == [challenge[b] EXCEPT !.invalidatedAt = now, !.reason = "STORE_CLOSED"]
    <3>1. challenge'[b] = IF b \in S THEN killed ELSE challenge[b]
      BY <2>3 DEF Invalidated
    <3>2. b \in S => CodeTyped(killed) /\ SameFlow(challenge[b], killed)
      BY <2>2, KilledTyped, Names
    <3> HIDE DEF killed
    <3>3. QED
      BY <2>2, <3>1, <3>2 DEF CodeTurns
  <2>4. QED
    BY <2>1, <2>3, CodesLeft
<1>8. ASSUME NEW e \in Emails, NEW s, setDriverAccountStatus(e, s)  PROVE CodesTurn
  BY <1>8, CodesLeft DEF setDriverAccountStatus
<1>9. QED
  BY <1>1, <1>2, <1>3, <1>4, <1>5, <1>6, <1>7, <1>8 DEF Administering

LEMMA CodesTurnStep == ASSUME CodeInv, TypeInv, AccountsTurn, [Next]_vars  PROVE CodesTurn
<1>1. CASE SigningIn
  BY <1>1, SignInQuiet, CodesLeft DEF SigningIn, revokeAllSessions
<1>2. CASE Dispatch \/ TimePasses \/ UNCHANGED vars
  BY <1>2, MailQuiet, CodesLeft DEF TimePasses, vars
<1>3. CASE Cleanup
  <2>1. ASSUME NEW S, Without(S)  PROVE CodesTurn
    BY <2>1 DEF Without, CodesTurn, CodeTurns
  <2>2. QED
    BY <1>3, <2>1, MailQuiet, CodesLeft DEF Cleanup, cleanupDeletesTicket,
       cleanupDeletesChallenge, cleanupDeletesPending
<1>4. QED
  BY <1>1, <1>2, <1>3, CodesRegistering, CodesAdministering DEF Next

(* Mail.                                                                       *)
LEMMA EnqueuedTyped ==
  ASSUME NEW rows, Mails(rows), MailTypes(rows), NEW q, CodeInv
  PROVE  MailTypes(Enqueued(rows, q))
<1> DEFINE new == [status |-> "PENDING", attempts |-> 0, created |-> now,
                   nextAt |-> now, lease |-> None, updated |-> now]
<1>1. MailTyped(new)
  BY FiveTries DEF MailTyped, MailStatuses
<1>2. Enqueued(rows, q) = IF IsRow(rows[q]) THEN rows ELSE [rows EXCEPT ![q] = new]
  BY DEF Enqueued
<1> HIDE DEF new
<1>3. QED
  BY <1>1, <1>2 DEF MailTypes, Mails, Table

LEMMA CancelledTyped ==
  ASSUME NEW rows, Mails(rows), MailTypes(rows), NEW S
  PROVE  Mails(Cancelled(rows, S)) /\ MailTypes(Cancelled(rows, S))
<1> DEFINE next == Cancelled(rows, S)
<1>1. Mails(next)
  BY CancelledIs, NoRows DEF Mails, Table, Queued
<1>2. ASSUME NEW r \in Rows  PROVE MailTyped(next[r])
  <2> DEFINE y == [rows[r] EXCEPT !.status = "CANCELLED", !.lease = None, !.updated = now]
  <2>1. next[r] = rows[r] \/ (next[r] = y /\ IsRow(rows[r]))
    BY DEF Cancelled
  <2>2. IsRow(rows[r]) => DOMAIN rows[r] = MailFields
    BY DEF Mails, Table
  <2>3. IsRow(rows[r]) => y.status = "CANCELLED" /\ y.lease = None /\ y.attempts = rows[r].attempts
    BY <2>2 DEF MailFields
  <2> HIDE DEF y, next
  <2>4. MailTyped(rows[r])
    BY DEF MailTypes
  <2>5. IsRow(rows[r]) => MailTyped(y)
    BY <2>3, <2>4 DEF MailTyped, MailStatuses, Queued
  <2>6. QED
    BY <2>1, <2>4, <2>5
<1>3. QED
  BY <1>1, <1>2 DEF MailTypes

(* What the handlers do to the mail: they cancel some and send one.            *)
LEMMA MailHandled ==
  ASSUME CodeInv, MailInv, TypeInv,
         \/ mail' = mail
         \/ \E q : mail' = Enqueued(mail, q)
         \/ \E S : mail' = Cancelled(mail, S)
         \/ \E S, q : mail' = Enqueued(Cancelled(mail, S), q)
  PROVE  MailTypes(mail')
BY EnqueuedTyped, CancelledTyped DEF MailInv, TypeInv

LEMMA MailOfHandlers ==
  ASSUME CodeInv, MailInv, TypeInv, Registering \/ Administering  PROVE MailTypes(mail')
<1>1. CASE Registering
  <2>1. ASSUME NEW c \in Challenges, NEW p \in Pendings, NEW e, NEW role,
               startRegistration(e, p, role, c)
        PROVE  MailTypes(mail')
    BY <2>1, MailHandled DEF startRegistration, createChallenge
  <2>2. ASSUME NEW c \in Challenges, NEW p \in Pendings, resendRegistrationVerification(p, c)
        PROVE  MailTypes(mail')
    BY <2>2, MailHandled DEF resendRegistrationVerification, replaceChallenge
  <2>3. ASSUME NEW t \in open, NEW k, confirmRegistration(t, k)  PROVE MailTypes(mail')
    BY <2>3, MailHandled DEF confirmRegistration
  <2>4. QED
    BY <1>1, <2>1, <2>2, <2>3, MailHandled DEF Registering, confirmReads, failVerification
<1>2. CASE Administering
  <2>1. ASSUME NEW c \in Challenges,
               \/ verifyPasswordRecovery(c) \/ resetPassword(c)
               \/ confirmStore(c) \/ setupInitialPassword(c) \/ confirmAdmin(c)
        PROVE  MailTypes(mail')
    BY <2>1, MailHandled DEF verifyPasswordRecovery, resetPassword, confirmStore,
       setupInitialPassword, confirmAdmin
  <2>2. ASSUME NEW c \in Challenges, NEW e \in Emails, startPasswordRecovery(e, c)
        PROVE  MailTypes(mail')
    BY <2>2, MailHandled DEF startPasswordRecovery
  <2>3. ASSUME NEW c \in Challenges, NEW e \in Emails, provisionStoreWithOwner(e, c)
        PROVE  MailTypes(mail')
    BY <2>3, MailHandled DEF provisionStoreWithOwner, createChallenge
  <2>4. ASSUME NEW c \in Challenges, NEW e \in Emails, resendStoreActivation(e, c)
        PROVE  MailTypes(mail')
    BY <2>4, MailHandled DEF resendStoreActivation, replaceChallenge
  <2>5. ASSUME NEW c \in Challenges, NEW e \in Emails, bootstrapAdmin(e, c)
        PROVE  MailTypes(mail')
    BY <2>5, MailHandled DEF bootstrapAdmin, createChallenge, replaceChallenge
  <2>6. ASSUME NEW e \in Emails, NEW s, setStoreSecurityStatus(e, s)  PROVE MailTypes(mail')
    BY <2>6, MailHandled DEF setStoreSecurityStatus
  <2>7. ASSUME NEW e \in Emails, NEW s, setDriverAccountStatus(e, s)  PROVE MailTypes(mail')
    BY <2>7, MailHandled DEF setDriverAccountStatus
  <2>8. QED
    BY <1>2, <2>1, <2>2, <2>3, <2>4, <2>5, <2>6, <2>7 DEF Administering
<1>3. QED
  BY <1>1, <1>2

(* Dispatches.                                                                 *)
LEMMA WorkerWrites ==
  ASSUME TypeInv, NEW w \in Workers, NEW k, WorkerTyped(k), worker' = [worker EXCEPT ![w] = k]
  PROVE  WorkersTyped'
BY DEF TypeInv, WorkersTyped

LEMMA MailWritten ==
  ASSUME MailInv, TypeInv, NEW r, NEW row, r \in Rows => MailTyped(row),
         mail' = [mail EXCEPT ![r] = row]
  PROVE  MailTypes(mail')
BY DEF MailInv, Mails, Table, TypeInv, MailTypes

LEMMA IdleTyped ==
  ASSUME NEW at, at = None \/ at \in Nat  PROVE WorkerTyped([Idle EXCEPT !.at = at])
BY DEF Idle, WorkerTyped

LEMMA ClaimTyped ==
  ASSUME CodeInv, MailInv, TypeInv, NEW w \in Workers, NEW r \in Rows, claimOutbox(w, r)
  PROVE  MailTypes(mail') /\ WorkersTyped'
<1> DEFINE at == IF worker[w].at = None THEN now ELSE worker[w].at
           row == [mail[r] EXCEPT !.status = "PROCESSING", !.lease = at + LEASE, !.updated = at]
           k == [at |-> at, row |-> r, attempts |-> mail[r].attempts,
                 created |-> mail[r].created, next |-> "RENDER", until |-> None]
<1>1. /\ mail' = [mail EXCEPT ![r] = row] /\ worker' = [worker EXCEPT ![w] = k]
      /\ Queued(mail[r])
  BY DEF claimOutbox, Due, Queued
<1>2. at \in Nat
  BY SizeAssumption DEF CodeInv, TypeInv, WorkersTyped, WorkerTyped
<1>3. at + LEASE \in Nat
  BY <1>2 DEF LEASE
<1> HIDE DEF at
<1>4. mail[r].attempts \in Tries /\ MailTyped(mail[r])
  BY <1>1 DEF TypeInv, MailTypes, MailTyped, Queued
<1>5. k.at = at /\ k.attempts = mail[r].attempts
  OBVIOUS
<1>6. row.status = "PROCESSING" /\ row.lease = at + LEASE /\ row.attempts = mail[r].attempts
  BY <1>1, QueuedColumns DEF MailFields
<1> HIDE DEF row, k
<1>7. WorkerTyped(k)
  BY <1>2, <1>4, <1>5 DEF WorkerTyped
<1>8. row.lease # None
  BY <1>3, <1>6, Names
<1>9. MailTyped(row)
  BY <1>4, <1>6, <1>8, FiveTries DEF MailTyped, MailStatuses
<1>10. QED
  BY <1>1, <1>7, <1>9, WorkerWrites, MailWritten

LEMMA FinishTyped ==
  ASSUME MailInv, TypeInv, NEW w \in Workers, NEW status \in MailStatuses \ {"PROCESSING"},
         NEW n \in 0..Len(NOTICE_ATTEMPT_OFFSETS), status = "PENDING" => n \in Tries,
         NEW nextAt, Finish(w, status, n, nextAt)
  PROVE  MailTypes(mail') /\ WorkersTyped'
<1> DEFINE q == worker[w].row
           row == [mail[q] EXCEPT !.status = status, !.attempts = n, !.nextAt = nextAt,
                                  !.lease = None, !.updated = worker[w].at]
<1>1. mail' = mail \/ (Queued(mail[q]) /\ mail' = [mail EXCEPT ![q] = row])
  BY DEF Finish, ownsLease, Queued
<1>2. q \in Rows /\ Queued(mail[q]) => row.status = status /\ row.attempts = n /\ row.lease = None
  BY QueuedColumns DEF MailFields
<1> HIDE DEF row
<1>3. q \in Rows /\ Queued(mail[q]) => MailTyped(row)
  BY <1>2 DEF MailTyped, Queued
<1> HIDE DEF q
<1>4. MailTypes(mail')
  BY <1>1, <1>3, MailWritten DEF TypeInv
<1>5. PICK at \in {None, worker[w].at} : worker' = [worker EXCEPT ![w] = [Idle EXCEPT !.at = at]]
  BY DEF Finish
<1>6. at = None \/ at \in Nat
  BY DEF TypeInv, WorkersTyped, WorkerTyped
<1>7. QED
  BY <1>4, <1>5, <1>6, IdleTyped, WorkerWrites

LEMMA DispatchTyped ==
  ASSUME CodeInv, MailInv, TypeInv, Dispatch  PROVE MailTypes(mail') /\ WorkersTyped'
<1>1. PICK w \in Workers :
        \/ \E r \in Rows : claimOutbox(w, r)
        \/ renderOutboxEnvelope(w) \/ finishWithStatus(w)
        \/ send(w) \/ sendRejected(w) \/ scheduleRetry(w) \/ crash(w)
  BY DEF Dispatch
<1> DEFINE n == worker[w].attempts
<1>2. worker[w].next # "CLAIM" => /\ worker[w].at \in Nat /\ n \in Tries
                                  /\ n \in 0..Len(NOTICE_ATTEMPT_OFFSETS)
                                  /\ n + 1 \in 0..Len(NOTICE_ATTEMPT_OFFSETS)
  BY FiveTries DEF TypeInv, WorkersTyped, WorkerTyped
<1>3. n \in Tries /\ HasRetry(n + 1) => n + 1 \in Tries
  BY FiveTries DEF HasRetry
<1> HIDE DEF n
<1>4. CASE \E r \in Rows : claimOutbox(w, r)
  BY <1>4, ClaimTyped
<1>5. CASE renderOutboxEnvelope(w)
  <2> DEFINE k == worker[w]
  <2>1. PICK next, until :
          /\ worker' = [worker EXCEPT ![w] = [k EXCEPT !.next = next, !.until = until]]
          /\ mail' = mail /\ k.next = "RENDER"
    BY <1>5 DEF renderOutboxEnvelope
  <2>2. k.at \in Nat /\ k.attempts \in Tries
    BY <1>2, <2>1 DEF n
  <2> DEFINE y == [k EXCEPT !.next = next, !.until = until]
  <2>3. y.at = k.at /\ y.attempts = k.attempts
    OBVIOUS
  <2> HIDE DEF k, y
  <2>4. WorkerTyped(y)
    BY <2>2, <2>3 DEF WorkerTyped
  <2>5. worker' = [worker EXCEPT ![w] = y]
    BY <2>1 DEF y, k
  <2>6. QED
    BY <2>1, <2>4, <2>5, WorkerWrites DEF TypeInv
<1>6. CASE finishWithStatus(w)
  <2>1. \/ worker[w].next = "CANCEL" /\ Finish(w, "CANCELLED", n, NextAt(w))
        \/ worker[w].next = "RENDER" /\ Finish(w, "FAILED", n, NextAt(w))
    BY <1>6 DEF finishWithStatus, n
  <2>2. QED
    BY <1>2, <2>1, FinishTyped DEF MailStatuses
<1>7. CASE send(w) \/ sendRejected(w)
  <2>1. worker[w].next = "SEND" /\ \E s \in {"SENT", "FAILED"} : Finish(w, s, n + 1, NextAt(w))
    BY <1>7 DEF send, sendRejected, n
  <2>2. QED
    BY <1>2, <2>1, FinishTyped DEF MailStatuses
<1>8. CASE scheduleRetry(w)
  <2>1. /\ worker[w].next = "SEND"
        /\ \/ \E s \in {"FAILED", "CANCELLED"} : Finish(w, s, n + 1, NextAt(w))
           \/ HasRetry(n + 1) /\ Finish(w, "PENDING", n + 1, RetryAt(worker[w].created, n + 1))
    BY <1>8 DEF scheduleRetry, n
  <2>2. QED
    BY <1>2, <1>3, <2>1, FinishTyped DEF MailStatuses
<1>9. CASE crash(w)
  <2>1. WorkerTyped(Idle)
    BY DEF Idle, WorkerTyped
  <2>2. QED
    BY <1>9, <2>1, WorkerWrites DEF crash, TypeInv
<1>10. QED
  BY <1>1, <1>4, <1>5, <1>6, <1>7, <1>8, <1>9

LEMMA HandlersDispatchNone ==
  ASSUME Registering \/ Administering \/ SigningIn \/ Cleanup \/ TimePasses \/ UNCHANGED vars
  PROVE  worker' = worker
<1>1. CASE Registering
  BY <1>1 DEF Registering, startRegistration, confirmReads, confirmRegistration,
     resendRegistrationVerification, failVerification
<1>2. CASE Administering
  BY <1>2 DEF Administering, verifyPasswordRecovery, resetPassword, confirmStore,
     setupInitialPassword, confirmAdmin, startPasswordRecovery, provisionStoreWithOwner,
     resendStoreActivation, bootstrapAdmin, setStoreSecurityStatus, setDriverAccountStatus
<1>3. CASE SigningIn
  BY <1>3 DEF SigningIn, loginUser, rotateClaims, rotateRevokes, revokeSessionFamily,
     revokeAllSessions, rotateRefreshToken
<1>4. CASE Cleanup
  BY <1>4 DEF Cleanup, cleanupCancelsMail, cleanupDeletesMail, cleanupDeletesTicket,
     cleanupDeletesChallenge, cleanupDeletesPending
<1>5. CASE TimePasses \/ UNCHANGED vars
  BY <1>5 DEF TimePasses, vars
<1>6. QED
  BY <1>1, <1>2, <1>3, <1>4, <1>5

LEMMA MailTypedStep ==
  ASSUME CodeInv, MailInv, TypeInv, [Next]_vars  PROVE MailTypes(mail') /\ WorkersTyped'
<1>1. CASE Dispatch
  BY <1>1, DispatchTyped
<1>2. ASSUME worker' = worker  PROVE WorkersTyped'
  BY <1>2 DEF TypeInv, WorkersTyped
<1>3. CASE SigningIn \/ TimePasses \/ UNCHANGED vars
  <2>1. mail' = mail
    BY <1>3, SignInQuiet DEF SigningIn, revokeAllSessions, TimePasses, vars
  <2>2. QED
    BY <1>2, <1>3, <2>1, MailHandled, HandlersDispatchNone
<1>4. CASE Cleanup
  <2>1. ASSUME NEW r \in Rows, cleanupDeletesMail(r)  PROVE MailTypes(mail')
    <3>1. mail' = [mail EXCEPT ![r] = NoRow] /\ MailTyped(NoRow)
      BY <2>1, NoRows DEF cleanupDeletesMail, MailTyped
    <3>2. QED
      BY <3>1, MailWritten
  <2>2. MailTypes(mail')
    BY <1>4, <2>1, MailHandled DEF Cleanup, cleanupCancelsMail, cleanupDeletesTicket,
       cleanupDeletesChallenge, cleanupDeletesPending
  <2>3. QED
    BY <1>2, <1>4, <2>2, HandlersDispatchNone
<1>5. CASE Registering \/ Administering
  BY <1>2, <1>5, MailOfHandlers, HandlersDispatchNone
<1>6. QED
  BY <1>1, <1>3, <1>4, <1>5 DEF Next

LEMMA TypeStep == ASSUME CodeInv, MailInv, TypeInv, [Next]_vars  PROVE TypeInv'
<1>1. AccountsTurn
  BY AccountsTurnStep
<1>2. AccountsTyped'
  BY <1>1 DEF AccountsTurn, AccountTurns, AccountsTyped, TypeInv
<1>3. CodesTyped'
  BY <1>1, CodesTurnStep, CodesTurned
<1>4. QED
  BY <1>2, <1>3, FormsTypedStep, MailTypedStep DEF TypeInv

(* Every column of the users, registrations, codes and messages keeps its      *)
(* range: owners alone wait for a password, a code with all its attempts spent *)
(* no longer counts, a lease is there exactly while a message is being sent.   *)
THEOREM IdentityTypes == Spec => []TypeOK
<1>1. CodeInv /\ MailInv /\ TypeInv /\ [Next]_vars => TypeInv'
  BY TypeStep
<1>2. CodeInv /\ TypeInv => TypeOK
  <2> SUFFICES ASSUME CodeInv, TypeInv  PROVE TypeOK
    OBVIOUS
  <2>1. /\ \A e \in Emails : IsRow(account[e]) => AccountRight(account[e])
        /\ now \in Instants
    BY DEF TypeInv, AccountsTyped, CodeInv
  <2>2. \A p \in Pendings : IsRow(pending[p]) =>
          /\ pending[p].role \in {"CUSTOMER", "DRIVER"}
          /\ pending[p].closeReason \in {None, "CONFIRMED", "ACCOUNT_COLLISION"}
    BY DEF TypeInv, FormsTyped, FormTyped
  <2>3. \A c \in Challenges : IsRow(challenge[c]) =>
          /\ challenge[c].purpose \in Purposes
          /\ challenge[c].attempts \in 0..MAX_ATTEMPTS
          /\ challenge[c].attempts = MAX_ATTEMPTS => ~Live(c)
          /\ challenge[c].reason = None <=> challenge[c].invalidatedAt = None
    BY DEF TypeInv, CodesTyped, CodeTyped, Live, Alive
  <2>4. \A r \in Rows : IsRow(mail[r]) =>
          /\ mail[r].status \in MailStatuses
          /\ mail[r].status = "PROCESSING" <=> mail[r].lease # None
          /\ mail[r].attempts \in 0..Len(NOTICE_ATTEMPT_OFFSETS)
    BY DEF TypeInv, MailTypes, MailTyped
  <2>5. QED
    BY <2>1, <2>2, <2>3, <2>4 DEF TypeOK
<1>3. QED
  BY <1>1, <1>2, TypeInit, MailRight, PTL DEF Spec
=============================================================================
