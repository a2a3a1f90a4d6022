---------------------------- MODULE IdentityState ----------------------------
(* The rows that identity works on, and the operators of                       *)
(* auth-challenge.service.ts, auth-ticket.service.ts and the enqueueing half   *)
(* of email/outbox.service.ts that its handlers share.  Time is in minutes.    *)
(* A transaction that locks what it reads is one step; two are in two steps.   *)
EXTENDS Naturals, Sequences, FiniteSets, FiniteSetsExt

CONSTANTS
  Emails, Pendings,
  LastChallenge, LastToken,  \* rows that can be created
  Workers,                   \* requests and cron runs that send mail
  Instants,                  \* the moments at which anything happens
  MAX_ATTEMPTS,              \* wrong codes that exhaust a challenge
  Scenarios,                 \* initial accounts, and calls of each kind to come
  None                       \* SQL null

(* No row yet; a row that was deleted.                                         *)
NoRow == [row |-> "NONE"]
Gone == [row |-> "DELETED"]
IsRow(x) == x \notin {NoRow, Gone}

AccountFields == {"role", "status", "verified", "from", "password", "store", "version"}

ASSUME SizeAssumption ==
  LastChallenge \in Nat /\ LastToken \in Nat /\ Instants \subseteq Nat /\ 0 \in Instants
  /\ MAX_ATTEMPTS \in Nat \ {0}

ASSUME ScenarioAssumption ==
  \A s \in Scenarios :
    /\ s.account = [e \in Emails |-> s.account[e]]
    /\ \A e \in Emails : s.account[e] = NoRow \/ DOMAIN s.account[e] = AccountFields

ASSUME NameAssumption ==
  /\ Pendings \cap {"ADMIN_PROVISIONED", "BOOTSTRAP"} = {}
  /\ None \notin Nat
  /\ None \notin {"REPLACED", "STORE_CLOSED", "ATTEMPTS_EXHAUSTED", "CONFIRMED",
                  "ACCOUNT_COLLISION", "PENDING_ACTIVATION", "ACTIVE", "SUSPENDED", "CLOSED"}

VARIABLES
  account,    \* users with its provider and store, by e-mail
  pending,    \* pending_registrations
  challenge,  \* auth_challenges, numbered as they are created
  ticket,     \* auth_action_tickets, by the one challenge that each was issued for
  mail,       \* email_outbox, by dedupe key
  token,      \* refresh_tokens
  worker,     \* what each dispatch holds in its local variables
  open,       \* transactions that have read, hold their locks and will write
  left,       \* calls still to come, by kind
  now

vars == <<account, pending, challenge, ticket, mail, token, worker, open, left, now>>

Challenges == 1..LastChallenge
Tokens == 1..LastToken

COOLDOWN == 1
LEASE == 2
CHALLENGE_TTL == 10
TICKET_TTL == 10
DAY == 1440
PENDING_TTL == DAY
REFRESH_TTL == 30 * DAY
NOTICE_ATTEMPT_OFFSETS == <<0, 5, 30, 120, 720>>

Purposes ==
  {"REGISTRATION_VERIFY", "STORE_ACTIVATION", "ADMIN_ACTIVATION", "PASSWORD_RECOVERY"}

(* One row of mail for each dedupe key.                                        *)
Code(c) == <<"CODE", c>>
Changed(c) == <<"PASSWORD_CHANGED", c>>
Exists(e, day) == <<"ACCOUNT_EXISTS", e, day>>
Days == {i \div DAY : i \in Instants}
Rows == {Code(c) : c \in Challenges} \cup {Changed(c) : c \in Challenges}
          \cup {Exists(e, day) : e \in Emails, day \in Days}

Idle == [at |-> None, row |-> None, attempts |-> 0, created |-> 0, next |-> "CLAIM",
         until |-> None]

Init ==
  /\ \E s \in Scenarios : account = s.account /\ left = s.left
  /\ pending = [p \in Pendings |-> NoRow]
  /\ challenge = [c \in Challenges |-> NoRow]
  /\ ticket = [c \in Challenges |-> NoRow]
  /\ mail = [r \in Rows |-> NoRow]
  /\ token = [k \in Tokens |-> NoRow]
  /\ worker = [w \in Workers |-> Idle]
  /\ open = {}
  /\ now = 0

Takes(call) == left[call] > 0 /\ left' = [left EXCEPT ![call] = @ - 1]

(* A row that a transaction has locked is not written by another.              *)
ChallengeFree(c) == \A t \in open : t.challenge # c
PendingFree(p) == \A t \in open : t.pending # p

Fresh(c) == challenge[c] = NoRow /\ \A b \in 1..(c - 1) : challenge[b] # NoRow

ChallengesOf(purpose, of) ==
  {c \in Challenges : IsRow(challenge[c]) /\ challenge[c].purpose = purpose
                        /\ challenge[c].of = of}

Newest(S) == {c \in S : \A b \in S : b <= c}

Live(c) == IsRow(challenge[c]) /\ challenge[c].consumedAt = None /\ challenge[c].reason = None

activeAt(c) == Live(c) /\ challenge[c].attempts < MAX_ATTEMPTS /\ challenge[c].expiresAt > now

OpenPending(p) ==
  IsRow(pending[p]) /\ pending[p].consumedAt = None /\ pending[p].expiresAt > now

(* clampExpiryToPendingRegistration and insertChallenge.                       *)
insertChallenge(rows, c, purpose, of, limit) ==
  [rows EXCEPT ![c] =
     [purpose |-> purpose, of |-> of, attempts |-> 0, createdAt |-> now,
      expiresAt |-> Min({now + CHALLENGE_TTL, limit}),
      consumedAt |-> None, invalidatedAt |-> None, reason |-> None]]

Invalidated(rows, S, reason) ==
  [c \in Challenges |-> IF c \in S
     THEN [rows[c] EXCEPT !.invalidatedAt = now, !.reason = reason] ELSE rows[c]]

Consumed(rows, c) == [rows EXCEPT ![c].consumedAt = now]

replacementAllowed(c) ==
  /\ IsRow(challenge[c]) /\ challenge[c].consumedAt = None
  /\ challenge[c].reason \in {None, "ATTEMPTS_EXHAUSTED"}

keepsLease(rows, S) ==                   \* mutant: a cancelled row stays leased
  [r \in Rows |-> IF r \in S /\ IsRow(rows[r]) /\ rows[r].status \in {"PENDING", "PROCESSING"}
     THEN [rows[r] EXCEPT !.status = "CANCELLED", !.updated = now] ELSE rows[r]]

Cancelled(rows, S) ==
  [r \in Rows |-> IF r \in S /\ IsRow(rows[r]) /\ rows[r].status \in {"PENDING", "PROCESSING"}
     THEN [rows[r] EXCEPT !.status = "CANCELLED", !.lease = None, !.updated = now] ELSE rows[r]]

(* onConflictDoNothing on the dedupe key.                                      *)
Enqueued(rows, r) ==
  IF IsRow(rows[r]) THEN rows
  ELSE [rows EXCEPT ![r] = [status |-> "PENDING", attempts |-> 0, created |-> now,
                            nextAt |-> now, lease |-> None, updated |-> now]]

keepsBoth(c, old, limit) ==              \* mutant: the replaced code stays alive
  /\ Fresh(c) /\ replacementAllowed(old) /\ ChallengeFree(old)
  /\ challenge' = insertChallenge(challenge, c, challenge[old].purpose, challenge[old].of, limit)
  /\ mail' = Enqueued(Cancelled(mail, {Code(old)}), Code(c))

forgetsMail(c, old, limit) ==            \* mutant: the replaced code's mail is not cancelled
  /\ Fresh(c) /\ replacementAllowed(old) /\ ChallengeFree(old)
  /\ challenge' = insertChallenge(Invalidated(challenge, {old}, "REPLACED"), c,
                                  challenge[old].purpose, challenge[old].of, limit)
  /\ mail' = Enqueued(mail, Code(c))

(* replaceChallenge with the mail that its callers enqueue.                    *)
replaceChallenge(c, old, limit) ==
  /\ Fresh(c) /\ replacementAllowed(old) /\ ChallengeFree(old)
  /\ challenge' = insertChallenge(Invalidated(challenge, {old}, "REPLACED"), c,
                                  challenge[old].purpose, challenge[old].of, limit)
  /\ mail' = Enqueued(Cancelled(mail, {Code(old)}), Code(c))

createChallenge(c, purpose, of, limit) ==
  /\ Fresh(c)
  /\ challenge' = insertChallenge(challenge, c, purpose, of, limit)
  /\ mail' = Enqueued(mail, Code(c))

CoolingDown(c) == now < challenge[c].createdAt + COOLDOWN

(* verifyAndConsumeChallenge with a wrong code.                                *)
failVerification(c) ==
  /\ Takes("mistype") /\ activeAt(c) /\ ChallengeFree(c)
  /\ LET k == challenge[c]
         last == k.attempts + 1 >= MAX_ATTEMPTS
     IN challenge' = [challenge EXCEPT ![c] = [k EXCEPT
          !.attempts = k.attempts + 1,
          !.invalidatedAt = IF last THEN now ELSE k.invalidatedAt,
          !.reason = IF last THEN "ATTEMPTS_EXHAUSTED" ELSE k.reason]]
  /\ UNCHANGED <<account, pending, ticket, mail, token, worker, open, now>>

IssuedTicket(c, purpose) ==
  [ticket EXCEPT ![c] = [purpose |-> purpose, of |-> challenge[c].of,
                         expiresAt |-> now + TICKET_TTL, consumedAt |-> None]]

Usable(c) == IsRow(ticket[c]) /\ ticket[c].consumedAt = None /\ ticket[c].expiresAt > now

Claimed(c) == [ticket EXCEPT ![c].consumedAt = now]
=============================================================================
