------------------------------ MODULE Identity -------------------------------
(* Registration, recovery, activation, sessions, the e-mail outbox and the     *)
(* cleanup, over the rows they share, as time passes.                          *)
EXTENDS Sessions, EmailOutbox

TimePasses ==
  /\ Takes("wait")
  /\ now' \in {i \in Instants : i > now}
  /\ UNCHANGED <<account, pending, challenge, ticket, mail, token, worker, open>>

Next == Registering \/ Administering \/ SigningIn \/ Dispatch \/ Cleanup \/ TimePasses

Spec == Init /\ [][Next]_vars

MailStatuses == {"PENDING", "PROCESSING", "SENT", "FAILED", "CANCELLED"}

(* A user, with the store of an owner: only owners wait for their password.    *)
AccountRight(x) ==
  /\ x.role \in {"CUSTOMER", "DRIVER", "STORE", "ADMIN"}
  /\ x.status \in {"PENDING_EMAIL", "PENDING_APPROVAL", "ACTIVE", "BLOCKED"}
  /\ x.verified \in BOOLEAN /\ x.password \in BOOLEAN
  /\ x.verified <=> x.status # "PENDING_EMAIL"
  /\ x.role = "STORE" <=> x.store # None
  /\ x.status = "ACTIVE" \/ x.role \in {"DRIVER", "ADMIN"} => x.password
  /\ x.role = "DRIVER" => x.verified

(* A scenario begins with accounts that the handlers can have made.            *)
ASSUME StartAssumption ==
  \A s \in Scenarios : \A e \in Emails : IsRow(s.account[e]) => AccountRight(s.account[e])

TypeOK ==
  /\ \A e \in Emails : IsRow(account[e]) => AccountRight(account[e])
  /\ \A p \in Pendings : IsRow(pending[p]) =>
       /\ pending[p].role \in {"CUSTOMER", "DRIVER"}
       /\ pending[p].closeReason \in {None, "CONFIRMED", "ACCOUNT_COLLISION"}
  /\ \A c \in Challenges : IsRow(challenge[c]) =>
       /\ challenge[c].purpose \in Purposes
       /\ challenge[c].attempts \in 0..MAX_ATTEMPTS
       /\ challenge[c].attempts = MAX_ATTEMPTS => ~Live(c)
       /\ challenge[c].reason = None <=> challenge[c].invalidatedAt = None
  /\ \A r \in Rows : IsRow(mail[r]) =>
       /\ mail[r].status \in MailStatuses
       /\ mail[r].status = "PROCESSING" <=> mail[r].lease # None
       /\ mail[r].attempts \in 0..Len(NOTICE_ATTEMPT_OFFSETS)
  /\ now \in Instants

(* confirmRegistration, and the unique index that refuses the second of two    *)
(* confirmations of an address: a registration is closed as confirmed exactly  *)
(* when the account of its address was made from it.                           *)
ConfirmedHasAccount ==
  \A p \in Pendings : IsRow(pending[p]) =>
    (pending[p].closeReason = "CONFIRMED" <=>
       /\ IsRow(account[pending[p].email])
       /\ account[pending[p].email].from = p)

(* Resending, replacing, starting again and using a code between two of them:  *)
(* whoever waits for a code has one that counts, the last that was sent, and   *)
(* an owner one ticket to set the first password with.                         *)
OneWayIn ==
  \A b, c \in Challenges :
    /\ Live(b) /\ Live(c) /\ challenge[b].of = challenge[c].of
         /\ challenge[b].purpose = challenge[c].purpose => b = c
    /\ Usable(b) /\ Usable(c) /\ ticket[b].of = ticket[c].of
         /\ ticket[b].purpose = "INITIAL_PASSWORD_SETUP"
         /\ ticket[c].purpose = "INITIAL_PASSWORD_SETUP" => b = c

(* Replacement against a worker that is sending: the row of a code that was    *)
(* replaced or whose store was closed is never put back in the queue.          *)
DeadCodesAreNotQueued ==
  \A c \in Challenges :
    IsRow(challenge[c]) /\ challenge[c].reason \notin {None, "ATTEMPTS_EXHAUSTED"}
      /\ IsRow(mail[Code(c)]) => mail[Code(c)].status \notin {"PENDING", "PROCESSING"}

(* resendRegistrationVerification against cleanup, expiry and exhausted        *)
(* attempts: while a registration is open its sender can get another code.     *)
OpenFlowIsRecoverable ==
  \A p \in Pendings : OpenPending(p) => currentRegistrationChallenge(p) # {}

(* rotateRefreshToken: of a session at most one token can be exchanged, so a   *)
(* copy is noticed when it comes.                                              *)
OneLiveToken ==
  \A j, k \in Tokens :
    Unexpired(j) /\ Unexpired(k) /\ ~token[j].used /\ ~token[k].used
      /\ token[j].family = token[k].family => j = k

(* Logging out, a password reset and a block revoke the tokens that they see:  *)
(* when one token of a session is revoked, all are. The model violates it: a   *)
(* rotation under way inserts its token after the revocation has looked.       *)
FamiliesEndWhole ==
  \A j, k \in Tokens :
    IsRow(token[j]) /\ IsRow(token[k]) /\ token[j].family = token[k].family
      /\ token[j].revoked => token[k].revoked

(* finishWithStatus and scheduleRetry after the lease was lost: what is sent,  *)
(* failed or cancelled stays so until cleanup removes the row.                 *)
FinalMail == {"SENT", "FAILED", "CANCELLED"}
FinalMailStays ==
  [][\A r \in Rows : IsRow(mail[r]) /\ mail[r].status \in FinalMail
       => mail'[r] = NoRow \/ mail'[r].status = mail[r].status]_vars

(* resendStoreActivation: an owner whose account and store still wait can be   *)
(* sent another code by the administrator.                                     *)
PendingStoreCanBeActivated ==
  \A e \in Emails : PendingStore(e) =>
    \E c \in Newest(ChallengesOf("STORE_ACTIVATION", e)) : restartableStoreChallenge(c)
=============================================================================
