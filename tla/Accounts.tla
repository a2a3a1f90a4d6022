------------------------------ MODULE Accounts -------------------------------
(* password-recovery, account-activation, store-provisioning, admin-bootstrap  *)
(* and the status changes of store and security-session services: what becomes *)
(* of an account through codes, tickets and administrators.                    *)
EXTENDS Registration

(* Rows of refresh_tokens as a revocation leaves them.                         *)
RevokedOf(e) ==
  [k \in Tokens |-> IF IsRow(token[k]) /\ token[k].of = e
     THEN [token[k] EXCEPT !.revoked = TRUE] ELSE token[k]]

recoveryEligible(e) ==
  /\ IsRow(account[e]) /\ account[e].verified /\ account[e].password
  /\ \/ account[e].status = "ACTIVE"
     \/ account[e].role = "DRIVER" /\ account[e].status = "PENDING_APPROVAL"

LiveRecoveries(e) == {c \in ChallengesOf("PASSWORD_RECOVERY", e) : Live(c)}

(* The users row is locked: recoveries of an account come one at a time.       *)
startPasswordRecovery(e, c) ==
  /\ Takes("recover") /\ recoveryEligible(e) /\ Fresh(c)
  /\ challenge' = insertChallenge(Invalidated(challenge, LiveRecoveries(e), "REPLACED"),
                                  c, "PASSWORD_RECOVERY", e, now + CHALLENGE_TTL)
  /\ mail' = Enqueued(Cancelled(mail, {Code(old) : old \in LiveRecoveries(e)}), Code(c))
  /\ UNCHANGED <<account, pending, ticket, token, worker, open, now>>

verifyPasswordRecovery(c) ==
  /\ IsRow(challenge[c]) /\ challenge[c].purpose = "PASSWORD_RECOVERY" /\ activeAt(c)
  /\ challenge' = Consumed(challenge, c)
  /\ ticket' = IssuedTicket(c, "PASSWORD_RESET")
  /\ UNCHANGED <<account, pending, mail, token, worker, open, left, now>>

resetPassword(c) ==
  /\ Usable(c) /\ ticket[c].purpose = "PASSWORD_RESET" /\ recoveryEligible(ticket[c].of)
  /\ ticket' = Claimed(c)
  /\ account' = [account EXCEPT ![ticket[c].of].version = @ + 1]
  /\ token' = RevokedOf(ticket[c].of)
  /\ mail' = Enqueued(mail, Changed(c))
  /\ UNCHANGED <<pending, challenge, worker, open, left, now>>

provisionStoreWithOwner(e, c) ==
  /\ Takes("provision") /\ account[e] = NoRow
  /\ account' = [account EXCEPT ![e] =
       [NewAccount("STORE", "PENDING_EMAIL", FALSE, "ADMIN_PROVISIONED", FALSE)
          EXCEPT !.store = "PENDING_ACTIVATION"]]
  /\ createChallenge(c, "STORE_ACTIVATION", e, now + CHALLENGE_TTL)
  /\ UNCHANGED <<pending, ticket, token, worker, open, now>>

PendingStore(e) ==                       \* assertPendingActivation
  /\ IsRow(account[e]) /\ account[e].role = "STORE" /\ account[e].status = "PENDING_EMAIL"
  /\ ~account[e].verified /\ account[e].store = "PENDING_ACTIVATION"

restartableStoreChallenge(c) ==
  \/ challenge[c].reason = None
  \/ challenge[c].consumedAt = None /\ challenge[c].reason = "ATTEMPTS_EXHAUSTED"

SetupTicketsUsed(e) ==
  [c \in Challenges |->
     IF IsRow(ticket[c]) /\ ticket[c].of = e /\ ticket[c].consumedAt = None
          /\ ticket[c].purpose = "INITIAL_PASSWORD_SETUP"
       THEN [ticket[c] EXCEPT !.consumedAt = now] ELSE ticket[c]]

(* A code that was already used is followed by a new one, an unused replaced.  *)
resendStoreActivation(e, c) ==
  /\ PendingStore(e)
  /\ \E old \in Newest(ChallengesOf("STORE_ACTIVATION", e)) :
       /\ restartableStoreChallenge(old) /\ ~CoolingDown(old)
       /\ IF challenge[old].consumedAt = None
            THEN replaceChallenge(c, old, now + CHALLENGE_TTL)
            ELSE /\ Fresh(c)
                 /\ challenge' = insertChallenge(challenge, c, "STORE_ACTIVATION", e,
                                                 now + CHALLENGE_TTL)
                 /\ mail' = Enqueued(Cancelled(mail, {Code(old)}), Code(c))
  /\ ticket' = SetupTicketsUsed(e)
  /\ UNCHANGED <<account, pending, token, worker, open, left, now>>

(* The code counts as used even where there is nothing left to activate.       *)
confirmStore(c) ==
  /\ IsRow(challenge[c]) /\ challenge[c].purpose = "STORE_ACTIVATION" /\ activeAt(c)
  /\ challenge' = Consumed(challenge, c)
  /\ LET owner == account[challenge[c].of] IN
       ticket' = IF PendingStore(challenge[c].of) /\ owner.from = "ADMIN_PROVISIONED"
                      /\ ~owner.password
                   THEN IssuedTicket(c, "INITIAL_PASSWORD_SETUP") ELSE ticket
  /\ UNCHANGED <<account, pending, mail, token, worker, open, left, now>>

setupInitialPassword(c) ==
  /\ Usable(c) /\ ticket[c].purpose = "INITIAL_PASSWORD_SETUP"
  /\ PendingStore(ticket[c].of) /\ ~account[ticket[c].of].password
  /\ ticket' = Claimed(c)
  /\ account' = [account EXCEPT ![ticket[c].of] = [account[ticket[c].of] EXCEPT
       !.status = "ACTIVE", !.verified = TRUE, !.password = TRUE, !.store = "ACTIVE"]]
  /\ UNCHANGED <<pending, challenge, mail, token, worker, open, left, now>>

(* Closing a store that was never activated closes its codes with it.          *)
setStoreSecurityStatus(e, status) ==
  /\ Takes("administer")
  /\ IsRow(account[e]) /\ account[e].store \notin {None, status, "CLOSED"}
  /\ account[e].store = "PENDING_ACTIVATION" => status = "CLOSED"
  /\ LET unused == {c \in ChallengesOf("STORE_ACTIVATION", e) : challenge[c].consumedAt = None}
     IN IF account[e].store = "PENDING_ACTIVATION"
          THEN /\ challenge' = Invalidated(challenge, unused, "STORE_CLOSED")
               /\ mail' = Cancelled(mail, {Code(c) : c \in unused})
          ELSE UNCHANGED <<challenge, mail>>
  /\ IF status = "ACTIVE"
       THEN /\ account' = [account EXCEPT ![e].store = status]
            /\ token' = token
       ELSE /\ account' = [account EXCEPT ![e] = [account[e] EXCEPT
                 !.store = status, !.version = account[e].version + 1]]
            /\ token' = RevokedOf(e)
  /\ UNCHANGED <<pending, ticket, worker, open, now>>

setDriverAccountStatus(e, status) ==
  /\ Takes("administer")
  /\ IsRow(account[e]) /\ account[e].role = "DRIVER"
  /\ status = "ACTIVE" => account[e].verified
  /\ account' = [account EXCEPT ![e] = [account[e] EXCEPT
       !.status = status,
       !.version = account[e].version
         + (IF status = "BLOCKED" /\ account[e].status # "BLOCKED" THEN 1 ELSE 0)]]
  /\ token' = IF status = "BLOCKED" THEN RevokedOf(e) ELSE token
  /\ UNCHANGED <<pending, challenge, ticket, mail, worker, open, now>>

Admins == {e \in Emails : IsRow(account[e]) /\ account[e].role = "ADMIN"}

(* Under one advisory lock: the first run creates the administrator, the next  *)
(* ones send the code again.                                                   *)
bootstrapAdmin(e, c) ==
  /\ Takes("bootstrap")
  /\ \/ /\ Admins = {} /\ account[e] = NoRow
        /\ account' = [account EXCEPT ![e] =
             NewAccount("ADMIN", "PENDING_EMAIL", FALSE, "BOOTSTRAP", TRUE)]
        /\ createChallenge(c, "ADMIN_ACTIVATION", e, now + CHALLENGE_TTL)
     \/ /\ Admins = {e} /\ account[e].status = "PENDING_EMAIL"
        /\ \E old \in Newest(ChallengesOf("ADMIN_ACTIVATION", e)) :
             ~CoolingDown(old) /\ replaceChallenge(c, old, now + CHALLENGE_TTL)
        /\ account' = account
  /\ UNCHANGED <<pending, ticket, token, worker, open, now>>

confirmAdmin(c) ==
  /\ IsRow(challenge[c]) /\ challenge[c].purpose = "ADMIN_ACTIVATION" /\ activeAt(c)
  /\ challenge' = Consumed(challenge, c)
  /\ LET e == challenge[c].of IN
       account' = IF account[e].status # "PENDING_EMAIL" THEN account
                  ELSE [account EXCEPT ![e] = [account[e] EXCEPT !.status = "ACTIVE",
                                                                 !.verified = TRUE]]
  /\ UNCHANGED <<pending, ticket, mail, token, worker, open, left, now>>

Administering ==
  \/ \E c \in Challenges :
       \/ verifyPasswordRecovery(c) \/ resetPassword(c)
       \/ confirmStore(c) \/ setupInitialPassword(c) \/ confirmAdmin(c)
       \/ \E e \in Emails :
            \/ startPasswordRecovery(e, c)
            \/ provisionStoreWithOwner(e, c) \/ resendStoreActivation(e, c)
            \/ bootstrapAdmin(e, c)
  \/ \E e \in Emails :
       \/ \E s \in {"ACTIVE", "SUSPENDED", "CLOSED"} : setStoreSecurityStatus(e, s)
       \/ \E s \in {"ACTIVE", "BLOCKED"} : setDriverAccountStatus(e, s)
=============================================================================
