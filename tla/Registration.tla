---------------------------- MODULE Registration -----------------------------
(* registration.service.ts: an account exists only after the code that was     *)
(* mailed to its address comes back.                                           *)
EXTENDS IdentityState

NewAccount(role, status, verified, from, password) ==
  [role |-> role, status |-> status, verified |-> verified, from |-> from,
   password |-> password, store |-> None, version |-> 0]

(* The new family of tokens of a session that begins.                          *)
FreshToken(k) == token[k] = NoRow /\ \A j \in 1..(k - 1) : token[j] # NoRow

insertToken(k, e, family, version) ==
  [token EXCEPT ![k] = [of |-> e, family |-> family, expiresAt |-> now + REFRESH_TTL,
                        used |-> FALSE, revoked |-> FALSE, version |-> version]]

(* An address that has an account gets a notice, and its sender the same answer. *)
startRegistration(e, p, role, c) ==
  /\ Takes("register")
  /\ pending[p] = NoRow
  /\ IF IsRow(account[e])
       THEN /\ mail' = Enqueued(mail, Exists(e, now \div DAY))
            /\ UNCHANGED <<pending, challenge>>
       ELSE /\ pending' = [pending EXCEPT ![p] =
                 [email |-> e, role |-> role, expiresAt |-> now + PENDING_TTL,
                  consumedAt |-> None, closeReason |-> None]]
            /\ createChallenge(c, "REGISTRATION_VERIFY", p, now + PENDING_TTL)
  /\ UNCHANGED <<account, ticket, token, worker, open, now>>

activeRegistrationChallenge(p) ==
  Newest({c \in ChallengesOf("REGISTRATION_VERIFY", p) : Live(c)})

currentRegistrationChallenge(p) ==
  Newest({c \in ChallengesOf("REGISTRATION_VERIFY", p) : replacementAllowed(c)})

(* The code is right: the challenge and the pending row stay locked while the  *)
(* address is looked up among the users, which are not.                        *)
confirmReads(p, c) ==
  /\ c \in activeRegistrationChallenge(p)
  /\ activeAt(c) /\ ChallengeFree(c)
  /\ OpenPending(p) /\ PendingFree(p)
  /\ open' = open \cup {[op |-> "confirm", pending |-> p, challenge |-> c, token |-> None,
                         saw |-> IsRow(account[pending[p].email]), at |-> now]}
  /\ UNCHANGED <<account, pending, challenge, ticket, mail, token, worker, left, now>>

closePending(t, reason) ==
  pending' = [pending EXCEPT ![t.pending] =
    [pending[t.pending] EXCEPT !.consumedAt = t.at, !.closeReason = reason]]

ends(t, op) == t.op = op /\ open' = open \ {t}

forgetsCollision(t, k) ==                \* mutant: the insert's conflict keeps the first reason
  /\ ends(t, "confirm")
  /\ challenge' = [challenge EXCEPT ![t.challenge].consumedAt = t.at]
  /\ LET p == pending[t.pending]
         created == NewAccount(p.role, IF p.role = "DRIVER" THEN "PENDING_APPROVAL" ELSE "ACTIVE",
                               TRUE, t.pending, TRUE)
     IN IF IsRow(account[p.email])
          THEN /\ closePending(t, IF t.saw THEN "ACCOUNT_COLLISION" ELSE "CONFIRMED")
               /\ UNCHANGED <<account, token>>
          ELSE /\ closePending(t, "CONFIRMED")
               /\ account' = [account EXCEPT ![p.email] = created]
               /\ IF p.role = "DRIVER" THEN token' = token
                  ELSE FreshToken(k) /\ token' = insertToken(k, p.email, k, 0)
  /\ UNCHANGED <<ticket, mail, worker, left, now>>

(* users_email_unique refuses the second of two confirmations.                 *)
confirmRegistration(t, k) ==
  /\ ends(t, "confirm")
  /\ challenge' = [challenge EXCEPT ![t.challenge].consumedAt = t.at]
  /\ LET p == pending[t.pending]
         created == NewAccount(p.role, IF p.role = "DRIVER" THEN "PENDING_APPROVAL" ELSE "ACTIVE",
                               TRUE, t.pending, TRUE)
     IN IF t.saw \/ IsRow(account[p.email])
          THEN closePending(t, "ACCOUNT_COLLISION") /\ UNCHANGED <<account, token>>
          ELSE /\ closePending(t, "CONFIRMED")
               /\ account' = [account EXCEPT ![p.email] = created]
               /\ IF p.role = "DRIVER" THEN token' = token
                  ELSE FreshToken(k) /\ token' = insertToken(k, p.email, k, 0)
  /\ UNCHANGED <<ticket, mail, worker, left, now>>

(* The pending row and its challenge are read unlocked, and seen again, locked, *)
(* by replaceChallenge.                                                        *)
resendRegistrationVerification(p, c) ==
  /\ OpenPending(p) /\ PendingFree(p)
  /\ \E old \in currentRegistrationChallenge(p) :
       ~CoolingDown(old) /\ replaceChallenge(c, old, pending[p].expiresAt)
  /\ UNCHANGED <<account, pending, ticket, token, worker, open, left, now>>

Registering ==
  \/ \E c \in Challenges, p \in Pendings :
       \/ \E e \in Emails, role \in {"CUSTOMER", "DRIVER"} : startRegistration(e, p, role, c)
       \/ confirmReads(p, c) \/ resendRegistrationVerification(p, c)
  \/ \E t \in open, k \in Tokens : confirmRegistration(t, k)
  \/ \E c \in Challenges : failVerification(c)
=============================================================================
