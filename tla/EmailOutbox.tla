----------------------------- MODULE EmailOutbox -----------------------------
(* email/outbox.service.ts and the cleanup of identity-cleanup.service.ts.  A  *)
(* dispatch claims a row under a lease, renders it from the challenge as it is *)
(* then, calls the provider and writes the outcome if it still has the lease.  *)
(* Each statement is a step of its own, and the worker may die between them.   *)
EXTENDS IdentityState

Due(r, at) ==
  /\ IsRow(mail[r])
  /\ \/ mail[r].status = "PENDING" /\ mail[r].nextAt <= at
     \/ mail[r].status = "PROCESSING" /\ mail[r].lease <= at

(* A cron run reads the clock once for all the rows it sends.                  *)
claimOutbox(w, r) ==
  /\ worker[w].next = "CLAIM"
  /\ LET at == IF worker[w].at = None THEN now ELSE worker[w].at IN
       /\ Takes("dispatch")
       /\ Due(r, at)
       /\ mail' = [mail EXCEPT ![r] = [mail[r] EXCEPT !.status = "PROCESSING",
                                                !.lease = at + LEASE, !.updated = at]]
       /\ worker' = [worker EXCEPT ![w] = [at |-> at, row |-> r, attempts |-> mail[r].attempts,
                                           created |-> mail[r].created, next |-> "RENDER",
                                           until |-> None]]
  /\ UNCHANGED <<account, pending, challenge, ticket, token, open, now>>

isCode(r) == r[1] = "CODE"

RendersAt(r, at) ==
  isCode(r) => Live(r[2]) /\ challenge[r[2]].attempts < MAX_ATTEMPTS
                          /\ challenge[r[2]].expiresAt > at

renderOutboxEnvelope(w) ==
  /\ worker[w].next = "RENDER"
  /\ LET k == worker[w] IN
       worker' = [worker EXCEPT ![w] =
         [k EXCEPT !.next = IF RendersAt(k.row, k.at) THEN "SEND" ELSE "CANCEL",
                   !.until = IF RendersAt(k.row, k.at) /\ isCode(k.row)
                               THEN challenge[k.row[2]].expiresAt ELSE None]]
  /\ UNCHANGED <<account, pending, challenge, ticket, mail, token, open, left, now>>

anyLease(w) == worker[w].row # None      \* mutant: the outcome is written whoever has the row

ownsLease(w) ==
  /\ IsRow(mail[worker[w].row])
  /\ mail[worker[w].row].status = "PROCESSING"
  /\ mail[worker[w].row].lease = worker[w].at + LEASE

(* When attempt number n failed: the next one, counted from the row's birth.   *)
RetryAt(created, n) == created + NOTICE_ATTEMPT_OFFSETS[n + 1]
HasRetry(n) == n + 1 <= Len(NOTICE_ATTEMPT_OFFSETS)

(* Worker w writes its outcome, or finds that the row is no longer its own,    *)
(* and goes on with its batch or ends.                                         *)
Finish(w, status, attempts, nextAt) ==
  /\ mail' = IF ~ownsLease(w) THEN mail
             ELSE [mail EXCEPT ![worker[w].row] = [mail[worker[w].row] EXCEPT
                     !.status = status, !.attempts = attempts, !.nextAt = nextAt,
                     !.lease = None, !.updated = worker[w].at]]
  /\ \E at \in {None, worker[w].at} :
       worker' = [worker EXCEPT ![w] = [Idle EXCEPT !.at = at]]
  /\ UNCHANGED <<account, pending, challenge, ticket, token, open, left, now>>

NextAt(w) == mail[worker[w].row].nextAt

(* The challenge is no longer active, or the deployment lacks a setting.       *)
finishWithStatus(w) ==
  /\ \/ worker[w].next = "CANCEL" /\ Finish(w, "CANCELLED", worker[w].attempts, NextAt(w))
     \/ worker[w].next = "RENDER" /\ Finish(w, "FAILED", worker[w].attempts, NextAt(w))

send(w) ==
  /\ worker[w].next = "SEND"
  /\ Finish(w, "SENT", worker[w].attempts + 1, NextAt(w))

(* CONFIG, RECIPIENT_BLOCKED, PROVIDER_REJECTED.                               *)
sendRejected(w) ==
  /\ worker[w].next = "SEND"
  /\ Finish(w, "FAILED", worker[w].attempts + 1, NextAt(w))

TooLate(w, at) == IF worker[w].until = None THEN FALSE ELSE at >= worker[w].until

(* TIMEOUT, NETWORK, PROVIDER_RATE_LIMIT, PROVIDER_UNAVAILABLE.                *)
scheduleRetry(w) ==
  /\ worker[w].next = "SEND"
  /\ LET n == worker[w].attempts + 1 IN
       IF ~HasRetry(n) THEN Finish(w, "FAILED", n, NextAt(w))
       ELSE IF TooLate(w, RetryAt(worker[w].created, n)) THEN Finish(w, "CANCELLED", n, NextAt(w))
       ELSE Finish(w, "PENDING", n, RetryAt(worker[w].created, n))

crash(w) ==
  /\ worker[w] # Idle
  /\ worker' = [worker EXCEPT ![w] = Idle]
  /\ UNCHANGED <<account, pending, challenge, ticket, mail, token, open, left, now>>

(* cleanupIdentityState is a sequence of statements over at most so many rows  *)
(* each: here one row at a time.                                               *)
StaleMail(r) ==
  /\ IsRow(mail[r]) /\ mail[r].status \in {"PENDING", "PROCESSING"} /\ isCode(r)
  /\ ~(activeAt(r[2])
        /\ (challenge[r[2]].purpose = "REGISTRATION_VERIFY" => OpenPending(challenge[r[2]].of)))

cleanupCancelsMail(r) ==
  /\ StaleMail(r)
  /\ mail' = Cancelled(mail, {r})
  /\ UNCHANGED <<account, pending, challenge, ticket, token, worker, open, left, now>>

cleanupDeletesMail(r) ==
  /\ IsRow(mail[r])
  /\ \/ mail[r].status \in {"SENT", "CANCELLED"} /\ mail[r].updated + 7 * DAY <= now
     \/ mail[r].status = "FAILED" /\ mail[r].updated + 30 * DAY <= now
  /\ mail' = [mail EXCEPT ![r] = NoRow]
  /\ UNCHANGED <<account, pending, challenge, ticket, token, worker, open, left, now>>

spentIsOld(at) == at # None /\ at <= now  \* mutant: nothing is kept for the day

Old(at) == at # None /\ at + DAY <= now

cleanupDeletesTicket(c) ==
  /\ IsRow(ticket[c]) /\ (Old(ticket[c].expiresAt) \/ Old(ticket[c].consumedAt))
  /\ ticket' = [ticket EXCEPT ![c] = Gone]
  /\ UNCHANGED <<account, pending, challenge, mail, token, worker, open, left, now>>

(* Tickets go with their challenge; mail keeps its row, without the challenge. *)
Without(S) ==
  /\ challenge' = [c \in Challenges |-> IF c \in S THEN Gone ELSE challenge[c]]
  /\ ticket' = [c \in Challenges |-> IF c \in S /\ ticket[c] # NoRow THEN Gone ELSE ticket[c]]

cleanupDeletesChallenge(c) ==
  /\ IsRow(challenge[c]) /\ ChallengeFree(c)
  /\ \/ Old(challenge[c].expiresAt) \/ Old(challenge[c].consumedAt)
     \/ Old(challenge[c].invalidatedAt)
  /\ Without({c})
  /\ UNCHANGED <<account, pending, mail, token, worker, open, left, now>>

cleanupDeletesPending(p) ==
  /\ IsRow(pending[p]) /\ PendingFree(p)
  /\ pending[p].expiresAt <= now \/ Old(pending[p].consumedAt)
  /\ pending' = [pending EXCEPT ![p] = Gone]
  /\ Without(ChallengesOf("REGISTRATION_VERIFY", p))
  /\ UNCHANGED <<account, mail, token, worker, open, left, now>>

Dispatch ==
  \E w \in Workers :
    \/ \E r \in Rows : claimOutbox(w, r)
    \/ renderOutboxEnvelope(w) \/ finishWithStatus(w)
    \/ send(w) \/ sendRejected(w) \/ scheduleRetry(w) \/ crash(w)

Cleanup ==
  \/ \E r \in Rows : cleanupCancelsMail(r) \/ cleanupDeletesMail(r)
  \/ \E c \in Challenges : cleanupDeletesTicket(c) \/ cleanupDeletesChallenge(c)
  \/ \E p \in Pendings : cleanupDeletesPending(p)
=============================================================================
