------------------------------ MODULE Sessions -------------------------------
(* auth.service.ts, and the session half of security-session.service.ts: a     *)
(* login begins a family of refresh tokens, of which each is used once.        *)
EXTENDS Accounts

assertLoginable(e) ==
  /\ IsRow(account[e]) /\ account[e].verified /\ account[e].status = "ACTIVE"
  /\ account[e].role = "STORE" => account[e].store = "ACTIVE"

loginUser(e, k) ==
  /\ Takes("session")
  /\ assertLoginable(e) /\ account[e].password
  /\ FreshToken(k)
  /\ token' = insertToken(k, e, k, account[e].version)
  /\ UNCHANGED <<account, pending, challenge, ticket, mail, worker, open, now>>

TokenFree(k) == \A t \in open : t.token # k

FamilyOf(k) == {j \in Tokens : IsRow(token[j]) /\ token[j].family = token[k].family}

Unexpired(k) == IsRow(token[k]) /\ ~token[k].revoked /\ token[k].expiresAt >= now

claimsAgain(k) ==                        \* mutant: a used token is claimed like a new one
  /\ Takes("session")
  /\ Unexpired(k) /\ TokenFree(k)
  /\ assertLoginable(token[k].of)
  /\ open' = open \cup {[op |-> "rotate", pending |-> None, challenge |-> None, token |-> k,
                         saw |-> account[token[k].of].version, at |-> now]}
  /\ UNCHANGED <<account, pending, challenge, ticket, mail, token, worker, now>>

(* The token is claimed, its row locked, and the user looked up.               *)
rotateClaims(k) ==
  /\ Takes("session")
  /\ Unexpired(k) /\ TokenFree(k) /\ ~token[k].used
  /\ assertLoginable(token[k].of)
  /\ open' = open \cup {[op |-> "rotate", pending |-> None, challenge |-> None, token |-> k,
                         saw |-> account[token[k].of].version, at |-> now]}
  /\ UNCHANGED <<account, pending, challenge, ticket, mail, token, worker, now>>

rotateRefreshToken(t, k) ==
  /\ ends(t, "rotate") /\ FreshToken(k)
  /\ token' = [insertToken(k, token[t.token].of, token[t.token].family, t.saw)
                 EXCEPT ![t.token].used = TRUE]
  /\ UNCHANGED <<account, pending, challenge, ticket, mail, worker, left, now>>

RevokedFamily(k) ==
  [j \in Tokens |-> IF j \in FamilyOf(k) THEN [token[j] EXCEPT !.revoked = TRUE] ELSE token[j]]

(* A token comes a second time: nobody keeps the session.                      *)
rotateRevokes(k) ==
  /\ Takes("session")
  /\ Unexpired(k) /\ TokenFree(k) /\ token[k].used
  /\ token' = RevokedFamily(k)
  /\ UNCHANGED <<account, pending, challenge, ticket, mail, worker, open, now>>

(* The bearer of an access token issued with token k.                          *)
resolveLivePrincipal(k) ==
  /\ IsRow(token[k])
  /\ assertLoginable(token[k].of) /\ account[token[k].of].version = token[k].version
  /\ \E j \in FamilyOf(k) : Unexpired(j)

(* A revocation that meets a rotation waits for the row it has locked, and     *)
(* does not see the row it inserts.                                            *)
revokeSessionFamily(k) ==
  /\ Takes("session")
  /\ resolveLivePrincipal(k)
  /\ token' = RevokedFamily(k)
  /\ UNCHANGED <<account, pending, challenge, ticket, mail, worker, open, now>>

revokeAllSessions(k) ==
  /\ Takes("session")
  /\ resolveLivePrincipal(k)
  /\ account' = [account EXCEPT ![token[k].of].version = @ + 1]
  /\ token' = RevokedOf(token[k].of)
  /\ UNCHANGED <<pending, challenge, ticket, mail, worker, open, now>>

SigningIn ==
  \/ \E k \in Tokens :
       \/ \E e \in Emails : loginUser(e, k)
       \/ rotateClaims(k) \/ rotateRevokes(k)
       \/ revokeSessionFamily(k) \/ revokeAllSessions(k)
       \/ \E t \in open : rotateRefreshToken(t, k)
=============================================================================
