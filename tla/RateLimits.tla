------------------------------ MODULE RateLimits ------------------------------
(* security/rate-limit.ts: counters in fixed windows, and a block that may     *)
(* outlast the window it began in.  Each call of the limiter is one statement. *)
EXTENDS ShopState

windowStart(scope) == (now \div Policies[scope].window) * Policies[scope].window
Key(scope, who) == <<scope, who, windowStart(scope)>>

RowsOf(b, scope, who) == {k \in DOMAIN b : k[1] = scope /\ k[2] = who}
InForce(b, scope, who) == {b[k].blocked : k \in RowsOf(b, scope, who)} \cap {i \in Nat : i > now}
BlockEnd(b, scope, who) == Max(InForce(b, scope, who) \cup {0})
Count(b, scope, who) == IF Key(scope, who) \in DOMAIN b THEN b[Key(scope, who)].count ELSE 0
Blocked(b, scope, who) == BlockEnd(b, scope, who) > now

extendsBlock(b, scope, who) ==
  LET policy == Policies[scope]
      reached == policy.cooldown # None /\ Count(b, scope, who) + 1 >= policy.limit
  IN IF reached THEN now + policy.cooldown ELSE BlockEnd(b, scope, who)

(* consume: a block in force stays as it is; a new one begins when the counter *)
(* reaches the limit of a policy that has a cool-down.                         *)
NextBlock(b, scope, who) ==
  LET policy == Policies[scope]
      reached == policy.cooldown # None /\ Count(b, scope, who) + 1 >= policy.limit
  IN IF Blocked(b, scope, who) THEN BlockEnd(b, scope, who)
     ELSE IF reached THEN now + policy.cooldown
     ELSE 0
Consumed(b, scopes, who) ==
  LET charged == {Key(s, who) : s \in scopes}
      row(s) == [count |-> Count(b, s, who) + 1, blocked |-> NextBlock(b, s, who),
                 expires |-> Max({windowStart(s) + Policies[s].retention, NextBlock(b, s, who)})]
  IN [k \in DOMAIN b \cup charged |-> IF k \in charged THEN row(k[1]) ELSE b[k]]

Grants(b, scope, who) ==
  ~Blocked(b, scope, who) /\ Count(b, scope, who) < Policies[scope].limit
inspect(scope, who) ==
  ~Blocked(bucket, scope, who) /\ Count(bucket, scope, who) <= Policies[scope].limit

(* consumeAll: every policy is charged, also after one has refused; the limits *)
(* on the address are charged only by who is within its own.                   *)
GrantAll(scopes, who) == \A s \in scopes : Grants(bucket, s, who)
ConsumedAll(mine, shared, who) ==
  IF GrantAll(mine, who) THEN Consumed(bucket, mine \cup shared, who)
  ELSE Consumed(bucket, mine, who)

Failures == {"login-failure-identity-15m", "login-failure-identity-hour"}
LoginIp == {"login-ip-15m"}
QuoteUser == {"order-quote-user-minute", "order-quote-user-day"}
QuoteIp == {"order-quote-ip-minute"}
CreateUser == {"order-create-user-hour", "order-create-user-day"}
CreateIp == {"order-create-ip-hour"}

(* Each limit that the code names has a policy, with whole numbers of minutes. *)
ASSUME PolicyAssumption ==
  /\ Failures \cup LoginIp \cup QuoteUser \cup QuoteIp \cup CreateUser \cup CreateIp
       \subseteq DOMAIN Policies
  /\ \A s \in DOMAIN Policies :
       /\ Policies[s].limit \in Nat /\ Policies[s].retention \in Nat
       /\ Policies[s].window \in Nat \ {0}
       /\ Policies[s].cooldown \in Nat \cup {None}

ASSUME InstantAssumption == 0 \in Instants /\ Instants \subseteq Nat

notShop == UNCHANGED <<menu, browser, request, order, amendment, tablet, now>>

(* A login is let in, or turned away; the external check that many failures    *)
(* ask for changes nothing here.                                               *)
protectLogin(c) ==
  /\ Takes("login")
  /\ bucket' = Consumed(bucket, LoginIp, c)
  /\ IF GrantAll(LoginIp, c) /\ inspect("login-failure-identity-hour", c)
       THEN signing' = [signing EXCEPT ![c] = @ + 1]
       ELSE UNCHANGED signing
  /\ notShop

recordLoginFailure(c) ==
  /\ signing[c] > 0
  /\ signing' = [signing EXCEPT ![c] = @ - 1]
  /\ bucket' = Consumed(bucket, Failures, c)
  /\ UNCHANGED left /\ notShop

clearLoginFailures(c) ==
  /\ signing[c] > 0
  /\ signing' = [signing EXCEPT ![c] = @ - 1]
  /\ LET kept == DOMAIN bucket \ UNION {RowsOf(bucket, s, c) : s \in Failures}
     IN bucket' = [k \in kept |-> bucket[k]]
  /\ UNCHANGED left /\ notShop

deleteExpiredRateLimitBuckets ==
  /\ \E k \in DOMAIN bucket : bucket[k].expires <= now
  /\ LET kept == {k \in DOMAIN bucket : bucket[k].expires > now}
     IN bucket' = [k \in kept |-> bucket[k]]
  /\ UNCHANGED <<signing, left>> /\ notShop

Limiting ==
  \/ \E c \in Customers : protectLogin(c) \/ recordLoginFailure(c) \/ clearLoginFailures(c)
  \/ deleteExpiredRateLimitBuckets
=============================================================================
