---------------------------- MODULE MC_Identity -----------------------------
(* One address; each scenario is an initial account and a few calls to come.   *)
EXTENDS Identity, TLC

CONSTANTS ada, p1, p2, w1, w2

Store == ada :> [NewAccount("STORE", "ACTIVE", TRUE, "ADMIN_PROVISIONED", TRUE) EXCEPT !.store = "ACTIVE"]
Nobody == ada :> NoRow
Customer == ada :> NewAccount("CUSTOMER", "ACTIVE", TRUE, None, TRUE)
Driver == ada :> NewAccount("DRIVER", "PENDING_APPROVAL", TRUE, None, TRUE)

Kinds == {"register", "mistype", "recover", "provision", "administer", "bootstrap", "session",
          "dispatch", "wait"}
Scenario(who, f) ==
  [account |-> who, left |-> [k \in Kinds |-> IF k \in DOMAIN f THEN f[k] ELSE 0]]

Registrations == Scenario(Nobody, [register |-> 2, wait |-> 2])
Mistypes == Scenario(Nobody, [register |-> 1, mistype |-> 2, dispatch |-> 1, wait |-> 2])
Collisions == Scenario(Nobody, [register |-> 1, provision |-> 1, wait |-> 1])
Activations == Scenario(Nobody, [provision |-> 1, mistype |-> 2, administer |-> 1, wait |-> 2])
Recoveries == Scenario(Customer, [recover |-> 2, dispatch |-> 1, wait |-> 1])
Sending == Scenario(Customer, [recover |-> 1, dispatch |-> 3, wait |-> 2])
Logins == Scenario(Customer, [session |-> 5, wait |-> 1])
Approvals == Scenario(Driver, [administer |-> 2, session |-> 2, recover |-> 1, wait |-> 1])
Suspensions == Scenario(Store, [administer |-> 3, session |-> 3])
Bootstraps == Scenario(Nobody, [bootstrap |-> 2, register |-> 1, wait |-> 2])

Everything == {Registrations, Mistypes, Collisions, Activations, Recoveries, Sending, Logins,
               Approvals, Suspensions, Bootstraps}
OneActivation == {Activations}
Moments == {0, 1, 11, 1440, 1451, 12000}
Addresses == {ada}
Forms == {p1, p2}
Dispatchers == {w1, w2}
SameForms == Permutations(Forms) \cup Permutations(Dispatchers)
=============================================================================
