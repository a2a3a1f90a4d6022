-------------------------------- MODULE Sums --------------------------------
(* Facts about finite sets that the proofs share: a smallest subset, a largest *)
(* number, and sums as a fold adds them up, in whatever order.                 *)
EXTENDS FiniteSetTheorems, TLAPS

(* Any set of naturals with a bound has a largest.                             *)
LEMMA LargestBounded ==
  ASSUME NEW n \in Nat, NEW T \in SUBSET (0..n), T # {}
  PROVE  \E t \in T : \A u \in T : u <= t
<1> DEFINE R == OpToRel(<, Nat)
           D == {m \in Nat : n - m \in T}
<1>1. T \subseteq Nat /\ \A u \in T : u <= n
  OBVIOUS
<1>2. \A u \in T : n - u \in D
  BY <1>1
<1>3. D \subseteq Nat /\ D # {}
  BY <1>2
<1>4. \E d \in D : \A e \in D : ~(<<e, d>> \in R)
  <2> HIDE DEF D
  <2> QED
    BY <1>3, NatLessThanWellFounded, WFMin
<1>5. PICK d \in D : \A e \in D : ~(<<e, d>> \in R)
  BY <1>4
<1>6. \A e \in D : ~(e < d)
  <2> SUFFICES ASSUME NEW e \in D, e < d PROVE FALSE
    OBVIOUS
  <2>1. e \in Nat /\ d \in Nat
    BY <1>3
  <2>2. <<e, d>> \in R
    BY <2>1 DEF OpToRel
  <2> QED
    BY <2>2, <1>5
<1>7. ASSUME NEW u \in T PROVE u <= n - d
  <2>1. n - u \in D /\ d \in D
    BY <1>2, <1>5
  <2>2. ~(n - u < d)
    BY <2>1, <1>6
  <2>3. u \in Nat /\ d \in Nat
    BY <1>1, <1>3, <2>1
  <2> HIDE DEF D, R
  <2> QED
    BY <2>2, <2>3, <1>1
<1>8. QED
  BY <1>7, <1>5

-----------------------------------------------------------------------------
(* g gives every subset of S what f adds up to on it, an element at a time.    *)
Pick(s) == CHOOSE x \in s : TRUE

AddsUp(g, f, S) ==
  g = [s \in SUBSET S |-> IF s = {} THEN 0 ELSE f[Pick(s)] + g[s \ {Pick(s)}]]

LEMMA Picked == ASSUME NEW s, s # {}  PROVE Pick(s) \in s
BY DEF Pick

Smallest(m, Bad) == m \in Bad /\ \A t \in Bad : t \subseteq m => t = m

(* Among sets of subsets of a finite set there is a smallest one: the form in  *)
(* which induction on finite sets is used below.                               *)
LEMMA SmallestSubset ==
  ASSUME NEW S, IsFiniteSet(S), NEW Bad \in SUBSET SUBSET S, Bad # {}
  PROVE  \E m : Smallest(m, Bad)
<1> DEFINE R == StrictSubsetOrdering(S)
<1>1. IsWellFoundedOn(R, SUBSET S)
  BY FS_FiniteSubsetsOfFinite, FS_StrictSubsetOrderingWellFounded
<1> HIDE DEF R
<1>2. PICK m \in Bad : \A t \in Bad : ~(<<t, m>> \in R)
  BY <1>1, WFMin
<1>3. ASSUME NEW t \in Bad, t \subseteq m, t # m  PROVE FALSE
  BY <1>2, <1>3 DEF R, StrictSubsetOrdering
<1>4. QED
  BY <1>2, <1>3 DEF Smallest

(* The values of a function on a finite set.                                   *)
LEMMA FiniteValues ==
  ASSUME NEW S, IsFiniteSet(S), NEW f, f = [x \in S |-> f[x]], NEW T, T = {f[x] : x \in S}
  PROVE  IsFiniteSet(T)
<1>1. f \in Surjection(S, T)
  BY DEF Surjection
<1>2. QED
  BY <1>1, FS_Surjection

LEMMA LargestFinite ==
  ASSUME NEW T \in SUBSET Int, IsFiniteSet(T), T # {}
  PROVE  \E t \in T : \A u \in T : t >= u
<1> DEFINE Bad == {s \in SUBSET T : s # {} /\ ~\E t \in s : \A u \in s : t >= u}
<1> SUFFICES ASSUME Bad # {}  PROVE FALSE
  OBVIOUS
<1>1. PICK m \in Bad : \A t \in Bad : t \subseteq m => t = m
  <2>1. Bad \in SUBSET SUBSET T
    OBVIOUS
  <2>2. Bad # {} /\ IsFiniteSet(T)
    OBVIOUS
  <2> HIDE DEF Bad
  <2>3. PICK w : Smallest(w, Bad)
    BY <2>1, <2>2, SmallestSubset
  <2>4. QED
    BY <2>3 DEF Smallest
<1>2. PICK x \in m : x \in Int
  BY <1>1
<1>3. m \ {x} \notin Bad
  BY <1>1, <1>2
<1>4. CASE m \ {x} = {}
  <2>1. m = {x}
    BY <1>2, <1>4
  <2>2. QED
    BY <1>1, <1>2, <2>1
<1>5. CASE m \ {x} # {}
  <2>1. PICK t \in m \ {x} : \A u \in m \ {x} : t >= u
    BY <1>1, <1>3, <1>5
  <2>2. t \in Int /\ m \in SUBSET Int
    BY <1>1
  <2>3. \E v \in m : \A u \in m : v >= u
    <3>1. CASE t >= x
      BY <2>1, <3>1
    <3>2. CASE x >= t
      <4>1. \A u \in m : u \in Int
        BY <2>2
      <4>2. QED
        BY <1>2, <2>1, <2>2, <3>2, <4>1
    <3>3. QED
      BY <1>2, <2>2, <3>1, <3>2
  <2>4. QED
    BY <1>1, <2>3
<1>6. QED
  BY <1>4, <1>5

LEMMA SumUnfolds ==
  ASSUME NEW f, NEW S, NEW g, AddsUp(g, f, S), NEW s \in SUBSET S
  PROVE  g[s] = IF s = {} THEN 0 ELSE f[Pick(s)] + g[s \ {Pick(s)}]
<1> DEFINE G == [t \in SUBSET S |-> IF t = {} THEN 0 ELSE f[Pick(t)] + g[t \ {Pick(t)}]]
<1>1. G[s] = IF s = {} THEN 0 ELSE f[Pick(s)] + g[s \ {Pick(s)}]
  OBVIOUS
<1>2. g = G
  BY DEF AddsUp
<1> HIDE DEF G
<1>3. QED
  BY <1>1, <1>2

(* Whatever set it is asked in, a sum depends on the values added up only.     *)
LEMMA SumIsOne ==
  ASSUME NEW f, NEW h, NEW S, NEW T, NEW g, NEW k,
         AddsUp(g, f, S), AddsUp(k, h, T),
         NEW s \in SUBSET S, s \in SUBSET T, IsFiniteSet(s), \A x \in s : f[x] = h[x]
  PROVE  g[s] = k[s]
<1> DEFINE Bad == {t \in SUBSET s : g[t] # k[t]}
<1> SUFFICES ASSUME Bad # {}  PROVE FALSE
  OBVIOUS
<1>1. PICK m \in Bad : \A t \in Bad : t \subseteq m => t = m
  <2>1. Bad \in SUBSET SUBSET s
    OBVIOUS
  <2> HIDE DEF Bad
  <2>2. PICK w : Smallest(w, Bad)
    BY <2>1, SmallestSubset
  <2>3. QED
    BY <2>2 DEF Smallest
<1>2. m \in SUBSET S /\ m \in SUBSET T
  BY <1>1
<1>3. m # {}
  <2> SUFFICES ASSUME m = {}  PROVE FALSE
    OBVIOUS
  <2>1. g[m] = 0
    BY <1>2, SumUnfolds
  <2>2. k[m] = 0
    BY <1>2, SumUnfolds
  <2>3. QED
    BY <1>1, <2>1, <2>2
<1>4. Pick(m) \in m /\ f[Pick(m)] = h[Pick(m)]
  BY <1>3, Picked
<1>5. g[m] = f[Pick(m)] + g[m \ {Pick(m)}] /\ k[m] = h[Pick(m)] + k[m \ {Pick(m)}]
  BY <1>2, <1>3, SumUnfolds
<1>6. m \ {Pick(m)} \notin Bad
  BY <1>1, <1>4
<1>7. g[m \ {Pick(m)}] = k[m \ {Pick(m)}]
  BY <1>6
<1>8. QED
  BY <1>1, <1>4, <1>5, <1>7

(* There is a sum: the recursive definition of the fold means something.       *)
LEMMA SumExists == ASSUME NEW f, NEW S, IsFiniteSet(S)  PROVE \E g : AddsUp(g, f, S)
<1> DEFINE Bad == {s \in SUBSET S : ~\E g : AddsUp(g, f, s)}
<1> SUFFICES ASSUME Bad # {}  PROVE FALSE
  OBVIOUS
<1>1. PICK m \in Bad : \A t \in Bad : t \subseteq m => t = m
  <2>1. Bad \in SUBSET SUBSET S
    OBVIOUS
  <2> HIDE DEF Bad
  <2>2. PICK w : Smallest(w, Bad)
    BY <2>1, SmallestSubset
  <2>3. QED
    BY <2>2 DEF Smallest
<1> DEFINE sum(u) == CHOOSE h : AddsUp(h, f, u)
           g == [t \in SUBSET m |-> IF t = {} THEN 0
                                    ELSE f[Pick(t)] + sum(t \ {Pick(t)})[t \ {Pick(t)}]]
<1>2. ASSUME NEW t \in SUBSET m, t # m  PROVE AddsUp(sum(t), f, t)
  <2>1. t \notin Bad
    BY <1>1, <1>2
  <2>2. \E h : AddsUp(h, f, t)
    BY <2>1
  <2>3. QED
    BY <2>2
<1> HIDE DEF sum
<1>3. ASSUME NEW u \in SUBSET m, u # m  PROVE g[u] = sum(u)[u]
  <2>1. AddsUp(sum(u), f, u)
    BY <1>2, <1>3
  <2>2. CASE u = {}
    BY <2>1, <2>2, SumUnfolds
  <2>3. CASE u # {}
    <3> DEFINE v == u \ {Pick(u)}
    <3>1. v \in SUBSET m /\ v # m /\ v \in SUBSET u /\ v \in SUBSET v
      BY <1>3, <2>3, Picked
    <3>2. IsFiniteSet(v)
      BY FS_Subset
    <3>3. AddsUp(sum(v), f, v)
      BY <1>2, <3>1
    <3>4. sum(u)[v] = sum(v)[v]
      BY <2>1, <3>1, <3>2, <3>3, SumIsOne
    <3>5. sum(u)[u] = f[Pick(u)] + sum(u)[v]
      BY <2>1, <2>3, SumUnfolds
    <3>6. g[u] = f[Pick(u)] + sum(v)[v]
      BY <2>3
    <3>7. QED
      BY <3>4, <3>5, <3>6
  <2>4. QED
    BY <2>2, <2>3
<1>4. ASSUME NEW t \in SUBSET m, t # {}
      PROVE  g[t \ {Pick(t)}] = sum(t \ {Pick(t)})[t \ {Pick(t)}]
  <2>1. t \ {Pick(t)} \in SUBSET m /\ t \ {Pick(t)} # m
    BY <1>4, Picked
  <2> HIDE DEF g
  <2>2. QED
    BY <1>3, <2>1
<1> DEFINE body(t) == IF t = {} THEN 0 ELSE f[Pick(t)] + g[t \ {Pick(t)}]
<1>5. \A t \in SUBSET m : g[t] = body(t)
  BY <1>4
<1>6. g = [t \in SUBSET m |-> g[t]]
  OBVIOUS
<1> HIDE DEF g
<1>7. [t \in SUBSET m |-> g[t]] = [t \in SUBSET m |-> body(t)]
  BY <1>5
<1>8. AddsUp(g, f, m)
  BY <1>6, <1>7 DEF AddsUp
<1>9. QED
  BY <1>1, <1>8

LEMMA SumType ==
  ASSUME NEW f, NEW S, IsFiniteSet(S), NEW g, AddsUp(g, f, S), \A x \in S : f[x] \in Int,
         NEW s \in SUBSET S
  PROVE  g[s] \in Int
<1> DEFINE Bad == {t \in SUBSET S : g[t] \notin Int}
<1> SUFFICES ASSUME Bad # {}  PROVE FALSE
  OBVIOUS
<1>1. PICK m \in Bad : \A t \in Bad : t \subseteq m => t = m
  <2>1. Bad \in SUBSET SUBSET S
    OBVIOUS
  <2> HIDE DEF Bad
  <2>2. PICK w : Smallest(w, Bad)
    BY <2>1, SmallestSubset
  <2>3. QED
    BY <2>2 DEF Smallest
<1>2. m # {}
  <2> SUFFICES ASSUME m = {}  PROVE FALSE
    OBVIOUS
  <2>1. g[m] = 0
    BY <1>1, SumUnfolds
  <2>2. QED
    BY <1>1, <2>1
<1>3. Pick(m) \in m /\ m \in SUBSET S
  BY <1>1, <1>2, Picked
<1>4. g[m \ {Pick(m)}] \in Int
  BY <1>1, <1>3
<1>5. g[m] = f[Pick(m)] + g[m \ {Pick(m)}]
  BY <1>2, <1>3, SumUnfolds
<1>6. QED
  BY <1>1, <1>3, <1>4, <1>5

(* Whichever element is taken first.                                           *)
LEMMA SumRemoves ==
  ASSUME NEW f, NEW S, IsFiniteSet(S), NEW g, AddsUp(g, f, S), \A x \in S : f[x] \in Int,
         NEW s \in SUBSET S, NEW a \in s
  PROVE  g[s] = f[a] + g[s \ {a}]
<1> DEFINE Bad == {t \in SUBSET S : \E x \in t : g[t] # f[x] + g[t \ {x}]}
<1> SUFFICES ASSUME Bad # {}  PROVE FALSE
  OBVIOUS
<1>1. PICK m \in Bad : \A t \in Bad : t \subseteq m => t = m
  <2>1. Bad \in SUBSET SUBSET S
    OBVIOUS
  <2> HIDE DEF Bad
  <2>2. PICK w : Smallest(w, Bad)
    BY <2>1, SmallestSubset
  <2>3. QED
    BY <2>2 DEF Smallest
<1>2. PICK x \in m : g[m] # f[x] + g[m \ {x}]
  BY <1>1
<1> DEFINE c == Pick(m)
<1>3. c \in m /\ g[m] = f[c] + g[m \ {c}]
  <2>1. m \in SUBSET S /\ m # {}
    BY <1>1, <1>2
  <2>2. QED
    BY <2>1, Picked, SumUnfolds
<1> HIDE DEF c
<1>4. x # c
  BY <1>2, <1>3
<1>5. g[m \ {c}] = f[x] + g[(m \ {c}) \ {x}]
  <2>1. m \ {c} \notin Bad /\ m \ {c} \in SUBSET S /\ x \in m \ {c}
    BY <1>1, <1>3, <1>4
  <2>2. QED
    BY <2>1
<1>6. g[m \ {x}] = f[c] + g[(m \ {x}) \ {c}]
  <2>1. m \ {x} \notin Bad /\ m \ {x} \in SUBSET S /\ c \in m \ {x}
    BY <1>1, <1>3, <1>4
  <2>2. QED
    BY <2>1
<1>7. (m \ {x}) \ {c} = (m \ {c}) \ {x}
  OBVIOUS
<1>8. g[(m \ {c}) \ {x}] \in Int /\ f[x] \in Int /\ f[c] \in Int
  BY <1>1, <1>3, SumType
<1>9. g[m \ {x}] = f[c] + g[(m \ {c}) \ {x}]
  BY <1>6, <1>7
<1> DEFINE r == g[(m \ {c}) \ {x}]
<1>10. f[c] + (f[x] + r) = f[x] + (f[c] + r)
  BY <1>8
<1>11. QED
  BY <1>2, <1>3, <1>5, <1>9, <1>10

(* One element more.                                                           *)
LEMMA SumAdds ==
  ASSUME NEW f, NEW S, IsFiniteSet(S), NEW g, AddsUp(g, f, S), \A x \in S : f[x] \in Int,
         NEW s \in SUBSET S, NEW a \in S \ s
  PROVE  g[s \cup {a}] = f[a] + g[s]
<1>1. s \cup {a} \in SUBSET S /\ a \in s \cup {a} /\ (s \cup {a}) \ {a} = s
  OBVIOUS
<1>2. QED
  BY <1>1, SumRemoves

(* With nothing to take away, a larger set adds up to more.                    *)
LEMMA SumGrows ==
  ASSUME NEW f, NEW S, IsFiniteSet(S), NEW g, AddsUp(g, f, S), \A x \in S : f[x] \in Nat,
         NEW t \in SUBSET S, NEW s \in SUBSET t
  PROVE  g[s] <= g[t]
<1> DEFINE Bad == {u \in SUBSET S : ~(s \subseteq u => g[s] <= g[u])}
<1> SUFFICES ASSUME Bad # {}  PROVE FALSE
  OBVIOUS
<1>1. PICK m \in Bad : \A u \in Bad : u \subseteq m => u = m
  <2>1. Bad \in SUBSET SUBSET S
    OBVIOUS
  <2> HIDE DEF Bad
  <2>2. PICK w : Smallest(w, Bad)
    BY <2>1, SmallestSubset
  <2>3. QED
    BY <2>2 DEF Smallest
<1>2. m \in SUBSET S /\ s \subseteq m /\ ~(g[s] <= g[m])
  BY <1>1
<1>3. \A u \in SUBSET S : g[u] \in Int
  BY SumType
<1>4. PICK a \in m : a \notin s
  <2> SUFFICES ASSUME m \subseteq s  PROVE FALSE
    OBVIOUS
  <2>1. m = s /\ g[s] \in Int
    BY <1>2, <1>3
  <2>2. QED
    BY <1>2, <2>1
<1>5. g[m] = f[a] + g[m \ {a}]
  BY <1>2, SumRemoves
<1>6. g[s] <= g[m \ {a}]
  BY <1>1, <1>2, <1>4
<1>7. f[a] \in Nat /\ g[m \ {a}] \in Int /\ g[s] \in Int /\ g[m] \in Int
  BY <1>2, <1>3
<1>8. QED
  BY <1>2, <1>5, <1>6, <1>7

LEMMA SumNat ==
  ASSUME NEW f, NEW S, IsFiniteSet(S), NEW g, AddsUp(g, f, S), \A x \in S : f[x] \in Nat
  PROVE  g[S] \in Nat
<1>1. g[{}] = 0
  BY SumUnfolds
<1>2. \A x \in S : f[x] \in Int
  OBVIOUS
<1>3. g[S] \in Int
  BY <1>2, SumType
<1>4. g[{}] <= g[S]
  BY SumGrows
<1>5. QED
  BY <1>1, <1>3, <1>4
=============================================================================
