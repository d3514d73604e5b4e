-------------------------- MODULE QTimeEvt_proofs ---------------------------
(***************************************************************************)
(* Proofs about QTimeEvt: for every finite set of time events the linked   *)
(* list of QF_tick is a list, holds the linked time events, and the walk   *)
(* along it implements the independent count-downs of Timers.              *)
(***************************************************************************)
EXTENDS QTimeEvt, FiniteSetTheorems, WellFoundedInduction, TLAPS

(* f enumerates a list of n time events: f[1] is the head, f[n + 1] the    *)
(* null pointer at the end, and nx links each to the next.                 *)
Chain(nx, f, n) ==
  /\ f \in [1 .. n + 1 -> TimeEvt \cup {NULL}]
  /\ f[n + 1] = NULL
  /\ \A i \in 1 .. n : f[i] \in TimeEvt /\ nx[f[i]] = f[i + 1]
  /\ \A i, j \in 1 .. n : f[i] = f[j] => i = j

(* The list that QF_timeEvtListHead_ begins holds the linked time events.  *)
ListIs(f, n) ==
  /\ Chain(next, f, n)
  /\ listHead = f[1]
  /\ \A t \in TimeEvt : linked[t] = 1 <=> \E i \in 1 .. n : t = f[i]

(* QF_tick has come to the k-th time event, or to the end, and the one     *)
(* before is the previous one.                                             *)
WalkIs(f, n, k) ==
  /\ cursor = f[k]
  /\ k = 1 => prev = NULL
  /\ k > 1 => prev = f[k - 1]

(* Outside of QF_tick there is no walk; one that posts has a time event.   *)
PhaseInv ==
  /\ at = "out" => cursor = NULL /\ prev = NULL
  /\ at \in {"post", "after"} => cursor # NULL

WalkInv ==
  \E n \in Nat : \E f \in [1 .. n + 1 -> TimeEvt \cup {NULL}] :
    /\ ListIs(f, n)
    /\ at = "out" \/ \E k \in 1 .. n + 1 : WalkIs(f, n, k)

ArmedLinked == \A t \in TimeEvt : ctr[t] # 0 => linked[t] = 1

IInv == TypeOK /\ PhaseInv /\ ArmedLinked /\ WalkInv

----------------------------------------------------------------------------
(* Lists.                                                                  *)

(* The least number principle.                                             *)
LEMMA LeastNat ==
  ASSUME NEW S, S \subseteq Nat, S # {}
  PROVE  \E x \in S : \A y \in S : x <= y
<1>1. \E R : IsWellFoundedOn(R, Nat) /\ \A x, y \in Nat : <<y, x>> \in R <=> y < x
  <2>1. \A x, y \in Nat : <<y, x>> \in OpToRel(<, Nat) <=> y < x
    BY DEF OpToRel
  <2> WITNESS OpToRel(<, Nat)
  <2> QED BY <2>1, NatLessThanWellFounded, Zenon
<1>2. PICK R : IsWellFoundedOn(R, Nat) /\ \A x, y \in Nat : <<y, x>> \in R <=> y < x
  BY <1>1
<1>3. PICK x \in S : \A y \in S : ~ (<<y, x>> \in R)
  BY <1>2, WFMin
<1>4. \A y \in S : ~ (y < x)
  BY <1>2, <1>3, S \subseteq Nat, Zenon
<1> QED BY <1>4

(* A list is not longer than there are time events.                        *)
LEMMA ChainLength ==
  ASSUME NEW nx, NEW n \in Nat, NEW f, Chain(nx, f, n)
  PROVE  Cardinality(TimeEvt) \in Nat /\ n <= Cardinality(TimeEvt)
<1> DEFINE S == {f[i] : i \in 1 .. n}
           g == [i \in 1 .. n |-> f[i]]
<1>1. S \subseteq TimeEvt
  BY DEF Chain
<1>2. g \in Bijection(1 .. n, S)
  BY DEF Chain, Bijection, Injection, Surjection, IsInjective
<1> HIDE DEF g, S
<1>3. ExistsBijection(1 .. n, S)
  BY <1>2 DEF ExistsBijection
<1>4. IsFiniteSet(1 .. n) /\ Cardinality(1 .. n) = n
  BY FS_Interval
<1>5. Cardinality(S) = n
  BY <1>3, <1>4, FS_Bijection
<1>6. IsFiniteSet(TimeEvt) /\ Cardinality(TimeEvt) \in Nat
  BY TimeEvtAssumption, FS_CardinalityType
<1>7. Cardinality(S) <= Cardinality(TimeEvt)
  BY <1>1, <1>6, FS_Subset
<1> QED BY <1>5, <1>6, <1>7

(* The recursion of Path has a solution: the rest of the list, then NULL.  *)
LEMMA PathIs ==
  ASSUME NEW nx, NEW n \in Nat, NEW f, Chain(nx, f, n), NEW k \in 1 .. n + 1
  PROVE  \A m \in 0 .. Cardinality(TimeEvt) :
           Path(nx, f[k])[m] = IF k + m <= n + 1 THEN f[k + m] ELSE NULL
<1> DEFINE C == Cardinality(TimeEvt)
           rest(m) == IF k + m <= n + 1 THEN f[k + m] ELSE NULL
           step(g) == [m \in 0 .. C |-> IF m = 0 THEN f[k] ELSE IF g[m - 1] = NULL THEN NULL
                                        ELSE nx[g[m - 1]]]
           h == [m \in 0 .. C |-> rest(m)]
           p == Path(nx, f[k])
<1>0. C \in Nat /\ NULL \notin TimeEvt
  BY ChainLength, TimeEvtAssumption
<1> HIDE DEF C
<1>1. rest(0) = f[k]
  OBVIOUS
<1>2. \A m \in 1 .. C : rest(m) = IF rest(m - 1) = NULL THEN NULL ELSE nx[rest(m - 1)]
  <2> TAKE m \in 1 .. C
  <2>1. CASE k + (m - 1) <= n
    <3>1. k + (m - 1) \in 1 .. n /\ k + (m - 1) + 1 = k + m /\ k + m <= n + 1 /\ k + (m - 1) <= n + 1
      BY <1>0, <2>1
    <3>2. f[k + (m - 1)] \in TimeEvt /\ nx[f[k + (m - 1)]] = f[k + (m - 1) + 1]
      BY <3>1 DEF Chain
    <3> QED BY <1>0, <3>1, <3>2
  <2>2. CASE k + (m - 1) = n + 1
    <3>1. ~(k + m <= n + 1)
      BY <1>0, <2>2
    <3> QED BY <2>2, <3>1 DEF Chain
  <2>3. CASE k + (m - 1) > n + 1
    <3>1. ~(k + m <= n + 1) /\ ~(k + (m - 1) <= n + 1)
      BY <1>0, <2>3
    <3> QED BY <3>1
  <2> QED BY <1>0, <2>1, <2>2, <2>3
<1> HIDE DEF rest
<1>3. h = step(h)
  <2>1. \A m \in 0 .. C : h[m] = step(h)[m]
    <3> TAKE m \in 0 .. C
    <3>1. CASE m = 0
      BY <1>1, <3>1
    <3>2. CASE m # 0
      <4>1. m \in 1 .. C /\ m - 1 \in 0 .. C
        BY <1>0, <3>2
      <4>2. h[m - 1] = rest(m - 1)
        BY <4>1
      <4> QED BY <1>2, <3>2, <4>1, <4>2
    <3> QED BY <3>1, <3>2
  <2> QED BY <2>1
<1> HIDE DEF h
<1>4. p = step(p)
  <2>1. \E g : g = step(g)
    BY <1>3
  <2> HIDE DEF p
  <2>2. p = CHOOSE g : g = step(g)
    BY DEF p, Path, C
  <2> QED BY <2>1, <2>2, Zenon
<1> HIDE DEF p
<1>5. /\ p[0] = f[k]
      /\ \A m \in 1 .. C : p[m] = IF p[m - 1] = NULL THEN NULL ELSE nx[p[m - 1]]
  <2>1. \A m \in 0 .. C : p[m] = IF m = 0 THEN f[k] ELSE IF p[m - 1] = NULL THEN NULL
                                 ELSE nx[p[m - 1]]
    BY <1>4
  <2> QED BY <1>0, <2>1
<1> DEFINE Bad == {m \in Nat : m \in 0 .. C /\ p[m] # rest(m)}
<1>6. Bad = {}
  <2> SUFFICES ASSUME Bad # {}
               PROVE  FALSE
    OBVIOUS
  <2>1. PICK m \in Bad : \A y \in Bad : m <= y
    BY LeastNat
  <2>2. m # 0
    BY <1>1, <1>5, <2>1
  <2>3. m \in 1 .. C /\ m - 1 \in 0 .. C /\ m - 1 \in Nat /\ m - 1 \notin Bad
    BY <1>0, <2>1, <2>2
  <2>4. p[m - 1] = rest(m - 1)
    BY <2>3
  <2> QED BY <1>2, <1>5, <2>1, <2>3, <2>4
<1>7. \A m \in 0 .. C : p[m] = rest(m)
  BY <1>0, <1>6
<1> QED BY <1>7 DEF C, rest, p

(* The list from its k-th time event on.                                   *)
Rest(f, k, n) == {f[i] : i \in k .. n}

(* What is in the list from its k-th time event on, and where it ends.     *)
LEMMA FromIs ==
  ASSUME NEW nx, NEW n \in Nat, NEW f, Chain(nx, f, n), NEW k \in 1 .. n + 1
  PROVE  /\ From(nx, f[k]) = Rest(f, k, n)
         /\ Path(nx, f[1])[Cardinality(TimeEvt)] = NULL
<1> DEFINE C == Cardinality(TimeEvt)
           p == Path(nx, f[k])
<1>0. C \in Nat /\ n <= C /\ NULL \notin TimeEvt
  BY ChainLength, TimeEvtAssumption
<1>1. \A m \in 0 .. C : p[m] = IF k + m <= n + 1 THEN f[k + m] ELSE NULL
  BY PathIs
<1>2. From(nx, f[k]) = {p[m] : m \in 0 .. C} \ {NULL}
  BY DEF From
<1>3. Path(nx, f[1])[C] = NULL
  <2>1. 1 \in 1 .. n + 1 /\ C \in 0 .. C
    BY <1>0
  <2>2. Path(nx, f[1])[C] = IF 1 + C <= n + 1 THEN f[1 + C] ELSE NULL
    BY <2>1, PathIs
  <2>3. 1 + C <= n + 1 => 1 + C = n + 1
    BY <1>0
  <2> QED BY <2>2, <2>3 DEF Chain
<1> HIDE DEF C, p
<1>4. ASSUME NEW x \in {p[m] : m \in 0 .. C} \ {NULL}
      PROVE  x \in {f[i] : i \in k .. n}
  <2>1. PICK m \in 0 .. C : x = p[m]
    OBVIOUS
  <2>2. k + m <= n + 1 /\ x = f[k + m]
    BY <1>1, <2>1
  <2>3. k + m # n + 1
    BY <2>2 DEF Chain
  <2>4. k + m \in k .. n
    BY <1>0, <2>2, <2>3
  <2> QED BY <2>2, <2>4
<1>5. ASSUME NEW i \in k .. n
      PROVE  f[i] \in {p[m] : m \in 0 .. C} \ {NULL}
  <2>1. i - k \in 0 .. C /\ k + (i - k) = i /\ i <= n + 1 /\ i \in 1 .. n
    BY <1>0
  <2>2. p[i - k] = f[i]
    BY <1>1, <2>1
  <2>3. f[i] # NULL
    BY <1>0, <2>1 DEF Chain
  <2> QED BY <2>1, <2>2, <2>3
<1>6. From(nx, f[k]) = {f[i] : i \in k .. n}
  BY <1>2, <1>4, <1>5
<1> QED BY <1>3, <1>6 DEF C, Rest

(* t links to u now; nothing else has changed.                             *)
Relinked(nx, ny, t, u) == \A v \in TimeEvt : ny[v] = IF v = t THEN u ELSE nx[v]

(* The list does not have t.                                               *)
Lacks(f, n, t) == \A i \in 1 .. n : f[i] # t

(* A time event at the front of the list.                                  *)
Front(f, n, t) == [i \in 1 .. n + 1 + 1 |-> IF i = 1 THEN t ELSE f[i - 1]]

(* It is followed by the list as it was.                                   *)
LEMMA ChainFront ==
  ASSUME NEW nx, NEW n \in Nat, NEW f, Chain(nx, f, n),
         NEW t \in TimeEvt, Lacks(f, n, t),
         NEW ny, Relinked(nx, ny, t, f[1])
  PROVE  Chain(ny, Front(f, n, t), n + 1)
<1> DEFINE g == Front(f, n, t)
<1>1. /\ g[1] = t /\ DOMAIN g = 1 .. n + 1 + 1
      /\ \A i \in 1 .. n + 1 : i + 1 \in 1 .. n + 1 + 1 /\ g[i + 1] = f[i]
  BY DEF Front
<1>2. \A i \in 1 .. n + 1 + 1 : i = 1 \/ \E j \in 1 .. n + 1 : i = j + 1 /\ g[i] = f[j]
  <2> TAKE i \in 1 .. n + 1 + 1
  <2>1. i # 1 => i - 1 \in 1 .. n + 1 /\ i = i - 1 + 1
    OBVIOUS
  <2> QED BY <1>1, <2>1
<1>3. \A i \in 1 .. n + 1 : f[i] \in TimeEvt \cup {NULL}
  BY DEF Chain
<1>4. g \in [1 .. n + 1 + 1 -> TimeEvt \cup {NULL}]
  <2>1. \A i \in 1 .. n + 1 + 1 : g[i] \in TimeEvt \cup {NULL}
    BY <1>1, <1>2, <1>3
  <2> QED BY <2>1 DEF Front
<1> HIDE DEF g
<1>5. g[n + 1 + 1] = NULL
  <2>1. n + 1 \in 1 .. n + 1
    OBVIOUS
  <2> QED BY <1>1, <2>1 DEF Chain
<1>6. ASSUME NEW i \in 1 .. n + 1
      PROVE  g[i] \in TimeEvt /\ ny[g[i]] = g[i + 1]
  <2>1. CASE i = 1
    <3>1. g[1 + 1] = f[1] /\ ny[t] = f[1]
      BY <1>1 DEF Relinked
    <3> QED BY <1>1, <2>1, <3>1
  <2>2. CASE i # 1
    <3>1. i - 1 \in 1 .. n /\ i - 1 + 1 = i /\ i - 1 \in 1 .. n + 1
      BY <2>2
    <3>2. g[i] = f[i - 1] /\ g[i + 1] = f[i]
      BY <1>1, <3>1
    <3>3. f[i - 1] \in TimeEvt /\ f[i - 1] # t /\ nx[f[i - 1]] = f[i - 1 + 1]
      BY <3>1 DEF Chain, Lacks
    <3>4. ny[f[i - 1]] = nx[f[i - 1]]
      BY <3>3 DEF Relinked
    <3> QED BY <3>1, <3>2, <3>3, <3>4
  <2> QED BY <2>1, <2>2
<1>7. ASSUME NEW i \in 1 .. n + 1, NEW j \in 1 .. n + 1, g[i] = g[j]
      PROVE  i = j
  <2>1. \A m \in 1 .. n + 1 : m # 1 => m - 1 \in 1 .. n /\ g[m] = f[m - 1]
    <3> TAKE m \in 1 .. n + 1
    <3>1. m # 1 => m - 1 \in 1 .. n /\ m - 1 \in 1 .. n + 1 /\ m - 1 + 1 = m
      OBVIOUS
    <3> QED BY <1>1, <3>1
  <2>2. CASE i = 1 \/ j = 1
    BY <1>1, <1>7, <2>1, <2>2 DEF Lacks
  <2>3. CASE i # 1 /\ j # 1
    <3>1. i - 1 = j - 1
      BY <1>7, <2>1, <2>3 DEF Chain
    <3> QED BY <3>1
  <2> QED BY <2>2, <2>3
<1>8. Chain(ny, g, n + 1)
  BY <1>4, <1>5, <1>6, <1>7 DEF Chain, g
<1> QED BY <1>8 DEF g

(* The list without its k-th time event.                                   *)
Without(f, n, k) == [i \in 1 .. n - 1 + 1 |-> IF i < k THEN f[i] ELSE f[i + 1]]

(* It is a list when the one before links to the one after.                *)
LEMMA ChainWithout ==
  ASSUME NEW nx, nx \in [TimeEvt -> TimeEvt \cup {NULL}], NEW n \in Nat, NEW f, Chain(nx, f, n),
         NEW k \in 1 .. n,
         NEW ny, \/ k = 1 /\ ny = nx
                 \/ k > 1 /\ ny = [nx EXCEPT ![f[k - 1]] = nx[f[k]]]
  PROVE  /\ n - 1 \in Nat /\ Chain(ny, Without(f, n, k), n - 1)
         /\ k \in 1 .. n - 1 + 1
         /\ \A i \in 1 .. n : i < k => Without(f, n, k)[i] = f[i] /\ i \in 1 .. n - 1
         /\ \A i \in k .. n : Without(f, n, k)[i] = f[i + 1]
<1> DEFINE g == Without(f, n, k)
<1>0. n \in Nat \ {0} /\ n - 1 \in Nat /\ n - 1 + 1 = n
  OBVIOUS
<1>1. /\ DOMAIN g = 1 .. n
      /\ \A i \in 1 .. n : i < k => g[i] = f[i] /\ i \in 1 .. n - 1
      /\ \A i \in k .. n : i \in 1 .. n /\ g[i] = f[i + 1]
  BY <1>0 DEF Without
<1>2. \A i \in 1 .. n : i < k \/ i \in k .. n
  OBVIOUS
<1>3. \A i \in 1 .. n : f[i] \in TimeEvt \cup {NULL} /\ f[i + 1] \in TimeEvt \cup {NULL}
  <2>1. \A i \in 1 .. n : i \in 1 .. n + 1 /\ i + 1 \in 1 .. n + 1
    OBVIOUS
  <2> QED BY <2>1 DEF Chain
<1>4. g \in [1 .. n - 1 + 1 -> TimeEvt \cup {NULL}]
  <2>1. \A i \in 1 .. n : g[i] \in TimeEvt \cup {NULL}
    BY <1>1, <1>2, <1>3
  <2> QED BY <1>0, <2>1 DEF Without
<1> HIDE DEF g
<1>5. g[n - 1 + 1] = NULL
  <2>1. n \in k .. n
    OBVIOUS
  <2> QED BY <1>0, <1>1, <2>1 DEF Chain
<1>6. ASSUME NEW i \in 1 .. n - 1
      PROVE  g[i] \in TimeEvt /\ ny[g[i]] = g[i + 1]
  <2>0. i \in 1 .. n /\ i + 1 \in 1 .. n /\ f[i] \in TimeEvt /\ nx[f[i]] = f[i + 1]
        /\ f[i + 1] \in TimeEvt /\ nx[f[i + 1]] = f[i + 1 + 1]
    <3>1. i \in 1 .. n /\ i + 1 \in 1 .. n
      BY <1>0
    <3> QED BY <3>1 DEF Chain
  <2>1. CASE i + 1 < k
    <3>1. i < k /\ i # k - 1 /\ k - 1 \in 1 .. n /\ k # 1
      BY <2>0, <2>1
    <3>2. f[i] # f[k - 1]
      BY <2>0, <3>1 DEF Chain
    <3> QED BY <1>1, <2>0, <2>1, <3>1, <3>2
  <2>2. CASE i + 1 = k
    <3>1. i < k /\ i = k - 1 /\ k > 1 /\ i + 1 \in k .. n
      BY <2>0, <2>2
    <3>2. ny = [nx EXCEPT ![f[i]] = nx[f[i + 1]]]
      BY <2>2, <3>1
    <3> QED BY <1>1, <2>0, <3>1, <3>2
  <2>3. CASE i + 1 > k
    <3>1. i \in k .. n /\ i + 1 \in k .. n
      BY <2>0, <2>3
    <3>2. k > 1 => k - 1 \in 1 .. n /\ k - 1 # i + 1
      BY <2>3
    <3>3. k > 1 => f[i + 1] # f[k - 1]
      BY <2>0, <3>2 DEF Chain
    <3>4. ny[f[i + 1]] = nx[f[i + 1]]
      BY <2>0, <3>3
    <3> QED BY <1>1, <2>0, <3>1, <3>4
  <2> QED BY <2>0, <2>1, <2>2, <2>3
<1>7. ASSUME NEW i \in 1 .. n - 1, NEW j \in 1 .. n - 1, g[i] = g[j]
      PROVE  i = j
  <2> DEFINE e(m) == IF m < k THEN m ELSE m + 1
  <2>1. \A m \in 1 .. n - 1 : e(m) \in 1 .. n /\ g[m] = f[e(m)]
    <3> TAKE m \in 1 .. n - 1
    <3>1. m \in 1 .. n /\ e(m) \in 1 .. n
      BY <1>0
    <3> QED BY <1>1, <1>2, <3>1
  <2>2. e(i) = e(j)
    <3> HIDE DEF e
    <3>1. e(i) \in 1 .. n /\ e(j) \in 1 .. n /\ f[e(i)] = f[e(j)]
      BY <1>7, <2>1
    <3>2. \A x, y \in 1 .. n : f[x] = f[y] => x = y
      BY DEF Chain
    <3> QED BY <3>1, <3>2
  <2> QED BY <2>2
<1>8. Chain(ny, g, n - 1)
  BY <1>4, <1>5, <1>6, <1>7 DEF Chain, g
<1> QED BY <1>0, <1>1, <1>8 DEF g

(* What is left of a walk that has come to the k-th time event, with and   *)
(* without that one.                                                       *)
LEMMA RestIs ==
  ASSUME NEW nx, NEW n \in Nat, NEW f, Chain(nx, f, n), NEW k \in 1 .. n + 1
  PROVE  /\ f[k] = NULL <=> k = n + 1
         /\ f[k] = NULL => From(nx, f[k]) = {}
         /\ k \in 1 .. n => /\ f[k] \in TimeEvt
                            /\ nx[f[k]] = f[k + 1] /\ k + 1 \in 1 .. n + 1
                            /\ f[k] \in From(nx, f[k])
                            /\ From(nx, f[k + 1]) = From(nx, f[k]) \ {f[k]}
<1>1. NULL \notin TimeEvt
  BY TimeEvtAssumption
<1>2. k \in 1 .. n => f[k] \in TimeEvt /\ nx[f[k]] = f[k + 1] /\ k + 1 \in 1 .. n + 1
  BY DEF Chain
<1>3. k \in 1 .. n \/ k = n + 1
  OBVIOUS
<1>4. f[k] = NULL <=> k = n + 1
  BY <1>1, <1>2, <1>3 DEF Chain
<1>5. From(nx, f[k]) = {f[i] : i \in k .. n}
  <2>1. From(nx, f[k]) = Rest(f, k, n)
    BY FromIs
  <2> QED BY <2>1 DEF Rest
<1>6. k = n + 1 => From(nx, f[k]) = {}
  <2>1. k = n + 1 => \A i \in k .. n : FALSE
    OBVIOUS
  <2> QED BY <1>5, <2>1
<1>7. ASSUME k \in 1 .. n
      PROVE  f[k] \in From(nx, f[k]) /\ From(nx, f[k + 1]) = From(nx, f[k]) \ {f[k]}
  <2>1. k \in k .. n /\ k + 1 \in 1 .. n + 1
    BY <1>7
  <2>2. From(nx, f[k + 1]) = {f[i] : i \in k + 1 .. n}
    <3>1. PICK m \in 1 .. n + 1 : m = k + 1
      BY <2>1
    <3>2. From(nx, f[m]) = Rest(f, m, n)
      BY FromIs
    <3> QED BY <3>1, <3>2 DEF Rest
  <2>3. \A i \in k .. n : i = k \/ i \in k + 1 .. n
    OBVIOUS
  <2>4. \A i \in k + 1 .. n : i \in k .. n /\ i \in 1 .. n /\ i # k
    OBVIOUS
  <2>5. \A i \in k + 1 .. n : f[i] # f[k]
    BY <1>7, <2>4 DEF Chain
  <2>6. {f[i] : i \in k + 1 .. n} = {f[i] : i \in k .. n} \ {f[k]}
    <3>1. ASSUME NEW x \in {f[i] : i \in k + 1 .. n}
          PROVE  x \in {f[i] : i \in k .. n} \ {f[k]}
      <4>1. PICK i \in k + 1 .. n : x = f[i]
        OBVIOUS
      <4> QED BY <2>4, <2>5, <4>1
    <3>2. ASSUME NEW x \in {f[i] : i \in k .. n} \ {f[k]}
          PROVE  x \in {f[i] : i \in k + 1 .. n}
      <4>1. PICK i \in k .. n : x = f[i]
        OBVIOUS
      <4>2. i # k
        BY <4>1
      <4> QED BY <2>3, <4>1, <4>2
    <3> QED BY <3>1, <3>2
  <2> QED BY <1>5, <2>1, <2>2, <2>6
<1> QED BY <1>2, <1>4, <1>6, <1>7

----------------------------------------------------------------------------
(* How steps change the list and the walk.                                 *)

(* QTimeEvt_arm_ and QTimeEvt_rearm link a time event that is not linked.  *)
LEMMA LinkStep ==
  ASSUME TypeOK, NEW n \in Nat, NEW f, ListIs(f, n), NEW t \in TimeEvt, Link(t)
  PROVE  /\ \E m \in Nat : \E g \in [1 .. m + 1 -> TimeEvt \cup {NULL}] : ListIs(g, m)'
         /\ linked' \in [TimeEvt -> {0, 1}] /\ linked'[t] = 1
         /\ \A u \in TimeEvt : linked[u] = 1 => linked'[u] = 1
         /\ listHead' \in TimeEvt \cup {NULL} /\ next' \in [TimeEvt -> TimeEvt \cup {NULL}]
<1>1. /\ linked \in [TimeEvt -> {0, 1}] /\ listHead \in TimeEvt \cup {NULL}
      /\ next \in [TimeEvt -> TimeEvt \cup {NULL}]
  BY DEF TypeOK
<1>2. CASE linked[t] # 0 /\ UNCHANGED listVars
  <2>1. linked' = linked /\ listHead' = listHead /\ next' = next
    BY <1>2 DEF listVars
  <2>2. ListIs(f, n)' /\ f \in [1 .. n + 1 -> TimeEvt \cup {NULL}]
    BY <2>1 DEF ListIs, Chain
  <2> QED BY <1>1, <1>2, <2>1, <2>2
<1>3. CASE linked[t] = 0 /\ next' = [next EXCEPT ![t] = listHead] /\ listHead' = t
           /\ linked' = [linked EXCEPT ![t] = 1]
  <2> DEFINE g == Front(f, n, t)
  <2>1. Lacks(f, n, t)
    BY <1>3 DEF ListIs, Lacks
  <2>2. PICK nx \in [TimeEvt -> TimeEvt \cup {NULL}] : nx = next
    BY <1>1
  <2>3. PICK ny : ny = [nx EXCEPT ![t] = f[1]]
    OBVIOUS
  <2>4. next' = ny /\ Relinked(nx, ny, t, f[1])
    BY <1>3, <2>2, <2>3 DEF ListIs, Relinked
  <2>5. /\ Chain(ny, g, n + 1) /\ g[1] = t /\ 1 \in 1 .. n + 1
        /\ \A i \in 1 .. n : g[i + 1] = f[i] /\ i + 1 \in 1 .. n + 1
    <3>1. Chain(nx, f, n)
      BY <2>2 DEF ListIs
    <3>2. Chain(ny, Front(f, n, t), n + 1)
      BY <2>1, <2>4, <3>1, ChainFront
    <3>3. \A i \in 1 .. n : i + 1 \in 1 .. n + 1 + 1 /\ i + 1 \in 1 .. n + 1 /\ i + 1 # 1 /\ i + 1 - 1 = i
      OBVIOUS
    <3>4. 1 \in 1 .. n + 1 + 1 /\ 1 \in 1 .. n + 1
      OBVIOUS
    <3> QED BY <3>2, <3>3, <3>4 DEF Front
  <2> HIDE DEF g
  <2>6. \A u \in TimeEvt : linked'[u] = 1 <=> \E i \in 1 .. n + 1 : u = g[i]
    <3> TAKE u \in TimeEvt
    <3>1. linked'[u] = IF u = t THEN 1 ELSE linked[u]
      BY <1>1, <1>3
    <3>2. linked[u] = 1 <=> \E i \in 1 .. n : u = f[i]
      BY DEF ListIs
    <3>3. ASSUME NEW i \in 1 .. n + 1, u = g[i], u # t
          PROVE  linked[u] = 1
      <4>1. i - 1 \in 1 .. n /\ i - 1 + 1 = i
        BY <2>5, <3>3
      <4>2. u = f[i - 1]
        BY <2>5, <3>3, <4>1
      <4> QED BY <3>2, <4>1, <4>2
    <3> QED BY <2>5, <3>1, <3>2, <3>3
  <2>7. ListIs(g, n + 1)'
    BY <1>3, <2>4, <2>5, <2>6 DEF ListIs
  <2>8. g \in [1 .. n + 1 + 1 -> TimeEvt \cup {NULL}] /\ n + 1 \in Nat
    BY <2>5 DEF Chain
  <2>9. next' \in [TimeEvt -> TimeEvt \cup {NULL}]
    BY <1>1, <1>3
  <2> QED BY <1>1, <1>3, <2>7, <2>8, <2>9
<1> QED BY <1>2, <1>3 DEF Link

(* QF_tick unlinks the time event under the cursor and goes on.            *)
LEMMA UnlinkStep ==
  ASSUME TypeOK, NEW n \in Nat, NEW f, ListIs(f, n), NEW k \in 1 .. n, WalkIs(f, n, k),
         Unlink(cursor), cursor' = next[cursor], prev' = prev
  PROVE  /\ \E m \in Nat : \E g \in [1 .. m + 1 -> TimeEvt \cup {NULL}] :
              ListIs(g, m)' /\ \E j \in 1 .. m + 1 : WalkIs(g, m, j)'
         /\ From(next', cursor') = From(next, cursor) \ {cursor}
         /\ linked' = [linked EXCEPT ![cursor] = 0]
         /\ listHead' \in TimeEvt \cup {NULL} /\ next' \in [TimeEvt -> TimeEvt \cup {NULL}]
<1> DEFINE g == Without(f, n, k)
<1>1. /\ linked \in [TimeEvt -> {0, 1}] /\ next \in [TimeEvt -> TimeEvt \cup {NULL}]
      /\ linked' = [linked EXCEPT ![cursor] = 0]
  BY DEF TypeOK, Unlink
<1>2. PICK nx \in [TimeEvt -> TimeEvt \cup {NULL}] : nx = next
  BY <1>1
<1>3. PICK ny : ny = next'
  OBVIOUS
<1>4. /\ Chain(nx, f, n) /\ k \in 1 .. n + 1 /\ 1 \in 1 .. n
      /\ cursor = f[k] /\ f[k] \in TimeEvt /\ nx[f[k]] = f[k + 1]
      /\ f[k] = f[1] => k = 1
  <2>1. Chain(nx, f, n) /\ k \in 1 .. n + 1 /\ 1 \in 1 .. n
    BY <1>2 DEF ListIs
  <2> QED BY <2>1 DEF Chain, WalkIs
<1>5. /\ \/ k = 1 /\ ny = nx
         \/ k > 1 /\ ny = [nx EXCEPT ![f[k - 1]] = nx[f[k]]]
      /\ k = 1 => listHead' = f[k + 1]
      /\ k > 1 => listHead' = f[1]
  <2>1. CASE cursor = listHead /\ listHead' = next[cursor] /\ UNCHANGED next
    BY <1>2, <1>3, <1>4, <2>1 DEF ListIs
  <2>2. CASE cursor # listHead /\ next' = [next EXCEPT ![prev] = next[cursor]] /\ UNCHANGED listHead
    <3>1. k > 1
      BY <1>4, <2>2 DEF ListIs
    <3>2. prev = f[k - 1]
      BY <3>1 DEF WalkIs
    <3> QED BY <1>2, <1>3, <1>4, <2>2, <3>1, <3>2 DEF ListIs
  <2> QED BY <2>1, <2>2 DEF Unlink
<1>6. /\ n - 1 \in Nat /\ Chain(ny, g, n - 1)
      /\ k \in 1 .. n - 1 + 1
      /\ \A i \in 1 .. n : i < k => g[i] = f[i] /\ i \in 1 .. n - 1
      /\ \A i \in k .. n : g[i] = f[i + 1]
  BY <1>4, <1>5, ChainWithout
<1> HIDE DEF g
<1>7. listHead' = g[1]
  <2>1. CASE k = 1
    <3>1. 1 \in k .. n
      BY <2>1
    <3> QED BY <1>5, <1>6, <2>1, <3>1
  <2>2. CASE k > 1
    BY <1>4, <1>5, <1>6, <2>2
  <2> QED BY <2>1, <2>2
<1>8. \A u \in TimeEvt : linked'[u] = 1 <=> \E i \in 1 .. n - 1 : u = g[i]
  <2> TAKE u \in TimeEvt
  <2>1. linked'[u] = IF u = f[k] THEN 0 ELSE linked[u]
    BY <1>1, <1>4
  <2>2. linked[u] = 1 <=> \E i \in 1 .. n : u = f[i]
    BY DEF ListIs
  <2>3. ASSUME NEW i \in 1 .. n - 1, u = g[i]
        PROVE  u # f[k] /\ linked[u] = 1
    <3>1. CASE i < k
      <4>1. i \in 1 .. n /\ i # k
        BY <3>1
      <4>2. u = f[i]
        BY <1>6, <2>3, <3>1, <4>1
      <4>3. f[i] # f[k]
        BY <1>4, <4>1 DEF Chain
      <4> QED BY <2>2, <4>1, <4>2, <4>3
    <3>2. CASE i >= k
      <4>1. i \in k .. n /\ i + 1 \in 1 .. n /\ i + 1 # k
        BY <3>2
      <4>2. u = f[i + 1]
        BY <1>6, <2>3, <4>1
      <4>3. f[i + 1] # f[k]
        BY <1>4, <4>1 DEF Chain
      <4> QED BY <2>2, <4>1, <4>2, <4>3
    <3> QED BY <3>1, <3>2
  <2>4. ASSUME u # f[k], NEW i \in 1 .. n, u = f[i]
        PROVE  \E j \in 1 .. n - 1 : u = g[j]
    <3>1. CASE i < k
      BY <1>6, <2>4, <3>1
    <3>2. CASE i > k
      <4>1. i - 1 \in 1 .. n - 1 /\ i - 1 \in k .. n /\ i - 1 + 1 = i
        BY <3>2
      <4>2. g[i - 1] = f[i]
        BY <1>6, <4>1
      <4> QED BY <2>4, <4>1, <4>2
    <3>3. i # k
      BY <2>4
    <3> QED BY <3>1, <3>2, <3>3
  <2> QED BY <2>1, <2>2, <2>3, <2>4
<1>9. ListIs(g, n - 1)'
  BY <1>3, <1>6, <1>7, <1>8 DEF ListIs
<1>10. cursor' = g[k]
  <2>1. k \in k .. n
    OBVIOUS
  <2> QED BY <1>2, <1>4, <1>6, <2>1
<1>11. WalkIs(g, n - 1, k)'
  <2>1. k > 1 => k - 1 \in 1 .. n /\ k - 1 < k
    OBVIOUS
  <2>2. k > 1 => prev' = g[k - 1]
    BY <1>6, <2>1 DEF WalkIs
  <2>3. k = 1 => prev' = NULL
    BY DEF WalkIs
  <2> QED BY <1>10, <2>2, <2>3 DEF WalkIs
<1>12. From(next', cursor') = From(next, cursor) \ {cursor}
  <2>1. From(ny, g[k]) = {g[i] : i \in k .. n - 1}
    <3>1. From(ny, g[k]) = Rest(g, k, n - 1)
      BY <1>6, FromIs
    <3> QED BY <3>1 DEF Rest
  <2>2. k + 1 \in 1 .. n + 1 /\ From(nx, f[k + 1]) = From(nx, f[k]) \ {f[k]}
    BY <1>4, RestIs
  <2>3. From(nx, f[k + 1]) = {f[i] : i \in k + 1 .. n}
    <3>1. PICK m \in 1 .. n + 1 : m = k + 1
      BY <2>2
    <3>2. From(nx, f[m]) = Rest(f, m, n)
      BY <1>4, FromIs
    <3> QED BY <3>1, <3>2 DEF Rest
  <2>4. {g[i] : i \in k .. n - 1} = {f[i] : i \in k + 1 .. n}
    <3>1. \A i \in k .. n - 1 : i \in k .. n /\ i + 1 \in k + 1 .. n
      OBVIOUS
    <3>2. \A i \in k + 1 .. n : i - 1 \in k .. n - 1 /\ i - 1 \in k .. n /\ i - 1 + 1 = i
      OBVIOUS
    <3>3. \A i \in k .. n - 1 : g[i] = f[i + 1] /\ i + 1 \in k + 1 .. n
      BY <1>6, <3>1
    <3>4. \A i \in k + 1 .. n : f[i] = g[i - 1] /\ i - 1 \in k .. n - 1
      <4> TAKE i \in k + 1 .. n
      <4>1. g[i - 1] = f[i - 1 + 1]
        BY <1>6, <3>2
      <4> QED BY <3>2, <4>1
    <3> QED BY <3>3, <3>4
  <2> QED BY <1>2, <1>3, <1>4, <1>10, <2>1, <2>2, <2>3, <2>4
<1>13. g \in [1 .. n - 1 + 1 -> TimeEvt \cup {NULL}]
  BY <1>6 DEF Chain
<1>14. next' \in [TimeEvt -> TimeEvt \cup {NULL}] /\ listHead' \in TimeEvt \cup {NULL}
  <2>1. next' \in [TimeEvt -> TimeEvt \cup {NULL}]
    BY <1>2, <1>3, <1>4, <1>5
  <2>2. 1 \in 1 .. n - 1 + 1
    BY <1>6
  <2> QED BY <1>7, <1>13, <2>1, <2>2
<1> QED BY <1>1, <1>6, <1>9, <1>11, <1>12, <1>13, <1>14

(* QF_tick leaves the time event under the cursor in the list and goes on. *)
LEMMA PassStep ==
  ASSUME TypeOK, NEW n \in Nat, NEW f, ListIs(f, n), NEW k \in 1 .. n, WalkIs(f, n, k),
         UNCHANGED listVars, cursor' = next[cursor], prev' = cursor
  PROVE  /\ ListIs(f, n)' /\ \E j \in 1 .. n + 1 : WalkIs(f, n, j)'
         /\ From(next', cursor') = From(next, cursor) \ {cursor}
<1>1. linked' = linked /\ listHead' = listHead /\ next' = next
  BY DEF listVars
<1>2. PICK nx : nx = next
  OBVIOUS
<1>3. Chain(nx, f, n) /\ k \in 1 .. n + 1 /\ cursor = f[k]
  BY <1>2 DEF ListIs, WalkIs
<1>4. nx[f[k]] = f[k + 1] /\ k + 1 \in 1 .. n + 1 /\ From(nx, f[k + 1]) = From(nx, f[k]) \ {f[k]}
  BY <1>3, RestIs
<1>5. ListIs(f, n)'
  BY <1>1 DEF ListIs
<1>6. WalkIs(f, n, k + 1)'
  <2>1. k + 1 # 1 /\ k + 1 - 1 = k
    OBVIOUS
  <2> QED BY <1>2, <1>3, <1>4, <2>1 DEF WalkIs
<1> QED BY <1>1, <1>2, <1>3, <1>4, <1>5, <1>6

----------------------------------------------------------------------------
(* The steps: the invariant, and what a walk has still to visit.           *)

(* A walk that has come to a time event is at one of the list.             *)
LEMMA AtEvent ==
  ASSUME IInv, at # "out", cursor # NULL
  PROVE  \E n \in Nat : \E f \in [1 .. n + 1 -> TimeEvt \cup {NULL}] :
           ListIs(f, n) /\ \E k \in 1 .. n : WalkIs(f, n, k)
<1>1. PICK n, f :
        /\ n \in Nat /\ f \in [1 .. n + 1 -> TimeEvt \cup {NULL}]
        /\ ListIs(f, n) /\ \E k \in 1 .. n + 1 : WalkIs(f, n, k)
  BY DEF IInv, WalkInv
<1>2. PICK k \in 1 .. n + 1 : WalkIs(f, n, k)
  BY <1>1
<1>3. k # n + 1
  BY <1>1, <1>2 DEF WalkIs, ListIs, Chain
<1>4. k \in 1 .. n
  <2>1. n \in Nat
    BY <1>1
  <2> QED BY <1>2, <1>3, <2>1
<1> QED BY <1>1, <1>2, <1>4

(* The list and the walk, when neither changes.                            *)
LEMMA WalkSame ==
  ASSUME WalkInv, UNCHANGED <<listVars, cursor, prev>>, at = "out" <=> at' = "out"
  PROVE  WalkInv'
<1>1. PICK n, f :
        /\ n \in Nat /\ f \in [1 .. n + 1 -> TimeEvt \cup {NULL}]
        /\ ListIs(f, n) /\ (at = "out" \/ \E k \in 1 .. n + 1 : WalkIs(f, n, k))
  BY DEF WalkInv
<1>2. /\ listHead' = listHead /\ next' = next /\ linked' = linked
      /\ cursor' = cursor /\ prev' = prev
  BY DEF listVars
<1>3. ListIs(f, n)'
  BY <1>1, <1>2 DEF ListIs
<1>4. \A k \in 1 .. n + 1 : WalkIs(f, n, k) => WalkIs(f, n, k)'
  BY <1>2 DEF WalkIs
<1>5. at' = "out" \/ \E k \in 1 .. n + 1 : WalkIs(f, n, k)'
  BY <1>1, <1>4
<1>6. n \in Nat /\ f \in [1 .. n + 1 -> TimeEvt \cup {NULL}]
  BY <1>1
<1> QED BY <1>3, <1>5, <1>6 DEF WalkInv

(* Arming, disarming and rearming.                                         *)
LEMMA UseStep ==
  ASSUME IInv, NEW t \in TimeEvt, Use(t)
  PROVE  /\ IInv' /\ at = "out" /\ at' = "out"
         /\ \E n, p \in 0 .. MAX_TICKS : /\ ctr' = [ctr EXCEPT ![t] = n]
                                         /\ interval' = [interval EXCEPT ![t] = p]
<1>0. TypeOK /\ PhaseInv /\ ArmedLinked /\ WalkInv /\ MAX_TICKS \in Nat \ {0}
  BY TimeEvtAssumption DEF IInv
<1>1. at = "out" /\ UNCHANGED <<cursor, prev, at>> /\ (Link(t) \/ UNCHANGED listVars)
  BY DEF Use, Arm, Disarm, Rearm, tickVars
<1>2. PICK n \in 0 .. MAX_TICKS, p \in 0 .. MAX_TICKS :
        /\ ctr' = [ctr EXCEPT ![t] = n] /\ interval' = [interval EXCEPT ![t] = p]
        /\ n # 0 => Link(t) \/ (ctr[t] # 0 /\ UNCHANGED listVars)
  <2>1. CASE Disarm(t)
    <3>1. ctr' = [ctr EXCEPT ![t] = 0] /\ interval' = [interval EXCEPT ![t] = interval[t]]
      BY <1>0, <2>1 DEF Disarm, TypeOK
    <3>2. 0 \in 0 .. MAX_TICKS /\ interval[t] \in 0 .. MAX_TICKS
      BY <1>0 DEF TypeOK
    <3> QED BY <3>1, <3>2
  <2>2. ASSUME NEW n \in 1 .. MAX_TICKS, Rearm(t, n)
        PROVE  \E m, p \in 0 .. MAX_TICKS :
                 /\ ctr' = [ctr EXCEPT ![t] = m] /\ interval' = [interval EXCEPT ![t] = p]
                 /\ m # 0 => Link(t) \/ (ctr[t] # 0 /\ UNCHANGED listVars)
    <3>1. /\ ctr' = [ctr EXCEPT ![t] = n] /\ interval' = [interval EXCEPT ![t] = interval[t]]
          /\ Link(t) \/ (ctr[t] # 0 /\ UNCHANGED listVars)
      BY <1>0, <2>2 DEF Rearm, TypeOK
    <3>2. n \in 0 .. MAX_TICKS /\ interval[t] \in 0 .. MAX_TICKS
      BY <1>0 DEF TypeOK
    <3> QED BY <3>1, <3>2
  <2>3. ASSUME NEW n \in 1 .. MAX_TICKS, NEW p \in {0, n}, Arm(t, n, p)
        PROVE  \E m, q \in 0 .. MAX_TICKS :
                 /\ ctr' = [ctr EXCEPT ![t] = m] /\ interval' = [interval EXCEPT ![t] = q]
                 /\ m # 0 => Link(t) \/ (ctr[t] # 0 /\ UNCHANGED listVars)
    <3>1. n \in 0 .. MAX_TICKS /\ p \in 0 .. MAX_TICKS
      BY <1>0
    <3> QED BY <2>3, <3>1 DEF Arm
  <2> QED BY <2>1, <2>2, <2>3 DEF Use
<1>3. PICK m, f :
        /\ m \in Nat /\ f \in [1 .. m + 1 -> TimeEvt \cup {NULL}]
        /\ ListIs(f, m)
  BY <1>0 DEF WalkInv
<1>4. /\ \E k \in Nat : \E g \in [1 .. k + 1 -> TimeEvt \cup {NULL}] : ListIs(g, k)'
      /\ linked' \in [TimeEvt -> {0, 1}]
      /\ \A u \in TimeEvt : linked[u] = 1 => linked'[u] = 1
      /\ n # 0 => linked'[t] = 1
      /\ listHead' \in TimeEvt \cup {NULL} /\ next' \in [TimeEvt -> TimeEvt \cup {NULL}]
  <2>1. CASE Link(t)
    <3>1. m \in Nat /\ ListIs(f, m)
      BY <1>3
    <3>2. /\ \E k \in Nat : \E g \in [1 .. k + 1 -> TimeEvt \cup {NULL}] : ListIs(g, k)'
          /\ linked' \in [TimeEvt -> {0, 1}] /\ linked'[t] = 1
          /\ \A u \in TimeEvt : linked[u] = 1 => linked'[u] = 1
          /\ listHead' \in TimeEvt \cup {NULL} /\ next' \in [TimeEvt -> TimeEvt \cup {NULL}]
      BY <1>0, <2>1, <3>1, LinkStep
    <3> QED BY <3>2
  <2>2. CASE UNCHANGED listVars /\ ~Link(t)
    <3>1. linked' = linked /\ listHead' = listHead /\ next' = next
      BY <2>2 DEF listVars
    <3>2. ListIs(f, m)'
      BY <1>3, <3>1 DEF ListIs
    <3>3. n # 0 => linked[t] = 1
      BY <1>0, <1>2, <2>2 DEF ArmedLinked
    <3>4. /\ \A u \in TimeEvt : linked[u] = 1 => linked'[u] = 1
          /\ n # 0 => linked'[t] = 1
          /\ linked' \in [TimeEvt -> {0, 1}] /\ listHead' \in TimeEvt \cup {NULL}
          /\ next' \in [TimeEvt -> TimeEvt \cup {NULL}]
      BY <1>0, <3>1, <3>3 DEF TypeOK
    <3>5. m \in Nat /\ f \in [1 .. m + 1 -> TimeEvt \cup {NULL}]
      BY <1>3
    <3> QED BY <3>2, <3>4, <3>5
  <2> QED BY <1>1, <2>1, <2>2
<1>5. WalkInv' /\ PhaseInv'
  BY <1>0, <1>1, <1>4 DEF WalkInv, PhaseInv
<1>6. ArmedLinked'
  <2>1. \A u \in TimeEvt : ctr'[u] = IF u = t THEN n ELSE ctr[u]
    BY <1>0, <1>2 DEF TypeOK
  <2> QED BY <1>0, <1>4, <2>1 DEF ArmedLinked
<1>7. act' \in [TimeEvt -> {0, 1}]
  BY <1>0 DEF Use, Arm, Disarm, Rearm, TypeOK
<1>8. ctr' \in [TimeEvt -> 0 .. MAX_TICKS] /\ interval' \in [TimeEvt -> 0 .. MAX_TICKS]
  BY <1>0, <1>2 DEF TypeOK
<1>9. TypeOK'
  BY <1>0, <1>1, <1>4, <1>7, <1>8 DEF TypeOK
<1> QED BY <1>1, <1>2, <1>5, <1>6, <1>9 DEF IInv

(* A tick begins at the head of the list: it will visit every linked time  *)
(* event.                                                                  *)
LEMMA BeginStep ==
  ASSUME IInv, TickBegin
  PROVE  IInv' /\ ToVisit' = {t \in TimeEvt : linked[t] = 1}
<1>0. TypeOK /\ PhaseInv /\ ArmedLinked /\ WalkInv
  BY DEF IInv
<1>1. /\ at = "out" /\ cursor' = listHead /\ prev' = NULL /\ at' = "visit"
      /\ listHead' = listHead /\ next' = next /\ linked' = linked
      /\ UNCHANGED <<ctr, interval, act>>
  BY DEF TickBegin, listVars
<1>2. PICK n, f :
        /\ n \in Nat /\ f \in [1 .. n + 1 -> TimeEvt \cup {NULL}]
        /\ ListIs(f, n)
  BY <1>0 DEF WalkInv
<1>3. 1 \in 1 .. n + 1 /\ ListIs(f, n)' /\ WalkIs(f, n, 1)'
  BY <1>1, <1>2 DEF ListIs, WalkIs
<1>4. WalkInv'
  BY <1>2, <1>3 DEF WalkInv
<1>5. PICK nx : nx = next
  OBVIOUS
<1>6. From(nx, f[1]) = Rest(f, 1, n)
  BY <1>2, <1>3, <1>5, FromIs DEF ListIs
<1>7. Rest(f, 1, n) = {t \in TimeEvt : linked[t] = 1}
  BY <1>2 DEF Rest, ListIs, Chain
<1>8. ToVisit' = {t \in TimeEvt : linked[t] = 1}
  BY <1>1, <1>2, <1>5, <1>6, <1>7 DEF ToVisit, ListIs
<1> QED BY <1>0, <1>1, <1>4, <1>8 DEF IInv, TypeOK, PhaseInv, ArmedLinked

(* What is left to visit, and that the time event under the cursor is part *)
(* of it until it is posted or passed.                                     *)
LEMMA ToVisitIs ==
  ASSUME IInv, at # "out", cursor # NULL
  PROVE  /\ cursor \in TimeEvt /\ linked[cursor] = 1
         /\ cursor \in From(next, cursor)
         /\ ToVisit = IF at = "visit" THEN From(next, cursor) ELSE From(next, cursor) \ {cursor}
<1>1. PICK n, f :
        /\ n \in Nat /\ f \in [1 .. n + 1 -> TimeEvt \cup {NULL}]
        /\ ListIs(f, n) /\ \E k \in 1 .. n : WalkIs(f, n, k)
  BY AtEvent
<1>2. PICK k \in 1 .. n : WalkIs(f, n, k)
  BY <1>1
<1>3. PICK nx : nx = next
  OBVIOUS
<1>4. n \in Nat /\ Chain(nx, f, n) /\ k \in 1 .. n + 1 /\ k \in 1 .. n /\ cursor = f[k]
  BY <1>1, <1>2, <1>3 DEF ListIs, WalkIs
<1>5. /\ f[k] \in TimeEvt /\ nx[f[k]] = f[k + 1]
      /\ f[k] \in From(nx, f[k])
      /\ From(nx, f[k + 1]) = From(nx, f[k]) \ {f[k]}
  BY <1>4, RestIs
<1>6. linked[cursor] = 1
  BY <1>1, <1>4, <1>5 DEF ListIs
<1> QED BY <1>3, <1>4, <1>5, <1>6 DEF ToVisit

(* QF_tick unlinks or passes a time event.                                 *)
LEMMA OnStep ==
  ASSUME IInv, at # "out", cursor # NULL, at' = "visit",
         \/ ctr[cursor] = 0 /\ Unlink(cursor) /\ cursor' = next[cursor] /\ prev' = prev
         \/ UNCHANGED listVars /\ cursor' = next[cursor] /\ prev' = cursor,
         ctr' \in [TimeEvt -> 0 .. MAX_TICKS], UNCHANGED <<interval, act>>,
         \A t \in TimeEvt : ctr'[t] # 0 => ctr[t] # 0
  PROVE  IInv' /\ ToVisit' = From(next, cursor) \ {cursor}
<1>0. TypeOK /\ PhaseInv /\ ArmedLinked /\ WalkInv
  BY DEF IInv
<1>1. PICK n, f :
        /\ n \in Nat /\ f \in [1 .. n + 1 -> TimeEvt \cup {NULL}]
        /\ ListIs(f, n) /\ \E k \in 1 .. n : WalkIs(f, n, k)
  BY AtEvent
<1>2. PICK k \in 1 .. n : WalkIs(f, n, k)
  BY <1>1
<1>3. cursor' \in TimeEvt \cup {NULL} /\ prev' \in TimeEvt \cup {NULL} /\ cursor \in TimeEvt
  BY <1>0 DEF TypeOK
<1>4. CASE ctr[cursor] = 0 /\ Unlink(cursor) /\ cursor' = next[cursor] /\ prev' = prev
  <2>1. /\ \E m \in Nat : \E g \in [1 .. m + 1 -> TimeEvt \cup {NULL}] :
              ListIs(g, m)' /\ \E j \in 1 .. m + 1 : WalkIs(g, m, j)'
        /\ From(next', cursor') = From(next, cursor) \ {cursor}
        /\ linked' = [linked EXCEPT ![cursor] = 0]
        /\ listHead' \in TimeEvt \cup {NULL} /\ next' \in [TimeEvt -> TimeEvt \cup {NULL}]
    BY <1>0, <1>1, <1>2, <1>4, UnlinkStep
  <2>2. WalkInv'
    BY <2>1 DEF WalkInv
  <2>3. linked' \in [TimeEvt -> {0, 1}] /\ \A t \in TimeEvt : t # cursor => linked'[t] = linked[t]
    BY <1>0, <2>1 DEF TypeOK
  <2>4. ArmedLinked'
    BY <1>0, <1>4, <2>3 DEF ArmedLinked
  <2>5. TypeOK'
    BY <1>0, <1>3, <2>1, <2>3 DEF TypeOK
  <2>6. ToVisit' = From(next, cursor) \ {cursor}
    BY <2>1 DEF ToVisit
  <2> QED BY <2>2, <2>4, <2>5, <2>6 DEF IInv, PhaseInv
<1>5. CASE UNCHANGED listVars /\ cursor' = next[cursor] /\ prev' = cursor
  <2>1. /\ ListIs(f, n)' /\ \E j \in 1 .. n + 1 : WalkIs(f, n, j)'
        /\ From(next', cursor') = From(next, cursor) \ {cursor}
    BY <1>0, <1>1, <1>2, <1>5, PassStep
  <2>2. WalkInv'
    <3>1. n \in Nat /\ f \in [1 .. n + 1 -> TimeEvt \cup {NULL}]
      BY <1>1
    <3> QED BY <2>1, <3>1 DEF WalkInv
  <2>3. listHead' = listHead /\ next' = next /\ linked' = linked
    BY <1>5 DEF listVars
  <2>4. ArmedLinked'
    BY <1>0, <2>3 DEF ArmedLinked
  <2>5. TypeOK'
    BY <1>0, <1>3, <2>3 DEF TypeOK
  <2>6. ToVisit' = From(next, cursor) \ {cursor}
    BY <2>1 DEF ToVisit
  <2> QED BY <2>2, <2>4, <2>5, <2>6 DEF IInv, PhaseInv
<1> QED BY <1>4, <1>5

(* A time event that was disarmed, or is counted down, is passed ...       *)
LEMMA VisitStep ==
  ASSUME IInv, VisitDisarmed \/ VisitArmed
  PROVE  /\ IInv' /\ cursor \in ToVisit /\ ToVisit' = ToVisit \ {cursor}
         /\ at = "visit" /\ at' = "visit" /\ interval' = interval
         /\ ctr' = [ctr EXCEPT ![cursor] = IF ctr[cursor] = 0 THEN 0 ELSE ctr[cursor] - 1]
         /\ ctr[cursor] # 1 /\ cursor \in TimeEvt
<1>1. /\ at = "visit" /\ cursor # NULL /\ at' = "visit" /\ UNCHANGED <<interval, act>>
      /\ \/ ctr[cursor] = 0 /\ Unlink(cursor) /\ cursor' = next[cursor] /\ prev' = prev
         \/ UNCHANGED listVars /\ cursor' = next[cursor] /\ prev' = cursor
  BY DEF VisitDisarmed, VisitArmed, StepUnlinked, StepLinked
<1>2. cursor \in TimeEvt /\ cursor \in From(next, cursor) /\ ToVisit = From(next, cursor)
  BY <1>1, ToVisitIs
<1>3. ctr \in [TimeEvt -> 0 .. MAX_TICKS] /\ MAX_TICKS \in Nat
  BY TimeEvtAssumption DEF IInv, TypeOK
<1>4. ctr[cursor] \in 0 .. MAX_TICKS
  BY <1>2, <1>3
<1>5. /\ ctr' = [ctr EXCEPT ![cursor] = IF ctr[cursor] = 0 THEN 0 ELSE ctr[cursor] - 1]
      /\ ctr[cursor] # 1
  <2>1. CASE VisitDisarmed
    <3>1. ctr' = ctr /\ ctr[cursor] = 0
      BY <2>1 DEF VisitDisarmed
    <3> QED BY <1>2, <1>3, <3>1
  <2>2. CASE VisitArmed
    <3>1. ctr' = [ctr EXCEPT ![cursor] = ctr[cursor] - 1] /\ ctr[cursor] > 1
      BY <2>2 DEF VisitArmed
    <3>2. ctr[cursor] # 0 /\ ctr[cursor] # 1
      BY <1>4, <3>1
    <3>3. (IF ctr[cursor] = 0 THEN 0 ELSE ctr[cursor] - 1) = ctr[cursor] - 1
      BY <3>2
    <3> QED BY <3>1, <3>2, <3>3
  <2> QED BY <2>1, <2>2
<1>6. /\ ctr' \in [TimeEvt -> 0 .. MAX_TICKS]
      /\ \A t \in TimeEvt : ctr'[t] # 0 => ctr[t] # 0
  BY <1>2, <1>3, <1>4, <1>5
<1>7. IInv' /\ ToVisit' = From(next, cursor) \ {cursor}
  BY <1>1, <1>6, OnStep
<1> QED BY <1>1, <1>2, <1>5, <1>7

(* ... one that expires is armed again, if it is periodic, ...             *)
LEMMA ExpireStep ==
  ASSUME IInv, VisitExpiring
  PROVE  /\ IInv' /\ cursor \in ToVisit /\ ToVisit' = ToVisit \ {cursor}
         /\ at = "visit" /\ at' = "post" /\ interval' = interval /\ cursor' = cursor
         /\ ctr' = [ctr EXCEPT ![cursor] = interval[cursor]]
         /\ ctr[cursor] = 1 /\ cursor \in TimeEvt
<1>0. TypeOK /\ PhaseInv /\ ArmedLinked /\ WalkInv
  BY DEF IInv
<1>1. /\ at = "visit" /\ cursor # NULL /\ at' = "post" /\ UNCHANGED <<interval, act, cursor, prev>>
      /\ ctr[cursor] = 1 /\ ctr' = [ctr EXCEPT ![cursor] = interval[cursor]]
      /\ UNCHANGED listVars
  BY DEF VisitExpiring, Reload
<1>2. cursor \in TimeEvt /\ cursor \in From(next, cursor) /\ ToVisit = From(next, cursor)
  BY <1>1, ToVisitIs
<1>3. WalkInv'
  BY <1>0, <1>1, WalkSame
<1>4. listHead' = listHead /\ next' = next /\ linked' = linked
  BY <1>1 DEF listVars
<1>5. ctr' \in [TimeEvt -> 0 .. MAX_TICKS] /\ \A t \in TimeEvt : ctr'[t] # 0 => ctr[t] # 0
  BY <1>0, <1>1, <1>2 DEF TypeOK
<1>6. IInv'
  BY <1>0, <1>1, <1>3, <1>4, <1>5 DEF IInv, TypeOK, PhaseInv, ArmedLinked
<1>7. PICK n, f :
        /\ n \in Nat /\ f \in [1 .. n + 1 -> TimeEvt \cup {NULL}]
        /\ ListIs(f, n) /\ \E k \in 1 .. n : WalkIs(f, n, k)
  BY <1>1, AtEvent
<1>8. PICK k \in 1 .. n : WalkIs(f, n, k)
  BY <1>7
<1>9. PICK nx : nx = next
  OBVIOUS
<1>10. n \in Nat /\ Chain(nx, f, n) /\ k \in 1 .. n + 1 /\ k \in 1 .. n /\ cursor = f[k]
  BY <1>7, <1>8, <1>9 DEF ListIs, WalkIs
<1>11. From(nx, nx[f[k]]) = From(nx, f[k]) \ {f[k]}
  BY <1>10, RestIs
<1>12. ToVisit' = From(next, cursor) \ {cursor}
  BY <1>1, <1>4, <1>9, <1>10, <1>11 DEF ToVisit
<1> QED BY <1>1, <1>2, <1>6, <1>12

(* ... posted ...                                                          *)
LEMMA PostStep ==
  ASSUME IInv, PostTimeEvt
  PROVE  /\ IInv' /\ ToVisit' = ToVisit /\ cursor \notin ToVisit /\ cursor \in TimeEvt
         /\ at = "post" /\ at' = "after" /\ UNCHANGED <<ctr, interval, cursor>>
<1>0. TypeOK /\ PhaseInv /\ ArmedLinked /\ WalkInv
  BY DEF IInv
<1>1. /\ at = "post" /\ at' = "after" /\ UNCHANGED <<ctr, interval, act, cursor, prev, listVars>>
  BY DEF PostTimeEvt
<1>2. cursor # NULL
  BY <1>0, <1>1 DEF PhaseInv
<1>3. cursor \in TimeEvt /\ ToVisit = From(next, cursor) \ {cursor}
  BY <1>1, <1>2, ToVisitIs
<1>4. WalkInv'
  BY <1>0, <1>1, WalkSame
<1>5. listHead' = listHead /\ next' = next /\ linked' = linked
  BY <1>1 DEF listVars
<1>6. IInv'
  BY <1>0, <1>1, <1>2, <1>4, <1>5 DEF IInv, TypeOK, PhaseInv, ArmedLinked
<1>7. ToVisit' = ToVisit
  BY <1>1, <1>2, <1>5 DEF ToVisit
<1> QED BY <1>1, <1>3, <1>6, <1>7

(* ... and unlinked, if it is not armed again, or passed.                  *)
LEMMA AfterStep ==
  ASSUME IInv, AfterPost
  PROVE  /\ IInv' /\ ToVisit' = ToVisit
         /\ at = "after" /\ at' = "visit" /\ UNCHANGED <<ctr, interval>>
<1>1. /\ at = "after" /\ at' = "visit" /\ UNCHANGED <<ctr, interval, act>>
      /\ \/ ctr[cursor] = 0 /\ Unlink(cursor) /\ cursor' = next[cursor] /\ prev' = prev
         \/ UNCHANGED listVars /\ cursor' = next[cursor] /\ prev' = cursor
  BY DEF AfterPost, StepUnlinked, StepLinked
<1>2. cursor # NULL /\ ctr \in [TimeEvt -> 0 .. MAX_TICKS]
  BY <1>1 DEF IInv, PhaseInv, TypeOK
<1>3. ToVisit = From(next, cursor) \ {cursor}
  BY <1>1, <1>2, ToVisitIs
<1>4. IInv' /\ ToVisit' = From(next, cursor) \ {cursor}
  BY <1>1, <1>2, OnStep
<1> QED BY <1>1, <1>3, <1>4

(* At the end of the list nothing is left to visit.                        *)
LEMMA EndStep ==
  ASSUME IInv, TickEnd
  PROVE  /\ IInv' /\ ToVisit = {} /\ ToVisit' = {}
         /\ at = "visit" /\ at' = "out" /\ UNCHANGED <<ctr, interval>>
<1>0. TypeOK /\ PhaseInv /\ ArmedLinked /\ WalkInv
  BY DEF IInv
<1>1. /\ at = "visit" /\ cursor = NULL /\ at' = "out" /\ prev' = NULL
      /\ UNCHANGED <<ctr, interval, act, cursor>> /\ UNCHANGED listVars
  BY DEF TickEnd
<1>2. listHead' = listHead /\ next' = next /\ linked' = linked
  BY <1>1 DEF listVars
<1>3. PICK n, f :
        /\ n \in Nat /\ f \in [1 .. n + 1 -> TimeEvt \cup {NULL}]
        /\ ListIs(f, n) /\ \E k \in 1 .. n + 1 : WalkIs(f, n, k)
  BY <1>0, <1>1 DEF WalkInv
<1>4. PICK k \in 1 .. n + 1 : WalkIs(f, n, k)
  BY <1>3
<1>5. PICK nx : nx = next
  OBVIOUS
<1>6. n \in Nat /\ Chain(nx, f, n) /\ f[k] = NULL
  BY <1>1, <1>3, <1>4, <1>5 DEF ListIs, WalkIs
<1>7. From(nx, f[k]) = {}
  BY <1>6, RestIs
<1>8. ToVisit = {}
  BY <1>1, <1>5, <1>6, <1>7 DEF ToVisit
<1>9. WalkInv'
  <2>1. ListIs(f, n)'
    BY <1>2, <1>3 DEF ListIs
  <2>2. n \in Nat /\ f \in [1 .. n + 1 -> TimeEvt \cup {NULL}]
    BY <1>3
  <2> QED BY <1>1, <2>1, <2>2 DEF WalkInv
<1> QED BY <1>0, <1>1, <1>2, <1>8, <1>9 DEF IInv, TypeOK, PhaseInv, ArmedLinked, ToVisit

----------------------------------------------------------------------------
(* The invariant.                                                          *)

(* No time event is in the list at first.                                  *)
LEMMA Initially == Init => IInv
<1> SUFFICES ASSUME Init PROVE IInv
  OBVIOUS
<1>1. TypeOK /\ PhaseInv /\ ArmedLinked
  BY TimeEvtAssumption DEF Init, TypeOK, PhaseInv, ArmedLinked
<1>2. PICK f : f = [i \in 1 .. 0 + 1 |-> NULL]
  OBVIOUS
<1>3. f \in [1 .. 0 + 1 -> TimeEvt \cup {NULL}] /\ f[0 + 1] = NULL /\ f[1] = NULL
  BY <1>2
<1>4. Chain(next, f, 0)
  BY <1>3 DEF Chain
<1>5. ListIs(f, 0)
  BY <1>3, <1>4 DEF ListIs, Init
<1>6. WalkInv
  BY <1>3, <1>5 DEF WalkInv, Init
<1> QED BY <1>1, <1>6 DEF IInv

(* Nothing moves when no variable changes.                                 *)
LEMMA SameStep ==
  ASSUME IInv, UNCHANGED vars
  PROVE  IInv' /\ ToVisit' = ToVisit
<1>1. /\ listHead' = listHead /\ next' = next /\ linked' = linked /\ ctr' = ctr
      /\ interval' = interval /\ act' = act /\ cursor' = cursor /\ prev' = prev /\ at' = at
      /\ UNCHANGED <<listVars, cursor, prev>>
  BY DEF vars, listVars
<1>2. WalkInv'
  BY <1>1, WalkSame DEF IInv
<1> QED BY <1>1, <1>2 DEF IInv, TypeOK, PhaseInv, ArmedLinked, ToVisit

(* Every step keeps the invariant.                                         *)
LEMMA Steps ==
  ASSUME IInv, [Next]_vars
  PROVE  IInv'
<1>1. ASSUME NEW t \in TimeEvt, Use(t) PROVE IInv'
  BY <1>1, UseStep
<1>2. CASE TickBegin
  BY <1>2, BeginStep
<1>3. CASE VisitDisarmed \/ VisitArmed
  BY <1>3, VisitStep
<1>4. CASE VisitExpiring
  BY <1>4, ExpireStep
<1>5. CASE PostTimeEvt
  BY <1>5, PostStep
<1>6. CASE AfterPost
  BY <1>6, AfterStep
<1>7. CASE TickEnd
  BY <1>7, EndStep
<1>8. CASE UNCHANGED vars
  BY <1>8, SameStep
<1> QED BY <1>1, <1>2, <1>3, <1>4, <1>5, <1>6, <1>7, <1>8 DEF Next, Walk

(* The linked list stays a list, through all arming, disarming, rearming   *)
(* and the unlinking of QF_tick, for every finite set of time events.      *)
THEOREM Invariance == Spec => []IInv
<1>1. IInv /\ [Next]_vars => IInv'
  BY Steps
<1> QED BY <1>1, Initially, PTL DEF Spec

(* The counters, links and flags of the time events keep their types.      *)
THEOREM TypeCorrect == Spec => []TypeOK
<1>1. IInv => TypeOK
  BY DEF IInv
<1> QED BY <1>1, Invariance, PTL

(* The list is well formed: it ends, holds exactly the linked time events, *)
(* every armed one among them, and QF_tick knows the one before the        *)
(* cursor, as its assertion Q_ASSERT(prev != 0) demands.                   *)
THEOREM ListCorrect == Spec => []ListExact
<1>1. IInv => ListExact
  <2> SUFFICES ASSUME IInv PROVE ListExact
    OBVIOUS
  <2>0. TypeOK /\ PhaseInv /\ ArmedLinked /\ WalkInv
    BY DEF IInv
  <2>1. PICK n, f :
          /\ n \in Nat /\ f \in [1 .. n + 1 -> TimeEvt \cup {NULL}]
          /\ ListIs(f, n) /\ (at = "out" \/ \E k \in 1 .. n + 1 : WalkIs(f, n, k))
    BY <2>0 DEF WalkInv
  <2>2. PICK nx : nx = next
    OBVIOUS
  <2>3. n \in Nat /\ Chain(nx, f, n) /\ 1 \in 1 .. n + 1 /\ listHead = f[1]
    BY <2>1, <2>2 DEF ListIs
  <2>4. From(nx, f[1]) = Rest(f, 1, n) /\ Path(nx, f[1])[Cardinality(TimeEvt)] = NULL
    BY <2>3, FromIs
  <2>5. Rest(f, 1, n) = {t \in TimeEvt : linked[t] = 1}
    BY <2>1 DEF Rest, ListIs, Chain
  <2>6. ASSUME cursor \notin {NULL, listHead}
        PROVE  prev # NULL /\ linked[prev] = 1 /\ next[prev] = cursor
    <3>1. at # "out"
      BY <2>0, <2>6 DEF PhaseInv
    <3>2. PICK k \in 1 .. n + 1 : WalkIs(f, n, k)
      BY <2>1, <3>1
    <3>3. cursor = f[k] /\ k # 1 /\ k - 1 \in 1 .. n /\ k - 1 + 1 = k /\ k > 1
      <4>1. cursor = f[k] /\ k # 1
        BY <2>3, <2>6, <3>2 DEF WalkIs
      <4> QED BY <2>3, <4>1
    <3>4. prev = f[k - 1]
      BY <3>2, <3>3 DEF WalkIs
    <3>5. f[k - 1] \in TimeEvt /\ nx[f[k - 1]] = f[k]
      BY <2>3, <3>3 DEF Chain
    <3>6. linked[prev] = 1
      BY <2>1, <3>3, <3>4, <3>5 DEF ListIs
    <3> QED BY <2>2, <3>3, <3>4, <3>5, <3>6, TimeEvtAssumption
  <2> QED BY <2>0, <2>2, <2>3, <2>4, <2>5, <2>6 DEF ListExact, ArmedLinked
<1> QED BY <1>1, Invariance, PTL

----------------------------------------------------------------------------
(* The refinement of Timers.                                               *)

(* What remains of the time event t, and what it owes, when v is to visit  *)
(* and p is being posted.                                                  *)
RemainOf(v, c, i, t) == IF t \in v /\ c[t] = 1 THEN i[t]
                        ELSE IF t \in v /\ c[t] # 0 THEN c[t] - 1 ELSE c[t]
OwedOf(v, c, p, t) == IF (t \in v /\ c[t] = 1) \/ t \in p THEN 1 ELSE 0
Posting == IF at = "post" THEN {cursor} ELSE {}

(* The refinement mapping, time event by time event.                       *)
LEMMA MappingIs ==
  /\ Remain = [t \in TimeEvt |-> RemainOf(ToVisit, ctr, interval, t)]
  /\ Owed = [t \in TimeEvt |-> OwedOf(ToVisit, ctr, Posting, t)]
  /\ Remain' = [t \in TimeEvt |-> RemainOf(ToVisit', ctr', interval', t)]
  /\ Owed' = [t \in TimeEvt |-> OwedOf(ToVisit', ctr', Posting', t)]
BY DEF Remain, Owed, RemainOf, OwedOf, Posting

(* Outside of QF_tick the counters are the count-downs, and no post is     *)
(* owed.                                                                   *)
LEMMA MappingOut ==
  ASSUME TypeOK, at = "out"
  PROVE  Remain = ctr /\ Owed = [t \in TimeEvt |-> 0]
<1>1. ToVisit = {} /\ Posting = {}
  BY DEF ToVisit, Posting
<1>2. ctr = [t \in TimeEvt |-> ctr[t]]
  BY DEF TypeOK
<1>3. \A t : RemainOf({}, ctr, interval, t) = ctr[t] /\ OwedOf({}, ctr, {}, t) = 0
  BY DEF RemainOf, OwedOf
<1> QED BY <1>1, <1>2, <1>3, MappingIs

(* A step that moves neither is a stuttering step of Timers.               *)
LEMMA Stutters ==
  ASSUME interval' = interval,
         \A t \in TimeEvt :
           /\ RemainOf(ToVisit', ctr', interval', t) = RemainOf(ToVisit, ctr, interval, t)
           /\ OwedOf(ToVisit', ctr', Posting', t) = OwedOf(ToVisit, ctr, Posting, t)
  PROVE  [Abstract!Next]_<<Remain, interval, Owed>>
<1>1. Remain' = Remain
  BY MappingIs
<1>2. Owed' = Owed
  BY MappingIs
<1> QED BY <1>1, <1>2

(* Arming, disarming and rearming set a timer.                             *)
LEMMA UseSets ==
  ASSUME IInv, NEW t \in TimeEvt, Use(t)
  PROVE  [Abstract!Next]_<<Remain, interval, Owed>>
<1>1. at = "out" /\ at' = "out" /\ IInv' /\ TypeOK /\ TypeOK'
  BY UseStep DEF IInv
<1>2. PICK n, p : /\ n \in 0 .. MAX_TICKS /\ p \in 0 .. MAX_TICKS
                  /\ ctr' = [ctr EXCEPT ![t] = n] /\ interval' = [interval EXCEPT ![t] = p]
  BY UseStep
<1>3. Remain = ctr /\ Owed = [u \in TimeEvt |-> 0]
  BY <1>1, MappingOut
<1>4. Remain' = ctr' /\ Owed' = [u \in TimeEvt |-> 0]
  <2>1. ToVisit' = {} /\ Posting' = {}
    BY <1>1 DEF ToVisit, Posting
  <2>2. ctr' = [u \in TimeEvt |-> ctr'[u]]
    BY <1>1 DEF TypeOK
  <2>3. \A u : RemainOf({}, ctr', interval', u) = ctr'[u] /\ OwedOf({}, ctr', {}, u) = 0
    BY DEF RemainOf, OwedOf
  <2> QED BY <2>1, <2>2, <2>3, MappingIs
<1>5. Abstract!Set(t, n, p)
  <2>1. Abstract!Settled
    BY <1>3 DEF Abstract!Settled
  <2> QED BY <1>2, <1>3, <1>4, <2>1 DEF Abstract!Set
<1>6. Abstract!Next
  BY <1>2, <1>5 DEF Abstract!Next
<1> QED BY <1>6

(* The beginning of a tick counts all timers down.                         *)
LEMMA BeginTicks ==
  ASSUME IInv, TickBegin
  PROVE  [Abstract!Next]_<<Remain, interval, Owed>>
<1>0. TypeOK /\ ArmedLinked
  BY DEF IInv
<1>1. /\ at = "out" /\ at' = "visit" /\ ctr' = ctr /\ interval' = interval
      /\ ToVisit' = {t \in TimeEvt : linked[t] = 1}
  BY BeginStep DEF TickBegin
<1>2. Remain = ctr /\ Owed = [t \in TimeEvt |-> 0]
  BY <1>0, <1>1, MappingOut
<1>3. Posting' = {}
  BY <1>1 DEF Posting
<1>4. \A t \in TimeEvt :
        /\ RemainOf(ToVisit', ctr', interval', t)
             = IF ctr[t] = 1 THEN interval[t] ELSE IF ctr[t] = 0 THEN 0 ELSE ctr[t] - 1
        /\ OwedOf(ToVisit', ctr', Posting', t) = IF ctr[t] = 1 THEN 1 ELSE 0
  <2> TAKE t \in TimeEvt
  <2>1. ctr[t] # 0 => t \in ToVisit'
    BY <1>0, <1>1 DEF ArmedLinked
  <2> QED BY <1>1, <1>3, <2>1 DEF RemainOf, OwedOf
<1>5. /\ Remain' = [t \in TimeEvt |-> IF ctr[t] = 1 THEN interval[t]
                                      ELSE IF ctr[t] = 0 THEN 0 ELSE ctr[t] - 1]
      /\ Owed' = [t \in TimeEvt |-> IF ctr[t] = 1 THEN 1 ELSE 0]
  BY <1>4, MappingIs
<1>6. Abstract!Tick
  <2>1. Abstract!Settled
    BY <1>2 DEF Abstract!Settled
  <2> QED BY <1>1, <1>2, <1>5, <2>1 DEF Abstract!Tick
<1> QED BY <1>6 DEF Abstract!Next

(* Passing a time event that does not expire moves no timer.               *)
LEMMA VisitStutters ==
  ASSUME IInv, VisitDisarmed \/ VisitArmed
  PROVE  [Abstract!Next]_<<Remain, interval, Owed>>
<1>1. /\ cursor \in ToVisit /\ ToVisit' = ToVisit \ {cursor}
      /\ at = "visit" /\ at' = "visit" /\ interval' = interval
      /\ ctr' = [ctr EXCEPT ![cursor] = IF ctr[cursor] = 0 THEN 0 ELSE ctr[cursor] - 1]
      /\ ctr[cursor] # 1 /\ cursor \in TimeEvt
  BY VisitStep
<1>2. ctr \in [TimeEvt -> 0 .. MAX_TICKS]
  BY DEF IInv, TypeOK
<1>3. Posting = {} /\ Posting' = {}
  BY <1>1 DEF Posting
<1>4. \A t \in TimeEvt :
        /\ RemainOf(ToVisit', ctr', interval', t) = RemainOf(ToVisit, ctr, interval, t)
        /\ OwedOf(ToVisit', ctr', Posting', t) = OwedOf(ToVisit, ctr, Posting, t)
  <2> TAKE t \in TimeEvt
  <2>1. CASE t = cursor
    <3>1. ctr'[t] = IF ctr[t] = 0 THEN 0 ELSE ctr[t] - 1
      BY <1>1, <1>2, <2>1
    <3> QED BY <1>1, <1>3, <2>1, <3>1 DEF RemainOf, OwedOf
  <2>2. CASE t # cursor
    <3>1. ctr'[t] = ctr[t] /\ (t \in ToVisit' <=> t \in ToVisit)
      BY <1>1, <1>2, <2>2
    <3> QED BY <1>1, <1>3, <3>1 DEF RemainOf, OwedOf
  <2> QED BY <2>1, <2>2
<1> QED BY <1>1, <1>4, Stutters

(* The reload of an expiring time event moves no timer: the tick has done  *)
(* it, and the event is owed until the post.                               *)
LEMMA ExpireStutters ==
  ASSUME IInv, VisitExpiring
  PROVE  [Abstract!Next]_<<Remain, interval, Owed>>
<1>1. /\ cursor \in ToVisit /\ ToVisit' = ToVisit \ {cursor}
      /\ at = "visit" /\ at' = "post" /\ interval' = interval /\ cursor' = cursor
      /\ ctr' = [ctr EXCEPT ![cursor] = interval[cursor]]
      /\ ctr[cursor] = 1 /\ cursor \in TimeEvt
  BY ExpireStep
<1>2. ctr \in [TimeEvt -> 0 .. MAX_TICKS]
  BY DEF IInv, TypeOK
<1>3. Posting = {} /\ Posting' = {cursor}
  BY <1>1 DEF Posting
<1>4. \A t \in TimeEvt :
        /\ RemainOf(ToVisit', ctr', interval', t) = RemainOf(ToVisit, ctr, interval, t)
        /\ OwedOf(ToVisit', ctr', Posting', t) = OwedOf(ToVisit, ctr, Posting, t)
  <2> TAKE t \in TimeEvt
  <2>1. CASE t = cursor
    <3>1. ctr'[t] = interval[t] /\ t \notin ToVisit' /\ t \in Posting'
      BY <1>1, <1>2, <1>3, <2>1
    <3> QED BY <1>1, <1>3, <2>1, <3>1 DEF RemainOf, OwedOf
  <2>2. CASE t # cursor
    <3>1. ctr'[t] = ctr[t] /\ (t \in ToVisit' <=> t \in ToVisit) /\ t \notin Posting'
      BY <1>1, <1>2, <1>3, <2>2
    <3> QED BY <1>1, <1>3, <3>1 DEF RemainOf, OwedOf
  <2> QED BY <2>1, <2>2
<1> QED BY <1>1, <1>4, Stutters

(* The post delivers the event that the time event owes, and only that.    *)
LEMMA PostDelivers ==
  ASSUME IInv, PostTimeEvt
  PROVE  [Abstract!Next]_<<Remain, interval, Owed>>
<1>1. /\ ToVisit' = ToVisit /\ cursor \notin ToVisit /\ cursor \in TimeEvt
      /\ at = "post" /\ at' = "after" /\ ctr' = ctr /\ interval' = interval
  BY PostStep
<1>2. Posting = {cursor} /\ Posting' = {}
  BY <1>1 DEF Posting
<1>3. Remain' = Remain
  BY <1>1, MappingIs
<1>4. Owed[cursor] = 1
  BY <1>1, <1>2, MappingIs DEF OwedOf
<1>5. Owed' = [Owed EXCEPT ![cursor] = 0]
  <2>1. \A t \in TimeEvt : OwedOf(ToVisit', ctr', Posting', t)
                             = IF t = cursor THEN 0 ELSE OwedOf(ToVisit, ctr, Posting, t)
    BY <1>1, <1>2 DEF OwedOf
  <2> QED BY <2>1, MappingIs
<1>6. Abstract!Deliver(cursor)
  BY <1>1, <1>3, <1>4, <1>5 DEF Abstract!Deliver
<1> QED BY <1>1, <1>6 DEF Abstract!Next

(* Unlinking after the post, and the end of the walk, move no timer.       *)
LEMMA RestStutters ==
  ASSUME IInv, AfterPost \/ TickEnd \/ UNCHANGED vars
  PROVE  [Abstract!Next]_<<Remain, interval, Owed>>
<1>1. ToVisit' = ToVisit /\ ctr' = ctr /\ interval' = interval
  <2>1. CASE AfterPost
    BY <2>1, AfterStep
  <2>2. CASE TickEnd
    BY <2>2, EndStep
  <2>3. CASE UNCHANGED vars
    BY <2>3, SameStep DEF vars
  <2> QED BY <2>1, <2>2, <2>3
<1>2. Posting' = Posting
  <2>1. CASE AfterPost
    BY <2>1, AfterStep DEF Posting
  <2>2. CASE TickEnd
    BY <2>2, EndStep DEF Posting
  <2>3. CASE UNCHANGED vars
    BY <2>3 DEF vars, Posting
  <2> QED BY <2>1, <2>2, <2>3
<1> QED BY <1>1, <1>2, Stutters

(* Every step of the time events is a step of the timers.                  *)
LEMMA Simulates ==
  ASSUME IInv, [Next]_vars
  PROVE  [Abstract!Next]_<<Remain, interval, Owed>>
<1>1. ASSUME NEW t \in TimeEvt, Use(t) PROVE [Abstract!Next]_<<Remain, interval, Owed>>
  BY <1>1, UseSets
<1>2. CASE TickBegin
  BY <1>2, BeginTicks
<1>3. CASE VisitDisarmed \/ VisitArmed
  BY <1>3, VisitStutters
<1>4. CASE VisitExpiring
  BY <1>4, ExpireStutters
<1>5. CASE PostTimeEvt
  BY <1>5, PostDelivers
<1>6. CASE AfterPost \/ TickEnd \/ UNCHANGED vars
  BY <1>6, RestStutters
<1> QED BY <1>1, <1>2, <1>3, <1>4, <1>5, <1>6 DEF Next, Walk

(* The walk along the changing list implements independent count-downs: a  *)
(* tick moves every armed time event by exactly one and QF_tick posts      *)
(* exactly those that run out, for every finite set of time events.        *)
THEOREM TicksAreTimers == Spec => ImplementsTimers
<1>1. Init => Abstract!Init
  <2> SUFFICES ASSUME Init PROVE Abstract!Init
    OBVIOUS
  <2>1. TypeOK /\ at = "out"
    BY Initially DEF IInv, Init
  <2>2. Remain = ctr /\ Owed = [t \in TimeEvt |-> 0]
    BY <2>1, MappingOut
  <2> QED BY <2>2 DEF Init, Abstract!Init
<1>2. IInv /\ [Next]_vars => IInv' /\ [Abstract!Next]_<<Remain, interval, Owed>>
  BY Steps, Simulates
<1> QED BY <1>1, <1>2, Initially, PTL DEF Spec, ImplementsTimers, Abstract!Spec
=============================================================================
