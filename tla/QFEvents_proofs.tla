--------------------------- MODULE QFEvents_proofs ---------------------------
(***************************************************************************)
(* Reference counting and the event pool are exact for every number of     *)
(* active objects and blocks and every width of a subscription byte.       *)
(***************************************************************************)
EXTENDS QFEvents, FiniteSetTheorems, SequenceTheorems, WellFoundedInduction, TLAPS

----------------------------------------------------------------------------
(* Counting.                                                               *)

One(x, b) == IF x = b THEN 1 ELSE 0
Spots(s, b) == {i \in 1 .. Len(s) : s[i] = b}
HeldBy(f, b) == Cardinality(Holders(f, b))
InQueues(q, b) == Cardinality(Places(q, b))

(* A sequence has finitely many places.                                    *)
LEMMA SpotsFinite ==
  ASSUME NEW S, NEW s \in Seq(S), NEW b
  PROVE  IsFiniteSet(Spots(s, b)) /\ Cardinality(Spots(s, b)) \in Nat
<1>1. IsFiniteSet(1..Len(s))
  BY FS_Interval
<1>2. IsFiniteSet(Spots(s, b))
  BY <1>1, FS_Subset DEF Spots
<1> QED BY <1>2, FS_CardinalityType

(* One more entry may be one more place.                                   *)
LEMMA SpotsAppend ==
  ASSUME NEW S, NEW s \in Seq(S), NEW e \in S, NEW b
  PROVE  Cardinality(Spots(Append(s, e), b)) = Cardinality(Spots(s, b)) + One(e, b)
<1>1. Spots(Append(s, e), b) = Spots(s, b) \cup (IF e = b THEN {Len(s) + 1} ELSE {})
  <2>1. /\ Len(Append(s, e)) = Len(s) + 1 /\ Len(s) \in Nat
        /\ \A i \in 1..Len(s) : Append(s, e)[i] = s[i]
        /\ Append(s, e)[Len(s) + 1] = e
    BY AppendProperties
  <2> DEFINE r == Append(s, e)
  <2> HIDE DEF r
  <2>2. 1..Len(r) = (1..Len(s)) \cup {Len(s) + 1}
    BY <2>1 DEF r
  <2> QED BY <2>1, <2>2 DEF Spots, r
<1>2. Len(s) + 1 \notin Spots(s, b)
  BY DEF Spots
<1>3. CASE e = b
  BY <1>1, <1>2, <1>3, SpotsFinite, FS_AddElement DEF One
<1>4. CASE e # b
  BY <1>1, <1>4, SpotsFinite DEF One
<1> QED BY <1>1, <1>3, <1>4

(* The first entry leaves, the others move up.                             *)
LEMMA SpotsTail ==
  ASSUME NEW S, NEW s \in Seq(S), NEW b, s # << >>
  PROVE  Cardinality(Spots(Tail(s), b)) = Cardinality(Spots(s, b)) - One(Head(s), b)
<1>1. /\ Len(s) \in Nat \ {0} /\ Len(Tail(s)) = Len(s) - 1 /\ Tail(s) \in Seq(S)
      /\ \A i \in 1..Len(s) - 1 : Tail(s)[i] = s[i + 1]
      /\ Head(s) = s[1]
  BY HeadTailProperties
<1> DEFINE T == Spots(Tail(s), b)
           W == Spots(s, b)
<1>2. \A i \in T : i \in Nat /\ i + 1 \in W /\ i + 1 # 1
  BY <1>1 DEF Spots
<1>3. \A i \in W : i \in Nat /\ (i # 1 => i - 1 \in T)
  BY <1>1 DEF Spots
<1>4. 1 \in W <=> Head(s) = b
  BY <1>1 DEF Spots
<1>5. IsFiniteSet(T) /\ IsFiniteSet(W) /\ Cardinality(T) \in Nat /\ Cardinality(W) \in Nat
  BY <1>1, SpotsFinite
<1> HIDE DEF T, W
<1>6. Cardinality(W \ {1}) = Cardinality(W) - One(Head(s), b) /\ IsFiniteSet(W \ {1})
  <2>1. IsFiniteSet(W \ {1}) /\ Cardinality(W \ {1}) = IF 1 \in W THEN Cardinality(W) - 1 ELSE Cardinality(W)
    BY <1>5, FS_RemoveElement
  <2> QED BY <1>4, <1>5, <2>1 DEF One
<1>7. Cardinality(T) = Cardinality(W \ {1})
  <2> DEFINE f == [i \in T |-> i + 1]
  <2>1. f \in Bijection(T, W \ {1})
    <3>1. f \in [T -> W \ {1}]
      BY <1>2
    <3>2. \A i, j \in T : f[i] = f[j] => i = j
      BY <1>2
    <3>3. \A k \in W \ {1} : \E i \in T : f[i] = k
      <4> TAKE k \in W \ {1}
      <4>1. k - 1 \in T /\ f[k - 1] = k
        BY <1>3
      <4> QED BY <4>1
    <3> HIDE DEF f
    <3> QED BY <3>1, <3>2, <3>3 DEF Bijection, Injection, Surjection, IsInjective
  <2>2. ExistsBijection(T, W \ {1})
    BY <2>1 DEF ExistsBijection
  <2> QED BY <1>5, <2>2, FS_Bijection
<1> QED BY <1>6, <1>7 DEF T, W

(* One more entry in front may be one more place.                          *)
LEMMA SpotsCons ==
  ASSUME NEW S, NEW s \in Seq(S), NEW e \in S, NEW b
  PROVE  /\ <<e>> \o s \in Seq(S)
         /\ Cardinality(Spots(<<e>> \o s, b)) = Cardinality(Spots(s, b)) + One(e, b)
<1> DEFINE r == <<e>> \o s
<1>1. r \in Seq(S) /\ Len(r) = Len(s) + 1 /\ Len(s) \in Nat /\ r[1] = e
      /\ \A i \in 1..Len(s) : r[i + 1] = s[i]
  <2>1. <<e>> \in Seq(S) /\ Len(<<e>>) = 1 /\ <<e>>[1] = e
    OBVIOUS
  <2>2. /\ r \in Seq(S) /\ Len(r) = Len(<<e>>) + Len(s)
        /\ \A i \in 1..Len(<<e>>) + Len(s) : r[i] = IF i <= Len(<<e>>) THEN <<e>>[i] ELSE s[i - Len(<<e>>)]
    BY <2>1, ConcatProperties
  <2> HIDE DEF r
  <2>3. Len(s) \in Nat
    OBVIOUS
  <2>4. r[1] = e
    BY <2>1, <2>2, <2>3
  <2>5. \A i \in 1..Len(s) : r[i + 1] = s[i]
    BY <2>1, <2>2, <2>3
  <2> QED BY <2>1, <2>2, <2>3, <2>4, <2>5
<1> HIDE DEF r
<1>2. r # << >> /\ Head(r) = e
  BY <1>1
<1>3. Tail(r) = s
  <2>1. Tail(r) \in Seq(S) /\ Len(Tail(r)) = Len(s) /\ \A i \in 1..Len(s) : Tail(r)[i] = r[i + 1]
    BY <1>1, <1>2, HeadTailProperties
  <2> QED BY <1>1, <2>1, SeqEqual
<1>4. Cardinality(Spots(r, b)) \in Nat /\ Cardinality(Spots(s, b)) = Cardinality(Spots(r, b)) - One(e, b)
  BY <1>1, <1>2, <1>3, SpotsFinite, SpotsTail
<1>5. Cardinality(Spots(r, b)) = Cardinality(Spots(s, b)) + One(e, b)
  BY <1>4 DEF One
<1> QED BY <1>1, <1>5 DEF r

(* Functions on D, and two that differ at most for c.                      *)
On(D, f) == f = [c \in D |-> f[c]]
DifferAt(D, f, g, c) == \A x \in D : x # c => g[x] = f[x]
Becomes(f, c, v) == f[c] = v
NotEmpty(q, a) == q[a] # << >>

(* A context that now has something else.                                  *)
LEMMA HeldByChange ==
  ASSUME NEW D, IsFiniteSet(D), NEW f, NEW g, On(D, f), On(D, g), NEW c \in D, DifferAt(D, f, g, c), NEW b
  PROVE  HeldBy(g, b) = HeldBy(f, b) - One(f[c], b) + One(g[c], b)
<1> DEFINE R == Holders(f, b) \ {c}
<1>0. DOMAIN f = D /\ DOMAIN g = D /\ \A x \in D : x # c => g[x] = f[x]
  BY DEF On, DifferAt
<1>1. IsFiniteSet(Holders(f, b)) /\ IsFiniteSet(R)
  BY <1>0, FS_Subset DEF Holders
<1>2. Cardinality(R) \in Nat
  BY <1>1, FS_CardinalityType
<1>3. c \notin R
  OBVIOUS
<1>4. HeldBy(f, b) = Cardinality(R) + One(f[c], b)
  <2>1. CASE f[c] = b
    <3>1. Holders(f, b) = R \cup {c}
      BY <1>0, <2>1 DEF Holders
    <3> HIDE DEF R
    <3> QED BY <1>1, <1>3, <2>1, <3>1, FS_AddElement DEF HeldBy, One
  <2>2. CASE f[c] # b
    <3>1. Holders(f, b) = R
      BY <1>0, <2>2 DEF Holders
    <3> HIDE DEF R
    <3> QED BY <1>2, <2>2, <3>1 DEF HeldBy, One
  <2> QED BY <2>1, <2>2
<1>5. HeldBy(g, b) = Cardinality(R) + One(g[c], b)
  <2>1. CASE g[c] = b
    <3>1. Holders(g, b) = R \cup {c}
      BY <1>0, <2>1 DEF Holders
    <3> HIDE DEF R
    <3> QED BY <1>1, <1>3, <2>1, <3>1, FS_AddElement DEF HeldBy, One
  <2>2. CASE g[c] # b
    <3>1. Holders(g, b) = R
      BY <1>0, <2>2 DEF Holders
    <3> HIDE DEF R
    <3> QED BY <1>2, <2>2, <3>1 DEF HeldBy, One
  <2> QED BY <2>1, <2>2
<1> HIDE DEF R
<1> QED BY <1>2, <1>4, <1>5 DEF One

(* The places of b in the queue of a.                                      *)
Column(q, a, b) == {<<a, i>> : i \in Spots(q[a], b)}

(* They are as many as the occurrences of b.                               *)
LEMMA ColumnSize ==
  ASSUME NEW q, NEW a, NEW b, NEW S, q[a] \in Seq(S)
  PROVE  /\ IsFiniteSet(Column(q, a, b))
         /\ Cardinality(Column(q, a, b)) = Cardinality(Spots(q[a], b))
<1> DEFINE T == Spots(q[a], b)
           W == Column(q, a, b)
           f == [i \in T |-> <<a, i>>]
<1>1. IsFiniteSet(T)
  BY SpotsFinite
<1>2. f \in Bijection(T, W)
  <2>1. f \in [T -> W]
    BY DEF Column
  <2>2. \A i, j \in T : f[i] = f[j] => i = j
    OBVIOUS
  <2>3. \A k \in W : \E i \in T : f[i] = k
    BY DEF Column
  <2> HIDE DEF f
  <2> QED BY <2>1, <2>2, <2>3 DEF Bijection, Injection, Surjection, IsInjective
<1>3. ExistsBijection(T, W)
  BY <1>2 DEF ExistsBijection
<1> HIDE DEF T, W
<1>4. IsFiniteSet(W) /\ Cardinality(W) = Cardinality(T)
  BY <1>1, <1>3, FS_Bijection
<1> QED BY <1>4 DEF T, W

(* What is a place of b.                                                   *)
LEMMA PlacesAre ==
  ASSUME NEW q, NEW b
  PROVE  \A p : p \in Places(q, b) <=> \E a \in DOMAIN q : p \in Column(q, a, b)
BY DEF Places, Column, Spots

(* Queues of the objects in D.                                             *)
Queues(D, S) == [D -> Seq(S)]

(* The queues have finitely many places.                                   *)
LEMMA PlacesFinite ==
  ASSUME NEW D, IsFiniteSet(D), NEW S, NEW q \in Queues(D, S), NEW b
  PROVE  IsFiniteSet(Places(q, b)) /\ InQueues(q, b) \in Nat
<1> USE DEF Queues
<1> DEFINE C == {Column(q, a, b) : a \in D}
           f == [a \in D |-> Column(q, a, b)]
<1>1. f \in Surjection(D, C)
  <2>1. f \in [D -> C]
    OBVIOUS
  <2>2. \A k \in C : \E a \in D : f[a] = k
    OBVIOUS
  <2> HIDE DEF f
  <2> QED BY <2>1, <2>2 DEF Surjection
<1>2. IsFiniteSet(C)
  <2> HIDE DEF f, C
  <2> QED BY <1>1, FS_Surjection
<1>3. \A T \in C : IsFiniteSet(T)
  BY ColumnSize
<1>4. Places(q, b) = UNION C
  BY PlacesAre
<1>5. IsFiniteSet(Places(q, b))
  <2> HIDE DEF C
  <2> QED BY <1>2, <1>3, <1>4, FS_UNION
<1> QED BY <1>5, FS_CardinalityType DEF InQueues

(* Two sets with nothing in common.                                        *)
LEMMA DisjointUnion ==
  ASSUME NEW A, NEW B, IsFiniteSet(A), IsFiniteSet(B), A \cap B = {}
  PROVE  Cardinality(A \cup B) = Cardinality(A) + Cardinality(B)
<1>1. Cardinality(A \cap B) = 0
  BY FS_EmptySet
<1>2. Cardinality(A) \in Nat /\ Cardinality(B) \in Nat
  BY FS_CardinalityType
<1>3. Cardinality(A \cup B) = Cardinality(A) + Cardinality(B) - Cardinality(A \cap B)
  BY FS_Union
<1> QED BY <1>1, <1>2, <1>3

(* The queue of a changes.                                                 *)
LEMMA QueueChange ==
  ASSUME NEW D, IsFiniteSet(D), NEW S, NEW q \in Queues(D, S), NEW r \in Queues(D, S),
         NEW a \in D, DifferAt(D, q, r, a), NEW b
  PROVE  InQueues(r, b) =
           InQueues(q, b) - Cardinality(Spots(q[a], b)) + Cardinality(Spots(r[a], b))
<1> DEFINE R == {p \in Places(q, b) : p[1] # a}
<1>1. /\ \A x \in D : x # a => r[x] = q[x]
      /\ DOMAIN q = D /\ DOMAIN r = D /\ \A x \in D : q[x] \in Seq(S) /\ r[x] \in Seq(S)
  BY DEF DifferAt, Queues
<1>2. \A x \in D : x # a => Column(r, x, b) = Column(q, x, b)
  BY <1>1 DEF Column
<1>3. \A x \in D : \A p \in Column(q, x, b) : p[1] = x
  BY DEF Column
<1>4. \A x \in D : \A p \in Column(r, x, b) : p[1] = x
  BY DEF Column
<1>5. R = {p \in Places(r, b) : p[1] # a}
  <2>1. \A p : p \in Places(q, b) /\ p[1] # a => p \in Places(r, b)
    BY <1>1, <1>2, <1>3, PlacesAre
  <2>2. \A p : p \in Places(r, b) /\ p[1] # a => p \in Places(q, b)
    BY <1>1, <1>2, <1>4, PlacesAre
  <2> QED BY <2>1, <2>2
<1>6. Places(q, b) = R \cup Column(q, a, b) /\ R \cap Column(q, a, b) = {}
  BY <1>1, <1>3, PlacesAre
<1>7. Places(r, b) = R \cup Column(r, a, b) /\ R \cap Column(r, a, b) = {}
  BY <1>1, <1>4, <1>5, PlacesAre
<1>8. IsFiniteSet(R)
  <2>1. IsFiniteSet(Places(q, b))
    BY PlacesFinite
  <2> QED BY <2>1, FS_Subset
<1> HIDE DEF R
<1>9. /\ IsFiniteSet(Column(q, a, b)) /\ Cardinality(Column(q, a, b)) = Cardinality(Spots(q[a], b))
      /\ IsFiniteSet(Column(r, a, b)) /\ Cardinality(Column(r, a, b)) = Cardinality(Spots(r[a], b))
  BY <1>1, ColumnSize
<1>10. Cardinality(R) \in Nat /\ Cardinality(Spots(q[a], b)) \in Nat /\ Cardinality(Spots(r[a], b)) \in Nat
  BY <1>1, <1>8, FS_CardinalityType, SpotsFinite
<1>11. InQueues(q, b) = Cardinality(R) + Cardinality(Spots(q[a], b))
  BY <1>6, <1>8, <1>9, DisjointUnion DEF InQueues
<1>12. InQueues(r, b) = Cardinality(R) + Cardinality(Spots(r[a], b))
  BY <1>7, <1>8, <1>9, DisjointUnion DEF InQueues
<1> QED BY <1>10, <1>11, <1>12

(* An event goes to the back of a queue, ...                               *)
LEMMA QueueAppend ==
  ASSUME NEW D, IsFiniteSet(D), NEW S, NEW q \in Queues(D, S), NEW r \in Queues(D, S),
         NEW a \in D, DifferAt(D, q, r, a), NEW b, NEW e \in S,
         Becomes(r, a, Append(q[a], e))
  PROVE  InQueues(r, b) = InQueues(q, b) + One(e, b)
<1>1. InQueues(q, b) \in Nat
  BY PlacesFinite
<1>2. q[a] \in Seq(S)
  BY DEF Queues
<1>3. Cardinality(Spots(q[a], b)) \in Nat
  BY <1>2, SpotsFinite
<1>4. InQueues(r, b) = InQueues(q, b) - Cardinality(Spots(q[a], b)) + Cardinality(Spots(r[a], b))
  BY QueueChange
<1>5. Cardinality(Spots(r[a], b)) = Cardinality(Spots(q[a], b)) + One(e, b)
  BY <1>2, SpotsAppend DEF Becomes, NotEmpty
<1> QED BY <1>1, <1>3, <1>4, <1>5 DEF One

(* ... to the front of it ...                                              *)
LEMMA QueueCons ==
  ASSUME NEW D, IsFiniteSet(D), NEW S, NEW q \in Queues(D, S), NEW r \in Queues(D, S),
         NEW a \in D, DifferAt(D, q, r, a), NEW b, NEW e \in S,
         Becomes(r, a, <<e>> \o q[a])
  PROVE  InQueues(r, b) = InQueues(q, b) + One(e, b)
<1>1. InQueues(q, b) \in Nat
  BY PlacesFinite
<1>2. q[a] \in Seq(S)
  BY DEF Queues
<1>3. Cardinality(Spots(q[a], b)) \in Nat
  BY <1>2, SpotsFinite
<1>4. InQueues(r, b) = InQueues(q, b) - Cardinality(Spots(q[a], b)) + Cardinality(Spots(r[a], b))
  BY QueueChange
<1>5. Cardinality(Spots(r[a], b)) = Cardinality(Spots(q[a], b)) + One(e, b)
  BY <1>2, SpotsCons DEF Becomes, NotEmpty
<1> QED BY <1>1, <1>3, <1>4, <1>5 DEF One

(* ... or leaves it.                                                       *)
LEMMA QueueTail ==
  ASSUME NEW D, IsFiniteSet(D), NEW S, NEW q \in Queues(D, S), NEW r \in Queues(D, S),
         NEW a \in D, DifferAt(D, q, r, a), NEW b, NotEmpty(q, a),
         Becomes(r, a, Tail(q[a]))
  PROVE  InQueues(r, b) = InQueues(q, b) - One(Head(q[a]), b)
<1>1. InQueues(q, b) \in Nat
  BY PlacesFinite
<1>2. q[a] \in Seq(S)
  BY DEF Queues
<1>3. Cardinality(Spots(q[a], b)) \in Nat
  BY <1>2, SpotsFinite
<1>4. InQueues(r, b) = InQueues(q, b) - Cardinality(Spots(q[a], b)) + Cardinality(Spots(r[a], b))
  BY QueueChange
<1>5. Cardinality(Spots(r[a], b)) = Cardinality(Spots(q[a], b)) - One(Head(q[a]), b)
  BY <1>2, SpotsTail DEF Becomes, NotEmpty
<1> QED BY <1>1, <1>3, <1>4, <1>5 DEF One

(* Who has b is counted.                                                   *)
LEMMA HeldAtLeast ==
  ASSUME NEW f, IsFiniteSet(DOMAIN f), NEW b
  PROVE  /\ HeldBy(f, b) \in Nat
         /\ \A c \in DOMAIN f : f[c] = b => HeldBy(f, b) >= 1
         /\ \A c, d \in DOMAIN f : c # d /\ f[c] = b /\ f[d] = b => HeldBy(f, b) >= 2
<1>1. IsFiniteSet(Holders(f, b))
  BY FS_Subset DEF Holders
<1>2. HeldBy(f, b) \in Nat
  BY <1>1, FS_CardinalityType DEF HeldBy
<1>3. ASSUME NEW c \in DOMAIN f, f[c] = b
      PROVE  HeldBy(f, b) >= 1
  <2>1. Holders(f, b) # {}
    BY <1>3 DEF Holders
  <2> QED BY <1>1, <1>2, <2>1, FS_EmptySet DEF HeldBy
<1>4. ASSUME NEW c \in DOMAIN f, NEW d \in DOMAIN f, c # d, f[c] = b, f[d] = b
      PROVE  HeldBy(f, b) >= 2
  <2>1. c \in Holders(f, b) /\ d \in Holders(f, b)
    BY <1>4 DEF Holders
  <2>2. HeldBy(f, b) # 0
    BY <1>1, <2>1, FS_EmptySet DEF HeldBy
  <2>3. HeldBy(f, b) # 1
    BY <1>1, <1>4, <2>1, FS_Singleton DEF HeldBy
  <2> QED BY <1>2, <2>2, <2>3
<1> QED BY <1>2, <1>3, <1>4

(* An event in a queue is counted.                                         *)
LEMMA QueuedAtLeast ==
  ASSUME NEW D, IsFiniteSet(D), NEW S, NEW q \in Queues(D, S), NEW b,
         NEW a \in D, NEW i \in 1 .. Len(q[a]), q[a][i] = b
  PROVE  InQueues(q, b) >= 1
<1>1. <<a, i>> \in Places(q, b)
  BY PlacesAre DEF Column, Spots, Queues
<1>2. IsFiniteSet(Places(q, b)) /\ InQueues(q, b) \in Nat
  BY PlacesFinite
<1> QED BY <1>1, <1>2, FS_EmptySet DEF InQueues

----------------------------------------------------------------------------
(* Subscription lists.                                                     *)

(* A set of natural numbers has a least element.                           *)
LEMMA LeastNat ==
  ASSUME NEW S \in SUBSET Nat, S # {}
  PROVE  \E m \in S : \A k \in S : m <= k
<1>1. \E R : IsWellFoundedOn(R, Nat) /\ \A x, y \in Nat : <<y, x>> \in R <=> y < x
  <2>1. \A x, y \in Nat : <<y, x>> \in OpToRel(<, Nat) <=> y < x
    BY DEF OpToRel
  <2> WITNESS OpToRel(<, Nat)
  <2> QED BY <2>1, NatLessThanWellFounded, Zenon
<1>2. PICK R : IsWellFoundedOn(R, Nat) /\ \A x, y \in Nat : <<y, x>> \in R <=> y < x
  BY <1>1
<1>3. PICK x \in S : \A y \in S : ~ (<<y, x>> \in R)
  BY <1>2, WFMin
<1>4. \A y \in S : ~ (y < x)
  BY <1>2, <1>3, S \subseteq Nat, Zenon
<1> QED BY <1>4

(* QF_log2Lkup: the highest bit of a byte that is not zero.                *)
LEMMA Log2Max ==
  ASSUME NEW n \in Nat, NEW S \in SUBSET (1 .. n), S # {}
  PROVE  Log2(S) \in S /\ \A k \in S : k <= Log2(S)
<1> DEFINE T == {k \in Nat : \A x \in S : x <= k}
<1>1. n \in T /\ T \in SUBSET Nat
  OBVIOUS
<1>2. PICK m \in T : \A k \in T : m <= k
  BY <1>1, LeastNat
<1>3. m \in S
  <2>1. m # 0
    BY <1>2, \E x \in S : x \in 1 .. n
  <2>2. m - 1 \notin T
    BY <1>2
  <2> QED BY <2>1, <2>2
<1>4. \E x \in S : \A y \in S : x >= y
  BY <1>2, <1>3
<1> QED BY <1>4 DEF Log2, Max

(* A subscriber is found from its byte and its bit there.                  *)
LEMMA Digits ==
  ASSUME NEW a \in AO
  PROVE  /\ Div8(a) \in Byte
         /\ Pwr2(a) \in 1 .. WIDTH
         /\ a = Pwr2(a) + WIDTH * Div8(a)
<1> DEFINE x == a - 1
           y == N_AO - 1
           d == x \div WIDTH
           e == y \div WIDTH
           r == x % WIDTH
           t == y % WIDTH
<1>1. x \in Nat /\ y \in Nat /\ x <= y /\ WIDTH \in Nat \ {0} /\ a = x + 1
  BY WidthAssumption, EventAssumption DEF AO
<1>2. r \in 0 .. WIDTH - 1 /\ t \in 0 .. WIDTH - 1
  BY <1>1
<1>3. x = r + WIDTH * d /\ y = t + WIDTH * e
  <2>1. ASSUME NEW z \in Nat
        PROVE  z = (z % WIDTH) + WIDTH * (z \div WIDTH)
    BY <1>1
  <2> QED BY <1>1, <2>1
<1>4. d \in Nat /\ e \in Nat
  BY <1>1
<1> HIDE DEF x, y, d, e, r, t
<1>5. d <= e
  <2> SUFFICES ASSUME d >= e + 1
               PROVE  FALSE
    BY <1>4
  <2>1. PICK k \in Nat : d = e + 1 + k
    BY <1>4, d - (e + 1) \in Nat
  <2>2. WIDTH * d = WIDTH * e + WIDTH + WIDTH * k /\ WIDTH * k \in Nat /\ WIDTH * e \in Nat
    BY <1>1, <1>4, <2>1
  <2> QED BY <1>1, <1>2, <1>3, <2>2
<1>6. Div8(a) = d /\ Div8(N_AO) = e /\ Pwr2(a) = r + 1
  BY DEF Div8, Pwr2, x, y, d, e, r, t
<1> QED BY <1>1, <1>2, <1>3, <1>4, <1>5, <1>6 DEF Byte

(* QF_publish reads the bytes from the last to the first.                  *)
LEMMA Bytes ==
  /\ Div8(N_AO) \in Nat /\ Cardinality(Byte) = Div8(N_AO) + 1
  /\ \A k \in 0 .. Cardinality(Byte) : k > 0 => k - 1 \in Byte /\ k - 1 \in 0 .. Cardinality(Byte)
<1>1. Div8(N_AO) \in Nat
  <2>1. N_AO \in AO
    BY EventAssumption DEF AO
  <2> QED BY <2>1, Digits DEF Byte
<1>2. Cardinality(Byte) = Div8(N_AO) + 1
  BY <1>1, FS_Interval DEF Byte
<1> QED BY <1>1, <1>2 DEF Byte

----------------------------------------------------------------------------
(* The inductive invariant.                                                *)

ArgUsed == {"publish", "gc", "put", "recallPost", "recallDrop"}

(* What a context has at the places where it can be.                       *)
PhaseInv ==
  /\ \A c \in Ctx : arg[c] # NULL <=> pc[c] \in ArgUsed
  /\ \A a \in AO : /\ pc[a] = "idle" => ev[a] = NULL
                   /\ pc[a] \in {"run", "recallPost", "recallDrop"} => ev[a] # NULL
  /\ pc[ISR] \in {"run", "publish", "gc", "put"}

(* Bits that are set, also those in a byte that was read a while ago, are  *)
(* active objects.                                                         *)
SubscrInv ==
  /\ \A i \in Byte : \A n \in subscr[i] : n + WIDTH * i \in AO
  /\ \A c \in Ctx : \A n \in todo[c] : n + WIDTH * byte[c] \in AO
  /\ \A c \in Ctx : pc[c] # "publish" => todo[c] = {}

(* The free list has no block twice, and none that a context owns, and no  *)
(* two contexts own the same.                                              *)
FreeInv ==
  /\ nFree = Len(freeList) /\ nMin <= nFree
  /\ \A i, j \in 1 .. Len(freeList) : freeList[i] = freeList[j] => i = j
  /\ \A c, d \in Ctx : new[c] = new[d] /\ new[c] # NULL => c = d
  /\ \A b \in Block : ~(Free(b) /\ Owned(b))

Counted(b) ==
  /\ Free(b) \/ Owned(b) => References(b) = 0
  /\ ~Free(b) /\ ~Owned(b) => References(b) >= 1 /\ refCtr[b] = References(b)
  /\ Owned(b) => refCtr[b] = 0

CountInv == \A b \in Block : Counted(b)

(* A block on its way to the pool has one reference left, and an event     *)
(* that was recalled is still in the queue.                                *)
CallInv ==
  /\ \A c \in Ctx : pc[c] = "put" => refCtr[arg[c]] = 1
  /\ \A a \in AO : pc[a] = "recallDrop" => \E i \in 1 .. Len(queue[a]) : queue[a][i] = arg[a]

IInv == TypeOK /\ PhaseInv /\ SubscrInv /\ FreeInv /\ CountInv /\ CallInv /\ AssertionsHold

----------------------------------------------------------------------------
(* How steps change the number of references.                              *)

(* The contexts.                                                           *)
LEMMA Contexts ==
  /\ IsFiniteSet(AO) /\ IsFiniteSet(Ctx) /\ AO \in SUBSET Ctx /\ ISR \in Ctx /\ ISR \notin AO
  /\ \A c \in Ctx : c \in AO \/ c = ISR
<1>1. IsFiniteSet(AO)
  BY EventAssumption, FS_Interval DEF AO
<1>2. IsFiniteSet(Ctx)
  BY <1>1, FS_AddElement DEF Ctx
<1> QED BY <1>1, <1>2 DEF Ctx, AO, ISR

(* The references are counted where they are held.                         *)
LEMMA ReferencesAre ==
  ASSUME NEW b
  PROVE  /\ References(b) =
              HeldBy(ev, b) + HeldBy(arg, b) + InQueues(queue, b) + InQueues(deferred, b)
         /\ References(b)' =
              HeldBy(ev', b) + HeldBy(arg', b) + InQueues(queue', b) + InQueues(deferred', b)
BY DEF References, HeldBy, InQueues
(* The counts.                                                             *)
LEMMA Counts ==
  ASSUME TypeOK, NEW b
  PROVE  /\ HeldBy(ev, b) \in Nat /\ HeldBy(arg, b) \in Nat
         /\ InQueues(queue, b) \in Nat /\ InQueues(deferred, b) \in Nat
         /\ References(b) \in Nat
<1>1. DOMAIN ev = AO /\ DOMAIN arg = Ctx
  BY DEF TypeOK
<1>2. HeldBy(ev, b) \in Nat /\ HeldBy(arg, b) \in Nat
  BY <1>1, Contexts, HeldAtLeast
<1>3. queue \in Queues(AO, Block) /\ deferred \in Queues(AO, Block)
  BY DEF TypeOK, Queues
<1>4. InQueues(queue, b) \in Nat /\ InQueues(deferred, b) \in Nat
  BY <1>3, Contexts, PlacesFinite
<1> QED BY <1>2, <1>4, ReferencesAre

(* A step begins or ends, or a call takes or forgets an event.             *)
LEMMA HeldSteps ==
  ASSUME TypeOK, NEW b
  PROVE  /\ \A a \in AO : \A v : ev' = [ev EXCEPT ![a] = v] =>
              HeldBy(ev', b) = HeldBy(ev, b) - One(ev[a], b) + One(v, b)
         /\ \A c \in Ctx : \A v : arg' = [arg EXCEPT ![c] = v] =>
              HeldBy(arg', b) = HeldBy(arg, b) - One(arg[c], b) + One(v, b)
<1>1. On(AO, ev) /\ On(Ctx, arg)
  BY DEF TypeOK, On
<1>2. ASSUME NEW a \in AO, NEW v, ev' = [ev EXCEPT ![a] = v]
      PROVE  HeldBy(ev', b) = HeldBy(ev, b) - One(ev[a], b) + One(v, b)
  <2>1. On(AO, ev') /\ DifferAt(AO, ev, ev', a) /\ ev'[a] = v
    BY <1>2 DEF TypeOK, On, DifferAt
  <2> QED BY <1>1, <2>1, Contexts, HeldByChange
<1>3. ASSUME NEW c \in Ctx, NEW v, arg' = [arg EXCEPT ![c] = v]
      PROVE  HeldBy(arg', b) = HeldBy(arg, b) - One(arg[c], b) + One(v, b)
  <2>1. On(Ctx, arg') /\ DifferAt(Ctx, arg, arg', c) /\ arg'[c] = v
    BY <1>3 DEF TypeOK, On, DifferAt
  <2> QED BY <1>1, <2>1, Contexts, HeldByChange
<1> QED BY <1>2, <1>3

(* An event is posted or got.                                              *)
LEMMA QueueChanges ==
  ASSUME TypeOK, NEW b, NEW a \in AO
  PROVE  /\ \A e \in Block : queue' = [queue EXCEPT ![a] = Append(queue[a], e)] =>
              queue' \in Queues(AO, Block) /\ InQueues(queue', b) = InQueues(queue, b) + One(e, b)
         /\ \A e \in Block : queue' = [queue EXCEPT ![a] = <<e>> \o queue[a]] =>
              queue' \in Queues(AO, Block) /\ InQueues(queue', b) = InQueues(queue, b) + One(e, b)
         /\ queue[a] # << >> /\ queue' = [queue EXCEPT ![a] = Tail(queue[a])] =>
              queue' \in Queues(AO, Block) /\ InQueues(queue', b) = InQueues(queue, b) - One(Head(queue[a]), b)
<1>1. queue \in Queues(AO, Block) /\ IsFiniteSet(AO) /\ queue[a] \in Seq(Block)
  BY Contexts DEF TypeOK, Queues
<1>2. ASSUME NEW s \in Seq(Block), queue' = [queue EXCEPT ![a] = s]
      PROVE  queue' \in Queues(AO, Block) /\ DifferAt(AO, queue, queue', a) /\ queue'[a] = s
  BY <1>1, <1>2 DEF Queues, DifferAt
<1>3. \A e \in Block : Append(queue[a], e) \in Seq(Block) /\ <<e>> \o queue[a] \in Seq(Block)
  BY <1>1, SpotsCons
<1>4. queue[a] # << >> => Tail(queue[a]) \in Seq(Block)
  BY <1>1
<1>5. ASSUME NEW e \in Block, queue' = [queue EXCEPT ![a] = Append(queue[a], e)]
      PROVE  queue' \in Queues(AO, Block) /\ InQueues(queue', b) = InQueues(queue, b) + One(e, b)
  <2>1. queue' \in Queues(AO, Block) /\ DifferAt(AO, queue, queue', a) /\ Becomes(queue', a, Append(queue[a], e))
    BY <1>2, <1>3, <1>5 DEF Becomes
  <2> QED BY <1>1, <2>1, QueueAppend
<1>6. ASSUME NEW e \in Block, queue' = [queue EXCEPT ![a] = <<e>> \o queue[a]]
      PROVE  queue' \in Queues(AO, Block) /\ InQueues(queue', b) = InQueues(queue, b) + One(e, b)
  <2>1. queue' \in Queues(AO, Block) /\ DifferAt(AO, queue, queue', a) /\ Becomes(queue', a, <<e>> \o queue[a])
    BY <1>2, <1>3, <1>6 DEF Becomes
  <2> QED BY <1>1, <2>1, QueueCons
<1>7. ASSUME queue[a] # << >>, queue' = [queue EXCEPT ![a] = Tail(queue[a])]
      PROVE  queue' \in Queues(AO, Block) /\ InQueues(queue', b) = InQueues(queue, b) - One(Head(queue[a]), b)
  <2>1. queue' \in Queues(AO, Block) /\ DifferAt(AO, queue, queue', a) /\ Becomes(queue', a, Tail(queue[a])) /\ NotEmpty(queue, a)
    BY <1>2, <1>4, <1>7 DEF Becomes, NotEmpty
  <2> QED BY <1>1, <2>1, QueueTail
<1> QED BY <1>5, <1>6, <1>7

(* An event is deferred or recalled.                                       *)
LEMMA DeferredChanges ==
  ASSUME TypeOK, NEW b, NEW a \in AO
  PROVE  /\ \A e \in Block : deferred' = [deferred EXCEPT ![a] = Append(deferred[a], e)] =>
              deferred' \in Queues(AO, Block) /\ InQueues(deferred', b) = InQueues(deferred, b) + One(e, b)
         /\ deferred[a] # << >> /\ deferred' = [deferred EXCEPT ![a] = Tail(deferred[a])] =>
              deferred' \in Queues(AO, Block) /\ InQueues(deferred', b) = InQueues(deferred, b) - One(Head(deferred[a]), b)
<1>1. deferred \in Queues(AO, Block) /\ IsFiniteSet(AO) /\ deferred[a] \in Seq(Block)
  BY Contexts DEF TypeOK, Queues
<1>2. ASSUME NEW s \in Seq(Block), deferred' = [deferred EXCEPT ![a] = s]
      PROVE  deferred' \in Queues(AO, Block) /\ DifferAt(AO, deferred, deferred', a) /\ deferred'[a] = s
  BY <1>1, <1>2 DEF Queues, DifferAt
<1>3. ASSUME NEW e \in Block, deferred' = [deferred EXCEPT ![a] = Append(deferred[a], e)]
      PROVE  deferred' \in Queues(AO, Block) /\ InQueues(deferred', b) = InQueues(deferred, b) + One(e, b)
  <2>1. /\ deferred' \in Queues(AO, Block) /\ DifferAt(AO, deferred, deferred', a)
        /\ Becomes(deferred', a, Append(deferred[a], e))
    <3>1. Append(deferred[a], e) \in Seq(Block)
      BY <1>1
    <3> QED BY <1>2, <1>3, <3>1 DEF Becomes
  <2> QED BY <1>1, <2>1, QueueAppend
<1>4. ASSUME deferred[a] # << >>, deferred' = [deferred EXCEPT ![a] = Tail(deferred[a])]
      PROVE  deferred' \in Queues(AO, Block) /\ InQueues(deferred', b) = InQueues(deferred, b) - One(Head(deferred[a]), b)
  <2>1. /\ deferred' \in Queues(AO, Block) /\ DifferAt(AO, deferred, deferred', a) /\ Becomes(deferred', a, Tail(deferred[a]))
        /\ NotEmpty(deferred, a)
    <3>1. Tail(deferred[a]) \in Seq(Block)
      BY <1>1, <1>4
    <3> QED BY <1>2, <1>4, <3>1 DEF Becomes, NotEmpty
  <2> QED BY <1>1, <2>1, QueueTail
<1> QED BY <1>3, <1>4

(* What is held is counted.                                                *)
LEMMA Held ==
  ASSUME TypeOK
  PROVE  /\ \A a \in AO : References(ev[a]) >= 1
         /\ \A c \in Ctx : References(arg[c]) >= 1
         /\ \A a \in AO, c \in Ctx : ev[a] = arg[c] => References(arg[c]) >= 2
         /\ \A c, d \in Ctx : c # d /\ arg[c] = arg[d] => References(arg[c]) >= 2
         /\ \A a \in AO, i \in Nat : i \in 1 .. Len(queue[a]) => References(queue[a][i]) >= 1
         /\ \A a \in AO, c \in Ctx, i \in Nat :
              i \in 1 .. Len(queue[a]) /\ queue[a][i] = arg[c] => References(arg[c]) >= 2
         /\ \A a \in AO, i \in Nat : i \in 1 .. Len(deferred[a]) => References(deferred[a][i]) >= 1
<1>1. DOMAIN ev = AO /\ DOMAIN arg = Ctx /\ IsFiniteSet(AO) /\ IsFiniteSet(Ctx)
  BY Contexts DEF TypeOK
<1>2. queue \in Queues(AO, Block) /\ deferred \in Queues(AO, Block)
  BY DEF TypeOK, Queues
<1>3. \A a \in AO : HeldBy(ev, ev[a]) >= 1
  BY <1>1, HeldAtLeast
<1>4. \A c \in Ctx : HeldBy(arg, arg[c]) >= 1
  BY <1>1, HeldAtLeast
<1>5. \A c, d \in Ctx : c # d /\ arg[c] = arg[d] => HeldBy(arg, arg[c]) >= 2
  BY <1>1, HeldAtLeast
<1>6. \A a \in AO, i \in Nat : i \in 1 .. Len(queue[a]) => InQueues(queue, queue[a][i]) >= 1
  BY <1>1, <1>2, QueuedAtLeast
<1>7. \A a \in AO, i \in Nat : i \in 1 .. Len(deferred[a]) => InQueues(deferred, deferred[a][i]) >= 1
  BY <1>1, <1>2, QueuedAtLeast
<1>8. \A b : /\ References(b) = HeldBy(ev, b) + HeldBy(arg, b) + InQueues(queue, b) + InQueues(deferred, b)
             /\ HeldBy(ev, b) \in Nat /\ HeldBy(arg, b) \in Nat
             /\ InQueues(queue, b) \in Nat /\ InQueues(deferred, b) \in Nat
  BY Counts, ReferencesAre
<1>9. /\ \A a \in AO : References(ev[a]) >= 1
      /\ \A c \in Ctx : References(arg[c]) >= 1
      /\ \A c, d \in Ctx : c # d /\ arg[c] = arg[d] => References(arg[c]) >= 2
  BY <1>3, <1>4, <1>5, <1>8
<1>10. \A a \in AO, c \in Ctx : ev[a] = arg[c] => References(arg[c]) >= 2
  BY <1>3, <1>4, <1>8
<1>11. \A a \in AO, i \in Nat : i \in 1 .. Len(queue[a]) => References(queue[a][i]) >= 1
  BY <1>6, <1>8
<1>12. \A a \in AO, c \in Ctx, i \in Nat :
         i \in 1 .. Len(queue[a]) /\ queue[a][i] = arg[c] => References(arg[c]) >= 2
  BY <1>4, <1>6, <1>8
<1>13. \A a \in AO, i \in Nat : i \in 1 .. Len(deferred[a]) => References(deferred[a][i]) >= 1
  BY <1>7, <1>8
<1> QED BY <1>9, <1>10, <1>11, <1>12, <1>13

(* A block that is being freed is nowhere else.                            *)
LEMMA LastReference ==
  ASSUME IInv, NEW c \in Ctx, pc[c] = "put"
  PROVE  /\ arg[c] \in Block /\ refCtr[arg[c]] = 1 /\ References(arg[c]) = 1
         /\ ~Free(arg[c]) /\ ~Owned(arg[c])
         /\ \A a \in AO : ev[a] # arg[c]
         /\ \A d \in Ctx : arg[d] = arg[c] => d = c
<1>1. arg[c] \in Block /\ refCtr[arg[c]] = 1
  BY DEF IInv, TypeOK, PhaseInv, ArgUsed, CallInv
<1>2. References(arg[c]) >= 1 /\ References(arg[c]) \in Nat
  BY <1>1, Held, Counts DEF IInv
<1>3. ~Free(arg[c]) /\ ~Owned(arg[c]) /\ References(arg[c]) = 1
  BY <1>1, <1>2 DEF IInv, CountInv, Counted
<1>4. TypeOK
  BY DEF IInv
<1> QED BY <1>1, <1>3, <1>4, Held

(* Events that are handled, published, recalled or collected are not free. *)
LEMMA InUse ==
  ASSUME IInv, NEW b \in Block, (\E a \in AO : ev[a] = b) \/ (\E c \in Ctx : arg[c] = b)
  PROVE  ~Free(b) /\ ~Owned(b) /\ refCtr[b] = References(b) /\ References(b) >= 1
<1>1. References(b) >= 1 /\ References(b) \in Nat
  BY Held, Counts DEF IInv
<1> QED BY <1>1 DEF IInv, CountInv, Counted

(* An event that a context owns has no references yet.                     *)
LEMMA Own ==
  ASSUME IInv, NEW c \in Ctx, new[c] # NULL
  PROVE  /\ new[c] \in Block /\ Owned(new[c]) /\ ~Free(new[c])
         /\ References(new[c]) = 0 /\ refCtr[new[c]] = 0
         /\ \A d \in Ctx : d # c => new[d] # new[c]
         /\ \A d \in Ctx : arg[d] # new[c]
         /\ \A a \in AO : ev[a] # new[c]
<1>1. new[c] \in Block
  BY DEF IInv, TypeOK
<1>2. Owned(new[c])
  BY DEF Owned
<1>3. References(new[c]) = 0 /\ refCtr[new[c]] = 0 /\ ~Free(new[c])
  BY <1>1, <1>2 DEF IInv, CountInv, Counted, FreeInv
<1>4. \A d \in Ctx : d # c => new[d] # new[c]
  BY DEF IInv, FreeInv
<1> QED BY <1>1, <1>2, <1>3, <1>4, InUse

----------------------------------------------------------------------------
(* The steps.                                                              *)

(* Who may raise the counter of e: its owner, or one who has a reference.  *)
Sendable(e) ==
  \/ \E c \in Ctx : new[c] = e
  \/ \E a \in AO : ev[a] = e
  \/ \E c \in Ctx : arg[c] = e /\ pc[c] # "put"

(* The event is not on its way to the pool.                                *)
LEMMA SendableEvent ==
  ASSUME IInv, NEW e \in Block, Sendable(e)
  PROVE  /\ ~Free(e) /\ refCtr[e] = References(e) /\ refCtr[e] \in Nat
         /\ \A c \in Ctx : pc[c] = "put" => arg[c] # e
<1>1. e # NULL
  BY EventAssumption
<1>2. CASE \E c \in Ctx : new[c] = e
  <2>1. PICK c \in Ctx : new[c] = e
    BY <1>2
  <2> QED BY <1>1, <2>1, Own
<1>3. CASE (\E a \in AO : ev[a] = e) \/ (\E c \in Ctx : arg[c] = e /\ pc[c] # "put")
  <2>1. ~Free(e) /\ refCtr[e] = References(e) /\ References(e) \in Nat
    BY <1>3, InUse, Counts DEF IInv
  <2>2. \A c \in Ctx : pc[c] = "put" => arg[c] # e
    BY <1>3, LastReference
  <2> QED BY <2>1, <2>2
<1> QED BY <1>2, <1>3 DEF Sendable

(* The counter of e and the number of its references are raised.           *)
LEMMA Raise ==
  ASSUME IInv, NEW e \in Block, Sendable(e),
         refCtr' = [refCtr EXCEPT ![e] = refCtr[e] + 1],
         \A b \in Block : References(b)' = References(b) + One(e, b),
         freeList' = freeList,
         \A b \in Block : b # e => (Owned(b)' <=> Owned(b)),
         ~Owned(e)'
  PROVE  CountInv'
<1>1. ~Free(e) /\ refCtr[e] = References(e) /\ refCtr[e] \in Nat
  BY SendableEvent
<1>2. \A b \in Block : refCtr'[b] = IF b = e THEN refCtr[e] + 1 ELSE refCtr[b]
  BY DEF IInv, TypeOK
<1>3. \A b \in Block : Free(b)' <=> Free(b)
  BY DEF Free
<1>4. \A b \in Block : Counted(b) /\ References(b) \in Nat
  BY Counts DEF IInv, CountInv
<1>5. Counted(e)'
  <2>1. References(e)' = References(e) + 1
    BY DEF One
  <2> QED BY <1>1, <1>2, <1>3, <2>1 DEF Counted
<1>6. ASSUME NEW b \in Block, b # e
      PROVE  Counted(b)'
  <2>1. References(b)' = References(b)
    BY <1>4, <1>6 DEF One
  <2> QED BY <1>2, <1>3, <1>4, <1>6, <2>1 DEF Counted
<1> QED BY <1>5, <1>6 DEF CountInv

(* Neither a counter nor the number of references changes.                 *)
LEMMA Same ==
  ASSUME IInv, refCtr' = refCtr, freeList' = freeList, new' = new,
         \A b \in Block : References(b)' = References(b)
  PROVE  CountInv'
<1>1. \A b \in Block : (Free(b)' <=> Free(b)) /\ (Owned(b)' <=> Owned(b))
  BY DEF Free, Owned
<1> QED BY <1>1 DEF IInv, CountInv, Counted

(* The pool and the owners stay as they are.                               *)
LEMMA PoolSame ==
  ASSUME IInv, UNCHANGED <<poolVars, new>>
  PROVE  FreeInv'
BY DEF poolVars, IInv, FreeInv, Free, Owned

(* One context does not own a block any more.                              *)
LEMMA Disowned ==
  ASSUME IInv, NEW c \in Ctx, new[c] # NULL, new' = [new EXCEPT ![c] = NULL], UNCHANGED poolVars
  PROVE  /\ FreeInv'
         /\ \A b \in Block : b # new[c] => (Owned(b)' <=> Owned(b))
         /\ \A b \in Block : b = new[c] => ~Owned(b)'
         /\ new' \in [Ctx -> Block \cup {NULL}]
<1>1. new[c] \in Block /\ \A d \in Ctx : d # c => new[d] # new[c]
  BY Own
<1>2. /\ \A d \in Ctx : new'[d] = IF d = c THEN NULL ELSE new[d]
      /\ new' \in [Ctx -> Block \cup {NULL}]
  BY DEF IInv, TypeOK
<1>3. \A b \in Block : b # new[c] => (Owned(b)' <=> Owned(b))
  BY <1>2, EventAssumption DEF Owned
<1>4. \A b \in Block : b = new[c] => ~Owned(b)'
  BY <1>1, <1>2, EventAssumption DEF Owned
<1>5. freeList' = freeList /\ nFree' = nFree /\ nMin' = nMin
  BY DEF poolVars
<1>6. \A d, x \in Ctx : new'[d] = new'[x] /\ new'[d] # NULL => d = x
  BY <1>2 DEF IInv, FreeInv
<1>7. \A b \in Block : ~(Free(b)' /\ Owned(b)')
  <2>1. \A b \in Block : Free(b)' <=> Free(b)
    BY <1>5 DEF Free
  <2> QED BY <1>3, <1>4, <2>1 DEF IInv, FreeInv
<1>8. FreeInv'
  BY <1>5, <1>6, <1>7 DEF IInv, FreeInv
<1> QED BY <1>2, <1>3, <1>4, <1>8

(* QActive_postFIFO of an event to q.                                      *)
LEMMA EnqueueSafe ==
  ASSUME IInv, NEW e \in Block, Sendable(e), NEW q \in AO, Enqueue(e, q),
         UNCHANGED <<poolVars, deferred, pc, ev, arg>>,
         \A b \in Block : b # e => (Owned(b)' <=> Owned(b)),
         ~Owned(e)'
  PROVE  CountInv' /\ CallInv' /\ PhaseInv' /\ refCtr' \in [Block -> Nat] /\ queue' \in [AO -> Seq(Block)]
<1>1. /\ refCtr' = [refCtr EXCEPT ![e] = refCtr[e] + 1]
      /\ queue' = [queue EXCEPT ![q] = Append(queue[q], e)]
      /\ deferred' = deferred /\ ev' = ev /\ arg' = arg /\ pc' = pc /\ freeList' = freeList
  BY DEF Enqueue, poolVars
<1>2. \A b \in Block : References(b)' = References(b) + One(e, b)
  <2> TAKE b \in Block
  <2>1. InQueues(queue', b) = InQueues(queue, b) + One(e, b)
    BY <1>1, QueueChanges DEF IInv
  <2>2. HeldBy(ev', b) = HeldBy(ev, b) /\ HeldBy(arg', b) = HeldBy(arg, b) /\ InQueues(deferred', b) = InQueues(deferred, b)
    BY <1>1
  <2> QED BY <2>1, <2>2, ReferencesAre, Counts DEF IInv, One
<1>3. CountInv'
  BY <1>1, <1>2, Raise
<1>4. refCtr' \in [Block -> Nat] /\ queue' \in [AO -> Seq(Block)]
  BY <1>1 DEF IInv, TypeOK
<1>5. CallInv'
  <2>1. ASSUME NEW c \in Ctx, pc'[c] = "put"
        PROVE  refCtr'[arg'[c]] = 1
    BY <1>1, <2>1, SendableEvent, LastReference DEF IInv, TypeOK
  <2>2. ASSUME NEW a \in AO, pc'[a] = "recallDrop"
        PROVE  \E i \in 1 .. Len(queue'[a]) : queue'[a][i] = arg'[a]
    <3>1. PICK i \in 1 .. Len(queue[a]) : queue[a][i] = arg[a]
      BY <1>1, <2>2 DEF IInv, CallInv
    <3>2. i \in 1 .. Len(queue'[a]) /\ queue'[a][i] = queue[a][i]
      BY <1>1 DEF IInv, TypeOK
    <3> QED BY <1>1, <3>1, <3>2
  <2> QED BY <2>1, <2>2 DEF CallInv
<1>6. PhaseInv'
  BY <1>1 DEF IInv, PhaseInv
<1> QED BY <1>3, <1>4, <1>5, <1>6

(* Subscriptions and the calls of QF_publish stay as they are.             *)
LEMMA ListsSame ==
  ASSUME IInv, UNCHANGED <<listVars, pc>>
  PROVE  SubscrInv'
BY DEF listVars, IInv, SubscrInv

(* A new event is posted.                                                  *)
LEMMA PostSafe ==
  ASSUME IInv, NEW c \in Ctx, NEW q \in AO, Post(c, q)
  PROVE  IInv'
<1>1. /\ new[c] # NULL /\ Enqueue(new[c], q) /\ new' = [new EXCEPT ![c] = NULL]
      /\ UNCHANGED <<poolVars, deferred, pc, ev, arg, listVars, status>>
  BY DEF Post
<1>2. PICK e \in Block : e = new[c]
  BY <1>1, Own
<1> Sendable(e) /\ Enqueue(e, q)
  BY <1>1, <1>2 DEF Sendable
<1>3. /\ FreeInv' /\ new' \in [Ctx -> Block \cup {NULL}]
      /\ \A b \in Block : b # e => (Owned(b)' <=> Owned(b))
      /\ ~Owned(e)'
  BY <1>1, <1>2, Disowned
<1>4. CountInv' /\ CallInv' /\ PhaseInv' /\ refCtr' \in [Block -> Nat] /\ queue' \in [AO -> Seq(Block)]
  BY <1>1, <1>2, <1>3, EnqueueSafe
<1>5. TypeOK'
  BY <1>1, <1>3, <1>4 DEF poolVars, listVars, IInv, TypeOK
<1>6. SubscrInv' /\ AssertionsHold'
  BY <1>1, ListsSame DEF IInv, AssertionsHold
<1> QED BY <1>3, <1>4, <1>5, <1>6 DEF IInv

(* The event that a handles is posted on.                                  *)
LEMMA PostOnSafe ==
  ASSUME IInv, NEW a \in AO, NEW q \in AO, PostOn(a, q)
  PROVE  IInv'
<1>1. pc[a] = "run" /\ Enqueue(ev[a], q) /\ UNCHANGED <<poolVars, deferred, ctxVars, listVars, status>>
  BY DEF PostOn, At
<1>2. PICK e \in Block : e = ev[a]
  BY <1>1 DEF IInv, TypeOK, PhaseInv
<1> Sendable(e) /\ Enqueue(e, q)
  BY <1>1, <1>2 DEF Sendable
<1>3. /\ FreeInv' /\ new' = new
      /\ \A b \in Block : Owned(b)' <=> Owned(b)
      /\ ~Owned(e)'
  BY <1>1, <1>2, PoolSame, InUse DEF ctxVars, Owned
<1>4. CountInv' /\ CallInv' /\ PhaseInv' /\ refCtr' \in [Block -> Nat] /\ queue' \in [AO -> Seq(Block)]
  BY <1>1, <1>2, <1>3, EnqueueSafe DEF ctxVars
<1>5. TypeOK'
  BY <1>1, <1>4 DEF poolVars, listVars, ctxVars, IInv, TypeOK
<1>6. SubscrInv' /\ AssertionsHold'
  BY <1>1, ListsSame DEF ctxVars, IInv, AssertionsHold
<1> QED BY <1>3, <1>4, <1>5, <1>6 DEF IInv

(* QF_publish posts the event to a subscriber.                             *)
LEMMA PublishPostSafe ==
  ASSUME IInv, NEW c \in Ctx, PublishPost(c)
  PROVE  IInv'
<1>1. /\ pc[c] = "publish" /\ todo[c] # {}
      /\ Enqueue(arg[c], Log2(todo[c]) + WIDTH * byte[c])
      /\ todo' = [todo EXCEPT ![c] = todo[c] \ {Log2(todo[c])}]
      /\ UNCHANGED <<poolVars, deferred, ctxVars, subscr, byte, status>>
  BY DEF PublishPost, At
<1>2. Log2(todo[c]) + WIDTH * byte[c] \in AO
  <2>1. todo[c] \in SUBSET (1 .. WIDTH) /\ WIDTH \in Nat
    BY WidthAssumption DEF IInv, TypeOK
  <2>2. Log2(todo[c]) \in todo[c]
    BY <1>1, <2>1, Log2Max
  <2> QED BY <2>2 DEF IInv, SubscrInv
<1>3. PICK q \in AO : q = Log2(todo[c]) + WIDTH * byte[c]
  BY <1>2
<1>4. PICK e \in Block : e = arg[c]
  BY <1>1 DEF IInv, TypeOK, PhaseInv, ArgUsed
<1>5. Sendable(e) /\ Enqueue(e, q)
  BY <1>1, <1>3, <1>4 DEF Sendable
<1>6. /\ FreeInv' /\ new' = new
      /\ \A b \in Block : Owned(b)' <=> Owned(b)
      /\ ~Owned(e)'
  BY <1>1, <1>4, PoolSame, InUse DEF ctxVars, Owned
<1>7. CountInv' /\ CallInv' /\ PhaseInv' /\ refCtr' \in [Block -> Nat] /\ queue' \in [AO -> Seq(Block)]
  BY <1>1, <1>5, <1>6, EnqueueSafe DEF ctxVars
<1>8. /\ todo' \in [Ctx -> SUBSET (1 .. WIDTH)]
      /\ \A d \in Ctx : todo'[d] \in SUBSET todo[d]
  BY <1>1 DEF IInv, TypeOK
<1>9. TypeOK'
  BY <1>1, <1>7, <1>8 DEF poolVars, ctxVars, IInv, TypeOK
<1>10. SubscrInv'
  BY <1>1, <1>8 DEF ctxVars, IInv, SubscrInv
<1>11. AssertionsHold'
  BY <1>1 DEF IInv, AssertionsHold
<1> QED BY <1>6, <1>7, <1>9, <1>10, <1>11 DEF IInv

(* QF_publish protects the event that it publishes.                        *)
LEMMA PublishSafe ==
  ASSUME IInv, NEW c \in Ctx, NEW e \in Block, Publish(c, e), Sendable(e),
         FreeInv', new' \in [Ctx -> Block \cup {NULL}],
         \A b \in Block : b # e => (Owned(b)' <=> Owned(b)),
         ~Owned(e)'
  PROVE  IInv'
<1>1. /\ pc[c] = "run" /\ refCtr' = [refCtr EXCEPT ![e] = refCtr[e] + 1]
      /\ arg' = [arg EXCEPT ![c] = e]
      /\ byte' = [byte EXCEPT ![c] = Cardinality(Byte)]
      /\ pc' = [pc EXCEPT ![c] = "publish"]
      /\ UNCHANGED <<poolVars, queue, deferred, ev, subscr, todo, status>>
  BY DEF Publish, At, Protect, Goto
<1>2. arg[c] = NULL /\ todo[c] = {} /\ NULL \notin Block
  BY <1>1, EventAssumption DEF IInv, PhaseInv, SubscrInv, ArgUsed
<1>3. \A b \in Block : References(b)' = References(b) + One(e, b)
  <2> TAKE b \in Block
  <2>1. HeldBy(arg', b) = HeldBy(arg, b) - One(NULL, b) + One(e, b) /\ One(NULL, b) = 0
    BY <1>1, <1>2, HeldSteps DEF IInv, One
  <2>2. /\ HeldBy(ev', b) = HeldBy(ev, b) /\ InQueues(queue', b) = InQueues(queue, b)
        /\ InQueues(deferred', b) = InQueues(deferred, b)
    BY <1>1
  <2> QED BY <2>1, <2>2, ReferencesAre, Counts DEF IInv, One
<1>4. CountInv'
  BY <1>1, <1>3, Raise DEF poolVars
<1>5. TypeOK'
  <2>1. Cardinality(Byte) \in 0 .. Cardinality(Byte)
    BY Bytes
  <2> QED BY <1>1, <2>1 DEF poolVars, IInv, TypeOK
<1>6. PhaseInv'
  BY <1>1, <1>2 DEF IInv, TypeOK, PhaseInv, ArgUsed, Ctx, AO, ISR
<1>7. SubscrInv'
  BY <1>1, <1>2 DEF IInv, TypeOK, SubscrInv
<1>8. CallInv'
  <2>1. ASSUME NEW d \in Ctx, pc'[d] = "put"
        PROVE  refCtr'[arg'[d]] = 1
    BY <1>1, <2>1, SendableEvent, LastReference DEF IInv, TypeOK
  <2>2. \A a \in AO : pc'[a] = "recallDrop" => pc[a] = "recallDrop" /\ a # c /\ arg'[a] = arg[a] /\ a \in Ctx
    BY <1>1, Contexts DEF IInv, TypeOK
  <2> QED BY <1>1, <2>1, <2>2 DEF IInv, CallInv
<1>9. AssertionsHold'
  BY <1>1 DEF IInv, AssertionsHold
<1> QED BY <1>4, <1>5, <1>6, <1>7, <1>8, <1>9 DEF IInv

(* QF_publish of a new event.                                              *)
LEMMA PublishNewSafe ==
  ASSUME IInv, NEW c \in Ctx, PublishNew(c)
  PROVE  IInv'
<1>1. new[c] # NULL /\ Publish(c, new[c]) /\ new' = [new EXCEPT ![c] = NULL] /\ UNCHANGED poolVars
  BY DEF PublishNew, Publish
<1>2. PICK e \in Block : e = new[c]
  BY <1>1, Own
<1>3. Sendable(e) /\ Publish(c, e)
  BY <1>1, <1>2 DEF Sendable
<1>4. /\ FreeInv' /\ new' \in [Ctx -> Block \cup {NULL}]
      /\ \A b \in Block : b # e => (Owned(b)' <=> Owned(b))
      /\ ~Owned(e)'
  BY <1>1, <1>2, Disowned
<1> QED BY <1>3, <1>4, PublishSafe

(* QF_publish of the event that a handles.                                 *)
LEMMA PublishOnSafe ==
  ASSUME IInv, NEW a \in AO, PublishOn(a)
  PROVE  IInv'
<1>1. ev[a] # NULL /\ Publish(a, ev[a]) /\ new' = new /\ UNCHANGED poolVars /\ a \in Ctx
  BY Contexts DEF PublishOn, Publish
<1>2. PICK e \in Block : e = ev[a]
  BY <1>1 DEF IInv, TypeOK
<1>3. Sendable(e) /\ Publish(a, e)
  BY <1>1, <1>2 DEF Sendable
<1>4. /\ FreeInv' /\ new' \in [Ctx -> Block \cup {NULL}]
      /\ \A b \in Block : Owned(b)' <=> Owned(b)
      /\ ~Owned(e)'
  BY <1>1, <1>2, PoolSame, InUse DEF IInv, TypeOK, Owned
<1> QED BY <1>1, <1>3, <1>4, PublishSafe

(* Nothing changes but where QF_publish is in the subscription list, and   *)
(* the list itself.                                                        *)
LEMMA ListStepSafe ==
  ASSUME IInv, UNCHANGED <<poolVars, refCtr, queue, deferred, ctxVars, status>>,
         SubscrInv',
         subscr' \in [Byte -> SUBSET (1 .. WIDTH)],
         byte' \in [Ctx -> 0 .. Cardinality(Byte)], todo' \in [Ctx -> SUBSET (1 .. WIDTH)]
  PROVE  IInv'
<1>1. \A b \in Block : References(b)' = References(b)
  BY DEF ctxVars, References
<1>2. CountInv' /\ FreeInv'
  BY <1>1, Same, PoolSame DEF poolVars, ctxVars
<1>3. PhaseInv' /\ CallInv' /\ AssertionsHold' /\ TypeOK'
  BY DEF poolVars, ctxVars, IInv, PhaseInv, CallInv, AssertionsHold, TypeOK
<1> QED BY <1>2, <1>3 DEF IInv

(* QF_publish reads a byte of the list.                                    *)
LEMMA PublishReadSafe ==
  ASSUME IInv, NEW c \in Ctx, PublishRead(c)
  PROVE  IInv'
<1>1. /\ pc[c] = "publish" /\ byte[c] > 0
      /\ byte' = [byte EXCEPT ![c] = byte[c] - 1]
      /\ todo' = [todo EXCEPT ![c] = subscr[byte[c] - 1]]
      /\ UNCHANGED <<poolVars, refCtr, queue, deferred, ctxVars, subscr, status>>
  BY DEF PublishRead, At
<1>2. byte[c] - 1 \in Byte /\ byte[c] - 1 \in 0 .. Cardinality(Byte)
  BY <1>1, Bytes DEF IInv, TypeOK
<1>3. /\ subscr' \in [Byte -> SUBSET (1 .. WIDTH)]
      /\ byte' \in [Ctx -> 0 .. Cardinality(Byte)] /\ todo' \in [Ctx -> SUBSET (1 .. WIDTH)]
  BY <1>1, <1>2 DEF IInv, TypeOK
<1>4. SubscrInv'
  <2>1. \A d \in Ctx : \A n \in todo'[d] : n + WIDTH * byte'[d] \in AO
    <3> TAKE d \in Ctx
    <3>1. CASE d = c
      <4>1. todo'[d] = subscr[byte[c] - 1] /\ byte'[d] = byte[c] - 1
        BY <1>1, <3>1 DEF IInv, TypeOK
      <4> QED BY <1>2, <4>1 DEF IInv, SubscrInv
    <3>2. CASE d # c
      BY <1>1, <3>2 DEF IInv, TypeOK, SubscrInv
    <3> QED BY <3>1, <3>2
  <2>2. \A d \in Ctx : pc'[d] # "publish" => todo'[d] = {}
    BY <1>1 DEF ctxVars, IInv, TypeOK, SubscrInv
  <2> QED BY <1>1, <2>1, <2>2 DEF IInv, SubscrInv
<1> QED BY <1>1, <1>3, <1>4, ListStepSafe

(* An active object subscribes or unsubscribes.                            *)
LEMMA SubscribeSafe ==
  ASSUME IInv, NEW a \in AO, Subscribe(a) \/ Unsubscribe(a)
  PROVE  IInv'
<1>1. /\ \/ subscr' = [subscr EXCEPT ![Div8(a)] = subscr[Div8(a)] \cup {Pwr2(a)}]
         \/ subscr' = [subscr EXCEPT ![Div8(a)] = subscr[Div8(a)] \ {Pwr2(a)}]
      /\ UNCHANGED <<poolVars, refCtr, queue, deferred, ctxVars, byte, todo, status>>
  BY DEF Subscribe, Unsubscribe
<1>2. Div8(a) \in Byte /\ Pwr2(a) \in 1 .. WIDTH /\ Pwr2(a) + WIDTH * Div8(a) \in AO
  BY Digits
<1> DEFINE d == Div8(a)
           p == Pwr2(a)
<1>3. d \in Byte /\ p \in 1 .. WIDTH /\ p + WIDTH * d \in AO
  BY <1>2
<1>4. /\ \/ subscr' = [subscr EXCEPT ![d] = subscr[d] \cup {p}]
         \/ subscr' = [subscr EXCEPT ![d] = subscr[d] \ {p}]
  BY <1>1
<1> HIDE DEF d, p
<1>5. /\ subscr' \in [Byte -> SUBSET (1 .. WIDTH)]
      /\ \A i \in Byte : \A n \in subscr'[i] : n \in subscr[i] \/ (i = d /\ n = p)
  BY <1>3, <1>4 DEF IInv, TypeOK
<1>6. SubscrInv'
  BY <1>1, <1>3, <1>5 DEF ctxVars, IInv, SubscrInv
<1>7. byte' \in [Ctx -> 0 .. Cardinality(Byte)] /\ todo' \in [Ctx -> SUBSET (1 .. WIDTH)]
  BY <1>1 DEF IInv, TypeOK
<1> QED BY <1>1, <1>5, <1>6, <1>7, ListStepSafe

(* QF_publish has posted to all subscribers.                               *)
LEMMA PublishEndSafe ==
  ASSUME IInv, NEW c \in Ctx, PublishEnd(c)
  PROVE  IInv'
<1>1. /\ pc[c] = "publish" /\ todo[c] = {} /\ pc' = [pc EXCEPT ![c] = "gc"]
      /\ UNCHANGED <<poolVars, refCtr, queue, deferred, ev, new, arg, listVars, status>>
  BY DEF PublishEnd, At, Goto
<1>2. \A b \in Block : References(b)' = References(b)
  BY <1>1 DEF References
<1>3. CountInv' /\ FreeInv'
  BY <1>1, <1>2, Same, PoolSame DEF poolVars
<1>4. TypeOK' /\ AssertionsHold'
  BY <1>1 DEF poolVars, listVars, IInv, TypeOK, AssertionsHold
<1>5. \A d \in Ctx : pc'[d] = IF d = c THEN "gc" ELSE pc[d]
  BY <1>1 DEF IInv, TypeOK
<1>6. PhaseInv'
  BY <1>1, <1>5, Contexts DEF IInv, PhaseInv, ArgUsed
<1>7. SubscrInv'
  BY <1>1, <1>5 DEF listVars, IInv, SubscrInv
<1>8. CallInv'
  BY <1>1, <1>5, Contexts DEF IInv, CallInv
<1> QED BY <1>3, <1>4, <1>6, <1>7, <1>8 DEF IInv

(* The call of c ends and its event is forgotten.                          *)
LEMMA CallEnds ==
  ASSUME IInv, NEW c \in Ctx, pc[c] \in {"gc", "put"}, Resume(c), Forget(c),
         UNCHANGED <<ev, listVars>>
  PROVE  /\ PhaseInv' /\ SubscrInv'
         /\ pc' \in [Ctx -> {"idle", "run", "publish", "gc", "put", "recallPost", "recallDrop"}]
         /\ arg' \in [Ctx -> Block \cup {NULL}]
         /\ \A d \in Ctx : d # c => pc'[d] = pc[d] /\ arg'[d] = arg[d]
         /\ pc'[c] \in {"idle", "run"} /\ arg'[c] = NULL
<1>1. /\ pc' = [pc EXCEPT ![c] = IF c # ISR /\ ev[c] = NULL THEN "idle" ELSE "run"]
      /\ arg' = [arg EXCEPT ![c] = NULL]
  BY DEF Resume, Forget, Goto
<1>2. /\ pc' \in [Ctx -> {"idle", "run", "publish", "gc", "put", "recallPost", "recallDrop"}]
      /\ arg' \in [Ctx -> Block \cup {NULL}]
      /\ \A d \in Ctx : d # c => pc'[d] = pc[d] /\ arg'[d] = arg[d]
      /\ pc'[c] = IF c # ISR /\ ev[c] = NULL THEN "idle" ELSE "run"
      /\ arg'[c] = NULL
  BY <1>1 DEF IInv, TypeOK
<1>3. PhaseInv'
  BY <1>2, Contexts DEF IInv, PhaseInv, ArgUsed
<1>4. SubscrInv'
  BY <1>2 DEF listVars, IInv, SubscrInv
<1> QED BY <1>2, <1>3, <1>4

(* QF_gc drops a reference, or finds that it is the last one.              *)
LEMMA GcSafe ==
  ASSUME IInv, NEW c \in Ctx, Gc(c)
  PROVE  IInv'
<1>1. pc[c] = "gc" /\ UNCHANGED <<poolVars, queue, deferred, ev, new, listVars, status>>
  BY DEF Gc, At
<1>2. PICK e \in Block : e = arg[c]
  BY <1>1 DEF IInv, TypeOK, PhaseInv, ArgUsed
<1>3. ~Free(e) /\ ~Owned(e) /\ refCtr[e] = References(e) /\ References(e) >= 1 /\ References(e) \in Nat
  BY <1>2, InUse, Counts DEF IInv
<1>4. FreeInv' /\ \A b \in Block : (Free(b)' <=> Free(b)) /\ (Owned(b)' <=> Owned(b))
  BY <1>1, PoolSame DEF poolVars, Free, Owned
<1>5. CASE ~IsLast(e) /\ refCtr' = [refCtr EXCEPT ![e] = refCtr[e] - 1] /\ Resume(c) /\ Forget(c)
  <2>1. refCtr[e] > 1
    BY <1>3, <1>5 DEF IsLast
  <2>2. /\ PhaseInv' /\ SubscrInv'
        /\ pc' \in [Ctx -> {"idle", "run", "publish", "gc", "put", "recallPost", "recallDrop"}]
        /\ arg' \in [Ctx -> Block \cup {NULL}]
        /\ \A d \in Ctx : d # c => pc'[d] = pc[d] /\ arg'[d] = arg[d]
        /\ pc'[c] \in {"idle", "run"} /\ arg'[c] = NULL
    BY <1>1, <1>5, CallEnds
  <2>3. /\ refCtr' \in [Block -> Nat]
        /\ \A b \in Block : refCtr'[b] = IF b = e THEN refCtr[e] - 1 ELSE refCtr[b]
    BY <1>3, <1>5, <2>1 DEF IInv, TypeOK
  <2>4. \A b \in Block : References(b)' = References(b) - One(e, b)
    <3> TAKE b \in Block
    <3>1. HeldBy(arg', b) = HeldBy(arg, b) - One(e, b) + One(NULL, b) /\ One(NULL, b) = 0
      <4>1. TypeOK /\ arg' = [arg EXCEPT ![c] = NULL]
        BY <1>5 DEF IInv, Forget
      <4>2. HeldBy(arg', b) = HeldBy(arg, b) - One(arg[c], b) + One(NULL, b)
        BY <4>1, HeldSteps
      <4>3. One(NULL, b) = 0
        BY EventAssumption DEF One
      <4> QED BY <1>2, <4>2, <4>3
    <3>2. /\ HeldBy(ev', b) = HeldBy(ev, b) /\ InQueues(queue', b) = InQueues(queue, b)
          /\ InQueues(deferred', b) = InQueues(deferred, b)
      BY <1>1
    <3> QED BY <3>1, <3>2, ReferencesAre, Counts DEF IInv, One
  <2>5. CountInv'
    <3>1. Counted(e)'
      <4>1. References(e)' = References(e) - 1
        BY <2>4 DEF One
      <4> QED BY <1>3, <1>4, <2>1, <2>3, <4>1 DEF Counted
    <3>2. ASSUME NEW b \in Block, b # e
          PROVE  Counted(b)'
      <4>1. References(b)' = References(b) /\ Counted(b)
        BY <2>4, <3>2, Counts DEF One, IInv, CountInv
      <4> QED BY <1>4, <2>3, <3>2, <4>1 DEF Counted
    <3> QED BY <3>1, <3>2 DEF CountInv
  <2>6. TypeOK' /\ AssertionsHold'
    BY <1>1, <2>2, <2>3 DEF poolVars, listVars, IInv, TypeOK, AssertionsHold
  <2>7. CallInv'
    <3>1. ASSUME NEW d \in Ctx, pc'[d] = "put"
          PROVE  refCtr'[arg'[d]] = 1
      <4>1. d # c /\ pc[d] = "put" /\ arg'[d] = arg[d]
        BY <2>2, <3>1
      <4>2. arg[d] \in Block /\ arg[d] # e /\ refCtr[arg[d]] = 1
        BY <1>2, <4>1, LastReference
      <4> QED BY <2>3, <4>1, <4>2
    <3>2. \A a \in AO : pc'[a] = "recallDrop" => pc[a] = "recallDrop" /\ arg'[a] = arg[a]
      BY <2>2, Contexts
    <3> QED BY <1>1, <3>1, <3>2 DEF IInv, CallInv
  <2> QED BY <1>4, <2>2, <2>5, <2>6, <2>7 DEF IInv
<1>6. CASE IsLast(e) /\ pc' = [pc EXCEPT ![c] = "put"] /\ UNCHANGED <<refCtr, arg>>
  <2>1. refCtr[e] = 1
    BY <1>3, <1>6 DEF IsLast
  <2>2. \A b \in Block : References(b)' = References(b)
    BY <1>1, <1>6 DEF References
  <2>3. CountInv'
    BY <1>1, <1>6, <2>2, Same DEF poolVars
  <2>4. TypeOK' /\ AssertionsHold'
    BY <1>1, <1>6 DEF poolVars, listVars, IInv, TypeOK, AssertionsHold
  <2>5. \A d \in Ctx : pc'[d] = IF d = c THEN "put" ELSE pc[d]
    BY <1>6 DEF IInv, TypeOK
  <2>6. PhaseInv'
    BY <1>1, <1>6, <2>5, Contexts DEF IInv, PhaseInv, ArgUsed
  <2>7. SubscrInv'
    BY <1>1, <2>5 DEF listVars, IInv, SubscrInv
  <2>8. CallInv'
    BY <1>1, <1>2, <1>6, <2>1, <2>5, Contexts DEF IInv, CallInv
  <2> QED BY <1>4, <2>3, <2>4, <2>6, <2>7, <2>8 DEF IInv
<1>7. arg[c] = e /\ Gc(c)
  BY <1>2
<1> QED BY <1>5, <1>6, <1>7 DEF Gc, Goto

(* A sequence without repetitions that lacks a block has fewer entries     *)
(* than there are blocks.                                                  *)
LEMMA NotFull ==
  ASSUME NEW s \in Seq(Block), \A i, j \in 1 .. Len(s) : s[i] = s[j] => i = j,
         NEW b \in Block, \A i \in 1 .. Len(s) : s[i] # b
  PROVE  Len(s) < Cardinality(Block)
<1> DEFINE R == Block \ {b}
<1>1. IsFiniteSet(Block) /\ Cardinality(Block) \in Nat
  BY EventAssumption, FS_CardinalityType
<1>2. IsFiniteSet(R) /\ Cardinality(R) = Cardinality(Block) - 1
  BY <1>1, FS_RemoveElement
<1>3. s \in Injection(1 .. Len(s), R)
  <2>1. s \in [1 .. Len(s) -> R]
    OBVIOUS
  <2> HIDE DEF R
  <2>2. DOMAIN s = 1 .. Len(s)
    OBVIOUS
  <2> QED BY <2>1, <2>2 DEF Injection, IsInjective
<1> HIDE DEF R
<1>4. Cardinality(1 .. Len(s)) <= Cardinality(R)
  BY <1>2, <1>3, FS_Injection
<1>5. Cardinality(1 .. Len(s)) = Len(s) /\ Len(s) \in Nat
  <2> DEFINE n == Len(s)
  <2>1. n \in Nat
    OBVIOUS
  <2> HIDE DEF n
  <2>2. Cardinality(1 .. n) = IF 1 > n THEN 0 ELSE n - 1 + 1
    BY <2>1, FS_Interval
  <2>3. Cardinality(1 .. n) = n
    BY <2>1, <2>2
  <2> QED BY <2>1, <2>3 DEF n
<1> QED BY <1>1, <1>2, <1>4, <1>5

(* QMPool_put returns the block.                                           *)
LEMMA PutSafe ==
  ASSUME IInv, NEW c \in Ctx, Put(c)
  PROVE  IInv'
<1>1. pc[c] = "put"
  BY DEF Put, At
<1>2. PICK e \in Block : e = arg[c]
  BY <1>1, LastReference
<1>3. /\ ~Free(e) /\ ~Owned(e) /\ refCtr[e] = 1 /\ References(e) = 1
      /\ \A d \in Ctx : d # c => arg[d] # e
  BY <1>1, <1>2, LastReference
<1>4. nFree < Cardinality(Block) /\ nFree = Len(freeList) /\ nFree \in Nat /\ nMin \in Nat /\ nMin <= nFree
  <2>1. freeList \in Seq(Block) /\ nFree \in Nat /\ nMin \in Nat
    BY DEF IInv, TypeOK
  <2>2. \A i \in 1 .. Len(freeList) : freeList[i] # e
    BY <1>3 DEF Free
  <2>3. Len(freeList) < Cardinality(Block)
    BY <2>1, <2>2, NotFull DEF IInv, FreeInv
  <2> QED BY <2>1, <2>3 DEF IInv, FreeInv
<1>5. /\ freeList' = <<e>> \o freeList /\ nFree' = nFree + 1 /\ Resume(c) /\ Forget(c)
      /\ UNCHANGED <<nMin, refCtr, queue, deferred, ev, new, listVars, status>>
  <2>1. ~ (nFree >= Cardinality(Block))
    <3>1. Cardinality(Block) \in Nat
      BY EventAssumption, FS_CardinalityType
    <3> QED BY <1>4, <3>1
  <2> QED BY <1>2, <2>1 DEF Put
<1>6. /\ PhaseInv' /\ SubscrInv'
      /\ pc' \in [Ctx -> {"idle", "run", "publish", "gc", "put", "recallPost", "recallDrop"}]
      /\ arg' \in [Ctx -> Block \cup {NULL}]
      /\ \A d \in Ctx : d # c => pc'[d] = pc[d] /\ arg'[d] = arg[d]
      /\ pc'[c] \in {"idle", "run"} /\ arg'[c] = NULL
  BY <1>1, <1>5, CallEnds
<1>7. /\ freeList' \in Seq(Block) /\ Len(freeList') = nFree + 1
      /\ freeList'[1] = e /\ \A i \in 1 .. nFree : freeList'[i + 1] = freeList[i]
  <2>1. <<e>> \in Seq(Block) /\ Len(<<e>>) = 1 /\ <<e>>[1] = e /\ freeList \in Seq(Block)
    BY DEF IInv, TypeOK
  <2>2. /\ freeList' \in Seq(Block) /\ Len(freeList') = Len(<<e>>) + Len(freeList)
        /\ \A i \in 1..Len(<<e>>) + Len(freeList) :
             freeList'[i] = IF i <= Len(<<e>>) THEN <<e>>[i] ELSE freeList[i - Len(<<e>>)]
    BY <1>5, <2>1, ConcatProperties
  <2>3. freeList'[1] = e
    BY <1>4, <2>1, <2>2
  <2>4. \A i \in 1 .. nFree : freeList'[i + 1] = freeList[i]
    BY <1>4, <2>1, <2>2
  <2> QED BY <1>4, <2>1, <2>2, <2>3, <2>4
<1>8. \A i \in 1 .. nFree + 1 : i = 1 \/ \E j \in 1 .. nFree : i = j + 1
  <2> TAKE i \in 1 .. nFree + 1
  <2>1. CASE i # 1
    <3>1. i - 1 \in 1 .. nFree /\ i = (i - 1) + 1
      BY <1>4, <2>1
    <3> QED BY <3>1
  <2> QED BY <2>1
<1>9. \A b \in Block : Free(b)' <=> b = e \/ Free(b)
  <2>1. Free(e)'
    BY <1>4, <1>7, 1 \in 1 .. nFree + 1 DEF Free
  <2>2. ASSUME NEW b \in Block, Free(b)
        PROVE  Free(b)'
    <3>1. PICK i \in 1 .. nFree : freeList[i] = b
      BY <1>4, <2>2 DEF Free
    <3>2. i + 1 \in 1 .. nFree + 1 /\ freeList'[i + 1] = b
      BY <1>4, <1>7, <3>1
    <3> QED BY <1>7, <3>2 DEF Free
  <2>3. ASSUME NEW b \in Block, Free(b)'
        PROVE  b = e \/ Free(b)
    <3>1. PICK i \in 1 .. nFree + 1 : freeList'[i] = b
      BY <1>7, <2>3 DEF Free
    <3> QED BY <1>4, <1>7, <1>8, <3>1 DEF Free
  <2> QED BY <2>1, <2>2, <2>3
<1>10. \A b \in Block : Owned(b)' <=> Owned(b)
  BY <1>5 DEF Owned
<1>11. FreeInv'
  <2>1. \A i, j \in 1 .. nFree : freeList[i] = freeList[j] => i = j
    BY <1>4 DEF IInv, FreeInv
  <2>2. \A i \in 1 .. nFree : freeList[i] # e
    BY <1>3, <1>4 DEF Free
  <2>3. \A i, j \in 1 .. nFree + 1 : freeList'[i] = freeList'[j] => i = j
    BY <1>7, <1>8, <2>1, <2>2
  <2>4. nFree' = Len(freeList') /\ nMin' <= nFree'
    BY <1>4, <1>5, <1>7
  <2>5. \A i, j \in 1 .. Len(freeList') : freeList'[i] = freeList'[j] => i = j
    BY <1>7, <2>3
  <2>6. \A b \in Block : ~(Free(b)' /\ Owned(b)')
    BY <1>3, <1>9, <1>10 DEF IInv, FreeInv
  <2>7. \A x, d \in Ctx : new'[x] = new'[d] /\ new'[x] # NULL => x = d
    BY <1>5 DEF IInv, FreeInv
  <2> QED BY <2>4, <2>5, <2>6, <2>7 DEF FreeInv
<1>12. \A b \in Block : References(b)' = References(b) - One(e, b)
  <2> TAKE b \in Block
  <2>1. HeldBy(arg', b) = HeldBy(arg, b) - One(e, b) + One(NULL, b) /\ One(NULL, b) = 0
    <3>1. TypeOK /\ arg' = [arg EXCEPT ![c] = NULL]
      BY <1>5 DEF IInv, Forget
    <3>2. HeldBy(arg', b) = HeldBy(arg, b) - One(arg[c], b) + One(NULL, b)
      BY <3>1, HeldSteps
    <3>3. One(NULL, b) = 0
      BY EventAssumption DEF One
    <3> QED BY <1>2, <3>2, <3>3
  <2>2. /\ HeldBy(ev', b) = HeldBy(ev, b) /\ InQueues(queue', b) = InQueues(queue, b)
        /\ InQueues(deferred', b) = InQueues(deferred, b)
    BY <1>5
  <2> QED BY <2>1, <2>2, ReferencesAre, Counts DEF IInv, One
<1>13. CountInv'
  <2>1. Counted(e)'
    <3>1. References(e)' = 0
      BY <1>3, <1>12 DEF One
    <3> QED BY <1>3, <1>9, <1>10, <3>1 DEF Counted
  <2>2. ASSUME NEW b \in Block, b # e
        PROVE  Counted(b)'
    <3>1. References(b)' = References(b) /\ Counted(b) /\ refCtr' = refCtr
      BY <1>5, <1>12, <2>2, Counts DEF One, IInv, CountInv
    <3> QED BY <1>9, <1>10, <2>2, <3>1 DEF Counted
  <2> QED BY <2>1, <2>2 DEF CountInv
<1>14. TypeOK' /\ AssertionsHold'
  BY <1>4, <1>5, <1>6, <1>7 DEF listVars, IInv, TypeOK, AssertionsHold
<1>15. CallInv'
  <2>1. \A d \in Ctx : pc'[d] = "put" => pc[d] = "put" /\ arg'[d] = arg[d]
    BY <1>6
  <2>2. \A a \in AO : pc'[a] = "recallDrop" => pc[a] = "recallDrop" /\ arg'[a] = arg[a]
    BY <1>6, Contexts
  <2> QED BY <1>5, <2>1, <2>2 DEF IInv, CallInv
<1> QED BY <1>6, <1>11, <1>13, <1>14, <1>15 DEF IInv

(* QF_new_ takes the first free block, if there is one.                    *)
LEMMA NewSafe ==
  ASSUME IInv, NEW c \in Ctx, New(c)
  PROVE  IInv'
<1>1. CASE Halt("empty")
  <2>1. /\ UNCHANGED <<poolVars, refCtr, queue, deferred, ctxVars, listVars>> /\ status' = "empty"
    BY <1>1 DEF Halt
  <2>2. \A b \in Block : References(b)' = References(b)
    BY <2>1 DEF ctxVars, References
  <2>3. CountInv' /\ FreeInv'
    BY <2>1, <2>2, Same, PoolSame DEF poolVars, ctxVars
  <2>4. TypeOK' /\ PhaseInv' /\ SubscrInv' /\ CallInv' /\ AssertionsHold'
    BY <2>1 DEF poolVars, listVars, ctxVars, IInv, TypeOK, PhaseInv, SubscrInv, CallInv, AssertionsHold
  <2> QED BY <2>3, <2>4 DEF IInv
<1>2. CASE /\ new[c] = NULL /\ freeList # << >>
           /\ new' = [new EXCEPT ![c] = Head(freeList)]
           /\ refCtr' = [refCtr EXCEPT ![Head(freeList)] = 0]
           /\ freeList' = Tail(freeList)
           /\ nFree' = nFree - 1
           /\ nMin' = IF nMin > nFree - 1 THEN nFree - 1 ELSE nMin
           /\ UNCHANGED <<queue, deferred, pc, ev, arg, listVars, status>>
  <2>1. /\ freeList \in Seq(Block) /\ nFree = Len(freeList) /\ nMin \in Nat /\ nMin <= nFree
        /\ \A i, j \in 1 .. nFree : freeList[i] = freeList[j] => i = j
    BY DEF IInv, TypeOK, FreeInv
  <2>2. /\ nFree \in Nat \ {0} /\ Head(freeList) = freeList[1] /\ Head(freeList) \in Block
        /\ freeList' \in Seq(Block) /\ Len(freeList') = nFree - 1
        /\ \A i \in 1 .. nFree - 1 : freeList'[i] = freeList[i + 1]
    BY <1>2, <2>1, HeadTailProperties
  <2>3. PICK e \in Block : e = Head(freeList)
    BY <2>2
  <2>4. Free(e) /\ ~Owned(e) /\ References(e) = 0
    <3>1. Free(e)
      BY <2>1, <2>2, <2>3 DEF Free
    <3> QED BY <3>1 DEF IInv, FreeInv, CountInv, Counted
  <2>5. \A b \in Block : Free(b)' <=> Free(b) /\ b # e
    <3>1. ASSUME NEW b \in Block, Free(b)'
          PROVE  Free(b) /\ b # e
      <4>1. PICK i \in 1 .. nFree - 1 : freeList'[i] = b
        BY <2>2, <3>1 DEF Free
      <4>2. i + 1 \in 1 .. nFree /\ i + 1 # 1 /\ freeList[i + 1] = b
        BY <2>2, <4>1
      <4> QED BY <2>1, <2>2, <2>3, <4>2, 1 \in 1 .. nFree DEF Free
    <3>2. ASSUME NEW b \in Block, Free(b), b # e
          PROVE  Free(b)'
      <4>1. PICK i \in 1 .. nFree : freeList[i] = b
        BY <2>1, <3>2 DEF Free
      <4>2. i # 1
        BY <2>2, <2>3, <3>2, <4>1
      <4>3. i - 1 \in 1 .. nFree - 1 /\ (i - 1) + 1 = i
        BY <2>2, <4>1, <4>2
      <4>4. freeList'[i - 1] = b
        BY <2>2, <4>1, <4>3
      <4> QED BY <2>2, <4>3, <4>4 DEF Free
    <3> QED BY <3>1, <3>2
  <2>6. /\ new' \in [Ctx -> Block \cup {NULL}]
        /\ \A d \in Ctx : new'[d] = IF d = c THEN e ELSE new[d]
    BY <1>2, <2>3 DEF IInv, TypeOK
  <2>7. \A b \in Block : Owned(b)' <=> Owned(b) \/ b = e
    BY <1>2, <2>6, EventAssumption DEF Owned
  <2>8. /\ refCtr' \in [Block -> Nat]
        /\ \A b \in Block : refCtr'[b] = IF b = e THEN 0 ELSE refCtr[b]
    BY <1>2, <2>3 DEF IInv, TypeOK
  <2>9. \A b \in Block : References(b)' = References(b)
    BY <1>2 DEF References
  <2>10. FreeInv'
    <3>1. nFree' = Len(freeList') /\ nFree' \in Nat /\ nMin' \in Nat /\ nMin' <= nFree'
      BY <1>2, <2>1, <2>2
    <3>2. \A i, j \in 1 .. nFree - 1 : freeList'[i] = freeList'[j] => i = j
      <4>1. \A i \in 1 .. nFree - 1 : i + 1 \in 1 .. nFree
        BY <2>2
      <4>2. \A i, j \in 1 .. nFree - 1 : freeList'[i] = freeList'[j] => i + 1 = j + 1
        BY <2>1, <2>2, <4>1
      <4> QED BY <4>2
    <3>3. \A x, d \in Ctx : new'[x] = new'[d] /\ new'[x] # NULL => x = d
      <4>1. \A d \in Ctx : new[d] # e
        BY <2>4 DEF Owned
      <4> QED BY <2>6, <4>1 DEF IInv, FreeInv
    <3>4. \A b \in Block : ~(Free(b)' /\ Owned(b)')
      BY <2>5, <2>7 DEF IInv, FreeInv
    <3>5. \A i, j \in 1 .. Len(freeList') : freeList'[i] = freeList'[j] => i = j
      BY <2>2, <3>2
    <3> QED BY <3>1, <3>3, <3>4, <3>5 DEF FreeInv
  <2>11. CountInv'
    BY <2>4, <2>5, <2>7, <2>8, <2>9 DEF IInv, CountInv, Counted
  <2>12. TypeOK'
    <3>1. nFree' \in Nat /\ nMin' \in Nat
      BY <1>2, <2>1, <2>2
    <3> QED BY <1>2, <2>2, <2>6, <2>8, <3>1 DEF listVars, IInv, TypeOK
  <2>13. CallInv'
    <3>1. \A d \in Ctx : pc[d] = "put" => arg[d] \in Block /\ arg[d] # e
      BY <2>4, LastReference
    <3> QED BY <1>2, <2>8, <3>1 DEF IInv, CallInv
  <2>14. PhaseInv' /\ SubscrInv' /\ AssertionsHold'
    BY <1>2 DEF listVars, IInv, PhaseInv, SubscrInv, AssertionsHold
  <2> QED BY <2>10, <2>11, <2>12, <2>13, <2>14 DEF IInv
<1> QED BY <1>1, <1>2 DEF New, At

(* A run-to-completion step begins.                                        *)
LEMMA GetSafe ==
  ASSUME IInv, NEW a \in AO, Get(a)
  PROVE  IInv'
<1>1. /\ pc[a] = "idle" /\ queue[a] # << >>
      /\ ev' = [ev EXCEPT ![a] = Head(queue[a])]
      /\ queue' = [queue EXCEPT ![a] = Tail(queue[a])]
      /\ pc' = [pc EXCEPT ![a] = "run"]
      /\ UNCHANGED <<poolVars, refCtr, deferred, new, arg, listVars, status>>
  BY DEF Get, At, Goto
<1>2. TypeOK /\ ev[a] = NULL /\ queue[a] \in Seq(Block) /\ a \in Ctx /\ NULL \notin Block
  BY <1>1, Contexts, EventAssumption DEF IInv, TypeOK, PhaseInv
<1>3. PICK e \in Block : e = Head(queue[a])
  BY <1>1, <1>2
<1>4. \A b \in Block : References(b)' = References(b)
  <2> TAKE b \in Block
  <2>1. HeldBy(ev', b) = HeldBy(ev, b) - One(ev[a], b) + One(Head(queue[a]), b)
    BY <1>1, <1>2, HeldSteps
  <2>2. InQueues(queue', b) = InQueues(queue, b) - One(Head(queue[a]), b)
    BY <1>1, <1>2, QueueChanges
  <2>3. One(ev[a], b) = 0 /\ One(Head(queue[a]), b) \in Nat
    BY <1>2 DEF One
  <2>4. HeldBy(arg', b) = HeldBy(arg, b) /\ InQueues(deferred', b) = InQueues(deferred, b)
    BY <1>1
  <2> QED BY <1>2, <2>1, <2>2, <2>3, <2>4, ReferencesAre, Counts
<1>5. CountInv' /\ FreeInv'
  BY <1>1, <1>4, Same, PoolSame DEF poolVars
<1>6. queue' \in [AO -> Seq(Block)]
  BY <1>1, <1>2, QueueChanges DEF Queues
<1>7. TypeOK' /\ AssertionsHold'
  BY <1>1, <1>3, <1>6 DEF poolVars, listVars, IInv, TypeOK, AssertionsHold
<1>8. /\ \A d \in Ctx : pc'[d] = IF d = a THEN "run" ELSE pc[d]
      /\ \A x \in AO : ev'[x] = IF x = a THEN e ELSE ev[x]
      /\ \A x \in AO : x # a => queue'[x] = queue[x]
  BY <1>1, <1>2, <1>3 DEF TypeOK
<1>9. PhaseInv'
  BY <1>1, <1>2, <1>8, Contexts DEF IInv, PhaseInv, ArgUsed
<1>10. SubscrInv'
  BY <1>1, <1>8 DEF listVars, IInv, SubscrInv
<1>11. CallInv'
  <2>1. \A d \in Ctx : pc'[d] = "put" => pc[d] = "put"
    BY <1>8
  <2>2. \A x \in AO : pc'[x] = "recallDrop" => pc[x] = "recallDrop" /\ queue'[x] = queue[x]
    BY <1>8, Contexts
  <2> QED BY <1>1, <2>1, <2>2 DEF IInv, CallInv
<1> QED BY <1>5, <1>7, <1>9, <1>10, <1>11 DEF IInv

(* A run-to-completion step ends.                                          *)
LEMMA FinishSafe ==
  ASSUME IInv, NEW a \in AO, Finish(a)
  PROVE  IInv'
<1>1. /\ pc[a] = "run"
      /\ arg' = [arg EXCEPT ![a] = ev[a]]
      /\ ev' = [ev EXCEPT ![a] = NULL]
      /\ pc' = [pc EXCEPT ![a] = "gc"]
      /\ UNCHANGED <<poolVars, refCtr, queue, deferred, new, listVars, status>>
  BY DEF Finish, At, Goto
<1>2. TypeOK /\ a \in Ctx /\ arg[a] = NULL /\ ev[a] \in Block /\ NULL \notin Block /\ todo[a] = {}
  BY <1>1, Contexts, EventAssumption DEF IInv, TypeOK, PhaseInv, ArgUsed, SubscrInv
<1>3. \A b \in Block : References(b)' = References(b)
  <2> TAKE b \in Block
  <2>1. HeldBy(ev', b) = HeldBy(ev, b) - One(ev[a], b) + One(NULL, b)
    BY <1>1, <1>2, HeldSteps
  <2>2. HeldBy(arg', b) = HeldBy(arg, b) - One(arg[a], b) + One(ev[a], b)
    BY <1>1, <1>2, HeldSteps
  <2>3. One(NULL, b) = 0 /\ One(arg[a], b) = 0 /\ One(ev[a], b) \in Nat
    BY <1>2 DEF One
  <2>4. InQueues(queue', b) = InQueues(queue, b) /\ InQueues(deferred', b) = InQueues(deferred, b)
    BY <1>1
  <2> QED BY <1>2, <2>1, <2>2, <2>3, <2>4, ReferencesAre, Counts
<1>4. CountInv' /\ FreeInv'
  BY <1>1, <1>3, Same, PoolSame DEF poolVars
<1>5. TypeOK' /\ AssertionsHold'
  BY <1>1, <1>2 DEF poolVars, listVars, IInv, TypeOK, AssertionsHold
<1>6. /\ \A d \in Ctx : pc'[d] = IF d = a THEN "gc" ELSE pc[d]
      /\ \A d \in Ctx : arg'[d] = IF d = a THEN ev[a] ELSE arg[d]
      /\ \A x \in AO : ev'[x] = IF x = a THEN NULL ELSE ev[x]
  BY <1>1, <1>2 DEF TypeOK
<1>7. PhaseInv'
  BY <1>1, <1>2, <1>6, Contexts DEF IInv, PhaseInv, ArgUsed
<1>8. SubscrInv'
  BY <1>1, <1>2, <1>6 DEF listVars, IInv, SubscrInv
<1>9. CallInv'
  BY <1>1, <1>6, Contexts DEF IInv, CallInv
<1> QED BY <1>4, <1>5, <1>7, <1>8, <1>9 DEF IInv

(* QActive_defer adds a reference.                                         *)
LEMMA DeferSafe ==
  ASSUME IInv, NEW a \in AO, Defer(a)
  PROVE  IInv'
<1>1. pc[a] = "run"
  BY DEF Defer, At
<1>2. PICK e \in Block : e = ev[a]
  BY <1>1 DEF IInv, TypeOK, PhaseInv
<1>3. /\ refCtr' = [refCtr EXCEPT ![e] = refCtr[e] + 1]
      /\ deferred' = [deferred EXCEPT ![a] = Append(deferred[a], e)]
      /\ UNCHANGED <<poolVars, queue, ctxVars, listVars, status>>
  BY <1>2 DEF Defer
<1>4. TypeOK /\ Sendable(e) /\ ~Owned(e)
  BY <1>2, InUse DEF Sendable, IInv
<1>5. \A b \in Block : References(b)' = References(b) + One(e, b)
  <2> TAKE b \in Block
  <2>1. InQueues(deferred', b) = InQueues(deferred, b) + One(e, b)
    BY <1>3, <1>4, DeferredChanges
  <2>2. HeldBy(ev', b) = HeldBy(ev, b) /\ HeldBy(arg', b) = HeldBy(arg, b) /\ InQueues(queue', b) = InQueues(queue, b)
    BY <1>3 DEF ctxVars
  <2>3. One(e, b) \in Nat
    BY DEF One
  <2> QED BY <1>4, <2>1, <2>2, <2>3, ReferencesAre, Counts
<1>6. CountInv'
  BY <1>3, <1>4, <1>5, Raise DEF poolVars, ctxVars, Owned
<1>7. deferred' \in [AO -> Seq(Block)]
  BY <1>3, <1>4, DeferredChanges DEF Queues
<1>8. /\ refCtr' \in [Block -> Nat]
      /\ \A b \in Block : refCtr'[b] = IF b = e THEN refCtr[e] + 1 ELSE refCtr[b]
  BY <1>3, <1>4 DEF TypeOK
<1>9. TypeOK' /\ AssertionsHold'
  BY <1>3, <1>7, <1>8 DEF poolVars, ctxVars, listVars, IInv, TypeOK, AssertionsHold
<1>10. PhaseInv' /\ SubscrInv' /\ FreeInv'
  BY <1>3, ListsSame, PoolSame DEF ctxVars, IInv, PhaseInv
<1>11. CallInv'
  <2>1. \A d \in Ctx : pc[d] = "put" => arg[d] \in Block /\ arg[d] # e
    BY <1>4, SendableEvent, LastReference
  <2> QED BY <1>3, <1>8, <2>1 DEF ctxVars, IInv, CallInv
<1> QED BY <1>6, <1>9, <1>10, <1>11 DEF IInv

(* QActive_recall takes an event from the deferred ones.                   *)
LEMMA RecallSafe ==
  ASSUME IInv, NEW a \in AO, Recall(a)
  PROVE  IInv'
<1>1. /\ pc[a] = "run" /\ deferred[a] # << >>
      /\ arg' = [arg EXCEPT ![a] = Head(deferred[a])]
      /\ deferred' = [deferred EXCEPT ![a] = Tail(deferred[a])]
      /\ pc' = [pc EXCEPT ![a] = "recallPost"]
      /\ UNCHANGED <<poolVars, refCtr, queue, ev, new, listVars, status>>
  BY DEF Recall, At, Goto
<1>2. /\ TypeOK /\ a \in Ctx /\ arg[a] = NULL /\ NULL \notin Block /\ todo[a] = {}
      /\ deferred[a] \in Seq(Block)
  BY <1>1, Contexts, EventAssumption DEF IInv, TypeOK, PhaseInv, ArgUsed, SubscrInv
<1>3. PICK e \in Block : e = Head(deferred[a])
  BY <1>1, <1>2
<1>4. \A b \in Block : References(b)' = References(b)
  <2> TAKE b \in Block
  <2>1. HeldBy(arg', b) = HeldBy(arg, b) - One(arg[a], b) + One(Head(deferred[a]), b)
    BY <1>1, <1>2, HeldSteps
  <2>2. InQueues(deferred', b) = InQueues(deferred, b) - One(Head(deferred[a]), b)
    BY <1>1, <1>2, DeferredChanges
  <2>3. One(arg[a], b) = 0 /\ One(Head(deferred[a]), b) \in Nat
    BY <1>2 DEF One
  <2>4. HeldBy(ev', b) = HeldBy(ev, b) /\ InQueues(queue', b) = InQueues(queue, b)
    BY <1>1
  <2> QED BY <1>2, <2>1, <2>2, <2>3, <2>4, ReferencesAre, Counts
<1>5. CountInv' /\ FreeInv'
  BY <1>1, <1>4, Same, PoolSame DEF poolVars
<1>6. deferred' \in [AO -> Seq(Block)]
  BY <1>1, <1>2, DeferredChanges DEF Queues
<1>7. TypeOK' /\ AssertionsHold'
  BY <1>1, <1>3, <1>6 DEF poolVars, listVars, IInv, TypeOK, AssertionsHold
<1>8. /\ \A d \in Ctx : pc'[d] = IF d = a THEN "recallPost" ELSE pc[d]
      /\ \A d \in Ctx : arg'[d] = IF d = a THEN e ELSE arg[d]
  BY <1>1, <1>2, <1>3 DEF TypeOK
<1>9. PhaseInv'
  BY <1>1, <1>2, <1>8, Contexts DEF IInv, PhaseInv, ArgUsed
<1>10. SubscrInv'
  BY <1>1, <1>2, <1>8 DEF listVars, IInv, SubscrInv
<1>11. CallInv'
  <2>1. \A d \in Ctx : pc'[d] = "put" => pc[d] = "put" /\ arg'[d] = arg[d]
    BY <1>8
  <2>2. \A x \in AO : pc'[x] = "recallDrop" => pc[x] = "recallDrop" /\ arg'[x] = arg[x]
    BY <1>8, Contexts
  <2> QED BY <1>1, <2>1, <2>2 DEF IInv, CallInv
<1> QED BY <1>5, <1>7, <1>9, <1>10, <1>11 DEF IInv

(* ... posts it to the front of the object's queue ...                     *)
LEMMA RecallPostSafe ==
  ASSUME IInv, NEW a \in AO, RecallPost(a)
  PROVE  IInv'
<1>1. pc[a] = "recallPost" /\ a \in Ctx
  BY Contexts DEF RecallPost, At
<1>2. PICK e \in Block : e = arg[a]
  BY <1>1 DEF IInv, TypeOK, PhaseInv, ArgUsed
<1>3. /\ refCtr' = [refCtr EXCEPT ![e] = refCtr[e] + 1]
      /\ queue' = [queue EXCEPT ![a] = <<e>> \o queue[a]]
      /\ pc' = [pc EXCEPT ![a] = "recallDrop"]
      /\ UNCHANGED <<poolVars, deferred, ev, new, arg, listVars, status>>
  BY <1>2 DEF RecallPost, Goto
<1>4. TypeOK /\ Sendable(e) /\ ~Owned(e) /\ todo[a] = {}
  BY <1>1, <1>2, InUse DEF Sendable, IInv, SubscrInv
<1>5. \A b \in Block : References(b)' = References(b) + One(e, b)
  <2> TAKE b \in Block
  <2>1. InQueues(queue', b) = InQueues(queue, b) + One(e, b)
    BY <1>3, <1>4, QueueChanges
  <2>2. HeldBy(ev', b) = HeldBy(ev, b) /\ HeldBy(arg', b) = HeldBy(arg, b) /\ InQueues(deferred', b) = InQueues(deferred, b)
    BY <1>3
  <2>3. One(e, b) \in Nat
    BY DEF One
  <2> QED BY <1>4, <2>1, <2>2, <2>3, ReferencesAre, Counts
<1>6. CountInv' /\ FreeInv'
  BY <1>3, <1>4, <1>5, Raise, PoolSame DEF poolVars, Owned
<1>7. queue' \in [AO -> Seq(Block)]
  BY <1>3, <1>4, QueueChanges DEF Queues
<1>8. /\ refCtr' \in [Block -> Nat]
      /\ \A b \in Block : refCtr'[b] = IF b = e THEN refCtr[e] + 1 ELSE refCtr[b]
      /\ \A d \in Ctx : pc'[d] = IF d = a THEN "recallDrop" ELSE pc[d]
      /\ \A x \in AO : x # a => queue'[x] = queue[x]
      /\ queue'[a] = <<e>> \o queue[a] /\ queue[a] \in Seq(Block)
  BY <1>3, <1>4 DEF TypeOK
<1>9. TypeOK' /\ AssertionsHold'
  BY <1>3, <1>7, <1>8 DEF poolVars, listVars, IInv, TypeOK, AssertionsHold
<1>10. PhaseInv'
  BY <1>1, <1>3, <1>8, Contexts DEF IInv, PhaseInv, ArgUsed
<1>11. SubscrInv'
  BY <1>3, <1>4, <1>8 DEF listVars, IInv, SubscrInv
<1>12. CallInv'
  <2>1. \A d \in Ctx : pc[d] = "put" => arg[d] \in Block /\ arg[d] # e
    BY <1>4, SendableEvent, LastReference
  <2>2. \A d \in Ctx : pc'[d] = "put" => refCtr'[arg'[d]] = 1
    BY <1>3, <1>8, <2>1 DEF IInv, CallInv
  <2>3. \E i \in 1 .. Len(queue'[a]) : queue'[a][i] = e
    <3>1. Len(queue'[a]) \in Nat \ {0} /\ queue'[a][1] = e
      <4>1. <<e>> \in Seq(Block) /\ Len(<<e>>) = 1 /\ <<e>>[1] = e
        OBVIOUS
      <4>2. /\ Len(queue'[a]) = Len(<<e>>) + Len(queue[a])
            /\ \A i \in 1..Len(<<e>>) + Len(queue[a]) :
                 queue'[a][i] = IF i <= Len(<<e>>) THEN <<e>>[i] ELSE queue[a][i - Len(<<e>>)]
        BY <1>8, <4>1, ConcatProperties
      <4>3. Len(queue[a]) \in Nat
        BY <1>8
      <4> QED BY <4>1, <4>2, <4>3
    <3> QED BY <3>1
  <2>4. \A x \in AO : pc'[x] = "recallDrop" => \E i \in 1 .. Len(queue'[x]) : queue'[x][i] = arg'[x]
    BY <1>2, <1>3, <1>8, <2>3, Contexts DEF IInv, CallInv
  <2> QED BY <2>2, <2>4 DEF CallInv
<1> QED BY <1>6, <1>9, <1>10, <1>11, <1>12 DEF IInv

(* ... and drops the reference it had as a deferred event.                 *)
LEMMA RecallDropSafe ==
  ASSUME IInv, NEW a \in AO, RecallDrop(a)
  PROVE  IInv'
<1>1. pc[a] = "recallDrop" /\ a \in Ctx
  BY Contexts DEF RecallDrop, At
<1>2. PICK e \in Block : e = arg[a]
  BY <1>1 DEF IInv, TypeOK, PhaseInv, ArgUsed
<1>3. TypeOK /\ ~Free(e) /\ ~Owned(e) /\ refCtr[e] = References(e) /\ References(e) \in Nat
  <2>1. TypeOK
    BY DEF IInv
  <2>2. ~Free(e) /\ ~Owned(e) /\ refCtr[e] = References(e)
    BY <1>1, <1>2, InUse
  <2>3. References(e) \in Nat
    BY <2>1, Counts
  <2> QED BY <2>1, <2>2, <2>3
<1>4. References(e) >= 2
  <2>1. PICK i \in 1 .. Len(queue[a]) : queue[a][i] = arg[a]
    BY <1>1 DEF IInv, CallInv
  <2> QED BY <1>1, <1>2, <1>3, <2>1, Held
<1>5. /\ refCtr' = [refCtr EXCEPT ![e] = refCtr[e] - 1]
      /\ pc' = [pc EXCEPT ![a] = "run"]
      /\ arg' = [arg EXCEPT ![a] = NULL]
      /\ UNCHANGED <<poolVars, queue, deferred, ev, new, listVars, status>>
  <2>1. ~ (refCtr[arg[a]] <= 1)
    BY <1>2, <1>3, <1>4
  <2> QED BY <1>2, <2>1 DEF RecallDrop, Drop, Goto, Forget
<1>6. \A b \in Block : References(b)' = References(b) - One(e, b)
  <2> TAKE b \in Block
  <2>1. HeldBy(arg', b) = HeldBy(arg, b) - One(arg[a], b) + One(NULL, b)
    BY <1>1, <1>3, <1>5, HeldSteps
  <2>2. One(NULL, b) = 0 /\ One(e, b) \in Nat
    BY EventAssumption DEF One
  <2>3. HeldBy(ev', b) = HeldBy(ev, b) /\ InQueues(queue', b) = InQueues(queue, b)
        /\ InQueues(deferred', b) = InQueues(deferred, b)
    BY <1>5
  <2> QED BY <1>2, <1>3, <2>1, <2>2, <2>3, ReferencesAre, Counts
<1>7. /\ refCtr' \in [Block -> Nat]
      /\ \A b \in Block : refCtr'[b] = IF b = e THEN refCtr[e] - 1 ELSE refCtr[b]
      /\ \A d \in Ctx : pc'[d] = IF d = a THEN "run" ELSE pc[d]
      /\ \A d \in Ctx : arg'[d] = IF d = a THEN NULL ELSE arg[d]
  BY <1>1, <1>3, <1>4, <1>5 DEF TypeOK
<1>8. FreeInv' /\ \A b \in Block : (Free(b)' <=> Free(b)) /\ (Owned(b)' <=> Owned(b))
  BY <1>5, PoolSame DEF poolVars, Free, Owned
<1>9. CountInv'
  <2>1. Counted(e)'
    <3>1. References(e)' = References(e) - 1
      BY <1>6 DEF One
    <3> QED BY <1>3, <1>4, <1>7, <1>8, <3>1 DEF Counted
  <2>2. ASSUME NEW b \in Block, b # e
        PROVE  Counted(b)'
    <3>1. References(b)' = References(b) /\ Counted(b)
      BY <1>3, <1>6, <2>2, Counts DEF One, IInv, CountInv
    <3> QED BY <1>7, <1>8, <2>2, <3>1 DEF Counted
  <2> QED BY <2>1, <2>2 DEF CountInv
<1>10. TypeOK' /\ AssertionsHold'
  BY <1>5, <1>7 DEF poolVars, listVars, IInv, TypeOK, AssertionsHold
<1>11. PhaseInv'
  BY <1>1, <1>5, <1>7, Contexts DEF IInv, PhaseInv, ArgUsed
<1>12. SubscrInv'
  BY <1>1, <1>5, <1>7 DEF listVars, IInv, SubscrInv
<1>13. CallInv'
  <2>1. \A d \in Ctx : pc'[d] = "put" => pc[d] = "put" /\ arg'[d] = arg[d] /\ arg[d] \in Block /\ arg[d] # e
    BY <1>1, <1>2, <1>7, LastReference
  <2>2. \A x \in AO : pc'[x] = "recallDrop" => pc[x] = "recallDrop" /\ arg'[x] = arg[x]
    BY <1>7, Contexts
  <2> QED BY <1>5, <1>7, <2>1, <2>2 DEF IInv, CallInv
<1> QED BY <1>8, <1>9, <1>10, <1>11, <1>12, <1>13 DEF IInv

(* QMPool_init links all blocks into the free list.                        *)
LEMMA InitialList ==
  /\ SetToSeq(Block) \in Seq(Block) /\ Len(SetToSeq(Block)) = Cardinality(Block)
  /\ \A i, j \in 1 .. Cardinality(Block) : SetToSeq(Block)[i] = SetToSeq(Block)[j] => i = j
  /\ \A b \in Block : \E i \in 1 .. Cardinality(Block) : SetToSeq(Block)[i] = b
<1> DEFINE n == Cardinality(Block)
           s == SetToSeq(Block)
<1>1. n \in Nat /\ IsFiniteSet(Block) /\ ExistsBijection(1 .. n, Block)
  BY EventAssumption, FS_CardinalityType
<1>2. \E f \in [1 .. n -> Block] : IsInjective(f)
  BY <1>1 DEF ExistsBijection, Bijection, Injection
<1>3. s \in [1 .. n -> Block] /\ IsInjective(s)
  BY <1>2 DEF SetToSeq
<1> HIDE DEF n, s
<1>4. s \in Seq(Block) /\ Len(s) = n
  BY <1>1, <1>3
<1>5. s \in Injection(1 .. n, Block)
  BY <1>3 DEF Injection
<1>6. Cardinality(1 .. n) = n
  <2>1. Cardinality(1 .. n) = IF 1 > n THEN 0 ELSE n - 1 + 1
    BY <1>1, FS_Interval
  <2> QED BY <1>1, <2>1
<1>7. s \in Surjection(1 .. n, Block)
  <2>1. Cardinality(1 .. n) = Cardinality(Block)
    BY <1>6 DEF n
  <2> QED BY <1>1, <1>5, <2>1, FS_Injection
<1>8. \A i, j \in 1 .. n : s[i] = s[j] => i = j
  BY <1>3 DEF IsInjective
<1>9. \A b \in Block : \E i \in 1 .. n : s[i] = b
  BY <1>7 DEF Surjection
<1> QED BY <1>4, <1>8, <1>9 DEF n, s

(* Initially nobody refers to a block.                                     *)
LEMMA InitSafe ==
  ASSUME Init
  PROVE  IInv
<1>1. /\ freeList \in Seq(Block) /\ nFree = Len(freeList) /\ nFree \in Nat /\ nMin = nFree
      /\ \A i, j \in 1 .. Len(freeList) : freeList[i] = freeList[j] => i = j
      /\ \A b \in Block : Free(b)
  BY InitialList, EventAssumption, FS_CardinalityType DEF Init, Free
<1>2. TypeOK
  <2>1. 0 \in 0 .. Cardinality(Byte)
    BY Bytes
  <2> QED BY <1>1, <2>1 DEF Init, TypeOK
<1>3. \A b \in Block : ~Owned(b)
  BY EventAssumption DEF Init, Owned
<1>4. \A b \in Block : References(b) = 0
  <2> TAKE b \in Block
  <2>1. Holders(ev, b) = {} /\ Holders(arg, b) = {}
    BY EventAssumption DEF Init, Holders
  <2>2. Places(queue, b) = {} /\ Places(deferred, b) = {}
    BY DEF Init, Places
  <2> QED BY <2>1, <2>2, FS_EmptySet DEF References
<1>5. CountInv
  BY <1>1, <1>3, <1>4 DEF CountInv, Counted
<1>6. FreeInv
  BY <1>1, <1>3 DEF Init, FreeInv
<1>7. PhaseInv /\ SubscrInv /\ CallInv /\ AssertionsHold
  BY Contexts DEF Init, PhaseInv, SubscrInv, CallInv, AssertionsHold, ArgUsed
<1> QED BY <1>2, <1>5, <1>6, <1>7 DEF IInv

(* A stuttering step.                                                      *)
LEMMA StutterSafe ==
  ASSUME IInv, UNCHANGED vars
  PROVE  IInv'
<1>1. \A b \in Block : References(b)' = References(b)
  BY DEF vars, ctxVars, References
<1>2. CountInv' /\ FreeInv'
  BY <1>1, Same, PoolSame DEF vars, poolVars, ctxVars
<1>3. TypeOK' /\ PhaseInv' /\ SubscrInv' /\ CallInv' /\ AssertionsHold'
  BY DEF vars, poolVars, listVars, ctxVars, IInv, TypeOK, PhaseInv, SubscrInv, CallInv, AssertionsHold
<1> QED BY <1>2, <1>3 DEF IInv

(* The invariant is inductive.                                             *)
THEOREM Invariance == Spec => []IInv
<1>1. Init => IInv
  BY InitSafe
<1>2. IInv /\ [Next]_vars => IInv'
  <2> SUFFICES ASSUME IInv, [Next]_vars
               PROVE  IInv'
    OBVIOUS
  <2>1. ASSUME NEW c \in Ctx, Send(c)
        PROVE  IInv'
    BY <2>1, NewSafe, PostSafe, PublishNewSafe DEF Send
  <2>2. ASSUME NEW c \in Ctx, Collect(c)
        PROVE  IInv'
    BY <2>2, PublishReadSafe, PublishPostSafe, PublishEndSafe, GcSafe, PutSafe DEF Collect
  <2>3. ASSUME NEW a \in AO, Handle(a)
        PROVE  IInv'
    <3>1. CASE Get(a) \/ Finish(a) \/ PublishOn(a) \/ \E q \in AO : PostOn(a, q)
      BY <3>1, GetSafe, FinishSafe, PublishOnSafe, PostOnSafe
    <3>2. CASE Subscribe(a) \/ Unsubscribe(a)
      BY <3>2, SubscribeSafe
    <3>3. CASE Defer(a) \/ Recall(a) \/ RecallPost(a) \/ RecallDrop(a)
      BY <3>3, DeferSafe, RecallSafe, RecallPostSafe, RecallDropSafe
    <3> QED BY <2>3, <3>1, <3>2, <3>3 DEF Handle
  <2>4. CASE UNCHANGED vars
    BY <2>4, StutterSafe
  <2> QED BY <2>1, <2>2, <2>3, <2>4 DEF Next
<1> QED BY <1>1, <1>2, PTL DEF Spec

(* Every variable keeps its type.                                          *)
THEOREM TypeCorrect == Spec => []TypeOK
<1>1. IInv => TypeOK
  BY DEF IInv
<1> QED BY <1>1, Invariance, PTL

(* The reference counter of an event in use, which QF_publish, QF_gc,      *)
(* QActive_recall and the queues change in their critical sections, is the *)
(* number of references to the event.                                      *)
THEOREM ReferencesCounted == Spec => []RefCtrExact
<1>1. IInv => RefCtrExact
  BY DEF IInv, CountInv, Counted, RefCtrExact
<1> QED BY <1>1, Invariance, PTL

(* Every block of the pool is free, or owned by one context, or referred   *)
(* to, and never two of these: QF_gc recycles an event exactly when its    *)
(* last reference goes.                                                    *)
THEOREM BlocksAccounted == Spec => []EachBlockAccounted
<1>1. ASSUME IInv
      PROVE  EachBlockAccounted
  <2>1. ASSUME NEW b \in Block
        PROVE  /\ Occurrences(freeList, b) + Cardinality(Holders(new, b)) <= 1
               /\ (Free(b) \/ Owned(b)) <=> References(b) = 0
    <3>1. freeList \in Seq(Block) /\ DOMAIN new = Ctx /\ Counted(b) /\ References(b) \in Nat
      BY <1>1, Counts DEF IInv, TypeOK, CountInv
    <3>2. Occurrences(freeList, b) = Cardinality(Spots(freeList, b))
      BY DEF Occurrences, Spots
    <3>3. /\ \A i, j \in Spots(freeList, b) : i = j
          /\ Spots(freeList, b) # {} => Free(b)
      BY <1>1 DEF IInv, FreeInv, Spots, Free
    <3>4. /\ \A c, d \in Holders(new, b) : c = d
          /\ Holders(new, b) # {} => Owned(b)
      BY <1>1, <3>1, EventAssumption DEF IInv, FreeInv, Holders, Owned
    <3>5. ASSUME NEW A, \A x, y \in A : x = y
          PROVE  Cardinality(A) = IF A = {} THEN 0 ELSE 1
      <4>1. CASE A # {}
        <5>1. PICK x : A = {x}
          BY <3>5, <4>1
        <5> QED BY <5>1, FS_Singleton
      <4>2. CASE A = {}
        BY <4>2, FS_EmptySet
      <4> QED BY <4>1, <4>2
    <3>6. ~(Free(b) /\ Owned(b))
      BY <1>1 DEF IInv, FreeInv
    <3>7. Occurrences(freeList, b) + Cardinality(Holders(new, b)) <= 1
      BY <3>2, <3>3, <3>4, <3>5, <3>6
    <3> QED BY <3>1, <3>7 DEF Counted
  <2> QED BY <1>1, <2>1 DEF EachBlockAccounted, IInv, FreeInv
<1> QED BY <1>1, Invariance, PTL

(* The assertions of QMPool_put, that the pool is not full, and of         *)
(* QActive_recall, that the event is still referred to, never fail.        *)
THEOREM NoAssertionFails == Spec => []AssertionsHold
<1>1. IInv => AssertionsHold
  BY DEF IInv
<1> QED BY <1>1, Invariance, PTL
=============================================================================
