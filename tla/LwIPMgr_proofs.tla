--------------------------- MODULE LwIPMgr_proofs ---------------------------
(***************************************************************************)
(* Safety of LwIPMgr and Table for every set of hosts and addresses, every *)
(* size of the event pool, of the queue and of the receive ring.           *)
(***************************************************************************)
EXTENDS LwIPMgr, FiniteSetTheorems, SequenceTheorems, TLAPS

----------------------------------------------------------------------------
(* Queues: the places of the entries that are in X.                        *)
Where(q, X) == {i \in 1..Len(q) : q[i] \in X}

(* They are finitely many.                                                 *)
LEMMA WhereFinite ==
  ASSUME NEW S, NEW q \in Seq(S), NEW X
  PROVE  IsFiniteSet(Where(q, X)) /\ Cardinality(Where(q, X)) \in Nat
<1>1. IsFiniteSet(1..Len(q))
  BY FS_Interval
<1>2. IsFiniteSet(Where(q, X))
  BY <1>1, FS_Subset DEF Where
<1> QED BY <1>2, FS_CardinalityType

(* One more entry is one more place.                                       *)
LEMMA WhereAppend ==
  ASSUME NEW S, NEW q \in Seq(S), NEW X, NEW e \in S
  PROVE  /\ Where(Append(q, e), X) = Where(q, X) \cup (IF e \in X THEN {Len(q) + 1} ELSE {})
         /\ Cardinality(Where(Append(q, e), X)) =
              Cardinality(Where(q, X)) + (IF e \in X THEN 1 ELSE 0)
<1>1. Where(Append(q, e), X) = Where(q, X) \cup (IF e \in X THEN {Len(q) + 1} ELSE {})
  <2>1. /\ Len(Append(q, e)) = Len(q) + 1 /\ Len(q) \in Nat
        /\ \A i \in 1..Len(q) : Append(q, e)[i] = q[i]
        /\ Append(q, e)[Len(q) + 1] = e
    BY AppendProperties
  <2> DEFINE r == Append(q, e)
  <2> HIDE DEF r
  <2>2. 1..Len(r) = (1..Len(q)) \cup {Len(q) + 1}
    BY <2>1 DEF r
  <2> QED BY <2>1, <2>2 DEF Where, r
<1>2. Len(q) + 1 \notin Where(q, X)
  BY DEF Where
<1>3. CASE e \in X
  BY <1>1, <1>2, <1>3, WhereFinite, FS_AddElement
<1>4. CASE e \notin X
  BY <1>1, <1>4, WhereFinite
<1> QED BY <1>1, <1>3, <1>4

(* The first entry leaves, the others move up.                             *)
LEMMA WhereTail ==
  ASSUME NEW S, NEW q \in Seq(S), NEW X, q # << >>
  PROVE  /\ \A i \in Where(Tail(q), X) : i \in Nat /\ i + 1 \in Where(q, X)
         /\ \A i \in Where(q, X) : i # 1 => i - 1 \in Where(Tail(q), X)
         /\ 1 \in Where(q, X) <=> Head(q) \in X
         /\ Cardinality(Where(Tail(q), X)) =
              Cardinality(Where(q, X)) - (IF Head(q) \in X THEN 1 ELSE 0)
<1>1. /\ Len(q) \in Nat \ {0} /\ Len(Tail(q)) = Len(q) - 1 /\ Tail(q) \in Seq(S)
      /\ \A i \in 1..Len(q) - 1 : Tail(q)[i] = q[i + 1]
      /\ Head(q) = q[1]
  BY HeadTailProperties
<1> DEFINE T == Where(Tail(q), X)
           W == Where(q, X)
<1>2. \A i \in T : i \in Nat /\ i + 1 \in W /\ i + 1 # 1
  BY <1>1 DEF Where
<1>3. \A i \in W : i \in Nat /\ (i # 1 => i - 1 \in T)
  BY <1>1 DEF Where
<1>4. 1 \in W <=> Head(q) \in X
  BY <1>1 DEF Where
<1>5. IsFiniteSet(T) /\ IsFiniteSet(W) /\ Cardinality(T) \in Nat /\ Cardinality(W) \in Nat
  BY <1>1, WhereFinite
<1> HIDE DEF T, W
<1>6. Cardinality(W \ {1}) = Cardinality(W) - (IF 1 \in W THEN 1 ELSE 0) /\ IsFiniteSet(W \ {1})
  <2>1. IsFiniteSet(W \ {1}) /\ Cardinality(W \ {1}) = IF 1 \in W THEN Cardinality(W) - 1 ELSE Cardinality(W)
    BY <1>5, FS_RemoveElement
  <2> QED BY <1>5, <2>1
<1>7. Cardinality(T) = Cardinality(W \ {1})
  <2> DEFINE f == [i \in T |-> i + 1]
  <2>1. f \in Bijection(T, W \ {1})
    <3>1. f \in [T -> W \ {1}]
      BY <1>2
    <3>2. \A i, j \in T : f[i] = f[j] => i = j
      BY <1>2
    <3>3. \A k \in W \ {1} : \E i \in T : f[i] = k
      <4> TAKE k \in W \ {1}
      <4>1. k - 1 \in T /\ f[k - 1] = k
        BY <1>3
      <4> QED BY <4>1
    <3> HIDE DEF f
    <3> QED BY <3>1, <3>2, <3>3 DEF Bijection, Injection, Surjection, IsInjective
  <2>2. ExistsBijection(T, W \ {1})
    BY <2>1 DEF ExistsBijection
  <2> QED BY <1>5, <2>2, FS_Bijection
<1> QED BY <1>2, <1>3, <1>4, <1>6, <1>7 DEF T, W

(* Two sets of places together.                                            *)
LEMMA UnionAtMost ==
  ASSUME NEW A, NEW B, IsFiniteSet(A), IsFiniteSet(B)
  PROVE  IsFiniteSet(A \cup B) /\ Cardinality(A \cup B) <= Cardinality(A) + Cardinality(B)
<1>1. IsFiniteSet(A \cap B)
  BY FS_Subset
<1>2. Cardinality(A \cap B) \in Nat /\ Cardinality(A) \in Nat /\ Cardinality(B) \in Nat
  BY <1>1, FS_CardinalityType
<1>3. /\ IsFiniteSet(A \cup B)
      /\ Cardinality(A \cup B) = Cardinality(A) + Cardinality(B) - Cardinality(A \cap B)
  BY FS_Union
<1> QED BY <1>2, <1>3

(* A set without two different elements.                                   *)
LEMMA AtMostOne ==
  ASSUME NEW A, \A i, j \in A : i = j
  PROVE  IsFiniteSet(A) /\ Cardinality(A) \in 0..1
<1>1. CASE A = {}
  BY <1>1, FS_EmptySet
<1>2. CASE A # {}
  <2>1. PICK i : A = {i}
    BY <1>2
  <2> QED BY <2>1, FS_Singleton
<1> QED BY <1>1, <1>2

----------------------------------------------------------------------------
(* The event queue of LwIPMgr.                                             *)

QEvt == [sig : MgrSig, text : Host]
Of(s) == {e \in QEvt : e.sig = s}

Ready(q) == Where(q, Of("RX_READY"))
Overrun(q) == Where(q, Of("RX_OVERRUN"))
Ticks(q) == Where(q, Of("SLOW_TICK"))
Sends(q) == Where(q, Of("SEND_UDP"))

(* The answers come before RX_READY, of which there is at most one, as the *)
(* interrupt is disabled until the frames are read; an RX_OVERRUN from the *)
(* interrupt before the last may still be in front of it.                  *)
Ordered(q) ==
  /\ \A i, j \in Ready(q) : i = j
  /\ \A i, j \in Ticks(q) : i = j
  /\ \A r \in Ready(q) : \A i \in Sends(q) : i < r
  /\ \A r \in Ready(q) : \A i, j \in Overrun(q) : (i < r <=> j < r) => i = j
  /\ Ready(q) = {} => \A i, j \in Overrun(q) : i = j

(* Places are numbers.                                                     *)
LEMMA Places ==
  ASSUME NEW q \in Seq(QEvt)
  PROVE  /\ Ready(q) \subseteq 1..Len(q) /\ Overrun(q) \subseteq 1..Len(q)
         /\ Ticks(q) \subseteq 1..Len(q) /\ Sends(q) \subseteq 1..Len(q)
         /\ Len(q) \in Nat
BY DEF Where, Ready, Overrun, Ticks, Sends

(* The first event is taken out.                                           *)
LEMMA OrderedTail ==
  ASSUME NEW q \in Seq(QEvt), q # << >>, Ordered(q)
  PROVE  /\ Ordered(Tail(q))
         /\ Head(q).sig = "RX_READY" => Ready(Tail(q)) = {} /\ Sends(Tail(q)) = {}
<1> DEFINE t == Tail(q)
<1>1. /\ \A i \in Ready(t) : i \in Nat /\ i + 1 \in Ready(q)
      /\ \A i \in Overrun(t) : i \in Nat /\ i + 1 \in Overrun(q)
      /\ \A i \in Ticks(t) : i \in Nat /\ i + 1 \in Ticks(q)
      /\ \A i \in Sends(t) : i \in Nat /\ i + 1 \in Sends(q)
  BY WhereTail DEF Ready, Overrun, Ticks, Sends
<1>2. \A i \in Ready(q) : i # 1 => i - 1 \in Ready(t)
  BY WhereTail DEF Ready
<1>3. t \in Seq(QEvt)
  BY HeadTailProperties
<1>3a. /\ Ready(q) \subseteq Nat /\ Overrun(q) \subseteq Nat /\ Ticks(q) \subseteq Nat
       /\ Sends(q) \subseteq Nat
       /\ Ready(t) \subseteq Nat \ {0} /\ Overrun(t) \subseteq Nat \ {0} /\ Ticks(t) \subseteq Nat \ {0}
       /\ Sends(t) \subseteq Nat \ {0}
  <2>1. /\ Ready(q) \subseteq 1..Len(q) /\ Overrun(q) \subseteq 1..Len(q)
        /\ Ticks(q) \subseteq 1..Len(q) /\ Sends(q) \subseteq 1..Len(q)
    BY Places
  <2> HIDE DEF t
  <2>2. /\ Ready(t) \subseteq 1..Len(t) /\ Overrun(t) \subseteq 1..Len(t)
        /\ Ticks(t) \subseteq 1..Len(t) /\ Sends(t) \subseteq 1..Len(t)
    BY <1>3, Places
  <2>3. \A n : 1..n \subseteq Nat \ {0}
    OBVIOUS
  <2> QED BY <2>1, <2>2, <2>3
<1> HIDE DEF t
<1>4. (\A i, j \in Ready(t) : i = j) /\ \A i, j \in Ticks(t) : i = j
  BY <1>1, <1>3a DEF Ordered
<1>5. \A r \in Ready(t) : \A i \in Sends(t) : i < r
  <2> TAKE r \in Ready(t)
  <2> TAKE i \in Sends(t)
  <2>1. i + 1 < r + 1
    BY <1>1 DEF Ordered
  <2> QED BY <1>3a, <2>1
<1>6. \A r \in Ready(t) : \A i, j \in Overrun(t) : (i < r <=> j < r) => i = j
  <2> SUFFICES ASSUME NEW r \in Ready(t), NEW i \in Overrun(t), NEW j \in Overrun(t), i < r <=> j < r
               PROVE  i = j
    OBVIOUS
  <2>1. r \in Nat /\ i \in Nat /\ j \in Nat
    BY <1>3a
  <2>2. i + 1 < r + 1 <=> j + 1 < r + 1
    BY <2>1
  <2>3. i + 1 = j + 1
    BY <1>1, <2>2 DEF Ordered
  <2> QED BY <2>1, <2>3
<1>7. Ready(t) = {} => \A i, j \in Overrun(t) : i = j
  <2> SUFFICES ASSUME Ready(t) = {}, NEW i \in Overrun(t), NEW j \in Overrun(t)
               PROVE  i = j
    OBVIOUS
  <2>1. i \in Nat \ {0} /\ j \in Nat \ {0} /\ i + 1 \in Overrun(q) /\ j + 1 \in Overrun(q)
    BY <1>1, <1>3a
  <2>2. Ready(q) = {} \/ 1 \in Ready(q)
    BY <1>2
  <2>3. i + 1 = j + 1
    <3>1. CASE Ready(q) = {}
      BY <2>1, <3>1 DEF Ordered
    <3>2. CASE 1 \in Ready(q)
      <4>1. ~(i + 1 < 1) /\ ~(j + 1 < 1)
        BY <2>1
      <4> QED BY <2>1, <3>2, <4>1 DEF Ordered
    <3> QED BY <2>2, <3>1, <3>2
  <2> QED BY <2>1, <2>3
<1>8. Head(q).sig = "RX_READY" => Ready(t) = {} /\ Sends(t) = {}
  <2> SUFFICES ASSUME Head(q).sig = "RX_READY" PROVE Ready(t) = {} /\ Sends(t) = {}
    OBVIOUS
  <2>1. Head(q) \in QEvt
    BY HeadTailProperties
  <2>2. Head(q) \in Of("RX_READY")
    BY <2>1 DEF Of
  <2>3. 1 \in Ready(q)
    BY <2>2, WhereTail DEF Ready
  <2>4. \A i \in Ready(q) : i = 1
    BY <2>3 DEF Ordered
  <2>5. Ready(t) = {}
    BY <1>1, <1>3a, <2>4
  <2>6. Sends(t) = {}
    BY <1>1, <1>3a, <2>3 DEF Ordered
  <2> QED BY <2>5, <2>6
<1> QED BY <1>4, <1>5, <1>6, <1>7, <1>8 DEF Ordered, t

(* How the places change when an event is posted.                          *)
LEMMA Posted ==
  ASSUME NEW q \in Seq(QEvt), NEW e \in QEvt
  PROVE  /\ Append(q, e) \in Seq(QEvt) /\ Len(Append(q, e)) = Len(q) + 1
         /\ Ready(Append(q, e)) = Ready(q) \cup (IF e.sig = "RX_READY" THEN {Len(q) + 1} ELSE {})
         /\ Overrun(Append(q, e)) = Overrun(q) \cup (IF e.sig = "RX_OVERRUN" THEN {Len(q) + 1} ELSE {})
         /\ Ticks(Append(q, e)) = Ticks(q) \cup (IF e.sig = "SLOW_TICK" THEN {Len(q) + 1} ELSE {})
         /\ Sends(Append(q, e)) = Sends(q) \cup (IF e.sig = "SEND_UDP" THEN {Len(q) + 1} ELSE {})
         /\ Cardinality(Sends(Append(q, e))) =
              Cardinality(Sends(q)) + (IF e.sig = "SEND_UDP" THEN 1 ELSE 0)
<1>1. \A s : e \in Of(s) <=> e.sig = s
  BY DEF Of
<1>2. \A s : /\ Where(Append(q, e), Of(s)) = Where(q, Of(s)) \cup (IF e \in Of(s) THEN {Len(q) + 1} ELSE {})
             /\ Cardinality(Where(Append(q, e), Of(s))) =
                  Cardinality(Where(q, Of(s))) + (IF e \in Of(s) THEN 1 ELSE 0)
  BY WhereAppend
<1>3. Append(q, e) \in Seq(QEvt) /\ Len(Append(q, e)) = Len(q) + 1
  BY AppendProperties
<1>4. Ready(Append(q, e)) = Ready(q) \cup (IF e.sig = "RX_READY" THEN {Len(q) + 1} ELSE {})
  BY <1>1, <1>2 DEF Ready
<1>5. Overrun(Append(q, e)) = Overrun(q) \cup (IF e.sig = "RX_OVERRUN" THEN {Len(q) + 1} ELSE {})
  BY <1>1, <1>2 DEF Overrun
<1>6. Ticks(Append(q, e)) = Ticks(q) \cup (IF e.sig = "SLOW_TICK" THEN {Len(q) + 1} ELSE {})
  BY <1>1, <1>2 DEF Ticks
<1>7. /\ Sends(Append(q, e)) = Sends(q) \cup (IF e.sig = "SEND_UDP" THEN {Len(q) + 1} ELSE {})
      /\ Cardinality(Sends(Append(q, e))) =
           Cardinality(Sends(q)) + (IF e.sig = "SEND_UDP" THEN 1 ELSE 0)
  BY <1>1, <1>2 DEF Sends
<1> QED BY <1>3, <1>4, <1>5, <1>6, <1>7

(* An answer, the event of the interrupt or a tick is posted.              *)
LEMMA OrderedPosted ==
  ASSUME NEW q \in Seq(QEvt), Ordered(q), NEW e \in QEvt,
         \/ e.sig \in {"SEND_UDP", "RX_READY"} /\ Ready(q) = {}
         \/ e.sig = "SLOW_TICK" /\ Ticks(q) = {}
  PROVE  Ordered(Append(q, e))
<1> DEFINE t == Append(q, e)
           n == Len(q) + 1
<1>1. /\ Ready(t) = Ready(q) \cup (IF e.sig = "RX_READY" THEN {n} ELSE {})
      /\ Overrun(t) = Overrun(q) \cup (IF e.sig = "RX_OVERRUN" THEN {n} ELSE {})
      /\ Ticks(t) = Ticks(q) \cup (IF e.sig = "SLOW_TICK" THEN {n} ELSE {})
      /\ Sends(t) = Sends(q) \cup (IF e.sig = "SEND_UDP" THEN {n} ELSE {})
  BY Posted
<1>2. /\ \A i \in Ready(q) \cup Overrun(q) \cup Ticks(q) \cup Sends(q) : i < n /\ i \in Nat
      /\ n \in Nat
  BY Places
<1> HIDE DEF t, n
<1>3. ASSUME e.sig = "SEND_UDP" /\ Ready(q) = {} PROVE Ordered(t)
  BY <1>1, <1>2, <1>3 DEF Ordered
<1>4. ASSUME e.sig = "RX_READY" /\ Ready(q) = {} PROVE Ordered(t)
  BY <1>1, <1>2, <1>4 DEF Ordered
<1>5. ASSUME e.sig = "SLOW_TICK" /\ Ticks(q) = {} PROVE Ordered(t)
  BY <1>1, <1>2, <1>5 DEF Ordered
<1>6. Ordered(t)
  BY <1>3, <1>4, <1>5
<1> QED BY <1>6 DEF t

(* RX_OVERRUN is posted right after RX_READY.                              *)
LEMMA OrderedOverrun ==
  ASSUME NEW q \in Seq(QEvt), Ordered(q), Ready(q) = {}, NEW e \in QEvt, e.sig = "RX_READY",
         NEW d \in QEvt, d.sig = "RX_OVERRUN"
  PROVE  Ordered(Append(Append(q, e), d))
<1> DEFINE t == Append(q, e)
           u == Append(t, d)
           n == Len(q) + 1
           m == Len(q) + 2
<1>1. /\ t \in Seq(QEvt) /\ Len(t) = n
      /\ Ready(t) = Ready(q) \cup {n} /\ Overrun(t) = Overrun(q)
      /\ Ticks(t) = Ticks(q) /\ Sends(t) = Sends(q)
  BY Posted
<1>2. Len(t) + 1 = m
  BY <1>1
<1> HIDE DEF m
<1>3. /\ Ready(u) = Ready(t) /\ Overrun(u) = Overrun(t) \cup {m}
      /\ Ticks(u) = Ticks(t) /\ Sends(u) = Sends(t)
  BY <1>1, <1>2, Posted
<1>4. /\ \A i \in Overrun(q) \cup Sends(q) \cup Ticks(q) : i < n /\ i \in Nat
      /\ n \in Nat /\ m \in Nat /\ n < m
  BY Places DEF m
<1> HIDE DEF n, t, u
<1>5. /\ Ready(u) = {n} /\ Overrun(u) = Overrun(q) \cup {m} /\ Ticks(u) = Ticks(q) /\ Sends(u) = Sends(q)
  BY <1>1, <1>3
<1>6. \A i, j \in Overrun(q) : i = j
  BY DEF Ordered
<1>7. \A i, j \in Overrun(u) : (i < n <=> j < n) => i = j
  BY <1>4, <1>5, <1>6
<1>8. Ordered(u)
  BY <1>4, <1>5, <1>7 DEF Ordered
<1> QED BY <1>8 DEF t, u

(* So little fits into an ordered queue.                                   *)
LEMMA OrderedLength ==
  ASSUME NEW q \in Seq(QEvt), Ordered(q)
  PROVE  /\ Len(q) <= Cardinality(Sends(q)) + 4
         /\ Ticks(q) = {} => Len(q) <= Cardinality(Sends(q)) + 3
         /\ Ready(q) = {} => Len(q) <= Cardinality(Sends(q)) + 2
<1> DEFINE s == Cardinality(Sends(q))
           r == Cardinality(Ready(q))
           o == Cardinality(Overrun(q))
           k == Cardinality(Ticks(q))
<1>1. 1..Len(q) = ((Sends(q) \cup Ready(q)) \cup Overrun(q)) \cup Ticks(q)
  <2>1. \A i \in 1..Len(q) : q[i] \in QEvt
    BY ElementOfSeq
  <2>2. \A e \in QEvt : e.sig \in MgrSig
    BY DEF QEvt
  <2> QED BY <2>1, <2>2 DEF MgrSig, Of, Where, Ready, Overrun, Ticks, Sends
<1>2. IsFiniteSet(Sends(q)) /\ IsFiniteSet(Ready(q)) /\ IsFiniteSet(Overrun(q)) /\ IsFiniteSet(Ticks(q))
  BY WhereFinite DEF Ready, Overrun, Ticks, Sends
<1>3. s \in Nat /\ r \in Nat /\ o \in Nat /\ k \in Nat
  BY <1>2, FS_CardinalityType
<1>4. r \in 0..1 /\ k \in 0..1
  BY AtMostOne DEF Ordered
<1>5. o <= 2 /\ (Ready(q) = {} => o <= 1)
  <2>1. CASE Ready(q) = {}
    <3>1. o \in 0..1
      BY <2>1, AtMostOne DEF Ordered
    <3> QED BY <3>1
  <2>2. CASE Ready(q) # {}
    <3>1. PICK p : p \in Ready(q)
      BY <2>2
    <3> DEFINE A == {i \in Overrun(q) : i < p}
               B == {i \in Overrun(q) : ~(i < p)}
    <3>2. (\A i, j \in A : i = j) /\ (\A i, j \in B : i = j)
      BY <3>1 DEF Ordered
    <3>3. IsFiniteSet(A) /\ IsFiniteSet(B) /\ Cardinality(A) \in 0..1 /\ Cardinality(B) \in 0..1
      <4> HIDE DEF A, B
      <4> QED BY <3>2, AtMostOne
    <3>4. Overrun(q) = A \cup B
      OBVIOUS
    <3> HIDE DEF A, B
    <3>5. o <= Cardinality(A) + Cardinality(B)
      BY <3>3, <3>4, UnionAtMost
    <3> QED BY <1>3, <2>2, <3>3, <3>5
  <2> QED BY <2>1, <2>2
<1>6. Len(q) <= s + r + o + k
  <2>1. IsFiniteSet(Sends(q) \cup Ready(q)) /\ Cardinality(Sends(q) \cup Ready(q)) <= s + r
    BY <1>2, UnionAtMost
  <2> DEFINE U == (Sends(q) \cup Ready(q)) \cup Overrun(q)
  <2>2. IsFiniteSet(U) /\ Cardinality(U) <= Cardinality(Sends(q) \cup Ready(q)) + o
    BY <1>2, <2>1, UnionAtMost
  <2>3. Cardinality(U \cup Ticks(q)) <= Cardinality(U) + k
    BY <1>2, <2>2, UnionAtMost
  <2>4. Cardinality(1..Len(q)) = Len(q)
    <3>1. Len(q) \in Nat
      OBVIOUS
    <3> QED BY <3>1, FS_Interval
  <2>5. Cardinality(U) \in Nat /\ Cardinality(Sends(q) \cup Ready(q)) \in Nat
    BY <2>1, <2>2, FS_CardinalityType
  <2>6. 1..Len(q) = U \cup Ticks(q)
    BY <1>1
  <2> HIDE DEF U, s, r, o, k
  <2>7. Len(q) <= Cardinality(U) + k
    BY <2>3, <2>4, <2>6
  <2>8. Len(q) \in Nat
    OBVIOUS
  <2> QED BY <1>3, <2>1, <2>2, <2>5, <2>7, <2>8
<1>7. (Ready(q) = {} => r = 0) /\ (Ticks(q) = {} => k = 0)
  BY FS_EmptySet
<1>8. Len(q) \in Nat
  OBVIOUS
<1> HIDE DEF s, r, o, k
<1>9. /\ Len(q) <= s + 4
      /\ Ticks(q) = {} => Len(q) <= s + 3
      /\ Ready(q) = {} => Len(q) <= s + 2
  BY <1>3, <1>4, <1>5, <1>6, <1>7, <1>8
<1> QED BY <1>9 DEF s

----------------------------------------------------------------------------
(* The inductive invariant.                                                *)

InRead  == ev.sig = "RX_READY"
Waiting == Cardinality(Sends(queue))

(* The event that is handled and where its handling is.                    *)
PhaseInv ==
  /\ pc = "idle" <=> ev.sig = "NONE"
  /\ pc \in {"RX_READY", "connect"} => InRead
  /\ pc = "published" => ev.sig \in {"RX_READY", "SLOW_TICK"}
  /\ pc \in {"SLOW_TICK", "timers"} => ev.sig = "SLOW_TICK"
  /\ pc = "SEND_UDP" => ev.sig = "SEND_UDP" /\ ev.text \in Peer
  /\ IF pc = "connect" THEN from \in Peer ELSE from = NONE

(* Table only has what LwIPMgr is publishing.                              *)
TableInv ==
  \/ tableQ = << >>
  \/ pc = "connect" /\ tableQ = <<Evt("DISPLAY_UDP", from)>>
  \/ pc = "published" /\ tableQ = <<Evt("DISPLAY_CGI", NONE)>>
  \/ pc = "published" /\ \E a \in IpAddr \cup {ZERO} : tableQ = <<Evt("DISPLAY_IPADDR", a)>>

(* All answers go to one host: the peer, or that of the first datagram     *)
(* before upcb is connected to it.                                         *)
SenderInv ==
  /\ \A i \in Sends(queue) :
       queue[i].text \in Peer /\ queue[i].text = IF pc = "connect" THEN from ELSE peer
  /\ pc = "SEND_UDP" => ev.text = peer
  /\ pc = "connect" => peer \in {NONE, from}

Accounted ==
  N_TEXT - nText = Waiting + (IF pc = "SEND_UDP" THEN 1 ELSE 0)
                   + (IF pc \in {"connect", "published"} THEN 1 ELSE 0)

Pending == IF tableQ # << >> /\ pc = "connect" THEN 1 ELSE 0

(* RX_READY is posted when the receive interrupt is disabled, and frames   *)
(* are read before it is enabled; there are as many answers as datagrams   *)
(* in one such reading.                                                    *)
ReadInv ==
  /\ irq.IE = 1 <=> Ready(queue) = {} /\ ~InRead
  /\ InRead => Ready(queue) = {} /\ Waiting + Pending <= burst
  /\ Ordered(queue)
  /\ Waiting <= BURST
  /\ burst + Datagrams(ring) <= BURST
  /\ ~InRead => burst = 0

IInv ==
  /\ TypeOK /\ PhaseInv /\ TableInv /\ SenderInv /\ Accounted /\ ReadInv

----------------------------------------------------------------------------
(* What the invariant says of the queue and the ring.                      *)

(* The answers of the properties are the events SEND_UDP.                  *)
LEMMA AnswersAre ==
  ASSUME TypeOK
  PROVE  queue \in Seq(QEvt) /\ Answers = Sends(queue) /\ Waiting \in Nat
<1>1. queue \in Seq(QEvt)
  BY DEF TypeOK, QEvt
<1>2. \A i \in 1..Len(queue) : queue[i] \in QEvt
  BY <1>1, ElementOfSeq
<1> QED BY <1>1, <1>2, WhereFinite DEF Answers, Sends, Where, Of, Waiting

(* Frames that are datagrams.                                              *)
LEMMA DatagramsAre ==
  ASSUME NEW r \in Seq(Frame)
  PROVE  /\ Datagrams(r) \in Nat
         /\ \A f \in Frame : Datagrams(Append(r, f)) = Datagrams(r) + (IF f.kind = "udp" THEN 1 ELSE 0)
         /\ r # << >> => /\ Head(r) \in Frame /\ Tail(r) \in Seq(Frame)
                         /\ Datagrams(Tail(r)) = Datagrams(r) - (IF Head(r).kind = "udp" THEN 1 ELSE 0)
<1> DEFINE U == {f \in Frame : f.kind = "udp"}
<1>1. \A s \in Seq(Frame) : Datagrams(s) = Cardinality(Where(s, U))
  <2> TAKE s \in Seq(Frame)
  <2>1. \A i \in 1..Len(s) : s[i] \in Frame
    BY ElementOfSeq
  <2>2. Where(s, U) = {i \in 1..Len(s) : s[i].kind = "udp"}
    BY <2>1 DEF Where
  <2> QED BY <2>2 DEF Datagrams
<1>2. \A f \in Frame : f \in U <=> f.kind = "udp"
  OBVIOUS
<1> HIDE DEF U
<1>3. Datagrams(r) \in Nat
  BY <1>1, WhereFinite
<1>4. ASSUME NEW f \in Frame
      PROVE  Datagrams(Append(r, f)) = Datagrams(r) + (IF f.kind = "udp" THEN 1 ELSE 0)
  <2>1. Append(r, f) \in Seq(Frame)
    BY AppendProperties
  <2>2. Cardinality(Where(Append(r, f), U)) = Cardinality(Where(r, U)) + (IF f \in U THEN 1 ELSE 0)
    BY WhereAppend
  <2> QED BY <1>1, <1>2, <2>1, <2>2
<1>5. ASSUME r # << >>
      PROVE  /\ Head(r) \in Frame /\ Tail(r) \in Seq(Frame)
             /\ Datagrams(Tail(r)) = Datagrams(r) - (IF Head(r).kind = "udp" THEN 1 ELSE 0)
  <2>1. Head(r) \in Frame /\ Tail(r) \in Seq(Frame)
    BY <1>5, HeadTailProperties
  <2>2. Cardinality(Where(Tail(r), U)) = Cardinality(Where(r, U)) - (IF Head(r) \in U THEN 1 ELSE 0)
    BY <1>5, WhereTail
  <2> QED BY <1>1, <1>2, <2>1, <2>2
<1> QED BY <1>3, <1>4, <1>5

(* The events.                                                             *)
LEMMA Events ==
  /\ \A s \in MgrSig, t \in Host : Evt(s, t) \in QEvt /\ Evt(s, t).sig = s /\ Evt(s, t).text = t
  /\ NoEvt.sig = "NONE" /\ NoEvt \in [sig : MgrSig \cup {"NONE"}, text : Host]
  /\ MgrSig = {"RX_READY", "RX_OVERRUN", "SLOW_TICK", "SEND_UDP"} /\ NONE \in Host
BY DEF Evt, QEvt, NoEvt, Host, MgrSig

(* What an event queue without a new answer keeps.                         *)
LEMMA PostedOther ==
  ASSUME NEW q \in Seq(QEvt), NEW e \in QEvt, e.sig # "SEND_UDP"
  PROVE  /\ Sends(Append(q, e)) = Sends(q)
         /\ \A i \in Sends(q) : Append(q, e)[i] = q[i]
<1>1. \A i \in 1..Len(q) : Append(q, e)[i] = q[i]
  BY AppendProperties
<1> QED BY <1>1, Posted, Places

----------------------------------------------------------------------------
(* Every step keeps the invariant.                                         *)

(* An assertion stops the system.                                          *)
LEMMA HaltSafe ==
  ASSUME IInv, NEW why \in {"empty", "overflow"}, Halt(why)
  PROVE  IInv'
<1>1. TypeOK'
  BY DEF Halt, netVars, IInv, TypeOK
<1>2. PhaseInv' /\ TableInv' /\ SenderInv' /\ Accounted' /\ ReadInv'
  BY DEF Halt, netVars, IInv, PhaseInv, TableInv, SenderInv, Accounted, Waiting, ReadInv, InRead, Pending
<1> QED BY <1>1, <1>2 DEF IInv

(* A frame arrives.                                                        *)
LEMMA FrameArrivesSafe ==
  ASSUME IInv, NEW f \in Frame, FrameArrives(f)
  PROVE  IInv'
<1>1. /\ ring \in Seq(Frame) /\ irq \in [R : {0, 1}, RO : {0, 1}, IE : {0, 1}]
      /\ burst \in 0..BURST /\ BURST \in Nat
  BY MgrAssumption DEF IInv, TypeOK
<1>2. irq' \in [R : {0, 1}, RO : {0, 1}, IE : {0, 1}] /\ irq'.IE = irq.IE
  BY <1>1 DEF FrameArrives
<1>3. ring' \in Seq(Frame)
  BY <1>1, AppendProperties DEF FrameArrives
<1>4. TypeOK'
  BY <1>2, <1>3 DEF FrameArrives, netVars, IInv, TypeOK
<1>5. burst' + Datagrams(ring') <= BURST
  <2>1. /\ ring' = Append(ring, f) /\ burst' = burst
        /\ f.kind = "udp" => burst + Datagrams(ring) < BURST
        /\ burst + Datagrams(ring) <= BURST
    BY DEF FrameArrives, IInv, ReadInv
  <2> QED BY <1>1, <2>1, DatagramsAre
<1>6. UNCHANGED <<queue, tableQ, nText, pc, ev, from, burst, netVars, shown, status>>
  BY DEF FrameArrives
<1>7. PhaseInv' /\ TableInv' /\ SenderInv' /\ Accounted'
  BY <1>6 DEF netVars, IInv, PhaseInv, TableInv, SenderInv, Accounted, Waiting, InRead
<1>8. ReadInv'
  BY <1>2, <1>5, <1>6 DEF netVars, IInv, ReadInv, Waiting, InRead, Pending
<1> QED BY <1>4, <1>7, <1>8 DEF IInv

(* The receive interrupt.                                                  *)
LEMMA IrqSafe ==
  ASSUME IInv, ETH_IRQHandler
  PROVE  IInv'
<1> DEFINE e  == Evt("RX_READY", NONE)
           d  == Evt("RX_OVERRUN", NONE)
           es == <<e>> \o (IF irq.RO = 1 THEN <<d>> ELSE << >>)
<1>1. e \in QEvt /\ e.sig = "RX_READY" /\ d \in QEvt /\ d.sig = "RX_OVERRUN"
  BY Events
<1>2. queue \in Seq(QEvt) /\ Ready(queue) = {} /\ ~InRead /\ Ordered(queue)
      /\ irq \in [R : {0, 1}, RO : {0, 1}, IE : {0, 1}]
  BY AnswersAre DEF IInv, ReadInv, ETH_IRQHandler, TypeOK
<1> DEFINE q1 == Append(queue, e)
           q2 == Append(q1, d)
<1>3. q1 = queue \o <<e>> /\ q2 = queue \o (<<e>> \o <<d>>) /\ q1 \in Seq(QEvt) /\ q2 \in Seq(QEvt)
  <2>1. q1 = queue \o <<e>> /\ q1 \in Seq(QEvt)
    BY <1>1, <1>2, AppendIsConcat, AppendProperties
  <2>2. q2 = q1 \o <<d>> /\ q2 \in Seq(QEvt)
    <3> HIDE DEF q1
    <3> QED BY <1>1, <2>1, AppendIsConcat, AppendProperties
  <2>3. <<e>> \in Seq(QEvt) /\ <<d>> \in Seq(QEvt)
    BY <1>1
  <2>4. (queue \o <<e>>) \o <<d>> = queue \o (<<e>> \o <<d>>)
    <3> DEFINE a == <<e>>
               b == <<d>>
    <3> HIDE DEF a, b
    <3>1. (queue \o a) \o b = queue \o (a \o b)
      BY <1>2, <2>3, ConcatAssociative DEF a, b
    <3> QED BY <3>1 DEF a, b
  <2> QED BY <2>1, <2>2, <2>4
<1>4. \/ Halt("overflow")
      \/ /\ queue' \in {q1, q2} /\ irq' = [irq EXCEPT !.R = 0, !.IE = 0]
         /\ UNCHANGED <<ring, tableQ, nText, pc, ev, from, burst, netVars, shown, status>>
  <2>1. <<e>> \o << >> = <<e>>
    OBVIOUS
  <2>2. es \in {<<e>>, <<e>> \o <<d>>}
    BY <2>1
  <2>3. queue \o es \in {q1, q2}
    BY <1>3, <2>2
  <2>4. \/ Halt("overflow")
        \/ /\ queue' = queue \o es /\ irq' = [irq EXCEPT !.R = 0, !.IE = 0]
           /\ UNCHANGED <<ring, tableQ, nText, pc, ev, from, burst, netVars, shown, status>>
    BY DEF ETH_IRQHandler, Posting
  <2> HIDE DEF es, q1, q2
  <2> QED BY <2>3, <2>4
<1>5. CASE Halt("overflow")
  BY <1>5, HaltSafe
<1>6. CASE /\ queue' \in {q1, q2} /\ irq' = [irq EXCEPT !.R = 0, !.IE = 0]
           /\ UNCHANGED <<ring, tableQ, nText, pc, ev, from, burst, netVars, shown, status>>
  <2>1. /\ Ready(q1) # {} /\ Sends(q1) = Sends(queue) /\ \A i \in Sends(queue) : q1[i] = queue[i]
        /\ Ordered(q1)
    BY <1>1, <1>2, Posted, PostedOther, OrderedPosted
  <2>2. /\ Ready(q2) # {} /\ Sends(q2) = Sends(queue) /\ \A i \in Sends(queue) : q2[i] = queue[i]
        /\ Ordered(q2)
    <3>1. Ordered(q2)
      BY <1>1, <1>2, OrderedOverrun
    <3> HIDE DEF q1
    <3>2. Ready(q2) # {} /\ Sends(q2) = Sends(q1) /\ \A i \in Sends(q1) : q2[i] = q1[i]
      BY <1>1, <1>3, <2>1, Posted, PostedOther
    <3> QED BY <2>1, <3>1, <3>2
  <2> HIDE DEF q1, q2
  <2>3. /\ Ready(queue') # {} /\ Sends(queue') = Sends(queue) /\ Ordered(queue')
        /\ \A i \in Sends(queue) : queue'[i] = queue[i]
        /\ queue' \in Seq(QEvt)
    BY <1>3, <1>6, <2>1, <2>2
  <2>4. irq' \in [R : {0, 1}, RO : {0, 1}, IE : {0, 1}] /\ irq'.IE = 0
    BY <1>2, <1>6
  <2>5. TypeOK'
    BY <1>6, <2>3, <2>4 DEF netVars, IInv, TypeOK, QEvt
  <2>6. PhaseInv' /\ TableInv' /\ Accounted'
    BY <1>6, <2>3 DEF netVars, IInv, PhaseInv, TableInv, Accounted, Waiting, InRead
  <2>7. SenderInv'
    BY <1>6, <2>3 DEF netVars, IInv, SenderInv
  <2>8. ReadInv'
    BY <1>2, <1>6, <2>3, <2>4 DEF netVars, IInv, ReadInv, Waiting, InRead, Pending
  <2> QED BY <2>5, <2>6, <2>7, <2>8 DEF IInv
<1> QED BY <1>4, <1>5, <1>6

(* The clock.                                                              *)
LEMMA SlowTickSafe ==
  ASSUME IInv, SlowTick
  PROVE  IInv'
<1> DEFINE e == Evt("SLOW_TICK", NONE)
           q1 == Append(queue, e)
<1>1. e \in QEvt /\ e.sig = "SLOW_TICK"
  BY Events
<1>2. queue \in Seq(QEvt) /\ Ordered(queue)
  BY AnswersAre DEF IInv, ReadInv
<1>3. Ticks(queue) = {}
  BY <1>2 DEF SlowTick, Ticks, Where, Of
<1>4. q1 = queue \o <<e>> /\ q1 \in Seq(QEvt)
  BY <1>1, <1>2, AppendIsConcat, AppendProperties
<1>5. \/ Halt("overflow")
      \/ /\ queue' = q1
         /\ UNCHANGED <<ring, irq, tableQ, nText, pc, ev, from, burst, netVars, shown, status>>
  BY <1>4 DEF SlowTick, Posting
<1>6. CASE Halt("overflow")
  BY <1>6, HaltSafe
<1>7. CASE /\ queue' = q1
           /\ UNCHANGED <<ring, irq, tableQ, nText, pc, ev, from, burst, netVars, shown, status>>
  <2>1. /\ Ready(q1) = Ready(queue) /\ Sends(q1) = Sends(queue) /\ \A i \in Sends(queue) : q1[i] = queue[i]
        /\ Ordered(q1)
    <3> HIDE DEF e
    <3>1. Ready(q1) = Ready(queue)
      BY <1>1, <1>2, Posted
    <3>2. Sends(q1) = Sends(queue) /\ \A i \in Sends(queue) : q1[i] = queue[i]
      BY <1>1, <1>2, PostedOther
    <3>3. Ordered(q1)
      BY <1>1, <1>2, <1>3, OrderedPosted
    <3> QED BY <3>1, <3>2, <3>3
  <2> HIDE DEF q1
  <2>2. TypeOK'
    BY <1>4, <1>7 DEF netVars, IInv, TypeOK, QEvt
  <2>3. PhaseInv' /\ TableInv' /\ Accounted'
    BY <1>7, <2>1 DEF netVars, IInv, PhaseInv, TableInv, Accounted, Waiting, InRead
  <2>4. SenderInv'
    BY <1>7, <2>1 DEF netVars, IInv, SenderInv
  <2>5. ReadInv'
    BY <1>7, <2>1 DEF netVars, IInv, ReadInv, Waiting, InRead, Pending
  <2> QED BY <2>2, <2>3, <2>4, <2>5 DEF IInv
<1> QED BY <1>5, <1>6, <1>7

(* LwIPMgr takes an event out of its queue.                                *)
LEMMA DispatchSafe ==
  ASSUME IInv, Dispatch
  PROVE  IInv'
<1> DEFINE e == Head(queue)
           t == Tail(queue)
<1>1. /\ queue # << >> /\ pc = "idle" /\ tableQ = << >> /\ queue' = t
      /\ UNCHANGED <<ring, irq, tableQ, nText, from, burst, netVars, shown, status>>
      /\ \/ e.sig \in {"RX_READY", "SLOW_TICK", "SEND_UDP"} /\ ev' = e /\ pc' = e.sig
         \/ e.sig = "RX_OVERRUN" /\ UNCHANGED <<pc, ev>>
  BY DEF Dispatch, At
<1>2. queue \in Seq(QEvt) /\ Ordered(queue) /\ ev.sig = "NONE" /\ ~InRead /\ burst = 0 /\ from = NONE
      /\ Waiting \in Nat
  BY <1>1, AnswersAre DEF IInv, ReadInv, PhaseInv, InRead
<1>3. e \in QEvt /\ t \in Seq(QEvt) /\ e = queue[1]
  BY <1>1, <1>2, HeadTailProperties
<1>4. e.sig \in MgrSig /\ e.text \in Host /\ \A s : e \in Of(s) <=> e.sig = s
  BY <1>3 DEF QEvt, Of
<1>5. /\ \A i \in Sends(t) : i \in Nat /\ i + 1 \in Sends(queue) /\ t[i] = queue[i + 1]
      /\ 1 \in Sends(queue) <=> e.sig = "SEND_UDP"
      /\ Cardinality(Sends(t)) = Waiting - (IF e.sig = "SEND_UDP" THEN 1 ELSE 0)
  <2>1. /\ \A i \in Sends(t) : i \in Nat /\ i + 1 \in Sends(queue)
        /\ 1 \in Sends(queue) <=> e \in Of("SEND_UDP")
        /\ Cardinality(Sends(t)) = Cardinality(Sends(queue)) - (IF e \in Of("SEND_UDP") THEN 1 ELSE 0)
    BY <1>1, <1>2, WhereTail DEF Sends
  <2>2. \A i \in 1..Len(t) : t[i] = queue[i + 1]
    BY <1>1, <1>2, HeadTailProperties
  <2>3. Sends(t) \subseteq 1..Len(t)
    BY <1>3, Places
  <2> HIDE DEF t
  <2> QED BY <1>4, <2>1, <2>2, <2>3 DEF Waiting
<1>6. /\ Ready(t) = {} <=> Ready(queue) = {} \/ e.sig = "RX_READY"
      /\ e.sig = "RX_READY" => Ready(queue) # {} /\ Sends(t) = {}
  <2>1. /\ \A i \in Ready(t) : i + 1 \in Ready(queue)
        /\ \A i \in Ready(queue) : i # 1 => i - 1 \in Ready(t)
        /\ 1 \in Ready(queue) <=> e.sig = "RX_READY"
    BY <1>1, <1>2, <1>4, WhereTail DEF Ready
  <2>2. e.sig = "RX_READY" => Ready(t) = {} /\ Sends(t) = {}
    BY <1>1, <1>2, OrderedTail
  <2> HIDE DEF t
  <2> QED BY <2>1, <2>2
<1>7. Ordered(t)
  BY <1>1, <1>2, OrderedTail
<1>8. e.sig = "SEND_UDP" => e.text \in Peer /\ e.text = peer
  BY <1>1, <1>3, <1>5 DEF IInv, SenderInv
<1> HIDE DEF e, t
<1>9. (InRead <=> ev.sig = "RX_READY") /\ ((InRead)' <=> ev'.sig = "RX_READY")
  BY DEF InRead
<1>10. TypeOK'
  <2>1. pc' \in {"idle", "RX_READY", "SLOW_TICK", "SEND_UDP"}
    BY <1>1
  <2>2. ev' \in [sig : MgrSig \cup {"NONE"}, text : Host]
    BY <1>1, <1>3 DEF IInv, TypeOK, QEvt
  <2> QED BY <1>1, <1>3, <2>1, <2>2 DEF netVars, IInv, TypeOK, QEvt
<1>11. PhaseInv' /\ TableInv'
  BY <1>1, <1>2, <1>4, <1>8, Events DEF netVars, IInv, PhaseInv, TableInv, InRead
<1>12. SenderInv'
  <2>1. peer' = peer /\ from' = from /\ pc' # "connect" /\ queue' = t
    BY <1>1 DEF netVars
  <2>2. pc' = "SEND_UDP" => ev'.text = peer
    BY <1>1, <1>8
  <2>3. \A i \in Sends(t) : t[i].text \in Peer /\ t[i].text = peer
    BY <1>1, <1>5 DEF IInv, SenderInv
  <2> QED BY <2>1, <2>2, <2>3 DEF SenderInv
<1>13. Accounted'
  <2>1. (Waiting)' = Waiting - (IF e.sig = "SEND_UDP" THEN 1 ELSE 0)
    BY <1>1, <1>5 DEF Waiting
  <2>2. N_TEXT - nText = Waiting /\ nText' = nText
    BY <1>1, <1>2 DEF IInv, Accounted
  <2>3. pc' \notin {"connect", "published"} /\ (pc' = "SEND_UDP" <=> e.sig = "SEND_UDP")
    BY <1>1
  <2> QED BY <1>2, <2>1, <2>2, <2>3 DEF Accounted
<1>14. ReadInv'
  <2>1. irq' = irq /\ burst' = burst /\ ring' = ring /\ tableQ' = << >> /\ queue' = t
    BY <1>1
  <2>2. (InRead)' <=> e.sig = "RX_READY"
    BY <1>1, <1>2, <1>9
  <2>3. irq'.IE = 1 <=> Ready(t) = {} /\ ~(InRead)'
    BY <1>2, <1>6, <2>1, <2>2 DEF IInv, ReadInv
  <2>4. (Waiting)' = Cardinality(Sends(t)) /\ (Waiting)' \in Nat /\ (Waiting)' <= Waiting
    <3>1. Cardinality(Sends(t)) \in Nat
      BY <1>3, WhereFinite DEF Sends
    <3> QED BY <1>2, <1>5, <2>1, <3>1 DEF Waiting
  <2>5. (Waiting)' <= BURST
    BY <1>2, <2>4, MgrAssumption DEF IInv, ReadInv
  <2>6. (InRead)' => Ready(t) = {} /\ (Waiting)' + (Pending)' <= burst'
    <3>1. (InRead)' => Sends(t) = {}
      BY <1>6, <2>2
    <3>2. (InRead)' => (Waiting)' = 0
      BY <2>4, <3>1, FS_EmptySet
    <3>3. (Pending)' = 0
      BY <2>1 DEF Pending
    <3> QED BY <1>2, <1>6, <2>1, <2>2, <3>2, <3>3
  <2>7. burst' + Datagrams(ring') <= BURST /\ burst' = 0
    BY <1>2, <2>1 DEF IInv, ReadInv
  <2> QED BY <1>7, <2>1, <2>3, <2>5, <2>6, <2>7 DEF ReadInv
<1> QED BY <1>10, <1>11, <1>12, <1>13, <1>14 DEF IInv

(* LwIPMgr goes on without a change of its queue, of the pool and of the   *)
(* ring.                                                                   *)
LEMMA QuietSafe ==
  ASSUME IInv, ReadEnd \/ Timers \/ (ShowAddress /\ ~HasChanged)
  PROVE  IInv'
<1>1. /\ queue' = queue /\ nText' = nText /\ tableQ' = tableQ /\ tableQ = << >> /\ ring' = ring
      /\ from' = from /\ peer' = peer /\ status' = status /\ ip_addr' = ip_addr /\ shown' = shown
      /\ Waiting \in Nat
  BY AnswersAre DEF ReadEnd, Timers, ShowAddress, PublishText, netVars, At, IInv
<1>2. (Waiting)' = Waiting
  BY <1>1 DEF Waiting
<1>3. /\ pc \in {"RX_READY", "SLOW_TICK", "timers"} /\ pc' \in {"idle", "timers"}
      /\ from = NONE
  BY DEF ReadEnd, Timers, ShowAddress, At, IInv, PhaseInv
<1>4. TableInv' /\ SenderInv' /\ Accounted'
  BY <1>1, <1>2, <1>3 DEF IInv, TableInv, SenderInv, Accounted
<1>5. CASE ReadEnd
  <2>1. /\ pc' = "idle" /\ ev' = NoEvt /\ burst' = 0 /\ irq' = [irq EXCEPT !.IE = 1]
        /\ netifIp' = netifIp /\ dhcpTmr' = dhcpTmr /\ pc = "RX_READY" /\ ring = << >>
    BY <1>5 DEF ReadEnd, netVars, At
  <2>2. irq' \in [R : {0, 1}, RO : {0, 1}, IE : {0, 1}] /\ irq'.IE = 1
    BY <2>1 DEF IInv, TypeOK
  <2>3. TypeOK'
    BY <1>1, <2>1, <2>2, Events, MgrAssumption DEF IInv, TypeOK
  <2>4. PhaseInv'
    BY <1>1, <1>3, <2>1, Events DEF PhaseInv
  <2>5. ReadInv'
    <3>1. InRead /\ ~(InRead)'
      BY <2>1, Events DEF IInv, PhaseInv, InRead
    <3>2. burst' + Datagrams(ring') <= BURST
      <4>1. burst + Datagrams(ring) <= BURST /\ burst \in Nat /\ Datagrams(ring) \in Nat /\ BURST \in Nat
        BY DatagramsAre, MgrAssumption DEF IInv, ReadInv, TypeOK
      <4> QED BY <1>1, <2>1, <4>1
    <3> QED BY <1>1, <1>2, <2>1, <2>2, <3>1, <3>2 DEF IInv, ReadInv
  <2> QED BY <1>4, <2>3, <2>4, <2>5 DEF IInv
<1>6. CASE Timers \/ (ShowAddress /\ ~HasChanged)
  <2>1. /\ burst' = burst /\ irq' = irq /\ pc \in {"timers", "SLOW_TICK"}
        /\ \/ pc' = "idle" /\ ev' = NoEvt
           \/ pc' = "timers" /\ ev' = ev
    BY <1>6 DEF Timers, ShowAddress, At
  <2>2. ev.sig = "SLOW_TICK" /\ ev'.sig \in {"SLOW_TICK", "NONE"} /\ ev' \in [sig : MgrSig \cup {"NONE"}, text : Host]
    BY <2>1, Events DEF IInv, PhaseInv, TypeOK
  <2>3. netifIp' \in IpAddr \cup {ZERO} /\ dhcpTmr' \in 0..DHCP_TICKS - 1
    <3>1. dhcpTmr \in 0..DHCP_TICKS - 1 /\ netifIp \in IpAddr \cup {ZERO} /\ DHCP_TICKS \in Nat \ {0}
      BY MgrAssumption DEF IInv, TypeOK
    <3>2. CASE Timers
      BY <3>1, <3>2 DEF Timers
    <3>3. CASE ShowAddress /\ ~HasChanged
      BY <3>1, <3>3 DEF ShowAddress, netVars
    <3> QED BY <1>6, <3>2, <3>3
  <2>4. TypeOK'
    BY <1>1, <2>1, <2>2, <2>3 DEF IInv, TypeOK
  <2>5. PhaseInv'
    BY <1>1, <1>3, <2>1, <2>2, Events DEF IInv, PhaseInv, InRead
  <2>6. ReadInv'
    BY <1>1, <1>2, <2>1, <2>2 DEF IInv, ReadInv, InRead, Pending
  <2> QED BY <1>4, <2>4, <2>5, <2>6 DEF IInv
<1> QED BY <1>5, <1>6

(* The frame at the head of the ring is taken.                             *)
LEMMA FrameTaken ==
  ASSUME IInv, ring # << >>
  PROVE  /\ Head(ring) \in Frame /\ Tail(ring) \in Seq(Frame)
         /\ burst \in Nat /\ BURST \in Nat
         /\ burst + Datagrams(Tail(ring)) + (IF Head(ring).kind = "udp" THEN 1 ELSE 0) <= BURST
         /\ Datagrams(Tail(ring)) \in Nat
<1>1. ring \in Seq(Frame) /\ burst \in Nat /\ BURST \in Nat /\ burst + Datagrams(ring) <= BURST
  BY MgrAssumption DEF IInv, TypeOK, ReadInv
<1>2. /\ Head(ring) \in Frame /\ Tail(ring) \in Seq(Frame)
      /\ Datagrams(Tail(ring)) = Datagrams(ring) - (IF Head(ring).kind = "udp" THEN 1 ELSE 0)
      /\ Datagrams(ring) \in Nat
  BY <1>1, DatagramsAre
<1>3. Datagrams(Tail(ring)) \in Nat
  BY <1>2, DatagramsAre
<1> QED BY <1>1, <1>2, <1>3

(* A frame that is no datagram to be answered.                             *)
LEMMA ReadOtherSafe ==
  ASSUME IInv, ReadForeign \/ ReadDhcp
  PROVE  IInv'
<1>1. /\ ring # << >> /\ ring' = Tail(ring)
      /\ UNCHANGED <<irq, queue, tableQ, nText, pc, ev, from, peer, ip_addr, dhcpTmr, shown, status>>
      /\ netifIp' \in IpAddr \cup {ZERO} /\ tableQ = << >> /\ pc = "RX_READY"
      /\ burst' = burst + (IF Head(ring).kind = "udp" THEN 1 ELSE 0)
  <2>1. burst \in Nat /\ netifIp \in IpAddr \cup {ZERO}
    BY DEF IInv, TypeOK
  <2>2. CASE ReadForeign
    BY <2>1, <2>2 DEF ReadForeign, Reading, netVars, At
  <2>3. CASE ReadDhcp
    BY <2>1, <2>3 DEF ReadDhcp, Reading, netVars, At
  <2> QED BY <2>2, <2>3
<1>2. /\ ring' \in Seq(Frame) /\ burst' \in Nat /\ burst' >= burst /\ burst \in Nat
      /\ burst' + Datagrams(ring') <= BURST /\ burst' <= BURST
  BY <1>1, FrameTaken
<1>3. burst' \in 0..BURST
  BY <1>2, MgrAssumption
<1>4. TypeOK'
  BY <1>1, <1>2, <1>3 DEF IInv, TypeOK
<1>5. PhaseInv' /\ TableInv' /\ SenderInv' /\ Accounted'
  BY <1>1 DEF IInv, PhaseInv, TableInv, SenderInv, Accounted, Waiting, InRead
<1>6. ReadInv'
  <2>1. InRead /\ (InRead)' /\ Waiting \in Nat /\ (Waiting)' = Waiting /\ Pending = 0 /\ (Pending)' = 0
    BY <1>1, AnswersAre DEF IInv, PhaseInv, InRead, Waiting, Pending
  <2>2. Waiting <= burst'
    BY <1>2, <2>1 DEF IInv, ReadInv
  <2> QED BY <1>1, <1>2, <2>1, <2>2 DEF IInv, ReadInv
<1> QED BY <1>4, <1>5, <1>6 DEF IInv

(* A datagram is published for Table.                                      *)
LEMMA ReadDatagramSafe ==
  ASSUME IInv, ReadDatagram
  PROVE  IInv'
<1> DEFINE p == Head(ring).from
<1>1. /\ ring # << >> /\ pc = "RX_READY" /\ tableQ = << >> /\ Head(ring).kind = "udp" /\ peer \in {NONE, p}
      /\ PublishText(Evt("DISPLAY_UDP", p),
                 /\ ring' = Tail(ring) /\ burst' = burst + 1
                 /\ pc' = "connect" /\ from' = p
                 /\ UNCHANGED <<irq, queue, ev, netVars, shown>>)
  BY DEF ReadDatagram, Reading, At, Accepts
<1>2. CASE Halt("empty")
  BY <1>2, HaltSafe
<1>3. CASE /\ nText > 0 /\ nText' = nText - 1 /\ tableQ' = <<Evt("DISPLAY_UDP", p)>>
           /\ ring' = Tail(ring) /\ burst' = burst + 1 /\ pc' = "connect" /\ from' = p
           /\ UNCHANGED <<irq, queue, ev, netVars, shown, status>>
  <2>1. p \in Peer
    <3>1. Head(ring) \in Frame
      BY <1>1, FrameTaken
    <3> QED BY <1>1, <3>1 DEF Frame
  <2> HIDE DEF p
  <2>2. /\ ring' \in Seq(Frame) /\ burst' \in Nat /\ burst \in Nat
        /\ burst' + Datagrams(ring') <= BURST /\ burst' <= BURST
    BY <1>1, <1>3, FrameTaken
  <2>3. burst' \in 0..BURST
    BY <2>2, MgrAssumption
  <2>4. tableQ' \in Seq([sig : {"DISPLAY_UDP", "DISPLAY_CGI", "DISPLAY_IPADDR"}, text : Text])
    BY <1>3, <2>1 DEF Evt, Text, Host
  <2>5. nText' \in 0..N_TEXT
    BY <1>3, MgrAssumption DEF IInv, TypeOK
  <2>6. TypeOK'
    BY <1>3, <2>1, <2>2, <2>3, <2>4, <2>5 DEF netVars, IInv, TypeOK, Host
  <2>7. InRead /\ (InRead)' /\ Waiting \in Nat /\ (Waiting)' = Waiting /\ Pending = 0 /\ (Pending)' <= 1
        /\ (Pending)' \in Nat
    BY <1>1, <1>3, AnswersAre DEF IInv, PhaseInv, InRead, Waiting, Pending
  <2>8. PhaseInv' /\ TableInv'
    BY <1>1, <1>3, <2>1, <2>7 DEF IInv, PhaseInv, TableInv, InRead
  <2>9. SenderInv'
    <3>1. \A i \in Sends(queue) : queue[i].text \in Peer /\ queue[i].text = peer
      BY <1>1 DEF IInv, SenderInv
    <3>2. \A i \in Sends(queue) : queue[i].text = p
      BY <1>1, <3>1, MgrAssumption
    <3>3. queue' = queue /\ peer' = peer /\ pc' = "connect" /\ from' = p
      BY <1>3 DEF netVars
    <3> QED BY <1>1, <3>1, <3>2, <3>3 DEF SenderInv
  <2>10. Accounted'
    <3>1. N_TEXT - nText = Waiting /\ nText \in Nat /\ N_TEXT \in Nat
      BY <1>1, <2>7, MgrAssumption DEF IInv, Accounted, TypeOK
    <3> QED BY <1>3, <2>7, <3>1 DEF Accounted
  <2>11. ReadInv'
    <3>1. Waiting <= burst
      BY <2>7 DEF IInv, ReadInv
    <3>2. burst' = burst + 1
      BY <1>3
    <3> DEFINE w == Waiting
               w1 == (Waiting)'
               p1 == (Pending)'
    <3>3. w \in Nat /\ w1 = w /\ p1 \in Nat /\ p1 <= 1 /\ w <= burst /\ burst \in Nat
      BY <2>2, <2>7, <3>1
    <3> HIDE DEF w, w1, p1
    <3>4. w1 + p1 <= burst'
      BY <3>2, <3>3
    <3> QED BY <1>3, <2>2, <2>7, <3>4 DEF IInv, ReadInv, w1, p1
  <2> QED BY <2>6, <2>8, <2>9, <2>10, <2>11 DEF IInv
<1> QED BY <1>1, <1>2, <1>3 DEF PublishText

(* Another text is published.                                              *)
LEMMA PublishOtherSafe ==
  ASSUME IInv, ReadCgi \/ (ShowAddress /\ HasChanged)
  PROVE  IInv'
<1>1. CASE Halt("empty")
  BY <1>1, HaltSafe
<1>2. CASE /\ nText > 0 /\ nText' = nText - 1 /\ pc' = "published" /\ tableQ = << >>
           /\ pc \in {"RX_READY", "SLOW_TICK"}
           /\ \/ tableQ' = <<Evt("DISPLAY_CGI", NONE)>>
              \/ tableQ' = <<Evt("DISPLAY_IPADDR", netifIp)>>
           /\ (ring' = ring \/ (ring # << >> /\ ring' = Tail(ring)))
           /\ ip_addr' \in {ip_addr, netifIp}
           /\ UNCHANGED <<irq, queue, ev, from, burst, peer, netifIp, dhcpTmr, shown, status>>
  <2>1. netifIp \in IpAddr \cup {ZERO}
    BY DEF IInv, TypeOK
  <2>2. /\ ring' \in Seq(Frame) /\ burst + Datagrams(ring') <= BURST
    <3>1. CASE ring' = ring
      BY <3>1 DEF IInv, TypeOK, ReadInv
    <3>2. CASE ring # << >> /\ ring' = Tail(ring)
      BY <3>2, FrameTaken
    <3> QED BY <1>2, <3>1, <3>2
  <2>3. tableQ' \in Seq([sig : {"DISPLAY_UDP", "DISPLAY_CGI", "DISPLAY_IPADDR"}, text : Text])
    <3> DEFINE D == [sig : {"DISPLAY_UDP", "DISPLAY_CGI", "DISPLAY_IPADDR"}, text : Text]
               e1 == Evt("DISPLAY_CGI", NONE)
               e2 == Evt("DISPLAY_IPADDR", netifIp)
    <3>1. e1 \in D /\ e2 \in D
      BY <2>1 DEF Evt, Text, Host
    <3>2. tableQ' = <<e1>> \/ tableQ' = <<e2>>
      BY <1>2
    <3> HIDE DEF D, e1, e2
    <3>3. tableQ' \in Seq(D)
      BY <3>1, <3>2
    <3> QED BY <3>3 DEF D
  <2>4. nText' \in 0..N_TEXT
    BY <1>2, MgrAssumption DEF IInv, TypeOK
  <2>5. TypeOK'
    BY <1>2, <2>1, <2>2, <2>3, <2>4 DEF IInv, TypeOK
  <2>6. /\ Waiting \in Nat /\ (Waiting)' = Waiting /\ Pending = 0 /\ (Pending)' = 0
        /\ ((InRead)' <=> InRead)
    BY <1>2, AnswersAre DEF IInv, InRead, Waiting, Pending
  <2>7. PhaseInv' /\ TableInv'
    BY <1>2, <2>1 DEF IInv, PhaseInv, TableInv, InRead
  <2>8. SenderInv'
    BY <1>2 DEF IInv, SenderInv
  <2>9. Accounted'
    <3>1. N_TEXT - nText = Waiting /\ nText \in Nat /\ N_TEXT \in Nat
      BY <1>2, <2>6, MgrAssumption DEF IInv, Accounted, TypeOK
    <3> QED BY <1>2, <2>6, <3>1 DEF Accounted
  <2>10. ReadInv'
    BY <1>2, <2>2, <2>6 DEF IInv, ReadInv
  <2> QED BY <2>5, <2>7, <2>8, <2>9, <2>10 DEF IInv
<1>3. CASE ReadCgi
  BY <1>1, <1>2, <1>3 DEF ReadCgi, Reading, At, PublishText, netVars
<1>4. CASE ShowAddress /\ HasChanged
  <2>1. /\ pc = "SLOW_TICK" /\ tableQ = << >>
        /\ PublishText(Evt("DISPLAY_IPADDR", netifIp),
                       /\ ip_addr' = netifIp
                       /\ pc' = "published"
                       /\ UNCHANGED <<ring, irq, queue, ev, from, burst, peer, netifIp, dhcpTmr, shown>>)
    BY <1>4 DEF ShowAddress, At
  <2>2. CASE nText > 0
    <3>1. /\ nText' = nText - 1 /\ tableQ' = <<Evt("DISPLAY_IPADDR", netifIp)>> /\ ip_addr' = netifIp
          /\ pc' = "published" /\ status' = status
          /\ UNCHANGED <<ring, irq, queue, ev, from, burst, peer, netifIp, dhcpTmr, shown>>
      <4>1. ~ (nText = 0)
        BY <2>2
      <4> QED BY <2>1, <4>1 DEF PublishText
    <3>2. /\ nText > 0 /\ nText' = nText - 1 /\ pc' = "published" /\ tableQ = << >>
          /\ pc \in {"RX_READY", "SLOW_TICK"}
          /\ \/ tableQ' = <<Evt("DISPLAY_CGI", NONE)>>
             \/ tableQ' = <<Evt("DISPLAY_IPADDR", netifIp)>>
          /\ (ring' = ring \/ (ring # << >> /\ ring' = Tail(ring)))
          /\ ip_addr' \in {ip_addr, netifIp}
          /\ UNCHANGED <<irq, queue, ev, from, burst, peer, netifIp, dhcpTmr, shown, status>>
      BY <2>1, <2>2, <3>1
    <3> QED BY <1>2, <3>2
  <2>3. CASE ~ (nText > 0)
    BY <1>1, <2>1, <2>3 DEF PublishText
  <2> QED BY <2>2, <2>3
<1> QED BY <1>3, <1>4

(* QF_publish collects the text, udp_rx_handler connects to the sender, or *)
(* LwIPMgr has sent an answer.                                             *)
LEMMA CollectSafe ==
  ASSUME IInv, Connect \/ Published \/ SendUdp
  PROVE  IInv'
<1>1. /\ tableQ = << >> /\ nText' = nText + 1
      /\ UNCHANGED <<ring, irq, queue, tableQ, burst, ip_addr, netifIp, dhcpTmr, shown, status>>
      /\ pc \in {"connect", "published", "SEND_UDP"} /\ pc' \in {"idle", "RX_READY", "timers"}
  BY DEF Connect, Published, SendUdp, At, Collected, netVars
<1>2. /\ Waiting \in Nat /\ (Waiting)' = Waiting /\ Pending = 0 /\ (Pending)' = 0
  BY <1>1, AnswersAre DEF IInv, Waiting, Pending
<1>3. N_TEXT - nText = Waiting + 1 /\ nText \in Nat /\ N_TEXT \in Nat
  BY <1>1, <1>2, MgrAssumption DEF IInv, Accounted, TypeOK
<1>4. nText' \in 0..N_TEXT
  BY <1>1, <1>2, <1>3
<1>5. Accounted'
  BY <1>1, <1>2, <1>3 DEF Accounted
<1>6. TableInv'
  BY <1>1 DEF TableInv
<1>7. CASE Connect
  <2>1. pc = "connect" /\ peer' = from /\ from' = NONE /\ pc' = "RX_READY" /\ ev' = ev
    BY <1>7 DEF Connect, At
  <2>2. from \in Peer /\ ((InRead)' <=> InRead)
    BY <2>1 DEF IInv, PhaseInv, InRead
  <2>3. TypeOK'
    BY <1>1, <1>4, <2>1, <2>2 DEF IInv, TypeOK, Host
  <2>4. PhaseInv'
    BY <2>1 DEF IInv, PhaseInv, InRead
  <2>5. SenderInv'
    BY <1>1, <2>1 DEF IInv, SenderInv
  <2>6. ReadInv'
    BY <1>1, <1>2, <2>2 DEF IInv, ReadInv
  <2> QED BY <1>5, <1>6, <2>3, <2>4, <2>5, <2>6 DEF IInv
<1>8. CASE Published
  <2>1. /\ pc = "published" /\ pc' = IF ev.sig = "RX_READY" THEN "RX_READY" ELSE "timers"
        /\ UNCHANGED <<ev, from, peer>>
    BY <1>8 DEF Published, At, netVars
  <2>2. (InRead)' <=> InRead
    BY <2>1 DEF InRead
  <2>3. TypeOK'
    BY <1>1, <1>4, <2>1 DEF IInv, TypeOK
  <2>4. PhaseInv'
    BY <2>1 DEF IInv, PhaseInv, InRead
  <2>5. SenderInv'
    BY <1>1, <2>1 DEF IInv, SenderInv
  <2>6. ReadInv'
    BY <1>1, <1>2, <2>2 DEF IInv, ReadInv
  <2> QED BY <1>5, <1>6, <2>3, <2>4, <2>5, <2>6 DEF IInv
<1>9. CASE SendUdp
  <2>1. pc = "SEND_UDP" /\ pc' = "idle" /\ ev' = NoEvt /\ UNCHANGED <<from, peer>>
    BY <1>9 DEF SendUdp, At, netVars
  <2>2. ~InRead /\ ~(InRead)' /\ ev'.sig = "NONE" /\ ev' \in [sig : MgrSig \cup {"NONE"}, text : Host]
    BY <2>1, Events DEF IInv, PhaseInv, InRead
  <2>3. TypeOK'
    BY <1>1, <1>4, <2>1, <2>2 DEF IInv, TypeOK
  <2>4. PhaseInv'
    BY <2>1, <2>2 DEF IInv, PhaseInv, InRead
  <2>5. SenderInv'
    BY <1>1, <2>1 DEF IInv, SenderInv
  <2>6. ReadInv'
    BY <1>1, <1>2, <2>2 DEF IInv, ReadInv
  <2> QED BY <1>5, <1>6, <2>3, <2>4, <2>5, <2>6 DEF IInv
<1> QED BY <1>7, <1>8, <1>9

(* What is in front of Table.                                              *)
LEMMA TableHas ==
  ASSUME IInv, tableQ # << >>
  PROVE  /\ Tail(tableQ) = << >>
         /\ Head(tableQ).sig = "DISPLAY_UDP" => pc = "connect" /\ Head(tableQ).text = from /\ from \in Peer
         /\ Head(tableQ).sig # "DISPLAY_UDP" => pc = "published"
         /\ Head(tableQ).sig = "DISPLAY_IPADDR" => Head(tableQ).text \in IpAddr \cup {ZERO}
<1>1. CASE pc = "connect" /\ tableQ = <<Evt("DISPLAY_UDP", from)>>
  <2>1. from \in Peer
    BY <1>1 DEF IInv, PhaseInv
  <2>2. Head(tableQ) = Evt("DISPLAY_UDP", from) /\ Tail(tableQ) = << >>
    BY <1>1
  <2> QED BY <1>1, <2>1, <2>2 DEF Evt
<1>2. CASE pc = "published" /\ tableQ = <<Evt("DISPLAY_CGI", NONE)>>
  <2>1. Head(tableQ) = Evt("DISPLAY_CGI", NONE) /\ Tail(tableQ) = << >>
    BY <1>2
  <2> QED BY <1>2, <2>1 DEF Evt
<1>3. CASE pc = "published" /\ \E a \in IpAddr \cup {ZERO} : tableQ = <<Evt("DISPLAY_IPADDR", a)>>
  <2>1. PICK a \in IpAddr \cup {ZERO} : tableQ = <<Evt("DISPLAY_IPADDR", a)>>
    BY <1>3
  <2>2. Head(tableQ) = Evt("DISPLAY_IPADDR", a) /\ Tail(tableQ) = << >>
    BY <2>1
  <2> QED BY <1>3, <2>1, <2>2 DEF Evt
<1> QED BY <1>1, <1>2, <1>3 DEF IInv, TableInv

(* Table displays a text.                                                  *)
LEMMA TableDisplaySafe ==
  ASSUME IInv, TableDisplay
  PROVE  IInv'
<1>1. /\ tableQ # << >> /\ Head(tableQ).sig # "DISPLAY_UDP"
      /\ tableQ' = Tail(tableQ)
      /\ UNCHANGED <<ring, irq, pc, ev, from, burst, netVars, queue, nText, status>>
      /\ \/ shown' = shown
         \/ Head(tableQ).sig = "DISPLAY_IPADDR" /\ shown' = Head(tableQ).text
  BY DEF TableDisplay
<1>2. tableQ' = << >> /\ pc = "published" /\ shown' \in IpAddr \cup {ZERO, NO_ADDR}
  BY <1>1, TableHas DEF IInv, TypeOK
<1>3. TypeOK'
  BY <1>1, <1>2 DEF netVars, IInv, TypeOK
<1>4. PhaseInv' /\ TableInv' /\ SenderInv' /\ Accounted'
  BY <1>1, <1>2 DEF netVars, IInv, PhaseInv, TableInv, SenderInv, Accounted, Waiting, InRead
<1>5. ReadInv'
  BY <1>1, <1>2 DEF IInv, ReadInv, Waiting, InRead, Pending
<1> QED BY <1>3, <1>4, <1>5 DEF IInv

(* Table answers a datagram.                                               *)
LEMMA TableDisplayUdpSafe ==
  ASSUME IInv, TableDisplayUdp
  PROVE  IInv'
<1> DEFINE e  == Evt("SEND_UDP", from)
           q1 == Append(queue, e)
<1>1. /\ Tail(tableQ) = << >> /\ pc = "connect" /\ Head(tableQ).text = from /\ from \in Peer
      /\ tableQ # << >> /\ InRead
  BY TableHas DEF TableDisplayUdp, IInv, PhaseInv
<1>2. e \in QEvt /\ e.sig = "SEND_UDP" /\ e.text = from
  BY <1>1, Events DEF Host
<1>3. queue \in Seq(QEvt) /\ Ordered(queue) /\ Ready(queue) = {} /\ Waiting \in Nat
  BY <1>1, AnswersAre DEF IInv, ReadInv
<1>4. q1 = queue \o <<e>> /\ q1 \in Seq(QEvt)
  BY <1>2, <1>3, AppendIsConcat, AppendProperties
<1>5. \/ Halt("empty") \/ Halt("overflow")
      \/ /\ nText > 0 /\ queue' = q1 /\ nText' = nText - 1 /\ tableQ' = << >>
         /\ UNCHANGED <<ring, irq, pc, ev, from, burst, netVars, shown, status>>
  BY <1>1, <1>4 DEF TableDisplayUdp, Posting
<1>6. CASE Halt("empty") \/ Halt("overflow")
  BY <1>6, HaltSafe
<1>7. CASE /\ nText > 0 /\ queue' = q1 /\ nText' = nText - 1 /\ tableQ' = << >>
           /\ UNCHANGED <<ring, irq, pc, ev, from, burst, netVars, shown, status>>
  <2> HIDE DEF e
  <2>1. /\ Ready(q1) = {} /\ Ordered(q1)
        /\ Sends(q1) = Sends(queue) \cup {Len(queue) + 1}
        /\ Cardinality(Sends(q1)) = Waiting + 1
    BY <1>2, <1>3, Posted, OrderedPosted DEF Waiting
  <2>2. q1[Len(queue) + 1] = e /\ \A i \in Sends(queue) : q1[i] = queue[i]
    <3>1. /\ q1[Len(queue) + 1] = e /\ \A i \in 1..Len(queue) : q1[i] = queue[i]
      BY <1>2, <1>3, AppendProperties
    <3> HIDE DEF q1
    <3> QED BY <1>3, <3>1, Places
  <2> HIDE DEF q1
  <2>3. nText' \in 0..N_TEXT
    BY <1>7, MgrAssumption DEF IInv, TypeOK
  <2>4. TypeOK'
    BY <1>4, <1>7, <2>3 DEF netVars, IInv, TypeOK, QEvt
  <2>5. PhaseInv' /\ TableInv'
    BY <1>7 DEF IInv, PhaseInv, TableInv, InRead
  <2>6. SenderInv'
    <3>1. peer' = peer /\ from' = from /\ pc' = pc
      BY <1>7 DEF netVars
    <3>2. \A i \in Sends(q1) : q1[i].text = from
      BY <1>1, <1>2, <2>1, <2>2 DEF IInv, SenderInv
    <3> QED BY <1>1, <1>7, <3>1, <3>2 DEF IInv, SenderInv
  <2>7. (Waiting)' = Waiting + 1
    BY <1>7, <2>1 DEF Waiting
  <2>8. Accounted'
    <3>1. N_TEXT - nText = Waiting + 1 /\ nText \in Nat /\ N_TEXT \in Nat
      BY <1>1, <1>3, MgrAssumption DEF IInv, Accounted, TypeOK
    <3> QED BY <1>1, <1>3, <1>7, <2>7, <3>1 DEF Accounted
  <2>9. ReadInv'
    <3>1. Waiting + 1 <= burst /\ burst <= BURST /\ burst \in Nat /\ BURST \in Nat
      <4>1. Pending = 1
        BY <1>1 DEF Pending
      <4> QED BY <1>1, <4>1, MgrAssumption DEF IInv, ReadInv, TypeOK
    <3>2. (Pending)' = 0 /\ (InRead)' /\ burst' = burst
      BY <1>1, <1>7 DEF Pending, InRead
    <3>3. (Waiting)' + (Pending)' <= burst' /\ (Waiting)' <= BURST
      BY <1>3, <2>7, <3>1, <3>2
    <3> QED BY <1>1, <1>7, <2>1, <3>2, <3>3 DEF IInv, ReadInv
  <2> QED BY <2>4, <2>5, <2>6, <2>8, <2>9 DEF IInv
<1> QED BY <1>5, <1>6, <1>7

----------------------------------------------------------------------------
(* The theorems.                                                           *)

(* Everything is quiet at the start.                                       *)
LEMMA InitSafe == Init => IInv
<1> SUFFICES ASSUME Init PROVE IInv
  OBVIOUS
<1>1. /\ Sends(<< >>) = {} /\ Ready(<< >>) = {} /\ Ticks(<< >>) = {} /\ Overrun(<< >>) = {}
  BY DEF Sends, Ready, Ticks, Overrun, Where
<1>2. Cardinality({}) = 0 /\ Waiting = 0 /\ Datagrams(<< >>) = 0
  <2>1. {i \in 1..Len(<< >>) : << >>[i].kind = "udp"} = {}
    OBVIOUS
  <2> QED BY <1>1, <2>1, FS_EmptySet DEF Init, Waiting, Datagrams
<1>3. TypeOK
  BY MgrAssumption, Events DEF Init, TypeOK, Host
<1>4. PhaseInv /\ TableInv /\ SenderInv
  BY <1>1, Events DEF Init, PhaseInv, TableInv, SenderInv, InRead
<1>5. Accounted
  BY <1>2, MgrAssumption DEF Init, Accounted
<1>6. ReadInv
  BY <1>1, <1>2, MgrAssumption, Events DEF Init, ReadInv, InRead, Ordered
<1> QED BY <1>3, <1>4, <1>5, <1>6 DEF IInv

(* Every step of LwIPMgr, of Table and of the interrupts keeps IInv.       *)
LEMMA NextSafe == IInv /\ [Next]_vars => IInv'
<1> SUFFICES ASSUME IInv, [Next]_vars PROVE IInv'
  OBVIOUS
<1>1. CASE Run
  <2>1. CASE ShowAddress
    BY <2>1, QuietSafe, PublishOtherSafe
  <2> QED BY <1>1, <2>1, DispatchSafe, ReadOtherSafe, ReadDatagramSafe, CollectSafe, PublishOtherSafe,
             QuietSafe, TableDisplaySafe, TableDisplayUdpSafe DEF Run
<1>2. CASE \E f \in Frame : FrameArrives(f)
  BY <1>2, FrameArrivesSafe
<1>3. CASE ETH_IRQHandler \/ SlowTick
  BY <1>3, IrqSafe, SlowTickSafe
<1>4. CASE UNCHANGED vars
  <2>1. UNCHANGED <<ring, irq, queue, tableQ, nText, pc, ev, from, burst, peer, ip_addr, netifIp, dhcpTmr, shown, status>>
    BY <1>4 DEF vars, netVars
  <2>2. TypeOK'
    BY <2>1 DEF IInv, TypeOK
  <2>3. PhaseInv' /\ TableInv' /\ SenderInv' /\ Accounted' /\ ReadInv'
    BY <2>1 DEF IInv, PhaseInv, TableInv, SenderInv, Accounted, Waiting, ReadInv, InRead, Pending
  <2> QED BY <2>2, <2>3 DEF IInv
<1> QED BY <1>1, <1>2, <1>3, <1>4 DEF Next

(* IInv is an invariant.                                                   *)
THEOREM Invariance == Spec => []IInv
BY InitSafe, NextSafe, PTL DEF Spec

(* Every variable keeps its type.                                          *)
THEOREM TypeCorrect == Spec => []TypeOK
<1>1. IInv => TypeOK
  BY DEF IInv
<1> QED BY <1>1, Invariance, PTL

(* No text event leaks and none is collected twice, whatever the sizes and *)
(* the traffic.                                                            *)
THEOREM TextsAccounted == Spec => []TextEvtsAccounted
<1>1. IInv => TextEvtsAccounted
  BY AnswersAre DEF IInv, Accounted, TextEvtsAccounted, Waiting
<1> QED BY <1>1, Invariance, PTL

(* The answer to a datagram never goes to another host.                    *)
THEOREM AnswersReachSender == Spec => []AnswersToSender
<1>1. IInv => AnswersToSender
  BY AnswersAre DEF IInv, SenderInv, PhaseInv, AnswersToSender
<1> QED BY <1>1, Invariance, PTL

(* If one reading comes upon fewer datagrams than the pool has blocks, and *)
(* the queue has room for their answers, the tick, RX_READY and two        *)
(* RX_OVERRUN, neither QF_new_ nor the posting of an event asserts.        *)
THEOREM PoolAndQueueSuffice ==
  ASSUME BURST < N_TEXT, BURST + 3 <= Q_LEN
  PROVE  Spec => []TextPoolSuffices
<1>1. Init => TextPoolSuffices
  BY DEF Init, TextPoolSuffices
<1>2. IInv /\ TextPoolSuffices /\ [Next]_vars => TextPoolSuffices'
  <2> SUFFICES ASSUME IInv, TextPoolSuffices, [Next]_vars PROVE status' = "running"
    BY DEF TextPoolSuffices
  <2>1. /\ queue \in Seq(QEvt) /\ Waiting \in Nat /\ Waiting <= BURST /\ Ordered(queue) /\ Len(queue) \in Nat
        /\ BURST \in Nat /\ N_TEXT \in Nat /\ Q_LEN \in Nat /\ nText \in Nat /\ burst \in Nat
    BY AnswersAre, MgrAssumption DEF IInv, ReadInv, TypeOK
  <2>2. /\ Len(queue) <= Waiting + 4
        /\ Ticks(queue) = {} => Len(queue) <= Waiting + 3
        /\ Ready(queue) = {} => Len(queue) <= Waiting + 2
    BY <2>1, OrderedLength DEF Waiting
  <2>3. status = "running"
    BY DEF TextPoolSuffices
  <2>4. ASSUME Halt("empty"), pc \in {"RX_READY", "SLOW_TICK"}, nText = 0 PROVE FALSE
    <3>1. N_TEXT - nText = Waiting
      BY <2>1, <2>4 DEF IInv, Accounted
    <3> QED BY <2>1, <2>4, <3>1
  <2>5. CASE Dispatch \/ ReadForeign \/ Connect \/ ReadDhcp \/ ReadEnd \/ Published \/ Timers \/ SendUdp
             \/ TableDisplay
    BY <2>3, <2>5 DEF Dispatch, ReadForeign, Connect, ReadDhcp, ReadEnd, Published, Timers, SendUdp,
                      TableDisplay
  <2>6. CASE ReadDatagram \/ ReadCgi \/ ShowAddress
    BY <2>3, <2>4, <2>6 DEF ReadDatagram, ReadCgi, ShowAddress, Reading, At, PublishText
  <2>7. CASE TableDisplayUdp
    <3>1. /\ pc = "connect" /\ tableQ # << >>
      BY <2>7, TableHas DEF TableDisplayUdp
    <3>2. InRead /\ Pending = 1
      BY <3>1 DEF IInv, PhaseInv, Pending
    <3>3. Ready(queue) = {} /\ Waiting + 1 <= burst /\ burst <= BURST
      BY <2>1, <3>2 DEF IInv, ReadInv, TypeOK
    <3>4. N_TEXT - nText = Waiting + 1
      BY <2>1, <3>1 DEF IInv, Accounted
    <3>5. nText # 0
      BY <2>1, <3>3, <3>4
    <3>6. ~(Len(queue) + 1 > Q_LEN + 1)
      BY <2>1, <2>2, <3>3
    <3>7. Len(<<Evt("SEND_UDP", Head(tableQ).text)>>) = 1
      OBVIOUS
    <3> QED BY <2>3, <2>7, <3>5, <3>6, <3>7 DEF TableDisplayUdp, Posting
  <2>8. CASE \E f \in Frame : FrameArrives(f)
    BY <2>3, <2>8 DEF FrameArrives
  <2>9. CASE ETH_IRQHandler
    <3>1. Ready(queue) = {}
      BY <2>9 DEF ETH_IRQHandler, IInv, ReadInv
    <3>2. Len(queue) + 2 <= Q_LEN + 1
      BY <2>1, <2>2, <3>1
    <3> DEFINE es == <<Evt("RX_READY", NONE)>> \o (IF irq.RO = 1 THEN <<Evt("RX_OVERRUN", NONE)>> ELSE << >>)
    <3>3. Len(es) \in Nat /\ Len(es) <= 2
      OBVIOUS
    <3>4. status' = status \/ Len(queue) + Len(es) > Q_LEN + 1
      BY <2>9 DEF ETH_IRQHandler, Posting
    <3> HIDE DEF es
    <3> QED BY <2>1, <2>3, <3>2, <3>3, <3>4
  <2>10. CASE SlowTick
    <3>1. Ticks(queue) = {}
      BY <2>10 DEF SlowTick, Ticks, Where, Of
    <3>2. ~(Len(queue) + 1 > Q_LEN + 1)
      BY <2>1, <2>2, <3>1
    <3>3. Len(<<Evt("SLOW_TICK", NONE)>>) = 1
      OBVIOUS
    <3> QED BY <2>3, <2>10, <3>2, <3>3 DEF SlowTick, Posting
  <2>11. CASE UNCHANGED vars
    BY <2>3, <2>11 DEF vars
  <2> QED BY <2>5, <2>6, <2>7, <2>8, <2>9, <2>10, <2>11 DEF Next, Run
<1> QED BY <1>1, <1>2, Invariance, PTL DEF Spec
=============================================================================
