--------------------------- MODULE QKernel_proofs ---------------------------
(***************************************************************************)
(* Safety of the QK kernel for every number of active objects, every width *)
(* of the subsets of the ready set, and every depth of interrupt nesting.  *)
(***************************************************************************)
EXTENDS QKernel, FiniteSetTheorems, SequenceTheorems, WellFoundedInduction, TLAPS

----------------------------------------------------------------------------
(* Priority sets.                                                          *)

(* A set of natural numbers has a least element.                           *)
LEMMA LeastNat ==
  ASSUME NEW S \in SUBSET Nat, S # {}
  PROVE  \E m \in S : \A k \in S : m <= k
<1>1. \E R : IsWellFoundedOn(R, Nat) /\ \A x, y \in Nat : <<y, x>> \in R <=> y < x
  <2>1. \A x, y \in Nat : <<y, x>> \in OpToRel(<, Nat) <=> y < x
    BY DEF OpToRel
  <2> WITNESS OpToRel(<, Nat)
  <2> QED BY <2>1, NatLessThanWellFounded, Zenon
<1>2. PICK R : IsWellFoundedOn(R, Nat) /\ \A x, y \in Nat : <<y, x>> \in R <=> y < x
  BY <1>1
<1>3. PICK x \in S : \A y \in S : ~ (<<y, x>> \in R)
  BY <1>2, WFMin
<1>4. \A y \in S : ~ (y < x)
  BY <1>2, <1>3, S \subseteq Nat, Zenon
<1> QED BY <1>4

(* QF_log2Lkup: the highest bit of a byte that is not zero.                *)
LEMMA Log2Max ==
  ASSUME NEW n \in Nat, NEW S \in SUBSET (1 .. n), S # {}
  PROVE  Log2(S) \in S /\ \A k \in S : k <= Log2(S)
<1> DEFINE T == {k \in Nat : \A x \in S : x <= k}
<1>1. n \in T /\ T \in SUBSET Nat
  OBVIOUS
<1>2. PICK m \in T : \A k \in T : m <= k
  BY <1>1, LeastNat
<1>3. m \in S
  <2>1. m # 0
    BY <1>2, \E x \in S : x \in 1 .. n
  <2>2. m - 1 \notin T
    BY <1>2
  <2> QED BY <2>1, <2>2
<1>4. \E x \in S : \A y \in S : x >= y
  BY <1>2, <1>3
<1> QED BY <1>4 DEF Log2, Max

(* A priority is found from its subset and its bit there.                  *)
LEMMA Digits ==
  ASSUME NEW n \in 1 .. WIDTH * WIDTH
  PROVE  /\ Div8(n) \in 0 .. WIDTH - 1
         /\ Pwr2(n) \in 1 .. WIDTH
         /\ n = Pwr2(n) + WIDTH * Div8(n)
<1> DEFINE x == n - 1
<1>1. x \in Nat /\ x < WIDTH * WIDTH /\ WIDTH \in Nat \ {0}
  BY WidthAssumption
<1>2. x % WIDTH \in 0 .. WIDTH - 1
  BY <1>1
<1>3. x = (x % WIDTH) + WIDTH * (x \div WIDTH)
  BY <1>1
<1>4. x \div WIDTH \in Nat
  BY <1>1
<1>5. x \div WIDTH < WIDTH
  BY <1>1, <1>2, <1>3, <1>4
<1> QED BY <1>1, <1>2, <1>3, <1>4, <1>5 DEF Div8, Pwr2

(* Digits determine the priority, and every pair of digits occurs.         *)
LEMMA DigitsUnique ==
  ASSUME NEW i \in 0 .. WIDTH - 1, NEW b \in 1 .. WIDTH
  PROVE  /\ b + WIDTH * i \in 1 .. WIDTH * WIDTH
         /\ Div8(b + WIDTH * i) = i /\ Pwr2(b + WIDTH * i) = b
<1> DEFINE n == b + WIDTH * i
<1>1. WIDTH \in Nat \ {0}
  BY WidthAssumption
<1>2. WIDTH * i \in Nat /\ WIDTH * i + WIDTH <= WIDTH * WIDTH /\ WIDTH * WIDTH \in Nat
  BY <1>1
<1>3. n \in 1 .. WIDTH * WIDTH
  BY <1>1, <1>2
<1>4. Div8(n) \in 0 .. WIDTH - 1 /\ Pwr2(n) \in 1 .. WIDTH /\ n = Pwr2(n) + WIDTH * Div8(n)
  BY <1>3, Digits
<1> HIDE DEF n
<1>5. ASSUME NEW j \in 0 .. WIDTH - 1, i < j
      PROVE  WIDTH * i + WIDTH <= WIDTH * j
  BY <1>1, <1>5
<1>6. ASSUME NEW j \in 0 .. WIDTH - 1, j < i
      PROVE  WIDTH * j + WIDTH <= WIDTH * i
  BY <1>1, <1>6
<1>7. n = b + WIDTH * i
  BY DEF n
<1>8. \A j \in 0 .. WIDTH - 1 : WIDTH * j \in Nat
  BY <1>1
<1>9. Div8(n) = i
  BY <1>1, <1>4, <1>5, <1>6, <1>7, <1>8
<1>10. Pwr2(n) = b
  BY <1>1, <1>2, <1>4, <1>7, <1>9
<1> QED BY <1>3, <1>9, <1>10 DEF n

PrioSet == [super : SUBSET (1 .. WIDTH), subset : [0 .. WIDTH - 1 -> SUBSET (1 .. WIDTH)]]

(* The set of priorities rs holds exactly the active objects with events.  *)
ReadyExact(rs, n) ==
  /\ \A p \in 1 .. WIDTH * WIDTH :
       Pwr2(p) \in rs.subset[Div8(p)] <=> p \in Prio /\ n[p] > 0
  /\ \A i \in 1 .. WIDTH : i \in rs.super <=> rs.subset[i - 1] # {}

(* An event for q makes q ready.                                           *)
LEMMA InsertReady ==
  ASSUME NEW rs \in PrioSet, NEW n \in [Prio -> Nat], ReadyExact(rs, n), NEW q \in Prio,
         NEW rs1, rs1 = IF n[q] = 0 THEN QPSet64_insert(rs, q) ELSE rs,
         NEW n1, n1 = [n EXCEPT ![q] = @ + 1]
  PROVE  rs1 \in PrioSet /\ ReadyExact(rs1, n1)
<1>1. q \in 1 .. WIDTH * WIDTH /\ WIDTH \in Nat \ {0} /\ Prio \subseteq 1 .. WIDTH * WIDTH
  BY KernelAssumption, WidthAssumption DEF Prio
<1>2. Div8(q) \in 0 .. WIDTH - 1 /\ Pwr2(q) \in 1 .. WIDTH
  BY <1>1, Digits
<1>3. \A p \in 1 .. WIDTH * WIDTH : Div8(p) = Div8(q) /\ Pwr2(p) = Pwr2(q) => p = q
  BY <1>1, <1>2, DigitsUnique, Digits
<1>4. \A p \in Prio : n1[p] = IF p = q THEN n[p] + 1 ELSE n[p]
  OBVIOUS
<1>5. CASE n[q] # 0
  <2>1. rs1 = rs /\ n[q] > 0
    BY <1>5
  <2> QED BY <1>4, <2>1 DEF ReadyExact
<1>6. CASE n[q] = 0
  <2> DEFINE more == rs.subset[Div8(q)] \cup {Pwr2(q)}
  <2>0. rs.super \in SUBSET (1 .. WIDTH) /\ rs.subset \in [0 .. WIDTH - 1 -> SUBSET (1 .. WIDTH)]
    BY DEF PrioSet
  <2>1. /\ rs1.super = rs.super \cup {Div8(q) + 1}
        /\ rs1.subset = [rs.subset EXCEPT ![Div8(q)] = more]
        /\ rs1 \in PrioSet
    <3>1. rs1 = [rs EXCEPT !.super = rs.super \cup {Div8(q) + 1}, !.subset[Div8(q)] = more]
      BY <1>6 DEF QPSet64_insert
    <3>2. /\ rs1.super = rs.super \cup {Div8(q) + 1}
          /\ rs1.subset = [rs.subset EXCEPT ![Div8(q)] = more]
          /\ rs1 = [super |-> rs1.super, subset |-> rs1.subset]
      BY <3>1 DEF PrioSet
    <3>3. rs1.super \in SUBSET (1 .. WIDTH)
      BY <1>1, <1>2, <2>0, <3>2
    <3>4. more \in SUBSET (1 .. WIDTH)
      BY <1>2, <2>0
    <3>5. rs1.subset \in [0 .. WIDTH - 1 -> SUBSET (1 .. WIDTH)]
      BY <2>0, <3>2, <3>4
    <3> QED BY <3>2, <3>3, <3>5 DEF PrioSet
  <2>2. \A i \in 0 .. WIDTH - 1 : rs1.subset[i] = IF i = Div8(q) THEN more ELSE rs.subset[i]
    BY <2>0, <2>1
  <2>3. ASSUME NEW p \in 1 .. WIDTH * WIDTH
        PROVE  Pwr2(p) \in rs1.subset[Div8(p)] <=> p \in Prio /\ n1[p] > 0
    <3>1. Div8(p) \in 0 .. WIDTH - 1 /\ Pwr2(p) \in 1 .. WIDTH
      BY Digits
    <3>2. CASE p = q
      BY <1>1, <1>2, <1>4, <2>2, <3>2
    <3>3. CASE p # q
      BY <1>3, <1>4, <2>2, <3>1, <3>3 DEF ReadyExact
    <3> QED BY <3>2, <3>3
  <2>4. ASSUME NEW i \in 1 .. WIDTH
        PROVE  i \in rs1.super <=> rs1.subset[i - 1] # {}
    BY <1>1, <1>2, <2>1, <2>2 DEF ReadyExact
  <2> QED BY <2>1, <2>3, <2>4 DEF ReadyExact
<1> QED BY <1>5, <1>6

(* Taking the last event of q makes q unready.                             *)
LEMMA RemoveReady ==
  ASSUME NEW rs \in PrioSet, NEW n \in [Prio -> Nat], ReadyExact(rs, n), NEW q \in Prio, n[q] > 0,
         NEW rs1, rs1 = IF n[q] = 1 THEN QPSet64_remove(rs, q) ELSE rs,
         NEW n1, n1 = [n EXCEPT ![q] = @ - 1]
  PROVE  rs1 \in PrioSet /\ ReadyExact(rs1, n1)
<1>1. q \in 1 .. WIDTH * WIDTH /\ WIDTH \in Nat \ {0} /\ Prio \subseteq 1 .. WIDTH * WIDTH
  BY KernelAssumption, WidthAssumption DEF Prio
<1>2. Div8(q) \in 0 .. WIDTH - 1 /\ Pwr2(q) \in 1 .. WIDTH
  BY <1>1, Digits
<1>3. \A p \in 1 .. WIDTH * WIDTH : Div8(p) = Div8(q) /\ Pwr2(p) = Pwr2(q) => p = q
  BY <1>1, <1>2, DigitsUnique, Digits
<1>4. \A p \in Prio : n1[p] = IF p = q THEN n[p] - 1 ELSE n[p]
  OBVIOUS
<1>5. CASE n[q] # 1
  <2>1. rs1 = rs /\ n[q] > 1
    BY <1>5
  <2> QED BY <1>4, <2>1 DEF ReadyExact
<1>6. CASE n[q] = 1
  <2> DEFINE rest == rs.subset[Div8(q)] \ {Pwr2(q)}
  <2>1. /\ rs1.super = IF rest = {} THEN rs.super \ {Div8(q) + 1} ELSE rs.super
        /\ rs1.subset = [rs.subset EXCEPT ![Div8(q)] = rest]
        /\ rs1 \in PrioSet
    BY <1>2, <1>6, <1>1 DEF QPSet64_remove, PrioSet
  <2>2. \A i \in 0 .. WIDTH - 1 : rs1.subset[i] = IF i = Div8(q) THEN rest ELSE rs.subset[i]
    BY <2>1 DEF PrioSet
  <2>3. ASSUME NEW p \in 1 .. WIDTH * WIDTH
        PROVE  Pwr2(p) \in rs1.subset[Div8(p)] <=> p \in Prio /\ n1[p] > 0
    <3>1. Div8(p) \in 0 .. WIDTH - 1 /\ Pwr2(p) \in 1 .. WIDTH
      BY Digits
    <3>2. CASE p = q
      BY <1>1, <1>2, <1>4, <1>6, <2>2, <3>2
    <3>3. CASE p # q
      BY <1>3, <1>4, <2>2, <3>1, <3>3 DEF ReadyExact
    <3> QED BY <3>2, <3>3
  <2>4. rs.subset[Div8(q)] # {}
    BY <1>1 DEF ReadyExact
  <2>5. ASSUME NEW i \in 1 .. WIDTH
        PROVE  i \in rs1.super <=> rs1.subset[i - 1] # {}
    BY <1>1, <1>2, <2>1, <2>2, <2>4 DEF ReadyExact
  <2> QED BY <2>1, <2>3, <2>5 DEF ReadyExact
<1> QED BY <1>5, <1>6

(* QPSet64_findMax finds the highest ready priority, if there is one.      *)
LEMMA FindMaxReady ==
  ASSUME NEW rs \in PrioSet, NEW n \in [Prio -> Nat], ReadyExact(rs, n)
  PROVE  /\ QPSet64_findMax(rs) \in 0 .. N_AO
         /\ QPSet64_findMax(rs) # 0 => n[QPSet64_findMax(rs)] > 0
         /\ \A p \in Prio : n[p] > 0 => p <= QPSet64_findMax(rs)
<1>1. WIDTH \in Nat \ {0} /\ Prio \subseteq 1 .. WIDTH * WIDTH /\ N_AO \in Nat
  BY KernelAssumption, WidthAssumption DEF Prio
<1>2. ASSUME NEW p \in Prio, n[p] > 0
      PROVE  Div8(p) \in 0 .. WIDTH - 1 /\ Div8(p) + 1 \in rs.super /\ Pwr2(p) \in rs.subset[Div8(p)]
  <2>1. Div8(p) \in 0 .. WIDTH - 1 /\ Div8(p) + 1 \in 1 .. WIDTH
    BY <1>1, Digits
  <2>2. Pwr2(p) \in rs.subset[Div8(p)]
    BY <1>1, <1>2 DEF ReadyExact
  <2> QED BY <1>1, <2>1, <2>2 DEF ReadyExact
<1>3. CASE rs.super = {}
  BY <1>1, <1>2, <1>3 DEF QPSet64_findMax
<1>4. CASE rs.super # {}
  <2> DEFINE i == Log2(rs.super) - 1
             b == Log2(rs.subset[i])
  <2>1. rs.super \in SUBSET (1 .. WIDTH)
    BY DEF PrioSet
  <2>2. Log2(rs.super) \in rs.super /\ \A k \in rs.super : k <= Log2(rs.super)
    BY <1>1, <1>4, <2>1, Log2Max
  <2>3. i \in 0 .. WIDTH - 1 /\ i + 1 \in rs.super /\ \A k \in rs.super : k <= i + 1
    BY <1>1, <2>1, <2>2
  <2>4. rs.subset[i] \in SUBSET (1 .. WIDTH) /\ rs.subset[i] # {}
    BY <1>1, <2>3 DEF PrioSet, ReadyExact
  <2>5. b \in rs.subset[i] /\ b \in 1 .. WIDTH /\ \A k \in rs.subset[i] : k <= b
    BY <1>1, <2>4, Log2Max
  <2>6. QPSet64_findMax(rs) = b + WIDTH * i
    BY <1>4 DEF QPSet64_findMax
  <2> HIDE DEF i, b
  <2> DEFINE m == b + WIDTH * i
  <2>7. m \in 1 .. WIDTH * WIDTH /\ Div8(m) = i /\ Pwr2(m) = b
    BY <2>3, <2>5, DigitsUnique
  <2>8. m \in Prio /\ n[m] > 0
    BY <2>5, <2>7 DEF ReadyExact
  <2>9. ASSUME NEW p \in Prio, n[p] > 0
        PROVE  p <= m
    <3>1. p = Pwr2(p) + WIDTH * Div8(p) /\ Pwr2(p) \in 1 .. WIDTH
      BY <1>1, Digits
    <3>2. Div8(p) \in 0 .. WIDTH - 1 /\ Div8(p) <= i /\ Pwr2(p) \in rs.subset[Div8(p)]
      BY <1>2, <2>3, <2>9
    <3>3. CASE Div8(p) = i
      BY <1>1, <2>3, <2>5, <3>1, <3>2, <3>3
    <3>4. CASE Div8(p) < i
      <4>1. WIDTH * Div8(p) + WIDTH <= WIDTH * i
        BY <1>1, <2>3, <3>2, <3>4
      <4> QED BY <1>1, <2>3, <2>5, <3>1, <3>2, <4>1
    <3> QED BY <2>3, <3>2, <3>3, <3>4
  <2> QED BY <1>1, <2>6, <2>8, <2>9 DEF Prio
<1> QED BY <1>3, <1>4

----------------------------------------------------------------------------
(* The inductive invariant.                                                *)

(* Before QF_run nothing runs; interrupts are disabled up to QF_onStartup. *)
PhaseInv ==
  /\ phase = "boot" => frames = << >> /\ currPrio = LOCKED
  /\ phase # "boot" => currPrio \in 0 .. N_AO
  /\ phase # "run" => isrs = << >> /\ pendSV = 0

(* QK_intNest_ counts the handlers between QK_ISR_ENTRY and QK_ISR_EXIT,   *)
(* and a handler on its way out has triggered PendSV.                      *)
Bodies(is) == {i \in 1 .. Len(is) : is[i] = "body"}
IsrInv ==
  /\ intNest = Cardinality(Bodies(isrs))
  /\ \A i \in 1 .. Len(isrs) : isrs[i] = "leaving" => pendSV = 1

(* The mutexes locked in the activations fs before the k-th of the i-th:   *)
(* c is the ceiling of one, m is the highest of their ceilings or 0.       *)
HeldBefore(fs, i, k, c) ==
  \E j \in 1 .. Len(fs) : \E l \in 1 .. Len(fs[j].locks) :
    (j < i \/ (j = i /\ l < k)) /\ fs[j].locks[l].ceiling = c
HighestBefore(fs, i, k, m) ==
  /\ m = 0 \/ HeldBefore(fs, i, k, m)
  /\ \A c \in Prio : HeldBefore(fs, i, k, c) => c <= m

(* The invariant of the stack of activations fs, given the ceiling and the *)
(* numbers n of events: who interrupted whom, what is held against whom,   *)
(* and what unlocking will restore the ceiling to.                         *)
TopPrio(fs) == IF fs = << >> THEN 0 ELSE fs[Len(fs)].prio
StackInv(fs) ==
  \A i \in 1 .. Len(fs) :
    /\ fs[i].pin = IF i = 1 THEN 0 ELSE fs[i - 1].prio
    /\ fs[i].pin < fs[i].prio
EventInv(fs, n) == \A i \in 1 .. Len(fs) : fs[i].pc = "get" => n[fs[i].prio] > 0
HoldInv(fs) ==
  \A i, j \in 1 .. Len(fs) : i < j =>
    \A l \in 1 .. Len(fs[i].locks) : fs[j].prio > fs[i].locks[l].ceiling
CeilingInv(fs, ceiling) ==
  /\ HighestBefore(fs, Len(fs) + 1, 1, ceiling)
  /\ \A i \in 1 .. Len(fs) : \A k \in 1 .. Len(fs[i].locks) :
       HighestBefore(fs, i, k, fs[i].locks[k].mutex)
FrameInv(fs, ceiling, n) ==
  /\ fs \in Seq(Frame) /\ ceiling \in 0 .. N_AO
  /\ StackInv(fs) /\ EventInv(fs, n) /\ HoldInv(fs) /\ CeilingInv(fs, ceiling)

(* NoPriorityInversion in terms of the ceiling.                            *)
UrgentRuns ==
  phase # "boot" /\ isrs = << >> /\ pendSV = 0 =>
    \A p \in Prio : nEvt[p] > 0 => p <= currPrio \/ p <= ceilingPrio

IInv ==
  /\ TypeOK /\ ReadyExact(readySet, nEvt)
  /\ PhaseInv /\ IsrInv
  /\ FrameInv(frames, ceilingPrio, nEvt)
  /\ phase # "boot" => currPrio = TopPrio(frames)
  /\ UrgentRuns

----------------------------------------------------------------------------
(* The stack of activations.                                               *)

(* A sequence without its last element.                                    *)
LEMMA DropLast ==
  ASSUME NEW S, NEW q \in Seq(S), q # << >>
  PROVE  /\ SubSeq(q, 1, Len(q) - 1) \in Seq(S)
         /\ Len(SubSeq(q, 1, Len(q) - 1)) = Len(q) - 1
         /\ \A i \in 1 .. Len(q) - 1 : SubSeq(q, 1, Len(q) - 1)[i] = q[i]
<1>1. Len(q) \in Nat \ {0} /\ Len(q) - 1 \in 0 .. Len(q)
  OBVIOUS
<1>2. ASSUME NEW n \in 0 .. Len(q)
      PROVE  Len(SubSeq(q, 1, n)) = n
  OBVIOUS
<1>3. Len(SubSeq(q, 1, Len(q) - 1)) = Len(q) - 1
  BY <1>1, <1>2
<1>4. /\ SubSeq(q, 1, Len(q) - 1) \in Seq(S)
      /\ \A i \in 1 .. Len(q) - 1 : SubSeq(q, 1, Len(q) - 1)[i] = q[i]
  BY <1>1
<1> QED BY <1>3, <1>4

(* The fields of an activation and of its locks.                           *)
LEMMA FrameFields ==
  ASSUME NEW f \in Frame
  PROVE  /\ f.prio \in Prio /\ f.pin \in 0 .. N_AO /\ f.pc \in {"get", "run"}
         /\ f.locks \in Seq([mutex : 0 .. N_AO, ceiling : Prio]) /\ Len(f.locks) \in Nat
         /\ \A l \in 1 .. Len(f.locks) :
              f.locks[l].mutex \in 0 .. N_AO /\ f.locks[l].ceiling \in Prio
         /\ f.locks = << >> => 1 .. Len(f.locks) = {}
         /\ \A l \in 1 .. Len(f.locks) : f.locks # << >>
<1>1. /\ f.prio \in Prio /\ f.pin \in 0 .. N_AO /\ f.pc \in {"get", "run"}
      /\ f.locks \in Seq([mutex : 0 .. N_AO, ceiling : Prio])
  BY DEF Frame
<1>2. \A l \in 1 .. Len(f.locks) : f.locks[l] \in [mutex : 0 .. N_AO, ceiling : Prio]
  BY <1>1, ElementOfSeq
<1> QED BY <1>1, <1>2

(* A held ceiling is no higher than the current one.                       *)
LEMMA HeldBelow ==
  ASSUME NEW fs, NEW ceiling, NEW n, FrameInv(fs, ceiling, n),
         NEW i \in 1 .. Len(fs), NEW l \in 1 .. Len(fs[i].locks)
  PROVE  fs[i].locks[l].ceiling \in Prio /\ fs[i].locks[l].ceiling <= ceiling
<1>1. fs[i] \in Frame /\ Len(fs) \in Nat
  BY DEF FrameInv
<1>2. fs[i].locks[l].ceiling \in Prio
  BY <1>1, FrameFields
<1>3. HeldBefore(fs, Len(fs) + 1, 1, fs[i].locks[l].ceiling)
  BY <1>1 DEF HeldBefore
<1> QED BY <1>2, <1>3 DEF FrameInv, CeilingInv, HighestBefore

(* Stacks with the same locks in the same activations agree on what is     *)
(* held.                                                                   *)
LEMMA SameHeld ==
  ASSUME NEW fs \in Seq(Frame), NEW gs \in Seq(Frame),
         \A i \in 1 .. Len(fs) : fs[i].locks # << >> => i \in 1 .. Len(gs) /\ gs[i].locks = fs[i].locks,
         \A i \in 1 .. Len(gs) : gs[i].locks # << >> => i \in 1 .. Len(fs) /\ gs[i].locks = fs[i].locks
  PROVE  \A i, k \in Nat, c \in Prio : HeldBefore(gs, i, k, c) <=> HeldBefore(fs, i, k, c)
<1>1. \A i \in 1 .. Len(fs) : fs[i].locks = << >> => 1 .. Len(fs[i].locks) = {}
  BY FrameFields
<1>2. \A i \in 1 .. Len(gs) : gs[i].locks = << >> => 1 .. Len(gs[i].locks) = {}
  BY FrameFields
<1> QED BY <1>1, <1>2 DEF HeldBefore

(* ... and on the ceilings, if the stacks hold all their locks below.      *)
LEMMA SameCeiling ==
  ASSUME NEW fs \in Seq(Frame), NEW gs \in Seq(Frame), NEW ceiling \in 0 .. N_AO,
         \A i \in 1 .. Len(fs) : fs[i].locks # << >> => i \in 1 .. Len(gs) /\ gs[i].locks = fs[i].locks,
         \A i \in 1 .. Len(gs) : gs[i].locks # << >> => i \in 1 .. Len(fs) /\ gs[i].locks = fs[i].locks,
         CeilingInv(fs, ceiling)
  PROVE  CeilingInv(gs, ceiling)
<1>1. \A i, k \in Nat, c \in Prio : HeldBefore(gs, i, k, c) <=> HeldBefore(fs, i, k, c)
  BY SameHeld
<1>2. N_AO \in Nat /\ Prio = 1 .. N_AO
  BY KernelAssumption DEF Prio
<1>3. \A i, k \in Nat, m \in 0 .. N_AO : HighestBefore(gs, i, k, m) <=> HighestBefore(fs, i, k, m)
  BY <1>1, <1>2 DEF HighestBefore
<1>4. \A c \in Prio : HeldBefore(gs, Len(gs) + 1, 1, c) <=> HeldBefore(fs, Len(fs) + 1, 1, c)
  <2>1. \A c \in Prio : HeldBefore(gs, Len(gs) + 1, 1, c) <=> HeldBefore(fs, Len(gs) + 1, 1, c)
    BY <1>1
  <2>2. ASSUME NEW j \in 1 .. Len(fs), NEW l \in 1 .. Len(fs[j].locks)
        PROVE  j < Len(gs) + 1 /\ j < Len(fs) + 1
    <3>1. fs[j].locks # << >>
      BY FrameFields
    <3> QED BY <3>1
  <2> QED BY <2>1, <2>2 DEF HeldBefore
<1>5. HighestBefore(gs, Len(gs) + 1, 1, ceiling)
  BY <1>2, <1>4 DEF CeilingInv, HighestBefore
<1>6. ASSUME NEW i \in 1 .. Len(gs), NEW k \in 1 .. Len(gs[i].locks)
      PROVE  HighestBefore(gs, i, k, gs[i].locks[k].mutex)
  <2>1. gs[i] \in Frame /\ gs[i].locks # << >>
    BY FrameFields
  <2>2. i \in 1 .. Len(fs) /\ gs[i].locks = fs[i].locks /\ i \in Nat /\ k \in Nat
    BY <2>1
  <2>3. gs[i].locks[k].mutex \in 0 .. N_AO
    BY <2>1, FrameFields
  <2> QED BY <1>3, <2>2, <2>3 DEF CeilingInv
<1> QED BY <1>5, <1>6 DEF CeilingInv

(* A new activation.                                                       *)
LEMMA Pushed ==
  ASSUME NEW fs, NEW ceiling, NEW n, FrameInv(fs, ceiling, n),
         NEW f \in Frame, n[f.prio] > 0, f.prio > TopPrio(fs), f.prio > ceiling,
         f.pin = TopPrio(fs), f.pc = "get", f.locks = << >>,
         NEW gs, gs = Append(fs, f)
  PROVE  FrameInv(gs, ceiling, n) /\ TopPrio(gs) = f.prio
<1>1. fs \in Seq(Frame) /\ Len(fs) \in Nat /\ N_AO \in Nat /\ Prio = 1 .. N_AO
  BY KernelAssumption DEF FrameInv, Prio
<1>2. f \in Frame /\ f.pin = TopPrio(fs) /\ f.pc = "get" /\ f.locks = << >> /\ f.prio \in Prio
  BY FrameFields
<1>3. /\ gs \in Seq(Frame) /\ Len(gs) = Len(fs) + 1 /\ gs # << >>
      /\ \A i \in 1 .. Len(fs) : gs[i] = fs[i]
      /\ gs[Len(fs) + 1] = f
  BY <1>1, <1>2
<1>4. TopPrio(gs) = f.prio
  BY <1>3 DEF TopPrio
<1>5. StackInv(gs)
  BY <1>1, <1>2, <1>3 DEF FrameInv, StackInv, TopPrio
<1>6. EventInv(gs, n)
  BY <1>1, <1>3 DEF FrameInv, EventInv
<1>7. HoldInv(gs)
  <2> SUFFICES ASSUME NEW i \in 1 .. Len(gs), NEW j \in 1 .. Len(gs), i < j,
                      NEW l \in 1 .. Len(gs[i].locks)
               PROVE  gs[j].prio > gs[i].locks[l].ceiling
    BY DEF HoldInv
  <2>1. i \in 1 .. Len(fs) /\ gs[i] = fs[i]
    BY <1>1, <1>3
  <2>2. CASE j = Len(gs)
    <3>1. fs[i].locks[l].ceiling \in Prio /\ fs[i].locks[l].ceiling <= ceiling
      BY <2>1, HeldBelow
    <3>2. gs[j].prio = f.prio /\ gs[i].locks = fs[i].locks
      BY <1>3, <2>1, <2>2
    <3> QED BY <1>1, <1>2, <3>1, <3>2 DEF FrameInv
  <2>3. CASE j # Len(gs)
    <3>1. j \in 1 .. Len(fs) /\ gs[j] = fs[j]
      BY <1>1, <1>3, <2>3
    <3> QED BY <2>1, <3>1 DEF FrameInv, HoldInv
  <2> QED BY <2>2, <2>3
<1>8. CeilingInv(gs, ceiling)
  <2>1. f.locks = << >>
    BY <1>2
  <2>2. \A i \in 1 .. Len(fs) : i \in 1 .. Len(gs) /\ gs[i].locks = fs[i].locks
    BY <1>1, <1>3
  <2>3. \A i \in 1 .. Len(gs) : gs[i].locks # << >> => i \in 1 .. Len(fs) /\ gs[i].locks = fs[i].locks
    BY <1>1, <1>3, <2>1
  <2>4. CeilingInv(fs, ceiling) /\ ceiling \in 0 .. N_AO
    BY DEF FrameInv
  <2> QED BY <1>1, <1>3, <2>2, <2>3, <2>4, SameCeiling
<1> QED BY <1>3, <1>4, <1>5, <1>6, <1>7, <1>8 DEF FrameInv

(* Priorities rise along the stack.                                        *)
LEMMA StackRises ==
  ASSUME NEW fs, NEW ceiling, NEW n, FrameInv(fs, ceiling, n),
         NEW i \in 1 .. Len(fs), i # Len(fs)
  PROVE  fs[i].prio < fs[Len(fs)].prio
<1>1. fs \in Seq(Frame) /\ Len(fs) \in Nat /\ N_AO \in Nat /\ Prio = 1 .. N_AO
  BY KernelAssumption DEF FrameInv, Prio
<1>2. \A j \in 1 .. Len(fs) : fs[j].prio \in Prio
  BY <1>1, FrameFields
<1> DEFINE T == {j \in Nat : j \in i + 1 .. Len(fs) /\ ~(fs[i].prio < fs[j].prio)}
<1>3. T = {}
  <2> SUFFICES ASSUME T # {} PROVE FALSE
    OBVIOUS
  <2>1. PICK j \in T : \A k \in T : j <= k
    BY LeastNat
  <2>2. fs[j].pin = fs[j - 1].prio /\ fs[j].pin < fs[j].prio
    BY <1>1, <2>1 DEF FrameInv, StackInv
  <2>3. j - 1 = i \/ fs[i].prio < fs[j - 1].prio
    BY <1>1, <2>1, j - 1 \notin T
  <2> QED BY <1>1, <1>2, <2>1, <2>2, <2>3
<1> QED BY <1>1, <1>3

(* An activation that holds no mutex returns.                              *)
LEMMA Popped ==
  ASSUME NEW fs, NEW ceiling, NEW n, FrameInv(fs, ceiling, n), fs # << >>,
         fs[Len(fs)].locks = << >>,
         NEW gs, gs = SubSeq(fs, 1, Len(fs) - 1)
  PROVE  FrameInv(gs, ceiling, n) /\ TopPrio(gs) = fs[Len(fs)].pin
<1>1. fs \in Seq(Frame) /\ Len(fs) \in Nat \ {0}
  BY DEF FrameInv
<1>2. /\ gs \in Seq(Frame) /\ Len(gs) = Len(fs) - 1
      /\ \A i \in 1 .. Len(gs) : i \in 1 .. Len(fs) /\ gs[i] = fs[i]
  <2>1. gs \in Seq(Frame) /\ Len(gs) = Len(fs) - 1 /\ \A i \in 1 .. Len(fs) - 1 : gs[i] = fs[i]
    BY <1>1, DropLast
  <2> QED BY <1>1, <2>1
<1>3. TopPrio(gs) = fs[Len(fs)].pin
  <2>1. CASE Len(fs) = 1
    BY <1>1, <1>2, <2>1, gs = << >> DEF TopPrio, FrameInv, StackInv
  <2>2. CASE Len(fs) # 1
    <3>1. gs # << >> /\ Len(gs) \in 1 .. Len(gs)
      BY <1>1, <1>2, <2>2
    <3> QED BY <1>1, <1>2, <2>2, <3>1 DEF TopPrio, FrameInv, StackInv
  <2> QED BY <2>1, <2>2
<1>4. StackInv(gs)
  BY <1>1, <1>2 DEF FrameInv, StackInv
<1>5. EventInv(gs, n)
  BY <1>1, <1>2 DEF FrameInv, EventInv
<1>6. HoldInv(gs)
  BY <1>1, <1>2 DEF FrameInv, HoldInv
<1>7. CeilingInv(gs, ceiling)
  <2>1. \A i \in 1 .. Len(fs) : fs[i].locks # << >> => i \in 1 .. Len(gs) /\ gs[i].locks = fs[i].locks
    BY <1>1, <1>2
  <2>2. \A i \in 1 .. Len(gs) : i \in 1 .. Len(fs) /\ gs[i].locks = fs[i].locks
    BY <1>2
  <2>3. CeilingInv(fs, ceiling) /\ ceiling \in 0 .. N_AO
    BY DEF FrameInv
  <2> QED BY <1>1, <1>2, <2>1, <2>2, <2>3, SameCeiling
<1> QED BY <1>2, <1>3, <1>4, <1>5, <1>6, <1>7 DEF FrameInv

(* The last activation, which holds no mutex, goes on with priority p.     *)
LEMMA Replaced ==
  ASSUME NEW fs, NEW ceiling, NEW n, FrameInv(fs, ceiling, n), fs # << >>,
         fs[Len(fs)].locks = << >>,
         NEW f \in Frame, n[f.prio] > 0, f.prio > f.pin, f.prio > ceiling, f.pc = "get",
         f.pin = fs[Len(fs)].pin, f.locks = fs[Len(fs)].locks,
         NEW gs, gs = [fs EXCEPT ![Len(fs)] = f]
  PROVE  FrameInv(gs, ceiling, n) /\ TopPrio(gs) = f.prio
<1>1. fs \in Seq(Frame) /\ Len(fs) \in Nat \ {0} /\ fs[Len(fs)] \in Frame
  BY DEF FrameInv
<1>2. /\ f \in Frame /\ f.prio \in Prio /\ f.pc = "get" /\ f.prio > f.pin
      /\ f.pin = fs[Len(fs)].pin /\ f.locks = fs[Len(fs)].locks
  BY FrameFields
<1>3. /\ gs \in Seq(Frame) /\ Len(gs) = Len(fs) /\ gs[Len(fs)] = f /\ gs # << >>
      /\ \A i \in 1 .. Len(fs) : i # Len(fs) => gs[i] = fs[i]
  BY <1>1
<1>4. TopPrio(gs) = f.prio
  BY <1>2, <1>3 DEF TopPrio
<1>5. StackInv(gs)
  BY <1>1, <1>2, <1>3 DEF FrameInv, StackInv
<1>6. EventInv(gs, n)
  BY <1>1, <1>2, <1>3 DEF FrameInv, EventInv
<1>7. HoldInv(gs)
  <2> SUFFICES ASSUME NEW i \in 1 .. Len(gs), NEW j \in 1 .. Len(gs), i < j,
                      NEW l \in 1 .. Len(gs[i].locks)
               PROVE  gs[j].prio > gs[i].locks[l].ceiling
    BY DEF HoldInv
  <2>1. i \in 1 .. Len(fs) /\ gs[i] = fs[i]
    BY <1>1, <1>3
  <2>2. CASE j = Len(gs)
    <3>1. fs[i].locks[l].ceiling \in Prio /\ fs[i].locks[l].ceiling <= ceiling
      BY <2>1, HeldBelow
    <3>2. N_AO \in Nat /\ Prio = 1 .. N_AO /\ ceiling \in 0 .. N_AO
      BY KernelAssumption DEF FrameInv, Prio
    <3> QED BY <1>2, <1>3, <2>1, <2>2, <3>1, <3>2
  <2>3. CASE j # Len(gs)
    <3>1. j \in 1 .. Len(fs) /\ gs[j] = fs[j]
      BY <1>1, <1>3, <2>3
    <3> QED BY <2>1, <3>1 DEF FrameInv, HoldInv
  <2> QED BY <2>2, <2>3
<1>8. CeilingInv(gs, ceiling)
  <2>1. \A i \in 1 .. Len(fs) : i \in 1 .. Len(gs) /\ gs[i].locks = fs[i].locks
    BY <1>1, <1>2, <1>3
  <2>2. \A i \in 1 .. Len(gs) : i \in 1 .. Len(fs) /\ gs[i].locks = fs[i].locks
    BY <1>1, <1>2, <1>3
  <2>3. CeilingInv(fs, ceiling) /\ ceiling \in 0 .. N_AO
    BY DEF FrameInv
  <2>4. fs \in Seq(Frame) /\ gs \in Seq(Frame)
    BY <1>1, <1>3
  <2> QED BY <2>1, <2>2, <2>3, <2>4, SameCeiling
<1> QED BY <1>3, <1>4, <1>5, <1>6, <1>7, <1>8 DEF FrameInv

(* The last activation takes an event.                                     *)
LEMMA Fetched ==
  ASSUME NEW fs, NEW ceiling, NEW n \in [Prio -> Nat], FrameInv(fs, ceiling, n), fs # << >>,
         NEW f \in Frame, f.pc = "run",
         f.prio = fs[Len(fs)].prio, f.pin = fs[Len(fs)].pin, f.locks = fs[Len(fs)].locks,
         NEW gs, gs = [fs EXCEPT ![Len(fs)] = f],
         NEW n1, n1 = [n EXCEPT ![fs[Len(fs)].prio] = @ - 1]
  PROVE  FrameInv(gs, ceiling, n1) /\ TopPrio(gs) = TopPrio(fs)
<1>1. fs \in Seq(Frame) /\ Len(fs) \in Nat \ {0} /\ fs[Len(fs)] \in Frame
  BY DEF FrameInv
<1>2. /\ f \in Frame /\ f.prio = fs[Len(fs)].prio /\ f.pc = "run"
      /\ f.pin = fs[Len(fs)].pin /\ f.locks = fs[Len(fs)].locks
  OBVIOUS
<1>3. /\ gs \in Seq(Frame) /\ Len(gs) = Len(fs) /\ gs[Len(fs)] = f /\ gs # << >>
      /\ \A i \in 1 .. Len(fs) : i # Len(fs) => gs[i] = fs[i]
  BY <1>1
<1>4. TopPrio(gs) = TopPrio(fs)
  BY <1>2, <1>3 DEF TopPrio
<1>5. StackInv(gs)
  BY <1>1, <1>2, <1>3 DEF FrameInv, StackInv
<1>6. EventInv(gs, n1)
  <2> SUFFICES ASSUME NEW i \in 1 .. Len(gs), gs[i].pc = "get"
               PROVE  n1[gs[i].prio] > 0
    BY DEF EventInv
  <2>1. i \in 1 .. Len(fs) /\ i # Len(fs) /\ gs[i] = fs[i] /\ fs[i] \in Frame
    BY <1>1, <1>2, <1>3
  <2>2. fs[i].prio < fs[Len(fs)].prio
    BY <1>1, <2>1, StackRises
  <2>3. n1[fs[i].prio] = n[fs[i].prio]
    BY <1>1, <2>1, <2>2, FrameFields, KernelAssumption DEF Prio
  <2> QED BY <2>1, <2>3 DEF FrameInv, EventInv
<1>7. HoldInv(gs)
  <2>1. \A i \in 1 .. Len(fs) : gs[i].locks = fs[i].locks /\ gs[i].prio = fs[i].prio
    BY <1>1, <1>2, <1>3
  <2> QED BY <1>3, <2>1 DEF FrameInv, HoldInv
<1>8. CeilingInv(gs, ceiling)
  <2>1. \A i \in 1 .. Len(fs) : i \in 1 .. Len(gs) /\ gs[i].locks = fs[i].locks
    BY <1>1, <1>2, <1>3
  <2>2. \A i \in 1 .. Len(gs) : i \in 1 .. Len(fs) /\ gs[i].locks = fs[i].locks
    BY <1>1, <1>2, <1>3
  <2>3. CeilingInv(fs, ceiling) /\ ceiling \in 0 .. N_AO
    BY DEF FrameInv
  <2>4. fs \in Seq(Frame) /\ gs \in Seq(Frame)
    BY <1>1, <1>3
  <2> QED BY <2>1, <2>2, <2>3, <2>4, SameCeiling
<1> QED BY <1>3, <1>4, <1>5, <1>6, <1>7, <1>8 DEF FrameInv

(* New events disturb no activation.                                       *)
LEMMA MoreEvents ==
  ASSUME NEW fs, NEW ceiling, NEW n \in [Prio -> Nat], FrameInv(fs, ceiling, n), NEW q \in Prio,
         NEW n1, n1 = [n EXCEPT ![q] = @ + 1]
  PROVE  FrameInv(fs, ceiling, n1)
<1>1. \A p \in Prio : n[p] > 0 => n1[p] > 0
  OBVIOUS
<1>2. \A i \in 1 .. Len(fs) : fs[i].prio \in Prio
  BY FrameFields DEF FrameInv
<1> QED BY <1>1, <1>2 DEF FrameInv, EventInv

(* The last of the activations fs locks a mutex and becomes f: the current *)
(* ceiling is saved and raised to at least that of the mutex.              *)
LockStep(fs, ceiling, f, gs, ceiling1) ==
  /\ fs # << >> /\ f \in Frame
  /\ f.prio = fs[Len(fs)].prio /\ f.pc = fs[Len(fs)].pc /\ f.pin = fs[Len(fs)].pin
  /\ Len(f.locks) = Len(fs[Len(fs)].locks) + 1
  /\ \A l \in 1 .. Len(fs[Len(fs)].locks) : f.locks[l] = fs[Len(fs)].locks[l]
  /\ f.locks[Len(f.locks)].mutex = ceiling
  /\ gs = [fs EXCEPT ![Len(fs)] = f]
  /\ ceiling1 \in {ceiling, f.locks[Len(f.locks)].ceiling}
  /\ ceiling1 >= ceiling /\ ceiling1 >= f.locks[Len(f.locks)].ceiling

(* Locking a mutex keeps the stack in order.                               *)
LEMMA Locked ==
  ASSUME NEW fs, NEW ceiling, NEW n, FrameInv(fs, ceiling, n),
         NEW f, NEW gs, NEW ceiling1, LockStep(fs, ceiling, f, gs, ceiling1)
  PROVE  FrameInv(gs, ceiling1, n) /\ TopPrio(gs) = TopPrio(fs)
<1> DEFINE top == Len(fs)
           old == fs[top].locks
           m   == f.locks[Len(f.locks)]
           c   == m.ceiling
<1> USE DEF LockStep
<1>1. fs \in Seq(Frame) /\ top \in Nat \ {0} /\ fs[top] \in Frame
  BY DEF FrameInv
<1>2. N_AO \in Nat /\ Prio = 1 .. N_AO /\ ceiling \in 0 .. N_AO
  BY KernelAssumption DEF FrameInv, Prio
<1>3. /\ gs \in Seq(Frame) /\ Len(gs) = top /\ gs[top] = f /\ gs # << >>
      /\ \A i \in 1 .. top : i # top => gs[i] = fs[i]
  BY <1>1
<1>4. /\ old \in Seq([mutex : 0 .. N_AO, ceiling : Prio]) /\ Len(old) \in Nat
      /\ c \in Prio
  <2>1. old \in Seq([mutex : 0 .. N_AO, ceiling : Prio]) /\ Len(old) \in Nat
    BY <1>1, FrameFields
  <2>2. Len(f.locks) \in 1 .. Len(f.locks)
    BY <2>1
  <2> QED BY <2>1, <2>2, FrameFields
<1>5. /\ Len(f.locks) = Len(old) + 1 /\ f.locks[Len(old) + 1] = m
      /\ \A l \in 1 .. Len(old) : f.locks[l] = old[l]
  OBVIOUS
<1>6. TopPrio(gs) = TopPrio(fs) /\ StackInv(gs) /\ EventInv(gs, n)
  <2>1. \A i \in 1 .. top : gs[i].prio = fs[i].prio /\ gs[i].pin = fs[i].pin /\ gs[i].pc = fs[i].pc
    BY <1>1, <1>3
  <2> QED BY <1>1, <1>3, <2>1 DEF FrameInv, StackInv, EventInv, TopPrio
<1>7. HoldInv(gs)
  <2> SUFFICES ASSUME NEW i \in 1 .. Len(gs), NEW j \in 1 .. Len(gs), i < j,
                      NEW l \in 1 .. Len(gs[i].locks)
               PROVE  gs[j].prio > gs[i].locks[l].ceiling
    BY DEF HoldInv
  <2>1. i \in 1 .. top /\ i # top /\ gs[i] = fs[i] /\ j \in 1 .. top /\ gs[j].prio = fs[j].prio
    BY <1>1, <1>3
  <2> QED BY <2>1 DEF FrameInv, HoldInv
<1>8. ASSUME NEW i \in 1 .. top, NEW k \in Nat, i = top => k <= Len(old) + 1, NEW d
      PROVE  HeldBefore(gs, i, k, d) <=> HeldBefore(fs, i, k, d)
  <2>1. ASSUME NEW j \in 1 .. top, NEW l \in Nat, j < i \/ (j = i /\ l < k)
        PROVE  /\ l \in 1 .. Len(gs[j].locks) <=> l \in 1 .. Len(fs[j].locks)
               /\ l \in 1 .. Len(fs[j].locks) => gs[j].locks[l] = fs[j].locks[l]
    <3>1. CASE j = top
      BY <1>1, <1>3, <1>4, <1>5, <1>8, <2>1, <3>1
    <3>2. CASE j # top
      BY <1>1, <1>3, <3>2
    <3> QED BY <3>1, <3>2
  <2>2. \A j \in 1 .. top : Len(fs[j].locks) \in Nat /\ Len(gs[j].locks) \in Nat
    BY <1>1, <1>3, FrameFields
  <2>3. HeldBefore(gs, i, k, d) => HeldBefore(fs, i, k, d)
    <3> SUFFICES ASSUME NEW j \in 1 .. top, NEW l \in 1 .. Len(gs[j].locks),
                        j < i \/ (j = i /\ l < k), gs[j].locks[l].ceiling = d
                 PROVE  HeldBefore(fs, i, k, d)
      BY <1>3 DEF HeldBefore
    <3>1. l \in Nat
      BY <2>2
    <3>2. l \in 1 .. Len(fs[j].locks) /\ gs[j].locks[l] = fs[j].locks[l]
      BY <2>1, <3>1
    <3> QED BY <3>2 DEF HeldBefore
  <2>4. HeldBefore(fs, i, k, d) => HeldBefore(gs, i, k, d)
    <3> SUFFICES ASSUME NEW j \in 1 .. top, NEW l \in 1 .. Len(fs[j].locks),
                        j < i \/ (j = i /\ l < k), fs[j].locks[l].ceiling = d
                 PROVE  HeldBefore(gs, i, k, d)
      BY <1>3 DEF HeldBefore
    <3>1. l \in Nat
      BY <2>2
    <3>2. l \in 1 .. Len(gs[j].locks) /\ gs[j].locks[l] = fs[j].locks[l]
      BY <2>1, <3>1
    <3> QED BY <1>3, <3>2 DEF HeldBefore
  <2> QED BY <2>3, <2>4
<1>9. ASSUME NEW d
      PROVE  HeldBefore(gs, top + 1, 1, d) <=> HeldBefore(fs, top + 1, 1, d) \/ d = c
  <2>1. ASSUME NEW j \in 1 .. top, NEW l \in 1 .. Len(fs[j].locks)
        PROVE  l \in 1 .. Len(gs[j].locks) /\ gs[j].locks[l] = fs[j].locks[l]
    <3>1. CASE j = top
      BY <1>1, <1>3, <1>4, <1>5, <3>1
    <3>2. CASE j # top
      BY <1>1, <1>3, <3>2
    <3> QED BY <3>1, <3>2
  <2>2. ASSUME NEW j \in 1 .. top, NEW l \in 1 .. Len(gs[j].locks)
        PROVE  \/ l \in 1 .. Len(fs[j].locks) /\ gs[j].locks[l] = fs[j].locks[l]
               \/ gs[j].locks[l] = m
    <3>1. CASE j = top
      BY <1>1, <1>3, <1>4, <1>5, <3>1
    <3>2. CASE j # top
      BY <1>1, <1>3, <3>2
    <3> QED BY <3>1, <3>2
  <2>3. top \in 1 .. top /\ Len(old) + 1 \in 1 .. Len(gs[top].locks) /\ gs[top].locks[Len(old) + 1] = m
    BY <1>1, <1>3, <1>4, <1>5
  <2>4. m.ceiling = c
    OBVIOUS
  <2>5. HeldBefore(gs, top + 1, 1, d) => HeldBefore(fs, top + 1, 1, d) \/ d = c
    BY <1>1, <1>3, <2>2, <2>4 DEF HeldBefore
  <2>6. HeldBefore(fs, top + 1, 1, d) => HeldBefore(gs, top + 1, 1, d)
    BY <1>1, <1>3, <2>1 DEF HeldBefore
  <2>7. HeldBefore(gs, top + 1, 1, c)
    <3>1. top < top + 1 /\ Len(gs) = top
      BY <1>1, <1>3
    <3> QED BY <2>3, <2>4, <3>1 DEF HeldBefore
  <2> QED BY <2>5, <2>6, <2>7
<1>10. HighestBefore(gs, Len(gs) + 1, 1, ceiling1)
  <2>1. HighestBefore(fs, top + 1, 1, ceiling)
    BY DEF FrameInv, CeilingInv
  <2>2. ceiling1 \in 0 .. N_AO /\ ceiling1 >= c /\ ceiling1 >= ceiling /\ ceiling1 \in {c, ceiling}
    BY <1>2, <1>4
  <2>3. ceiling1 = 0 \/ HeldBefore(gs, top + 1, 1, ceiling1)
    <3>1. CASE ceiling1 = c
      BY <1>9, <3>1
    <3>2. CASE ceiling1 = ceiling
      BY <1>9, <2>1, <3>2 DEF HighestBefore
    <3> QED BY <2>2, <3>1, <3>2
  <2>4. ASSUME NEW d \in Prio, HeldBefore(gs, top + 1, 1, d)
        PROVE  d <= ceiling1
    <3>1. d = c \/ d <= ceiling
      BY <1>9, <2>1, <2>4 DEF HighestBefore
    <3> QED BY <1>2, <2>2, <3>1
  <2>5. Len(gs) + 1 = top + 1
    BY <1>3
  <2> QED BY <2>3, <2>4, <2>5 DEF HighestBefore
<1>11. ASSUME NEW i \in 1 .. Len(gs), NEW k \in 1 .. Len(gs[i].locks)
       PROVE  HighestBefore(gs, i, k, gs[i].locks[k].mutex)
  <2>1. k \in Nat /\ i \in 1 .. top /\ (i = top => k <= Len(old) + 1)
    BY <1>3, <1>4, <1>5
  <2>2. \A d : HeldBefore(gs, i, k, d) <=> HeldBefore(fs, i, k, d)
    BY <1>8, <2>1
  <2>3. CASE k \in 1 .. Len(fs[i].locks) /\ gs[i].locks[k] = fs[i].locks[k]
    BY <2>1, <2>2, <2>3 DEF FrameInv, CeilingInv, HighestBefore
  <2>4. CASE i = top /\ k = Len(old) + 1
    <3>1. gs[i].locks[k].mutex = ceiling
      BY <1>3, <1>5, <2>4
    <3>2. ASSUME NEW j \in 1 .. top, NEW l \in 1 .. Len(fs[j].locks)
          PROVE  j < i \/ (j = i /\ l < k)
      BY <1>1, <1>4, <2>4
    <3>3. \A d : HeldBefore(fs, i, k, d) <=> HeldBefore(fs, top + 1, 1, d)
      BY <1>1, <3>2 DEF HeldBefore
    <3> QED BY <2>2, <3>1, <3>3 DEF FrameInv, CeilingInv, HighestBefore
  <2>5. CASE i = top
    <3>1. k \in 1 .. Len(old) + 1
      BY <1>3, <1>5, <2>5
    <3>2. k \in 1 .. Len(old) \/ k = Len(old) + 1
      BY <1>4, <3>1
    <3> QED BY <1>3, <1>5, <2>3, <2>4, <2>5, <3>2
  <2>6. CASE i # top
    BY <1>1, <1>3, <2>1, <2>3, <2>6
  <2> QED BY <2>5, <2>6
<1>12. ceiling1 \in 0 .. N_AO
  BY <1>2, <1>4
<1> QED BY <1>3, <1>6, <1>7, <1>10, <1>11, <1>12 DEF FrameInv, CeilingInv

(* The last activation unlocks the mutex it locked last: the ceiling goes  *)
(* back to what the others hold, which is not above the current one.       *)
LEMMA Unlocked ==
  ASSUME NEW fs, NEW ceiling, NEW n, FrameInv(fs, ceiling, n), fs # << >>,
         fs[Len(fs)].locks # << >>,
         NEW m, m = fs[Len(fs)].locks[Len(fs[Len(fs)].locks)].mutex,
         NEW f \in Frame, f.prio = fs[Len(fs)].prio, f.pc = fs[Len(fs)].pc, f.pin = fs[Len(fs)].pin,
         f.locks = SubSeq(fs[Len(fs)].locks, 1, Len(fs[Len(fs)].locks) - 1),
         NEW gs, gs = [fs EXCEPT ![Len(fs)] = f]
  PROVE  FrameInv(gs, m, n) /\ TopPrio(gs) = TopPrio(fs) /\ m <= ceiling
<1> DEFINE top  == Len(fs)
           old  == fs[top].locks
           last == Len(old)
<1>1. fs \in Seq(Frame) /\ top \in Nat \ {0} /\ fs[top] \in Frame
  BY DEF FrameInv
<1>2. N_AO \in Nat /\ Prio = 1 .. N_AO /\ ceiling \in 0 .. N_AO
  BY KernelAssumption DEF FrameInv, Prio
<1>3. /\ gs \in Seq(Frame) /\ Len(gs) = top /\ gs[top] = f /\ gs # << >>
      /\ \A i \in 1 .. top : i # top => gs[i] = fs[i]
  BY <1>1
<1>4. /\ old \in Seq([mutex : 0 .. N_AO, ceiling : Prio]) /\ last \in Nat \ {0}
      /\ m \in 0 .. N_AO
  <2>1. old \in Seq([mutex : 0 .. N_AO, ceiling : Prio]) /\ old # << >>
    BY <1>1, FrameFields
  <2>2. last \in Nat \ {0}
    BY <2>1
  <2>3. \A l \in 1 .. Len(fs[top].locks) : fs[top].locks[l].mutex \in 0 .. N_AO
    BY <1>1, FrameFields
  <2>4. m \in 0 .. N_AO
    BY <2>2, <2>3
  <2> QED BY <2>1, <2>2, <2>4
<1>5. /\ Len(f.locks) = last - 1
      /\ \A l \in 1 .. last - 1 : f.locks[l] = old[l]
  BY <1>4, DropLast
<1>6. TopPrio(gs) = TopPrio(fs) /\ StackInv(gs) /\ EventInv(gs, n)
  <2>1. \A i \in 1 .. top : gs[i].prio = fs[i].prio /\ gs[i].pin = fs[i].pin /\ gs[i].pc = fs[i].pc
    BY <1>1, <1>3
  <2> QED BY <1>1, <1>3, <2>1 DEF FrameInv, StackInv, EventInv, TopPrio
<1>7. HoldInv(gs)
  <2> SUFFICES ASSUME NEW i \in 1 .. Len(gs), NEW j \in 1 .. Len(gs), i < j,
                      NEW l \in 1 .. Len(gs[i].locks)
               PROVE  gs[j].prio > gs[i].locks[l].ceiling
    BY DEF HoldInv
  <2>1. i \in 1 .. top /\ i # top /\ gs[i] = fs[i] /\ j \in 1 .. top /\ gs[j].prio = fs[j].prio
    BY <1>1, <1>3
  <2> QED BY <2>1 DEF FrameInv, HoldInv
<1>8. ASSUME NEW j \in 1 .. top, NEW l
      PROVE  /\ l \in 1 .. Len(gs[j].locks) <=> l \in 1 .. Len(fs[j].locks) /\ (j < top \/ l < last)
             /\ l \in 1 .. Len(gs[j].locks) => gs[j].locks[l] = fs[j].locks[l]
  <2>1. CASE j = top
    <3>1. gs[j].locks = f.locks /\ fs[j].locks = old /\ ~(j < top)
      BY <1>1, <1>3, <2>1
    <3>2. l \in 1 .. last - 1 <=> l \in 1 .. last /\ l < last
      BY <1>4
    <3> HIDE DEF old, last
    <3>3. Len(old) = last
      BY DEF last
    <3> QED BY <1>5, <3>1, <3>2, <3>3
  <2>2. CASE j # top
    BY <1>1, <1>3, <2>2
  <2> QED BY <2>1, <2>2
<1>9. ASSUME NEW d
      PROVE  HeldBefore(gs, top + 1, 1, d) <=> HeldBefore(fs, top, last, d)
  <2>1. \A j \in 1 .. top : j < top + 1
    BY <1>1
  <2>2. \A j \in 1 .. top : j < top \/ j = top
    BY <1>1
  <2>3. ASSUME HeldBefore(gs, top + 1, 1, d) PROVE HeldBefore(fs, top, last, d)
    <3>0. PICK j \in 1 .. top : \E l \in 1 .. Len(gs[j].locks) : gs[j].locks[l].ceiling = d
      BY <1>3, <2>3 DEF HeldBefore
    <3>1. PICK l \in 1 .. Len(gs[j].locks) : gs[j].locks[l].ceiling = d
      BY <3>0
    <3>2. l \in 1 .. Len(fs[j].locks) /\ (j < top \/ l < last) /\ gs[j].locks[l] = fs[j].locks[l]
      BY <1>8, <3>1
    <3> QED BY <2>2, <3>1, <3>2 DEF HeldBefore
  <2>4. ASSUME HeldBefore(fs, top, last, d) PROVE HeldBefore(gs, top + 1, 1, d)
    <3>0. PICK j \in 1 .. top : \E l \in 1 .. Len(fs[j].locks) :
            (j < top \/ (j = top /\ l < last)) /\ fs[j].locks[l].ceiling = d
      BY <2>4 DEF HeldBefore
    <3>1. PICK l \in 1 .. Len(fs[j].locks) :
            (j < top \/ (j = top /\ l < last)) /\ fs[j].locks[l].ceiling = d
      BY <3>0
    <3>2. l \in 1 .. Len(gs[j].locks) /\ gs[j].locks[l] = fs[j].locks[l]
      BY <1>8, <3>1
    <3> QED BY <1>3, <2>1, <3>1, <3>2 DEF HeldBefore
  <2> QED BY <2>3, <2>4
<1>10. HighestBefore(fs, top, last, m)
  <2>1. CeilingInv(fs, ceiling)
    BY DEF FrameInv
  <2>2. top \in 1 .. Len(fs) /\ last \in 1 .. Len(fs[top].locks)
    BY <1>1, <1>4
  <2>3. HighestBefore(fs, top, last, fs[top].locks[last].mutex)
    BY <2>1, <2>2 DEF CeilingInv
  <2> QED BY <2>3
<1>11. HighestBefore(gs, Len(gs) + 1, 1, m)
  BY <1>3, <1>9, <1>10 DEF HighestBefore
<1>12. m <= ceiling
  <2>1. CASE m = 0
    BY <1>2, <2>1
  <2>2. CASE m # 0
    <3>1. HeldBefore(fs, top, last, m) /\ m \in Prio
      BY <1>2, <1>4, <1>10, <2>2 DEF HighestBefore
    <3>2. \A j \in 1 .. top : j < top + 1
      BY <1>1
    <3>3. HeldBefore(fs, top + 1, 1, m)
      BY <3>1, <3>2 DEF HeldBefore
    <3> QED BY <3>1, <3>3 DEF FrameInv, CeilingInv, HighestBefore
  <2> QED BY <2>1, <2>2
<1>13. ASSUME NEW i \in 1 .. Len(gs), NEW k \in 1 .. Len(gs[i].locks)
       PROVE  HighestBefore(gs, i, k, gs[i].locks[k].mutex)
  <2>1. i \in 1 .. top /\ k \in 1 .. Len(fs[i].locks) /\ gs[i].locks[k] = fs[i].locks[k]
    BY <1>3, <1>8
  <2>2. i = top => k < last
    BY <1>1, <1>8, <2>1
  <2>3. \A j \in 1 .. top : Len(fs[j].locks) \in Nat
    BY <1>1, FrameFields
  <2>4. ASSUME NEW j \in 1 .. top, NEW l \in 1 .. Len(fs[j].locks), j < i \/ (j = i /\ l < k)
        PROVE  l \in 1 .. Len(gs[j].locks)
    <3>1. j < top \/ l < last
      BY <1>1, <1>4, <2>1, <2>2, <2>3, <2>4
    <3> QED BY <1>8, <3>1
  <2>5. \A d : HeldBefore(gs, i, k, d) <=> HeldBefore(fs, i, k, d)
    <3> SUFFICES ASSUME NEW d PROVE HeldBefore(gs, i, k, d) <=> HeldBefore(fs, i, k, d)
      OBVIOUS
    <3>1. HeldBefore(gs, i, k, d) => HeldBefore(fs, i, k, d)
      BY <1>3, <1>8 DEF HeldBefore
    <3>2. HeldBefore(fs, i, k, d) => HeldBefore(gs, i, k, d)
      BY <1>3, <1>8, <2>4 DEF HeldBefore
    <3> QED BY <3>1, <3>2
  <2> QED BY <2>1, <2>5 DEF FrameInv, CeilingInv, HighestBefore
<1> QED BY <1>3, <1>4, <1>6, <1>7, <1>11, <1>12, <1>13 DEF FrameInv, CeilingInv

----------------------------------------------------------------------------
(* Interrupt handlers.                                                     *)

IsrState == {"entered", "body", "leaving"}

(* The handlers in their bodies are finitely many.                         *)
LEMMA BodiesFinite ==
  ASSUME NEW is \in Seq(IsrState)
  PROVE  IsFiniteSet(Bodies(is)) /\ Cardinality(Bodies(is)) \in Nat
<1>1. Len(is) \in Nat
  OBVIOUS
<1>2. IsFiniteSet(1 .. Len(is)) /\ Bodies(is) \subseteq 1 .. Len(is)
  BY <1>1, FS_Interval DEF Bodies
<1> QED BY <1>2, FS_Subset, FS_CardinalityType

(* What the last handler's moves do to the set of bodies.                  *)
LEMMA BodiesChange ==
  ASSUME NEW is \in Seq(IsrState), is # << >>, NEW l \in IsrState,
         NEW js, js = [is EXCEPT ![Len(is)] = l]
  PROVE  /\ js \in Seq(IsrState) /\ Len(js) = Len(is) /\ js # << >>
         /\ \A i \in 1 .. Len(is) : js[i] = IF i = Len(is) THEN l ELSE is[i]
         /\ is[Len(is)] # "body" /\ l = "body" =>
              Cardinality(Bodies(js)) = Cardinality(Bodies(is)) + 1
         /\ is[Len(is)] = "body" /\ l # "body" =>
              Cardinality(Bodies(js)) = Cardinality(Bodies(is)) - 1
<1>1. /\ js \in Seq(IsrState) /\ Len(js) = Len(is) /\ js # << >> /\ Len(is) \in Nat \ {0}
      /\ \A i \in 1 .. Len(is) : js[i] = IF i = Len(is) THEN l ELSE is[i]
  OBVIOUS
<1>2. IsFiniteSet(Bodies(is))
  BY BodiesFinite
<1>3. ASSUME is[Len(is)] # "body", l = "body"
      PROVE  Cardinality(Bodies(js)) = Cardinality(Bodies(is)) + 1
  <2>1. Bodies(js) = Bodies(is) \cup {Len(is)} /\ Len(is) \notin Bodies(is)
    BY <1>1, <1>3 DEF Bodies
  <2> QED BY <1>2, <2>1, FS_AddElement
<1>4. ASSUME is[Len(is)] = "body", l # "body"
      PROVE  Cardinality(Bodies(js)) = Cardinality(Bodies(is)) - 1
  <2>1. Bodies(js) = Bodies(is) \ {Len(is)} /\ Len(is) \in Bodies(is)
    BY <1>1, <1>4 DEF Bodies
  <2> QED BY <1>2, <2>1, FS_RemoveElement
<1> QED BY <1>1, <1>3, <1>4

----------------------------------------------------------------------------
(* The scheduler.                                                          *)

(* QK_schedPrio_ chooses the most urgent ready active object, provided it  *)
(* is more urgent than what runs and than the ceiling.                     *)
LEMMA SchedPrioChoice ==
  ASSUME NEW rs \in PrioSet, NEW n \in [Prio -> Nat], ReadyExact(rs, n),
         NEW curr \in 0 .. LOCKED, NEW ceiling \in 0 .. N_AO,
         NEW p, p = SchedPrio(rs, curr, ceiling)
  PROVE  /\ p # 0 => /\ p \in Prio /\ n[p] > 0 /\ p > curr /\ p > ceiling
                     /\ \A q \in Prio : n[q] > 0 => q <= p
         /\ p = 0 => \A q \in Prio : n[q] > 0 => q <= curr \/ q <= ceiling
<1>1. N_AO \in Nat /\ Prio = 1 .. N_AO /\ LOCKED = N_AO + 1
  BY KernelAssumption DEF Prio, LOCKED
<1> DEFINE m == QPSet64_findMax(rs)
<1>2. m \in 0 .. N_AO /\ (m # 0 => n[m] > 0) /\ \A q \in Prio : n[q] > 0 => q <= m
  BY FindMaxReady
<1>3. p = IF m <= curr \/ m <= ceiling THEN 0 ELSE m
  BY DEF SchedPrio
<1> HIDE DEF m
<1> QED BY <1>1, <1>2, <1>3

(* QK_sched_ keeps the stack in order, and leaves nothing more urgent      *)
(* waiting than what runs and than the ceiling.                            *)
LEMMA Scheduled ==
  ASSUME NEW rs \in PrioSet, NEW n \in [Prio -> Nat], ReadyExact(rs, n), NEW ceiling,
         FrameInv(frames, ceiling, n), NEW curr, curr = TopPrio(frames),
         Schedule(rs, curr, ceiling)
  PROVE  /\ FrameInv(frames', ceiling, n) /\ currPrio' = TopPrio(frames')
         /\ currPrio' \in 0 .. N_AO
         /\ \A q \in Prio : n[q] > 0 => q <= currPrio' \/ q <= ceiling
<1> DEFINE p == SchedPrio(rs, curr, ceiling)
<1>1. N_AO \in Nat /\ Prio = 1 .. N_AO /\ LOCKED = N_AO + 1 /\ ceiling \in 0 .. N_AO
  BY KernelAssumption DEF Prio, LOCKED, FrameInv
<1>2. curr \in 0 .. N_AO
  <2>1. frames \in Seq(Frame)
    BY DEF FrameInv
  <2>2. CASE frames = << >>
    BY <1>1, <2>2 DEF TopPrio
  <2>3. CASE frames # << >>
    <3>1. frames[Len(frames)] \in Frame
      BY <2>1, <2>3
    <3> QED BY <1>1, <2>3, <3>1, FrameFields DEF TopPrio
  <2> QED BY <2>2, <2>3
<1>3. /\ p # 0 => /\ p \in Prio /\ n[p] > 0 /\ p > curr /\ p > ceiling
                  /\ \A q \in Prio : n[q] > 0 => q <= p
      /\ p = 0 => \A q \in Prio : n[q] > 0 => q <= curr \/ q <= ceiling
  <2>1. curr \in 0 .. LOCKED
    BY <1>1, <1>2
  <2> QED BY <1>1, <2>1, SchedPrioChoice
<1>4. \/ p # 0 /\ Activate(p, curr)
      \/ p = 0 /\ currPrio' = curr /\ frames' = frames
  BY DEF Schedule
<1> HIDE DEF p
<1>5. CASE p # 0 /\ Activate(p, curr)
  <2> DEFINE f == [prio |-> p, pin |-> curr, pc |-> "get", locks |-> << >>]
  <2>1. frames' = Append(frames, f) /\ currPrio' = p
    BY <1>5 DEF Activate
  <2>2. p \in Prio /\ n[p] > 0 /\ p > TopPrio(frames) /\ p > ceiling
    BY <1>3, <1>5
  <2>3. f \in Frame /\ f.prio = p /\ f.pin = TopPrio(frames) /\ f.pc = "get" /\ f.locks = << >>
    BY <1>2, <2>2 DEF Frame
  <2> HIDE DEF f
  <2>4. n[f.prio] > 0 /\ f.prio > TopPrio(frames) /\ f.prio > ceiling
    BY <2>2, <2>3
  <2>5. FrameInv(frames', ceiling, n) /\ TopPrio(frames') = f.prio
    BY <2>1, <2>3, <2>4, Pushed
  <2> QED BY <1>1, <1>3, <1>5, <2>1, <2>3, <2>5
<1>6. CASE p = 0 /\ currPrio' = curr /\ frames' = frames
  BY <1>2, <1>3, <1>6
<1> QED BY <1>4, <1>5, <1>6

----------------------------------------------------------------------------
(* Every step preserves the invariant.                                     *)

(* The ready set in TypeOK has the type the lemmas on priority sets name.  *)
LEMMA ReadyType == TypeOK => readySet \in PrioSet /\ isrs \in Seq(IsrState)
  BY DEF TypeOK, PrioSet, IsrState

(* What an activation that executes is known to be.                        *)
LEMMA RunningFacts ==
  ASSUME IInv, NEW l, Running(l)
  PROVE  /\ frames \in Seq(Frame) /\ frames # << >> /\ Top \in Frame /\ Top.pc = l
         /\ phase # "boot" /\ isrs = << >> /\ pendSV = 0
         /\ Len(frames) \in 1 .. Len(frames)
         /\ currPrio = Top.prio /\ Top.prio \in Prio
         /\ FrameInv(frames, ceilingPrio, nEvt)
<1>1. frames \in Seq(Frame) /\ frames # << >> /\ isrs = << >> /\ pendSV = 0 /\ Top.pc = l
  BY DEF Running, IInv, TypeOK
<1>2. Len(frames) \in 1 .. Len(frames) /\ Top \in Frame
  BY <1>1 DEF Top
<1>3. phase # "boot" /\ FrameInv(frames, ceilingPrio, nEvt)
  BY <1>1 DEF IInv, PhaseInv
<1>4. currPrio = Top.prio
  BY <1>1, <1>3 DEF IInv, TopPrio, Top
<1> QED BY <1>1, <1>2, <1>3, <1>4, FrameFields

(* The activation fetches an event.                                        *)
LEMMA GetInv == ASSUME IInv, Get PROVE IInv'
<1> DEFINE f == [Top EXCEPT !.pc = "run"]
<1>1. Running("get")
  BY DEF Get
<1>2. /\ frames \in Seq(Frame) /\ frames # << >> /\ Top \in Frame /\ Top.pc = "get"
      /\ phase # "boot" /\ isrs = << >> /\ pendSV = 0
      /\ Len(frames) \in 1 .. Len(frames)
      /\ currPrio = Top.prio /\ Top.prio \in Prio
      /\ FrameInv(frames, ceilingPrio, nEvt)
  BY <1>1, RunningFacts
<1>3. /\ f \in Frame /\ f.pc = "run"
      /\ f.prio = Top.prio /\ f.pin = Top.pin /\ f.locks = Top.locks
  BY <1>2 DEF Frame
<1>4. /\ nEvt' = [nEvt EXCEPT ![Top.prio] = @ - 1]
      /\ readySet' = IF nEvt[Top.prio] = 1 THEN QPSet64_remove(readySet, Top.prio) ELSE readySet
      /\ frames' = [frames EXCEPT ![Len(frames)] = f]
      /\ UNCHANGED <<phase, currPrio, ceilingPrio, intNest, isrs, pendSV, ops>>
  BY DEF Get, Removed, SetTop, intVars
<1> HIDE DEF f
<1>5. nEvt[Top.prio] > 0
  BY <1>2 DEF FrameInv, EventInv, Top
<1>6. nEvt \in [Prio -> Nat] /\ readySet \in PrioSet /\ ReadyExact(readySet, nEvt)
  BY ReadyType DEF IInv, TypeOK
<1>7. readySet' \in PrioSet /\ ReadyExact(readySet', nEvt')
  BY <1>2, <1>4, <1>5, <1>6, RemoveReady
<1>8. FrameInv(frames', ceilingPrio, nEvt') /\ TopPrio(frames') = TopPrio(frames)
  BY <1>2, <1>3, <1>4, <1>6, Fetched DEF Top
<1>9. \A p \in Prio : nEvt'[p] \in Nat /\ (nEvt'[p] > 0 => nEvt[p] > 0)
  BY <1>2, <1>4, <1>5, <1>6
<1>10. nEvt' \in [Prio -> Nat]
  BY <1>2, <1>4, <1>5, <1>6
<1>11. TypeOK'
  BY <1>4, <1>7, <1>8, <1>10 DEF IInv, TypeOK, PrioSet, FrameInv
<1>12. PhaseInv' /\ IsrInv' /\ (phase' # "boot" => currPrio' = TopPrio(frames'))
  BY <1>2, <1>4, <1>8 DEF IInv, PhaseInv, IsrInv
<1>13. UrgentRuns'
  BY <1>4, <1>9 DEF IInv, UrgentRuns
<1> QED BY <1>4, <1>7, <1>8, <1>11, <1>12, <1>13 DEF IInv

(* The run-to-completion step ends.                                        *)
LEMMA CompleteInv == ASSUME IInv, Complete PROVE IInv'
<1> DEFINE p == QPSet64_findMax(readySet)
           f == [Top EXCEPT !.prio = p, !.pc = "get"]
<1>1. Running("run")
  BY DEF Complete
<1>2. /\ frames \in Seq(Frame) /\ frames # << >> /\ Top \in Frame /\ Top.pc = "run"
      /\ phase # "boot" /\ isrs = << >> /\ pendSV = 0
      /\ Len(frames) \in 1 .. Len(frames)
      /\ currPrio = Top.prio /\ Top.prio \in Prio
      /\ FrameInv(frames, ceilingPrio, nEvt)
  BY <1>1, RunningFacts
<1>3. /\ Top.locks = << >>
      /\ UNCHANGED <<phase, nEvt, readySet, ceilingPrio, intNest, isrs, pendSV, ops>>
  BY DEF Complete, intVars
<1>4. nEvt \in [Prio -> Nat] /\ readySet \in PrioSet /\ ReadyExact(readySet, nEvt)
  BY ReadyType DEF IInv, TypeOK
<1>5. p \in 0 .. N_AO /\ (p # 0 => nEvt[p] > 0) /\ \A q \in Prio : nEvt[q] > 0 => q <= p
  BY <1>4, FindMaxReady
<1>6. N_AO \in Nat /\ Prio = 1 .. N_AO /\ ceilingPrio \in 0 .. N_AO /\ Top.pin \in 0 .. N_AO
  BY <1>2, KernelAssumption, FrameFields DEF Prio, FrameInv
<1>7. /\ FrameInv(frames', ceilingPrio, nEvt) /\ currPrio' = TopPrio(frames')
      /\ currPrio' \in 0 .. N_AO
      /\ \A q \in Prio : nEvt[q] > 0 => q <= currPrio' \/ q <= ceilingPrio
  <2>1. CASE GoesOn(p, Top.pin) /\ SetTop(f) /\ currPrio' = p
    <3>1. p > Top.pin /\ p > ceilingPrio /\ frames' = [frames EXCEPT ![Len(frames)] = f]
      BY <2>1 DEF GoesOn, SetTop
    <3>2. p \in Prio /\ nEvt[p] > 0
      BY <1>5, <1>6, <3>1
    <3>3. /\ f \in Frame /\ f.prio = p /\ f.pc = "get"
          /\ f.pin = Top.pin /\ f.locks = Top.locks
      BY <1>2, <3>2 DEF Frame
    <3> HIDE DEF f, p
    <3>4. nEvt[f.prio] > 0 /\ f.prio > f.pin /\ f.prio > ceilingPrio
      BY <3>1, <3>2, <3>3
    <3>5. FrameInv(frames', ceilingPrio, nEvt) /\ TopPrio(frames') = f.prio
      BY <1>2, <1>3, <3>1, <3>3, <3>4, Replaced DEF Top
    <3> QED BY <1>5, <2>1, <3>3, <3>5
  <2>2. CASE /\ ~GoesOn(p, Top.pin) /\ currPrio' = Top.pin
             /\ frames' = SubSeq(frames, 1, Len(frames) - 1)
    <3> HIDE DEF f, p
    <3>1. FrameInv(frames', ceilingPrio, nEvt) /\ TopPrio(frames') = Top.pin
      BY <1>2, <1>3, <2>2, Popped DEF Top
    <3>2. p <= Top.pin \/ p <= ceilingPrio
      BY <1>5, <1>6, <2>2 DEF GoesOn
    <3> QED BY <1>5, <1>6, <2>2, <3>1, <3>2
  <2> QED BY <2>1, <2>2 DEF Complete
<1>8. TypeOK'
  <2>1. currPrio' \in 0 .. LOCKED
    BY <1>6, <1>7 DEF LOCKED
  <2> QED BY <1>3, <1>7, <2>1 DEF IInv, TypeOK, FrameInv
<1>9. PhaseInv' /\ IsrInv' /\ UrgentRuns'
  BY <1>2, <1>3, <1>7 DEF IInv, PhaseInv, IsrInv, UrgentRuns
<1> QED BY <1>3, <1>7, <1>8, <1>9 DEF IInv

(* An event is added to the queue of q.                                    *)
LEMMA EnqueueFacts ==
  ASSUME IInv, NEW q \in Prio, Enqueue(q)
  PROVE  /\ nEvt' \in [Prio -> Nat] /\ readySet' \in PrioSet /\ ReadyExact(readySet', nEvt')
         /\ FrameInv(frames, ceilingPrio, nEvt')
         /\ \A p \in Prio : p # q => nEvt'[p] = nEvt[p]
<1>1. nEvt \in [Prio -> Nat] /\ readySet \in PrioSet /\ ReadyExact(readySet, nEvt)
  BY ReadyType DEF IInv, TypeOK
<1>2. /\ nEvt' = [nEvt EXCEPT ![q] = @ + 1]
      /\ readySet' = IF nEvt[q] = 0 THEN QPSet64_insert(readySet, q) ELSE readySet
  BY DEF Enqueue, Inserted
<1>3. readySet' \in PrioSet /\ ReadyExact(readySet', nEvt')
  BY <1>1, <1>2, InsertReady
<1>4. FrameInv(frames, ceilingPrio, nEvt')
  BY <1>1, <1>2, MoreEvents DEF IInv
<1> QED BY <1>1, <1>2, <1>3, <1>4

(* An active object posts an event.                                        *)
LEMMA PostInv == ASSUME IInv, NEW q \in Prio, Post(q) PROVE IInv'
<1>1. Running("run") /\ Op /\ Enqueue(q)
  BY DEF Post
<1>2. /\ frames \in Seq(Frame) /\ phase # "boot" /\ isrs = << >> /\ pendSV = 0
      /\ currPrio = TopPrio(frames) /\ currPrio \in 0 .. N_AO
  BY <1>1, RunningFacts DEF IInv, PhaseInv
<1>3. UNCHANGED <<phase, ceilingPrio, intNest, isrs, pendSV>>
  BY DEF Post, intVars
<1>4. /\ nEvt' \in [Prio -> Nat] /\ readySet' \in PrioSet /\ ReadyExact(readySet', nEvt')
      /\ FrameInv(frames, ceilingPrio, nEvt')
      /\ \A p \in Prio : p # q => nEvt'[p] = nEvt[p]
  BY <1>1, EnqueueFacts
<1>5. /\ FrameInv(frames', ceilingPrio, nEvt') /\ currPrio' = TopPrio(frames')
      /\ currPrio' \in 0 .. N_AO
      /\ \A p \in Prio : nEvt'[p] > 0 => p <= currPrio' \/ p <= ceilingPrio
  <2>1. CASE nEvt[q] = 0 /\ Schedule(readySet', currPrio, ceilingPrio)
    BY <1>2, <1>4, <2>1, Scheduled
  <2>2. CASE nEvt[q] # 0 /\ UNCHANGED <<currPrio, frames>>
    <3>1. \A p \in Prio : nEvt'[p] > 0 => nEvt[p] > 0
      BY <1>4, <2>2 DEF IInv, TypeOK
    <3> QED BY <1>2, <1>4, <2>2, <3>1 DEF IInv, UrgentRuns
  <2> QED BY <2>1, <2>2 DEF Post
<1>6. ops' \in Nat
  BY <1>1 DEF Op, IInv, TypeOK
<1>7. TypeOK'
  <2>1. currPrio' \in 0 .. LOCKED
    BY <1>5, KernelAssumption DEF LOCKED
  <2> QED BY <1>3, <1>4, <1>5, <1>6, <2>1 DEF IInv, TypeOK, FrameInv, PrioSet
<1>8. PhaseInv' /\ IsrInv' /\ UrgentRuns'
  BY <1>2, <1>3, <1>5 DEF IInv, PhaseInv, IsrInv, UrgentRuns
<1> QED BY <1>3, <1>4, <1>5, <1>7, <1>8 DEF IInv

(* An active object locks a mutex.                                         *)
LEMMA LockInv == ASSUME IInv, NEW c \in Prio, Lock(c) PROVE IInv'
<1> DEFINE m    == [mutex |-> ceilingPrio, ceiling |-> c]
           held == Append(Top.locks, m)
           f    == [Top EXCEPT !.locks = held]
<1>1. Running("run") /\ Op
  BY DEF Lock
<1>2. /\ frames \in Seq(Frame) /\ frames # << >> /\ Top \in Frame /\ Top.pc = "run"
      /\ phase # "boot" /\ isrs = << >> /\ pendSV = 0
      /\ Len(frames) \in 1 .. Len(frames)
      /\ currPrio = Top.prio /\ Top.prio \in Prio
      /\ FrameInv(frames, ceilingPrio, nEvt)
  BY <1>1, RunningFacts
<1>3. /\ frames' = [frames EXCEPT ![Len(frames)] = f]
      /\ ceilingPrio' = IF ceilingPrio < c THEN c ELSE ceilingPrio
      /\ UNCHANGED <<phase, nEvt, readySet, currPrio, intNest, isrs, pendSV>>
  BY DEF Lock, SetTop, Raised, intVars
<1>4. m \in [mutex : 0 .. N_AO, ceiling : Prio] /\ m.mutex = ceilingPrio /\ m.ceiling = c
  BY <1>2 DEF FrameInv
<1> HIDE DEF m
<1>5. held \in Seq([mutex : 0 .. N_AO, ceiling : Prio])
  <2>1. Top.locks \in Seq([mutex : 0 .. N_AO, ceiling : Prio])
    BY <1>2, FrameFields
  <2> QED BY <1>4, <2>1
<1>5a. f \in Frame /\ f.prio = Top.prio /\ f.pc = Top.pc /\ f.pin = Top.pin /\ f.locks = held
  <2> HIDE DEF held
  <2> QED BY <1>2, <1>5 DEF Frame
<1> HIDE DEF f
<1>6. FrameInv(frames', ceilingPrio', nEvt) /\ TopPrio(frames') = TopPrio(frames)
  <2>1. /\ ceilingPrio' \in {ceilingPrio, m.ceiling}
        /\ ceilingPrio' >= ceilingPrio /\ ceilingPrio' >= m.ceiling
    BY <1>2, <1>3, <1>4, KernelAssumption DEF FrameInv, Prio
  <2>2. frames[Len(frames)].locks = Top.locks /\ frames' = [frames EXCEPT ![Len(frames)] = f]
    BY <1>3 DEF Top
  <2>3. /\ Len(f.locks) = Len(frames[Len(frames)].locks) + 1
        /\ \A l \in 1 .. Len(frames[Len(frames)].locks) : f.locks[l] = frames[Len(frames)].locks[l]
        /\ f.locks[Len(f.locks)] = m
    <3>1. Top.locks \in Seq([mutex : 0 .. N_AO, ceiling : Prio])
      BY <1>2, FrameFields
    <3> QED BY <1>4, <1>5a, <3>1 DEF Top
  <2>4. /\ f \in Frame /\ f.prio = frames[Len(frames)].prio /\ f.pc = frames[Len(frames)].pc
        /\ f.pin = frames[Len(frames)].pin
    BY <1>5a DEF Top
  <2>5. /\ f.locks[Len(f.locks)].mutex = ceilingPrio
        /\ ceilingPrio' \in {ceilingPrio, f.locks[Len(f.locks)].ceiling}
        /\ ceilingPrio' >= ceilingPrio /\ ceilingPrio' >= f.locks[Len(f.locks)].ceiling
    BY <1>4, <2>1, <2>3
  <2>6. LockStep(frames, ceilingPrio, f, frames', ceilingPrio')
    BY <1>2, <2>2, <2>3, <2>4, <2>5 DEF LockStep
  <2> QED BY <1>2, <2>6, Locked
<1>7. ceilingPrio' >= ceilingPrio /\ ceilingPrio \in 0 .. N_AO /\ ceilingPrio' \in 0 .. N_AO
  BY <1>2, <1>3, <1>6, KernelAssumption DEF FrameInv, Prio
<1>8. ops' \in Nat
  BY <1>1 DEF Op, IInv, TypeOK
<1>9. TypeOK'
  BY <1>3, <1>6, <1>7, <1>8 DEF IInv, TypeOK, FrameInv
<1>10. UrgentRuns'
  <2>1. \A p \in Prio : p <= ceilingPrio => p <= ceilingPrio'
    BY <1>7, KernelAssumption DEF Prio
  <2> QED BY <1>3, <2>1 DEF IInv, UrgentRuns
<1>11. PhaseInv' /\ IsrInv' /\ (phase' # "boot" => currPrio' = TopPrio(frames'))
  BY <1>2, <1>3, <1>6 DEF IInv, PhaseInv, IsrInv
<1> QED BY <1>3, <1>6, <1>9, <1>10, <1>11 DEF IInv

(* An active object unlocks a mutex.                                       *)
LEMMA UnlockInv == ASSUME IInv, Unlock PROVE IInv'
<1> DEFINE m    == Top.locks[Len(Top.locks)].mutex
           rest == SubSeq(Top.locks, 1, Len(Top.locks) - 1)
           f    == [Top EXCEPT !.locks = rest]
           gs   == [frames EXCEPT ![Len(frames)] = f]
           p    == SchedPrio(readySet, currPrio, m)
<1>1. Running("run") /\ Top.locks # << >>
  BY DEF Unlock
<1>2. /\ frames \in Seq(Frame) /\ frames # << >> /\ Top \in Frame /\ Top.pc = "run"
      /\ phase # "boot" /\ isrs = << >> /\ pendSV = 0
      /\ Len(frames) \in 1 .. Len(frames)
      /\ currPrio = Top.prio /\ Top.prio \in Prio
      /\ FrameInv(frames, ceilingPrio, nEvt)
  BY <1>1, RunningFacts
<1>3. [frames EXCEPT ![Len(frames)].locks = SubSeq(@, 1, Len(@) - 1)] = gs
  BY <1>2 DEF Top
<1>4. /\ \/ /\ ceilingPrio > m /\ ceilingPrio' = m
            /\ frames' = IF p = 0 THEN gs
                         ELSE Append(gs, [prio |-> p, pin |-> currPrio, pc |-> "get", locks |-> << >>])
            /\ currPrio' = IF p = 0 THEN currPrio ELSE p
         \/ ceilingPrio <= m /\ frames' = gs /\ UNCHANGED <<ceilingPrio, currPrio>>
      /\ UNCHANGED <<phase, nEvt, readySet, intNest, isrs, pendSV, ops>>
  BY <1>3 DEF Unlock, intVars
<1>5. rest \in Seq([mutex : 0 .. N_AO, ceiling : Prio])
  BY <1>1, <1>2, FrameFields, DropLast
<1>6. f \in Frame /\ f.prio = Top.prio /\ f.pc = Top.pc /\ f.pin = Top.pin /\ f.locks = rest
  <2> HIDE DEF rest
  <2> QED BY <1>2, <1>5 DEF Frame
<1> HIDE DEF f
<1>7. FrameInv(gs, m, nEvt) /\ TopPrio(gs) = TopPrio(frames) /\ m <= ceilingPrio
  BY <1>1, <1>2, <1>6, Unlocked DEF Top
<1>8. TopPrio(gs) = currPrio /\ currPrio \in 0 .. N_AO
  BY <1>2, <1>7 DEF TopPrio, Top, IInv, PhaseInv
<1> HIDE DEF gs, m
<1>9. N_AO \in Nat /\ Prio = 1 .. N_AO /\ m \in 0 .. N_AO /\ ceilingPrio \in 0 .. N_AO
  BY <1>2, <1>7, KernelAssumption DEF Prio, FrameInv
<1>10. nEvt \in [Prio -> Nat] /\ readySet \in PrioSet /\ ReadyExact(readySet, nEvt)
  BY ReadyType DEF IInv, TypeOK
<1>11. /\ p # 0 => /\ p \in Prio /\ nEvt[p] > 0 /\ p > currPrio /\ p > m
                   /\ \A q \in Prio : nEvt[q] > 0 => q <= p
       /\ p = 0 => \A q \in Prio : nEvt[q] > 0 => q <= currPrio \/ q <= m
  <2>1. currPrio \in 0 .. LOCKED
    BY <1>8, <1>9 DEF LOCKED
  <2> QED BY <1>9, <1>10, <2>1, SchedPrioChoice
<1> HIDE DEF p
<1>12. /\ FrameInv(frames', ceilingPrio', nEvt) /\ currPrio' = TopPrio(frames')
       /\ currPrio' \in 0 .. N_AO
       /\ \A q \in Prio : nEvt[q] > 0 => q <= currPrio' \/ q <= ceilingPrio'
  <2>1. CASE ceilingPrio > m /\ p = 0
    <3>1. ceilingPrio' = m /\ frames' = gs /\ currPrio' = currPrio
      BY <1>4, <1>9, <2>1
    <3> QED BY <1>7, <1>8, <1>11, <2>1, <3>1
  <2>2. CASE ceilingPrio > m /\ p # 0
    <3> DEFINE a == [prio |-> p, pin |-> currPrio, pc |-> "get", locks |-> << >>]
    <3>1. ceilingPrio' = m /\ currPrio' = p /\ frames' = Append(gs, a)
      BY <1>4, <1>9, <2>2
    <3>2. p \in Prio /\ nEvt[p] > 0 /\ p > TopPrio(gs) /\ p > m
      BY <1>8, <1>11, <2>2
    <3>3. a \in Frame /\ a.prio = p /\ a.pin = TopPrio(gs) /\ a.pc = "get" /\ a.locks = << >>
      BY <1>8, <3>2 DEF Frame
    <3> HIDE DEF a
    <3>4. nEvt[a.prio] > 0 /\ a.prio > TopPrio(gs) /\ a.prio > m
      BY <3>2, <3>3
    <3>5. FrameInv(frames', m, nEvt) /\ TopPrio(frames') = a.prio
      BY <1>7, <3>1, <3>3, <3>4, Pushed
    <3> QED BY <1>9, <1>11, <2>2, <3>1, <3>3, <3>5
  <2>3. CASE ceilingPrio <= m
    <3>1. ceilingPrio' = m /\ ceilingPrio = m /\ frames' = gs /\ currPrio' = currPrio
      BY <1>4, <1>7, <1>9, <2>3
    <3> QED BY <1>2, <1>7, <1>8, <3>1 DEF IInv, UrgentRuns
  <2> QED BY <1>9, <2>1, <2>2, <2>3
<1>13. TypeOK'
  <2>1. currPrio' \in 0 .. LOCKED
    BY <1>9, <1>12 DEF LOCKED
  <2> QED BY <1>4, <1>12, <2>1 DEF IInv, TypeOK, FrameInv
<1>14. PhaseInv' /\ IsrInv' /\ UrgentRuns'
  BY <1>2, <1>4, <1>12 DEF IInv, PhaseInv, IsrInv, UrgentRuns
<1> QED BY <1>4, <1>12, <1>13, <1>14 DEF IInv

(* The processor takes an interrupt.                                       *)
LEMMA InterruptInv == ASSUME IInv, Interrupt PROVE IInv'
<1>1. /\ phase = "run" /\ Op /\ isrs' = Append(isrs, "entered")
      /\ UNCHANGED <<phase, nEvt, readySet, currPrio, ceilingPrio, frames, intNest, pendSV>>
  BY DEF Interrupt, kernVars
<1>2. isrs \in Seq(IsrState)
  BY ReadyType DEF IInv
<1>3. /\ isrs' \in Seq(IsrState) /\ isrs' # << >> /\ Len(isrs') = Len(isrs) + 1 /\ Len(isrs) \in Nat
      /\ \A i \in 1 .. Len(isrs) : isrs'[i] = isrs[i]
      /\ isrs'[Len(isrs) + 1] = "entered"
  BY <1>1, <1>2 DEF IsrState
<1>4. Bodies(isrs') = Bodies(isrs)
  BY <1>3 DEF Bodies
<1>5. ops' \in Nat
  BY <1>1 DEF Op, IInv, TypeOK
<1>6. TypeOK'
  BY <1>1, <1>3, <1>5 DEF IInv, TypeOK, IsrState
<1>7. IsrInv'
  BY <1>1, <1>3, <1>4 DEF IInv, IsrInv
<1> QED BY <1>1, <1>3, <1>6, <1>7 DEF IInv, PhaseInv, UrgentRuns

(* What the last interrupt handler is known to be.                         *)
LEMMA InIsrFacts ==
  ASSUME IInv, NEW l, InIsr(l)
  PROVE  /\ isrs \in Seq(IsrState) /\ isrs # << >> /\ isrs[Len(isrs)] = l
         /\ Len(isrs) \in Nat \ {0} /\ phase = "run"
         /\ IsFiniteSet(Bodies(isrs)) /\ intNest = Cardinality(Bodies(isrs)) /\ intNest \in Nat
<1>1. isrs \in Seq(IsrState) /\ isrs # << >> /\ isrs[Len(isrs)] = l
  BY ReadyType DEF IInv, InIsr, LastIsr
<1>2. phase = "run"
  BY <1>1 DEF IInv, PhaseInv, TypeOK
<1> QED BY <1>1, <1>2, BodiesFinite DEF IInv, IsrInv

(* QK_ISR_ENTRY                                                            *)
LEMMA IsrEntryInv == ASSUME IInv, IsrEntry PROVE IInv'
<1>1. /\ InIsr("entered") /\ isrs' = [isrs EXCEPT ![Len(isrs)] = "body"] /\ intNest' = intNest + 1
      /\ UNCHANGED <<phase, nEvt, readySet, currPrio, ceilingPrio, frames, pendSV, ops>>
  BY DEF IsrEntry, SetIsr, kernVars
<1>2. /\ isrs \in Seq(IsrState) /\ isrs # << >> /\ isrs[Len(isrs)] = "entered"
      /\ Len(isrs) \in Nat \ {0} /\ phase = "run"
      /\ intNest = Cardinality(Bodies(isrs)) /\ intNest \in Nat
  BY <1>1, InIsrFacts
<1>3. /\ isrs' \in Seq(IsrState) /\ Len(isrs') = Len(isrs) /\ isrs' # << >>
      /\ \A i \in 1 .. Len(isrs) : isrs'[i] = IF i = Len(isrs) THEN "body" ELSE isrs[i]
      /\ Cardinality(Bodies(isrs')) = Cardinality(Bodies(isrs)) + 1
  <2>1. "body" \in IsrState /\ "entered" # "body"
    BY DEF IsrState
  <2>2. isrs' \in Seq(IsrState) /\ Len(isrs') = Len(isrs) /\ isrs' # << >>
    BY <1>1, <1>2, <2>1
  <2>3. \A i \in 1 .. Len(isrs) : isrs'[i] = IF i = Len(isrs) THEN "body" ELSE isrs[i]
    BY <1>1, <1>2
  <2>4. Cardinality(Bodies(isrs')) = Cardinality(Bodies(isrs)) + 1
    BY <1>1, <1>2, <2>1, BodiesChange
  <2> QED BY <2>2, <2>3, <2>4
<1>4. TypeOK'
  BY <1>1, <1>2, <1>3 DEF IInv, TypeOK, IsrState
<1>5. IsrInv'
  <2>1. ASSUME NEW i \in 1 .. Len(isrs'), isrs'[i] = "leaving" PROVE pendSV' = 1
    <3>1. i \in 1 .. Len(isrs) /\ isrs[i] = "leaving"
      BY <1>3, <2>1
    <3> QED BY <1>1, <3>1 DEF IInv, IsrInv
  <2> QED BY <1>1, <1>2, <1>3, <2>1 DEF IsrInv
<1> QED BY <1>1, <1>2, <1>3, <1>4, <1>5 DEF IInv, PhaseInv, UrgentRuns

(* An interrupt handler posts an event.                                    *)
LEMMA IsrPostInv == ASSUME IInv, NEW q \in Prio, IsrPost(q) PROVE IInv'
<1>1. /\ InIsr("body") /\ Op /\ Enqueue(q)
      /\ UNCHANGED <<phase, currPrio, ceilingPrio, frames, intNest, isrs, pendSV>>
  BY DEF IsrPost, kernVars, intVars
<1>2. isrs # << >> /\ phase = "run"
  BY <1>1, InIsrFacts
<1>3. /\ nEvt' \in [Prio -> Nat] /\ readySet' \in PrioSet /\ ReadyExact(readySet', nEvt')
      /\ FrameInv(frames, ceilingPrio, nEvt')
  BY <1>1, EnqueueFacts
<1>4. ops' \in Nat
  BY <1>1 DEF Op, IInv, TypeOK
<1>5. TypeOK'
  BY <1>1, <1>3, <1>4 DEF IInv, TypeOK, PrioSet
<1> QED BY <1>1, <1>2, <1>3, <1>5 DEF IInv, PhaseInv, IsrInv, UrgentRuns

(* QK_ISR_EXIT                                                             *)
LEMMA IsrExitInv == ASSUME IInv, IsrExit PROVE IInv'
<1>1. /\ InIsr("body") /\ isrs' = [isrs EXCEPT ![Len(isrs)] = "leaving"] /\ intNest' = intNest - 1
      /\ pendSV' = 1
      /\ UNCHANGED <<phase, nEvt, readySet, currPrio, ceilingPrio, frames, ops>>
  BY DEF IsrExit, SetIsr, Trigger, kernVars
<1>2. /\ isrs \in Seq(IsrState) /\ isrs # << >> /\ isrs[Len(isrs)] = "body"
      /\ Len(isrs) \in Nat \ {0} /\ phase = "run"
      /\ intNest = Cardinality(Bodies(isrs)) /\ intNest \in Nat
  BY <1>1, InIsrFacts
<1>3. /\ isrs' \in Seq(IsrState) /\ Len(isrs') = Len(isrs) /\ isrs' # << >>
      /\ Cardinality(Bodies(isrs')) = Cardinality(Bodies(isrs)) - 1
  <2>1. "leaving" \in IsrState
    BY DEF IsrState
  <2> QED BY <1>1, <1>2, <2>1, BodiesChange
<1>4. intNest' \in Nat
  BY <1>1, <1>2, <1>3, BodiesFinite
<1>5. TypeOK'
  BY <1>1, <1>3, <1>4 DEF IInv, TypeOK, IsrState
<1>6. IsrInv'
  BY <1>1, <1>2, <1>3 DEF IsrInv
<1> QED BY <1>1, <1>2, <1>3, <1>5, <1>6 DEF IInv, PhaseInv, UrgentRuns

(* An interrupt handler returns.                                           *)
LEMMA IsrReturnInv == ASSUME IInv, IsrReturn PROVE IInv'
<1>1. /\ InIsr("leaving") /\ isrs' = SubSeq(isrs, 1, Len(isrs) - 1)
      /\ UNCHANGED <<phase, nEvt, readySet, currPrio, ceilingPrio, frames, intNest, pendSV, ops>>
  BY DEF IsrReturn, kernVars
<1>2. /\ isrs \in Seq(IsrState) /\ isrs # << >> /\ isrs[Len(isrs)] = "leaving"
      /\ Len(isrs) \in Nat \ {0} /\ phase = "run"
  BY <1>1, InIsrFacts
<1>3. /\ isrs' \in Seq(IsrState) /\ Len(isrs') = Len(isrs) - 1
      /\ \A i \in 1 .. Len(isrs) - 1 : isrs'[i] = isrs[i]
  BY <1>1, <1>2, DropLast
<1>4. pendSV = 1
  BY <1>2 DEF IInv, IsrInv
<1>5. Bodies(isrs') = Bodies(isrs)
  BY <1>2, <1>3 DEF Bodies
<1>6. TypeOK'
  BY <1>1, <1>3 DEF IInv, TypeOK, IsrState
<1>7. IsrInv'
  BY <1>1, <1>4, <1>5 DEF IInv, IsrInv
<1> QED BY <1>1, <1>2, <1>4, <1>6, <1>7 DEF IInv, PhaseInv, UrgentRuns

(* PendSV_Handler schedules.                                               *)
LEMMA PendSVInv == ASSUME IInv, PendSV PROVE IInv'
<1>1. /\ pendSV = 1 /\ isrs = << >> /\ pendSV' = 0 /\ Schedule(readySet, currPrio, ceilingPrio)
      /\ UNCHANGED <<phase, nEvt, readySet, ceilingPrio, intNest, isrs, ops>>
  BY DEF PendSV
<1>2. phase = "run" /\ currPrio = TopPrio(frames)
  BY <1>1 DEF IInv, PhaseInv, TypeOK
<1>3. nEvt \in [Prio -> Nat] /\ readySet \in PrioSet /\ ReadyExact(readySet, nEvt)
  BY ReadyType DEF IInv, TypeOK
<1>4. /\ FrameInv(frames', ceilingPrio, nEvt) /\ currPrio' = TopPrio(frames')
      /\ currPrio' \in 0 .. N_AO
      /\ \A p \in Prio : nEvt[p] > 0 => p <= currPrio' \/ p <= ceilingPrio
  BY <1>1, <1>2, <1>3, Scheduled DEF IInv
<1>5. TypeOK'
  <2>1. currPrio' \in 0 .. LOCKED
    BY <1>4, KernelAssumption DEF LOCKED
  <2> QED BY <1>1, <1>4, <2>1 DEF IInv, TypeOK, FrameInv
<1>6. IsrInv'
  BY <1>1 DEF IInv, IsrInv
<1> QED BY <1>1, <1>2, <1>4, <1>5, <1>6 DEF IInv, PhaseInv, UrgentRuns

(* An initial transition posts an event.                                   *)
LEMMA BootPostInv == ASSUME IInv, NEW q \in Prio, BootPost(q) PROVE IInv'
<1>1. /\ phase = "boot" /\ Op /\ Enqueue(q)
      /\ UNCHANGED <<phase, ceilingPrio, intNest, isrs, pendSV>>
  BY DEF BootPost, intVars
<1>2. /\ nEvt' \in [Prio -> Nat] /\ readySet' \in PrioSet /\ ReadyExact(readySet', nEvt')
      /\ FrameInv(frames, ceilingPrio, nEvt')
  BY <1>1, EnqueueFacts
<1>3. frames' = frames /\ currPrio' = currPrio
  <2>1. CASE Schedule(readySet', currPrio, ceilingPrio)
    <3>1. /\ currPrio = LOCKED /\ ceilingPrio \in 0 .. N_AO /\ N_AO \in Nat
          /\ LOCKED = N_AO + 1 /\ Prio = 1 .. N_AO
      BY <1>1, KernelAssumption DEF IInv, PhaseInv, TypeOK, LOCKED, Prio
    <3> DEFINE p == SchedPrio(readySet', currPrio, ceilingPrio)
    <3>2. p # 0 => p \in Prio /\ p > currPrio
      BY <1>2, <3>1, SchedPrioChoice
    <3>3. p = 0
      BY <3>1, <3>2
    <3> QED BY <2>1, <3>3 DEF Schedule
  <2>2. CASE UNCHANGED <<currPrio, frames>>
    BY <2>2
  <2> QED BY <2>1, <2>2 DEF BootPost
<1>4. ops' \in Nat
  BY <1>1 DEF Op, IInv, TypeOK
<1>5. TypeOK'
  BY <1>1, <1>2, <1>3, <1>4 DEF IInv, TypeOK, PrioSet
<1> QED BY <1>1, <1>2, <1>3, <1>5 DEF IInv, PhaseInv, IsrInv, UrgentRuns

(* QF_run unlocks the scheduler.                                           *)
LEMMA RunInitializeInv == ASSUME IInv, RunInitialize PROVE IInv'
<1>1. /\ phase = "boot" /\ phase' = "initialize" /\ Schedule(readySet, 0, ceilingPrio)
      /\ UNCHANGED <<nEvt, readySet, ceilingPrio, intNest, isrs, pendSV, ops>>
  BY DEF RunInitialize, intVars
<1>2. TopPrio(frames) = 0
  BY <1>1 DEF IInv, PhaseInv, TopPrio
<1>3. nEvt \in [Prio -> Nat] /\ readySet \in PrioSet /\ ReadyExact(readySet, nEvt)
  BY ReadyType DEF IInv, TypeOK
<1>4. /\ FrameInv(frames', ceilingPrio, nEvt) /\ currPrio' = TopPrio(frames')
      /\ currPrio' \in 0 .. N_AO
      /\ \A p \in Prio : nEvt[p] > 0 => p <= currPrio' \/ p <= ceilingPrio
  BY <1>1, <1>2, <1>3, Scheduled DEF IInv
<1>5. TypeOK'
  <2>1. currPrio' \in 0 .. LOCKED
    BY <1>4, KernelAssumption DEF LOCKED
  <2> QED BY <1>1, <1>4, <2>1 DEF IInv, TypeOK, FrameInv
<1> QED BY <1>1, <1>4, <1>5 DEF IInv, PhaseInv, IsrInv, UrgentRuns

(* QF_onStartup enables the interrupts.                                    *)
LEMMA OnStartupInv == ASSUME IInv, OnStartup PROVE IInv'
<1>1. /\ phase = "initialize" /\ phase' = "run"
      /\ UNCHANGED <<nEvt, readySet, currPrio, ceilingPrio, frames, intNest, isrs, pendSV, ops>>
  BY DEF OnStartup, kernVars, intVars
<1>2. TypeOK'
  BY <1>1 DEF IInv, TypeOK
<1> QED BY <1>1, <1>2 DEF IInv, PhaseInv, IsrInv, UrgentRuns

(* The initial state satisfies the invariant.                              *)
LEMMA InitInv == Init => IInv
<1> SUFFICES ASSUME Init PROVE IInv
  OBVIOUS
<1>1. WIDTH \in Nat \ {0} /\ N_AO \in Nat /\ Prio = 1 .. N_AO
  BY KernelAssumption, WidthAssumption DEF Prio
<1>2. nEvt \in [Prio -> Nat] /\ \A p \in Prio : nEvt[p] = 0
  BY DEF Init
<1>3. readySet = [super |-> {}, subset |-> [i \in 0 .. WIDTH - 1 |-> {}]]
  BY DEF Init, QPSet64_empty
<1>4. TypeOK
  BY <1>1, <1>2, <1>3 DEF Init, TypeOK, LOCKED
<1>5. ReadyExact(readySet, nEvt)
  <2>1. ASSUME NEW p \in 1 .. WIDTH * WIDTH
        PROVE  Pwr2(p) \notin readySet.subset[Div8(p)] /\ ~(p \in Prio /\ nEvt[p] > 0)
    <3>1. Div8(p) \in 0 .. WIDTH - 1
      BY Digits
    <3> QED BY <1>2, <1>3, <3>1
  <2>2. ASSUME NEW i \in 1 .. WIDTH
        PROVE  i \notin readySet.super /\ readySet.subset[i - 1] = {}
    BY <1>1, <1>3
  <2> QED BY <2>1, <2>2 DEF ReadyExact
<1>6. FrameInv(frames, ceilingPrio, nEvt)
  <2>1. frames = << >> /\ Len(frames) = 0 /\ 1 .. Len(frames) = {} /\ ceilingPrio = 0
    BY DEF Init
  <2> QED BY <1>1, <1>4, <2>1 DEF FrameInv, StackInv, EventInv, HoldInv, CeilingInv, HighestBefore,
                                  HeldBefore, TypeOK
<1>7. IsrInv
  <2>1. Bodies(isrs) = {} /\ 1 .. Len(isrs) = {}
    BY DEF Init, Bodies
  <2> QED BY <2>1, FS_EmptySet DEF Init, IsrInv
<1> QED BY <1>4, <1>5, <1>6, <1>7 DEF Init, IInv, PhaseInv, UrgentRuns

(* Every step preserves the invariant.                                     *)
LEMMA NextInv == ASSUME IInv, [Next]_vars PROVE IInv'
<1>1. CASE UNCHANGED vars
  <2>1. UNCHANGED <<phase, nEvt, readySet, currPrio, ceilingPrio, intNest, frames, isrs, pendSV, ops>>
    BY <1>1 DEF vars
  <2>2. TypeOK'
    BY <2>1 DEF IInv, TypeOK
  <2> QED BY <2>1, <2>2 DEF IInv, PhaseInv, IsrInv, UrgentRuns
<1>2. CASE Progress
  BY <1>2, GetInv, CompleteInv, UnlockInv, IsrEntryInv, IsrExitInv, IsrReturnInv, PendSVInv,
     RunInitializeInv, OnStartupInv DEF Progress
<1>3. CASE Demand
  BY <1>3, PostInv, LockInv, IsrPostInv, BootPostInv, InterruptInv DEF Demand
<1> QED BY <1>1, <1>2, <1>3 DEF Next

(* The invariant implies what the runs check.                              *)
LEMMA InvImplies ==
  ASSUME IInv
  PROVE  TypeOK /\ GetFindsEvent /\ RunToCompletion /\ NoPriorityInversion /\ MutexProtects
<1>1. frames \in Seq(Frame) /\ Len(frames) \in Nat
  BY DEF IInv, TypeOK
<1>2. GetFindsEvent
  BY DEF IInv, FrameInv, EventInv, GetFindsEvent
<1>3. RunToCompletion
  BY <1>1 DEF IInv, FrameInv, StackInv, TopPrio, Top, RunToCompletion
<1>4. NoPriorityInversion
  <2> SUFFICES ASSUME phase # "boot", isrs = << >>, pendSV = 0, NEW p \in Prio, nEvt[p] > 0,
                      ~(p <= currPrio)
               PROVE  \E i \in 1 .. Len(frames) : \E c \in Held(i) : p <= c
    BY DEF NoPriorityInversion
  <2>1. p <= ceilingPrio
    BY DEF IInv, UrgentRuns
  <2>2. ceilingPrio # 0
    BY <2>1, KernelAssumption DEF Prio
  <2>3. HeldBefore(frames, Len(frames) + 1, 1, ceilingPrio)
    BY <2>2 DEF IInv, FrameInv, CeilingInv, HighestBefore
  <2>4. PICK i \in 1 .. Len(frames) :
          \E l \in 1 .. Len(frames[i].locks) : frames[i].locks[l].ceiling = ceilingPrio
    BY <2>3 DEF HeldBefore
  <2>5. ceilingPrio \in Held(i)
    BY <2>4 DEF Held
  <2> QED BY <2>1, <2>5
<1>5. MutexProtects
  BY DEF IInv, FrameInv, HoldInv, MutexProtects, Held
<1> QED BY <1>2, <1>3, <1>4, <1>5 DEF IInv

----------------------------------------------------------------------------
(* Theorems.                                                               *)

(* The invariant holds at every instant.                                   *)
THEOREM Invariance == Spec => []IInv
<1>1. IInv /\ [Next]_vars => IInv'
  BY NextInv
<1> QED BY <1>1, InitInv, PTL DEF Spec

(* The variables keep their types; QK_intNest_ never drops below 0.        *)
THEOREM TypeCorrect == Spec => []TypeOK
  BY Invariance, InvImplies, PTL

(* QK_readySet_, two levels of bits updated only when a queue becomes      *)
(* empty or stops being empty, always holds exactly the active objects     *)
(* with events, and QPSet64_findMax always finds the highest of them.      *)
THEOREM ReadySetExact ==
  Spec => [](/\ ReadyExact(readySet, nEvt)
             /\ \A p \in Prio : nEvt[p] > 0 => p <= QPSet64_findMax(readySet))
<1>1. IInv => /\ ReadyExact(readySet, nEvt)
              /\ \A p \in Prio : nEvt[p] > 0 => p <= QPSet64_findMax(readySet)
  BY ReadyType, FindMaxReady DEF IInv, TypeOK
<1> QED BY <1>1, Invariance, PTL

(* An activation that QK_sched_ chose finds an event when it gets to fetch *)
(* one: the assertion of QACTIVE_EQUEUE_WAIT_ holds.                       *)
THEOREM GetNeverFails == Spec => []GetFindsEvent
  BY Invariance, InvImplies, PTL

(* No active object is entered again before its step has run to            *)
(* completion, however activations and interrupts are nested.              *)
THEOREM StepsRunToCompletion == Spec => []RunToCompletion
  BY Invariance, InvImplies, PTL

(* Code outside of interrupt handlers never runs while a more urgent       *)
(* active object that no locked mutex holds back has an event.             *)
THEOREM PreemptionNeverLate == Spec => []NoPriorityInversion
  BY Invariance, InvImplies, PTL

(* Nothing at or below the ceiling of a locked mutex is activated while it *)
(* is locked, although the one QK_ceilingPrio_ is shared by all.           *)
THEOREM CeilingProtects == Spec => []MutexProtects
  BY Invariance, InvImplies, PTL
=============================================================================
