--------------------------- MODULE QActive_proofs ---------------------------
(***************************************************************************)
(* An active object (QActive in qf.h) is a state machine with an event     *)
(* queue.  Part 1, its base class QHsm: for every hierarchy of states, of  *)
(* every size and depth, the event processor exits, enters and answers     *)
(* exactly as a statechart is meant to, and its entry path always fits.    *)
(* Part 2, its member eQueue: the ring-buffer queue implements a bounded   *)
(* deque for every length of the ring buffer, 0 included, and every set of *)
(* events.                                                                 *)
(***************************************************************************)
EXTENDS QHsm, QEQueue, FiniteSetTheorems, WellFoundedInduction, TLAPS

---------------------------------------------------------------------------
(* Part 1: QHsm.                                                           *)

(* What the handlers define.                                               *)
Hierarchy ==
  super \in [State -> 0..N_STATES] /\ initial \in [State -> 0..N_STATES] /\ WellFormed

(* The locals and the hierarchy have their types.                          *)
Typed ==
  /\ Hierarchy
  /\ state \in 0..N_STATES /\ temp \in 0..N_STATES
  /\ t \in 0..N_STATES /\ s \in 0..N_STATES
  /\ pc \in {"ctor", "stable", "up", "exit", "store", "lca", "enter", "drill", "climb", "isIn"}
  /\ tran \in [from : 0..N_STATES, source : 0..N_STATES, target : 0..N_STATES]

(* The first n + 1 entries of path p are its first one and the states      *)
(* around it in their order, and only the last may be the top state.       *)
Chain(p, n) ==
  /\ n \in Nat
  /\ \A k \in 0..n : k \in DOMAIN p /\ p[k] \in Ancestors(p[0])
  /\ \A k \in 0..n : Cardinality(Ancestors(p[k])) + k = Cardinality(Ancestors(p[0]))
  /\ \A k \in 0..n-1 : p[k] # TOP /\ p[k + 1] = super[p[k]]

(* No state around the first entry is left out.                            *)
Covers(p, n) ==
  \A y \in Ancestors(p[0]) : y \in Ancestors(p[n]) \/ \E j \in 0..n : y = p[j]

(* What the handlers were told in log l: to exit the states of X, then to  *)
(* enter those of Y.                                                       *)
Logged(l, X, Y) == l = Told("exit", Up(X)) \o Told("entry", Down(Y))

(* The states to exit, and those to enter down to x.                       *)
ToExit     == Ancestors(tran.from) \ Scope(tran)
ToEnter(x) == Ancestors(x) \ Scope(tran)

(* The state entered last, when the entries of path from ip down to 0 are  *)
(* still to be entered.                                                    *)
Inside == IF ip = -1 THEN path[0] ELSE super[path[ip]]

(* All states to exit are exited, and states are entered down to x.        *)
EnteredTo(x) == Scope(tran) \subseteq Ancestors(x) /\ Logged(log, ToExit, ToEnter(x))

(* Outside of a transition: what the last one or the last query left.      *)
AtRest ==
  /\ pc = "ctor" => log = << >> /\ path = NoPath /\ ip = -1 /\ tran = NoTran
  /\ pc = "stable" =>
       state = temp /\ path = NoPath /\ ip = -1 /\ TransitionExact /\ IsInExact
  /\ pc = "up" => state = t /\ temp \in Ancestors(t) /\ path = NoPath /\ ip = -1
                  /\ log = << >> /\ tran = NoTran
  /\ pc = "isIn" =>
       /\ path = NoPath /\ ip = -1 /\ tran = NoTran
       /\ temp \in Ancestors(state)
       /\ t \in Ancestors(state) <=> t \in Ancestors(temp)

(* A transition is being carried out.                                      *)
InTransition ==
  pc \in {"exit", "store", "lca", "enter", "drill", "climb"} =>
    /\ tran.target \in State /\ tran.source \in Ancestors(tran.from)
    /\ DOMAIN path \subseteq 0..(MAX_NEST - 1)

(* Up to the least common ancestor: what is exited, what is stored.        *)
Exiting ==
  /\ pc = "exit" =>
       /\ t \in Ancestors(tran.from) /\ s \in Ancestors(t)
       /\ ip = -1 /\ 0 \in DOMAIN path
       /\ Logged(log, Ancestors(tran.from) \ Ancestors(t), {})
  /\ pc = "store" =>
       /\ t = super[s] /\ ip >= 1 /\ Chain(path, ip) /\ Covers(path, ip)
       /\ \A k \in 0..ip : path[k] # s
       /\ Logged(log, Ancestors(tran.from) \ Ancestors(s), {})
  /\ pc = "lca" =>
       /\ t \in Ancestors(super[s])
       /\ Chain(path, ip) /\ Covers(path, ip) /\ path[ip] = TOP
       /\ \A y \in Ancestors(s) \ Ancestors(t) : y \notin Ancestors(path[0])
       /\ Logged(log, Ancestors(tran.from) \ Ancestors(t), {})
  /\ pc \in {"exit", "store", "lca"} =>
       s \in State /\ s = tran.source /\ path[0] = tran.target

(* Down to the target and along the initial transitions: what is entered.  *)
Entering ==
  /\ pc = "enter" =>
       /\ ip \in -1..N_STATES /\ 0 \in DOMAIN path
       /\ ip >= 0 => Chain(path, ip) /\ path[ip] # TOP
       /\ EnteredTo(Inside)
  /\ pc = "climb" =>
       /\ Chain(path, ip) /\ path[ip] # TOP
       /\ temp = super[path[ip]] /\ t \in Ancestors(temp)
       /\ EnteredTo(t)
  /\ pc \in {"enter", "climb"} =>
       path[0] \in State /\ Leaf(path[0]) = Leaf(tran.target)
  /\ pc = "drill" =>
       /\ ip = -1 /\ temp \in State /\ t \in Ancestors(temp) \ {temp}
       /\ Leaf(temp) = Leaf(tran.target)
       /\ EnteredTo(t)

(* The inductive invariant.                                                *)
HsmInv == Typed /\ AtRest /\ InTransition /\ Exiting /\ Entering
---------------------------------------------------------------------------
(* The state hierarchy.                                                    *)

(* The least number principle.                                             *)
LEMMA LeastNat ==
  ASSUME NEW S, S \subseteq Nat, S # {}
  PROVE  \E x \in S : \A y \in S : x <= y
<1>1. \E R : IsWellFoundedOn(R, Nat) /\ \A x, y \in Nat : <<y, x>> \in R <=> y < x
  <2>1. \A x, y \in Nat : <<y, x>> \in OpToRel(<, Nat) <=> y < x
    BY DEF OpToRel
  <2> WITNESS OpToRel(<, Nat)
  <2> QED BY <2>1, NatLessThanWellFounded, Zenon
<1>2. PICK R : IsWellFoundedOn(R, Nat) /\ \A x, y \in Nat : <<y, x>> \in R <=> y < x
  BY <1>1
<1>3. PICK x \in S : \A y \in S : ~ (<<y, x>> \in R)
  BY <1>2, WFMin
<1>4. \A y \in S : ~ (y < x)
  BY <1>2, <1>3, S \subseteq Nat, Zenon
<1> QED BY <1>4

(* Induction along the numbers up to N_STATES.                             *)
LEMMA UpToInduction ==
  ASSUME NEW G, 0 \in G, \A n \in 0..N_STATES : n + 1 \in 1..N_STATES /\ n \in G => n + 1 \in G
  PROVE  0..N_STATES \subseteq G
<1> DEFINE Bad == {n \in 0..N_STATES : n \notin G}
<1>1. SUFFICES ASSUME Bad # {} PROVE FALSE
  OBVIOUS
<1>0. Bad \subseteq Nat
  BY QHsmAssumption
<1>2. PICK m \in Bad : \A y \in Bad : m <= y
  <2> HIDE DEF Bad
  <2> QED BY <1>0, <1>1, LeastNat
<1>3. m # 0 /\ m - 1 \in 0..N_STATES /\ m - 1 + 1 = m /\ m \in 1..N_STATES
  BY QHsmAssumption
<1>4. m - 1 \in G
  BY <1>2, <1>3
<1> QED BY <1>3, <1>4

(* Induction from the top state inward.                                    *)
LEMMA InwardInduction ==
  ASSUME super \in [State -> 0..N_STATES], \A x \in State : super[x] < x,
         NEW G, TOP \in G, \A x \in State : super[x] \in G => x \in G
  PROVE  0..N_STATES \subseteq G
<1> DEFINE Bad == {n \in 0..N_STATES : n \notin G}
<1>1. SUFFICES ASSUME Bad # {} PROVE FALSE
  OBVIOUS
<1>0. Bad \subseteq Nat
  BY QHsmAssumption
<1>2. PICK m \in Bad : \A y \in Bad : m <= y
  <2> HIDE DEF Bad
  <2> QED BY <1>0, <1>1, LeastNat
<1>3. m \in State /\ super[m] \in 0..N_STATES /\ super[m] < m
  BY QHsmAssumption DEF State, TOP
<1>4. super[m] \in G
  BY <1>2, <1>3, QHsmAssumption
<1> QED BY <1>3, <1>4

(* The recursion of Ancestors has a solution.                              *)
LEMMA AncestorsExist ==
  ASSUME super \in [State -> 0..N_STATES], \A x \in State : super[x] < x
  PROVE  \E g : g = [y \in 0..N_STATES |-> IF y = TOP THEN {TOP} ELSE {y} \cup g[super[y]]]
<1> DEFINE step(g, n) == [y \in 0..n |-> IF y = TOP THEN {TOP} ELSE {y} \cup g[super[y]]]
           G == {n \in 0..N_STATES : \E g : g = step(g, n)}
<1>1. 0 \in G
  <2> DEFINE h == [y \in 0..0 |-> {TOP}]
  <2>1. h = step(h, 0)
    BY DEF TOP
  <2> QED BY <2>1, QHsmAssumption
<1>2. ASSUME NEW n \in 0..N_STATES, n + 1 \in 1..N_STATES, n \in G PROVE n + 1 \in G
  <2>1. PICK g : g = step(g, n)
    BY <1>2
  <2> DEFINE h == [y \in 0..n + 1 |-> IF y = n + 1 THEN {y} \cup g[super[y]] ELSE g[y]]
  <2>2. ASSUME NEW y \in 0..n + 1
        PROVE  h[y] = IF y = TOP THEN {TOP} ELSE {y} \cup h[super[y]]
    <3>1. CASE y = n + 1
      <4>1. y \in State /\ super[y] \in 0..n
        BY <1>2, <3>1, QHsmAssumption DEF State
      <4>2. h[super[y]] = g[super[y]]
        BY <4>1, QHsmAssumption
      <4> QED BY <3>1, <4>1, <4>2, QHsmAssumption DEF State, TOP
    <3>2. CASE y # n + 1 /\ y # TOP
      <4>1. y \in State /\ y \in 0..n /\ super[y] \in 0..n
        BY <1>2, <3>2, QHsmAssumption DEF State, TOP
      <4>2. h[super[y]] = g[super[y]] /\ h[y] = g[y]
        BY <3>2, <4>1, QHsmAssumption
      <4>3. g[y] = step(g, n)[y]
        BY <2>1
      <4> QED BY <3>2, <4>1, <4>2, <4>3
    <3>3. CASE y # n + 1 /\ y = TOP
      <4>1. g[y] = step(g, n)[y] /\ y \in 0..n
        BY <2>1, <3>3, QHsmAssumption DEF TOP
      <4> QED BY <3>3, <4>1
    <3> QED BY <3>1, <3>2, <3>3
  <2>3. h = step(h, n + 1)
    BY <2>2
  <2>4. n + 1 \in 0..N_STATES /\ \E f : f = step(f, n + 1)
    <3> HIDE DEF h
    <3> QED BY <1>2, <2>3, QHsmAssumption
  <2> QED BY <2>4, Zenon
<1>3. 0..N_STATES \subseteq G
  <2> HIDE DEF G
  <2> QED BY <1>1, <1>2, UpToInduction
<1>4. N_STATES \in G
  <2> HIDE DEF G
  <2> QED BY <1>3, QHsmAssumption
<1> QED BY <1>4

(* The state and the ancestors of its superstate.                          *)
LEMMA AncestorsRec ==
  ASSUME super \in [State -> 0..N_STATES], \A x \in State : super[x] < x
  PROVE  Ancestors(TOP) = {TOP} /\ \A x \in State : Ancestors(x) = {x} \cup Ancestors(super[x])
<1> DEFINE step(g) == [y \in 0..N_STATES |-> IF y = TOP THEN {TOP} ELSE {y} \cup g[super[y]]]
           anc == CHOOSE g : g = step(g)
<1>1. anc = step(anc)
  <2>1. \E g : g = step(g)
    BY AncestorsExist
  <2> QED BY <2>1, Zenon
<1>2. \A x : Ancestors(x) = anc[x]
  BY Zenon DEF Ancestors
<1> HIDE DEF anc
<1>3. \A y \in 0..N_STATES : anc[y] = IF y = TOP THEN {TOP} ELSE {y} \cup anc[super[y]]
  BY <1>1
<1>4. TOP \in 0..N_STATES /\ \A x \in State : x \in 0..N_STATES /\ x # TOP
  BY QHsmAssumption DEF State, TOP
<1> QED BY <1>2, <1>3, <1>4

(* The ancestors of a state are around it.                                 *)
LEMMA AncestorsRange ==
  ASSUME super \in [State -> 0..N_STATES], \A x \in State : super[x] < x, NEW x \in 0..N_STATES
  PROVE  Ancestors(x) \subseteq 0..x /\ x \in Ancestors(x) /\ TOP \in Ancestors(x)
<1> DEFINE G == {y \in 0..N_STATES : Ancestors(y) \subseteq 0..y /\ y \in Ancestors(y) /\ TOP \in Ancestors(y)}
<1>1. TOP \in G
  BY AncestorsRec, QHsmAssumption DEF TOP
<1>2. ASSUME NEW y \in State, super[y] \in G PROVE y \in G
  BY <1>2, AncestorsRec, QHsmAssumption DEF State
<1>3. 0..N_STATES \subseteq G
  <2> HIDE DEF G
  <2> QED BY <1>1, <1>2, InwardInduction
<1> QED BY <1>3

(* The facts about ancestors that the proofs below use.                    *)
LEMMA Hierarchical ==
  ASSUME Hierarchy
  PROVE  /\ \A x \in State : super[x] \in 0..N_STATES /\ super[x] < x /\ x > TOP /\ x \in 0..N_STATES
         /\ TOP \in 0..N_STATES /\ Ancestors(TOP) = {TOP}
         /\ \A x \in 0..N_STATES : x \in State \/ x = TOP
         /\ \A x \in State : Ancestors(x) = {x} \cup Ancestors(super[x])
         /\ \A x \in 0..N_STATES :
              Ancestors(x) \subseteq 0..x /\ x \in Ancestors(x) /\ TOP \in Ancestors(x)
         /\ \A x \in 0..N_STATES : Ancestors(x) \subseteq 0..N_STATES
<1>1. super \in [State -> 0..N_STATES] /\ \A x \in State : super[x] < x
  BY DEF Hierarchy, WellFormed
<1>2. \A x \in State : super[x] \in 0..N_STATES /\ super[x] < x /\ x > TOP /\ x \in 0..N_STATES
  BY <1>1, QHsmAssumption DEF State, TOP
<1>3. TOP \in 0..N_STATES /\ \A x \in 0..N_STATES : x \in State \/ x = TOP
  BY QHsmAssumption DEF State, TOP
<1>4. \A x \in 0..N_STATES :
        Ancestors(x) \subseteq 0..x /\ x \in Ancestors(x) /\ TOP \in Ancestors(x)
  BY <1>1, AncestorsRange
<1>5. \A x \in 0..N_STATES : 0..x \subseteq 0..N_STATES
  BY QHsmAssumption
<1> QED BY <1>1, <1>2, <1>3, <1>4, <1>5, AncestorsRec

(* What is around an ancestor is around the state.                         *)
LEMMA AncestorsTransitive ==
  ASSUME Hierarchy, NEW x \in 0..N_STATES, NEW y \in Ancestors(x)
  PROVE  Ancestors(y) \subseteq Ancestors(x)
<1> DEFINE G == {u \in 0..N_STATES : \A v \in Ancestors(u) : Ancestors(v) \subseteq Ancestors(u)}
<1>1. TOP \in G
  BY Hierarchical
<1>2. ASSUME NEW u \in State, super[u] \in G PROVE u \in G
  BY <1>2, Hierarchical
<1>3. 0..N_STATES \subseteq G
  <2>1. super \in [State -> 0..N_STATES] /\ \A u \in State : super[u] < u
    BY DEF Hierarchy, WellFormed
  <2> HIDE DEF G
  <2> QED BY <1>1, <1>2, <2>1, InwardInduction
<1> QED BY <1>3

(* Of two states around a state one is around the other.                   *)
LEMMA AncestorsLinear ==
  ASSUME Hierarchy, NEW x \in 0..N_STATES, NEW y \in Ancestors(x), NEW z \in Ancestors(x), y <= z
  PROVE  y \in Ancestors(z)
<1> DEFINE G == {u \in 0..N_STATES :
                   \A v, w \in Ancestors(u) : v <= w => v \in Ancestors(w)}
<1>1. TOP \in G
  BY Hierarchical
<1>2. ASSUME NEW u \in State, super[u] \in G PROVE u \in G
  <2> SUFFICES ASSUME NEW v \in Ancestors(u), NEW w \in Ancestors(u), v <= w
               PROVE  v \in Ancestors(w)
    BY Hierarchical
  <2>1. CASE w = u
    BY <2>1
  <2>2. CASE w # u
    <3>1. w \in Ancestors(super[u]) /\ w \in 0..super[u] /\ super[u] < u /\ super[u] \in 0..N_STATES
      BY <2>2, Hierarchical
    <3>2. v # u
      BY <3>1, QHsmAssumption DEF State
    <3>3. v \in Ancestors(super[u])
      BY <3>2, Hierarchical
    <3> QED BY <1>2, <3>1, <3>3
  <2> QED BY <2>1, <2>2
<1>3. 0..N_STATES \subseteq G
  <2>1. super \in [State -> 0..N_STATES] /\ \A u \in State : super[u] < u
    BY DEF Hierarchy, WellFormed
  <2> HIDE DEF G
  <2> QED BY <1>1, <1>2, <2>1, InwardInduction
<1> QED BY <1>3

(* How many states are around a state.                                     *)
LEMMA AncestorsCount ==
  ASSUME Hierarchy
  PROVE  /\ \A x \in 0..N_STATES :
              IsFiniteSet(Ancestors(x)) /\ Cardinality(Ancestors(x)) \in 1..N_STATES + 1
         /\ \A x \in State :
              Cardinality(Ancestors(x)) = Cardinality(Ancestors(super[x])) + 1
         /\ \A x \in 0..N_STATES : Cardinality(Ancestors(x)) <= MAX_NEST
<1>1. ASSUME NEW x \in 0..N_STATES
      PROVE  IsFiniteSet(Ancestors(x)) /\ Cardinality(Ancestors(x)) \in 1..N_STATES + 1
  <2>1. IsFiniteSet(0..N_STATES) /\ Cardinality(0..N_STATES) = N_STATES + 1
    BY FS_Interval, QHsmAssumption
  <2>2. Ancestors(x) \in SUBSET (0..N_STATES) /\ Ancestors(x) # {}
    BY Hierarchical
  <2>3. IsFiniteSet(Ancestors(x)) /\ Cardinality(Ancestors(x)) <= Cardinality(0..N_STATES)
    BY <2>1, <2>2, FS_Subset
  <2>4. Cardinality(Ancestors(x)) \in Nat /\ Cardinality(Ancestors(x)) # 0
    BY <2>2, <2>3, FS_CardinalityType, FS_EmptySet
  <2> QED BY <2>1, <2>3, <2>4, QHsmAssumption
<1>2. ASSUME NEW x \in State
      PROVE  Cardinality(Ancestors(x)) = Cardinality(Ancestors(super[x])) + 1
  <2>1. super[x] \in 0..N_STATES /\ x \notin Ancestors(super[x])
    BY Hierarchical
  <2>2. Cardinality(Ancestors(super[x]) \cup {x}) = Cardinality(Ancestors(super[x])) + 1
    BY <1>1, <2>1, FS_AddElement
  <2>3. Ancestors(x) = Ancestors(super[x]) \cup {x}
    BY Hierarchical
  <2> QED BY <2>2, <2>3
<1>3. ASSUME NEW x \in 0..N_STATES PROVE Cardinality(Ancestors(x)) <= MAX_NEST
  <2>1. CASE x \in State
    BY <2>1 DEF Hierarchy, WellFormed
  <2>2. CASE x = TOP
    <3>1. Cardinality({TOP}) = 1 /\ Ancestors(x) = {TOP}
      BY <2>2, Hierarchical, FS_Singleton
    <3> QED BY <3>1, QHsmAssumption
  <2> QED BY <2>1, <2>2, Hierarchical
<1> QED BY <1>1, <1>2, <1>3

(* The recursion of Leaf has a solution.                                   *)
LEMMA LeafExists ==
  ASSUME Hierarchy
  PROVE  \E g : g = [y \in State |-> IF initial[y] = TOP THEN y ELSE g[initial[y]]]
<1> DEFINE step(g, n) == [y \in N_STATES + 1 - n..N_STATES |->
                            IF initial[y] = TOP THEN y ELSE g[initial[y]]]
           G == {n \in 0..N_STATES : \E g : g = step(g, n)}
<1>1. \A y \in State : initial[y] \in 0..N_STATES /\ (initial[y] # TOP => y < initial[y])
  <2> TAKE y \in State
  <2>1. initial[y] \in 0..N_STATES
    BY DEF Hierarchy
  <2>2. initial[y] # TOP => y \in Ancestors(initial[y]) /\ y # initial[y]
    BY DEF Hierarchy, WellFormed
  <2>3. Ancestors(initial[y]) \subseteq 0..initial[y]
    BY <2>1, Hierarchical
  <2> QED BY <2>1, <2>2, <2>3, QHsmAssumption
<1>2. 0 \in G
  <2>1. \A g : step(g, 0) = [y \in {} |-> y]
    <3>1. N_STATES + 1 - 0..N_STATES = {}
      BY QHsmAssumption
    <3> QED BY <3>1
  <2>2. \E g : g = step(g, 0)
    BY <2>1
  <2>3. 0 \in 0..N_STATES
    BY QHsmAssumption
  <2> QED BY <2>2, <2>3, Zenon
<1>3. ASSUME NEW n \in 0..N_STATES, n + 1 \in 1..N_STATES, n \in G PROVE n + 1 \in G
  <2>1. PICK g : g = step(g, n)
    BY <1>3
  <2> DEFINE y0 == N_STATES + 1 - (n + 1)
             h == [y \in y0..N_STATES |->
                     IF y = y0 THEN IF initial[y] = TOP THEN y ELSE g[initial[y]] ELSE g[y]]
  <2>0. y0 \in State /\ \A y \in y0..N_STATES : y \in State
    BY <1>3, QHsmAssumption DEF State
  <2>2. ASSUME NEW y \in y0..N_STATES
        PROVE  h[y] = IF initial[y] = TOP THEN y ELSE h[initial[y]]
    <3>1. initial[y] # TOP => /\ initial[y] \in N_STATES + 1 - n..N_STATES
                              /\ initial[y] \in y0..N_STATES /\ initial[y] # y0
      BY <1>1, <1>3, <2>0, QHsmAssumption
    <3>2. initial[y] # TOP => h[initial[y]] = g[initial[y]]
      BY <3>1
    <3>3. CASE y = y0
      BY <3>2, <3>3
    <3>4. CASE y # y0
      <4>1. y \in N_STATES + 1 - n..N_STATES
        BY <1>3, <3>4, QHsmAssumption
      <4>2. g[y] = step(g, n)[y]
        BY <2>1
      <4> QED BY <3>2, <3>4, <4>1, <4>2
    <3> QED BY <3>3, <3>4
  <2>3. h = step(h, n + 1)
    BY <2>2
  <2>4. n + 1 \in 0..N_STATES /\ \E f : f = step(f, n + 1)
    <3> HIDE DEF h
    <3> QED BY <1>3, <2>3, QHsmAssumption
  <2> QED BY <2>4, Zenon
<1>4. N_STATES \in G
  <2> HIDE DEF G
  <2> QED BY <1>2, <1>3, UpToInduction, QHsmAssumption
<1>5. PICK g : g = step(g, N_STATES)
  BY <1>4
<1>6. N_STATES + 1 - N_STATES..N_STATES = State
  BY QHsmAssumption DEF State
<1> QED BY <1>5, <1>6

(* Initial transitions lead on to the same leaf.                           *)
LEMMA LeafRec ==
  ASSUME Hierarchy, NEW x \in State
  PROVE  Leaf(x) = IF initial[x] = TOP THEN x ELSE Leaf(initial[x])
<1> DEFINE step(g) == [y \in State |-> IF initial[y] = TOP THEN y ELSE g[initial[y]]]
           leaf == CHOOSE g : g = step(g)
<1>1. leaf = step(leaf)
  <2>1. \E g : g = step(g)
    BY LeafExists
  <2> QED BY <2>1, Zenon
<1>2. \A y : Leaf(y) = leaf[y]
  BY Zenon DEF Leaf
<1> HIDE DEF leaf
<1> QED BY <1>1, <1>2

(* A nested initial transition leads inward.                               *)
LEMMA InitialInward ==
  ASSUME Hierarchy, NEW x \in State, initial[x] # TOP
  PROVE  initial[x] \in State /\ x \in Ancestors(initial[x]) \ {initial[x]}
BY Hierarchical DEF Hierarchy, WellFormed

---------------------------------------------------------------------------
(* What the handlers are told.                                             *)

(* The enumerations are sequences.                                         *)
LEMMA EnumerationSeq ==
  ASSUME NEW X, IsFiniteSet(X)
  PROVE  /\ \E S : Up(X) \in Seq(S)
         /\ \E S : Down(X) \in Seq(S)
         /\ Len(Up(X)) = Cardinality(X) /\ Len(Down(X)) = Cardinality(X)
<1>1. Cardinality(X) \in Nat
  BY FS_CardinalityType
<1>2. Up(X) = [k \in 1..Cardinality(X) |-> Up(X)[k]]
  <2> DEFINE r(k) == CHOOSE x \in X : Cardinality({y \in X : y > x}) = k - 1
  <2>1. Up(X) = [k \in 1..Cardinality(X) |-> r(k)]
    BY Zenon DEF Up
  <2> HIDE DEF r
  <2> QED BY <2>1
<1>3. Down(X) = [k \in 1..Cardinality(X) |-> Down(X)[k]]
  <2> DEFINE r(k) == CHOOSE x \in X : Cardinality({y \in X : y < x}) = k - 1
  <2>1. Down(X) = [k \in 1..Cardinality(X) |-> r(k)]
    BY Zenon DEF Down
  <2> HIDE DEF r
  <2> QED BY <2>1
<1>4. /\ Up(X) \in Seq({Up(X)[k] : k \in 1..Cardinality(X)})
      /\ Down(X) \in Seq({Down(X)[k] : k \in 1..Cardinality(X)})
  BY <1>1, <1>2, <1>3
<1>5. Len(Up(X)) = Cardinality(X) /\ Len(Down(X)) = Cardinality(X)
  BY <1>1, <1>2, <1>3
<1> QED BY <1>4, <1>5, Zenon

(* A state around all of X comes last when X is exited.                    *)
LEMMA UpAppend ==
  ASSUME NEW X, IsFiniteSet(X), X \subseteq Nat, NEW x \in Nat, \A y \in X : x < y
  PROVE  Up(X \cup {x}) = Append(Up(X), x)
<1> DEFINE n == Cardinality(X)
           Z == X \cup {x}
           Above(S, y) == {z \in S : z > y}
<1>1. n \in Nat /\ x \notin X /\ IsFiniteSet(Z) /\ Cardinality(Z) = n + 1
  BY FS_CardinalityType, FS_AddElement
<1>2. Above(Z, x) = X
  <2>1. ~(x > x) /\ \A y \in X : y > x
    OBVIOUS
  <2> QED BY <2>1
<1>3. \A y \in X : Above(Z, y) = Above(X, y)
  OBVIOUS
<1>4. \A y \in X : Cardinality(Above(X, y)) \in Nat /\ Cardinality(Above(X, y)) < n
  <2> TAKE y \in X
  <2>1. Above(X, y) \in SUBSET X /\ Above(X, y) # X
    OBVIOUS
  <2> HIDE DEF Above
  <2>2. /\ IsFiniteSet(Above(X, y)) /\ Cardinality(Above(X, y)) <= n
        /\ Cardinality(Above(X, y)) # n
    BY <2>1, FS_Subset
  <2> QED BY <1>1, <2>2, FS_CardinalityType
<1> HIDE DEF Above
<1>5. ASSUME NEW k \in 1..n PROVE Up(Z)[k] = Up(X)[k]
  <2>1. k \in 1..Cardinality(Z) /\ k - 1 # n
    BY <1>1
  <2>2. Up(Z)[k] = CHOOSE y \in Z : Cardinality(Above(Z, y)) = k - 1
    BY <2>1, Zenon DEF Up, Above
  <2>3. Up(X)[k] = CHOOSE y \in X : Cardinality(Above(X, y)) = k - 1
    BY Zenon DEF Up, Above
  <2>4. \A y : (y \in Z /\ Cardinality(Above(Z, y)) = k - 1)
                 <=> (y \in X /\ Cardinality(Above(X, y)) = k - 1)
    BY <1>2, <1>3, <2>1
  <2> QED BY <2>2, <2>3, <2>4, Zenon
<1>6. Up(Z)[n + 1] = x
  <2>1. PICK k : k = n + 1
    OBVIOUS
  <2>2. k \in 1..Cardinality(Z) /\ k - 1 = n
    BY <1>1, <2>1
  <2>3. Up(Z)[k] = CHOOSE y \in Z : Cardinality(Above(Z, y)) = k - 1
    BY <2>2, Zenon DEF Up, Above
  <2>4. \A y \in Z : Cardinality(Above(Z, y)) = k - 1 <=> y = x
    <3>1. \A y \in X : Cardinality(Above(Z, y)) # k - 1
      BY <1>3, <1>4, <2>2
    <3>2. Cardinality(Above(Z, x)) = k - 1
      BY <1>2, <2>2
    <3> QED BY <1>1, <3>1, <3>2
  <2> QED BY <2>1, <2>3, <2>4
<1>7. PICK S : Up(X) \in Seq(S)
  BY EnumerationSeq
<1>8. PICK T : Up(Z) \in Seq(T)
  BY <1>1, EnumerationSeq
<1>9. Len(Up(X)) = n /\ Len(Up(Z)) = n + 1
  BY <1>1, EnumerationSeq
<1> HIDE DEF n, Z
<1>10. Up(Z) = Append(Up(X), x)
  BY <1>1, <1>5, <1>6, <1>7, <1>8, <1>9
<1> QED BY <1>10 DEF Z

(* A state inside all of X comes last when X is entered.                   *)
LEMMA DownAppend ==
  ASSUME NEW X, IsFiniteSet(X), X \subseteq Nat, NEW x \in Nat, \A y \in X : x > y
  PROVE  Down(X \cup {x}) = Append(Down(X), x)
<1> DEFINE n == Cardinality(X)
           Z == X \cup {x}
           Below(S, y) == {z \in S : z < y}
<1>1. n \in Nat /\ x \notin X /\ IsFiniteSet(Z) /\ Cardinality(Z) = n + 1
  BY FS_CardinalityType, FS_AddElement
<1>2. Below(Z, x) = X
  <2>1. ~(x < x) /\ \A y \in X : y < x
    OBVIOUS
  <2> QED BY <2>1
<1>3. \A y \in X : Below(Z, y) = Below(X, y)
  OBVIOUS
<1>4. \A y \in X : Cardinality(Below(X, y)) \in Nat /\ Cardinality(Below(X, y)) < n
  <2> TAKE y \in X
  <2>1. Below(X, y) \in SUBSET X /\ Below(X, y) # X
    OBVIOUS
  <2> HIDE DEF Below
  <2>2. /\ IsFiniteSet(Below(X, y)) /\ Cardinality(Below(X, y)) <= n
        /\ Cardinality(Below(X, y)) # n
    BY <2>1, FS_Subset
  <2> QED BY <1>1, <2>2, FS_CardinalityType
<1> HIDE DEF Below
<1>5. ASSUME NEW k \in 1..n PROVE Down(Z)[k] = Down(X)[k]
  <2>1. k \in 1..Cardinality(Z) /\ k - 1 # n
    BY <1>1
  <2>2. Down(Z)[k] = CHOOSE y \in Z : Cardinality(Below(Z, y)) = k - 1
    BY <2>1, Zenon DEF Down, Below
  <2>3. Down(X)[k] = CHOOSE y \in X : Cardinality(Below(X, y)) = k - 1
    BY Zenon DEF Down, Below
  <2>4. \A y : (y \in Z /\ Cardinality(Below(Z, y)) = k - 1)
                 <=> (y \in X /\ Cardinality(Below(X, y)) = k - 1)
    BY <1>2, <1>3, <2>1
  <2> QED BY <2>2, <2>3, <2>4, Zenon
<1>6. Down(Z)[n + 1] = x
  <2>1. PICK k : k = n + 1
    OBVIOUS
  <2>2. k \in 1..Cardinality(Z) /\ k - 1 = n
    BY <1>1, <2>1
  <2>3. Down(Z)[k] = CHOOSE y \in Z : Cardinality(Below(Z, y)) = k - 1
    BY <2>2, Zenon DEF Down, Below
  <2>4. \A y \in Z : Cardinality(Below(Z, y)) = k - 1 <=> y = x
    <3>1. \A y \in X : Cardinality(Below(Z, y)) # k - 1
      BY <1>3, <1>4, <2>2
    <3>2. Cardinality(Below(Z, x)) = k - 1
      BY <1>2, <2>2
    <3> QED BY <1>1, <3>1, <3>2
  <2> QED BY <2>1, <2>3, <2>4
<1>7. PICK S : Down(X) \in Seq(S)
  BY EnumerationSeq
<1>8. PICK T : Down(Z) \in Seq(T)
  BY <1>1, EnumerationSeq
<1>9. Len(Down(X)) = n /\ Len(Down(Z)) = n + 1
  BY <1>1, EnumerationSeq
<1> HIDE DEF n, Z
<1>10. Down(Z) = Append(Down(X), x)
  BY <1>1, <1>5, <1>6, <1>7, <1>8, <1>9
<1> QED BY <1>10 DEF Z

(* What is told is a sequence, and one telling more appends to it.         *)
LEMMA ToldSeq ==
  ASSUME NEW what, NEW S, NEW q \in Seq(S), NEW x
  PROVE  /\ Told(what, q) \in Seq({what} \X S) /\ Len(Told(what, q)) = Len(q)
         /\ Told(what, Append(q, x)) = Append(Told(what, q), <<what, x>>)
<1>1. Told(what, q) \in Seq({what} \X S) /\ Len(Told(what, q)) = Len(q)
  BY DEF Told
<1>2. \A S2 : x \in S2 /\ q \in Seq(S2)
                => Told(what, Append(q, x)) = Append(Told(what, q), <<what, x>>)
  BY DEF Told
<1>3. x \in S \cup {x} /\ q \in Seq(S \cup {x})
  OBVIOUS
<1> QED BY <1>1, <1>2, <1>3

(* Nothing is told yet.                                                    *)
LEMMA LoggedNothing == Logged(<< >>, {}, {})
<1>1. Cardinality({}) = 0
  BY FS_EmptySet
<1>2. Up({}) = << >> /\ Down({}) = << >>
  BY <1>1 DEF Up, Down
<1>3. Told("exit", << >>) = << >> /\ Told("entry", << >>) = << >>
  BY DEF Told
<1> QED BY <1>2, <1>3 DEF Logged

(* One more state is exited.                                               *)
LEMMA LoggedExit ==
  ASSUME NEW l, NEW X, IsFiniteSet(X), X \subseteq Nat, NEW x \in Nat, \A y \in X : x < y,
         Logged(l, X, {})
  PROVE  Logged(Append(l, <<"exit", x>>), X \cup {x}, {})
<1>1. Up(X \cup {x}) = Append(Up(X), x)
  BY UpAppend
<1>2. PICK S : Up(X) \in Seq(S)
  BY EnumerationSeq
<1>3. Told("exit", Up(X \cup {x})) = Append(Told("exit", Up(X)), <<"exit", x>>)
  BY <1>1, <1>2, ToldSeq
<1>4. Told("exit", Up(X)) \in Seq({"exit"} \X S)
  BY <1>2, ToldSeq
<1>5. Told("entry", Down({})) = << >>
  BY FS_EmptySet DEF Told, Down
<1> DEFINE a == Told("exit", Up(X))
           z == <<"exit", x>>
<1>6. l = a \o << >>
  BY <1>5 DEF Logged
<1> HIDE DEF a
<1>7. a \o << >> = a /\ Append(a, z) \o << >> = Append(a, z)
  <2>1. a \in Seq({"exit"} \X S \cup {z}) /\ Append(a, z) \in Seq({"exit"} \X S \cup {z})
    BY <1>4 DEF a
  <2> HIDE DEF z
  <2> QED BY <2>1
<1> QED BY <1>3, <1>5, <1>6, <1>7 DEF Logged, a

(* One more state is entered.                                              *)
LEMMA LoggedEntry ==
  ASSUME NEW l, NEW X, IsFiniteSet(X), NEW Y, IsFiniteSet(Y), Y \subseteq Nat, NEW y \in Nat,
         \A z \in Y : y > z, Logged(l, X, Y)
  PROVE  Logged(Append(l, <<"entry", y>>), X, Y \cup {y})
<1>1. Down(Y \cup {y}) = Append(Down(Y), y)
  BY DownAppend
<1>2. PICK S : Up(X) \in Seq(S)
  BY EnumerationSeq
<1>3. PICK T : Down(Y) \in Seq(T)
  BY EnumerationSeq
<1> DEFINE a == Told("exit", Up(X))
           b == Told("entry", Down(Y))
           z == <<"entry", y>>
           U == {"exit"} \X S \cup {"entry"} \X T \cup {z}
<1>4. Told("entry", Down(Y \cup {y})) = Append(b, z)
  BY <1>1, <1>3, ToldSeq
<1>5. a \in Seq({"exit"} \X S) /\ b \in Seq({"entry"} \X T)
  BY <1>2, <1>3, ToldSeq
<1>6. l = a \o b
  BY DEF Logged
<1> HIDE DEF a, b
<1>7. a \in Seq(U) /\ b \in Seq(U) /\ z \in U
  BY <1>5
<1> HIDE DEF U, z
<1>8. a \o Append(b, z) = Append(a \o b, z)
  BY <1>7
<1> QED BY <1>4, <1>6, <1>8 DEF Logged, a, z

---------------------------------------------------------------------------
(* The entry path.                                                         *)

(* An entry is a state, and each costs one level of nesting.               *)
LEMMA ChainBound ==
  ASSUME Hierarchy, NEW p, NEW n, Chain(p, n), p[0] \in 0..N_STATES
  PROVE  /\ n \in 0..N_STATES /\ n < MAX_NEST
         /\ \A k \in 0..n : p[k] \in 0..N_STATES
         /\ p[n] # TOP => n + 1 \in 0..N_STATES /\ n + 1 < MAX_NEST
<1>1. n \in Nat /\ n \in 0..n /\ \A k \in 0..n : p[k] \in 0..N_STATES
  BY Hierarchical DEF Chain
<1>2. /\ Cardinality(Ancestors(p[n])) + n = Cardinality(Ancestors(p[0]))
      /\ Cardinality(Ancestors(p[n])) \in 1..N_STATES + 1
      /\ Cardinality(Ancestors(p[0])) \in 1..N_STATES + 1
      /\ Cardinality(Ancestors(p[0])) <= MAX_NEST
  BY <1>1, AncestorsCount DEF Chain
<1>3. ASSUME p[n] # TOP PROVE Cardinality(Ancestors(p[n])) >= 2
  <2>1. p[n] \in State /\ super[p[n]] \in 0..N_STATES
    BY <1>1, <1>3, Hierarchical
  <2> QED BY <2>1, AncestorsCount, QHsmAssumption
<1> QED BY <1>1, <1>2, <1>3, QHsmAssumption

(* A path starts with one state.                                           *)
LEMMA ChainStart ==
  ASSUME Hierarchy, NEW p, 0 \in DOMAIN p, p[0] \in 0..N_STATES
  PROVE  Chain(p, 0) /\ Covers(p, 0)
<1>1. p[0] \in Ancestors(p[0]) /\ Cardinality(Ancestors(p[0])) \in 1..N_STATES + 1
  BY Hierarchical, AncestorsCount
<1> QED BY <1>1, QHsmAssumption DEF Chain, Covers

(* It goes on with the superstate of its last entry.                       *)
LEMMA ChainGrow ==
  ASSUME Hierarchy, NEW p, NEW n, Chain(p, n), p[0] \in 0..N_STATES, p[n] # TOP,
         NEW q, \A k \in 0..n : k \in DOMAIN q /\ q[k] = p[k],
         n + 1 \in DOMAIN q, q[n + 1] = super[p[n]]
  PROVE  Chain(q, n + 1) /\ (Covers(p, n) => Covers(q, n + 1))
<1>1. n \in Nat /\ n \in 0..n /\ 0 \in 0..n /\ p[n] \in 0..N_STATES /\ p[n] \in State
  BY ChainBound, Hierarchical DEF Chain
<1>2. /\ Ancestors(p[n]) = {p[n]} \cup Ancestors(super[p[n]])
      /\ super[p[n]] \in 0..N_STATES /\ super[p[n]] \in Ancestors(super[p[n]])
  BY <1>1, Hierarchical
<1>3. super[p[n]] \in Ancestors(p[0])
  BY <1>1, <1>2, AncestorsTransitive DEF Chain
<1>4. Cardinality(Ancestors(super[p[n]])) + (n + 1) = Cardinality(Ancestors(p[0]))
  BY <1>1, <1>2, AncestorsCount, QHsmAssumption DEF Chain
<1>5. \A k \in 0..n + 1 : k = n + 1 \/ k \in 0..n
  BY <1>1
<1>6. \A k \in 0..n : q[k] = p[k] /\ p[k] \in Ancestors(p[0])
                      /\ Cardinality(Ancestors(p[k])) + k = Cardinality(Ancestors(p[0]))
  BY DEF Chain
<1>7. \A k \in 0..n + 1 : /\ k \in DOMAIN q /\ q[k] \in Ancestors(q[0])
                          /\ Cardinality(Ancestors(q[k])) + k = Cardinality(Ancestors(q[0]))
  BY <1>1, <1>3, <1>4, <1>5, <1>6
<1>8. \A k \in 0..n + 1 - 1 : q[k] # TOP /\ q[k + 1] = super[q[k]]
  <2> TAKE k \in 0..n + 1 - 1
  <2>1. CASE k = n
    BY <1>1, <2>1
  <2>2. CASE k # n
    <3>1. k \in 0..n - 1 /\ k \in 0..n /\ k + 1 \in 0..n
      BY <1>1, <2>2
    <3> QED BY <3>1 DEF Chain
  <2> QED BY <2>1, <2>2
<1>9. ASSUME Covers(p, n), NEW y \in Ancestors(q[0])
      PROVE  y \in Ancestors(q[n + 1]) \/ \E j \in 0..n + 1 : y = q[j]
  <2>1. y \in Ancestors(p[n]) \/ \E j \in 0..n : y = p[j]
    BY <1>1, <1>9 DEF Covers
  <2>2. CASE y \in Ancestors(p[n])
    BY <1>1, <1>2, <2>2
  <2>3. CASE \E j \in 0..n : y = p[j]
    BY <1>1, <2>3
  <2> QED BY <2>1, <2>2, <2>3
<1> QED BY <1>1, <1>7, <1>8, <1>9 DEF Chain, Covers

(* A beginning of a path is one.                                           *)
LEMMA ChainCut ==
  ASSUME NEW p, NEW n, Chain(p, n), NEW k \in 0..n
  PROVE  /\ Chain(p, k)
         /\ k > 0 => Chain(p, k - 1) /\ p[k - 1] # TOP /\ p[k] = super[p[k - 1]]
<1>1. \A j \in 0..n : Chain(p, j)
  BY DEF Chain
<1>2. k > 0 => k - 1 \in 0..n /\ k - 1 \in 0..n - 1 /\ k - 1 + 1 = k
  BY DEF Chain
<1>3. \A j \in 0..n - 1 : p[j] # TOP /\ p[j + 1] = super[p[j]]
  BY DEF Chain
<1> QED BY <1>1, <1>2, <1>3

---------------------------------------------------------------------------
(* The least common ancestor.                                              *)

(* The scope of a transition, found below it on either side.               *)
LEMMA ScopeIs ==
  ASSUME Hierarchy, NEW tr, tr.source \in State, tr.target \in State
  PROVE  /\ tr.source = tr.target => Scope(tr) = Ancestors(super[tr.source])
         /\ tr.source # tr.target =>
              \A z \in Ancestors(tr.source) \cap Ancestors(tr.target) :
                (\A y \in Ancestors(tr.source) \ Ancestors(z) : y \notin Ancestors(tr.target))
                  => Scope(tr) = Ancestors(z)
         /\ tr.source # tr.target /\ super[tr.source] = super[tr.target] =>
              Scope(tr) = Ancestors(super[tr.source])
         /\ tr.source # tr.target /\ tr.source \in Ancestors(tr.target) =>
              Scope(tr) = Ancestors(tr.source)
         /\ tr.source # tr.target /\ tr.target \in Ancestors(tr.source) =>
              Scope(tr) = Ancestors(tr.target)
<1> DEFINE a == tr.source
           b == tr.target
<1>0. a \in State /\ b \in State /\ Scope(tr) = IF a = b THEN Ancestors(a) \ {a}
                                                ELSE Ancestors(a) \cap Ancestors(b)
  BY DEF Scope
<1> HIDE DEF a, b
<1>1. /\ Ancestors(a) = {a} \cup Ancestors(super[a]) /\ Ancestors(super[a]) \subseteq 0..super[a]
      /\ Ancestors(b) = {b} \cup Ancestors(super[b]) /\ Ancestors(super[b]) \subseteq 0..super[b]
      /\ super[a] < a /\ super[b] < b /\ a \in Nat /\ b \in Nat
      /\ super[a] \in 0..N_STATES /\ super[b] \in 0..N_STATES /\ a \in 0..N_STATES /\ b \in 0..N_STATES
      /\ super[a] \in Ancestors(super[a]) /\ super[b] \in Ancestors(super[b])
  BY <1>0, Hierarchical, QHsmAssumption
<1>2. a \notin Ancestors(super[a]) /\ b \notin Ancestors(super[b])
  BY <1>1, QHsmAssumption
<1>3. a = b => Scope(tr) = Ancestors(super[a])
  BY <1>0, <1>1, <1>2
<1>4. ASSUME a # b, NEW z \in Ancestors(a) \cap Ancestors(b),
             \A y \in Ancestors(a) \ Ancestors(z) : y \notin Ancestors(b)
      PROVE  Scope(tr) = Ancestors(z)
  <2>1. Ancestors(z) \subseteq Ancestors(a) /\ Ancestors(z) \subseteq Ancestors(b)
    BY <1>1, AncestorsTransitive
  <2> QED BY <1>0, <1>4, <2>1
<1>5. ASSUME a # b, super[a] = super[b] PROVE Scope(tr) = Ancestors(super[a])
  <2>1. a \notin Ancestors(b)
    BY <1>1, <1>2, <1>5
  <2>2. super[a] \in Ancestors(a) \cap Ancestors(b)
    BY <1>1, <1>5
  <2>3. \A y \in Ancestors(a) \ Ancestors(super[a]) : y \notin Ancestors(b)
    BY <1>1, <2>1
  <2> QED BY <1>4, <1>5, <2>2, <2>3
<1>6. ASSUME a # b, a \in Ancestors(b) PROVE Scope(tr) = Ancestors(a)
  BY <1>1, <1>4, <1>6
<1>7. ASSUME a # b, b \in Ancestors(a) PROVE Scope(tr) = Ancestors(b)
  BY <1>1, <1>4, <1>7
<1> QED BY <1>3, <1>4, <1>5, <1>6, <1>7 DEF a, b

(* A step leaves the hierarchy as it is.                                   *)
LEMMA SameHierarchy ==
  ASSUME UNCHANGED machine
  PROVE  /\ super' = super /\ initial' = initial /\ (Hierarchy => Hierarchy')
         /\ \A x : Ancestors(x)' = Ancestors(x)
         /\ \A x : Leaf(x)' = Leaf(x)
         /\ \A x : Scope(x)' = Scope(x)
         /\ \A p, n : Chain(p, n)' <=> Chain(p, n)
         /\ \A p, n : Covers(p, n)' <=> Covers(p, n)
         /\ \A x : Expected(x)' = Expected(x)
<1>1. super' = super /\ initial' = initial
  BY DEF machine
<1>2. \A x : Ancestors(x)' = Ancestors(x)
  BY <1>1 DEF Ancestors
<1>3. \A x : Leaf(x)' = Leaf(x)
  BY <1>1 DEF Leaf
<1>4. \A x : Scope(x)' = Scope(x)
  BY <1>2 DEF Scope
<1>5. Hierarchy => Hierarchy'
  BY <1>1, <1>2 DEF Hierarchy, WellFormed
<1>6. \A p, n : Chain(p, n)' <=> Chain(p, n)
  BY <1>1, <1>2 DEF Chain
<1>7. \A p, n : Covers(p, n)' <=> Covers(p, n)
  BY <1>2 DEF Covers
<1>8. \A x : Expected(x)' = Expected(x)
  BY <1>2, <1>3, <1>4 DEF Expected
<1> QED BY <1>1, <1>2, <1>3, <1>4, <1>5, <1>6, <1>7, <1>8

---------------------------------------------------------------------------
(* Each step preserves the invariant.                                      *)

(* The beginning.                                                          *)
LEMMA HsmInitInv == HsmInit => HsmInv
<1> SUFFICES ASSUME HsmInit PROVE HsmInv
  OBVIOUS
<1>1. TOP \in 0..N_STATES
  BY QHsmAssumption DEF TOP
<1> QED
  BY <1>1 DEF HsmInit, HsmInv, Typed, Hierarchy, AtRest, InTransition, Exiting, Entering, NoTran

(* The top-most initial transition: nothing to exit, nothing entered yet.  *)
LEMMA QHsm_initStep == ASSUME HsmInv, QHsm_init PROVE HsmInv'
<1> USE DEF QHsm_init, HsmInv
<1>1. PICK x \in State : temp' = x /\ tran' = [NoTran EXCEPT !.target = x]
  OBVIOUS
<1>2. Hierarchy /\ log = << >> /\ path = NoPath /\ ip = -1
  BY DEF Typed, AtRest
<1>3. /\ tran'.from = TOP /\ tran'.source = TOP /\ tran'.target = x
      /\ tran' \in [from : 0..N_STATES, source : 0..N_STATES, target : 0..N_STATES]
  BY <1>1, <1>2, Hierarchical DEF NoTran
<1>4. Ancestors(TOP) = {TOP} /\ TOP \in Ancestors(x) /\ TOP # x /\ x \in 0..N_STATES /\ TOP \in 0..N_STATES
  BY <1>2, Hierarchical
<1>5. Scope(tran') = {TOP}
  BY <1>3, <1>4 DEF Scope
<1>6. Typed'
  BY <1>1, <1>3, <1>4, SameHierarchy DEF Typed
<1>7. (AtRest /\ InTransition /\ Exiting)'
  BY <1>1, <1>2, <1>3, <1>4, SameHierarchy DEF AtRest, InTransition, Exiting, NoPath
<1>8. EnteredTo(t)'
  <2>1. ToExit' = {} /\ (ToEnter(t))' = {} /\ (Scope(tran) \subseteq Ancestors(t))'
    BY <1>3, <1>4, <1>5, SameHierarchy DEF ToExit, ToEnter
  <2> QED BY <1>2, <2>1, LoggedNothing DEF EnteredTo
<1>9. Entering'
  BY <1>1, <1>2, <1>3, <1>4, <1>8, SameHierarchy DEF Entering
<1> QED BY <1>6, <1>7, <1>9

(* An event comes.                                                         *)
LEMMA QHsm_dispatchStep == ASSUME HsmInv, QHsm_dispatch PROVE HsmInv'
<1> USE DEF QHsm_dispatch, HsmInv
<1>1. Hierarchy /\ state = temp /\ path = NoPath /\ ip = -1 /\ state \in 0..N_STATES
  BY DEF Typed, AtRest
<1>2. TOP \in 0..N_STATES /\ state \in Ancestors(state)
  BY <1>1, Hierarchical
<1>3. Typed'
  BY <1>2, SameHierarchy DEF Typed, NoTran
<1>4. AtRest'
  BY <1>1, <1>2, SameHierarchy DEF AtRest
<1> QED BY <1>3, <1>4 DEF InTransition, Exiting, Entering

(* The event is passed to the superstate.                                  *)
LEMMA PassUpStep == ASSUME HsmInv, PassUp PROVE HsmInv'
<1> USE DEF PassUp, HsmInv
<1>1. /\ Hierarchy /\ state = t /\ temp \in Ancestors(t) /\ path = NoPath /\ ip = -1 /\ t \in 0..N_STATES
      /\ temp \in State /\ super[temp] \in 0..N_STATES
  BY Hierarchical DEF Typed, AtRest
<1>2. super[temp] \in Ancestors(t)
  BY <1>1, AncestorsTransitive, Hierarchical
<1>3. Typed'
  BY <1>1, SameHierarchy DEF Typed
<1>4. AtRest'
  BY <1>1, <1>2, SameHierarchy DEF AtRest
<1> QED BY <1>3, <1>4 DEF InTransition, Exiting, Entering

(* The event was handled without a transition.                             *)
LEMMA NoTransitionStep == ASSUME HsmInv, NoTransition PROVE HsmInv'
<1> USE DEF NoTransition, HsmInv, Return
<1>1. Hierarchy /\ log = << >> /\ tran = NoTran /\ t \in 0..N_STATES /\ TOP \in 0..N_STATES
  BY Hierarchical DEF Typed, AtRest
<1>2. Typed'
  BY <1>1, SameHierarchy DEF Typed
<1>3. TransitionExact' /\ IsInExact'
  BY <1>1 DEF TransitionExact, IsInExact, NoTran
<1>4. AtRest'
  BY <1>3 DEF AtRest
<1> QED BY <1>2, <1>4 DEF InTransition, Exiting, Entering

(* A transition is taken from the active state or a state around it.       *)
LEMMA TakeTransitionStep == ASSUME HsmInv, TakeTransition PROVE HsmInv'
<1> USE DEF TakeTransition, HsmInv
<1>1. /\ Hierarchy /\ state = t /\ temp \in Ancestors(t) /\ log = << >> /\ t \in 0..N_STATES
      /\ temp \in State /\ temp \in 0..N_STATES
  BY Hierarchical DEF Typed, AtRest
<1>2. PICK x \in State :
        /\ tran' = [from |-> t, source |-> temp, target |-> x]
        /\ path' = [k \in 0..1 |-> IF k = 0 THEN x ELSE t]
        /\ temp' = x
  OBVIOUS
<1>3. /\ tran'.from = t /\ tran'.source = temp /\ tran'.target = x /\ x \in 0..N_STATES
      /\ DOMAIN path' = 0..1 /\ path'[0] = x
  BY <1>1, <1>2, Hierarchical
<1>4. Typed'
  BY <1>1, <1>2, <1>3, SameHierarchy DEF Typed
<1>5. AtRest' /\ InTransition'
  BY <1>1, <1>3, SameHierarchy, QHsmAssumption DEF AtRest, InTransition
<1>6. t \in Ancestors(t) /\ Ancestors(t) \ Ancestors(t) = {}
  BY <1>1, Hierarchical
<1>7. Logged(log, Ancestors(tran.from) \ Ancestors(t), {})'
  <2>1. (Ancestors(tran.from) \ Ancestors(t))' = {}
    BY <1>3, <1>6, SameHierarchy
  <2> QED BY <1>1, <2>1, LoggedNothing
<1>8. (t \in Ancestors(tran.from) /\ s \in Ancestors(t))'
  BY <1>1, <1>3, <1>6, SameHierarchy
<1>9. Exiting'
  BY <1>1, <1>3, <1>7, <1>8 DEF Exiting
<1> QED BY <1>4, <1>5, <1>9 DEF Entering

(* Leaving t, around all states that were exited, exits it as well.        *)
LEMMA ExitOne ==
  ASSUME Hierarchy, NEW f \in 0..N_STATES, NEW x \in Ancestors(f), x \in State, NEW l,
         Logged(l, Ancestors(f) \ Ancestors(x), {})
  PROVE  Logged(Append(l, <<"exit", x>>), Ancestors(f) \ Ancestors(super[x]), {})
<1> DEFINE X == Ancestors(f) \ Ancestors(x)
<1>1. /\ Ancestors(f) \subseteq 0..N_STATES /\ x \in Nat /\ x \in 0..N_STATES /\ IsFiniteSet(Ancestors(f))
      /\ Ancestors(x) = {x} \cup Ancestors(super[x]) /\ x \notin Ancestors(super[x])
      /\ x \in Ancestors(x)
  BY Hierarchical, AncestorsCount, QHsmAssumption
<1>2. IsFiniteSet(X) /\ X \subseteq Nat
  <2>1. IsFiniteSet(X)
    BY <1>1, FS_Difference
  <2>2. 0..N_STATES \subseteq Nat
    BY QHsmAssumption
  <2> QED BY <1>1, <2>1, <2>2
<1>3. ASSUME NEW y \in X PROVE x < y
  <2>1. y \in Nat /\ y # x /\ y \in Ancestors(f)
    BY <1>1, <1>2
  <2>2. ~(y <= x)
    BY <2>1, AncestorsLinear
  <2> QED BY <1>1, <2>1, <2>2
<1>4. X \cup {x} = Ancestors(f) \ Ancestors(super[x])
  BY <1>1
<1> HIDE DEF X
<1>5. Logged(Append(l, <<"exit", x>>), X \cup {x}, {})
  BY <1>1, <1>2, <1>3, LoggedExit DEF X
<1> QED BY <1>4, <1>5

(* The active state and those around it are exited up to the source.       *)
LEMMA ExitToSourceStep == ASSUME HsmInv, ExitToSource PROVE HsmInv'
<1> USE DEF ExitToSource, ExitToSuper, HsmInv
<1>1. /\ Hierarchy /\ t \in Ancestors(tran.from) /\ s \in Ancestors(t) /\ s \in State
      /\ t \in 0..N_STATES /\ tran.from \in 0..N_STATES
      /\ Logged(log, Ancestors(tran.from) \ Ancestors(t), {})
  BY DEF Typed, Exiting
<1>2. t \in State /\ s \in Ancestors(super[t]) /\ super[t] \in 0..N_STATES
  BY <1>1, Hierarchical
<1>3. super[t] \in Ancestors(tran.from)
  BY <1>1, <1>2, AncestorsTransitive, Hierarchical
<1>4. Logged(log', Ancestors(tran.from) \ Ancestors(super[t]), {})
  BY <1>1, <1>2, ExitOne
<1>5. Typed'
  BY <1>2, SameHierarchy DEF Typed
<1>6. AtRest' /\ InTransition'
  BY SameHierarchy DEF AtRest, InTransition
<1>7. Exiting'
  BY <1>2, <1>3, <1>4, SameHierarchy DEF Exiting
<1> QED BY <1>5, <1>6, <1>7 DEF Entering

(* The states to exit are exited, the entries begin.                       *)
LEMMA NothingEntered ==
  ASSUME UNCHANGED <<machine, tran>>, NEW x, Scope(tran) = Ancestors(x), Inside' = x,
         Logged(log', Ancestors(tran.from) \ Ancestors(x), {})
  PROVE  EnteredTo(Inside)'
<1>1. tran' = tran /\ Scope(tran)' = Scope(tran) /\ Ancestors(Inside)' = Ancestors(x)
  BY SameHierarchy
<1>2. ToExit' = Ancestors(tran.from) \ Ancestors(x)
  BY <1>1, SameHierarchy DEF ToExit
<1>3. ToEnter(Inside)' = {}
  BY <1>1 DEF ToEnter
<1> QED BY <1>1, <1>2, <1>3 DEF EnteredTo

(* Exiting the source in the cases (a) and (c): the target is entered next.*)
LEMMA SelfOrSiblingStep ==
  ASSUME HsmInv, pc = "exit", t = s, SelfOrSibling, UNCHANGED <<machine, state, s, tran>>
  PROVE  HsmInv'
<1> USE DEF SelfOrSibling, Exit, HsmInv
<1>1. /\ Hierarchy /\ s \in Ancestors(tran.from) /\ s \in State /\ s \in 0..N_STATES
      /\ tran.from \in 0..N_STATES /\ s = tran.source /\ path[0] = tran.target
      /\ 0 \in DOMAIN path /\ tran.target \in State /\ path[0] \in 0..N_STATES
      /\ super[s] \in 0..N_STATES
      /\ Logged(log, Ancestors(tran.from) \ Ancestors(s), {})
  BY Hierarchical DEF Typed, Exiting, InTransition
<1>2. Scope(tran) = Ancestors(super[s]) /\ super[path[0]] = super[s]
  BY <1>1, ScopeIs
<1>3. Logged(log', Ancestors(tran.from) \ Ancestors(super[s]), {})
  BY <1>1, ExitOne
<1>4. Typed'
  BY <1>1, SameHierarchy DEF Typed
<1>5. AtRest' /\ InTransition' /\ Exiting'
  BY SameHierarchy DEF AtRest, InTransition, Exiting
<1>6. Chain(path, 0) /\ path[0] # TOP
  BY <1>1, ChainStart, Hierarchical
<1>7. EnteredTo(Inside)'
  <2>1. PICK z : z = super[s]
    OBVIOUS
  <2>2. Inside' = z
    BY <1>2, <2>1, SameHierarchy DEF Inside
  <2> QED BY <1>2, <1>3, <2>1, <2>2, NothingEntered
<1>8. Entering'
  BY <1>1, <1>6, <1>7, SameHierarchy, QHsmAssumption DEF Entering
<1> QED BY <1>4, <1>5, <1>8

(* The target is a substate of the source, case (b).                       *)
LEMMA ToSubstateStep ==
  ASSUME HsmInv, pc = "exit", t = s, ToSubstate, UNCHANGED <<machine, state, s, tran>>
  PROVE  HsmInv'
<1> USE DEF ToSubstate, HsmInv
<1>1. /\ Hierarchy /\ s \in Ancestors(tran.from) /\ s \in State /\ s \in 0..N_STATES
      /\ tran.from \in 0..N_STATES /\ s = tran.source /\ path[0] = tran.target
      /\ 0 \in DOMAIN path /\ tran.target \in State /\ path[0] \in 0..N_STATES
      /\ Logged(log, Ancestors(tran.from) \ Ancestors(s), {})
  BY Hierarchical DEF Typed, Exiting, InTransition
<1>2. Scope(tran) = Ancestors(s)
  <2>1. s \in Ancestors(path[0])
    BY <1>1, Hierarchical
  <2> QED BY <1>1, <2>1, ScopeIs
<1>3. Typed'
  BY <1>1, SameHierarchy DEF Typed
<1>4. AtRest' /\ InTransition' /\ Exiting'
  BY SameHierarchy DEF AtRest, InTransition, Exiting
<1>5. Chain(path, 0) /\ path[0] # TOP
  BY <1>1, ChainStart, Hierarchical
<1>6. EnteredTo(Inside)'
  <2>1. PICK z : z = s
    OBVIOUS
  <2>2. Inside' = z
    BY <2>1, SameHierarchy DEF Inside
  <2> QED BY <1>1, <1>2, <2>1, <2>2, NothingEntered
<1>7. Entering'
  BY <1>1, <1>5, <1>6, SameHierarchy, QHsmAssumption DEF Entering
<1> QED BY <1>3, <1>4, <1>7

(* The target is the superstate of the source, case (d).                   *)
LEMMA ToSuperstateStep ==
  ASSUME HsmInv, pc = "exit", t = s, ToSuperstate, UNCHANGED <<machine, state, s, tran>>
  PROVE  HsmInv'
<1> USE DEF ToSuperstate, Exit, HsmInv
<1>1. /\ Hierarchy /\ s \in Ancestors(tran.from) /\ s \in State /\ s \in 0..N_STATES
      /\ tran.from \in 0..N_STATES /\ s = tran.source /\ path[0] = tran.target
      /\ 0 \in DOMAIN path /\ tran.target \in State /\ path[0] \in 0..N_STATES
      /\ super[s] \in 0..N_STATES /\ ip = -1
      /\ Logged(log, Ancestors(tran.from) \ Ancestors(s), {})
  BY Hierarchical DEF Typed, Exiting, InTransition
<1>2. Scope(tran) = Ancestors(path[0])
  <2>1. path[0] \in Ancestors(s)
    BY <1>1, Hierarchical
  <2> QED BY <1>1, <2>1, ScopeIs
<1>3. Logged(log', Ancestors(tran.from) \ Ancestors(super[s]), {})
  BY <1>1, ExitOne
<1>4. Typed'
  BY <1>1, SameHierarchy DEF Typed
<1>5. AtRest' /\ InTransition' /\ Exiting'
  BY SameHierarchy DEF AtRest, InTransition, Exiting
<1>6. EnteredTo(Inside)'
  <2>1. PICK z : z = path[0]
    OBVIOUS
  <2>2. Inside' = z
    BY <1>1, <2>1, SameHierarchy DEF Inside
  <2> QED BY <1>2, <1>3, <2>1, <2>2, NothingEntered
<1>7. Entering'
  BY <1>1, <1>6, SameHierarchy, QHsmAssumption DEF Entering
<1> QED BY <1>4, <1>5, <1>7

(* None of these: the entry path is stored, case (e).                      *)
LEMMA FarTargetStep ==
  ASSUME HsmInv, pc = "exit", t = s, FarTarget, UNCHANGED <<machine, state, s, tran>>
  PROVE  HsmInv'
<1> USE DEF FarTarget, HsmInv
<1>1. /\ Hierarchy /\ s \in Ancestors(tran.from) /\ s \in State /\ s \in 0..N_STATES
      /\ tran.from \in 0..N_STATES /\ s = tran.source /\ path[0] = tran.target
      /\ 0 \in DOMAIN path /\ path[0] \in State /\ path[0] \in 0..N_STATES
      /\ super[s] \in 0..N_STATES /\ super[path[0]] \in 0..N_STATES /\ path[0] # TOP
      /\ DOMAIN path \subseteq 0..(MAX_NEST - 1)
      /\ Logged(log, Ancestors(tran.from) \ Ancestors(s), {})
  BY Hierarchical DEF Typed, Exiting, InTransition
<1>2. /\ DOMAIN path' = DOMAIN path \cup {1} /\ path'[0] = path[0] /\ path'[1] = super[path[0]]
  BY <1>1 DEF Put
<1>3. Chain(path', 1) /\ Covers(path', 1)
  <2>1. Chain(path, 0) /\ Covers(path, 0)
    BY <1>1, ChainStart
  <2>2. PICK p : p = path
    OBVIOUS
  <2>3. PICK q : q = path'
    OBVIOUS
  <2>4. (\A k \in 0..0 : k \in DOMAIN q /\ q[k] = p[k]) /\ 1 \in DOMAIN q /\ q[0 + 1] = super[p[0]]
    BY <1>1, <1>2, <2>2, <2>3
  <2>5. Chain(q, 0 + 1) /\ Covers(q, 0 + 1)
    BY <1>1, <2>1, <2>2, <2>4, ChainGrow
  <2> QED BY <2>3, <2>5
<1>4. Typed'
  BY <1>1, SameHierarchy DEF Typed
<1>5. AtRest' /\ InTransition'
  BY <1>1, <1>2, SameHierarchy, QHsmAssumption DEF AtRest, InTransition
<1>6. \A k \in 0..1 : path'[k] # s
  BY <1>1, <1>2
<1>7. (Chain(path, ip) /\ Covers(path, ip))'
  BY <1>3, SameHierarchy
<1>8. Logged(log, Ancestors(tran.from) \ Ancestors(s), {})'
  <2>1. (Ancestors(tran.from) \ Ancestors(s))' = Ancestors(tran.from) \ Ancestors(s)
    BY SameHierarchy
  <2> QED BY <1>1, <2>1
<1>9. (t = super[s] /\ s = tran.source /\ path[0] = tran.target)'
  BY <1>1, <1>2, SameHierarchy
<1>10. Exiting'
  BY <1>1, <1>6, <1>7, <1>8, <1>9 DEF Exiting
<1> QED BY <1>4, <1>5, <1>10 DEF Entering

(* Storing one more superstate of the target, or having met the source.    *)
LEMMA StorePathStep == ASSUME HsmInv, StorePath PROVE HsmInv'
<1> USE DEF StorePath, HsmInv
<1> DEFINE up == super[path[ip]]
<1>1. /\ Hierarchy /\ s \in State /\ s \in 0..N_STATES /\ s = tran.source /\ path[0] = tran.target
      /\ path[0] \in State /\ path[0] \in 0..N_STATES /\ tran.from \in 0..N_STATES
      /\ t = super[s] /\ ip >= 1 /\ Chain(path, ip) /\ Covers(path, ip)
      /\ \A k \in 0..ip : path[k] # s
      /\ DOMAIN path \subseteq 0..(MAX_NEST - 1)
      /\ Logged(log, Ancestors(tran.from) \ Ancestors(s), {})
  BY Hierarchical DEF Typed, Exiting, InTransition
<1>2. /\ ip \in 0..N_STATES /\ ip + 1 \in 0..N_STATES /\ ip + 1 < MAX_NEST
      /\ path[ip] \in 0..N_STATES /\ path[ip] \in State /\ up \in 0..N_STATES
  <2>1. ip \in 0..N_STATES /\ ip + 1 \in 0..N_STATES /\ ip + 1 < MAX_NEST /\ \A k \in 0..ip : path[k] \in 0..N_STATES
    BY <1>1, ChainBound
  <2>2. path[ip] \in 0..N_STATES
    BY <1>1, <2>1, QHsmAssumption
  <2> QED BY <1>1, <2>1, <2>2, Hierarchical
<1>3. /\ DOMAIN path' = DOMAIN path \cup {ip + 1} /\ path'[ip + 1] = up
      /\ \A k \in 0..ip : k \in DOMAIN path' /\ path'[k] = path[k]
  <2>1. \A k \in 0..ip : k # ip + 1 /\ k \in DOMAIN path
    BY <1>1, <1>2, QHsmAssumption DEF Chain
  <2> QED BY <2>1 DEF Put
<1>4. path'[0] = path[0] /\ 0 \in DOMAIN path'
  BY <1>2, <1>3, QHsmAssumption
<1>5. Chain(path', ip + 1) /\ Covers(path', ip + 1)
  <2>1. PICK p : p = path
    OBVIOUS
  <2>2. PICK q : q = path'
    OBVIOUS
  <2>3. PICK n : n = ip
    OBVIOUS
  <2>4. /\ Chain(p, n) /\ Covers(p, n) /\ p[0] \in 0..N_STATES /\ p[n] # TOP
        /\ (\A k \in 0..n : k \in DOMAIN q /\ q[k] = p[k]) /\ n + 1 \in DOMAIN q /\ q[n + 1] = super[p[n]]
    BY <1>1, <1>3, <2>1, <2>2, <2>3
  <2>5. Chain(q, n + 1) /\ Covers(q, n + 1)
    BY <1>1, <2>4, ChainGrow
  <2> QED BY <2>2, <2>3, <2>5
<1>6. Typed'
  BY <1>2, SameHierarchy DEF Typed
<1>7. InTransition'
  <2>1. DOMAIN path' \subseteq 0..(MAX_NEST - 1)
    BY <1>1, <1>2, <1>3, QHsmAssumption
  <2> QED BY <2>1, SameHierarchy DEF InTransition
<1>8. CASE up = s
  <2>1. s \in Ancestors(path[0])
    <3>1. path[ip] \in Ancestors(path[0]) /\ s \in Ancestors(path[ip])
      <4>1. ip \in 0..ip
        BY <1>2, QHsmAssumption
      <4>2. up \in Ancestors(path[ip])
        BY <1>1, <1>2, Hierarchical
      <4> QED BY <1>1, <1>8, <4>1, <4>2 DEF Chain
    <3> QED BY <1>1, <3>1, AncestorsTransitive
  <2>2. Scope(tran) = Ancestors(s)
    <3>1. path[0] # s
      BY <1>1, <1>2, QHsmAssumption
    <3> QED BY <1>1, <2>1, <3>1, ScopeIs
  <2>3. EnteredTo(Inside)'
    <3>1. PICK z : z = s
      OBVIOUS
    <3>2. Inside' = z
      <4>1. ip' = ip /\ path'[ip] = path[ip] /\ ip # -1
        BY <1>2, <1>3, <1>8, QHsmAssumption
      <4> QED BY <1>8, <3>1, <4>1, SameHierarchy DEF Inside
    <3> QED BY <1>1, <1>8, <2>2, <3>1, <3>2, NothingEntered
  <2>4. (Chain(path, ip) /\ path[ip] # TOP)'
    <3>1. PICK q : q = path'
      OBVIOUS
    <3>2. PICK n : n = ip
      OBVIOUS
    <3>3. PICK m : m = n + 1
      OBVIOUS
    <3>4. Chain(q, m) /\ m > 0 /\ m \in 0..m /\ m - 1 = n
      BY <1>2, <1>5, <3>1, <3>2, <3>3, QHsmAssumption
    <3>5. Chain(q, n) /\ q[n] # TOP
      BY <3>4, ChainCut
    <3> QED BY <1>8, <3>1, <3>2, <3>5, SameHierarchy
  <2>5. Entering'
    BY <1>1, <1>2, <1>4, <1>8, <2>3, <2>4, SameHierarchy, QHsmAssumption DEF Entering
  <2>6. AtRest' /\ Exiting'
    BY <1>8 DEF AtRest, Exiting
  <2> QED BY <1>6, <1>7, <2>5, <2>6
<1>9. CASE up # s
  <2>1. ip' = ip + 1 /\ pc' = "store"
    BY <1>9
  <2>2. (Chain(path, ip) /\ Covers(path, ip))'
    BY <1>5, <2>1, SameHierarchy
  <2>3. \A k \in 0..ip + 1 : path'[k] # s
    <3>1. \A k \in 0..ip + 1 : k = ip + 1 \/ k \in 0..ip
      BY <1>2, QHsmAssumption
    <3> QED BY <1>1, <1>3, <1>9, <3>1
  <2>4. Logged(log, Ancestors(tran.from) \ Ancestors(s), {})'
    <3>1. (Ancestors(tran.from) \ Ancestors(s))' = Ancestors(tran.from) \ Ancestors(s)
      BY SameHierarchy
    <3> QED BY <1>1, <3>1
  <2>5. (t = super[s] /\ ip >= 1 /\ s \in State /\ s = tran.source /\ path[0] = tran.target)'
    BY <1>1, <1>2, <1>4, <2>1, SameHierarchy, QHsmAssumption
  <2>6. Exiting'
    BY <2>1, <2>2, <2>3, <2>4, <2>5 DEF Exiting
  <2>7. AtRest' /\ Entering'
    BY <2>1 DEF AtRest, Entering
  <2> QED BY <1>6, <1>7, <2>6, <2>7
<1> HIDE DEF up
<1> QED BY <1>8, <1>9

(* The source is not around the target: it is exited.                      *)
LEMMA ExitSourceStep == ASSUME HsmInv, ExitSource PROVE HsmInv'
<1> USE DEF ExitSource, Exit, HsmInv
<1>1. /\ Hierarchy /\ s \in State /\ s \in 0..N_STATES /\ s = tran.source /\ path[0] = tran.target
      /\ super[s] \in 0..N_STATES /\ tran.from \in 0..N_STATES /\ s \in Ancestors(tran.from)
      /\ t = super[s] /\ ip >= 1 /\ Chain(path, ip) /\ Covers(path, ip)
      /\ \A k \in 0..ip : path[k] # s
      /\ Logged(log, Ancestors(tran.from) \ Ancestors(s), {})
  BY Hierarchical DEF Typed, Exiting, InTransition
<1>2. Logged(log', Ancestors(tran.from) \ Ancestors(super[s]), {})
  BY <1>1, ExitOne
<1>3. s \notin Ancestors(path[0])
  BY <1>1, Hierarchical DEF Covers
<1>4. t \in Ancestors(super[s]) /\ \A y \in Ancestors(s) \ Ancestors(t) : y \notin Ancestors(path[0])
  BY <1>1, <1>3, Hierarchical
<1>5. Typed'
  BY <1>1, SameHierarchy DEF Typed
<1>6. AtRest' /\ InTransition'
  BY SameHierarchy DEF AtRest, InTransition
<1>7. (Chain(path, ip) /\ Covers(path, ip))'
  BY <1>1, SameHierarchy
<1>8. Logged(log, Ancestors(tran.from) \ Ancestors(t), {})'
  <2>1. (Ancestors(tran.from) \ Ancestors(t))' = Ancestors(tran.from) \ Ancestors(t)
    BY SameHierarchy
  <2> QED BY <1>1, <1>2, <2>1
<1>9. (/\ t \in Ancestors(super[s]) /\ path[ip] = TOP
       /\ \A y \in Ancestors(s) \ Ancestors(t) : y \notin Ancestors(path[0]))'
  BY <1>4, SameHierarchy
<1>10. Exiting'
  BY <1>1, <1>7, <1>8, <1>9 DEF Exiting
<1> QED BY <1>5, <1>6, <1>10 DEF Entering

(* t is on the path: the states below it are entered; or it is exited too. *)
LEMMA FindLCAStep == ASSUME HsmInv, FindLCA PROVE HsmInv'
<1> USE DEF FindLCA, ExitToSuper, HsmInv
<1>1. /\ Hierarchy /\ s \in State /\ s \in 0..N_STATES /\ s = tran.source /\ path[0] = tran.target
      /\ super[s] \in 0..N_STATES /\ tran.from \in 0..N_STATES /\ s \in Ancestors(tran.from)
      /\ path[0] \in State /\ path[0] \in 0..N_STATES /\ t \in 0..N_STATES
      /\ t \in Ancestors(super[s]) /\ Chain(path, ip) /\ Covers(path, ip) /\ path[ip] = TOP
      /\ \A y \in Ancestors(s) \ Ancestors(t) : y \notin Ancestors(path[0])
      /\ Logged(log, Ancestors(tran.from) \ Ancestors(t), {})
  BY Hierarchical DEF Typed, Exiting, InTransition
<1>2. ip \in 0..N_STATES /\ \A k \in 0..ip : path[k] \in 0..N_STATES
  BY <1>1, ChainBound
<1>3. t \in Ancestors(s) /\ Ancestors(t) \subseteq Ancestors(super[s])
  BY <1>1, Hierarchical, AncestorsTransitive
<1>4. ASSUME NEW k \in 0..ip, path[k] = t, ip' = k - 1, pc' = "enter", UNCHANGED <<t, temp, log>>
      PROVE  HsmInv'
  <2>1. t \in Ancestors(path[0])
    BY <1>1, <1>4 DEF Chain
  <2>2. path[0] # s
    <3>1. s \in Ancestors(s) /\ s \notin Ancestors(super[s]) /\ path[0] \in Ancestors(path[0])
      BY <1>1, Hierarchical
    <3> QED BY <1>1, <1>3, <3>1
  <2>3. Scope(tran) = Ancestors(t)
    BY <1>1, <1>3, <2>1, <2>2, ScopeIs
  <2>4. k > 0 => Chain(path, k - 1) /\ path[k - 1] # TOP /\ path[k] = super[path[k - 1]]
    BY <1>1, <1>4, ChainCut
  <2>5. k \in Nat /\ ip' \in -1..N_STATES /\ (ip' = -1 => k = 0) /\ (ip' # -1 => k > 0 /\ ip' = k - 1)
    BY <1>2, <1>4, QHsmAssumption
  <2>6. EnteredTo(Inside)'
    <3>1. PICK z : z = t
      OBVIOUS
    <3>2. Inside' = z
      BY <1>4, <2>4, <2>5, <3>1, SameHierarchy DEF Inside
    <3> QED BY <1>1, <1>4, <2>3, <3>1, <3>2, NothingEntered
  <2>7. (ip >= 0 => Chain(path, ip) /\ path[ip] # TOP)'
    BY <1>4, <2>4, <2>5, SameHierarchy
  <2>8. 0 \in DOMAIN path
    BY <1>1, <1>2, QHsmAssumption DEF Chain
  <2>9. Entering'
    BY <1>1, <1>4, <2>5, <2>6, <2>7, <2>8, SameHierarchy DEF Entering
  <2>10. Typed' /\ AtRest' /\ InTransition' /\ Exiting'
    BY <1>4, SameHierarchy DEF Typed, AtRest, InTransition, Exiting
  <2> QED BY <2>9, <2>10
<1>5. ASSUME \A k \in 0..ip : path[k] # t, ExitToSuper(t), UNCHANGED <<ip, pc>>
      PROVE  HsmInv'
  <2>1. t \notin Ancestors(path[0]) /\ t # TOP
    <3>1. ip \in 0..ip
      BY <1>2, QHsmAssumption
    <3>2. t # TOP
      BY <1>1, <1>5, <3>1
    <3> QED BY <1>1, <1>5, <3>2, Hierarchical DEF Covers
  <2>2. t \in State /\ super[t] \in 0..N_STATES /\ Ancestors(t) = {t} \cup Ancestors(super[t])
    BY <1>1, <2>1, Hierarchical
  <2>3. Logged(log', Ancestors(tran.from) \ Ancestors(super[t]), {})
    <3>1. t \in Ancestors(tran.from)
      BY <1>1, <1>3, AncestorsTransitive
    <3> QED BY <1>1, <1>5, <2>2, <3>1, ExitOne
  <2>4. super[t] \in Ancestors(super[s])
    BY <1>3, <2>2, Hierarchical, <1>1
  <2>5. \A y \in Ancestors(s) \ Ancestors(super[t]) : y \notin Ancestors(path[0])
    BY <1>1, <2>1, <2>2
  <2>6. Typed'
    BY <1>5, <2>2, SameHierarchy DEF Typed
  <2>7. AtRest' /\ InTransition'
    BY <1>5, SameHierarchy DEF AtRest, InTransition
  <2>8. (Chain(path, ip) /\ Covers(path, ip) /\ path[ip] = TOP)'
    BY <1>1, <1>5, SameHierarchy
  <2>9. t' = super[t] /\ Logged(log, Ancestors(tran.from) \ Ancestors(t), {})'
    <3>1. (Ancestors(tran.from) \ Ancestors(t))' = Ancestors(tran.from) \ Ancestors(super[t])
      BY <1>5, SameHierarchy
    <3> QED BY <1>5, <2>3, <3>1
  <2>10. (/\ t \in Ancestors(super[s])
          /\ \A y \in Ancestors(s) \ Ancestors(t) : y \notin Ancestors(path[0]))'
    BY <2>4, <2>5, <2>9, SameHierarchy
  <2>11. Exiting'
    BY <1>1, <1>5, <2>8, <2>9, <2>10 DEF Exiting
  <2> QED BY <1>5, <2>6, <2>7, <2>11 DEF Entering
<1> QED BY <1>4, <1>5

(* Entering y, inside all states that were entered, enters it as well.     *)
LEMMA EnterOne ==
  ASSUME Hierarchy, NEW y \in State, NEW E, IsFiniteSet(E), NEW R, NEW l,
         R \subseteq Ancestors(super[y]), Logged(l, E, Ancestors(super[y]) \ R)
  PROVE  /\ R \subseteq Ancestors(y)
         /\ Logged(Append(l, <<"entry", y>>), E, Ancestors(y) \ R)
<1> DEFINE Y == Ancestors(super[y]) \ R
<1>1. /\ super[y] \in 0..N_STATES /\ super[y] < y /\ y \in Nat
      /\ Ancestors(y) = {y} \cup Ancestors(super[y]) /\ Ancestors(super[y]) \subseteq 0..super[y]
      /\ IsFiniteSet(Ancestors(super[y]))
  BY Hierarchical, AncestorsCount, QHsmAssumption
<1>2. IsFiniteSet(Y)
  BY <1>1, FS_Difference
<1>3. Y \subseteq Nat /\ \A z \in Y : y > z
  BY <1>1, QHsmAssumption
<1>4. Y \cup {y} = Ancestors(y) \ R
  BY <1>1, QHsmAssumption
<1> HIDE DEF Y
<1>5. Logged(Append(l, <<"entry", y>>), E, Y \cup {y})
  BY <1>1, <1>2, <1>3, LoggedEntry DEF Y
<1> QED BY <1>1, <1>4, <1>5

(* The next state inward is entered.                                       *)
LEMMA EnterPathStep == ASSUME HsmInv, EnterPath PROVE HsmInv'
<1> USE DEF EnterPath, Enter, HsmInv
<1>1. /\ Hierarchy /\ ip \in 0..N_STATES /\ 0 \in DOMAIN path /\ path[0] \in State
      /\ path[0] \in 0..N_STATES /\ tran.from \in 0..N_STATES
      /\ Leaf(path[0]) = Leaf(tran.target) /\ Chain(path, ip) /\ path[ip] # TOP
      /\ EnteredTo(Inside)
  BY Hierarchical, QHsmAssumption DEF Typed, Entering
<1>2. path[ip] \in State /\ super[path[ip]] \in 0..N_STATES
  <2>1. \A k \in 0..ip : path[k] \in 0..N_STATES
    BY <1>1, ChainBound
  <2>2. ip \in 0..ip
    BY <1>1, QHsmAssumption
  <2> QED BY <1>1, <2>1, <2>2, Hierarchical
<1>3. IsFiniteSet(ToExit)
  BY <1>1, AncestorsCount, FS_Difference DEF ToExit
<1>4. Inside = super[path[ip]]
  BY <1>1, QHsmAssumption DEF Inside
<1>5. /\ Scope(tran) \subseteq Ancestors(path[ip])
      /\ Logged(log', ToExit, Ancestors(path[ip]) \ Scope(tran))
  BY <1>1, <1>2, <1>3, <1>4, EnterOne DEF EnteredTo, ToEnter
<1>6. /\ ip' \in -1..N_STATES
      /\ ip' >= 0 => Chain(path, ip') /\ path[ip'] # TOP /\ path[ip] = super[path[ip']]
  <2>1. ip \in 0..ip /\ (ip > 0 <=> ip' >= 0) /\ ip' \in -1..N_STATES
    BY <1>1, QHsmAssumption
  <2> QED BY <1>1, <2>1, ChainCut
<1>7. Inside' = path[ip]
  BY <1>1, <1>6, SameHierarchy, QHsmAssumption DEF Inside
<1>8. EnteredTo(Inside)'
  <2>1. ToExit' = ToExit /\ Scope(tran)' = Scope(tran) /\ Ancestors(Inside)' = Ancestors(path[ip])
    BY <1>7, SameHierarchy DEF ToExit
  <2>2. ToEnter(Inside)' = Ancestors(path[ip]) \ Scope(tran)
    BY <2>1 DEF ToEnter
  <2> QED BY <1>5, <2>1, <2>2 DEF EnteredTo
<1>9. Typed'
  BY <1>2, SameHierarchy DEF Typed
<1>10. AtRest' /\ InTransition' /\ Exiting'
  BY SameHierarchy DEF AtRest, InTransition, Exiting
<1>11. (ip >= 0 => Chain(path, ip) /\ path[ip] # TOP)'
  BY <1>6, SameHierarchy
<1>12. Entering'
  BY <1>1, <1>6, <1>8, <1>11, SameHierarchy DEF Entering
<1> QED BY <1>9, <1>10, <1>12

(* The log of a transition holds no answer of QHsm_isIn.                   *)
LEMMA LoggedNoAnswer ==
  ASSUME NEW l, NEW X, IsFiniteSet(X), NEW Y, IsFiniteSet(Y), Logged(l, X, Y), NEW q
  PROVE  l # <<<<"in", q>>>> /\ l # <<<<"out", q>>>>
<1> DEFINE a == Told("exit", Up(X))
           b == Told("entry", Down(Y))
<1>1. PICK S : Up(X) \in Seq(S)
  BY EnumerationSeq
<1>2. PICK T : Down(Y) \in Seq(T)
  BY EnumerationSeq
<1> DEFINE U == {"exit"} \X S \cup {"entry"} \X T
<1>3. a \in Seq({"exit"} \X S) /\ b \in Seq({"entry"} \X T)
  BY <1>1, <1>2, ToldSeq
<1>4. l = a \o b
  BY DEF Logged
<1> HIDE DEF a, b
<1>5. a \o b \in Seq(U)
  BY <1>3
<1>6. ASSUME NEW w, l = <<<<w, q>>>> PROVE w = "exit" \/ w = "entry"
  <2>1. Len(l) = 1 /\ l[1] = <<w, q>>
    BY <1>6
  <2>2. l[1] \in U
    BY <1>4, <1>5, <2>1
  <2> QED BY <2>1, <2>2
<1> QED BY <1>6

(* The initial transition of the state entered, or the end.                *)
LEMMA InitialTranStep == ASSUME HsmInv, InitialTran PROVE HsmInv'
<1> USE DEF InitialTran, Return, HsmInv
<1>1. /\ Hierarchy /\ ip = -1 /\ 0 \in DOMAIN path /\ path[0] \in State /\ TOP \in 0..N_STATES
      /\ path[0] \in 0..N_STATES /\ tran.from \in 0..N_STATES /\ tran.target \in State
      /\ Leaf(path[0]) = Leaf(tran.target) /\ EnteredTo(path[0])
  BY Hierarchical DEF Typed, Entering, InTransition, Inside
<1>2. CASE initial[path[0]] # TOP
  <2>1. initial[path[0]] \in State /\ path[0] \in Ancestors(initial[path[0]]) \ {initial[path[0]]}
    BY <1>1, <1>2, InitialInward
  <2>2. Leaf(initial[path[0]]) = Leaf(tran.target)
    BY <1>1, <1>2, LeafRec
  <2>3. initial[path[0]] \in 0..N_STATES
    BY <1>1, <2>1, Hierarchical
  <2>4. Typed'
    BY <1>1, <1>2, <2>3, SameHierarchy DEF Typed
  <2>5. AtRest' /\ InTransition' /\ Exiting'
    BY <1>2, SameHierarchy DEF AtRest, InTransition, Exiting
  <2>6. EnteredTo(t)'
    <3>1. ToExit' = ToExit /\ Scope(tran)' = Scope(tran) /\ Ancestors(t)' = Ancestors(path[0])
      BY <1>2, SameHierarchy DEF ToExit
    <3>2. ToEnter(t)' = ToEnter(path[0])
      BY <3>1 DEF ToEnter
    <3> QED BY <1>1, <3>1, <3>2 DEF EnteredTo
  <2>7. Entering'
    BY <1>1, <1>2, <2>1, <2>2, <2>6, SameHierarchy DEF Entering
  <2> QED BY <2>4, <2>5, <2>7
<1>3. CASE initial[path[0]] = TOP
  <2>1. Leaf(path[0]) = path[0]
    BY <1>1, <1>3, LeafRec
  <2>2. log = Expected(tran)
    BY <1>1, <2>1 DEF EnteredTo, Logged, ToExit, ToEnter, Expected
  <2>3. state' = path[0] /\ log' = log /\ tran' = tran /\ pc' = "stable"
    BY <1>1, <1>3, Hierarchical
  <2>4. TransitionExact'
    BY <1>1, <2>1, <2>2, <2>3, SameHierarchy DEF TransitionExact
  <2>5. IsInExact'
    <3>1. IsFiniteSet(ToExit) /\ IsFiniteSet(ToEnter(path[0]))
      BY <1>1, AncestorsCount, FS_Difference DEF ToExit, ToEnter
    <3>2. \A q : log # <<<<"in", q>>>> /\ log # <<<<"out", q>>>>
      BY <1>1, <3>1, LoggedNoAnswer DEF EnteredTo
    <3> QED BY <2>3, <3>2 DEF IsInExact
  <2>6. Typed'
    BY <1>1, <1>3, Hierarchical, SameHierarchy DEF Typed
  <2>7. AtRest'
    BY <1>1, <1>3, <2>4, <2>5, Hierarchical DEF AtRest
  <2> QED BY <2>3, <2>6, <2>7 DEF InTransition, Exiting, Entering
<1> QED BY <1>2, <1>3

(* The target of the initial transition begins the next path.              *)
LEMMA DrillTargetStep == ASSUME HsmInv, DrillTarget PROVE HsmInv'
<1> USE DEF DrillTarget, HsmInv
<1>1. /\ Hierarchy /\ ip = -1 /\ temp \in State /\ temp \in 0..N_STATES
      /\ t \in Ancestors(super[temp]) /\ super[temp] \in 0..N_STATES /\ temp # TOP
      /\ Leaf(temp) = Leaf(tran.target) /\ EnteredTo(t)
      /\ DOMAIN path \subseteq 0..(MAX_NEST - 1)
  BY Hierarchical DEF Typed, Entering, InTransition
<1>2. DOMAIN path' = DOMAIN path \cup {0} /\ path'[0] = temp
  BY DEF Put
<1>3. Typed'
  BY <1>1, SameHierarchy DEF Typed
<1>4. AtRest' /\ InTransition' /\ Exiting'
  BY <1>1, <1>2, SameHierarchy, QHsmAssumption DEF AtRest, InTransition, Exiting
<1>5. Chain(path', 0)
  BY <1>1, <1>2, ChainStart
<1>6. EnteredTo(t)'
  BY <1>1, SameHierarchy DEF EnteredTo, ToExit, ToEnter
<1>7. (Chain(path, ip) /\ path[ip] # TOP /\ temp = super[path[ip]] /\ t \in Ancestors(temp))'
  BY <1>1, <1>2, <1>5, SameHierarchy
<1>8. (path[0] \in State /\ Leaf(path[0]) = Leaf(tran.target))'
  BY <1>1, <1>2, SameHierarchy
<1>9. Entering'
  BY <1>6, <1>7, <1>8 DEF Entering
<1> QED BY <1>3, <1>4, <1>9

(* The states between it and the state entered follow.                     *)
LEMMA DrillClimbStep == ASSUME HsmInv, DrillClimb PROVE HsmInv'
<1> USE DEF DrillClimb, HsmInv
<1>1. /\ Hierarchy /\ Chain(path, ip) /\ path[ip] # TOP
      /\ temp = super[path[ip]] /\ t \in Ancestors(temp) /\ temp \in 0..N_STATES
      /\ path[0] \in State /\ path[0] \in 0..N_STATES
      /\ Leaf(path[0]) = Leaf(tran.target) /\ EnteredTo(t)
      /\ DOMAIN path \subseteq 0..(MAX_NEST - 1)
  BY Hierarchical DEF Typed, Entering, InTransition
<1>2. ip \in 0..N_STATES /\ ip + 1 \in 0..N_STATES /\ ip + 1 < MAX_NEST
  BY <1>1, ChainBound
<1>3. EnteredTo(t)'
  <2>1. /\ ToExit' = ToExit /\ Scope(tran)' = Scope(tran) /\ Ancestors(t)' = Ancestors(t)
        /\ log' = log
    BY SameHierarchy DEF ToExit
  <2>2. ToEnter(t)' = ToEnter(t)
    BY <2>1 DEF ToEnter
  <2> QED BY <1>1, <2>1, <2>2 DEF EnteredTo
<1>4. CASE temp # t
  <2>1. ip' = ip + 1 /\ path' = Put(ip + 1, temp) /\ temp' = super[temp] /\ pc' = pc
    BY <1>4
  <2>2. /\ DOMAIN path' = DOMAIN path \cup {ip + 1} /\ path'[ip + 1] = temp
        /\ \A k \in 0..ip : k \in DOMAIN path' /\ path'[k] = path[k]
    <3>1. \A k \in 0..ip : k # ip + 1 /\ k \in DOMAIN path
      BY <1>1, <1>2, QHsmAssumption DEF Chain
    <3> QED BY <2>1, <3>1 DEF Put
  <2>3. path'[0] = path[0]
    BY <1>2, <2>2, QHsmAssumption
  <2>4. Chain(path', ip + 1)
    <3>1. PICK p : p = path
      OBVIOUS
    <3>2. PICK q : q = path'
      OBVIOUS
    <3>3. PICK n : n = ip
      OBVIOUS
    <3>4. /\ Chain(p, n) /\ p[0] \in 0..N_STATES /\ p[n] # TOP
          /\ (\A k \in 0..n : k \in DOMAIN q /\ q[k] = p[k]) /\ n + 1 \in DOMAIN q /\ q[n + 1] = super[p[n]]
      BY <1>1, <2>2, <3>1, <3>2, <3>3
    <3>5. Chain(q, n + 1)
      BY <1>1, <3>4, ChainGrow
    <3> QED BY <3>2, <3>3, <3>5
  <2>5. temp \in State /\ super[temp] \in 0..N_STATES /\ t \in Ancestors(super[temp]) /\ temp # TOP
    BY <1>1, <1>4, Hierarchical
  <2>6. Typed'
    BY <2>1, <2>5, SameHierarchy DEF Typed
  <2>7. AtRest' /\ InTransition' /\ Exiting'
    <3>1. DOMAIN path' \subseteq 0..(MAX_NEST - 1)
      BY <1>1, <1>2, <2>2, QHsmAssumption
    <3> QED BY <2>1, <3>1, SameHierarchy DEF AtRest, InTransition, Exiting
  <2>8. (Chain(path, ip) /\ path[ip] # TOP /\ temp = super[path[ip]] /\ t \in Ancestors(temp))'
    BY <2>1, <2>2, <2>4, <2>5, SameHierarchy
  <2>9. (path[0] \in State /\ Leaf(path[0]) = Leaf(tran.target))'
    BY <1>1, <2>3, SameHierarchy
  <2>10. Entering'
    BY <1>3, <2>1, <2>8, <2>9 DEF Entering
  <2> QED BY <2>6, <2>7, <2>10
<1>5. CASE temp = t
  <2>1. temp' = path[0] /\ pc' = "enter" /\ ip' = ip /\ path' = path
    BY <1>5
  <2>2. Typed'
    BY <1>1, <2>1, SameHierarchy DEF Typed
  <2>3. AtRest' /\ InTransition' /\ Exiting'
    BY <2>1, SameHierarchy DEF AtRest, InTransition, Exiting
  <2>4. Inside' = t'
    <3>1. ip' # -1 /\ super'[path'[ip']] = super[path[ip]] /\ t' = t
      BY <1>2, <2>1, SameHierarchy, QHsmAssumption
    <3> QED BY <1>1, <1>5, <3>1 DEF Inside
  <2>5. EnteredTo(Inside)'
    BY <1>3, <2>4 DEF EnteredTo, ToEnter
  <2>6. 0 \in DOMAIN path
    BY <1>1, <1>2, QHsmAssumption DEF Chain
  <2>7. Entering'
    BY <1>1, <1>2, <2>1, <2>5, <2>6, SameHierarchy, QHsmAssumption DEF Entering
  <2> QED BY <2>2, <2>3, <2>7
<1> QED BY <1>4, <1>5

(* A query begins at the active state.                                     *)
LEMMA QHsm_isInStep == ASSUME HsmInv, QHsm_isIn PROVE HsmInv'
<1> USE DEF QHsm_isIn, HsmInv
<1>1. /\ Hierarchy /\ state = temp /\ path = NoPath /\ ip = -1 /\ state \in 0..N_STATES
      /\ state \in Ancestors(state) /\ t' \in 0..N_STATES
      /\ NoTran \in [from : 0..N_STATES, source : 0..N_STATES, target : 0..N_STATES]
  BY Hierarchical DEF Typed, AtRest, NoTran
<1>2. Typed'
  BY <1>1, SameHierarchy DEF Typed
<1>3. AtRest'
  BY <1>1, SameHierarchy DEF AtRest
<1> QED BY <1>2, <1>3 DEF InTransition, Exiting, Entering

(* It goes on with the superstate.                                         *)
LEMMA IsInUpStep == ASSUME HsmInv, IsInUp PROVE HsmInv'
<1> USE DEF IsInUp, HsmInv
<1>1. /\ Hierarchy /\ path = NoPath /\ ip = -1 /\ tran = NoTran
      /\ temp \in Ancestors(state) /\ state \in 0..N_STATES
      /\ t \in Ancestors(state) <=> t \in Ancestors(temp)
      /\ temp \in State /\ super[temp] \in 0..N_STATES /\ temp \in 0..N_STATES
      /\ Ancestors(temp) = {temp} \cup Ancestors(super[temp])
  BY Hierarchical DEF Typed, AtRest
<1>2. super[temp] \in Ancestors(state)
  BY <1>1, AncestorsTransitive, Hierarchical
<1>3. t \in Ancestors(state) <=> t \in Ancestors(super[temp])
  BY <1>1
<1>4. Typed'
  BY <1>1, SameHierarchy DEF Typed
<1>5. AtRest'
  BY <1>1, <1>2, <1>3, SameHierarchy DEF AtRest
<1> QED BY <1>4, <1>5 DEF InTransition, Exiting, Entering

(* It has found the state, or passed the top state.                        *)
LEMMA IsInReturnStep == ASSUME HsmInv, IsInReturn PROVE HsmInv'
<1> USE DEF IsInReturn, Return, HsmInv
<1>1. /\ Hierarchy /\ tran = NoTran /\ temp \in Ancestors(state) /\ state \in 0..N_STATES
      /\ t \in Ancestors(state) <=> t \in Ancestors(temp)
      /\ temp \in 0..N_STATES /\ temp \in Ancestors(temp) /\ Ancestors(TOP) = {TOP} /\ TOP \in 0..N_STATES
  BY Hierarchical DEF Typed, AtRest
<1>2. temp = t <=> t \in Ancestors(state)
  BY <1>1
<1>3. IsInExact'
  <2>1. \A q \in 0..N_STATES : /\ log' = <<<<"in", q>>>>  => q = t /\ temp = t
                               /\ log' = <<<<"out", q>>>> => q = t /\ temp # t
    OBVIOUS
  <2> QED BY <1>2, <2>1, SameHierarchy DEF IsInExact
<1>4. TransitionExact'
  BY <1>1 DEF TransitionExact, NoTran
<1>5. Typed'
  BY <1>1, SameHierarchy DEF Typed
<1>6. AtRest'
  BY <1>3, <1>4 DEF AtRest
<1> QED BY <1>5, <1>6 DEF InTransition, Exiting, Entering

(* A step of something else.                                                *)
LEMMA HsmStutter == ASSUME HsmInv, UNCHANGED hsmVars PROVE HsmInv'
<1> USE DEF HsmInv, hsmVars
<1>1. Typed'
  BY SameHierarchy DEF Typed
<1>2. AtRest'
  BY SameHierarchy DEF AtRest, TransitionExact, IsInExact
<1>3. InTransition' /\ Exiting'
  BY SameHierarchy DEF InTransition, Exiting
<1>4. (\A x : EnteredTo(x)' <=> EnteredTo(x)) /\ Inside' = Inside
  BY SameHierarchy DEF EnteredTo, ToExit, ToEnter, Inside
<1>5. Entering'
  BY <1>4, SameHierarchy DEF Entering
<1> QED BY <1>1, <1>2, <1>3, <1>5

(* Every step of the processor preserves the invariant.                    *)
LEMMA HsmInvariance == ASSUME HsmInv, [HsmNext]_hsmVars PROVE HsmInv'
<1>1. CASE QHsm_dispatch
  BY <1>1, QHsm_dispatchStep
<1>2. CASE QHsm_isIn
  BY <1>2, QHsm_isInStep
<1>3. CASE QHsm_init \/ PassUp \/ NoTransition \/ TakeTransition
  BY <1>3, QHsm_initStep, PassUpStep, NoTransitionStep, TakeTransitionStep
<1>4. CASE ExitToSource \/ StorePath \/ ExitSource \/ FindLCA
  BY <1>4, ExitToSourceStep, StorePathStep, ExitSourceStep, FindLCAStep
<1>5. CASE Classify
  BY <1>5, SelfOrSiblingStep, ToSubstateStep, ToSuperstateStep, FarTargetStep DEF Classify
<1>6. CASE EnterPath \/ InitialTran \/ DrillTarget \/ DrillClimb
  BY <1>6, EnterPathStep, InitialTranStep, DrillTargetStep, DrillClimbStep
<1>7. CASE IsInUp \/ IsInReturn
  BY <1>7, IsInUpStep, IsInReturnStep
<1>8. CASE UNCHANGED hsmVars
  BY <1>8, HsmStutter
<1> QED BY <1>1, <1>2, <1>3, <1>4, <1>5, <1>6, <1>7, <1>8 DEF HsmNext, HsmStep

(* It holds in every state the processor can be in.                        *)
LEMMA HsmAlways == HsmSpec => []HsmInv
<1>1. HsmInv /\ [HsmNext]_hsmVars => HsmInv'
  BY HsmInvariance
<1> QED BY HsmInitInv, <1>1, PTL DEF HsmSpec

(* The path fits in any state that satisfies the invariant.                *)
LEMMA PathFits ==
  ASSUME HsmInv
  PROVE  DOMAIN path \subseteq 0..(MAX_NEST - 1) /\ ip < MAX_NEST /\ ip \in -1..N_STATES
<1>1. CASE pc \in {"ctor", "stable", "up", "isIn"}
  <2>1. path = << >> /\ ip = -1
    BY <1>1 DEF HsmInv, AtRest, NoPath
  <2> QED BY <2>1, QHsmAssumption
<1>2. CASE pc \in {"exit", "drill"}
  BY <1>2, QHsmAssumption DEF HsmInv, InTransition, Exiting, Entering
<1>3. CASE pc \in {"store", "lca", "climb"} \/ (pc = "enter" /\ ip # -1)
  <2>1. Hierarchy /\ Chain(path, ip) /\ path[0] \in 0..N_STATES
    BY <1>3, Hierarchical, QHsmAssumption DEF HsmInv, Typed, InTransition, Exiting, Entering
  <2>2. DOMAIN path \subseteq 0..(MAX_NEST - 1)
    BY <1>3 DEF HsmInv, InTransition
  <2> QED BY <2>1, <2>2, ChainBound, QHsmAssumption
<1>4. CASE pc = "enter" /\ ip = -1
  BY <1>4, QHsmAssumption DEF HsmInv, InTransition
<1>5. pc \in {"ctor", "stable", "up", "exit", "store", "lca", "enter", "drill", "climb", "isIn"}
  BY DEF HsmInv, Typed
<1> QED BY <1>1, <1>2, <1>3, <1>4, <1>5

---------------------------------------------------------------------------

(* Every variable of the processor keeps its type, whatever the machine.   *)
THEOREM ProcessorTypes == HsmSpec => []HsmTypeOK
<1>1. HsmInv => HsmTypeOK
  BY PathFits DEF HsmInv, Typed, Hierarchy, HsmTypeOK
<1> QED BY HsmAlways, <1>1, PTL

(* Whatever transition is taken from whatever active state of whatever     *)
(* hierarchy, QHsm_dispatch has exited exactly the states from the active  *)
(* one up to the least common ancestor, innermost first, has entered those *)
(* down to where the initial transitions lead, outermost first, and has    *)
(* made that state the active one.                                         *)
THEOREM TransitionsExact == HsmSpec => []TransitionExact
<1>1. HsmInv => TransitionExact
  BY DEF HsmInv, AtRest, TransitionExact
<1> QED BY HsmAlways, <1>1, PTL

(* If no state is nested deeper than QEP_MAX_NEST_DEPTH_, no write to      *)
(* path[] in qhsm_dis.c and qhsm_ini.c is outside of it.                   *)
THEOREM PathNeverOverrun == HsmSpec => []EntryPathFits
<1>1. HsmInv => EntryPathFits
  BY PathFits DEF EntryPathFits
<1> QED BY HsmAlways, <1>1, PTL

(* QHsm_isIn answers 1 for the active state and the states around it, and  *)
(* 0 for all others, in whatever hierarchy.                                *)
THEOREM QueriesExact == HsmSpec => []IsInExact
<1>1. HsmInv => IsInExact
  BY DEF HsmInv, AtRest, IsInExact
<1> QED BY HsmAlways, <1>1, PTL

---------------------------------------------------------------------------
(* Part 2: QEQueue.                                                        *)

(* The inductive invariant.                                                *)
QueueInv == TypeOK /\ ReadyIffEvents /\ HeadBehindUsed

(* What posting an event does.                                             *)
LEMMA PostFIFOEffect ==
  ASSUME NEW e \in Event, PostFIFO(e)
  PROVE  \/ Deliver(e) \/ Overflow
         \/ /\ frontEvt # NULL /\ nFree # 0
            /\ ring' = [ring EXCEPT ![head] = e]
            /\ head' = Dec(head) /\ UseEntry
            /\ UNCHANGED <<frontEvt, tail, ready, got, failed>>
  BY DEF PostFIFO

(* What posting an event at the front does.                                *)
LEMMA PostLIFOEffect ==
  ASSUME NEW e \in Event, PostLIFO(e)
  PROVE  \/ Deliver(e) \/ Overflow
         \/ /\ frontEvt # NULL /\ nFree # 0
            /\ tail' = Inc(tail)
            /\ ring' = [ring EXCEPT ![Inc(tail)] = frontEvt]
            /\ frontEvt' = e /\ UseEntry
            /\ UNCHANGED <<head, ready, got, failed>>
  BY DEF PostLIFO

(* Different entries that can be in use are different places of the ring.  *)
LEMMA Entries ==
  ASSUME TypeOK, qLen # 0
  PROVE  /\ \A k \in 0 .. qLen : Entry(k) \in Index
         /\ \A k \in 0 .. qLen, l \in 0 .. qLen :
              k < l /\ l < k + qLen => Entry(k) # Entry(l)
         /\ Entry(0) = tail
         /\ Entry(1) = Dec(tail)
         /\ Entry(qLen - 1) = Inc(tail)
         /\ \A k \in 0 .. qLen - 1 : Entry(k + 1) = Dec(Entry(k))
  BY QueueAssumption DEF TypeOK, Entry, Dec, Inc, Index

(* A post at the back into the ring buffer preserves the invariant.        *)
LEMMA StoreBack ==
  ASSUME QueueInv, NEW e \in Event, frontEvt # NULL, nFree # 0,
         ring' = [ring EXCEPT ![head] = e], head' = Dec(head), UseEntry,
         UNCHANGED <<frontEvt, tail, ready, got, failed>>
  PROVE  /\ QueueInv'
         /\ Used' = Used + 1 /\ Used \in 0 .. qLen - 1
         /\ \A k \in 0 .. Used - 1 : ring'[Entry(k)'] = ring[Entry(k)]
         /\ \A k \in 0 .. qLen : k = Used => ring'[Entry(k)'] = e
<1> USE DEF QueueInv
<1>1. qLen # 0 /\ qLen \in Nat /\ Used \in 0 .. qLen - 1 /\ nFree \in 1 .. qLen
  BY QueueAssumption DEF TypeOK, Used
<1>2. nFree' = nFree - 1 /\ Used' = Used + 1
  BY <1>1 DEF UseEntry, Used
<1>3. \A k : Entry(k)' = Entry(k)
  BY DEF Entry
<1>4. head = Entry(Used) /\ head \in Index /\ ring \in [Index -> Event \cup {NULL}]
  BY <1>1, Entries DEF HeadBehindUsed, TypeOK
<1>5. \A k \in 0 .. Used - 1 : Entry(k) \in Index /\ Entry(k) # head
  BY <1>1, <1>4, Entries
<1>6. ring'[head] = e /\ \A i \in Index : i # head => ring'[i] = ring[i]
  BY <1>4
<1>7. head' = Entry(Used)' /\ head' \in Index
  <2>1. Entry(Used)' = Entry(Used + 1)
    BY <1>2 DEF Entry
  <2> QED BY <1>1, <1>4, <2>1, Entries
<1>8. nMin' \in 0 .. qLen
  BY <1>1 DEF UseEntry, TypeOK
<1>9. TypeOK'
  BY <1>1, <1>2, <1>4, <1>7, <1>8 DEF TypeOK, Index
<1>10. \A k \in 0 .. qLen - 1 : k < Used' => ring'[Entry(k)'] \in Event
  BY <1>1, <1>2, <1>3, <1>4, <1>5, <1>6 DEF HeadBehindUsed
<1>11. HeadBehindUsed'
  BY <1>7, <1>10 DEF HeadBehindUsed
<1>12. ReadyIffEvents'
  BY DEF ReadyIffEvents
<1> QED BY <1>1, <1>2, <1>3, <1>4, <1>5, <1>6, <1>9, <1>11, <1>12

(* A post at the front moves the front event into the ring buffer and      *)
(* preserves the invariant.                                                *)
LEMMA StoreFront ==
  ASSUME QueueInv, NEW e \in Event, frontEvt # NULL, nFree # 0,
         tail' = Inc(tail), ring' = [ring EXCEPT ![Inc(tail)] = frontEvt],
         frontEvt' = e, UseEntry, UNCHANGED <<head, ready, got, failed>>
  PROVE  /\ QueueInv'
         /\ Used' = Used + 1 /\ Used \in 0 .. qLen - 1
         /\ \A k \in 0 .. Used - 1 : ring'[Entry(k + 1)'] = ring[Entry(k)]
         /\ ring'[Entry(0)'] = frontEvt
<1> USE DEF QueueInv
<1>1. qLen # 0 /\ qLen \in Nat /\ Used \in 0 .. qLen - 1 /\ nFree \in 1 .. qLen
  BY QueueAssumption DEF TypeOK, Used
<1>2. nFree' = nFree - 1 /\ Used' = Used + 1
  BY <1>1 DEF UseEntry, Used
<1>3. tail \in Index /\ tail' \in Index /\ ring \in [Index -> Event \cup {NULL}]
  BY <1>1 DEF TypeOK, Inc, Index
<1>4. Entry(0)' = tail' /\ \A k \in 0 .. qLen - 1 : Entry(k + 1)' = Entry(k)
  BY <1>1, <1>3 DEF Entry, Inc, Index
<1>5. \A k \in 0 .. Used - 1 : Entry(k) \in Index /\ Entry(k) # tail'
  BY <1>1, Entries
<1>6. ring'[tail'] = frontEvt /\ \A i \in Index : i # tail' => ring'[i] = ring[i]
  BY <1>3
<1>7. head' = Entry(Used)'
  <2>1. Entry(Used)' = Entry(Used)
    BY <1>1, <1>2, <1>3 DEF Entry, Inc, Index
  <2> QED BY <2>1 DEF HeadBehindUsed
<1>8. nMin' \in 0 .. qLen
  BY <1>1 DEF UseEntry, TypeOK
<1>9. ring' \in [Index -> Event \cup {NULL}] /\ frontEvt \in Event
  BY <1>3 DEF TypeOK
<1>10. TypeOK'
  BY <1>1, <1>2, <1>3, <1>8, <1>9 DEF TypeOK, Index
<1>11. ASSUME NEW k \in 0 .. qLen - 1, k < Used'
       PROVE  ring'[Entry(k)'] \in Event
  <2>1. CASE k = 0
    BY <1>4, <1>6, <1>9, <2>1
  <2>2. CASE k # 0
    <3>1. k - 1 \in 0 .. Used - 1 /\ k - 1 \in 0 .. qLen - 1 /\ k - 1 < Used
      BY <1>1, <1>2, <1>11, <2>2
    <3>2. Entry(k)' = Entry(k - 1)
      BY <1>1, <1>4, <3>1
    <3> QED BY <1>5, <1>6, <3>1, <3>2 DEF HeadBehindUsed
  <2> QED BY <2>1, <2>2
<1>12. frontEvt' # NULL
  BY QueueAssumption
<1>13. HeadBehindUsed'
  BY <1>7, <1>11, <1>12 DEF HeadBehindUsed
<1>14. ReadyIffEvents'
  BY <1>12 DEF ReadyIffEvents
<1>15. \A k \in 0 .. Used - 1 : ring'[Entry(k + 1)'] = ring[Entry(k)]
  BY <1>1, <1>4, <1>5, <1>6
<1> QED BY <1>1, <1>2, <1>4, <1>6, <1>10, <1>13, <1>14, <1>15

(* A get that refills the front event from the ring buffer preserves the   *)
(* invariant.                                                              *)
LEMMA Refill ==
  ASSUME QueueInv, frontEvt # NULL, nFree # qLen,
         frontEvt' = ring[tail], tail' = Dec(tail), nFree' = nFree + 1, got' = frontEvt,
         UNCHANGED <<ready, ring, head, nMin, failed>>
  PROVE  /\ QueueInv'
         /\ Used' = Used - 1 /\ Used \in 1 .. qLen
         /\ \A k \in 0 .. Used - 2 : ring'[Entry(k)'] = ring[Entry(k + 1)]
         /\ frontEvt' = ring[Entry(0)] /\ frontEvt' \in Event
<1> USE DEF QueueInv
<1>1. qLen # 0 /\ qLen \in Nat /\ Used \in 1 .. qLen /\ nFree \in 0 .. qLen - 1
  BY QueueAssumption DEF TypeOK, Used
<1>2. Used' = Used - 1
  BY <1>1 DEF Used
<1>3. tail \in Index /\ tail' \in Index
  BY <1>1 DEF TypeOK, Dec, Index
<1>4. \A k \in 0 .. qLen - 1 : Entry(k)' = Entry(k + 1)
  BY <1>1, <1>3 DEF Entry, Dec, Index
<1>5. frontEvt' = ring[Entry(0)] /\ frontEvt' \in Event
  BY <1>1, Entries DEF HeadBehindUsed
<1>6. frontEvt' # NULL
  BY <1>5, QueueAssumption
<1>7. TypeOK'
  BY <1>1, <1>3, <1>5 DEF TypeOK, Index
<1>8. head' = Entry(Used)'
  <2>1. Entry(Used)' = Entry(Used)
    BY <1>1, <1>2, <1>3 DEF Entry, Dec, Index
  <2> QED BY <2>1 DEF HeadBehindUsed
<1>9. \A k \in 0 .. qLen - 1 : k < Used' => ring'[Entry(k)'] \in Event
  BY <1>1, <1>2, <1>4 DEF HeadBehindUsed
<1>10. HeadBehindUsed' /\ ReadyIffEvents'
  BY <1>6, <1>8, <1>9 DEF HeadBehindUsed, ReadyIffEvents
<1> QED BY <1>1, <1>2, <1>4, <1>5, <1>7, <1>10

(* Delivering an event to an empty queue preserves the invariant.          *)
LEMMA DeliverInv ==
  ASSUME QueueInv, NEW e \in Event, Deliver(e)
  PROVE  QueueInv' /\ Used = 0 /\ Used' = 0
<1> USE DEF QueueInv, Deliver
<1>1. Used = 0 /\ Used' = 0 /\ e # NULL
  BY QueueAssumption DEF HeadBehindUsed, Used
<1>2. TypeOK' /\ ReadyIffEvents'
  BY <1>1 DEF TypeOK, ReadyIffEvents
<1>3. \A k : Entry(k)' = Entry(k)
  BY DEF Entry
<1>4. HeadBehindUsed'
  BY <1>1, <1>3 DEF HeadBehindUsed
<1> QED BY <1>1, <1>2, <1>4

(* A get that leaves the queue empty preserves the invariant.              *)
LEMMA TakeLastInv ==
  ASSUME QueueInv, frontEvt # NULL, nFree = qLen, frontEvt' = NULL, OnEmpty, got' = frontEvt,
         UNCHANGED <<tail, nFree, ring, head, nMin, failed>>
  PROVE  QueueInv' /\ Used = 0
<1> USE DEF QueueInv
<1>1. Used = 0 /\ Used' = 0
  BY QueueAssumption DEF Used
<1>2. TypeOK' /\ ReadyIffEvents'
  BY DEF TypeOK, ReadyIffEvents, OnEmpty
<1>3. \A k : Entry(k)' = Entry(k)
  BY DEF Entry
<1>4. HeadBehindUsed'
  BY <1>1, <1>3 DEF HeadBehindUsed
<1> QED BY <1>1, <1>2, <1>4

(* A step that leaves the queue alone preserves the invariant.             *)
LEMMA QueueKept ==
  ASSUME QueueInv, UNCHANGED queueVars, got' \in Event \cup {NULL}, failed' \in {0, 1}
  PROVE  QueueInv' /\ Contents' = Contents
<1>1. TypeOK' /\ ReadyIffEvents'
  BY DEF QueueInv, queueVars, TypeOK, ReadyIffEvents
<1>2. (\A k : Entry(k)' = Entry(k)) /\ Used' = Used
  BY DEF Entry, Used, queueVars
<1>3. HeadBehindUsed' /\ Contents' = Contents
  BY <1>2 DEF QueueInv, queueVars, HeadBehindUsed, Contents
<1> QED BY <1>1, <1>3 DEF QueueInv

-----------------------------------------------------------------------------
(* The steps on the sequence of events.                                    *)

(* The length and the elements of the contents.                            *)
LEMMA ContentsFacts ==
  ASSUME QueueInv
  PROVE  /\ Contents \in Seq(Event)
         /\ Len(Contents) = IF frontEvt = NULL THEN 0 ELSE 1 + Used
         /\ frontEvt # NULL => Contents # << >> /\ Contents[1] = frontEvt
         /\ \A i \in 2 .. Len(Contents) : Contents[i] = ring[Entry(i - 2)]
         /\ Used \in 0 .. qLen
<1>1. Used \in 0 .. qLen
  BY QueueAssumption DEF QueueInv, TypeOK, Used
<1> DEFINE n == IF frontEvt = NULL THEN 0 ELSE 1 + Used
<1>2. n \in Nat /\ Contents = [i \in 1 .. n |-> IF i = 1 THEN frontEvt ELSE ring[Entry(i - 2)]]
  BY <1>1 DEF Contents
<1>3. \A i \in 1 .. n : (IF i = 1 THEN frontEvt ELSE ring[Entry(i - 2)]) \in Event
  <2>1. n > 0 => frontEvt \in Event
    BY DEF QueueInv, TypeOK
  <2>2. ASSUME NEW i \in 2 .. n PROVE ring[Entry(i - 2)] \in Event
    <3>1. i - 2 \in 0 .. qLen - 1 /\ i - 2 < Used
      BY <1>1, <2>2, QueueAssumption
    <3> QED BY <3>1 DEF QueueInv, HeadBehindUsed
  <2> QED BY <1>2, <2>1, <2>2
<1>4. Contents \in Seq(Event) /\ Len(Contents) = n
  BY <1>2, <1>3
<1>5. Len(<< >>) = 0
  OBVIOUS
<1>6. frontEvt # NULL => n > 0 /\ n # 0
  BY <1>1
<1>7. frontEvt # NULL => Contents # << >>
  BY <1>4, <1>5, <1>6
<1>8. frontEvt # NULL => Contents[1] = frontEvt
  BY <1>2, <1>6
<1>9. \A i \in 2 .. n : Contents[i] = ring[Entry(i - 2)]
  BY <1>2
<1> QED BY <1>1, <1>4, <1>7, <1>8, <1>9

(* The concatenation to one element and Tail as functions.                 *)
LEMMA SeqForms ==
  ASSUME NEW S, NEW u \in Seq(S), NEW e \in S
  PROVE  /\ <<e>> \o u = [i \in 1 .. Len(u) + 1 |-> IF i = 1 THEN e ELSE u[i - 1]]
         /\ u # << >> => Tail(u) = [i \in 1 .. Len(u) - 1 |-> u[i + 1]]
<1>0. ASSUME NEW v \in Seq(S)
      PROVE  v = [i \in 1 .. Len(v) |-> v[i]] /\ Len(v) \in Nat
  OBVIOUS
<1>2. /\ <<e>> \in Seq(S) /\ Len(<<e>>) = 1 /\ <<e>>[1] = e
  OBVIOUS
<1>3. /\ <<e>> \o u \in Seq(S) /\ Len(<<e>> \o u) = Len(u) + 1
      /\ \A i \in 1 .. Len(u) + 1 : (<<e>> \o u)[i] = IF i = 1 THEN e ELSE u[i - 1]
  BY <1>0, <1>2
<1>4. u # << >> => /\ Tail(u) \in Seq(S) /\ Len(Tail(u)) = Len(u) - 1
                   /\ \A i \in 1 .. Len(u) - 1 : Tail(u)[i] = u[i + 1]
  OBVIOUS
<1>6. <<e>> \o u = [i \in 1 .. Len(u) + 1 |-> IF i = 1 THEN e ELSE u[i - 1]]
  BY <1>0, <1>3
<1>7. u # << >> => Tail(u) = [i \in 1 .. Len(u) - 1 |-> u[i + 1]]
  BY <1>0, <1>4
<1> QED BY <1>6, <1>7

(* The contents after a post at the back.                                  *)
LEMMA BackContents ==
  ASSUME QueueInv, NEW e \in Event, frontEvt # NULL, nFree # 0,
         ring' = [ring EXCEPT ![head] = e], head' = Dec(head), UseEntry,
         UNCHANGED <<frontEvt, tail, ready, got, failed>>
  PROVE  Contents' = Append(Contents, e)
<1>1. /\ Used' = Used + 1 /\ Used \in 0 .. qLen - 1
      /\ \A k \in 0 .. Used - 1 : ring'[Entry(k)'] = ring[Entry(k)]
      /\ \A k \in 0 .. qLen : k = Used => ring'[Entry(k)'] = e
  BY StoreBack
<1>2. Contents' = [i \in 1 .. 2 + Used |-> IF i = 1 THEN frontEvt ELSE ring'[Entry(i - 2)']]
  BY <1>1 DEF Contents
<1>3. Append(Contents, e) = [i \in 1 .. 2 + Used |-> IF i = 2 + Used THEN e ELSE Contents[i]]
  <2>1. Len(Contents) + 1 = 2 + Used /\ Contents \in Seq(Event)
    BY <1>1, ContentsFacts
  <2>2. Append(Contents, e) = [i \in 1 .. Len(Contents) + 1 |->
                                 IF i = Len(Contents) + 1 THEN e ELSE Contents[i]]
    <3>1. Append(Contents, e) \in Seq(Event) /\ Len(Append(Contents, e)) = Len(Contents) + 1
      BY <2>1
    <3>2. \A i \in 1 .. Len(Contents) + 1 :
            Append(Contents, e)[i] = IF i = Len(Contents) + 1 THEN e ELSE Contents[i]
      BY <2>1
    <3> DEFINE v == Append(Contents, e)
    <3> HIDE DEF v
    <3>3. v \in Seq(Event) => v = [i \in 1 .. Len(v) |-> v[i]]
      OBVIOUS
    <3> QED BY <3>1, <3>2, <3>3 DEF v
  <2> QED BY <2>1, <2>2
<1>4. ASSUME NEW i \in 1 .. 2 + Used
      PROVE  (IF i = 1 THEN frontEvt ELSE ring'[Entry(i - 2)'])
               = IF i = 2 + Used THEN e ELSE Contents[i]
  <2>1. CASE i = 1
    BY <1>1, <2>1, ContentsFacts
  <2>2. CASE i # 1 /\ i # 2 + Used
    <3>1. i - 2 \in 0 .. Used - 1 /\ i \in 2 .. Len(Contents)
      BY <1>1, <2>2, ContentsFacts
    <3> QED BY <1>1, <2>2, <3>1, ContentsFacts
  <2>3. CASE i = 2 + Used
    <3>1. i - 2 = Used /\ i - 2 \in 0 .. qLen /\ i # 1
      BY <1>1, <2>3, QueueAssumption
    <3> QED BY <1>1, <2>3, <3>1
  <2> QED BY <2>1, <2>2, <2>3
<1> QED BY <1>2, <1>3, <1>4

(* The contents after a post at the front.                                 *)
LEMMA FrontContents ==
  ASSUME QueueInv, NEW e \in Event, frontEvt # NULL, nFree # 0,
         tail' = Inc(tail), ring' = [ring EXCEPT ![Inc(tail)] = frontEvt],
         frontEvt' = e, UseEntry, UNCHANGED <<head, ready, got, failed>>
  PROVE  Contents' = <<e>> \o Contents
<1>1. /\ Used' = Used + 1 /\ Used \in 0 .. qLen - 1
      /\ \A k \in 0 .. Used - 1 : ring'[Entry(k + 1)'] = ring[Entry(k)]
      /\ ring'[Entry(0)'] = frontEvt
  BY StoreFront
<1>2. Contents' = [i \in 1 .. 2 + Used |-> IF i = 1 THEN e ELSE ring'[Entry(i - 2)']]
  BY <1>1, QueueAssumption DEF Contents
<1>3. <<e>> \o Contents = [i \in 1 .. 2 + Used |-> IF i = 1 THEN e ELSE Contents[i - 1]]
  BY ContentsFacts, SeqForms
<1>4. ASSUME NEW i \in 2 .. 2 + Used
      PROVE  ring'[Entry(i - 2)'] = Contents[i - 1]
  <2>1. CASE i = 2
    <3>1. i - 2 = 0 /\ i - 1 = 1
      BY <2>1
    <3> QED BY <1>1, <3>1, ContentsFacts
  <2>2. CASE i # 2
    <3>1. i - 3 \in 0 .. Used - 1 /\ i - 1 \in 2 .. Len(Contents) /\ i - 2 = (i - 3) + 1
          /\ (i - 1) - 2 = i - 3
      BY <1>1, <2>2, ContentsFacts
    <3>2. ring'[Entry(i - 2)'] = ring[Entry(i - 3)]
      BY <1>1, <3>1
    <3> QED BY <3>1, <3>2, ContentsFacts
  <2> QED BY <2>1, <2>2
<1>5. \A i \in 1 .. 2 + Used :
        (IF i = 1 THEN e ELSE ring'[Entry(i - 2)']) = (IF i = 1 THEN e ELSE Contents[i - 1])
  BY <1>1, <1>4
<1> QED BY <1>2, <1>3, <1>5

(* The contents after a get that leaves an event in the queue.             *)
LEMMA RefillContents ==
  ASSUME QueueInv, frontEvt # NULL, nFree # qLen,
         frontEvt' = ring[tail], tail' = Dec(tail), nFree' = nFree + 1, got' = frontEvt,
         UNCHANGED <<ready, ring, head, nMin, failed>>
  PROVE  Contents' = Tail(Contents)
<1>1. /\ Used' = Used - 1 /\ Used \in 1 .. qLen
      /\ \A k \in 0 .. Used - 2 : ring'[Entry(k)'] = ring[Entry(k + 1)]
      /\ frontEvt' = ring[Entry(0)] /\ frontEvt' # NULL
  BY Refill, QueueAssumption
<1>2. Contents' = [i \in 1 .. Used |-> IF i = 1 THEN frontEvt' ELSE ring'[Entry(i - 2)']]
  BY <1>1 DEF Contents
<1>3. Tail(Contents) = [i \in 1 .. Used |-> Contents[i + 1]]
  <2>1. Len(Contents) - 1 = Used /\ Contents \in Seq(Event) /\ Contents # << >> /\ frontEvt \in Event
    BY <1>1, ContentsFacts DEF QueueInv, TypeOK
  <2> QED BY <2>1, SeqForms
<1>4. ASSUME NEW i \in 1 .. Used
      PROVE  (IF i = 1 THEN frontEvt' ELSE ring'[Entry(i - 2)']) = Contents[i + 1]
  <2>0. i + 1 \in 2 .. Len(Contents) /\ (i + 1) - 2 = i - 1
    BY <1>1, ContentsFacts
  <2>1. Contents[i + 1] = ring[Entry(i - 1)]
    BY <2>0, ContentsFacts
  <2>2. CASE i = 1
    <3>1. i - 1 = 0
      BY <2>2
    <3> QED BY <1>1, <2>1, <2>2, <3>1
  <2>3. CASE i # 1
    <3>1. i - 2 \in 0 .. Used - 2 /\ (i - 2) + 1 = i - 1
      BY <1>1, <2>3
    <3> QED BY <1>1, <2>1, <2>3, <3>1
  <2> QED BY <2>2, <2>3
<1> QED BY <1>2, <1>3, <1>4

-----------------------------------------------------------------------------
(* The refinement.                                                         *)

AVars == <<Contents, qLen - nMin, got, failed>>

(* The contents of an empty queue and of a queue with one event.           *)
LEMMA SmallContents ==
  /\ frontEvt = NULL => Contents = << >>
  /\ frontEvt' = NULL => Contents' = << >>
  /\ frontEvt # NULL /\ Used = 0 => Contents = <<frontEvt>>
  /\ frontEvt' # NULL /\ Used' = 0 => Contents' = <<frontEvt'>>
  BY DEF Contents

(* The margin after an entry was used is the smallest room there ever was. *)
LEMMA PeakAfterUse ==
  ASSUME QueueInv, UseEntry, nFree # 0, frontEvt # NULL
  PROVE  /\ Len(Contents) <= qLen
         /\ qLen - nMin' = IF qLen - nMin < Len(Contents) THEN Len(Contents) ELSE qLen - nMin
<1>1. Len(Contents) = 1 + (qLen - nFree)
  BY ContentsFacts DEF Used
<1> QED BY <1>1, QueueAssumption DEF QueueInv, TypeOK, UseEntry

(* Delivering to an empty queue is a post at either end.                   *)
LEMMA DeliverStep ==
  ASSUME QueueInv, NEW e \in Event, Deliver(e), failed = 0
  PROVE  QueueInv' /\ Abstract!Grow(Append(Contents, e)) /\ Abstract!Grow(<<e>> \o Contents)
<1>1. QueueInv' /\ Used' = 0 /\ Contents = << >> /\ frontEvt' = e /\ e # NULL
  BY DeliverInv, SmallContents, QueueAssumption DEF Deliver
<1>2. Contents' = <<e>>
  BY <1>1, SmallContents
<1>3. Append(<< >>, e) = <<e>> /\ <<e>> \o << >> = <<e>> /\ Len(<< >>) = 0
  OBVIOUS
<1>4. qLen - nMin' = qLen - nMin /\ ~(qLen - nMin < 0) /\ 0 <= qLen
  BY QueueAssumption DEF Deliver, QueueInv, TypeOK
<1>5. got' = got /\ failed' = failed
  BY DEF Deliver
<1> QED BY <1>1, <1>2, <1>3, <1>4, <1>5 DEF Abstract!Grow

(* An overflow is a failing post.                                          *)
LEMMA OverflowStep ==
  ASSUME QueueInv, NEW u, Overflow, failed = 0
  PROVE  QueueInv' /\ Abstract!Grow(u)
<1>1. QueueInv' /\ Contents' = Contents
  BY QueueKept DEF Overflow, queueVars, QueueInv, TypeOK
<1>2. Len(Contents) > qLen
  BY ContentsFacts, QueueAssumption DEF Overflow, Used
<1>3. nMin' = nMin /\ got' = got /\ failed' = 1
  BY DEF Overflow, queueVars
<1> QED BY <1>1, <1>2, <1>3 DEF Abstract!Grow

(* A post at the back is a post at the back of the deque.                  *)
LEMMA PostFIFOStep ==
  ASSUME QueueInv, NEW e \in Event, PostFIFO(e)
  PROVE  QueueInv' /\ Abstract!PushBack
<1>0. failed = 0
  BY DEF PostFIFO
<1>1. CASE Deliver(e)
  BY <1>0, <1>1, DeliverStep DEF Abstract!PushBack
<1>2. CASE Overflow
  BY <1>0, <1>2, OverflowStep DEF Abstract!PushBack
<1>3. CASE /\ frontEvt # NULL /\ nFree # 0
           /\ ring' = [ring EXCEPT ![head] = e]
           /\ head' = Dec(head) /\ UseEntry
           /\ UNCHANGED <<frontEvt, tail, ready, got, failed>>
  <2>1. QueueInv' /\ Contents' = Append(Contents, e)
    BY <1>3, StoreBack, BackContents
  <2> QED BY <1>0, <1>3, <2>1, PeakAfterUse DEF Abstract!PushBack, Abstract!Grow
<1> QED BY <1>1, <1>2, <1>3, PostFIFOEffect

(* A post at the front is a post at the front of the deque.                *)
LEMMA PostLIFOStep ==
  ASSUME QueueInv, NEW e \in Event, PostLIFO(e)
  PROVE  QueueInv' /\ Abstract!PushFront
<1>0. failed = 0
  BY DEF PostLIFO
<1>1. CASE Deliver(e)
  BY <1>0, <1>1, DeliverStep DEF Abstract!PushFront
<1>2. CASE Overflow
  BY <1>0, <1>2, OverflowStep DEF Abstract!PushFront
<1>3. CASE /\ frontEvt # NULL /\ nFree # 0
           /\ tail' = Inc(tail)
           /\ ring' = [ring EXCEPT ![Inc(tail)] = frontEvt]
           /\ frontEvt' = e /\ UseEntry
           /\ UNCHANGED <<head, ready, got, failed>>
  <2>1. QueueInv' /\ Contents' = <<e>> \o Contents
    BY <1>3, StoreFront, FrontContents
  <2> QED BY <1>0, <1>3, <2>1, PeakAfterUse DEF Abstract!PushFront, Abstract!Grow
<1> QED BY <1>1, <1>2, <1>3, PostLIFOEffect

(* A get takes the front event of the deque.                               *)
LEMMA GetStep ==
  ASSUME QueueInv, Get
  PROVE  QueueInv' /\ Abstract!Take
<1>1. /\ failed = 0 /\ frontEvt # NULL /\ got' = frontEvt
      /\ Contents # << >> /\ Contents \in Seq(Event) /\ Contents[1] = frontEvt
      /\ nMin' = nMin /\ failed' = failed
  BY ContentsFacts DEF Get
<1>2. got' = Head(Contents)
  BY <1>1
<1>3. CASE nFree # qLen
  <2>1. QueueInv' /\ Contents' = Tail(Contents)
    BY <1>3, Refill, RefillContents DEF Get
  <2> QED BY <1>1, <1>2, <2>1 DEF Abstract!Take
<1>4. CASE nFree = qLen
  <2>1. QueueInv' /\ Used = 0 /\ frontEvt' = NULL
    BY <1>4, TakeLastInv DEF Get
  <2>2. Contents = <<frontEvt>> /\ Contents' = << >>
    BY <1>1, <2>1, SmallContents
  <2>3. Tail(<<frontEvt>>) = << >>
    OBVIOUS
  <2> QED BY <1>1, <1>2, <2>1, <2>2, <2>3 DEF Abstract!Take
<1> QED BY <1>3, <1>4

(* Every step of the queue is a step of the deque.                         *)
LEMMA QueueStep ==
  ASSUME QueueInv, [Next]_vars
  PROVE  QueueInv' /\ [Abstract!Next]_AVars
<1>1. CASE \E e \in Event : PostFIFO(e)
  BY <1>1, PostFIFOStep DEF Abstract!Next
<1>2. CASE \E e \in Event : PostLIFO(e)
  BY <1>2, PostLIFOStep DEF Abstract!Next
<1>3. CASE Get
  BY <1>3, GetStep DEF Abstract!Next
<1>4. CASE GetNothing
  <2>1. QueueInv' /\ Contents' = Contents
    BY <1>4, QueueKept DEF GetNothing, QueueInv, TypeOK
  <2>2. failed = 0 /\ Contents = << >> /\ got' = NULL /\ nMin' = nMin /\ failed' = failed
    BY <1>4, SmallContents DEF GetNothing, queueVars
  <2> QED BY <2>1, <2>2 DEF Abstract!Next, Abstract!TakeNothing
<1>5. CASE UNCHANGED vars
  <2>1. QueueInv' /\ Contents' = Contents
    BY <1>5, QueueKept DEF vars, queueVars, QueueInv, TypeOK
  <2> QED BY <1>5, <2>1 DEF vars, AVars
<1> QED BY <1>1, <1>2, <1>3, <1>4, <1>5 DEF Next

(* The invariant holds after QEQueue_init.                                 *)
LEMMA QueueInitInv == Init => QueueInv
<1> SUFFICES ASSUME Init PROVE QueueInv
  OBVIOUS
<1>1. TypeOK /\ ReadyIffEvents
  BY QueueAssumption DEF Init, TypeOK, ReadyIffEvents, Index
<1>2. Used = 0 /\ Entry(0) = 0
  BY QueueAssumption DEF Init, Used, Entry
<1>3. HeadBehindUsed
  BY <1>2 DEF Init, HeadBehindUsed
<1> QED BY <1>1, <1>3 DEF QueueInv

(* Types, the ready bit and the position of the insertion point are        *)
(* invariant for every length of the ring buffer.                          *)
THEOREM RingConsistent == Spec => [](TypeOK /\ ReadyIffEvents /\ HeadBehindUsed)
<1>1. QueueInv /\ [Next]_vars => QueueInv'
  BY QueueStep
<1> QED BY <1>1, QueueInitInv, PTL DEF Spec, QueueInv

(* QK_readySet_ has the bit of the active object exactly when its queue    *)
(* has an event.                                                           *)
THEOREM ReadyBitExact == Spec => []ReadyIffEvents
BY RingConsistent, PTL

(* The ring-buffer queue is a bounded deque, for every length of the ring  *)
(* buffer and every set of events.                                         *)
THEOREM QueueIsDeque == Spec => ImplementsDeque
<1>1. Init => Abstract!Init
  BY SmallContents, QueueAssumption DEF Init, Abstract!Init
<1>2. QueueInv /\ [Next]_vars => QueueInv' /\ [Abstract!Next]_AVars
  BY QueueStep
<1> QED BY <1>1, <1>2, QueueInitInv, PTL DEF Spec, ImplementsDeque, Abstract!Spec, AVars
=============================================================================
