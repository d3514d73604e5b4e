------------------------------- MODULE QPSet --------------------------------
(***************************************************************************)
(* The priority sets of qpset.h: a set of priorities in subsets of WIDTH   *)
(* bits each, with a super-set that tells which subsets are not empty, so  *)
(* that the highest priority is found by two look-ups.  A byte is modelled *)
(* by the set of its bits that are 1, numbered from 1 as in QF_pwr2Lkup.   *)
(***************************************************************************)
EXTENDS Integers, FiniteSetsExt

CONSTANT WIDTH   (* bits of a subset: 8 in the code                        *)

ASSUME WidthAssumption == WIDTH \in Nat \ {0}

(* QF_div8Lkup, QF_pwr2Lkup and QF_log2Lkup: the subset of a priority, its *)
(* bit there, and the highest bit of a byte, 0 if there is none.           *)
Div8(n) == (n - 1) \div WIDTH
Pwr2(n) == ((n - 1) % WIDTH) + 1
Log2(bits) == IF bits = {} THEN 0 ELSE Max(bits)

QPSet64_empty == [super |-> {}, subset |-> [i \in 0 .. WIDTH - 1 |-> {}]]

QPSet64_insert(me, n) ==
  [me EXCEPT !.super = @ \cup {Div8(n) + 1}, !.subset[Div8(n)] = @ \cup {Pwr2(n)}]

(* Mutant: the super-set forgets the subset before that is empty.          *)
QPSet64_removeSubset(me, n) ==
  [me EXCEPT !.super = @ \ {Div8(n) + 1}, !.subset[Div8(n)] = @ \ {Pwr2(n)}]

(* The super-set forgets the subset when that becomes empty.               *)
QPSet64_remove(me, n) ==
  LET rest == me.subset[Div8(n)] \ {Pwr2(n)}
  IN  [me EXCEPT !.subset[Div8(n)] = rest,
                 !.super = IF rest = {} THEN @ \ {Div8(n) + 1} ELSE @]

QPSet64_findMax(me) ==
  IF me.super = {} THEN 0
  ELSE LET i == Log2(me.super) - 1 IN Log2(me.subset[i]) + WIDTH * i
=============================================================================
