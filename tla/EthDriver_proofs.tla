-------------------------- MODULE EthDriver_proofs --------------------------
(***************************************************************************)
(* Proofs about EthDriver: for rings of every length, frames of every      *)
(* number of segments and every interleaving with the DMA engines.         *)
(*                                                                         *)
(* The DMA and the driver agree on the receive ring through c, the number  *)
(* of descriptors that the CPU owns: the descriptor written k segments ago *)
(* is Back(N_RX, rxDma, k), and the CPU owns those with k <= c.            *)
(***************************************************************************)
EXTENDS EthDriver, FiniteSetTheorems, TLAPS

(* The element k places before d in a ring of n.                           *)
Back(n, d, k) == (d + n - k) % n

(* The receive descriptor that was written k segments ago.                 *)
Ago(k) == Back(N_RX, rxDma, k)

(* The CPU owns the last c descriptors; the scan has passed the first      *)
(* Scanned of them.                                                        *)
OwnerInv(c) ==
  /\ \A k \in 1 .. N_RX : rx[Ago(k)].own = "CPU" <=> k <= c
  /\ Scanned \in 0 .. c
  /\ rxGet = Ago(c - Scanned)

(* The segments that the CPU owns make up frames: one follows the last of  *)
(* a frame exactly when it is a first, the oldest is a first unless its    *)
(* frame is being released, and the newest is a last unless the DMA is in  *)
(* the middle of a frame, which always has room for one segment more.      *)
SegmentInv(c) ==
  /\ c > 0 /\ ~(pc = "release" /\ Scanned > 0) => rx[Ago(c)].fs = 1
  /\ \A k \in 1 .. c - 1 :
       /\ rx[Ago(k)].fs = 1 <=> rx[Ago(k + 1)].ls = 1
       /\ rx[Ago(k)].fs = 0 => rx[Ago(k)].frame = rx[Ago(k + 1)].frame
  /\ rxSegs > 0 <=> c > 0 /\ rx[Ago(1)].ls = 0
  /\ rxSegs > 0 => c < N_RX

(* The scanned segments belong to one frame, and the driver has its first  *)
(* descriptor and, when the scan has found it, its last.                   *)
ScanInv(c) ==
  /\ \A k \in c - Scanned + 1 .. c :
       /\ rx[Ago(k)].ls = 1 <=> pc \in {"copy", "release"} /\ k = c - Scanned + 1
       /\ rx[Ago(k)].frame = rx[Ago(c)].frame
  /\ pc = "copy" => Scanned > 0 /\ hand = Ago(c - Scanned + 1)
  /\ pc = "release" => hand = Ago(c)
  /\ pc # "release" /\ Scanned > 0 => fsDesc = Ago(c)

RxInv == \E c \in 0 .. N_RX : OwnerInv(c) /\ SegmentInv(c) /\ ScanInv(c)

(* The DMA owns the t transmit descriptors before txSet, from txDma on.    *)
TxRun(t) ==
  /\ \A k \in 1 .. N_TX : tx[Back(N_TX, txSet, k)].own = "DMA" <=> k <= t
  /\ txDma = Back(N_TX, txSet, t)

TxInv == \E t \in 0 .. N_TX : TxRun(t)

(* The receive interrupt is enabled, or RX_READY is queued, or             *)
(* eth_driver_read runs: one of the three.  Between two RX_OVERRUN there   *)
(* is an RX_READY.                                                         *)
IrqInv ==
  /\ rxIE = 1 => reading = 0
  /\ \A i \in 1 .. Len(queue) : queue[i] = "RX_READY" => rxIE = 0 /\ reading = 0
  /\ \A i, j \in 1 .. Len(queue) : queue[i] = "RX_READY" /\ queue[j] = "RX_READY" => i = j
  /\ \A i, j \in 1 .. Len(queue) :
       i < j /\ queue[i] = "RX_OVERRUN" /\ queue[j] = "RX_OVERRUN"
       => \E k \in i + 1 .. j - 1 : queue[k] = "RX_READY"
  /\ pc \in {"scan", "copy", "release", "enable"} => reading = 1
  /\ pc = "idle" => reading = 0

IInv == TypeOK /\ RxInv /\ TxInv /\ IrqInv

----------------------------------------------------------------------------
(* Rings.                                                                  *)

(* A number below 2 * n is wrapped at most once.                           *)
LEMMA Wrap ==
  ASSUME NEW n \in Nat \ {0}, NEW x \in 0 .. 2 * n
  PROVE  x % n = IF x < n THEN x ELSE IF x < 2 * n THEN x - n ELSE 0
<1> DEFINE q == x \div n
           r == x % n
<1>1. r \in 0 .. n - 1 /\ q \in Nat /\ x = r + n * q
  <2>1. x \in Nat /\ n \in Nat \ {0}
    OBVIOUS
  <2>2. r \in 0 .. n - 1
    BY <2>1
  <2>3. x = r + n * q
    BY <2>1
  <2>4. q \in Nat
    BY <2>1
  <2> QED BY <2>2, <2>3, <2>4
<1> HIDE DEF q, r
<1>2. CASE q = 0
  BY <1>1, <1>2 DEF r
<1>3. CASE q = 1
  BY <1>1, <1>3 DEF r
<1>4. CASE q >= 2
  <2>1. PICK m \in Nat : q = 2 + m
    BY <1>1, <1>4, q - 2 \in Nat
  <2>2. n * q = 2 * n + n * m /\ n * m \in Nat
    BY <2>1
  <2>3. r = 0 /\ x = 2 * n
    BY <1>1, <2>2
  <2> QED BY <2>3 DEF r
<1> QED BY <1>1, <1>2, <1>3, <1>4

(* The places before d, one by one.                                        *)
LEMMA BackIs ==
  ASSUME NEW n \in Nat \ {0}, NEW d \in 0 .. n - 1, NEW k \in 0 .. n
  PROVE  Back(n, d, k) = IF k <= d THEN d - k ELSE d + n - k
<1>1. d + n - k \in 0 .. 2 * n
  OBVIOUS
<1>2. \A x \in 0 .. 2 * n : x % n = IF x < n THEN x ELSE IF x < 2 * n THEN x - n ELSE 0
  BY Wrap
<1> DEFINE x == d + n - k
<1> HIDE DEF x
<1>3. x % n = IF x < n THEN x ELSE IF x < 2 * n THEN x - n ELSE 0
  BY <1>1, <1>2 DEF x
<1>4. x % n = IF k <= d THEN d - k ELSE d + n - k
  BY <1>3 DEF x
<1> QED BY <1>4 DEF Back, x

(* The k-th place before d, and what comes next.                           *)
LEMMA BackNext ==
  ASSUME NEW n \in Nat \ {0}, NEW d \in 0 .. n - 1
  PROVE  /\ \A k \in 0 .. n : Back(n, d, k) \in 0 .. n - 1
         /\ Back(n, d, 0) = d /\ Back(n, d, n) = d
         /\ \A k \in 1 .. n : (Back(n, d, k) + 1) % n = Back(n, d, k - 1)
         /\ (d + 1) % n \in 0 .. n - 1
         /\ \A k \in 1 .. n : Back(n, (d + 1) % n, k) = Back(n, d, k - 1)
         /\ (d + 1) % n = Back(n, d, n - 1)
<1>1. \A k \in 0 .. n : Back(n, d, k) = IF k <= d THEN d - k ELSE d + n - k
  BY BackIs
<1>2. \A e \in 0 .. n - 1 : (e + 1) % n = IF e = n - 1 THEN 0 ELSE e + 1
  <2> TAKE e \in 0 .. n - 1
  <2>1. \A x \in 0 .. 2 * n : x % n = IF x < n THEN x ELSE IF x < 2 * n THEN x - n ELSE 0
    BY Wrap
  <2> DEFINE x == e + 1
  <2>2. x \in 0 .. 2 * n
    OBVIOUS
  <2>3. x % n = IF x < n THEN x ELSE IF x < 2 * n THEN x - n ELSE 0
    BY <2>1, <2>2
  <2> QED BY <2>3
<1> DEFINE s == (d + 1) % n
<1>3. s \in 0 .. n - 1 /\ s = IF d = n - 1 THEN 0 ELSE d + 1
  BY <1>2
<1> HIDE DEF s
<1>4. \A k \in 0 .. n : Back(n, s, k) = IF k <= s THEN s - k ELSE s + n - k
  BY <1>3, BackIs
<1>5. \A k \in 0 .. n : Back(n, d, k) \in 0 .. n - 1
  BY <1>1
<1>6. \A k \in 1 .. n : (Back(n, d, k) + 1) % n = Back(n, d, k - 1)
  <2> TAKE k \in 1 .. n
  <2> DEFINE e == Back(n, d, k)
  <2>1. e \in 0 .. n - 1 /\ e = IF k <= d THEN d - k ELSE d + n - k
    BY <1>1, <1>5
  <2>2. k - 1 \in 0 .. n /\ Back(n, d, k - 1) = IF k - 1 <= d THEN d - (k - 1) ELSE d + n - (k - 1)
    BY <1>1
  <2> HIDE DEF e
  <2>3. (e + 1) % n = IF e = n - 1 THEN 0 ELSE e + 1
    BY <1>2, <2>1
  <2>4. (e + 1) % n = Back(n, d, k - 1)
    BY <2>1, <2>2, <2>3
  <2> QED BY <2>4 DEF e
<1>7. \A k \in 1 .. n : Back(n, s, k) = Back(n, d, k - 1)
  BY <1>1, <1>3, <1>4
<1>8. s = Back(n, d, n - 1)
  BY <1>1, <1>3
<1>9. Back(n, d, 0) = d /\ Back(n, d, n) = d
  BY <1>1
<1> QED BY <1>3, <1>5, <1>6, <1>7, <1>8, <1>9 DEF s

(* The n places before d are all the places, each once.                    *)
LEMMA BackUnique ==
  ASSUME NEW n \in Nat \ {0}, NEW d \in 0 .. n - 1
  PROVE  /\ \A i, j \in 1 .. n : Back(n, d, i) = Back(n, d, j) => i = j
         /\ \A e \in 0 .. n - 1 : \E k \in 1 .. n : Back(n, d, k) = e
<1>1. \A k \in 0 .. n : Back(n, d, k) = IF k <= d THEN d - k ELSE d + n - k
  BY BackIs
<1>2. \A i, j \in 1 .. n : Back(n, d, i) = Back(n, d, j) => i = j
  BY <1>1
<1>3. \A e \in 0 .. n - 1 : \E k \in 1 .. n : Back(n, d, k) = e
  <2> TAKE e \in 0 .. n - 1
  <2>1. CASE e < d
    BY <1>1, <2>1, d - e \in 1 .. n
  <2>2. CASE e >= d
    BY <1>1, <2>2, d + n - e \in 1 .. n
  <2> QED BY <2>1, <2>2
<1> QED BY <1>2, <1>3

(* Going forward from a place before d.                                    *)
LEMMA BackForward ==
  ASSUME NEW n \in Nat \ {0}, NEW d \in 0 .. n - 1, NEW k \in 0 .. n, NEW j \in 0 .. k
  PROVE  (Back(n, d, k) + j) % n = Back(n, d, k - j)
<1> DEFINE e == Back(n, d, k)
           x == e + j
<1>1. e = IF k <= d THEN d - k ELSE d + n - k
  BY BackIs
<1>2. k - j \in 0 .. n
  OBVIOUS
<1>3. Back(n, d, k - j) = IF k - j <= d THEN d - (k - j) ELSE d + n - (k - j)
  BY <1>2, BackIs
<1> HIDE DEF e
<1>4. x \in 0 .. 2 * n
  BY <1>1
<1>5. x % n = IF x < n THEN x ELSE IF x < 2 * n THEN x - n ELSE 0
  BY <1>4, Wrap
<1>6. x % n = Back(n, d, k - j)
  BY <1>1, <1>3, <1>5
<1> QED BY <1>6 DEF e

----------------------------------------------------------------------------
(* The receive ring.                                                       *)

(* The descriptors before the one the DMA is at.                           *)
LEMMA RxRing ==
  ASSUME TypeOK
  PROVE  /\ N_RX \in Nat \ {0}
         /\ \A k \in 0 .. N_RX : Ago(k) \in RxDesc
         /\ Ago(0) = rxDma /\ Ago(N_RX) = rxDma
         /\ \A k \in 1 .. N_RX : NextRx(Ago(k)) = Ago(k - 1)
         /\ \A i, j \in 1 .. N_RX : Ago(i) = Ago(j) => i = j
         /\ NextRx(rxDma) \in RxDesc /\ NextRx(rxDma) = Ago(N_RX - 1)
         /\ \A k \in 1 .. N_RX : Back(N_RX, NextRx(rxDma), k) = Ago(k - 1)
         /\ (rxDma + N_RX - 1) % N_RX = Ago(1)
<1>1. N_RX \in Nat \ {0} /\ rxDma \in 0 .. N_RX - 1
  BY EthAssumption DEF TypeOK, RxDesc
<1>2. PICK d \in 0 .. N_RX - 1 : d = rxDma
  BY <1>1
<1>3. /\ \A k \in 0 .. N_RX : Back(N_RX, d, k) \in 0 .. N_RX - 1
      /\ Back(N_RX, d, 0) = d /\ Back(N_RX, d, N_RX) = d
      /\ \A k \in 1 .. N_RX : (Back(N_RX, d, k) + 1) % N_RX = Back(N_RX, d, k - 1)
      /\ (d + 1) % N_RX \in 0 .. N_RX - 1
      /\ \A k \in 1 .. N_RX : Back(N_RX, (d + 1) % N_RX, k) = Back(N_RX, d, k - 1)
      /\ (d + 1) % N_RX = Back(N_RX, d, N_RX - 1)
  BY <1>1, BackNext
<1>4. \A i, j \in 1 .. N_RX : Back(N_RX, d, i) = Back(N_RX, d, j) => i = j
  BY <1>1, BackUnique
<1>5. (d + N_RX - 1) % N_RX = Back(N_RX, d, 1)
  BY DEF Back
<1> QED BY <1>1, <1>2, <1>3, <1>4, <1>5 DEF Ago, NextRx, RxDesc

(* Steps that leave the receive ring and the scan alone.                   *)
LEMMA RxKept ==
  ASSUME RxInv, UNCHANGED <<rxVars, scanVars>>,
         \/ UNCHANGED <<pc, hand, count>>
         \/ pc \notin {"copy", "release"} /\ pc' \notin {"copy", "release"}
  PROVE  RxInv'
<1>1. PICK c \in 0 .. N_RX : OwnerInv(c) /\ SegmentInv(c) /\ ScanInv(c)
  BY DEF RxInv
<1>2. /\ rx' = rx /\ rxDma' = rxDma /\ rxSegs' = rxSegs
      /\ rxGet' = rxGet /\ segCount' = segCount /\ fsDesc' = fsDesc
  BY DEF rxVars, scanVars
<1>3. Scanned' = Scanned
  BY <1>2 DEF Scanned
<1>4. \A k : Ago(k)' = Ago(k)
  BY <1>2 DEF Ago
<1>5. OwnerInv(c)'
  BY <1>1, <1>2, <1>3, <1>4 DEF OwnerInv
<1>6. SegmentInv(c)'
  BY <1>1, <1>2, <1>3, <1>4 DEF SegmentInv
<1>7. ScanInv(c)'
  BY <1>1, <1>2, <1>3, <1>4 DEF ScanInv
<1> QED BY <1>5, <1>6, <1>7 DEF RxInv

(* Steps that leave the transmit ring alone.                               *)
LEMMA TxKept ==
  ASSUME TxInv, UNCHANGED txVars
  PROVE  TxInv'
BY DEF TxInv, TxRun, txVars

(* Steps that leave interrupts and events alone.                           *)
LEMMA IrqKept ==
  ASSUME IrqInv, UNCHANGED <<queue, rxIE, reading>>,
         pc' \in {"scan", "copy", "release", "enable"} => reading = 1,
         pc' = "idle" => reading = 0
  PROVE  IrqInv'
BY DEF IrqInv

(* What the scan meets is a descriptor that it has not passed yet.         *)
LEMMA ScanAhead ==
  ASSUME TypeOK, Scanning, NEW c \in 0 .. N_RX, OwnerInv(c), SegmentInv(c), ScanInv(c)
  PROVE  /\ Scanned = segCount /\ pc = "scan" /\ Scanned \in Nat /\ Scanned < c
         /\ rxGet = Ago(c - segCount)
<1>1. Scanned = segCount /\ pc = "scan"
  BY DEF Scanning, At, Scanned
<1>2. Scanned \in 0 .. c /\ rxGet = Ago(c - Scanned) /\ N_RX \in Nat \ {0}
  BY RxRing DEF OwnerInv
<1>3. ASSUME Scanned = c
      PROVE  FALSE
  <2>1. rxGet = Ago(N_RX)
    BY <1>2, <1>3, RxRing
  <2>2. c = N_RX
    <3>1. N_RX <= c
      BY <1>2, <2>1 DEF OwnerInv, Scanning
    <3> QED BY <1>2, <3>1
  <2>3. 1 \in c - Scanned + 1 .. c
    BY <1>2, <1>3, <2>2
  <2>4. rx[Ago(1)].ls # 1
    BY <1>1, <2>3 DEF ScanInv
  <2>5. rx[Ago(1)].ls = 0
    BY <1>2, <2>4, RxRing DEF TypeOK
  <2> QED BY <1>2, <2>2, <2>5 DEF SegmentInv
<1> QED BY <1>1, <1>2, <1>3

(* The scan passes a segment that is not the last: it has the first of the *)
(* frame, and the segments that it has passed belong to one frame.         *)
LEMMA ScanSegmentRx ==
  ASSUME TypeOK, RxInv, ScanSegment
  PROVE  RxInv' /\ segCount' \in 0 .. N_RX
<1>0. N_RX \in Nat \ {0}
  BY EthAssumption
<1>1. PICK c \in 0 .. N_RX : OwnerInv(c) /\ SegmentInv(c) /\ ScanInv(c)
  BY DEF RxInv
<1>2. /\ Scanned = segCount /\ pc = "scan" /\ Scanned \in Nat /\ Scanned < c
      /\ rxGet = Ago(c - segCount)
  BY <1>1, ScanAhead DEF ScanSegment
<1>3. PICK s \in 0 .. N_RX : s = segCount
  BY DEF TypeOK
<1>4. /\ rx' = rx /\ rxDma' = rxDma /\ rxSegs' = rxSegs /\ pc' = "scan" /\ hand' = hand
      /\ rxGet' = NextRx(rxGet) /\ rx[rxGet].ls = 0
      /\ \/ rx[rxGet].fs = 1 /\ fsDesc' = rxGet /\ segCount' = 1
         \/ rx[rxGet].fs = 0 /\ segCount' = segCount + 1 /\ fsDesc' = fsDesc
  BY <1>2 DEF ScanSegment, rxVars
<1>5. \A k : Ago(k)' = Ago(k)
  BY <1>4 DEF Ago
<1>6. c - s \in 1 .. N_RX /\ rxGet' = Ago(c - s - 1)
  BY <1>2, <1>3, <1>4, RxRing
<1>7. rx[rxGet].fs = 1 <=> s = 0
  <2>1. CASE s = 0
    BY <1>1, <1>2, <1>3, <2>1 DEF SegmentInv
  <2>2. CASE s > 0
    <3>1. c - s \in 1 .. c - 1 /\ c - s + 1 \in c - Scanned + 1 .. c
      BY <1>2, <1>3, <2>2
    <3>2. rx[Ago(c - s + 1)].ls # 1
      BY <1>1, <1>2, <3>1 DEF ScanInv
    <3>3. rx[Ago(c - s)].fs = 1 <=> rx[Ago(c - s + 1)].ls = 1
      BY <1>1, <3>1 DEF SegmentInv
    <3> QED BY <1>2, <1>3, <2>2, <3>2, <3>3
  <2> QED BY <2>1, <2>2
<1>8. Scanned' = s + 1 /\ segCount' = s + 1 /\ s + 1 \in 0 .. N_RX
  BY <1>0, <1>2, <1>3, <1>4, <1>7 DEF Scanned
<1>9. fsDesc' = Ago(c)
  <2>1. CASE s = 0
    BY <1>2, <1>3, <1>4, <1>7, <2>1
  <2>2. CASE s > 0
    BY <1>1, <1>2, <1>3, <1>4, <1>7, <2>2 DEF ScanInv
  <2> QED BY <2>1, <2>2
<1>10. OwnerInv(c)'
  <2>1. s + 1 \in 0 .. c /\ rxGet' = Ago(c - (s + 1))
    BY <1>2, <1>3, <1>6
  <2> QED BY <1>1, <1>4, <1>5, <1>8, <2>1 DEF OwnerInv
<1>11. SegmentInv(c)'
  BY <1>1, <1>2, <1>4, <1>5 DEF SegmentInv
<1>12. ASSUME NEW k \in c - (s + 1) + 1 .. c
       PROVE  rx[Ago(k)].ls # 1 /\ rx[Ago(k)].frame = rx[Ago(c)].frame
  <2>1. CASE k = c - s
    <3>1. rx[Ago(k)].ls # 1
      BY <1>2, <1>3, <1>4, <2>1
    <3>2. CASE s = 0
      BY <2>1, <3>1, <3>2
    <3>3. CASE s > 0
      <4>1. c - s \in 1 .. c - 1 /\ c - s + 1 \in c - Scanned + 1 .. c
        BY <1>2, <1>3, <3>3
      <4>2. rx[Ago(k)].frame = rx[Ago(k + 1)].frame
        <5>1. rx[Ago(k)].fs # 1
          BY <1>2, <1>3, <1>7, <2>1, <3>3
        <5>2. rx[Ago(k)].fs = 0
          BY <2>1, <4>1, <5>1, RxRing DEF TypeOK
        <5> QED BY <1>1, <2>1, <4>1, <5>2 DEF SegmentInv
      <4>3. rx[Ago(k + 1)].frame = rx[Ago(c)].frame
        BY <1>1, <2>1, <4>1 DEF ScanInv
      <4> QED BY <3>1, <4>2, <4>3
    <3> QED BY <3>2, <3>3
  <2>2. CASE k # c - s
    <3>1. k \in c - Scanned + 1 .. c
      BY <1>2, <1>3, <2>2
    <3> QED BY <1>1, <1>2, <3>1 DEF ScanInv
  <2> QED BY <2>1, <2>2
<1>13. ScanInv(c)'
  BY <1>4, <1>5, <1>8, <1>9, <1>12 DEF ScanInv
<1> QED BY <1>8, <1>10, <1>11, <1>13 DEF RxInv

(* The scan meets the last segment of a frame: it has its first.           *)
LEMMA ScanLastRx ==
  ASSUME TypeOK, RxInv, ScanLast
  PROVE  RxInv' /\ segCount' \in 0 .. N_RX
<1>0. N_RX \in Nat \ {0}
  BY EthAssumption
<1>1. PICK c \in 0 .. N_RX : OwnerInv(c) /\ SegmentInv(c) /\ ScanInv(c)
  BY DEF RxInv
<1>2. /\ Scanned = segCount /\ pc = "scan" /\ Scanned \in Nat /\ Scanned < c
      /\ rxGet = Ago(c - segCount)
  BY <1>1, ScanAhead DEF ScanLast
<1>3. PICK s \in 0 .. N_RX : s = segCount
  BY DEF TypeOK
<1>4. /\ rx' = rx /\ rxDma' = rxDma /\ rxSegs' = rxSegs /\ pc' = "copy" /\ hand' = rxGet
      /\ rxGet' = NextRx(rxGet) /\ rx[rxGet].ls = 1
      /\ segCount' = s + 1
      /\ fsDesc' = IF s + 1 = 1 THEN rxGet ELSE fsDesc
  BY <1>2, <1>3 DEF ScanLast, rxVars
<1>5. \A k : Ago(k)' = Ago(k)
  BY <1>4 DEF Ago
<1>6. c - s \in 1 .. N_RX /\ rxGet' = Ago(c - s - 1)
  BY <1>2, <1>3, <1>4, RxRing
<1>7. rx[rxGet].fs = 1 <=> s = 0
  <2>1. CASE s = 0
    BY <1>1, <1>2, <1>3, <2>1 DEF SegmentInv
  <2>2. CASE s > 0
    <3>1. c - s \in 1 .. c - 1 /\ c - s + 1 \in c - Scanned + 1 .. c
      BY <1>2, <1>3, <2>2
    <3>2. rx[Ago(c - s + 1)].ls # 1
      BY <1>1, <1>2, <3>1 DEF ScanInv
    <3>3. rx[Ago(c - s)].fs = 1 <=> rx[Ago(c - s + 1)].ls = 1
      BY <1>1, <3>1 DEF SegmentInv
    <3> QED BY <1>2, <1>3, <2>2, <3>2, <3>3
  <2> QED BY <2>1, <2>2
<1>8. Scanned' = s + 1 /\ s + 1 \in 0 .. N_RX
  BY <1>0, <1>2, <1>3, <1>4 DEF Scanned
<1>9. fsDesc' = Ago(c)
  <2>1. CASE s = 0
    BY <1>2, <1>3, <1>4, <2>1
  <2>2. CASE s > 0
    BY <1>1, <1>2, <1>3, <1>4, <2>2 DEF ScanInv
  <2> QED BY <2>1, <2>2
<1>10. OwnerInv(c)'
  <2>1. s + 1 \in 0 .. c /\ rxGet' = Ago(c - (s + 1))
    BY <1>2, <1>3, <1>6
  <2> QED BY <1>1, <1>4, <1>5, <1>8, <2>1 DEF OwnerInv
<1>11. SegmentInv(c)'
  BY <1>1, <1>2, <1>4, <1>5 DEF SegmentInv
<1>12. ASSUME NEW k \in c - (s + 1) + 1 .. c
       PROVE  /\ rx[Ago(k)].ls = 1 <=> k = c - (s + 1) + 1
              /\ rx[Ago(k)].frame = rx[Ago(c)].frame
  <2>1. CASE k = c - s
    <3>1. rx[Ago(k)].ls = 1
      BY <1>2, <1>3, <1>4, <2>1
    <3>2. CASE s = 0
      BY <2>1, <3>1, <3>2
    <3>3. CASE s > 0
      <4>1. c - s \in 1 .. c - 1 /\ c - s + 1 \in c - Scanned + 1 .. c
        BY <1>2, <1>3, <3>3
      <4>2. rx[Ago(k)].frame = rx[Ago(k + 1)].frame
        <5>1. rx[Ago(k)].fs # 1
          BY <1>2, <1>3, <1>7, <2>1, <3>3
        <5>2. rx[Ago(k)].fs = 0
          BY <2>1, <4>1, <5>1, RxRing DEF TypeOK
        <5> QED BY <1>1, <2>1, <4>1, <5>2 DEF SegmentInv
      <4>3. rx[Ago(k + 1)].frame = rx[Ago(c)].frame
        BY <1>1, <2>1, <4>1 DEF ScanInv
      <4> QED BY <2>1, <3>1, <4>2, <4>3
    <3> QED BY <3>2, <3>3
  <2>2. CASE k # c - s
    <3>1. k \in c - Scanned + 1 .. c
      BY <1>2, <1>3, <2>2
    <3>2. k # c - (s + 1) + 1
      BY <1>3, <2>2
    <3> QED BY <1>1, <1>2, <3>1, <3>2 DEF ScanInv
  <2> QED BY <2>1, <2>2
<1>13. ScanInv(c)'
  <2>1. s + 1 > 0 /\ hand' = Ago(c - (s + 1) + 1)
    <3>1. c - (s + 1) + 1 = c - s
      OBVIOUS
    <3> QED BY <1>2, <1>3, <1>4, <3>1
  <2> QED BY <1>4, <1>5, <1>8, <1>9, <1>12, <2>1 DEF ScanInv
<1> QED BY <1>4, <1>8, <1>10, <1>11, <1>13 DEF RxInv

(* The first descriptor of the frame that the scan has found.              *)
LEMMA FirstIs ==
  ASSUME TypeOK, pc = "copy", NEW c \in 0 .. N_RX, OwnerInv(c), ScanInv(c)
  PROVE  /\ First = Ago(c) /\ Scanned = segCount /\ segCount \in 1 .. c
         /\ hand = Ago(c - segCount + 1)
<1>1. Scanned = segCount
  BY DEF Scanned
<1>2. segCount > 0 /\ segCount \in 0 .. c /\ hand = Ago(c - segCount + 1) /\ fsDesc = Ago(c)
  BY <1>1 DEF ScanInv, OwnerInv
<1>3. CASE segCount > 1
  BY <1>1, <1>2, <1>3 DEF First
<1>4. CASE segCount = 1
  <2>1. c - segCount + 1 = c
    BY <1>4
  <2> QED BY <1>1, <1>2, <1>4, <2>1 DEF First
<1> QED BY <1>1, <1>2, <1>3, <1>4

(* low_level_receive goes back to the first descriptor of the frame ...    *)
LEMMA CopyFrameRx ==
  ASSUME TypeOK, RxInv, CopyFrame
  PROVE  RxInv' /\ hand' \in RxDesc
<1>1. PICK c \in 0 .. N_RX : OwnerInv(c) /\ SegmentInv(c) /\ ScanInv(c)
  BY DEF RxInv
<1>2. pc = "copy" /\ pc' = "release" /\ hand' = First /\ count' = 0
      /\ UNCHANGED <<rx, rxDma, rxSegs, rxGet, segCount, fsDesc>>
  BY DEF CopyFrame, At, rxVars, scanVars
<1>3. PICK s \in 0 .. N_RX : s = segCount
  BY DEF TypeOK
<1>4. hand' = Ago(c) /\ Scanned = s /\ s \in 1 .. c
  BY <1>1, <1>2, <1>3, FirstIs
<1>5. \A k : Ago(k)' = Ago(k)
  BY <1>2 DEF Ago
<1>6. Scanned' = s
  BY <1>2, <1>3 DEF Scanned
<1>7. OwnerInv(c)'
  BY <1>1, <1>2, <1>4, <1>5, <1>6 DEF OwnerInv
<1>8. SegmentInv(c)'
  BY <1>1, <1>2, <1>4, <1>5, <1>6 DEF SegmentInv
<1>9. ScanInv(c)'
  BY <1>1, <1>2, <1>4, <1>5, <1>6 DEF ScanInv
<1> QED BY <1>4, <1>7, <1>8, <1>9, RxRing DEF RxInv

(* ... gives its descriptors back to the DMA, one by one ...               *)
LEMMA ReleaseRx ==
  ASSUME TypeOK, RxInv, Release
  PROVE  RxInv' /\ hand' \in RxDesc /\ count' \in 0 .. N_RX
<1>0. N_RX \in Nat \ {0}
  BY EthAssumption
<1>1. PICK c \in 0 .. N_RX : OwnerInv(c) /\ SegmentInv(c) /\ ScanInv(c)
  BY DEF RxInv
<1>2. /\ pc = "release" /\ pc' = "release" /\ count < segCount
      /\ hand' = NextRx(hand) /\ count' = count + 1
      /\ rx' = [rx EXCEPT ![hand] = [own |-> "DMA", fs |-> 0, ls |-> 0, es |-> 0, frame |-> NONE]]
      /\ UNCHANGED <<rxDma, rxSegs, rxGet, segCount, fsDesc>>
  BY DEF Release, At, scanVars
<1>3. PICK s \in 0 .. N_RX : s = segCount - count
  <2>1. segCount \in 0 .. N_RX /\ count \in 0 .. N_RX
    BY DEF TypeOK
  <2>2. segCount - count \in 0 .. N_RX
    BY <1>0, <1>2, <2>1
  <2> QED BY <2>2
<1>4. Scanned = s /\ s \in 1 .. c /\ hand = Ago(c)
  BY <1>1, <1>2, <1>3 DEF Scanned, OwnerInv, ScanInv, TypeOK
<1>5. \A k : Ago(k)' = Ago(k)
  BY <1>2 DEF Ago
<1>6. Scanned' = s - 1 /\ count' \in 0 .. N_RX
  <2>1. segCount \in 0 .. N_RX /\ count \in 0 .. N_RX
    BY DEF TypeOK
  <2>2. count + 1 \in 0 .. N_RX /\ segCount - (count + 1) = s - 1
    BY <1>0, <1>2, <1>3, <2>1
  <2> QED BY <1>2, <2>2 DEF Scanned
<1>7. hand' = Ago(c - 1) /\ c - 1 \in 0 .. N_RX
  BY <1>2, <1>4, RxRing
<1>8. /\ \A k \in 1 .. N_RX : k # c => rx'[Ago(k)] = rx[Ago(k)]
      /\ rx'[Ago(c)].own = "DMA"
  <2>1. \A k \in 1 .. N_RX : Ago(k) \in RxDesc
    BY RxRing
  <2>2. \A k \in 1 .. N_RX : k # c => Ago(k) # Ago(c)
    BY <1>4, RxRing
  <2>3. c \in 1 .. N_RX
    BY <1>4
  <2> QED BY <1>2, <1>4, <2>1, <2>2, <2>3 DEF TypeOK
<1>9. OwnerInv(c - 1)'
  <2>1. \A k \in 1 .. N_RX : rx'[Ago(k)].own = "CPU" <=> k <= c - 1
    <3> TAKE k \in 1 .. N_RX
    <3>1. rx[Ago(k)].own = "CPU" <=> k <= c
      BY <1>1 DEF OwnerInv
    <3>2. CASE k = c
      <4>1. ~(k <= c - 1)
        BY <3>2
      <4> QED BY <1>8, <3>2, <4>1
    <3>3. CASE k # c
      <4>1. k <= c <=> k <= c - 1
        BY <3>3
      <4> QED BY <1>8, <3>1, <3>3, <4>1
    <3> QED BY <3>2, <3>3
  <2>2. rxGet = Ago(c - s) /\ c - 1 - (s - 1) = c - s /\ s - 1 \in 0 .. c - 1
    BY <1>1, <1>4 DEF OwnerInv
  <2> QED BY <1>2, <1>5, <1>6, <2>1, <2>2 DEF OwnerInv
<1>10. s > 1 => rx[Ago(c)].ls # 1
  <2>1. s > 1 => c \in c - Scanned + 1 .. c /\ c # c - Scanned + 1
    BY <1>4
  <2> QED BY <1>1, <1>2, <2>1 DEF ScanInv
<1>11. s = 1 => rx[Ago(c)].ls = 1
  <2>1. s = 1 => c \in c - Scanned + 1 .. c /\ c = c - Scanned + 1
    BY <1>4
  <2> QED BY <1>1, <1>2, <2>1 DEF ScanInv
<1>12. SegmentInv(c - 1)'
  <2>1. c - 1 > 0 /\ s - 1 = 0 => rx'[Ago(c - 1)].fs = 1
    <3> HAVE c - 1 > 0 /\ s - 1 = 0
    <3>1. c - 1 \in 1 .. c - 1 /\ c - 1 \in 1 .. N_RX /\ c - 1 + 1 = c /\ c - 1 # c /\ s = 1
      BY <1>0, <1>4
    <3>2. rx[Ago(c - 1)].fs = 1 <=> rx[Ago(c - 1 + 1)].ls = 1
      BY <1>1, <3>1 DEF SegmentInv
    <3> QED BY <1>8, <1>11, <3>1, <3>2
  <2>2. ASSUME NEW k \in 1 .. c - 1 - 1
        PROVE  /\ rx'[Ago(k)].fs = 1 <=> rx'[Ago(k + 1)].ls = 1
               /\ rx'[Ago(k)].fs = 0 => rx'[Ago(k)].frame = rx'[Ago(k + 1)].frame
    <3>1. k \in 1 .. c - 1 /\ k \in 1 .. N_RX /\ k + 1 \in 1 .. N_RX /\ k # c /\ k + 1 # c
      BY <1>0, <1>4
    <3>2. rx'[Ago(k)] = rx[Ago(k)] /\ rx'[Ago(k + 1)] = rx[Ago(k + 1)]
      BY <1>8, <3>1
    <3> QED BY <1>1, <3>1, <3>2 DEF SegmentInv
  <2>3. rxSegs > 0 <=> c - 1 > 0 /\ rx'[Ago(1)].ls = 0
    <3>1. CASE c = 1
      <4>1. rx[Ago(1)].ls = 1
        BY <1>4, <1>11, <3>1
      <4> QED BY <1>1, <3>1, <4>1 DEF SegmentInv
    <3>2. CASE c > 1
      <4>1. 1 \in 1 .. N_RX /\ 1 # c
        BY <1>0, <3>2
      <4> QED BY <1>1, <1>8, <3>2, <4>1 DEF SegmentInv
    <3> QED BY <1>4, <3>1, <3>2
  <2>4. rxSegs > 0 => c - 1 < N_RX
    BY <1>0
  <2> QED BY <1>2, <1>4, <1>5, <1>6, <2>1, <2>2, <2>3, <2>4 DEF SegmentInv
<1>13. ScanInv(c - 1)'
  <2>1. ASSUME NEW k \in c - 1 - (s - 1) + 1 .. c - 1
        PROVE  /\ rx'[Ago(k)].ls = 1 <=> k = c - 1 - (s - 1) + 1
               /\ rx'[Ago(k)].frame = rx'[Ago(c - 1)].frame
    <3>1. k \in c - Scanned + 1 .. c /\ k \in 1 .. N_RX /\ k # c
          /\ c - 1 - (s - 1) + 1 = c - Scanned + 1
          /\ c - 1 \in c - Scanned + 1 .. c /\ c - 1 \in 1 .. N_RX /\ c - 1 # c
      BY <1>0, <1>4
    <3>2. rx'[Ago(k)] = rx[Ago(k)] /\ rx'[Ago(c - 1)] = rx[Ago(c - 1)]
      BY <1>8, <3>1
    <3>3. /\ rx[Ago(k)].ls = 1 <=> k = c - Scanned + 1
          /\ rx[Ago(k)].frame = rx[Ago(c)].frame
          /\ rx[Ago(c - 1)].frame = rx[Ago(c)].frame
      BY <1>1, <1>2, <3>1 DEF ScanInv
    <3> QED BY <3>1, <3>2, <3>3
  <2> QED BY <1>2, <1>5, <1>6, <1>7, <2>1 DEF ScanInv
<1> QED BY <1>6, <1>7, <1>9, <1>12, <1>13, RxRing DEF RxInv

(* ... and is ready for the next frame.                                    *)
LEMMA ReleasedRx ==
  ASSUME TypeOK, RxInv, Released
  PROVE  RxInv'
<1>1. PICK c \in 0 .. N_RX : OwnerInv(c) /\ SegmentInv(c) /\ ScanInv(c)
  BY DEF RxInv
<1>2. /\ pc = "release" /\ pc' \in {"enable", "stack"} /\ count >= segCount /\ segCount' = 0
      /\ UNCHANGED <<rx, rxDma, rxSegs, rxGet>>
  BY DEF Released, At, rxVars, ClearCount
<1>3. Scanned = 0
  BY <1>1, <1>2 DEF Scanned, OwnerInv, TypeOK
<1>4. Scanned' = 0
  BY <1>2 DEF Scanned
<1>5. \A k : Ago(k)' = Ago(k)
  BY <1>2 DEF Ago
<1>6. OwnerInv(c)'
  BY <1>1, <1>2, <1>3, <1>4, <1>5 DEF OwnerInv
<1>7. SegmentInv(c)'
  BY <1>1, <1>2, <1>3, <1>4, <1>5 DEF SegmentInv
<1>8. ScanInv(c)'
  <2>1. \A k \in c - 0 + 1 .. c : FALSE
    OBVIOUS
  <2> QED BY <1>2, <1>4, <1>5, <2>1 DEF ScanInv
<1> QED BY <1>6, <1>7, <1>8 DEF RxInv

(* The DMA writes a segment: after one that is not the last of its frame   *)
(* there is room for another.                                              *)
LEMMA RxSegmentRx ==
  ASSUME TypeOK, RxInv, NEW f \in Frame, NEW last \in BOOLEAN, RxSegment(f, last)
  PROVE  RxInv'
<1>0. N_RX \in Nat \ {0} /\ MAX_SEG \in 1 .. N_RX
  BY EthAssumption
<1>1. PICK c \in 0 .. N_RX : OwnerInv(c) /\ SegmentInv(c) /\ ScanInv(c)
  BY DEF RxInv
<1>2. PICK d \in RxDesc : d = rxDma
  BY DEF TypeOK
<1>3. PICK ends \in BOOLEAN : ends <=> last \/ (~last /\ rx[NextRx(d)].own = "CPU")
  OBVIOUS
<1>4. /\ rx[d].own = "DMA" /\ (~last => rxSegs + 1 < MAX_SEG)
      /\ rxSegs > 0 => f = rx[(d + N_RX - 1) % N_RX].frame
      /\ rx' = [rx EXCEPT ![d] =
                  [own |-> "CPU", fs |-> IF rxSegs = 0 THEN 1 ELSE 0,
                   ls |-> IF ends THEN 1 ELSE 0,
                   es |-> IF ~last /\ rx[NextRx(d)].own = "CPU" THEN 1 ELSE 0, frame |-> f]]
      /\ rxDma' = NextRx(d)
      /\ rxSegs' = IF ends THEN 0 ELSE rxSegs + 1
      /\ UNCHANGED <<rxGet, segCount, fsDesc, pc, hand, count>>
  BY <1>2, <1>3 DEF RxSegment, scanVars, mgrVars
<1>5. /\ \A k \in 0 .. N_RX : Ago(k) \in RxDesc
      /\ Ago(0) = d /\ Ago(N_RX) = d
      /\ \A i, j \in 1 .. N_RX : Ago(i) = Ago(j) => i = j
      /\ NextRx(d) = Ago(N_RX - 1)
      /\ (d + N_RX - 1) % N_RX = Ago(1)
  BY <1>2, RxRing
<1>6. \A k \in 1 .. N_RX : Ago(k)' = Ago(k - 1)
  BY <1>2, <1>4, RxRing DEF Ago
<1>7. c < N_RX /\ c + 1 \in 1 .. N_RX
  <2>1. ~(N_RX <= c)
    <3>1. N_RX \in 1 .. N_RX
      BY <1>0
    <3> QED BY <1>1, <1>4, <1>5, <3>1 DEF OwnerInv
  <2> QED BY <1>0, <2>1
<1>8. ~ends => c + 1 < N_RX
  <2> HAVE ~ends
  <2>1. N_RX > 1
    BY <1>0, <1>3, <1>4 DEF TypeOK
  <2>2. N_RX - 1 \in 1 .. N_RX
    BY <1>0, <2>1
  <2>3. ~(N_RX - 1 <= c)
    BY <1>1, <1>3, <1>5, <2>2 DEF OwnerInv
  <2> QED BY <1>0, <2>3
<1>9. rxSegs \in Nat /\ (rxSegs = 0 \/ rxSegs > 0)
  BY <1>0 DEF TypeOK
<1>10. /\ rx'[d].own = "CPU" /\ rx'[d].frame = f
       /\ rx'[d].fs = IF rxSegs = 0 THEN 1 ELSE 0
       /\ rx'[d].ls = IF ends THEN 1 ELSE 0
       /\ \A k \in 1 .. N_RX - 1 : rx'[Ago(k)] = rx[Ago(k)]
  <2>1. \A k \in 1 .. N_RX - 1 : Ago(k) \in RxDesc /\ Ago(k) # d
    BY <1>0, <1>5
  <2> QED BY <1>4, <2>1 DEF TypeOK
<1>11. Scanned' = Scanned /\ Scanned \in 0 .. c
  BY <1>1, <1>4 DEF Scanned, OwnerInv
<1>12. OwnerInv(c + 1)'
  <2>1. ASSUME NEW k \in 1 .. N_RX
        PROVE  rx'[Ago(k - 1)].own = "CPU" <=> k <= c + 1
    <3>1. CASE k = 1
      <4>1. 1 <= c + 1 /\ k - 1 = 0
        BY <3>1
      <4> QED BY <1>5, <1>10, <3>1, <4>1
    <3>2. CASE k > 1
      <4>1. k - 1 \in 1 .. N_RX - 1 /\ k - 1 \in 1 .. N_RX
            /\ (k - 1 <= c <=> k <= c + 1)
        BY <1>0, <3>2
      <4> QED BY <1>1, <1>10, <4>1 DEF OwnerInv
    <3> QED BY <3>1, <3>2
  <2>2. Scanned \in 0 .. c + 1
    BY <1>11
  <2>3. rxGet' = Ago(c + 1 - Scanned)'
    <3>1. c + 1 - Scanned \in 1 .. N_RX /\ c + 1 - Scanned - 1 = c - Scanned
      BY <1>0, <1>7, <1>11
    <3>2. Ago(c + 1 - Scanned)' = Ago(c + 1 - Scanned - 1)
      <4>1. PICK s \in 0 .. c : s = Scanned
        BY <1>11
      <4>2. c + 1 - s \in 1 .. N_RX
        BY <3>1, <4>1
      <4>3. Ago(c + 1 - s)' = Ago(c + 1 - s - 1)
        BY <1>6, <4>2
      <4> QED BY <1>11, <4>1, <4>3
    <3> QED BY <1>1, <1>4, <3>1, <3>2 DEF OwnerInv
  <2>4. \A k \in 1 .. N_RX : rx'[Ago(k)'].own = "CPU" <=> k <= c + 1
    BY <1>6, <2>1
  <2> QED BY <1>11, <2>2, <2>3, <2>4 DEF OwnerInv
<1>13. rxSegs > 0 <=> c > 0 /\ rx[Ago(1)].ls = 0
  BY <1>1 DEF SegmentInv
<1>14. SegmentInv(c + 1)'
  <2>1. ~(pc = "release" /\ Scanned > 0) => rx'[Ago(c)].fs = 1
    <3>1. CASE c = 0
      BY <1>5, <1>9, <1>10, <1>13, <3>1
    <3>2. CASE c > 0
      <4>1. c \in 1 .. N_RX - 1
        BY <1>0, <1>7, <3>2
      <4> QED BY <1>1, <1>10, <3>2, <4>1 DEF SegmentInv
    <3> QED BY <3>1, <3>2
  <2>2. ASSUME NEW k \in 1 .. c + 1 - 1
        PROVE  /\ rx'[Ago(k - 1)].fs = 1 <=> rx'[Ago(k)].ls = 1
               /\ rx'[Ago(k - 1)].fs = 0 => rx'[Ago(k - 1)].frame = rx'[Ago(k)].frame
    <3>1. k \in 1 .. N_RX - 1 /\ k \in 1 .. c /\ k \in 0 .. N_RX
      BY <1>0, <1>7
    <3>2. rx'[Ago(k)] = rx[Ago(k)] /\ rx[Ago(k)].ls \in {0, 1}
      BY <1>5, <1>10, <3>1 DEF TypeOK
    <3>3. CASE k = 1
      <4>1. rxSegs = 0 <=> rx[Ago(1)].ls = 1
        BY <1>9, <1>13, <3>1, <3>2, <3>3
      <4> QED BY <1>4, <1>5, <1>9, <1>10, <3>2, <3>3, <4>1
    <3>4. CASE k > 1
      <4>1. k - 1 \in 1 .. c - 1 /\ k - 1 \in 1 .. N_RX - 1 /\ k - 1 + 1 = k
        BY <1>0, <3>1, <3>4
      <4>2. rx'[Ago(k - 1)] = rx[Ago(k - 1)]
        BY <1>10, <4>1
      <4>3. /\ rx[Ago(k - 1)].fs = 1 <=> rx[Ago(k - 1 + 1)].ls = 1
            /\ rx[Ago(k - 1)].fs = 0 => rx[Ago(k - 1)].frame = rx[Ago(k - 1 + 1)].frame
        BY <1>1, <4>1 DEF SegmentInv
      <4> QED BY <3>2, <4>1, <4>2, <4>3
    <3> QED BY <3>3, <3>4
  <2>3. rxSegs' > 0 <=> c + 1 > 0 /\ rx'[Ago(0)].ls = 0
    BY <1>4, <1>5, <1>9, <1>10
  <2>4. rxSegs' > 0 => c + 1 < N_RX
    BY <1>4, <1>8
  <2>5. Ago(c + 1)' = Ago(c) /\ Ago(1)' = Ago(0)
    <3>1. c + 1 - 1 = c /\ 1 - 1 = 0 /\ 1 \in 1 .. N_RX
      BY <1>0
    <3>2. Ago(c + 1)' = Ago(c + 1 - 1) /\ Ago(1)' = Ago(1 - 1)
      BY <1>6, <1>7, <3>1
    <3> QED BY <3>1, <3>2
  <2>6. \A k \in 1 .. c + 1 - 1 : Ago(k)' = Ago(k - 1) /\ Ago(k + 1)' = Ago(k)
    <3> TAKE k \in 1 .. c + 1 - 1
    <3>1. k \in 1 .. N_RX /\ k + 1 \in 1 .. N_RX /\ k + 1 - 1 = k
      BY <1>0, <1>7
    <3>2. Ago(k)' = Ago(k - 1) /\ Ago(k + 1)' = Ago(k + 1 - 1)
      BY <1>6, <3>1
    <3> QED BY <3>1, <3>2
  <2>7. pc' = pc
    BY <1>4
  <2>8. /\ rx'[Ago(c + 1)'].fs = rx'[Ago(c)].fs /\ rx'[Ago(1)'].ls = rx'[Ago(0)].ls
        /\ \A k \in 1 .. c + 1 - 1 : /\ rx'[Ago(k)'] = rx'[Ago(k - 1)]
                                     /\ rx'[Ago(k + 1)'] = rx'[Ago(k)]
    BY <2>5, <2>6
  <2> QED BY <1>11, <2>1, <2>2, <2>3, <2>4, <2>7, <2>8 DEF SegmentInv
<1>15. ScanInv(c + 1)'
  <2>1. PICK s \in 0 .. c : s = Scanned
    BY <1>11
  <2>2. \A k \in 1 .. c : rx'[Ago(k + 1)'] = rx[Ago(k)] /\ Ago(k + 1)' = Ago(k)
    <3> TAKE k \in 1 .. c
    <3>1. k + 1 \in 1 .. N_RX /\ k + 1 - 1 = k /\ k \in 1 .. N_RX - 1
      BY <1>0, <1>7
    <3>2. Ago(k + 1)' = Ago(k + 1 - 1)
      BY <1>6, <3>1
    <3> QED BY <1>10, <3>1, <3>2
  <2>3. ASSUME NEW k \in c + 1 - s + 1 .. c + 1
        PROVE  /\ rx'[Ago(k)'].ls = 1 <=> pc \in {"copy", "release"} /\ k = c + 1 - s + 1
               /\ rx'[Ago(k)'].frame = rx'[Ago(c + 1)'].frame
    <3>1. k - 1 \in c - s + 1 .. c /\ k - 1 \in 1 .. c /\ c \in 1 .. c /\ k - 1 + 1 = k
          /\ (k = c + 1 - s + 1 <=> k - 1 = c - s + 1)
      BY <2>1
    <3>2. rx'[Ago(k - 1 + 1)'] = rx[Ago(k - 1)] /\ rx'[Ago(c + 1)'] = rx[Ago(c)]
      BY <2>2, <3>1
    <3>3. /\ rx[Ago(k - 1)].ls = 1 <=> pc \in {"copy", "release"} /\ k - 1 = c - s + 1
          /\ rx[Ago(k - 1)].frame = rx[Ago(c)].frame
      BY <1>1, <2>1, <3>1 DEF ScanInv
    <3> QED BY <3>1, <3>2, <3>3
  <2>4. pc = "copy" => s > 0 /\ hand = Ago(c + 1 - s + 1)'
    <3> HAVE pc = "copy"
    <3>1. s > 0 /\ hand = Ago(c - s + 1)
      BY <1>1, <2>1 DEF ScanInv
    <3>2. c - s + 1 \in 1 .. c /\ c - s + 1 + 1 = c + 1 - s + 1
      BY <2>1, <3>1
    <3>3. Ago(c - s + 1 + 1)' = Ago(c - s + 1)
      BY <2>2, <3>2
    <3> QED BY <3>1, <3>2, <3>3
  <2>5. Ago(c + 1)' = Ago(c)
    <3>1. c + 1 - 1 = c
      OBVIOUS
    <3>2. Ago(c + 1)' = Ago(c + 1 - 1)
      BY <1>6, <1>7
    <3> QED BY <3>1, <3>2
  <2>6. /\ pc = "release" => hand = Ago(c)
        /\ pc # "release" /\ s > 0 => fsDesc = Ago(c)
    BY <1>1, <2>1 DEF ScanInv
  <2> QED BY <1>4, <1>11, <2>1, <2>3, <2>4, <2>5, <2>6 DEF ScanInv
<1> QED BY <1>7, <1>12, <1>14, <1>15 DEF RxInv

----------------------------------------------------------------------------
(* The transmit ring.                                                      *)

(* The descriptors before the one that the driver sets next.               *)
LEMMA TxRing ==
  ASSUME TypeOK
  PROVE  /\ N_TX \in Nat \ {0}
         /\ \A k \in 0 .. N_TX : Back(N_TX, txSet, k) \in TxDesc
         /\ Back(N_TX, txSet, 0) = txSet /\ Back(N_TX, txSet, N_TX) = txSet
         /\ \A k \in 1 .. N_TX : NextTx(Back(N_TX, txSet, k)) = Back(N_TX, txSet, k - 1)
         /\ \A i, j \in 1 .. N_TX : Back(N_TX, txSet, i) = Back(N_TX, txSet, j) => i = j
         /\ NextTx(txSet) \in TxDesc
         /\ \A k \in 1 .. N_TX : Back(N_TX, NextTx(txSet), k) = Back(N_TX, txSet, k - 1)
         /\ \A d \in TxDesc : \E k \in 1 .. N_TX : Back(N_TX, txSet, k) = d
<1>1. N_TX \in Nat \ {0} /\ txSet \in 0 .. N_TX - 1
  BY EthAssumption DEF TypeOK, TxDesc
<1>2. PICK d \in 0 .. N_TX - 1 : d = txSet
  BY <1>1
<1>3. /\ \A k \in 0 .. N_TX : Back(N_TX, d, k) \in 0 .. N_TX - 1
      /\ Back(N_TX, d, 0) = d /\ Back(N_TX, d, N_TX) = d
      /\ \A k \in 1 .. N_TX : (Back(N_TX, d, k) + 1) % N_TX = Back(N_TX, d, k - 1)
      /\ (d + 1) % N_TX \in 0 .. N_TX - 1
      /\ \A k \in 1 .. N_TX : Back(N_TX, (d + 1) % N_TX, k) = Back(N_TX, d, k - 1)
  BY <1>1, BackNext
<1>4. /\ \A i, j \in 1 .. N_TX : Back(N_TX, d, i) = Back(N_TX, d, j) => i = j
      /\ \A e \in 0 .. N_TX - 1 : \E k \in 1 .. N_TX : Back(N_TX, d, k) = e
  BY <1>1, BackUnique
<1> QED BY <1>1, <1>2, <1>3, <1>4 DEF NextTx, TxDesc

(* The DMA sends the frame of the oldest descriptor it owns ...            *)
LEMMA TxSendTx ==
  ASSUME TypeOK, TxInv, TxSend
  PROVE  TxInv' /\ txDma' \in TxDesc
<1>0. N_TX \in Nat \ {0}
  BY EthAssumption
<1>1. PICK t \in 0 .. N_TX : TxRun(t)
  BY DEF TxInv
<1>2. PICK e \in TxDesc : e = txSet
  BY DEF TypeOK
<1>3. /\ tx[txDma].own = "DMA" /\ tx' = [tx EXCEPT ![txDma] = [own |-> "CPU", frame |-> NONE]]
      /\ txDma' = NextTx(txDma) /\ txSet' = e
  BY <1>2 DEF TxSend
<1>4. t \in 1 .. N_TX /\ txDma = Back(N_TX, e, t)
  <2>1. txDma = Back(N_TX, e, t)
    BY <1>1, <1>2 DEF TxRun
  <2>2. t # 0
    <3> SUFFICES ASSUME t = 0
                 PROVE  FALSE
      OBVIOUS
    <3>1. txDma = Back(N_TX, txSet, N_TX)
      BY <1>2, <2>1, TxRing
    <3>2. N_TX \in 1 .. N_TX
      BY <1>0
    <3>3. N_TX <= t
      BY <1>1, <1>3, <3>1, <3>2 DEF TxRun
    <3> QED BY <1>0, <3>3
  <2> QED BY <1>0, <2>1, <2>2
<1>5. txDma' = Back(N_TX, e, t - 1) /\ t - 1 \in 0 .. N_TX
  BY <1>0, <1>2, <1>3, <1>4, TxRing
<1>6. \A k \in 1 .. N_TX : tx'[Back(N_TX, e, k)].own = "DMA" <=> k <= t - 1
  <2> TAKE k \in 1 .. N_TX
  <2>1. Back(N_TX, e, k) \in TxDesc
    <3>1. k \in 0 .. N_TX
      BY <1>0
    <3> QED BY <1>2, <3>1, TxRing
  <2>2. tx[Back(N_TX, e, k)].own = "DMA" <=> k <= t
    BY <1>1, <1>2 DEF TxRun
  <2>3. CASE k = t
    <3>1. ~(k <= t - 1) /\ tx'[Back(N_TX, e, k)].own = "CPU"
      BY <1>3, <1>4, <2>1, <2>3 DEF TypeOK
    <3> QED BY <3>1
  <2>4. CASE k # t
    <3>1. (k <= t <=> k <= t - 1) /\ Back(N_TX, e, k) # txDma
      BY <1>0, <1>2, <1>4, <2>4, TxRing
    <3>2. tx'[Back(N_TX, e, k)] = tx[Back(N_TX, e, k)]
      BY <1>3, <2>1, <3>1 DEF TypeOK
    <3> QED BY <2>2, <3>1, <3>2
  <2> QED BY <2>3, <2>4
<1>7. TxRun(t - 1)'
  BY <1>3, <1>5, <1>6 DEF TxRun
<1>8. txDma' \in TxDesc
  BY <1>2, <1>5, TxRing
<1> QED BY <1>5, <1>7, <1>8 DEF TxInv

(* ... and ETH_Prepare_Transmit_Descriptors adds the newest.               *)
LEMMA PrepareTx ==
  ASSUME TypeOK, TxInv, Prepare
  PROVE  TxInv' /\ txSet' \in TxDesc
<1>0. N_TX \in Nat \ {0}
  BY EthAssumption
<1>1. PICK t \in 0 .. N_TX : TxRun(t)
  BY DEF TxInv
<1>2. PICK e \in TxDesc : e = txSet
  BY DEF TypeOK
<1>3. /\ tx[e].own = "CPU" /\ tx' = [tx EXCEPT ![e].own = "DMA"]
      /\ txSet' = NextTx(e) /\ txDma' = txDma
  BY <1>2 DEF Prepare
<1>4. t < N_TX /\ t + 1 \in 1 .. N_TX
  <2>1. ~(N_TX <= t)
    <3>1. N_TX \in 1 .. N_TX /\ Back(N_TX, e, N_TX) = e
      BY <1>0, <1>2, TxRing
    <3> QED BY <1>1, <1>2, <1>3, <3>1 DEF TxRun
  <2> QED BY <1>0, <2>1
<1>5. \A k \in 1 .. N_TX : Back(N_TX, txSet', k) = Back(N_TX, e, k - 1)
  BY <1>2, <1>3, TxRing
<1>6. \A k \in 1 .. N_TX : tx'[Back(N_TX, e, k - 1)].own = "DMA" <=> k <= t + 1
  <2> TAKE k \in 1 .. N_TX
  <2>1. CASE k = 1
    <3>1. Back(N_TX, e, k - 1) = e /\ k <= t + 1
      BY <1>2, <2>1, TxRing
    <3> QED BY <1>3, <3>1 DEF TypeOK
  <2>2. CASE k > 1
    <3>1. k - 1 \in 1 .. N_TX /\ k - 1 \in 0 .. N_TX /\ N_TX \in 1 .. N_TX /\ k - 1 # N_TX
          /\ (k - 1 <= t <=> k <= t + 1)
      BY <1>0, <2>2
    <3>2. Back(N_TX, e, k - 1) # e /\ Back(N_TX, e, k - 1) \in TxDesc
      BY <1>2, <3>1, TxRing
    <3>3. tx'[Back(N_TX, e, k - 1)] = tx[Back(N_TX, e, k - 1)]
      BY <1>3, <3>2 DEF TypeOK
    <3> QED BY <1>1, <1>2, <3>1, <3>3 DEF TxRun
  <2> QED BY <2>1, <2>2
<1>7. txDma' = Back(N_TX, txSet', t + 1)
  <2>1. t + 1 - 1 = t
    OBVIOUS
  <2> QED BY <1>1, <1>2, <1>3, <1>4, <1>5, <2>1 DEF TxRun
<1>8. \A k \in 1 .. N_TX : tx'[Back(N_TX, txSet', k)].own = "DMA" <=> k <= t + 1
  BY <1>5, <1>6
<1>9. TxRun(t + 1)'
  BY <1>7, <1>8 DEF TxRun
<1>10. txSet' \in TxDesc
  BY <1>2, <1>3, TxRing
<1> QED BY <1>4, <1>9, <1>10 DEF TxInv

(* A frame is copied into the descriptor; who owns it does not change.     *)
LEMMA OutputTx ==
  ASSUME TypeOK, TxInv, NEW f \in Frame, Output(f)
  PROVE  TxInv'
<1>1. PICK t \in 0 .. N_TX : TxRun(t)
  BY DEF TxInv
<1>2. /\ tx' = [tx EXCEPT ![txSet].frame = f] /\ txDma' = txDma /\ txSet' = txSet
  BY DEF Output
<1>3. \A d \in TxDesc : tx'[d].own = tx[d].own
  BY <1>2 DEF TypeOK
<1>4. \A k \in 1 .. N_TX : Back(N_TX, txSet, k) \in TxDesc
  <2>1. \A k \in 1 .. N_TX : k \in 0 .. N_TX
    OBVIOUS
  <2> QED BY <2>1, TxRing
<1>5. TxRun(t)'
  BY <1>1, <1>2, <1>3, <1>4 DEF TxRun
<1> QED BY <1>5 DEF TxInv

----------------------------------------------------------------------------
(* Interrupts and events.                                                  *)

Event == {"RX_READY", "RX_OVERRUN", "SLOW_TICK"}

(* An event at the end of a queue.                                         *)
LEMMA Posted ==
  ASSUME NEW q \in Seq(Event), NEW e \in Event, NEW r, r = Append(q, e)
  PROVE  /\ r \in Seq(Event) /\ Len(r) = Len(q) + 1 /\ r[Len(q) + 1] = e
         /\ \A i \in 1 .. Len(q) : r[i] = q[i]
OBVIOUS

(* What is left when the first event has been taken.                       *)
LEMMA Taken ==
  ASSUME NEW q \in Seq(Event), q # << >>, NEW r, r = Tail(q)
  PROVE  /\ Head(q) = q[1] /\ Head(q) \in Event
         /\ r \in Seq(Event) /\ Len(q) \in Nat \ {0} /\ Len(r) = Len(q) - 1
         /\ \A i \in 1 .. Len(r) : i + 1 \in 1 .. Len(q) /\ r[i] = q[i + 1]
OBVIOUS

(* The interrupt handler finds no RX_READY in the queue, as it was enabled. *)
LEMMA IrqIrq ==
  ASSUME TypeOK, IrqInv, ETH_IRQHandler
  PROVE  IrqInv' /\ queue' \in Seq(Event)
<1>1. /\ rxIE = 1 /\ rxIE' = 0 /\ reading' = reading /\ pc' = pc
      /\ queue' = queue \o <<"RX_READY">> \o (IF flag["RO"] = 1 THEN <<"RX_OVERRUN">> ELSE << >>)
  BY DEF ETH_IRQHandler, MaskRx, mgrVars
<1>2. PICK q \in Seq(Event) : q = queue
  BY DEF TypeOK, Event
<1>3. /\ reading = 0
      /\ \A i \in 1 .. Len(q) : q[i] # "RX_READY"
      /\ \A i, j \in 1 .. Len(q) : ~(i < j /\ q[i] = "RX_OVERRUN" /\ q[j] = "RX_OVERRUN")
  <2>1. reading = 0 /\ \A i \in 1 .. Len(q) : q[i] # "RX_READY"
    BY <1>1, <1>2 DEF IrqInv
  <2>2. ASSUME NEW i \in 1 .. Len(q), NEW j \in 1 .. Len(q),
               i < j, q[i] = "RX_OVERRUN", q[j] = "RX_OVERRUN"
        PROVE  FALSE
    <3>1. PICK k \in i + 1 .. j - 1 : q[k] = "RX_READY"
      BY <1>2, <2>2 DEF IrqInv
    <3>2. k \in 1 .. Len(q)
      OBVIOUS
    <3> QED BY <2>1, <3>1, <3>2
  <2> QED BY <2>1, <2>2
<1>4. PICK n \in Nat : n = Len(q)
  BY <1>2
<1> DEFINE r == Append(q, "RX_READY")
<1>5. r \in Seq(Event) /\ Len(r) = n + 1 /\ r[n + 1] = "RX_READY"
      /\ \A i \in 1 .. n : r[i] = q[i]
  BY <1>4, Posted DEF Event
<1>6. queue' = r \/ queue' = Append(r, "RX_OVERRUN")
  <2>1. q \o <<"RX_READY">> = r
    OBVIOUS
  <2>2. r \o << >> = r /\ r \o <<"RX_OVERRUN">> = Append(r, "RX_OVERRUN")
    BY <1>5
  <2> QED BY <1>1, <1>2, <2>1, <2>2
<1> HIDE DEF r
<1>7. CASE queue' = r
  <2>1. IrqInv'
    BY <1>1, <1>3, <1>4, <1>5, <1>7 DEF IrqInv
  <2> QED BY <1>5, <1>7, <2>1
<1>8. CASE queue' = Append(r, "RX_OVERRUN")
  <2>1. queue' \in Seq(Event) /\ Len(queue') = n + 2 /\ queue'[n + 2] = "RX_OVERRUN"
        /\ queue'[n + 1] = "RX_READY" /\ \A i \in 1 .. n : queue'[i] = q[i]
    <3>1. PICK s : s = Append(r, "RX_OVERRUN")
      OBVIOUS
    <3>2. /\ s \in Seq(Event) /\ Len(s) = Len(r) + 1 /\ s[Len(r) + 1] = "RX_OVERRUN"
          /\ \A i \in 1 .. Len(r) : s[i] = r[i]
      BY <1>5, <3>1, Posted DEF Event
    <3> QED BY <1>5, <1>8, <3>1, <3>2
  <2>2. \A i \in 1 .. n + 2 : i \in 1 .. n \/ i = n + 1 \/ i = n + 2
    OBVIOUS
  <2>3. \A i \in 1 .. Len(queue') : queue'[i] = "RX_READY" => i = n + 1
    BY <1>3, <1>4, <2>1, <2>2
  <2>4. ASSUME NEW i \in 1 .. Len(queue'), NEW j \in 1 .. Len(queue'),
               i < j, queue'[i] = "RX_OVERRUN", queue'[j] = "RX_OVERRUN"
        PROVE  \E k \in i + 1 .. j - 1 : queue'[k] = "RX_READY"
    <3>1. j = n + 2 /\ i \in 1 .. n
      BY <1>3, <1>4, <2>1, <2>2, <2>4
    <3>2. n + 1 \in i + 1 .. j - 1
      BY <3>1
    <3> QED BY <2>1, <3>2
  <2>5. IrqInv'
    BY <1>1, <1>3, <2>3, <2>4 DEF IrqInv
  <2> QED BY <2>1, <2>5
<1> QED BY <1>6, <1>7, <1>8

(* A tick of LwIPMgr's time event.                                         *)
LEMMA SlowTickIrq ==
  ASSUME TypeOK, IrqInv, SlowTick
  PROVE  IrqInv' /\ queue' \in Seq(Event)
<1>1. queue' = Append(queue, "SLOW_TICK") /\ UNCHANGED <<rxIE, reading, pc>>
  BY DEF SlowTick, mgrVars
<1>2. PICK q \in Seq(Event) : q = queue
  BY DEF TypeOK, Event
<1>3. PICK r : r = Append(q, "SLOW_TICK")
  OBVIOUS
<1>4. r \in Seq(Event) /\ Len(r) = Len(q) + 1 /\ r[Len(q) + 1] = "SLOW_TICK"
      /\ \A i \in 1 .. Len(q) : r[i] = q[i]
  BY <1>3, Posted DEF Event
<1>5. \A i \in 1 .. Len(r) : r[i] # "SLOW_TICK" => i \in 1 .. Len(q) /\ r[i] = q[i]
  BY <1>4
<1>6. \A i, j \in 1 .. Len(r) : r[i] = "RX_READY" /\ r[j] = "RX_READY" => i = j
  BY <1>2, <1>5 DEF IrqInv
<1>7. ASSUME NEW i \in 1 .. Len(r), NEW j \in 1 .. Len(r),
             i < j, r[i] = "RX_OVERRUN", r[j] = "RX_OVERRUN"
      PROVE  \E k \in i + 1 .. j - 1 : r[k] = "RX_READY"
  <2>1. i \in 1 .. Len(q) /\ j \in 1 .. Len(q) /\ q[i] = "RX_OVERRUN" /\ q[j] = "RX_OVERRUN"
    BY <1>5, <1>7
  <2>2. PICK k \in i + 1 .. j - 1 : q[k] = "RX_READY"
    BY <1>2, <1>7, <2>1 DEF IrqInv
  <2>3. k \in 1 .. Len(q)
    BY <2>1
  <2> QED BY <1>4, <2>2, <2>3
<1>8. \A i \in 1 .. Len(r) : r[i] = "RX_READY" => rxIE = 0 /\ reading = 0
  BY <1>2, <1>5 DEF IrqInv
<1>9. queue' = r
  BY <1>1, <1>2, <1>3
<1>10. /\ rxIE' = rxIE /\ reading' = reading /\ pc' = pc
  BY <1>1
<1>11. IrqInv'
  BY <1>6, <1>7, <1>8, <1>9, <1>10 DEF IrqInv
<1> QED BY <1>4, <1>9, <1>11

(* LwIPMgr takes its next event.                                           *)
LEMMA DispatchIrq ==
  ASSUME TypeOK, IrqInv, Dispatch
  PROVE  IrqInv' /\ queue' \in Seq(Event)
<1>1. /\ pc = "idle" /\ queue # << >> /\ queue' = Tail(queue) /\ rxIE' = rxIE
      /\ \/ Head(queue) = "RX_READY" /\ pc' = "scan" /\ reading' = 1
         \/ Head(queue) = "SLOW_TICK" /\ pc' = "stack" /\ reading' = reading
         \/ Head(queue) = "RX_OVERRUN" /\ pc' = pc /\ reading' = reading
  BY DEF Dispatch, At
<1>2. PICK q \in Seq(Event) : q = queue
  BY DEF TypeOK, Event
<1>3. PICK r : r = Tail(q)
  OBVIOUS
<1>4. /\ Head(q) = q[1] /\ r \in Seq(Event) /\ Len(q) \in Nat \ {0} /\ Len(r) = Len(q) - 1
      /\ \A i \in 1 .. Len(r) : i + 1 \in 1 .. Len(q) /\ r[i] = q[i + 1]
  BY <1>1, <1>2, <1>3, Taken
<1>5. reading = 0 /\ 1 \in 1 .. Len(q)
  BY <1>1, <1>4 DEF IrqInv
<1>6. \A i, j \in 1 .. Len(r) : r[i] = "RX_READY" /\ r[j] = "RX_READY" => i = j
  <2>1. \A i, j \in 1 .. Len(q) : q[i] = "RX_READY" /\ q[j] = "RX_READY" => i = j
    BY <1>2 DEF IrqInv
  <2>2. ASSUME NEW i \in 1 .. Len(r), NEW j \in 1 .. Len(r), r[i] = "RX_READY", r[j] = "RX_READY"
        PROVE  i = j
    <3>1. i + 1 = j + 1
      BY <1>4, <2>1, <2>2
    <3> QED BY <3>1
  <2> QED BY <2>2
<1>7. ASSUME NEW i \in 1 .. Len(r), NEW j \in 1 .. Len(r),
             i < j, r[i] = "RX_OVERRUN", r[j] = "RX_OVERRUN"
      PROVE  \E k \in i + 1 .. j - 1 : r[k] = "RX_READY"
  <2>1. i + 1 \in 1 .. Len(q) /\ j + 1 \in 1 .. Len(q)
        /\ q[i + 1] = "RX_OVERRUN" /\ q[j + 1] = "RX_OVERRUN" /\ i + 1 < j + 1
    BY <1>4, <1>7
  <2>2. PICK k \in i + 1 + 1 .. j + 1 - 1 : q[k] = "RX_READY"
    BY <1>2, <2>1 DEF IrqInv
  <2>3. k - 1 \in i + 1 .. j - 1 /\ k - 1 \in 1 .. Len(r) /\ k - 1 + 1 = k
    BY <1>4
  <2> QED BY <1>4, <2>2, <2>3
<1>8. ASSUME NEW i \in 1 .. Len(r), r[i] = "RX_READY"
      PROVE  rxIE = 0 /\ reading' = 0
  <2>1. i + 1 \in 1 .. Len(q) /\ q[i + 1] = "RX_READY" /\ i + 1 # 1
    BY <1>4, <1>8
  <2>2. rxIE = 0 /\ q[1] # "RX_READY"
    BY <1>2, <1>5, <2>1 DEF IrqInv
  <2> QED BY <1>1, <1>2, <1>4, <1>5, <2>2
<1>9. rxIE = 1 => reading' = 0
  BY <1>1, <1>2, <1>4, <1>5 DEF IrqInv
<1>10. queue' = r
  BY <1>1, <1>2, <1>3
<1>11. /\ pc' \in {"scan", "copy", "release", "enable"} => reading' = 1
       /\ pc' = "idle" => reading' = 0
  BY <1>1, <1>5
<1>12. rxIE' = rxIE
  BY <1>1
<1>13. IrqInv'
  BY <1>6, <1>7, <1>8, <1>9, <1>10, <1>11, <1>12 DEF IrqInv
<1> QED BY <1>4, <1>10, <1>13

(* eth_driver_read returns: it has taken the RX_READY.                     *)
LEMMA EnableRxIrq ==
  ASSUME TypeOK, IrqInv, EnableRx
  PROVE  IrqInv'
<1>1. reading = 1 /\ rxIE' = 1 /\ pc' = "idle" /\ reading' = 0 /\ queue' = queue
  BY DEF IrqInv, EnableRx, At
<1>2. \A i \in 1 .. Len(queue) : queue[i] # "RX_READY"
  BY <1>1 DEF IrqInv
<1> QED BY <1>1, <1>2 DEF IrqInv

----------------------------------------------------------------------------
(* The steps.                                                              *)

(* What the types of the counters and descriptors rest on.                 *)
LEMMA Bounds ==
  /\ N_RX \in Nat \ {0} /\ N_TX \in Nat \ {0} /\ MAX_SEG \in 1 .. N_RX
  /\ \A d \in RxDesc : NextRx(d) \in RxDesc
  /\ 0 \in RxDesc /\ 0 \in TxDesc /\ 0 \in 0 .. MAX_SEG - 1 /\ 0 \in 0 .. N_RX
<1>1. N_RX \in Nat \ {0} /\ N_TX \in Nat \ {0} /\ MAX_SEG \in 1 .. N_RX
  BY EthAssumption
<1>2. \A d \in RxDesc : NextRx(d) \in RxDesc
  BY <1>1 DEF RxDesc, NextRx
<1> QED BY <1>1, <1>2 DEF RxDesc, TxDesc

(* A step of the DMA engines preserves the invariant.                      *)
LEMMA DMASafe ==
  ASSUME IInv, DMA
  PROVE  IInv'
<1>1. TypeOK /\ RxInv /\ TxInv /\ IrqInv
  BY DEF IInv
<1>2. ASSUME NEW f \in Frame, NEW last \in BOOLEAN, RxSegment(f, last)
      PROVE  IInv'
  <2>1. UNCHANGED <<scanVars, txVars, rxIE, queue, mgrVars>>
    BY <1>2 DEF RxSegment
  <2>2. RxInv'
    BY <1>1, <1>2, RxSegmentRx
  <2>3. TxInv'
    BY <1>1, <2>1, TxKept
  <2>4. IrqInv'
    BY <1>1, <2>1 DEF IrqInv, mgrVars
  <2>5. rxDma' \in RxDesc /\ rxSegs' \in 0 .. MAX_SEG - 1
    BY <1>1, <1>2, Bounds DEF RxSegment, TypeOK
  <2>6. rx' \in [RxDesc -> [own : {"DMA", "CPU"}, fs : {0, 1}, ls : {0, 1}, es : {0, 1},
                          frame : Frame \cup {NONE}]]
    BY <1>1, <1>2 DEF RxSegment, TypeOK
  <2>7. flag' \in [Flags -> {0, 1}]
    BY <1>1, <1>2 DEF RxSegment, TypeOK
  <2>8. TypeOK'
    BY <1>1, <2>1, <2>5, <2>6, <2>7 DEF TypeOK, scanVars, txVars, mgrVars
  <2> QED BY <2>2, <2>3, <2>4, <2>8 DEF IInv
<1>3. ASSUME RxSuspend
      PROVE  IInv'
  <2>1. UNCHANGED <<rxVars, scanVars, txVars, rxIE, queue, mgrVars>>
    BY <1>3 DEF RxSuspend
  <2>2. flag' \in [Flags -> {0, 1}]
    <3>1. PICK ro \in {flag["RO"], 1} : flag' = [flag EXCEPT !["RBUS"] = 1, !["RO"] = ro]
      BY <1>3 DEF RxSuspend
    <3>2. ro \in {0, 1}
      BY <1>1 DEF TypeOK, Flags
    <3> QED BY <1>1, <3>1, <3>2 DEF TypeOK
  <2>3. TypeOK'
    BY <1>1, <2>1, <2>2 DEF TypeOK, rxVars, scanVars, txVars, mgrVars
  <2>4. RxInv' /\ TxInv'
    BY <1>1, <2>1, RxKept, TxKept DEF mgrVars
  <2>5. IrqInv'
    BY <1>1, <2>1 DEF IrqInv, mgrVars
  <2> QED BY <2>3, <2>4, <2>5 DEF IInv
<1>4. ASSUME TxSend
      PROVE  IInv'
  <2>1. UNCHANGED <<rxVars, scanVars, txSet, flag, rxIE, queue, mgrVars>>
    BY <1>4 DEF TxSend
  <2>2. TxInv' /\ txDma' \in TxDesc
    BY <1>1, <1>4, TxSendTx
  <2>3. tx' \in [TxDesc -> [own : {"DMA", "CPU"}, frame : Frame \cup {NONE}]]
    BY <1>1, <1>4 DEF TxSend, TypeOK
  <2>4. TypeOK'
    BY <1>1, <2>1, <2>2, <2>3 DEF TypeOK, rxVars, scanVars, mgrVars
  <2>5. RxInv'
    BY <1>1, <2>1, RxKept DEF mgrVars
  <2>6. IrqInv'
    BY <1>1, <2>1 DEF IrqInv, mgrVars
  <2> QED BY <2>2, <2>4, <2>5, <2>6 DEF IInv
<1>5. ASSUME TxSuspend
      PROVE  IInv'
  <2>1. UNCHANGED <<rxVars, scanVars, txVars, rxIE, queue, mgrVars>>
    BY <1>5 DEF TxSuspend
  <2>2. flag' \in [Flags -> {0, 1}]
    BY <1>1, <1>5 DEF TxSuspend, TypeOK
  <2>3. TypeOK'
    BY <1>1, <2>1, <2>2 DEF TypeOK, rxVars, scanVars, txVars, mgrVars
  <2>4. RxInv' /\ TxInv'
    BY <1>1, <2>1, RxKept, TxKept DEF mgrVars
  <2>5. IrqInv'
    BY <1>1, <2>1 DEF IrqInv, mgrVars
  <2> QED BY <2>3, <2>4, <2>5 DEF IInv
<1> QED BY <1>2, <1>3, <1>4, <1>5 DEF DMA

(* An interrupt or a tick preserves the invariant.                         *)
LEMMA InterruptSafe ==
  ASSUME IInv, ETH_IRQHandler \/ SlowTick
  PROVE  IInv'
<1>1. TypeOK /\ RxInv /\ TxInv /\ IrqInv
  BY DEF IInv
<1>2. IrqInv' /\ queue' \in Seq(Event)
  BY <1>1, IrqIrq, SlowTickIrq
<1>3. UNCHANGED <<rxVars, scanVars, txVars, mgrVars>>
  BY DEF ETH_IRQHandler, SlowTick
<1>4. flag' \in [Flags -> {0, 1}] /\ rxIE' \in {0, 1}
  BY <1>1 DEF ETH_IRQHandler, SlowTick, MaskRx, TypeOK
<1>5. TypeOK'
  BY <1>1, <1>2, <1>3, <1>4 DEF TypeOK, rxVars, scanVars, txVars, mgrVars, Event
<1>6. RxInv' /\ TxInv'
  BY <1>1, <1>3, RxKept, TxKept DEF mgrVars
<1> QED BY <1>2, <1>5, <1>6 DEF IInv

(* A step of LwIPMgr that is not in low_level_receive preserves the        *)
(* invariant: it begins or ends eth_driver_read or runs the stack ...      *)
LEMMA ManagerSafe ==
  ASSUME IInv, Dispatch \/ StackDone \/ ScanNone \/ EnableRx
  PROVE  IInv'
<1>1. TypeOK /\ RxInv /\ TxInv /\ IrqInv
  BY DEF IInv
<1>2. UNCHANGED <<rxVars, scanVars, txVars, flag, hand, pbuf>>
  BY DEF Dispatch, StackDone, ScanNone, EnableRx
<1>3. pc \notin {"copy", "release"} /\ pc' \notin {"copy", "release"}
  BY DEF Dispatch, StackDone, ScanNone, EnableRx, At
<1>4. RxInv' /\ TxInv'
  BY <1>1, <1>2, <1>3, RxKept, TxKept
<1>5. IrqInv' /\ queue' \in Seq(Event)
  <2>1. CASE Dispatch
    BY <1>1, <2>1, DispatchIrq
  <2>2. CASE StackDone
    BY <1>1, <2>2 DEF StackDone, At, IrqInv, TypeOK, Event
  <2>3. CASE ScanNone
    BY <1>1, <2>3 DEF ScanNone, At, IrqInv, TypeOK, Event
  <2>4. CASE EnableRx
    <3>1. queue' = queue
      BY <2>4 DEF EnableRx
    <3> QED BY <1>1, <2>4, <3>1, EnableRxIrq DEF TypeOK, Event
  <2> QED BY <2>1, <2>2, <2>3, <2>4
<1>6. /\ pc' \in {"idle", "scan", "enable", "stack"} /\ reading' \in {0, 1}
      /\ rxIE' \in {0, 1} /\ count' \in 0 .. N_RX
  BY <1>1, Bounds DEF Dispatch, StackDone, ScanNone, EnableRx, At, TypeOK
<1>7. TypeOK'
  BY <1>1, <1>2, <1>5, <1>6 DEF TypeOK, rxVars, scanVars, txVars, Event
<1> QED BY <1>4, <1>5, <1>7 DEF IInv

(* ... or sends a frame.                                                   *)
LEMMA TransmitSafe ==
  ASSUME IInv, Transmit
  PROVE  IInv'
<1>1. TypeOK /\ RxInv /\ TxInv /\ IrqInv
  BY DEF IInv
<1>2. /\ UNCHANGED <<rxVars, scanVars, txDma, rxIE, queue, hand, count, reading>>
      /\ pc \in {"stack", "prepare", "resume"} /\ pc' \in {"stack", "prepare", "resume"}
  BY DEF Transmit, Output, PrepareBusy, Prepare, Prepared, At, txVars
<1>3. RxInv'
  BY <1>1, <1>2, RxKept
<1>4. IrqInv'
  BY <1>1, <1>2 DEF IrqInv
<1>5. flag' \in [Flags -> {0, 1}] /\ pbuf' \in Frame \cup {NONE}
  BY <1>1 DEF Transmit, Output, PrepareBusy, Prepare, Prepared, ResumeTx, TypeOK
<1>6. TxInv' /\ txSet' \in TxDesc
      /\ tx' \in [TxDesc -> [own : {"DMA", "CPU"}, frame : Frame \cup {NONE}]]
  <2>1. ASSUME NEW f \in Frame, Output(f)
        PROVE  TxInv' /\ txSet' = txSet
               /\ tx' \in [TxDesc -> [own : {"DMA", "CPU"}, frame : Frame \cup {NONE}]]
    <3>1. TxInv'
      BY <1>1, <2>1, OutputTx
    <3> QED BY <1>1, <2>1, <3>1 DEF Output, TypeOK
  <2>2. CASE PrepareBusy \/ Prepared
    <3>1. UNCHANGED txVars
      BY <2>2 DEF PrepareBusy, Prepared
    <3> QED BY <1>1, <3>1, TxKept DEF txVars, TypeOK
  <2>3. CASE Prepare
    <3>1. TxInv' /\ txSet' \in TxDesc
      BY <1>1, <2>3, PrepareTx
    <3> QED BY <1>1, <2>3, <3>1 DEF Prepare, TypeOK
  <2> QED BY <1>1, <2>1, <2>2, <2>3 DEF Transmit, TypeOK
<1>7. TypeOK'
  BY <1>1, <1>2, <1>5, <1>6 DEF TypeOK, rxVars, scanVars
<1> QED BY <1>3, <1>4, <1>6, <1>7 DEF IInv

(* A step of low_level_receive preserves the invariant.                    *)
LEMMA ReceiveSafe ==
  ASSUME IInv, ScanSegment \/ ScanLast \/ CopyFrame \/ Release \/ Released
  PROVE  IInv'
<1>1. TypeOK /\ RxInv /\ TxInv /\ IrqInv
  BY DEF IInv
<1>2. /\ UNCHANGED <<rxDma, rxSegs, txVars, rxIE, queue, reading>>
      /\ pc \in {"scan", "copy", "release"}
      /\ pc' \in {"scan", "copy", "release", "enable", "stack"}
  BY DEF ScanSegment, ScanLast, CopyFrame, Release, Released, Scanning, At, rxVars
<1>3. TxInv'
  BY <1>1, <1>2, TxKept
<1>4. IrqInv'
  BY <1>1, <1>2 DEF IrqInv
<1>5. /\ RxInv' /\ segCount' \in 0 .. N_RX /\ rxGet' \in RxDesc /\ fsDesc' \in RxDesc
      /\ hand' \in RxDesc /\ count' \in 0 .. N_RX /\ pbuf' \in Frame \cup {NONE}
      /\ flag' \in [Flags -> {0, 1}]
      /\ rx' \in [RxDesc -> [own : {"DMA", "CPU"}, fs : {0, 1}, ls : {0, 1}, es : {0, 1},
                            frame : Frame \cup {NONE}]]
  <2>1. CASE ScanSegment
    <3>1. RxInv' /\ segCount' \in 0 .. N_RX
      BY <1>1, <2>1, ScanSegmentRx
    <3>2. count' \in 0 .. N_RX
      BY <1>1, <2>1, Bounds DEF ScanSegment, Scanning, TypeOK
    <3> QED BY <1>1, <2>1, <3>1, <3>2, Bounds DEF ScanSegment, rxVars, TypeOK
  <2>2. CASE ScanLast
    <3>1. RxInv' /\ segCount' \in 0 .. N_RX
      BY <1>1, <2>2, ScanLastRx
    <3>2. fsDesc' \in RxDesc
      BY <1>1, <2>2 DEF ScanLast, TypeOK
    <3> QED BY <1>1, <2>2, <3>1, <3>2, Bounds DEF ScanLast, rxVars, TypeOK
  <2>3. CASE CopyFrame
    <3>1. RxInv' /\ hand' \in RxDesc
      BY <1>1, <2>3, CopyFrameRx
    <3>2. pbuf' \in Frame \cup {NONE}
      BY <1>1, <2>3 DEF CopyFrame, TypeOK
    <3>3. UNCHANGED <<rx, rxGet, segCount, fsDesc, flag>> /\ count' = 0
      BY <2>3 DEF CopyFrame, rxVars, scanVars
    <3> QED BY <1>1, <3>1, <3>2, <3>3, Bounds DEF TypeOK
  <2>4. CASE Release
    <3>1. RxInv' /\ hand' \in RxDesc /\ count' \in 0 .. N_RX
      BY <1>1, <2>4, ReleaseRx
    <3>2. rx' \in [RxDesc -> [own : {"DMA", "CPU"}, fs : {0, 1}, ls : {0, 1}, es : {0, 1},
                            frame : Frame \cup {NONE}]]
      BY <1>1, <2>4 DEF Release, TypeOK
    <3> QED BY <1>1, <2>4, <3>1, <3>2 DEF Release, scanVars, TypeOK
  <2>5. CASE Released
    <3>1. RxInv'
      BY <1>1, <2>5, ReleasedRx
    <3>2. /\ UNCHANGED <<rx, rxGet>> /\ segCount' = 0 /\ fsDesc' = 0 /\ hand' = 0
          /\ count' = 0 /\ pbuf' = NONE /\ flag' = [flag EXCEPT !["RBUS"] = 0]
      BY <2>5 DEF Released, ClearCount, ResumeRx, rxVars
    <3>3. 0 \in RxDesc /\ 0 \in 0 .. N_RX
      BY Bounds DEF RxDesc
    <3> QED BY <1>1, <3>1, <3>2, <3>3 DEF TypeOK
  <2> QED BY <2>1, <2>2, <2>3, <2>4, <2>5
<1>6. TypeOK'
  BY <1>1, <1>2, <1>5 DEF TypeOK, txVars
<1> QED BY <1>3, <1>4, <1>5, <1>6 DEF IInv

----------------------------------------------------------------------------
(* The theorems.                                                           *)

(* In the initial states the DMA owns every receive descriptor and the     *)
(* driver every transmit descriptor.                                       *)
LEMMA Initially == Init => IInv
<1> SUFFICES ASSUME Init
             PROVE  IInv
  OBVIOUS
<1>1. TypeOK
  <2>1. << >> \in Seq({"RX_READY", "RX_OVERRUN", "SLOW_TICK"})
    OBVIOUS
  <2> QED BY <2>1, Bounds DEF Init, TypeOK, Flags
<1>2. RxInv
  <2>1. Scanned = 0 /\ rxGet = rxDma
    BY DEF Init, Scanned
  <2>2. \A k \in 1 .. N_RX : Ago(k) \in RxDesc
    <3>1. \A k \in 1 .. N_RX : k \in 0 .. N_RX
      OBVIOUS
    <3> QED BY <1>1, <3>1, RxRing
  <2>3. OwnerInv(0)
    <3>1. Ago(0 - 0) = rxDma
      BY <1>1, RxRing
    <3>2. \A k \in 1 .. N_RX : rx[Ago(k)].own = "DMA" /\ ~(k <= 0)
      BY <2>2 DEF Init
    <3> QED BY <2>1, <3>1, <3>2 DEF OwnerInv
  <2>4. SegmentInv(0)
    BY DEF SegmentInv, Init
  <2>5. ScanInv(0)
    BY <2>1 DEF ScanInv, Init
  <2>6. 0 \in 0 .. N_RX
    BY Bounds
  <2> QED BY <2>3, <2>4, <2>5, <2>6 DEF RxInv
<1>3. TxInv
  <2>1. \A k \in 1 .. N_TX : Back(N_TX, txSet, k) \in TxDesc
    <3>1. \A k \in 1 .. N_TX : k \in 0 .. N_TX
      OBVIOUS
    <3> QED BY <1>1, <3>1, TxRing
  <2>2. txDma = Back(N_TX, txSet, 0)
    BY <1>1, TxRing DEF Init
  <2>3. \A k \in 1 .. N_TX : tx[Back(N_TX, txSet, k)].own = "CPU" /\ ~(k <= 0)
    BY <2>1 DEF Init
  <2>4. 0 \in 0 .. N_TX
    BY Bounds
  <2> QED BY <2>2, <2>3, <2>4 DEF TxInv, TxRun
<1>4. IrqInv
  BY DEF IrqInv, Init
<1> QED BY <1>1, <1>2, <1>3, <1>4 DEF IInv

(* The inductive invariant: every interleaving of the interrupt handler,   *)
(* LwIPMgr and the two DMA engines preserves it.                           *)
THEOREM Invariance == Spec => []IInv
<1>1. IInv /\ [Next]_vars => IInv'
  <2> SUFFICES ASSUME IInv, [Next]_vars
               PROVE  IInv'
    OBVIOUS
  <2>1. CASE UNCHANGED vars
    <3>1. UNCHANGED <<rxVars, scanVars, txVars, flag, rxIE, queue, mgrVars>>
      BY <2>1 DEF vars
    <3>2. TypeOK /\ RxInv /\ TxInv /\ IrqInv
      BY DEF IInv
    <3>3. TypeOK'
      BY <3>1, <3>2 DEF TypeOK, rxVars, scanVars, txVars, mgrVars
    <3>4. RxInv' /\ TxInv'
      BY <3>1, <3>2, RxKept, TxKept DEF mgrVars
    <3>5. IrqInv'
      BY <3>1, <3>2 DEF IrqInv, mgrVars
    <3> QED BY <3>3, <3>4, <3>5 DEF IInv
  <2>2. CASE Dispatch \/ StackDone \/ ScanNone \/ EnableRx
    BY <2>2, ManagerSafe
  <2>3. CASE ScanSegment \/ ScanLast \/ CopyFrame \/ Release \/ Released
    BY <2>3, ReceiveSafe
  <2>4. CASE Transmit
    BY <2>4, TransmitSafe
  <2>5. CASE DMA
    BY <2>5, DMASafe
  <2>6. CASE ETH_IRQHandler \/ SlowTick
    BY <2>6, InterruptSafe
  <2> QED BY <2>1, <2>2, <2>3, <2>4, <2>5, <2>6 DEF Next, Receive
<1> QED BY <1>1, Initially, PTL DEF Spec

(* Every variable keeps its type: the counts of segments stay below the    *)
(* number of descriptors.                                                  *)
THEOREM TypeCorrect == Spec => []TypeOK
<1>1. IInv => TypeOK
  BY DEF IInv
<1> QED BY <1>1, Invariance, PTL

(* The k descriptors before d are k descriptors.                           *)
LEMMA BeforeIs ==
  ASSUME TypeOK, NEW c \in 0 .. N_RX
  PROVE  /\ Before(rxDma, c) = {Ago(k) : k \in 1 .. c}
         /\ Cardinality(Before(rxDma, c)) = c
<1>1. Before(rxDma, c) = {Ago(k) : k \in 1 .. c}
  BY DEF Before, Ago, Back
<1>2. \A i, j \in 1 .. c : Ago(i) = Ago(j) => i = j
  <2>1. \A i \in 1 .. c : i \in 1 .. N_RX
    BY Bounds
  <2> QED BY <2>1, RxRing
<1> DEFINE F == [k \in 1 .. c |-> Ago(k)]
<1>3. F \in Bijection(1 .. c, {Ago(k) : k \in 1 .. c})
  BY <1>2 DEF Bijection, Injection, Surjection, IsInjective
<1>4. IsFiniteSet(1 .. c) /\ Cardinality(1 .. c) = c
  BY FS_Interval
<1> HIDE DEF F
<1>5. ExistsBijection(1 .. c, {Ago(k) : k \in 1 .. c})
  BY <1>3 DEF ExistsBijection
<1>6. Cardinality({Ago(k) : k \in 1 .. c}) = c
  BY <1>4, <1>5, FS_Bijection
<1> QED BY <1>1, <1>6

(* ETH_Get_Received_Frame_interrupt, the release loop and the DMA agree on *)
(* the receive ring at every point of their interleavings.                 *)
THEOREM RingAligned == Spec => []RxRingAligned
<1>1. ASSUME IInv
      PROVE  RxRingAligned
  <2>1. TypeOK /\ RxInv
    BY <1>1 DEF IInv
  <2>2. PICK c \in 0 .. N_RX : OwnerInv(c)
    BY <2>1 DEF RxInv
  <2>3. CpuOwned = {Ago(k) : k \in 1 .. c}
    <3>1. \A k \in 1 .. N_RX : Ago(k) \in RxDesc
      <4>1. \A k \in 1 .. N_RX : k \in 0 .. N_RX
        OBVIOUS
      <4> QED BY <2>1, <4>1, RxRing
    <3>2. \A d \in RxDesc : \E k \in 1 .. N_RX : Ago(k) = d
      <4>1. PICK e \in 0 .. N_RX - 1 : e = rxDma
        BY <2>1 DEF TypeOK, RxDesc
      <4>2. \A d \in 0 .. N_RX - 1 : \E k \in 1 .. N_RX : Back(N_RX, e, k) = d
        BY Bounds, BackUnique
      <4> QED BY <4>1, <4>2 DEF Ago, RxDesc
    <3>3. \A k \in 1 .. N_RX : k \in 1 .. c <=> k <= c
      BY Bounds
    <3>4. \A k \in 1 .. c : k \in 1 .. N_RX
      BY Bounds
    <3>5. \A k \in 1 .. N_RX : rx[Ago(k)].own = "CPU" <=> k \in 1 .. c
      BY <2>2, <3>3 DEF OwnerInv
    <3>6. ASSUME NEW d \in CpuOwned
          PROVE  d \in {Ago(k) : k \in 1 .. c}
      BY <3>2, <3>5, <3>6 DEF CpuOwned
    <3>7. ASSUME NEW k \in 1 .. c
          PROVE  Ago(k) \in CpuOwned
      BY <3>1, <3>4, <3>5 DEF CpuOwned
    <3> QED BY <3>6, <3>7
  <2>4. CpuOwned = Before(rxDma, c) /\ Cardinality(CpuOwned) = c
    BY <2>1, <2>3, BeforeIs
  <2>5. Scanned \in 0 .. c /\ rxGet = Ago(c - Scanned)
    BY <2>2 DEF OwnerInv
  <2>6. rxGet = (rxDma + N_RX - (c - Scanned)) % N_RX
    BY <2>5 DEF Ago, Back
  <2> QED BY <2>4, <2>5, <2>6 DEF RxRingAligned
<1> QED BY <1>1, Invariance, PTL

(* low_level_receive copies and releases whole frames only, however the    *)
(* DMA's segments and the scan interleave.                                 *)
THEOREM FramesWhole == Spec => []WholeFrames
<1>1. ASSUME IInv, pc = "copy"
      PROVE  /\ (First + segCount - 1) % N_RX = hand
             /\ \A k \in 0 .. segCount - 1 :
                  LET seg == rx[(First + k) % N_RX] IN
                  /\ seg.own = "CPU" /\ seg.frame = rx[hand].frame
                  /\ seg.fs = 1 <=> k = 0
                  /\ seg.ls = 1 <=> k = segCount - 1
  <2>1. TypeOK /\ RxInv
    BY <1>1 DEF IInv
  <2>2. PICK c \in 0 .. N_RX : OwnerInv(c) /\ SegmentInv(c) /\ ScanInv(c)
    BY <2>1 DEF RxInv
  <2>3. First = Ago(c) /\ Scanned = segCount /\ segCount \in 1 .. c
        /\ hand = Ago(c - segCount + 1)
    BY <1>1, <2>1, <2>2, FirstIs
  <2>4. PICK s \in 1 .. c : s = segCount
    BY <2>3
  <2>5. \A k \in 0 .. c : (First + k) % N_RX = Ago(c - k)
    <3>1. PICK e \in 0 .. N_RX - 1 : e = rxDma
      BY <2>1 DEF TypeOK, RxDesc
    <3>2. \A k \in 0 .. c : (Back(N_RX, e, c) + k) % N_RX = Back(N_RX, e, c - k)
      BY Bounds, BackForward
    <3> QED BY <2>3, <3>1, <3>2 DEF Ago
  <2>6. (First + segCount - 1) % N_RX = hand
    <3>1. s - 1 \in 0 .. c /\ c - (s - 1) = c - s + 1
      OBVIOUS
    <3>2. (First + (s - 1)) % N_RX = Ago(c - (s - 1))
      BY <2>5, <3>1
    <3>3. First + (s - 1) = First + s - 1
      <4>1. First \in Nat
        BY <2>1 DEF First, TypeOK, RxDesc
      <4> QED BY <4>1
    <3> QED BY <2>3, <2>4, <3>1, <3>2, <3>3
  <2>7. ASSUME NEW k \in 0 .. s - 1
        PROVE  /\ rx[Ago(c - k)].own = "CPU" /\ rx[Ago(c - k)].frame = rx[hand].frame
               /\ rx[Ago(c - k)].fs = 1 <=> k = 0
               /\ rx[Ago(c - k)].ls = 1 <=> k = s - 1
    <3>1. c - k \in c - s + 1 .. c /\ c - s + 1 \in c - s + 1 .. c /\ c - k \in 1 .. N_RX
          /\ c - k <= c /\ (c - k = c - s + 1 <=> k = s - 1)
      BY Bounds
    <3>2. rx[Ago(c - k)].own = "CPU"
      BY <2>2, <3>1 DEF OwnerInv
    <3>3. rx[Ago(c - k)].frame = rx[Ago(c)].frame /\ rx[hand].frame = rx[Ago(c)].frame
      BY <2>2, <2>3, <2>4, <3>1 DEF ScanInv
    <3>4. rx[Ago(c - k)].ls = 1 <=> k = s - 1
      BY <1>1, <2>2, <2>3, <2>4, <3>1 DEF ScanInv
    <3>5. rx[Ago(c - k)].fs = 1 <=> k = 0
      <4>1. CASE k = 0
        <5>1. c - k = c /\ c > 0
          BY <4>1
        <5> QED BY <1>1, <2>2, <4>1, <5>1 DEF SegmentInv
      <4>2. CASE k > 0
        <5>1. c - k \in 1 .. c - 1 /\ c - k + 1 \in c - s + 1 .. c /\ c - k + 1 # c - s + 1
          BY <4>2
        <5>2. rx[Ago(c - k + 1)].ls # 1
          BY <2>2, <2>3, <2>4, <5>1 DEF ScanInv
        <5>3. rx[Ago(c - k)].fs = 1 <=> rx[Ago(c - k + 1)].ls = 1
          BY <2>2, <5>1 DEF SegmentInv
        <5> QED BY <4>2, <5>2, <5>3
      <4> QED BY <4>1, <4>2
    <3> QED BY <3>2, <3>3, <3>4, <3>5
  <2>8. \A k \in 0 .. s - 1 : (First + k) % N_RX = Ago(c - k)
    <3>1. \A k \in 0 .. s - 1 : k \in 0 .. c
      OBVIOUS
    <3> QED BY <2>5, <3>1
  <2> QED BY <2>4, <2>6, <2>7, <2>8
<1>2. IInv => WholeFrames
  BY <1>1 DEF WholeFrames
<1> QED BY <1>2, Invariance, PTL

(* A set without two elements.                                             *)
LEMMA AtMostOne ==
  ASSUME NEW A, \A x, y \in A : x = y
  PROVE  Cardinality(A) \in {0, 1}
<1>1. CASE A = {}
  BY <1>1, FS_EmptySet
<1>2. CASE A # {}
  <2>1. PICK x : A = {x}
    BY <1>2
  <2>2. Cardinality({x}) = 1
    BY FS_Singleton
  <2> QED BY <2>1, <2>2
<1> QED BY <1>1, <1>2

(* A set of numbers without three.                                         *)
LEMMA AtMostTwo ==
  ASSUME NEW A \in SUBSET Nat, \A i, j, k \in A : ~(i < j /\ j < k)
  PROVE  Cardinality(A) \in {0, 1, 2}
<1>1. CASE \A x, y \in A : x = y
  BY <1>1, AtMostOne
<1>2. CASE \E x, y \in A : x # y
  <2>1. PICK x \in A, y \in A : x # y
    BY <1>2
  <2>2. ASSUME NEW z \in A
        PROVE  z = x \/ z = y
    <3>1. x \in Nat /\ y \in Nat /\ z \in Nat
      OBVIOUS
    <3> QED BY <2>1, <3>1
  <2>3. A = {x} \cup {y}
    BY <2>2
  <2>4. IsFiniteSet({x}) /\ Cardinality({x}) = 1 /\ y \notin {x}
    BY <2>1, FS_Singleton
  <2>5. Cardinality({x} \cup {y}) = 1 + 1
    BY <2>4, FS_AddElement
  <2> QED BY <2>3, <2>5
<1> QED BY <1>1, <1>2

(* Masking the receive interrupt until eth_driver_read has run bounds the  *)
(* events that ETH_IRQHandler queues, although it never clears RO.         *)
THEOREM IrqBounded == Spec => []IrqEventsBounded
<1>1. ASSUME IInv
      PROVE  IrqEventsBounded
  <2> DEFINE S(e) == {i \in 1 .. Len(queue) : queue[i] = e}
  <2>1. IrqInv /\ Len(queue) \in Nat
    BY <1>1 DEF IInv, TypeOK
  <2>2. \A i, j \in S("RX_READY") : i = j
    BY <2>1 DEF IrqInv
  <2>3. Cardinality(S("RX_READY")) \in {0, 1}
    BY <2>2, AtMostOne
  <2>4. \A i, j, k \in S("RX_OVERRUN") : ~(i < j /\ j < k)
    <3> SUFFICES ASSUME NEW i \in S("RX_OVERRUN"), NEW j \in S("RX_OVERRUN"),
                        NEW k \in S("RX_OVERRUN"), i < j, j < k
                 PROVE  FALSE
      OBVIOUS
    <3>1. PICK x \in i + 1 .. j - 1 : queue[x] = "RX_READY"
      BY <2>1 DEF IrqInv
    <3>2. PICK y \in j + 1 .. k - 1 : queue[y] = "RX_READY"
      BY <2>1 DEF IrqInv
    <3>3. x \in 1 .. Len(queue) /\ y \in 1 .. Len(queue) /\ x # y
      BY <2>1
    <3> QED BY <2>2, <3>1, <3>2, <3>3
  <2>5. Cardinality(S("RX_OVERRUN")) \in {0, 1, 2}
    <3>1. S("RX_OVERRUN") \in SUBSET Nat
      BY <2>1
    <3> HIDE DEF S
    <3> QED BY <2>4, <3>1, AtMostTwo
  <2>6. \A x \in {0, 1} : x <= 1
    OBVIOUS
  <2>7. \A x \in {0, 1, 2} : x <= 2
    OBVIOUS
  <2> QED BY <2>3, <2>5, <2>6, <2>7 DEF IrqEventsBounded
<1> QED BY <1>1, Invariance, PTL

(* low_level_transmit writes into the buffer of a descriptor that the DMA  *)
(* still owns only when the DMA owns them all.                             *)
THEOREM BuffersIntact == Spec => FramesIntact
<1>1. ASSUME IInv, tx[txSet].own = "DMA"
      PROVE  \A d \in TxDesc : tx[d].own = "DMA"
  <2>1. TypeOK /\ N_TX \in Nat \ {0}
    BY <1>1, Bounds DEF IInv
  <2>2. PICK t \in 0 .. N_TX : TxRun(t)
    BY <1>1 DEF IInv, TxInv
  <2>3. N_TX <= t
    <3>1. N_TX \in 1 .. N_TX /\ Back(N_TX, txSet, N_TX) = txSet
      BY <2>1, TxRing
    <3> QED BY <1>1, <2>2, <3>1 DEF TxRun
  <2>4. \A k \in 1 .. N_TX : k <= t
    BY <2>1, <2>3
  <2>5. \A k \in 1 .. N_TX : tx[Back(N_TX, txSet, k)].own = "DMA"
    BY <2>2, <2>4 DEF TxRun
  <2> QED BY <2>1, <2>5, TxRing
<1>2. IInv => [pc = "stack" /\ pc' = "prepare" /\ tx[txSet].own = "DMA"
                 => \A d \in TxDesc : tx[d].own = "DMA"]_vars
  BY <1>1
<1> QED BY <1>2, Invariance, PTL DEF FramesIntact
=============================================================================
