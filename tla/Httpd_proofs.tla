---------------------------- MODULE Httpd_proofs ----------------------------
(***************************************************************************)
(* Safety of the HTTP server for every set of files, every insert, every   *)
(* size of the send buffer and every number of connections.                *)
(***************************************************************************)
EXTENDS Httpd, FiniteSetTheorems, SequenceTheorems, WellFoundedInduction, TLAPS

----------------------------------------------------------------------------
(* Numbers and files.                                                      *)

(* A set of natural numbers has a least element.                           *)
LEMMA LeastNat ==
  ASSUME NEW S \in SUBSET Nat, S # {}
  PROVE  \E m \in S : \A k \in S : m <= k
<1>1. \E R : IsWellFoundedOn(R, Nat) /\ \A x, y \in Nat : <<y, x>> \in R <=> y < x
  <2>1. \A x, y \in Nat : <<y, x>> \in OpToRel(<, Nat) <=> y < x
    BY DEF OpToRel
  <2> WITNESS OpToRel(<, Nat)
  <2> QED BY <2>1, NatLessThanWellFounded, Zenon
<1>2. PICK R : IsWellFoundedOn(R, Nat) /\ \A x, y \in Nat : <<y, x>> \in R <=> y < x
  BY <1>1
<1>3. PICK x \in S : \A y \in S : ~ (<<y, x>> \in R)
  BY <1>2, WFMin
<1>4. \A y \in S : ~ (y < x)
  BY <1>2, <1>3, S \subseteq Nat, Zenon
<1> QED BY <1>4

(* The comparisons of send_data compute the least of several lengths.      *)
LEMMA LeastIs ==
  ASSUME NEW S \in SUBSET Nat, S # {}
  PROVE  Least(S) \in S /\ Least(S) \in Nat /\ \A k \in S : Least(S) <= k
<1>1. \E m \in S : \A k \in S : m <= k
  BY LeastNat
<1> QED BY <1>1 DEF Least

(* What the loop around tcp_write comes to.                                *)
LEMMA WriteOutcome ==
  ASSUME NEW len \in Nat, NEW room \in Nat, NEW w \in WriteLoop(len, room)
  PROVE  /\ w.err \in {"OK", "MEM"} /\ w.len \in Nat
         /\ w.err = "OK" => w.len <= len /\ w.len <= room
<1>1. \A n \in Tried(len) : n \in Nat /\ n <= len
  BY DEF Tried
<1>2. CASE \E n \in {m \in Tried(len) : m <= room} : w = [err |-> "OK", len |-> n]
  BY <1>1, <1>2
<1>3. CASE w = [err |-> "MEM", len |-> IF len = 1 THEN 0 ELSE 1]
  BY <1>3
<1> QED BY <1>2, <1>3 DEF WriteLoop

(* Files and pieces are sequences of bytes.                                *)
LEMMA FileType ==
  ASSUME NEW f \in Name
  PROVE  /\ Content[f] \in Seq(Byte) /\ Len(Content[f]) \in Nat \ {0} /\ Insert \in Seq(Byte)
         /\ \A k \in 1..Len(Content[f]) : Content[f][k] \in Byte /\ Piece(f, k) \in Seq(Byte)
<1>1. Content[f] \in Seq(Byte) /\ Len(Content[f]) \in Nat \ {0} /\ Insert \in Seq(Byte)
  BY HttpdAssumption
<1>2. ASSUME NEW k \in 1..Len(Content[f])
      PROVE  Content[f][k] \in Byte /\ Piece(f, k) \in Seq(Byte)
  <2>1. Content[f][k] \in Byte
    BY <1>1, ElementOfSeq
  <2>2. <<Content[f][k]>> \in Seq(Byte)
    BY <2>1
  <2>3. <<Content[f][k]>> \o Insert \in Seq(Byte)
    BY <1>1, <2>2, ConcatProperties
  <2> QED BY <2>1, <2>2, <2>3 DEF Piece
<1> QED BY <1>1, <1>2

(* Concatenation is associative.                                           *)
LEMMA Assoc ==
  \A s, t, u \in Seq(Byte) : (s \o t) \o u = s \o (t \o u)
BY ConcatAssociative

(* The recursion of UpTo has a solution up to n.                           *)
Solvable(f, n) == \E g : g = [k \in 0..n |-> IF k = 0 THEN << >> ELSE g[k - 1] \o Piece(f, k)]
(* It has one up to the end of the file.                                   *)
LEMMA UpToExists ==
  ASSUME NEW f \in Name
  PROVE  \A n \in Nat : n <= Len(Content[f]) => Solvable(f, n)
<1> DEFINE Bad == {n \in Nat : n <= Len(Content[f]) /\ ~Solvable(f, n)}
<1> SUFFICES ASSUME Bad # {} PROVE FALSE
  OBVIOUS
<1>1. PICK n \in Bad : \A m \in Bad : n <= m
  BY LeastNat
<1>2. Len(Content[f]) \in Nat
  BY FileType
<1>3. CASE n = 0
  <2> DEFINE h == [k \in 0..0 |-> << >>]
  <2>1. h = [k \in 0..n |-> IF k = 0 THEN << >> ELSE h[k - 1] \o Piece(f, k)]
    BY <1>3
  <2> QED BY <1>1, <2>1 DEF Solvable
<1>4. CASE n # 0
  <2>1. Solvable(f, n - 1)
    <3>1. n - 1 \in Nat /\ n - 1 <= Len(Content[f]) /\ n - 1 \notin Bad
      BY <1>1, <1>2, <1>4
    <3> QED BY <3>1
  <2>2. PICK g : g = [k \in 0..(n - 1) |-> IF k = 0 THEN << >> ELSE g[k - 1] \o Piece(f, k)]
    BY <2>1 DEF Solvable
  <2> DEFINE h == [k \in 0..n |-> IF k = n THEN g[n - 1] \o Piece(f, n) ELSE g[k]]
  <2>3. \A k \in 0..n : h[k] = IF k = 0 THEN << >> ELSE h[k - 1] \o Piece(f, k)
    <3> SUFFICES ASSUME NEW k \in 0..n
                 PROVE  h[k] = IF k = 0 THEN << >> ELSE h[k - 1] \o Piece(f, k)
      OBVIOUS
    <3>1. CASE k = n
      <4>1. h[k - 1] = g[n - 1]
        BY <1>4, <3>1
      <4> QED BY <1>4, <3>1, <4>1
    <3>2. CASE k # n /\ k # 0
      <4>1. k \in 0..(n - 1) /\ h[k - 1] = g[k - 1] /\ h[k] = g[k]
        BY <3>2
      <4>2. g[k] = g[k - 1] \o Piece(f, k)
        BY <2>2, <3>2, <4>1
      <4> QED BY <3>2, <4>1, <4>2
    <3>3. CASE k = 0
      <4>1. k \in 0..(n - 1) /\ h[k] = g[k]
        BY <1>4, <3>3
      <4>2. g[k] = << >>
        BY <2>2, <3>3, <4>1
      <4> QED BY <3>3, <4>1, <4>2
    <3> QED BY <3>1, <3>2, <3>3
  <2>4. h = [k \in 0..n |-> IF k = 0 THEN << >> ELSE h[k - 1] \o Piece(f, k)]
    <3> DEFINE e == [k \in 0..n |-> IF k = 0 THEN << >> ELSE h[k - 1] \o Piece(f, k)]
    <3>1. \A k \in 0..n : h[k] = e[k]
      BY <2>3
    <3>2. DOMAIN h = 0..n /\ DOMAIN e = 0..n
      OBVIOUS
    <3> QED BY <3>1, <3>2
  <2> HIDE DEF h
  <2> QED BY <1>1, <2>4 DEF Solvable
<1> QED BY <1>3, <1>4

(* The reply up to byte k of the file.                                     *)
LEMMA UpToIs ==
  ASSUME NEW f \in Name
  PROVE  /\ UpTo(f)[0] = << >>
         /\ \A k \in 1..Len(Content[f]) : UpTo(f)[k] = UpTo(f)[k - 1] \o Piece(f, k)
         /\ \A k \in 0..Len(Content[f]) : UpTo(f)[k] \in Seq(Byte)
<1>1. Len(Content[f]) \in Nat
  BY FileType
<1>2. \E g : g = [k \in 0..Len(Content[f]) |-> IF k = 0 THEN << >> ELSE g[k - 1] \o Piece(f, k)]
  <2>1. Solvable(f, Len(Content[f]))
    BY <1>1, UpToExists
  <2> QED BY <2>1, Zenon DEF Solvable
<1>3. UpTo(f) = [k \in 0..Len(Content[f]) |-> IF k = 0 THEN << >> ELSE UpTo(f)[k - 1] \o Piece(f, k)]
  BY <1>2, Zenon DEF UpTo
<1>3a. \A k \in 0..Len(Content[f]) :
         UpTo(f)[k] = IF k = 0 THEN << >> ELSE UpTo(f)[k - 1] \o Piece(f, k)
  BY <1>3, Zenon
<1>4. UpTo(f)[0] = << >>
  BY <1>1, <1>3a
<1>5. ASSUME NEW k \in 1..Len(Content[f])
      PROVE  UpTo(f)[k] = UpTo(f)[k - 1] \o Piece(f, k)
  <2>1. k \in 0..Len(Content[f]) /\ k # 0
    BY <1>1
  <2> QED BY <1>3a, <2>1, Zenon
<1> DEFINE Bad == {n \in Nat : n <= Len(Content[f]) /\ UpTo(f)[n] \notin Seq(Byte)}
<1>6. Bad = {}
  <2> SUFFICES ASSUME Bad # {} PROVE FALSE
    OBVIOUS
  <2>1. PICK n \in Bad : \A m \in Bad : n <= m
    BY LeastNat
  <2>2. n # 0
    BY <1>4, <2>1, EmptySeq
  <2>3. n - 1 \in Nat /\ n - 1 <= Len(Content[f]) /\ n \in 1..Len(Content[f]) /\ n - 1 \notin Bad
    BY <1>1, <2>1, <2>2
  <2>4. UpTo(f)[n - 1] \in Seq(Byte) /\ Piece(f, n) \in Seq(Byte)
    BY <2>3, FileType
  <2>5. UpTo(f)[n] = UpTo(f)[n - 1] \o Piece(f, n)
    BY <1>5, <2>3
  <2>6. UpTo(f)[n - 1] \o Piece(f, n) \in Seq(Byte)
    BY <2>4, ConcatProperties
  <2> QED BY <2>1, <2>5, <2>6
<1> QED BY <1>1, <1>4, <1>5, <1>6

----------------------------------------------------------------------------
(* The inductive invariant.                                                *)

PcbType ==
  [state : {"none", "estab", "fin"}, arg : BOOLEAN, recv : BOOLEAN, sent : BOOLEAN,
   unacked : 0..SND_BUF, out : Seq(Byte), reply : Name \cup {NONE}, done : BOOLEAN]
StateType ==
  [live : BOOLEAN, handle : 0..MAX_OPEN_FILES, uri : Name \cup {NONE}, file : Nat, parsed : Nat,
   tag_check : BOOLEAN, tag_state : {"none", "sending"}, tag_index : Nat, tag_end : Nat,
   retries : 0..MAX_RETRIES - 1]
CallType ==
  [conn : Conn \cup {NONE}, at : {"idle", "send", "parse"}, len : Nat, err : {"OK", "MEM"},
   fromSent : BOOLEAN]
Types ==
  /\ pcb \in [Conn -> PcbType] /\ hs \in [Conn -> StateType] /\ cb \in CallType
  /\ inuse \subseteq 1..MAX_OPEN_FILES /\ leaked \in BOOLEAN

(* How the pcb p and the http_state h of a connection go together.         *)
SocketInv(p, h) ==
  /\ p.arg = h.live
  /\ p.recv => p.arg
  /\ p.state = "none" => p = NoPcb
  /\ ~h.live => h = NoState
  /\ h.live => p.state = "estab" /\ p.reply = h.uri /\ ~p.done
  /\ h.handle # 0 <=> h.uri # NONE
  /\ h.handle = 0 => /\ h.file = 0 /\ h.parsed = 0
                     /\ h.tag_state = "none" /\ ~h.tag_check

(* The bytes i + 1 .. j of the file f are sent as they are.                *)
Plain(f, i, j) == \A k \in i + 1..j : Piece(f, k) = <<Content[f][k]>>

(* What is written once the tag at byte i and n bytes of its insert are.   *)
ThroughTag(f, i, n) == UpTo(f)[i - 1] \o (<<Content[f][i]>> \o SubSeq(Insert, 1, n))

(* How far the server is: what was written is all up to byte h.file, or,   *)
(* once the tag at h.tag_end is written, that and h.tag_index bytes of the *)
(* insert.                                                                 *)
Sending(out, f, h) ==
  /\ h.file \in 0..Len(Content[f]) /\ h.parsed \in 0..Len(Content[f])
  /\ h.tag_check <=> f \in Shtml
  /\ \/ /\ h.tag_state = "none" /\ out = UpTo(f)[h.file]
        /\ h.tag_check => h.file <= h.parsed /\ Plain(f, h.file, h.parsed)
     \/ /\ h.tag_state = "sending" /\ h.tag_check
        /\ h.tag_end = h.parsed /\ h.parsed \in 1..Len(Content[f])
        /\ Content[f][h.parsed] \in Tags
        /\ h.file <= h.parsed /\ Plain(f, h.file, h.parsed - 1)
        /\ h.tag_index \in 0..Len(Insert)
        /\ h.file < h.parsed => h.tag_index = 0 /\ out = UpTo(f)[h.file]
        /\ h.file = h.parsed => out = ThroughTag(f, h.file, h.tag_index)

(* What was written to a connection that is closed.                        *)
Begins(s, r) == \E t \in Seq(Byte) : r = s \o t
Closed(p) == p.reply # NONE =>
  Begins(p.out, Reply(p.reply)) /\ (p.done => p.out = Reply(p.reply))

StreamInv(p, h) ==
  /\ h.live /\ h.handle = 0 => p.out = << >>
  /\ h.handle # 0 => Sending(p.out, h.uri, h)
  /\ ~h.live => Closed(p)

ConnInv(p, h) == SocketInv(p, h) /\ StreamInv(p, h)

(* The call of send_data in progress has a connection with its state.      *)
CallInv ==
  cb # NoCall =>
    /\ cb.conn \in Conn /\ cb.at \in {"send", "parse"} /\ hs[cb.conn].live
    /\ cb.at = "parse" => hs[cb.conn].handle # 0 /\ hs[cb.conn].tag_check

IInv ==
  /\ Types
  /\ \A c \in Conn : ConnInv(pcb[c], hs[c])
  /\ CallInv /\ HandlesExact
----------------------------------------------------------------------------
(* How the reply grows.                                                    *)

(* Bytes without a tag extend the reply by themselves.                     *)
LEMMA Advance ==
  ASSUME NEW f \in Name, NEW i \in 0..Len(Content[f]), NEW j \in i..Len(Content[f]),
         Plain(f, i, j)
  PROVE  UpTo(f)[j] = UpTo(f)[i] \o SubSeq(Content[f], i + 1, j)
<1> DEFINE len    == Len(Content[f])
           Cut(n) == SubSeq(Content[f], i + 1, n)
           Bad    == {n \in Nat : n \in i..j /\ UpTo(f)[n] # UpTo(f)[i] \o Cut(n)}
<1>1. len \in Nat /\ i \in Nat /\ j \in Nat /\ i <= j /\ j <= len /\ Content[f] \in Seq(Byte)
  BY FileType
<1>2. UpTo(f)[i] \in Seq(Byte)
  BY <1>1, UpToIs
<1>3. Bad = {}
  <2> SUFFICES ASSUME Bad # {} PROVE FALSE
    OBVIOUS
  <2>1. PICK n \in Bad : \A m \in Bad : n <= m
    BY LeastNat
  <2>2. n # i
    <3>1. Cut(i) = << >>
      BY <1>1, SubSeqEmpty
    <3>2. UpTo(f)[i] \o << >> = UpTo(f)[i]
      BY <1>2, ConcatEmptySeq
    <3> QED BY <2>1, <3>1, <3>2
  <2>3. n \in i + 1..j /\ n - 1 \in i..j /\ n - 1 \in Nat /\ n - 1 \notin Bad /\ n \in 1..len
    <3>1. n \in Nat /\ n \in i..j
      OBVIOUS
    <3> HIDE DEF Bad
    <3> QED BY <1>1, <2>1, <2>2, <3>1
  <2>4. UpTo(f)[n] = UpTo(f)[n - 1] \o Piece(f, n)
    BY <2>3, UpToIs
  <2>5. Piece(f, n) = <<Content[f][n]>> /\ <<Content[f][n]>> \in Seq(Byte)
    BY <2>3, FileType DEF Plain
  <2>6. UpTo(f)[n - 1] = UpTo(f)[i] \o Cut(n - 1)
    BY <2>3
  <2>7. Cut(n) = Cut(n - 1) \o <<Content[f][n]>>
    BY <1>1, <2>3, i + 1 \in 1..len, n \in i + 1..len, SubSeqRecursiveSecond
  <2>8. Cut(n - 1) \in Seq(Byte)
    <3>1. \A k \in i + 1..n - 1 : Content[f][k] \in Byte
      BY <1>1, <2>3, FileType
    <3> QED BY <1>1, <2>3, <3>1, SubSeqProperties
  <2> HIDE DEF Cut
  <2>9. (UpTo(f)[i] \o Cut(n - 1)) \o <<Content[f][n]>> = UpTo(f)[i] \o (Cut(n - 1) \o <<Content[f][n]>>)
    <3> DEFINE a == UpTo(f)[i]
               b == Cut(n - 1)
               d == <<Content[f][n]>>
    <3>1. a \in Seq(Byte) /\ b \in Seq(Byte) /\ d \in Seq(Byte)
      BY <1>2, <2>5, <2>8
    <3> HIDE DEF a, b, d
    <3>2. (a \o b) \o d = a \o (b \o d)
      BY <3>1, Assoc
    <3> QED BY <3>2 DEF a, b, d
  <2>10. UpTo(f)[n] = UpTo(f)[i] \o Cut(n)
    BY <2>4, <2>5, <2>6, <2>7, <2>9
  <2> QED BY <2>1, <2>10
<1>4. j \in Nat /\ j \in i..j
  BY <1>1
<1>4a. j \notin Bad
  BY <1>3
<1>5. UpTo(f)[j] = UpTo(f)[i] \o Cut(j)
  <2> HIDE DEF Cut
  <2> QED BY <1>4, <1>4a
<1> QED BY <1>5

(* The same up to a tag: its insert is still missing.                      *)
LEMMA AdvanceToTag ==
  ASSUME NEW f \in Name, NEW j \in 1..Len(Content[f]), NEW i \in 0..j - 1,
         Plain(f, i, j - 1)
  PROVE  UpTo(f)[j - 1] \o <<Content[f][j]>> = UpTo(f)[i] \o SubSeq(Content[f], i + 1, j)
<1> DEFINE len == Len(Content[f])
           cut == SubSeq(Content[f], i + 1, j - 1)
<1>1. /\ len \in Nat /\ i \in 0..len /\ j - 1 \in i..len /\ Content[f] \in Seq(Byte)
      /\ i + 1 \in 1..len /\ j \in i + 1..len
  BY FileType
<1>2. UpTo(f)[i] \in Seq(Byte) /\ <<Content[f][j]>> \in Seq(Byte)
  BY <1>1, UpToIs, FileType
<1>3. UpTo(f)[j - 1] = UpTo(f)[i] \o cut
  BY <1>1, Advance
<1>4. SubSeq(Content[f], i + 1, j) = cut \o <<Content[f][j]>>
  BY <1>1, SubSeqRecursiveSecond
<1>5. cut \in Seq(Byte)
  <2>1. \A k \in i + 1..j - 1 : Content[f][k] \in Byte
    BY <1>1, FileType
  <2> QED BY <1>1, <2>1, SubSeqProperties
<1> HIDE DEF cut
<1>6. (UpTo(f)[i] \o cut) \o <<Content[f][j]>> = UpTo(f)[i] \o (cut \o <<Content[f][j]>>)
  <2> DEFINE a == UpTo(f)[i]
             d == <<Content[f][j]>>
  <2>1. a \in Seq(Byte) /\ d \in Seq(Byte)
    BY <1>2
  <2> HIDE DEF a, d
  <2>2. (a \o cut) \o d = a \o (cut \o d)
    BY <1>5, <2>1, Assoc
  <2> QED BY <2>2 DEF a, d
<1> QED BY <1>3, <1>4, <1>6

(* The reply up to a byte is a beginning of the reply.                     *)
LEMMA UpToBegins ==
  ASSUME NEW f \in Name, NEW i \in 0..Len(Content[f])
  PROVE  Begins(UpTo(f)[i], Reply(f))
<1> DEFINE len == Len(Content[f])
           Bad == {n \in Nat : i + n <= len /\ ~Begins(UpTo(f)[i], UpTo(f)[i + n])}
<1>1. len \in Nat /\ i \in Nat /\ UpTo(f)[i] \in Seq(Byte)
  BY FileType, UpToIs
<1>2. Bad = {}
  <2> SUFFICES ASSUME Bad # {} PROVE FALSE
    OBVIOUS
  <2>1. PICK n \in Bad : \A m \in Bad : n <= m
    BY LeastNat
  <2>2. n # 0
    <3>1. UpTo(f)[i] \o << >> = UpTo(f)[i] /\ << >> \in Seq(Byte)
      BY <1>1, ConcatEmptySeq
    <3>2. Begins(UpTo(f)[i], UpTo(f)[i])
      BY <3>1 DEF Begins
    <3> QED BY <1>1, <2>1, <3>2
  <2>3. n - 1 \in Nat /\ n - 1 \notin Bad /\ i + (n - 1) <= len /\ i + n \in 1..len
    <3>1. n \in Nat /\ i + n <= len
      OBVIOUS
    <3> HIDE DEF Bad
    <3> QED BY <1>1, <2>1, <2>2, <3>1
  <2>4. PICK t \in Seq(Byte) : UpTo(f)[i + (n - 1)] = UpTo(f)[i] \o t
    BY <2>3 DEF Begins
  <2>5. UpTo(f)[i + n] = UpTo(f)[i + (n - 1)] \o Piece(f, i + n) /\ Piece(f, i + n) \in Seq(Byte)
    <3>1. (i + n) - 1 = i + (n - 1)
      BY <1>1, <2>3
    <3> QED BY <2>3, <3>1, UpToIs, FileType
  <2>6. UpTo(f)[i + n] = UpTo(f)[i] \o (t \o Piece(f, i + n)) /\ t \o Piece(f, i + n) \in Seq(Byte)
    <3>1. (UpTo(f)[i] \o t) \o Piece(f, i + n) = UpTo(f)[i] \o (t \o Piece(f, i + n))
      BY <1>1, <2>5, Assoc
    <3> QED BY <2>4, <2>5, <3>1, ConcatProperties
  <2>7. Begins(UpTo(f)[i], UpTo(f)[i + n])
    BY <2>6 DEF Begins
  <2> QED BY <2>1, <2>7
<1>3. len - i \in Nat /\ i + (len - i) = len
  BY <1>1
<1>4. len - i \notin Bad
  BY <1>2
<1>5. Begins(UpTo(f)[i], UpTo(f)[i + (len - i)])
  BY <1>1, <1>3, <1>4
<1> QED BY <1>3, <1>5 DEF Reply

(* So is what was written in the middle of an insert.                      *)
LEMMA InsertBegins ==
  ASSUME NEW f \in Name, NEW i \in 1..Len(Content[f]), f \in Shtml, Content[f][i] \in Tags,
         NEW n \in 0..Len(Insert)
  PROVE  Begins(ThroughTag(f, i, n), Reply(f))
<1> DEFINE a == UpTo(f)[i - 1]
           b == <<Content[f][i]>>
           s == SubSeq(Insert, 1, n)
           r == SubSeq(Insert, n + 1, Len(Insert))
<1>1. Insert \in Seq(Byte) /\ Len(Insert) \in Nat /\ Len(Content[f]) \in Nat
  BY FileType
<1>2. a \in Seq(Byte) /\ b \in Seq(Byte)
  <2>1. i - 1 \in 0..Len(Content[f])
    BY <1>1
  <2> QED BY <2>1, UpToIs, FileType
<1>3. s \in Seq(Byte) /\ r \in Seq(Byte)
  <2>1. \A k \in 1..Len(Insert) : Insert[k] \in Byte
    BY <1>1, ElementOfSeq
  <2> QED BY <1>1, <2>1, SubSeqProperties
<1>4. s \o r = Insert
  <2>1. 1 \in 1..Len(Insert) + 1 /\ n \in 1 - 1..Len(Insert) /\ Len(Insert) \in n..Len(Insert)
    BY <1>1
  <2>2. s \o r = SubSeq(Insert, 1, Len(Insert))
    BY <1>1, <2>1, ConcatAdjacentSubSeq
  <2> QED BY <1>1, <2>2, SubSeqFull
<1>5. UpTo(f)[i] = a \o (b \o Insert)
  BY UpToIs DEF Piece
<1> HIDE DEF a, b, s, r
<1>6. (a \o (b \o s)) \o r = a \o (b \o Insert)
  <2>1. b \o s \in Seq(Byte)
    BY <1>2, <1>3, ConcatProperties
  <2>2. (a \o (b \o s)) \o r = a \o ((b \o s) \o r)
    BY <1>2, <1>3, <2>1, Assoc
  <2>3. (b \o s) \o r = b \o (s \o r)
    BY <1>2, <1>3, Assoc
  <2> QED BY <1>4, <2>2, <2>3
<1>7. PICK t \in Seq(Byte) : Reply(f) = UpTo(f)[i] \o t
  <2>1. i \in 0..Len(Content[f])
    BY <1>1
  <2>2. Begins(UpTo(f)[i], Reply(f))
    BY <2>1, UpToBegins
  <2> QED BY <2>2 DEF Begins
<1>8. a \o (b \o s) \in Seq(Byte)
  BY <1>2, <1>3, ConcatProperties
<1>9. Reply(f) = (a \o (b \o s)) \o (r \o t) /\ r \o t \in Seq(Byte)
  <2>1. ((a \o (b \o s)) \o r) \o t = (a \o (b \o s)) \o (r \o t)
    BY <1>3, <1>8, Assoc
  <2> QED BY <1>3, <1>5, <1>6, <1>7, <2>1, ConcatProperties
<1>10. Begins(a \o (b \o s), Reply(f))
  BY <1>9 DEF Begins
<1> QED BY <1>10 DEF a, b, s, ThroughTag

(* What is written to a connection in mid-reply is a beginning of it.      *)
LEMMA SendingBegins ==
  ASSUME NEW f \in Name, NEW out, NEW h, Sending(out, f, h)
  PROVE  Begins(out, Reply(f))
<1>1. CASE out = UpTo(f)[h.file]
  BY <1>1, UpToBegins DEF Sending
<1>2. CASE /\ h.file \in 1..Len(Content[f]) /\ f \in Shtml /\ Content[f][h.file] \in Tags
           /\ h.tag_index \in 0..Len(Insert)
           /\ out = ThroughTag(f, h.file, h.tag_index)
  BY <1>2, InsertBegins
<1> QED BY <1>1, <1>2 DEF Sending

(* At the end of the file all of the reply is written.                     *)
LEMMA SendingEnds ==
  ASSUME NEW f \in Name, NEW out, NEW h, Sending(out, f, h), h.file = Len(Content[f])
  PROVE  out = Reply(f)
<1>1. Len(Content[f]) \in Nat
  BY FileType
<1>2. CASE h.tag_state = "none"
  BY <1>2 DEF Sending, Reply
<1>3. CASE h.tag_state # "none"
  <2>1. f \in Shtml /\ Content[f][h.parsed] \in Tags /\ h.parsed = Len(Content[f])
    BY <1>1, <1>3 DEF Sending
  <2> QED BY <2>1, LastIsText
<1> QED BY <1>2, <1>3

(* A beginning is a beginning in the sense of StreamIntact.               *)
LEMMA BeginsIs ==
  ASSUME NEW s \in Seq(Byte), NEW r, Begins(s, r)
  PROVE  Len(s) <= Len(r) /\ s = SubSeq(r, 1, Len(s))
<1>1. PICK t \in Seq(Byte) : r = s \o t
  BY DEF Begins
<1>2. /\ r \in Seq(Byte) /\ Len(r) = Len(s) + Len(t) /\ Len(s) \in Nat /\ Len(t) \in Nat
      /\ \A i \in 1..Len(s) : r[i] = s[i]
  BY <1>1, ConcatProperties
<1>3. /\ SubSeq(r, 1, Len(s)) \in Seq(Byte) /\ Len(SubSeq(r, 1, Len(s))) = Len(s)
      /\ \A i \in 1..Len(s) : SubSeq(r, 1, Len(s))[i] = r[i]
  BY <1>2
<1>4. \A i \in 1..Len(s) : SubSeq(r, 1, Len(s))[i] = s[i]
  BY <1>2, <1>3
<1> QED BY <1>2, <1>3, <1>4, SeqEqual

(* n more bytes of the file are written.                                   *)
LEMMA SendBytes ==
  ASSUME NEW f \in Name, NEW out \in Seq(Byte), NEW h \in StateType, NEW n \in Nat,
         Sending(out, f, h), h.file + n <= Len(Content[f]),
         h.tag_check => h.file + n <= h.parsed
  PROVE  Sending(out \o SubSeq(Content[f], h.file + 1, h.file + n), f, [h EXCEPT !.file = h.file + n])
<1> DEFINE len == Len(Content[f])
           i   == h.file
           j   == h.file + n
           h1  == [h EXCEPT !.file = h.file + n]
           cut == SubSeq(Content[f], i + 1, j)
<1>1. /\ len \in Nat /\ i \in 0..len /\ j \in i..len /\ h.parsed \in 0..len
      /\ Content[f] \in Seq(Byte) /\ Insert \in Seq(Byte)
  BY FileType DEF Sending, StateType
<1>2. /\ h1.file = j /\ h1.parsed = h.parsed /\ h1.tag_check = h.tag_check
      /\ h1.tag_state = h.tag_state /\ h1.tag_end = h.tag_end /\ h1.tag_index = h.tag_index
  BY DEF StateType
<1>3. CASE h.tag_state = "none"
  <2>1. Plain(f, i, j)
    <3>1. CASE h.tag_check
      BY <1>1, <1>3, <3>1 DEF Sending, Plain
    <3>2. CASE ~h.tag_check
      BY <3>2 DEF Sending, Plain, Piece
    <3> QED BY <3>1, <3>2
  <2>2. out \o cut = UpTo(f)[j]
    BY <1>1, <1>3, <2>1, Advance DEF Sending
  <2>3. h.tag_check => j <= h.parsed /\ Plain(f, j, h.parsed)
    BY <1>1, <1>3 DEF Sending, Plain
  <2> HIDE DEF cut, h1
  <2>4. Sending(out \o cut, f, h1)
    BY <1>1, <1>2, <1>3, <2>2, <2>3 DEF Sending
  <2> QED BY <2>4 DEF cut, h1
<1>4. CASE h.tag_state = "sending"
  <2>1. /\ h.tag_check /\ h.tag_end = h.parsed /\ h.parsed \in 1..len /\ i <= h.parsed
        /\ j <= h.parsed /\ Content[f][h.parsed] \in Tags /\ Plain(f, i, h.parsed - 1)
        /\ h.tag_index \in 0..Len(Insert) /\ (h.tag_check <=> f \in Shtml)
    BY <1>1, <1>4 DEF Sending
  <2>2. Plain(f, j, h.parsed - 1)
    BY <1>1, <2>1 DEF Plain
  <2>3. CASE n = 0
    <3>1. cut = << >>
      BY <1>1, <2>3, SubSeqEmpty
    <3>2. out \o cut = out
      BY <3>1, ConcatEmptySeq
    <3>3. h1 = h
      BY <2>3 DEF StateType
    <3> HIDE DEF cut, h1
    <3>4. Sending(out \o cut, f, h1)
      BY <3>2, <3>3
    <3> QED BY <3>4 DEF cut, h1
  <2>4. CASE n # 0 /\ j < h.parsed
    <3>1. h.tag_index = 0 /\ out = UpTo(f)[i]
      BY <1>1, <1>4, <2>1, <2>4 DEF Sending
    <3>2. Plain(f, i, j)
      BY <1>1, <2>1, <2>4 DEF Plain
    <3>3. out \o cut = UpTo(f)[j]
      BY <1>1, <3>1, <3>2, Advance
    <3> HIDE DEF cut, h1
    <3>4. Sending(out \o cut, f, h1)
      BY <1>1, <1>2, <1>4, <2>1, <2>2, <2>4, <3>1, <3>3 DEF Sending
    <3> QED BY <3>4 DEF cut, h1
  <2>5. CASE n # 0 /\ j = h.parsed
    <3>1. h.tag_index = 0 /\ out = UpTo(f)[i] /\ j \in 1..len /\ i \in 0..j - 1
      BY <1>1, <1>4, <2>1, <2>5 DEF Sending
    <3>2. out \o cut = UpTo(f)[j - 1] \o <<Content[f][j]>>
      BY <2>1, <2>5, <3>1, AdvanceToTag
    <3>3. <<Content[f][j]>> \o SubSeq(Insert, 1, 0) = <<Content[f][j]>>
      <4>1. SubSeq(Insert, 1, 0) = << >>
        BY <1>1, SubSeqEmpty
      <4>2. <<Content[f][j]>> \in Seq(Byte)
        BY <3>1, FileType
      <4> QED BY <4>1, <4>2, ConcatEmptySeq
    <3> HIDE DEF cut, h1
    <3>4. out \o cut = ThroughTag(f, h1.file, h1.tag_index)
      BY <1>2, <3>1, <3>2, <3>3 DEF ThroughTag
    <3>5. Sending(out \o cut, f, h1)
      BY <1>1, <1>2, <1>4, <2>1, <2>2, <2>5, <3>4 DEF Sending
    <3> QED BY <3>5 DEF cut, h1
  <2> QED BY <1>1, <2>1, <2>3, <2>4, <2>5
<1> QED BY <1>3, <1>4 DEF Sending

(* The scan for a tag ends without one.                                    *)
LEMMA ScanToEnd ==
  ASSUME NEW f \in Name, NEW out, NEW h \in StateType, Sending(out, f, h),
         h.tag_state = "none", h.tag_check, NextTag(f, h.parsed) = {}
  PROVE  Sending(out, f, [h EXCEPT !.parsed = Len(Content[f])])
<1> DEFINE h1 == [h EXCEPT !.parsed = Len(Content[f])]
<1>1. Len(Content[f]) \in Nat
  BY FileType
<1>2. /\ h1.file = h.file /\ h1.parsed = Len(Content[f]) /\ h1.tag_check = h.tag_check
      /\ h1.tag_state = h.tag_state
  BY DEF StateType
<1>3. Plain(f, h.file, Len(Content[f]))
  BY <1>1 DEF Sending, Plain, NextTag, Piece
<1> HIDE DEF h1
<1>4. Sending(out, f, h1)
  BY <1>1, <1>2, <1>3 DEF Sending
<1> QED BY <1>4 DEF h1

(* The scan finds the next tag.                                            *)
LEMMA ScanToTag ==
  ASSUME NEW f \in Name, NEW out, NEW h \in StateType, Sending(out, f, h),
         h.tag_state = "none", h.tag_check, NextTag(f, h.parsed) # {}
  PROVE  LET k  == Least(NextTag(f, h.parsed))
             h1 == [h EXCEPT !.parsed = k, !.tag_end = k, !.tag_index = 0, !.tag_state = "sending"]
         IN  k \in 1..Len(Content[f]) /\ h.file < k /\ Sending(out, f, h1)
<1> DEFINE k  == Least(NextTag(f, h.parsed))
           h1 == [h EXCEPT !.parsed = k, !.tag_end = k, !.tag_index = 0, !.tag_state = "sending"]
<1>1. Len(Content[f]) \in Nat /\ h.parsed \in 0..Len(Content[f]) /\ Len(Insert) \in Nat
  BY FileType DEF Sending
<1>2. NextTag(f, h.parsed) \in SUBSET Nat
  BY <1>1 DEF NextTag
<1>3. k \in NextTag(f, h.parsed) /\ k \in Nat /\ \A m \in NextTag(f, h.parsed) : k <= m
  BY <1>2, LeastIs
<1>4. /\ h1.file = h.file /\ h1.parsed = k /\ h1.tag_check = h.tag_check
      /\ h1.tag_state = "sending" /\ h1.tag_end = k /\ h1.tag_index = 0
  BY DEF StateType
<1> HIDE DEF k, h1
<1>5. k \in h.parsed + 1..Len(Content[f]) /\ Content[f][k] \in Tags
  BY <1>3 DEF NextTag
<1>6. \A m \in h.parsed + 1..k - 1 : Content[f][m] \notin Tags
  BY <1>1, <1>3, <1>5 DEF NextTag
<1>7. h.file <= h.parsed /\ Plain(f, h.file, h.parsed) /\ out = UpTo(f)[h.file]
      /\ h.file \in 0..Len(Content[f]) /\ (h.tag_check <=> f \in Shtml)
  BY DEF Sending
<1>8. Plain(f, h.file, k - 1)
  BY <1>1, <1>5, <1>6, <1>7 DEF Plain, Piece
<1>9. Sending(out, f, h1)
  BY <1>1, <1>4, <1>5, <1>7, <1>8 DEF Sending
<1> QED BY <1>1, <1>5, <1>7, <1>9 DEF k, h1

(* n more bytes of the insert are written.                                 *)
LEMMA SendInsertBytes ==
  ASSUME NEW f \in Name, NEW out \in Seq(Byte), NEW h \in StateType, NEW n \in Nat,
         Sending(out, f, h), h.tag_state = "sending", h.tag_end = h.file,
         h.tag_index + n <= Len(Insert)
  PROVE  Sending(out \o SubSeq(Insert, h.tag_index + 1, h.tag_index + n), f,
                 [h EXCEPT !.tag_index = h.tag_index + n])
<1> DEFINE j  == h.tag_index + n
           h1 == [h EXCEPT !.tag_index = h.tag_index + n]
           a  == UpTo(f)[h.file - 1]
           b  == <<Content[f][h.file]>>
           s  == SubSeq(Insert, 1, h.tag_index)
           u  == SubSeq(Insert, h.tag_index + 1, j)
<1>1. /\ Len(Content[f]) \in Nat /\ Len(Insert) \in Nat /\ Insert \in Seq(Byte)
      /\ h.tag_index \in 0..Len(Insert) /\ h.file = h.parsed /\ h.parsed \in 1..Len(Content[f])
      /\ j \in 0..Len(Insert)
  BY FileType DEF Sending, StateType
<1>2. /\ h1.file = h.file /\ h1.parsed = h.parsed /\ h1.tag_check = h.tag_check
      /\ h1.tag_state = h.tag_state /\ h1.tag_end = h.tag_end /\ h1.tag_index = j
  BY DEF StateType
<1>3. a \in Seq(Byte) /\ b \in Seq(Byte)
  <2>1. h.file - 1 \in 0..Len(Content[f]) /\ h.file \in 1..Len(Content[f])
    BY <1>1
  <2> QED BY <2>1, UpToIs, FileType
<1>4. s \in Seq(Byte) /\ u \in Seq(Byte)
  <2>1. \A k \in 1..Len(Insert) : Insert[k] \in Byte
    BY <1>1, ElementOfSeq
  <2> QED BY <1>1, <2>1, SubSeqProperties
<1>5. s \o u = SubSeq(Insert, 1, j)
  <2>1. 1 \in 1..Len(Insert) + 1 /\ h.tag_index \in 1 - 1..Len(Insert) /\ j \in h.tag_index..Len(Insert)
    BY <1>1
  <2> QED BY <1>1, <2>1, ConcatAdjacentSubSeq
<1>6. out = a \o (b \o s)
  <2>1. out = ThroughTag(f, h.file, h.tag_index)
    BY <1>1 DEF Sending
  <2> QED BY <2>1 DEF ThroughTag
<1>7. out \o u = a \o (b \o SubSeq(Insert, 1, j))
  <2> HIDE DEF a, b, s, u, j
  <2>1. b \o s \in Seq(Byte)
    BY <1>3, <1>4, ConcatProperties
  <2>2. (a \o (b \o s)) \o u = a \o ((b \o s) \o u)
    BY <1>3, <1>4, <2>1, Assoc
  <2>3. (b \o s) \o u = b \o (s \o u)
    BY <1>3, <1>4, Assoc
  <2> QED BY <1>5, <1>6, <2>2, <2>3
<1>8. out \o u = ThroughTag(f, h1.file, h1.tag_index)
  <2> HIDE DEF h1, u, j
  <2> QED BY <1>2, <1>7 DEF ThroughTag
<1> HIDE DEF h1, u
<1>9. Sending(out \o u, f, h1)
  BY <1>1, <1>2, <1>8 DEF Sending
<1> QED BY <1>9 DEF h1, u

(* The insert is written: send_data looks for the next tag.                *)
LEMMA InsertDone ==
  ASSUME NEW f \in Name, NEW out, NEW h \in StateType, Sending(out, f, h),
         h.tag_state = "sending", h.tag_end = h.file, h.tag_index = Len(Insert)
  PROVE  Sending(out, f, [h EXCEPT !.tag_index = 0, !.tag_state = "none"])
<1> DEFINE h1 == [h EXCEPT !.tag_index = 0, !.tag_state = "none"]
<1>1. /\ Len(Content[f]) \in Nat /\ h.file = h.parsed /\ h.parsed \in 1..Len(Content[f])
      /\ Content[f][h.file] \in Tags /\ f \in Shtml /\ h.tag_check
  BY FileType DEF Sending
<1>2. /\ h1.file = h.file /\ h1.parsed = h.parsed /\ h1.tag_check = h.tag_check
      /\ h1.tag_state = "none"
  BY DEF StateType
<1>3. out = UpTo(f)[h.file - 1] \o (<<Content[f][h.file]>> \o Insert)
  <2>1. Insert \in Seq(Byte)
    BY FileType
  <2>2. SubSeq(Insert, 1, Len(Insert)) = Insert
    BY <2>1, SubSeqFull
  <2>3. out = ThroughTag(f, h.file, h.tag_index)
    BY <1>1 DEF Sending
  <2> QED BY <2>2, <2>3 DEF ThroughTag
<1>4. out = UpTo(f)[h.file]
  <2>1. UpTo(f)[h.file] = UpTo(f)[h.file - 1] \o Piece(f, h.file)
    BY <1>1, UpToIs
  <2> QED BY <1>1, <1>3, <2>1 DEF Piece
<1> HIDE DEF h1
<1>5. Sending(out, f, h1)
  BY <1>1, <1>2, <1>4 DEF Sending, Plain
<1> QED BY <1>5 DEF h1
----------------------------------------------------------------------------
(* What an action does to the connections.                                 *)

(* The pcb and the state of one connection change.                         *)
Changed(c, p, h) ==
  /\ p \in PcbType /\ h \in StateType /\ ConnInv(p, h)
  /\ pcb' = [pcb EXCEPT ![c] = p] /\ hs' = [hs EXCEPT ![c] = h]

(* Then the invariant of the others is kept.                               *)
LEMMA OneChanges ==
  ASSUME IInv, NEW c \in Conn, NEW p, NEW h, Changed(c, p, h),
         cb' \in CallType, CallInv', HandlesExact', inuse' \subseteq 1..MAX_OPEN_FILES,
         leaked' \in BOOLEAN
  PROVE  IInv'
<1>1. pcb' \in [Conn -> PcbType] /\ hs' \in [Conn -> StateType]
  BY DEF IInv, Types, Changed
<1>2. ASSUME NEW d \in Conn PROVE ConnInv(pcb'[d], hs'[d])
  <2>1. CASE d = c
    <3>1. pcb'[d] = p /\ hs'[d] = h
      BY <2>1 DEF IInv, Types, Changed
    <3> QED BY <3>1 DEF Changed
  <2>2. CASE d # c
    <3>1. pcb'[d] = pcb[d] /\ hs'[d] = hs[d]
      BY <2>2 DEF IInv, Types, Changed
    <3> QED BY <3>1 DEF IInv
  <2> QED BY <2>1, <2>2
<1>3. \A d \in Conn : ConnInv(pcb[d]', hs[d]')
  BY <1>2
<1> QED BY <1>1, <1>3 DEF IInv, Types

(* The connection keeps its file.                                          *)
LEMMA HandleKept ==
  ASSUME IInv, NEW c \in Conn, NEW h \in StateType, h.handle = hs[c].handle,
         hs' = [hs EXCEPT ![c] = h], inuse' = inuse
  PROVE  HandlesExact'
<1>1. hs' \in [Conn -> StateType] /\ \A d \in Conn : hs'[d].handle = hs[d].handle
  BY DEF IInv, Types
<1> QED BY <1>1 DEF IInv, HandlesExact

(* It closes it.                                                           *)
LEMMA HandleClosed ==
  ASSUME IInv, NEW c \in Conn,
         hs' = [hs EXCEPT ![c] = NoState], inuse' = inuse \ {hs[c].handle}
  PROVE  HandlesExact' /\ inuse' \subseteq 1..MAX_OPEN_FILES
<1>1. \A d \in Conn : hs'[d].handle = IF d = c THEN 0 ELSE hs[d].handle
  BY DEF IInv, Types, NoState
<1> QED BY <1>1 DEF IInv, HandlesExact, Types

(* It opens one.                                                           *)
LEMMA HandleOpened ==
  ASSUME IInv, NEW c \in Conn, NEW h \in StateType, hs[c].handle = 0,
         h.handle \in FreeFiles, hs' = [hs EXCEPT ![c] = h], inuse' = inuse \cup {h.handle}
  PROVE  HandlesExact' /\ inuse' \subseteq 1..MAX_OPEN_FILES
<1>1. \A d \in Conn : hs'[d].handle = IF d = c THEN h.handle ELSE hs[d].handle
  BY DEF IInv, Types
<1>2. h.handle \in 1..MAX_OPEN_FILES /\ h.handle \notin inuse /\ h.handle # 0
  BY DEF FreeFiles
<1>3. \A d \in Conn : hs[d].handle # h.handle
  BY <1>2 DEF IInv, HandlesExact
<1> QED BY <1>1, <1>2, <1>3 DEF IInv, HandlesExact, Types

(* A connection with a state has a pcb.                                    *)
LEMMA LiveHasPcb ==
  ASSUME NEW p, NEW h, SocketInv(p, h), h.live
  PROVE  p.state # "none"
<1>1. p.arg
  BY DEF SocketInv
<1>2. p # NoPcb
  BY <1>1 DEF NoPcb
<1> QED BY <1>2 DEF SocketInv

(* A connection in the course of a call of send_data.                      *)
Serving(c) == c \in Conn /\ cb.conn = c

(* What is known of it.                                                    *)
LEMMA ServingFacts ==
  ASSUME IInv, NEW c, Serving(c)
  PROVE  /\ c \in Conn /\ cb \in CallType /\ pcb[c] \in PcbType /\ hs[c] \in StateType
         /\ ConnInv(pcb[c], hs[c]) /\ hs[c].live /\ cb.at \in {"send", "parse"}
         /\ cb.at = "parse" => hs[c].handle # 0 /\ hs[c].tag_check
         /\ SndBuf(c) \in Nat
         /\ hs[c].handle # 0 =>
              /\ hs[c].uri \in Name /\ Sending(pcb[c].out, hs[c].uri, hs[c])
              /\ Size(c) = Len(Content[hs[c].uri])
         /\ hs[c].handle = 0 => Left(c) = 0
         /\ Left(c) \in Nat
<1>1. cb # NoCall /\ c \in Conn
  BY HttpdAssumption DEF Serving, NoCall
<1>2. /\ cb \in CallType /\ pcb[c] \in PcbType /\ hs[c] \in StateType /\ ConnInv(pcb[c], hs[c])
      /\ cb.conn = c
  BY <1>1 DEF IInv, Types, Serving
<1>3. /\ hs[c].live /\ cb.at \in {"send", "parse"}
      /\ cb.at = "parse" => hs[c].handle # 0 /\ hs[c].tag_check
  BY <1>1, <1>2 DEF IInv, CallInv
<1>4. SndBuf(c) \in Nat
  BY <1>2, HttpdAssumption DEF SndBuf, PcbType
<1>5. hs[c].handle # 0 => /\ hs[c].uri \in Name /\ Sending(pcb[c].out, hs[c].uri, hs[c])
                          /\ Size(c) = Len(Content[hs[c].uri]) /\ Left(c) \in Nat
  BY <1>2, HttpdAssumption, FileType DEF ConnInv, SocketInv, StreamInv, StateType, Size, Left, Sending
<1>6. hs[c].handle = 0 => Left(c) = 0
  BY <1>2 DEF ConnInv, SocketInv, Left, Size
<1> QED BY <1>1, <1>2, <1>3, <1>4, <1>5, <1>6

(* send_data writes: p1 and h1 are what becomes of the connection.         *)
Written(c, p1, h1) ==
  /\ p1 \in PcbType /\ h1 \in StateType
  /\ p1 = [pcb[c] EXCEPT !.out = p1.out, !.unacked = p1.unacked, !.sent = p1.sent]
  /\ h1.live = hs[c].live /\ h1.handle = hs[c].handle /\ h1.uri = hs[c].uri
  /\ Sending(p1.out, hs[c].uri, h1)

(* The connection keeps its invariant.                                     *)
LEMMA WrittenChanges ==
  ASSUME IInv, NEW c, Serving(c), hs[c].handle # 0, NEW p1, NEW h1, Written(c, p1, h1),
         pcb' = [pcb EXCEPT ![c] = p1], hs' = [hs EXCEPT ![c] = h1]
  PROVE  Changed(c, p1, h1)
<1>1. /\ pcb[c] \in PcbType /\ hs[c] \in StateType /\ hs[c].live /\ hs[c].handle # 0
      /\ ConnInv(pcb[c], hs[c])
  BY ServingFacts
<1>2. /\ p1.arg = pcb[c].arg /\ p1.recv = pcb[c].recv /\ p1.state = pcb[c].state
      /\ p1.reply = pcb[c].reply /\ p1.done = pcb[c].done
  <2>1. p1 = [pcb[c] EXCEPT !.out = p1.out, !.unacked = p1.unacked, !.sent = p1.sent]
    BY DEF Written
  <2> DEFINE o == p1.out
             u == p1.unacked
             s == p1.sent
  <2>2. p1 = [pcb[c] EXCEPT !.out = o, !.unacked = u, !.sent = s]
    BY <2>1
  <2> HIDE DEF o, u, s
  <2> QED BY <1>1, <2>2 DEF PcbType
<1>3. pcb[c].state # "none"
  BY <1>1 DEF ConnInv, SocketInv, NoPcb
<1>4. SocketInv(p1, h1)
  BY <1>1, <1>2, <1>3 DEF ConnInv, SocketInv, Written
<1>5. StreamInv(p1, h1)
  BY <1>1 DEF StreamInv, Written
<1> QED BY <1>4, <1>5 DEF Changed, Written, ConnInv

(* A step of send_data that goes on with the parsing, or returns.          *)
Continues(h1) ==
  \/ cb' = NoCall
  \/ cb' = cb
  \/ /\ h1.tag_check
     /\ \E l \in Nat, e \in {"OK", "MEM"} : cb' = [cb EXCEPT !.at = "parse", !.len = l, !.err = e]

(* Such a step keeps the invariant.                                        *)
LEMMA SendStep ==
  ASSUME IInv, NEW c, Serving(c), hs[c].handle # 0, NEW p1, NEW h1, Written(c, p1, h1),
         pcb' = [pcb EXCEPT ![c] = p1], hs' = [hs EXCEPT ![c] = h1],
         Continues(h1), h1.tag_check = hs[c].tag_check, inuse' = inuse, leaked' = leaked
  PROVE  IInv'
<1>1. Changed(c, p1, h1)
  BY WrittenChanges
<1>2. c \in Conn /\ cb \in CallType /\ hs[c].live /\ cb.conn = c /\ cb.at \in {"send", "parse"}
  BY ServingFacts DEF Serving
<1>3. cb' \in CallType
  <2>1. CASE cb' = NoCall
    BY <2>1 DEF NoCall, CallType
  <2>2. CASE cb' = cb
    BY <1>2, <2>2
  <2>3. CASE \E l \in Nat, e \in {"OK", "MEM"} : cb' = [cb EXCEPT !.at = "parse", !.len = l, !.err = e]
    BY <1>2, <2>3 DEF CallType
  <2> QED BY <2>1, <2>2, <2>3 DEF Continues
<1>4. hs'[c] = h1 /\ h1.live /\ h1.handle # 0 /\ h1 \in StateType /\ h1.handle = hs[c].handle
  BY <1>2 DEF IInv, Types, Written
<1>5. CallInv'
  <2>1. CASE cb' = NoCall
    BY <2>1 DEF CallInv
  <2>2. CASE cb' = cb
    BY <1>2, <1>4, <2>2, ServingFacts DEF CallInv
  <2>3. CASE h1.tag_check /\ \E l \in Nat, e \in {"OK", "MEM"} : cb' = [cb EXCEPT !.at = "parse", !.len = l, !.err = e]
    <3>1. cb'.conn = c /\ cb'.at = "parse"
      BY <1>2, <2>3 DEF CallType
    <3> QED BY <1>2, <1>4, <2>3, <3>1 DEF CallInv
  <2> QED BY <2>1, <2>2, <2>3 DEF Continues
<1>6. HandlesExact'
  BY <1>2, <1>4, HandleKept
<1> QED BY <1>1, <1>2, <1>3, <1>5, <1>6, OneChanges DEF IInv, Types

(* What FilePiece gives: n bytes, none if there was no memory.             *)
LEMMA PieceIs ==
  ASSUME IInv, NEW c, Serving(c), hs[c].handle # 0, NEW len \in Nat, NEW w \in WriteLoop(len, SndBuf(c)),
         hs[c].file + len <= Size(c)
  PROVE  \E n \in Nat :
           /\ n <= len /\ n <= SndBuf(c)
           /\ FilePiece(c, w) = SubSeq(Content[hs[c].uri], hs[c].file + 1, hs[c].file + n)
           /\ FilePiece(c, w) \in Seq(Byte) /\ Len(FilePiece(c, w)) = n
<1> DEFINE s == Content[hs[c].uri]
           i == hs[c].file
<1>1. /\ SndBuf(c) \in Nat /\ hs[c].uri \in Name /\ Size(c) = Len(s) /\ i \in 0..Len(s)
  BY ServingFacts DEF Sending
<1>2. s \in Seq(Byte) /\ Len(s) \in Nat /\ \A k \in 1..Len(s) : s[k] \in Byte
  BY <1>1, FileType
<1>3. /\ w.err \in {"OK", "MEM"} /\ w.len \in Nat
      /\ w.err = "OK" => w.len <= len /\ w.len <= SndBuf(c)
  BY <1>1, WriteOutcome
<1>4. CASE w.err = "OK"
  <2>1. FilePiece(c, w) = SubSeq(s, i + 1, i + w.len)
    BY <1>4 DEF FilePiece
  <2>2. SubSeq(s, i + 1, i + w.len) \in Seq(Byte) /\ Len(SubSeq(s, i + 1, i + w.len)) = w.len
    <3>1. i + 1 \in Nat /\ i + w.len \in Nat /\ i + w.len <= Len(s) /\ i + 1 <= i + w.len + 1
      <4> DEFINE m == w.len
                 l == Len(s)
      <4>1. m \in Nat /\ m <= len /\ l \in Nat /\ i \in 0..l /\ i + len <= l
        BY <1>1, <1>2, <1>3, <1>4
      <4> HIDE DEF s, i, m, l
      <4>2. i + 1 \in Nat /\ i + m \in Nat /\ i + m <= l /\ i + 1 <= i + m + 1
        BY <4>1
      <4> QED BY <4>2 DEF m, l
    <3>2. \A k \in i + 1..i + w.len : s[k] \in Byte
      BY <1>1, <1>2, <3>1
    <3> DEFINE j == i + w.len
    <3>3. j \in Nat /\ j - i = w.len /\ i \in Nat
      BY <1>1, <1>3
    <3> HIDE DEF s, i, j
    <3>4. SubSeq(s, i + 1, j) \in Seq(Byte) /\ Len(SubSeq(s, i + 1, j)) = IF i + 1 <= j THEN j - (i + 1) + 1 ELSE 0
      BY <1>2, <3>1, <3>2, <3>3, SubSeqProperties DEF j
    <3> QED BY <1>3, <3>3, <3>4 DEF j
  <2> QED BY <1>3, <1>4, <2>1, <2>2
<1>5. CASE w.err # "OK"
  <2>1. FilePiece(c, w) = << >>
    BY <1>5 DEF FilePiece
  <2>2. SubSeq(s, i + 1, i + 0) = << >>
    BY <1>1, <1>2, SubSeqEmpty
  <2>3. << >> \in Seq(Byte) /\ Len(<< >>) = 0
    OBVIOUS
  <2> QED BY <1>1, <2>1, <2>2, <2>3
<1> QED BY <1>4, <1>5

(* The state h is that of c but for the tags, and allows to write len      *)
(* bytes of the file.                                                      *)
SameFile(c, h, len) ==
  /\ h.live = hs[c].live /\ h.handle = hs[c].handle /\ h.uri = hs[c].uri
  /\ h.file = hs[c].file /\ h.tag_check = hs[c].tag_check
  /\ IF h.tag_check THEN h.file + len <= h.parsed ELSE h.file + len <= Size(c)

(* Writing n bytes of the file.                                            *)
LEMMA WroteIs ==
  ASSUME IInv, NEW c, Serving(c), hs[c].handle # 0, NEW len \in Nat, NEW w \in WriteLoop(len, SndBuf(c)),
         NEW h \in StateType, SameFile(c, h, len), Sending(pcb[c].out, hs[c].uri, h),
         NEW b \in BOOLEAN
  PROVE  LET piece == FilePiece(c, w)
         IN  /\ Written(c, Wrote(c, piece), [h EXCEPT !.file = @ + Len(piece)])
             /\ Written(c, [Wrote(c, piece) EXCEPT !.sent = b], [h EXCEPT !.file = @ + Len(piece)])
<1> DEFINE piece == FilePiece(c, w)
           h1    == [h EXCEPT !.file = @ + Len(piece)]
           p     == pcb[c]
           f     == hs[c].uri
<1>1. /\ c \in Conn /\ p \in PcbType /\ hs[c] \in StateType /\ SndBuf(c) \in Nat /\ f \in Name
      /\ Size(c) = Len(Content[f])
  BY ServingFacts
<1>2. h.file = hs[c].file /\ h.live = hs[c].live /\ h.handle = hs[c].handle /\ h.uri = f
      /\ h.tag_check = hs[c].tag_check /\ h.file \in Nat
      /\ IF h.tag_check THEN h.file + len <= h.parsed ELSE h.file + len <= Size(c)
  BY DEF StateType, SameFile
<1>3. h.parsed <= Len(Content[f]) /\ h.parsed \in Nat /\ Len(Content[f]) \in Nat
  BY <1>1, FileType DEF Sending
<1>4. hs[c].file + len <= Size(c)
  BY <1>1, <1>2, <1>3
<1>5. PICK n \in Nat :
           /\ n <= len /\ n <= SndBuf(c)
           /\ piece = SubSeq(Content[f], hs[c].file + 1, hs[c].file + n)
           /\ piece \in Seq(Byte) /\ Len(piece) = n
  BY <1>4, PieceIs
<1> HIDE DEF piece, p, f
<1>6. h1 = [h EXCEPT !.file = h.file + n]
  BY <1>5
<1>7. h1 \in StateType /\ h1.live = hs[c].live /\ h1.handle = hs[c].handle /\ h1.uri = f
  <2> HIDE DEF h1
  <2>1. h.file + n \in Nat
    BY <1>2
  <2> QED BY <1>2, <1>6, <2>1 DEF StateType
<1>8. p.out \in Seq(Byte) /\ p.out \o piece \in Seq(Byte)
  BY <1>1, <1>5, ConcatProperties DEF PcbType
<1>9. Sending(p.out \o piece, f, h1)
  <2>1. h.file + n <= Len(Content[f]) /\ (h.tag_check => h.file + n <= h.parsed)
    <3> HIDE DEF h1
    <3>1. h.file + n <= h.file + len
      BY <1>2, <1>5
    <3>2. h.file + len \in Nat /\ h.file + n \in Nat
      BY <1>2
    <3>3. h.file + n <= Len(Content[f])
      BY <1>1, <1>2, <1>3, <1>4, <3>1, <3>2
    <3> QED BY <1>2, <1>3, <3>1, <3>2, <3>3
  <2>2. Sending(p.out, f, h)
    BY DEF p, f
  <2>3. Sending(p.out \o SubSeq(Content[f], h.file + 1, h.file + n), f, [h EXCEPT !.file = h.file + n])
    BY <1>1, <1>8, <2>1, <2>2, SendBytes
  <2> QED BY <1>2, <1>5, <1>6, <2>3
<1> DEFINE q  == [p EXCEPT !.out = @ \o piece, !.unacked = @ + Len(piece)]
           q1 == [q EXCEPT !.sent = b]
<1>10. p.unacked + Len(piece) \in 0..SND_BUF
  <2>1. p.unacked \in 0..SND_BUF /\ SndBuf(c) = SND_BUF - p.unacked /\ SND_BUF \in Nat
    BY <1>1, HttpdAssumption DEF PcbType, SndBuf, p
  <2>2. Len(piece) \in Nat /\ Len(piece) <= SndBuf(c)
    BY <1>1, <1>5
  <2> HIDE DEF q, q1, h1
  <2> QED BY <2>1, <2>2
<1>11. /\ q \in PcbType /\ q.out = p.out \o piece /\ q.unacked = p.unacked + Len(piece) /\ q.sent = p.sent
       /\ q = [p EXCEPT !.out = q.out, !.unacked = q.unacked, !.sent = q.sent]
  <2> DEFINE o == p.out \o piece
             u == p.unacked + Len(piece)
  <2> HIDE DEF o, u
  <2>1. q = [p EXCEPT !.out = o, !.unacked = u] /\ o \in Seq(Byte) /\ u \in 0..SND_BUF
    BY <1>8, <1>10 DEF o, u
  <2> HIDE DEF q
  <2>2. q \in PcbType /\ q.out = o /\ q.unacked = u /\ q.sent = p.sent
    BY <1>1, <2>1 DEF PcbType
  <2>3. q = [p EXCEPT !.out = o, !.unacked = u, !.sent = q.sent]
    BY <1>1, <2>1, <2>2 DEF PcbType
  <2> QED BY <2>2, <2>3 DEF o, u
<1>12. /\ q1 \in PcbType /\ q1.out = p.out \o piece
       /\ q1 = [p EXCEPT !.out = q1.out, !.unacked = q1.unacked, !.sent = q1.sent]
  <2> DEFINE o == p.out \o piece
             u == p.unacked + Len(piece)
  <2> HIDE DEF o, u
  <2>1. q1 = [p EXCEPT !.out = o, !.unacked = u, !.sent = b] /\ o \in Seq(Byte) /\ u \in 0..SND_BUF
    BY <1>1, <1>8, <1>10 DEF o, u, PcbType
  <2> HIDE DEF q1
  <2>2. q1 \in PcbType /\ q1.out = o /\ q1.unacked = u /\ q1.sent = b
    BY <1>1, <2>1 DEF PcbType
  <2> QED BY <2>1, <2>2 DEF o, u
<1> HIDE DEF q, q1, h1
<1>13. Written(c, q, h1) /\ Written(c, q1, h1)
  BY <1>7, <1>9, <1>11, <1>12 DEF Written, p, f
<1> QED BY <1>13 DEF q, q1, h1, p, piece, Wrote

----------------------------------------------------------------------------
(* Every action keeps the invariant: send_data.                            *)

(* Pieces of the file, whichever loop writes them: send_data returns or    *)
(* goes on with the parsing.                                               *)
FileStep(c, len, h) ==
  \E w \in WriteLoop(len, SndBuf(c)) :
    LET piece == FilePiece(c, w)
    IN  /\ hs' = [hs EXCEPT ![c] = [h EXCEPT !.file = @ + Len(piece)]]
        /\ \/ Return(Wrote(c, piece))
           \/ h.tag_check /\ GoOn(Wrote(c, piece), "parse", w.len, w.err)

(* They keep the invariant.                                                *)
LEMMA FileStepSafe ==
  ASSUME IInv, NEW c, Serving(c), hs[c].handle # 0, NEW len \in Nat,
         NEW h \in StateType, SameFile(c, h, len), Sending(pcb[c].out, hs[c].uri, h),
         FileStep(c, len, h), inuse' = inuse, leaked' = leaked
  PROVE  IInv'
<1>1. PICK w \in WriteLoop(len, SndBuf(c)) :
        LET piece == FilePiece(c, w)
        IN  /\ hs' = [hs EXCEPT ![c] = [h EXCEPT !.file = @ + Len(piece)]]
            /\ \/ Return(Wrote(c, piece))
               \/ h.tag_check /\ GoOn(Wrote(c, piece), "parse", w.len, w.err)
  BY DEF FileStep
<1> DEFINE piece == FilePiece(c, w)
           p     == Wrote(c, piece)
           b     == p.sent \/ cb.fromSent
           p1    == [p EXCEPT !.sent = b]
           h1    == [h EXCEPT !.file = @ + Len(piece)]
<1>2. /\ cb.conn = c /\ cb \in CallType /\ c \in Conn /\ pcb[c] \in PcbType
      /\ SndBuf(c) \in Nat
  BY ServingFacts DEF Serving
<1>3. b \in BOOLEAN
  OBVIOUS
<1> HIDE DEF b
<1>4. Written(c, p, h1) /\ Written(c, p1, h1)
  BY <1>3, WroteIs
<1>5. h1.tag_check = hs[c].tag_check /\ h.tag_check = hs[c].tag_check
  BY DEF SameFile, StateType
<1>6. w.err \in {"OK", "MEM"} /\ w.len \in Nat
  BY <1>2, WriteOutcome
<1>7. CASE Return(p)
  <2>1. pcb' = [pcb EXCEPT ![c] = p1] /\ cb' = NoCall
    BY <1>2, <1>7 DEF Return, b
  <2>2. hs' = [hs EXCEPT ![c] = h1]
    BY <1>1
  <2>3. Continues(h1)
    BY <2>1 DEF Continues
  <2> HIDE DEF p, p1, h1
  <2> QED BY <1>4, <1>5, <2>1, <2>2, <2>3, SendStep
<1>8. CASE h.tag_check /\ GoOn(p, "parse", w.len, w.err)
  <2>1. pcb' = [pcb EXCEPT ![c] = p] /\ cb' = [cb EXCEPT !.at = "parse", !.len = w.len, !.err = w.err]
    BY <1>2, <1>8 DEF GoOn
  <2>2. hs' = [hs EXCEPT ![c] = h1]
    BY <1>1
  <2> HIDE DEF p, p1, h1
  <2>3. Continues(h1)
    BY <1>5, <1>6, <1>8, <2>1 DEF Continues
  <2> QED BY <1>4, <1>5, <2>1, <2>2, <2>3, SendStep
<1> QED BY <1>1, <1>7, <1>8

(* send_data returns or goes on without a change of the file position.     *)
LEMMA QuietStep ==
  ASSUME IInv, NEW c, Serving(c), hs[c].handle # 0, NEW h \in StateType,
         h.live = hs[c].live, h.handle = hs[c].handle, h.uri = hs[c].uri,
         h.tag_check = hs[c].tag_check, Sending(pcb[c].out, hs[c].uri, h),
         hs' = [hs EXCEPT ![c] = h],
         \/ Return(pcb[c])
         \/ UNCHANGED <<pcb, cb>>
         \/ h.tag_check /\ \E l \in Nat, e \in {"OK", "MEM"} : GoOn(pcb[c], "parse", l, e),
         inuse' = inuse, leaked' = leaked
  PROVE  IInv'
<1> DEFINE p  == pcb[c]
           b  == p.sent \/ cb.fromSent
           p1 == [p EXCEPT !.sent = b]
<1>1. /\ cb.conn = c /\ cb \in CallType /\ c \in Conn /\ p \in PcbType /\ pcb \in [Conn -> PcbType]
  BY ServingFacts DEF Serving, IInv, Types
<1>2. b \in BOOLEAN
  OBVIOUS
<1> HIDE DEF b
<1>3. p1 \in PcbType /\ p1.out = p.out /\ p1.unacked = p.unacked /\ p1.sent = b
  BY <1>1, <1>2 DEF PcbType
<1>4. p = [p EXCEPT !.out = p.out, !.unacked = p.unacked, !.sent = p.sent]
  BY <1>1 DEF PcbType
<1>5. p1 = [p EXCEPT !.out = p.out, !.unacked = p.unacked, !.sent = b]
  BY <1>1, <1>2 DEF PcbType
<1>6. Written(c, p, h)
  BY <1>1, <1>4 DEF Written
<1> HIDE DEF p1
<1>7. Written(c, p1, h)
  BY <1>3, <1>5 DEF Written
<1>8. CASE Return(p)
  <2>1. pcb' = [pcb EXCEPT ![c] = p1] /\ cb' = NoCall
    BY <1>1, <1>8 DEF Return, b, p1
  <2>2. Continues(h)
    BY <2>1 DEF Continues
  <2> QED BY <1>7, <2>1, <2>2, SendStep
<1>9. CASE UNCHANGED <<pcb, cb>>
  <2>1. pcb' = [pcb EXCEPT ![c] = p] /\ cb' = cb
    BY <1>1, <1>9
  <2>2. Continues(h)
    BY <2>1 DEF Continues
  <2> HIDE DEF p
  <2> QED BY <1>6, <2>1, <2>2, SendStep
<1>10. CASE h.tag_check /\ \E l \in Nat, e \in {"OK", "MEM"} : GoOn(p, "parse", l, e)
  <2>1. PICK l \in Nat, e \in {"OK", "MEM"} : GoOn(p, "parse", l, e)
    BY <1>10
  <2>2. pcb' = [pcb EXCEPT ![c] = p] /\ cb' = [cb EXCEPT !.at = "parse", !.len = l, !.err = e]
    BY <1>1, <2>1 DEF GoOn
  <2>3. Continues(h)
    BY <1>10, <2>2 DEF Continues
  <2> HIDE DEF p
  <2> QED BY <1>6, <2>2, <2>3, SendStep
<1> QED BY <1>8, <1>9, <1>10

(* The end of the file: the connection is closed, or there is no memory    *)
(* for the buffer.                                                         *)
LEMMA SendEndSafe ==
  ASSUME IInv, NEW c, Serving(c), SendEnd(c)
  PROVE  IInv'
<1>1. /\ c \in Conn /\ cb.conn = c /\ cb \in CallType /\ pcb[c] \in PcbType /\ hs[c] \in StateType
      /\ ConnInv(pcb[c], hs[c]) /\ hs[c].live
  BY ServingFacts DEF Serving
<1>2. pcb[c].reply # NONE => pcb[c].reply \in Name /\ pcb[c].out = Reply(pcb[c].reply)
  <2> SUFFICES ASSUME pcb[c].reply # NONE
               PROVE  pcb[c].reply \in Name /\ pcb[c].out = Reply(pcb[c].reply)
    OBVIOUS
  <2>1. hs[c].handle # 0 /\ hs[c].uri = pcb[c].reply
    BY <1>1 DEF ConnInv, SocketInv
  <2>2. hs[c].uri \in Name /\ Sending(pcb[c].out, hs[c].uri, hs[c]) /\ Size(c) = Len(Content[hs[c].uri])
    BY <2>1, ServingFacts
  <2>3. hs[c].file = Len(Content[hs[c].uri])
    BY <1>1, <2>2, FileType DEF SendEnd, Left, StateType
  <2> QED BY <2>1, <2>2, <2>3, SendingEnds
<1>3. leaked' = leaked /\ cb' = NoCall /\ leaked \in BOOLEAN
  BY DEF SendEnd, Return, IInv, Types
<1>4. cb' \in CallType /\ CallInv'
  BY <1>3 DEF CallInv, CallType, NoCall
<1>5. ASSUME NEW st \in {"fin", "estab"}, Return([Detached(c, st) EXCEPT !.done = pcb[c].reply # NONE]),
             FreeState(c)
      PROVE  IInv'
  <2> DEFINE p0 == [Detached(c, st) EXCEPT !.done = pcb[c].reply # NONE]
             p1 == [p0 EXCEPT !.sent = @ \/ cb.fromSent]
  <2>1. pcb' = [pcb EXCEPT ![c] = p1] /\ hs' = [hs EXCEPT ![c] = NoState] /\ inuse' = inuse \ {hs[c].handle}
    BY <1>1, <1>5 DEF Return, FreeState
  <2>2. /\ p1 \in PcbType /\ p1.arg = FALSE /\ p1.recv = FALSE /\ p1.state = st
        /\ p1.out = pcb[c].out /\ p1.reply = pcb[c].reply
    BY <1>1 DEF PcbType, Detached
  <2> HIDE DEF p1
  <2>3. SocketInv(p1, NoState)
    BY <2>2 DEF SocketInv, NoState
  <2>4. StreamInv(p1, NoState)
    <3>1. Begins(p1.out, p1.out)
      <4>1. p1.out \o << >> = p1.out /\ << >> \in Seq(Byte)
        BY <2>2, ConcatEmptySeq DEF PcbType
      <4> QED BY <4>1 DEF Begins
    <3>2. Closed(p1)
      BY <1>2, <2>2, <3>1 DEF Closed
    <3> QED BY <3>2 DEF StreamInv, NoState
  <2>5. NoState \in StateType
    BY HttpdAssumption DEF NoState, StateType
  <2>6. Changed(c, p1, NoState)
    BY <2>1, <2>2, <2>3, <2>4, <2>5 DEF Changed, ConnInv
  <2>7. HandlesExact' /\ inuse' \subseteq 1..MAX_OPEN_FILES
    BY <1>1, <2>1, HandleClosed
  <2> QED BY <1>1, <1>3, <1>4, <2>6, <2>7, OneChanges
<1>6. ASSUME Return(pcb[c]), UNCHANGED <<hs, inuse>>
      PROVE  IInv'
  <2> DEFINE b  == pcb[c].sent \/ cb.fromSent
             p1 == [pcb[c] EXCEPT !.sent = b]
  <2>1. pcb' = [pcb EXCEPT ![c] = p1] /\ hs' = [hs EXCEPT ![c] = hs[c]] /\ inuse' = inuse
    BY <1>1, <1>6 DEF Return, IInv, Types
  <2>2. /\ p1 \in PcbType /\ p1.arg = pcb[c].arg /\ p1.recv = pcb[c].recv /\ p1.state = pcb[c].state
        /\ p1.out = pcb[c].out /\ p1.reply = pcb[c].reply /\ p1.done = pcb[c].done
    <3>1. b \in BOOLEAN
      OBVIOUS
    <3> HIDE DEF b
    <3> QED BY <1>1, <3>1 DEF PcbType
  <2> HIDE DEF b, p1
  <2>3. pcb[c].state # "none"
    BY <1>1, LiveHasPcb DEF ConnInv
  <2>4. ConnInv(p1, hs[c])
    BY <1>1, <2>2, <2>3 DEF ConnInv, SocketInv, StreamInv
  <2>5. Changed(c, p1, hs[c])
    BY <1>1, <2>1, <2>2, <2>4 DEF Changed
  <2>6. HandlesExact'
    BY <1>1, <2>1, HandleKept
  <2> QED BY <1>1, <1>3, <1>4, <2>1, <2>5, <2>6, OneChanges DEF IInv, Types
<1> QED BY <1>5, <1>6 DEF SendEnd

(* A file without tags.                                                    *)
LEMMA SendPlainSafe ==
  ASSUME IInv, NEW c, Serving(c), SendPlain(c)
  PROVE  IInv'
<1>1. /\ c \in Conn /\ hs[c] \in StateType /\ hs[c].handle # 0 /\ Left(c) \in Nat /\ SndBuf(c) \in Nat
      /\ Sending(pcb[c].out, hs[c].uri, hs[c]) /\ ~hs[c].tag_check /\ Size(c) \in Nat
      /\ hs[c].uri \in Name /\ Size(c) = Len(Content[hs[c].uri])
  BY ServingFacts, FileType DEF SendPlain
<1> DEFINE len == Least({SndBuf(c), Left(c), 2 * MSS})
<1>2. len \in Nat /\ len <= Left(c)
  <2>1. {SndBuf(c), Left(c), 2 * MSS} \in SUBSET Nat
    BY <1>1, HttpdAssumption
  <2> QED BY <2>1, LeastIs
<1> HIDE DEF len
<1>3. SameFile(c, hs[c], len)
  BY <1>1, <1>2 DEF SameFile, Left, StateType
<1>4. FileStep(c, len, hs[c])
  BY DEF SendPlain, FileStep, len
<1> QED BY <1>1, <1>2, <1>3, <1>4, FileStepSafe DEF SendPlain

(* Bytes that are parsed.                                                  *)
LEMMA ParsedLength ==
  ASSUME IInv, NEW c, Serving(c), hs[c].handle # 0, hs[c].tag_check
  PROVE  /\ hs[c].parsed \in Nat /\ hs[c].file \in Nat /\ hs[c].parsed <= Size(c) /\ Size(c) \in Nat
         /\ hs[c].file <= hs[c].parsed
         /\ Least({SndBuf(c), hs[c].parsed - hs[c].file, 2 * MSS}) \in Nat
         /\ SameFile(c, hs[c], Least({SndBuf(c), hs[c].parsed - hs[c].file, 2 * MSS}))
<1>1. /\ c \in Conn /\ hs[c] \in StateType /\ SndBuf(c) \in Nat
      /\ Sending(pcb[c].out, hs[c].uri, hs[c]) /\ Size(c) \in Nat
      /\ hs[c].uri \in Name /\ Size(c) = Len(Content[hs[c].uri])
  BY ServingFacts, FileType
<1>2. hs[c].parsed \in Nat /\ hs[c].file \in Nat /\ hs[c].parsed <= Size(c) /\ hs[c].file <= hs[c].parsed
  BY <1>1 DEF Sending, StateType
<1> DEFINE len == Least({SndBuf(c), hs[c].parsed - hs[c].file, 2 * MSS})
<1>3. len \in Nat /\ len <= hs[c].parsed - hs[c].file
  <2>1. {SndBuf(c), hs[c].parsed - hs[c].file, 2 * MSS} \in SUBSET Nat
    BY <1>1, <1>2, HttpdAssumption
  <2> QED BY <2>1, LeastIs
<1> HIDE DEF len
<1>4. hs[c].file + len <= hs[c].parsed
  BY <1>2, <1>3
<1>5. SameFile(c, hs[c], len)
  BY <1>4 DEF SameFile
<1> QED BY <1>1, <1>2, <1>3, <1>5 DEF len

(* Bytes already parsed, at the start of a call.                           *)
LEMMA SendParsedSafe ==
  ASSUME IInv, NEW c, Serving(c), SendParsed(c)
  PROVE  IInv'
<1>1. /\ c \in Conn /\ hs[c] \in StateType /\ hs[c].handle # 0 /\ SndBuf(c) \in Nat
      /\ Sending(pcb[c].out, hs[c].uri, hs[c]) /\ hs[c].tag_check
  BY ServingFacts DEF SendParsed
<1> DEFINE len == Least({SndBuf(c), hs[c].parsed - hs[c].file, 2 * MSS})
<1>2. len \in Nat /\ SameFile(c, hs[c], len)
  BY <1>1, ParsedLength
<1>3. inuse' = inuse /\ leaked' = leaked
  BY DEF SendParsed
<1>4. CASE hs[c].parsed > hs[c].file
  <2>1. hs[c].parsed # hs[c].file
    <3>1. hs[c].parsed \in Nat /\ hs[c].file \in Nat
      BY <1>1 DEF StateType
    <3> QED BY <1>4, <3>1
  <2>2. PICK w \in WriteLoop(len, SndBuf(c)) :
          /\ hs' = [hs EXCEPT ![c].file = @ + Len(FilePiece(c, w))]
          /\ IF SndBuf(c) = Len(FilePiece(c, w))
             THEN Return(Wrote(c, FilePiece(c, w)))
             ELSE GoOn(Wrote(c, FilePiece(c, w)), "parse", w.len, w.err)
    BY <2>1 DEF SendParsed
  <2>3. FileStep(c, len, hs[c])
    BY <1>1, <2>2 DEF FileStep
  <2> HIDE DEF len
  <2> QED BY <1>1, <1>2, <1>3, <2>3, FileStepSafe
<1>5. CASE GoOn(pcb[c], "parse", SndBuf(c), "OK") /\ UNCHANGED hs
  <2>1. hs' = [hs EXCEPT ![c] = hs[c]]
    BY <1>1, <1>5 DEF IInv, Types
  <2>2. \E l \in Nat, e \in {"OK", "MEM"} : GoOn(pcb[c], "parse", l, e)
    BY <1>1, <1>5
  <2> QED BY <1>1, <1>3, <2>1, <2>2, QuietStep
<1> QED BY <1>4, <1>5 DEF SendParsed

(* Up to the end of the tag.                                               *)
LEMMA SendToTagSafe ==
  ASSUME IInv, NEW c, Serving(c), hs[c].handle # 0, NEW h \in StateType,
         Sending(pcb[c].out, hs[c].uri, h), h.tag_check, h.tag_state = "sending",
         h.live = hs[c].live, h.handle = hs[c].handle, h.uri = hs[c].uri,
         h.file = hs[c].file, h.tag_check = hs[c].tag_check,
         SendToTag(c, h), inuse' = inuse, leaked' = leaked
  PROVE  IInv'
<1> DEFINE len == Least({cb.len, h.tag_end - h.file})
<1>1. cb \in CallType
  BY ServingFacts
<1>2. h.tag_end = h.parsed /\ h.file <= h.parsed /\ h.file \in Nat /\ h.parsed \in Nat
  BY DEF Sending, StateType
<1>3. len \in Nat /\ len <= h.parsed - h.file
  <2>1. {cb.len, h.tag_end - h.file} \in SUBSET Nat
    BY <1>1, <1>2 DEF CallType
  <2> QED BY <1>2, <2>1, LeastIs
<1>4. FileStep(c, len, h)
  BY DEF SendToTag, FileStep
<1> HIDE DEF len
<1>5. h.file + len <= h.parsed
  BY <1>2, <1>3
<1>6. SameFile(c, h, len)
  BY <1>5, Zenon DEF SameFile
<1> QED BY <1>3, <1>4, <1>6, FileStepSafe

(* The scan for a tag.                                                     *)
LEMMA ScanTagSafe ==
  ASSUME IInv, NEW c, Serving(c), ScanTag(c)
  PROVE  IInv'
<1> DEFINE f     == hs[c].uri
           found == NextTag(f, hs[c].parsed)
           k     == Least(found)
<1>1. /\ c \in Conn /\ hs[c] \in StateType /\ hs[c].handle # 0 /\ hs[c].tag_check
      /\ Sending(pcb[c].out, f, hs[c]) /\ f \in Name /\ Size(c) = Len(Content[f])
      /\ hs[c].tag_state = "none"
  BY ServingFacts DEF ScanTag, Parsing
<1>2. inuse' = inuse /\ leaked' = leaked
  BY DEF ScanTag
<1>3. CASE found # {}
  <2> DEFINE h == [hs[c] EXCEPT !.parsed = k, !.tag_end = k, !.tag_index = 0, !.tag_state = "sending"]
  <2>1. k \in 1..Len(Content[f]) /\ Sending(pcb[c].out, f, h)
    BY <1>1, <1>3, ScanToTag
  <2>2. SendToTag(c, h)
    BY <1>3 DEF ScanTag
  <2>3. k \in Nat
    BY <1>1, <2>1, FileType
  <2> HIDE DEF k
  <2>4. /\ h \in StateType /\ h.tag_check /\ h.tag_state = "sending" /\ h.live = hs[c].live
        /\ h.handle = hs[c].handle /\ h.uri = hs[c].uri /\ h.file = hs[c].file
        /\ h.tag_check = hs[c].tag_check
    BY <1>1, <2>3 DEF StateType
  <2> HIDE DEF h, f
  <2> QED BY <1>1, <1>2, <2>1, <2>2, <2>4, SendToTagSafe DEF f
<1>4. CASE found = {}
  <2> DEFINE h == [hs[c] EXCEPT !.parsed = Size(c)]
  <2>1. Sending(pcb[c].out, f, h)
    BY <1>1, <1>4, ScanToEnd
  <2>2. hs' = [hs EXCEPT ![c] = h] /\ UNCHANGED <<pcb, cb>>
    BY <1>4 DEF ScanTag
  <2>3. Size(c) \in Nat
    BY <1>1, FileType
  <2>4. /\ h \in StateType /\ h.live = hs[c].live /\ h.handle = hs[c].handle /\ h.uri = hs[c].uri
        /\ h.tag_check = hs[c].tag_check
    BY <1>1, <2>3 DEF StateType
  <2> HIDE DEF h
  <2> QED BY <1>1, <1>2, <2>1, <2>2, <2>4, QuietStep
<1> QED BY <1>3, <1>4

(* The rest of the file before the insert.                                 *)
LEMMA SendTagSafe ==
  ASSUME IInv, NEW c, Serving(c), SendTag(c)
  PROVE  IInv'
<1>1. /\ c \in Conn /\ hs[c] \in StateType /\ hs[c].handle # 0 /\ hs[c].tag_check
      /\ Sending(pcb[c].out, hs[c].uri, hs[c]) /\ hs[c].tag_state = "sending"
      /\ SendToTag(c, hs[c]) /\ inuse' = inuse /\ leaked' = leaked
  BY ServingFacts DEF SendTag, Parsing
<1> QED BY <1>1, SendToTagSafe

(* The insert.                                                             *)
LEMMA SendInsertSafe ==
  ASSUME IInv, NEW c, Serving(c), SendInsert(c)
  PROVE  IInv'
<1> DEFINE f == hs[c].uri
           h == hs[c]
<1>1. /\ c \in Conn /\ cb \in CallType /\ cb.conn = c /\ h \in StateType /\ h.handle # 0 /\ h.tag_check
      /\ Sending(pcb[c].out, f, h) /\ f \in Name /\ pcb[c] \in PcbType /\ SndBuf(c) \in Nat
      /\ h.tag_state = "sending" /\ h.tag_end = h.file
  BY ServingFacts DEF SendInsert, Parsing, Serving
<1>2. inuse' = inuse /\ leaked' = leaked
  BY DEF SendInsert
<1>3. Insert \in Seq(Byte) /\ Len(Insert) \in Nat /\ h.tag_index \in 0..Len(Insert)
  BY <1>1, FileType DEF Sending
<1> DEFINE len == Least({cb.len, Len(Insert) - h.tag_index})
<1>4. len \in Nat /\ len <= Len(Insert) - h.tag_index
  <2>1. {cb.len, Len(Insert) - h.tag_index} \in SUBSET Nat
    BY <1>1, <1>3 DEF CallType
  <2> QED BY <2>1, LeastIs
<1> HIDE DEF len
<1>5. ASSUME NEW w \in WriteLoop(len, SndBuf(c)), w.err = "OK",
             hs' = [hs EXCEPT ![c].tag_index = @ + w.len],
             Return(Wrote(c, SubSeq(Insert, h.tag_index + 1, h.tag_index + w.len)))
      PROVE  IInv'
  <2> DEFINE n     == w.len
             piece == SubSeq(Insert, h.tag_index + 1, h.tag_index + n)
             h1    == [h EXCEPT !.tag_index = h.tag_index + n]
             o     == pcb[c].out \o piece
             u     == pcb[c].unacked + Len(piece)
             b     == pcb[c].sent \/ cb.fromSent
             p1    == [pcb[c] EXCEPT !.out = o, !.unacked = u, !.sent = b]
  <2>1. n \in Nat /\ n <= len /\ n <= SndBuf(c)
    BY <1>1, <1>4, <1>5, WriteOutcome
  <2>2. h.tag_index + n <= Len(Insert) /\ h.tag_index + n \in Nat
    BY <1>3, <1>4, <2>1
  <2>3. piece \in Seq(Byte) /\ Len(piece) = n
    <3> DEFINE i == h.tag_index
               j == h.tag_index + n
    <3>1. i \in Nat /\ j \in Nat /\ j - i = n /\ i <= j /\ j <= Len(Insert)
      BY <1>3, <2>1, <2>2
    <3> HIDE DEF i, j, n
    <3>2. \A k \in i + 1..j : Insert[k] \in Byte
      BY <1>3, <3>1, ElementOfSeq
    <3>3. SubSeq(Insert, i + 1, j) \in Seq(Byte) /\ Len(SubSeq(Insert, i + 1, j)) = IF i + 1 <= j THEN j - (i + 1) + 1 ELSE 0
      BY <1>3, <3>1, <3>2, SubSeqProperties
    <3>4. SubSeq(Insert, i + 1, j) \in Seq(Byte) /\ Len(SubSeq(Insert, i + 1, j)) = n
      BY <3>1, <3>3
    <3> QED BY <3>4 DEF i, j
  <2>4. Sending(o, f, h1)
    BY <1>1, <2>1, <2>2, SendInsertBytes DEF PcbType
  <2>5. h1 \in StateType /\ h1.live = h.live /\ h1.handle = h.handle /\ h1.uri = h.uri /\ h1.tag_check = h.tag_check
    <3> HIDE DEF n
    <3> QED BY <1>1, <2>2 DEF StateType
  <2>6. o \in Seq(Byte)
    BY <1>1, <2>3, ConcatProperties DEF PcbType
  <2>7. u \in 0..SND_BUF
    <3>1. pcb[c].unacked \in 0..SND_BUF /\ SndBuf(c) = SND_BUF - pcb[c].unacked /\ SND_BUF \in Nat
      BY <1>1, HttpdAssumption DEF PcbType, SndBuf
    <3> HIDE DEF piece, n
    <3> QED BY <2>1, <2>3, <3>1
  <2>8. b \in BOOLEAN
    OBVIOUS
  <2>9. pcb' = [pcb EXCEPT ![c] = p1] /\ cb' = NoCall
    <3>1. pcb' = [pcb EXCEPT ![c] = [Wrote(c, piece) EXCEPT !.sent = @ \/ cb.fromSent]] /\ cb' = NoCall
      BY <1>1, <1>5 DEF Return
    <3> HIDE DEF piece
    <3>2. [Wrote(c, piece) EXCEPT !.sent = @ \/ cb.fromSent] = p1
      BY <1>1 DEF Wrote, PcbType
    <3> QED BY <3>1, <3>2
  <2>10. hs' = [hs EXCEPT ![c] = h1]
    BY <1>5
  <2> HIDE DEF o, u, b, h1, n, piece
  <2>11. p1 \in PcbType /\ p1.out = o /\ p1.unacked = u /\ p1.sent = b
    BY <1>1, <2>6, <2>7, <2>8 DEF PcbType
  <2>12. p1 = [pcb[c] EXCEPT !.out = p1.out, !.unacked = p1.unacked, !.sent = p1.sent]
    BY <2>11
  <2> HIDE DEF p1
  <2>13. Written(c, p1, h1)
    BY <2>4, <2>5, <2>11, <2>12 DEF Written
  <2>14. Continues(h1)
    BY <2>9 DEF Continues
  <2> QED BY <1>1, <1>2, <2>5, <2>9, <2>10, <2>13, <2>14, SendStep
<1>6. ASSUME NEW w \in WriteLoop(len, SndBuf(c)), GoOn(pcb[c], "parse", w.len, w.err), UNCHANGED hs
      PROVE  IInv'
  <2>1. w.len \in Nat /\ w.err \in {"OK", "MEM"}
    BY <1>1, <1>4, WriteOutcome
  <2>2. hs' = [hs EXCEPT ![c] = hs[c]]
    BY <1>1, <1>6 DEF IInv, Types
  <2>3. \E l \in Nat, e \in {"OK", "MEM"} : GoOn(pcb[c], "parse", l, e)
    BY <1>6, <2>1
  <2> QED BY <1>1, <1>2, <2>2, <2>3, QuietStep
<1>7. ASSUME h.tag_index = Len(Insert), UNCHANGED <<pcb, cb>>,
             hs' = [hs EXCEPT ![c].tag_index = 0, ![c].tag_state = "none"]
      PROVE  IInv'
  <2> DEFINE h1 == [h EXCEPT !.tag_index = 0, !.tag_state = "none"]
  <2>1. hs' = [hs EXCEPT ![c] = h1]
    BY <1>1, <1>7 DEF IInv, Types
  <2>2. Sending(pcb[c].out, f, h1)
    BY <1>1, <1>7, InsertDone
  <2>3. h1 \in StateType /\ h1.live = h.live /\ h1.handle = h.handle /\ h1.uri = h.uri /\ h1.tag_check = h.tag_check
    BY <1>1 DEF StateType
  <2>4. UNCHANGED <<pcb, cb>>
    BY <1>7
  <2> HIDE DEF h1
  <2> QED BY <1>1, <1>2, <2>1, <2>2, <2>3, <2>4, QuietStep
<1> QED BY <1>5, <1>6, <1>7 DEF SendInsert, len

(* What is parsed and holds no tag.                                        *)
LEMMA SendTailSafe ==
  ASSUME IInv, NEW c, Serving(c), SendTail(c)
  PROVE  IInv'
<1>1. /\ c \in Conn /\ hs[c] \in StateType /\ hs[c].handle # 0
      /\ Sending(pcb[c].out, hs[c].uri, hs[c]) /\ hs[c].tag_check
  BY ServingFacts DEF SendTail
<1> DEFINE len == Least({SndBuf(c), hs[c].parsed - hs[c].file, 2 * MSS})
<1>2. len \in Nat /\ SameFile(c, hs[c], len)
  BY <1>1, ParsedLength
<1>3. inuse' = inuse /\ leaked' = leaked
  BY DEF SendTail
<1>4. CASE hs[c].tag_state # "sending" /\ hs[c].parsed > hs[c].file
  <2>1. hs[c].parsed # hs[c].file
    <3>1. hs[c].parsed \in Nat /\ hs[c].file \in Nat
      BY <1>1 DEF StateType
    <3> QED BY <1>4, <3>1
  <2>2. PICK w \in WriteLoop(len, SndBuf(c)) :
          /\ hs' = [hs EXCEPT ![c].file = @ + Len(FilePiece(c, w))]
          /\ Return(Wrote(c, FilePiece(c, w)))
    BY <1>4, <2>1 DEF SendTail
  <2>3. FileStep(c, len, hs[c])
    BY <1>1, <2>2 DEF FileStep
  <2> HIDE DEF len
  <2> QED BY <1>1, <1>2, <1>3, <2>3, FileStepSafe
<1>5. CASE Return(pcb[c]) /\ UNCHANGED hs
  <2>1. hs' = [hs EXCEPT ![c] = hs[c]]
    BY <1>1, <1>5 DEF IInv, Types
  <2> QED BY <1>1, <1>3, <1>5, <2>1, QuietStep
<1> QED BY <1>4, <1>5 DEF SendTail

(* A step of send_data.                                                    *)
LEMMA SendDataSafe ==
  ASSUME IInv, send_data
  PROVE  IInv'
<1>1. PICK c \in Conn :
        /\ cb.conn = c
        /\ SendEnd(c) \/ SendPlain(c) \/ SendParsed(c) \/ ScanTag(c)
             \/ SendTag(c) \/ SendInsert(c) \/ SendTail(c)
  BY DEF send_data
<1>2. Serving(c)
  BY <1>1 DEF Serving
<1> QED BY <1>1, <1>2, SendEndSafe, SendPlainSafe, SendParsedSafe, ScanTagSafe, SendTagSafe,
          SendInsertSafe, SendTailSafe

----------------------------------------------------------------------------
(* The callbacks.                                                          *)

(* What is known of a connection between two calls.                        *)
LEMMA IdleFacts ==
  ASSUME IInv, NEW c \in Conn
  PROVE  /\ pcb \in [Conn -> PcbType] /\ hs \in [Conn -> StateType]
         /\ pcb[c] \in PcbType /\ hs[c] \in StateType /\ ConnInv(pcb[c], hs[c])
         /\ SocketInv(pcb[c], hs[c]) /\ StreamInv(pcb[c], hs[c])
         /\ inuse \subseteq 1..MAX_OPEN_FILES /\ leaked \in BOOLEAN /\ cb \in CallType
         /\ hs[c].live \in BOOLEAN /\ pcb[c].arg \in BOOLEAN
BY DEF IInv, Types, ConnInv, PcbType, StateType

(* A call that starts has a connection with its state.                     *)
LEMMA CallStarts ==
  ASSUME NEW c \in Conn, NEW back \in BOOLEAN, Call(c, back), hs'[c].live
  PROVE  cb' \in CallType /\ CallInv'
<1>1. cb' \in CallType /\ cb'.conn = c /\ cb'.at = "send"
  BY DEF Call, NoCall, CallType
<1> QED BY <1>1 DEF CallInv

(* Nothing is called.                                                      *)
LEMMA StaysIdle ==
  ASSUME Idle, cb' = cb
  PROVE  cb' \in CallType /\ CallInv'
BY DEF Idle, CallInv, NoCall, CallType

(* A connection without state and pcb, or without state.                   *)
LEMMA EmptyTypes ==
  NoPcb \in PcbType /\ NoState \in StateType /\ ConnInv(NoPcb, NoState)
<1>1. << >> \in Seq(Byte)
  OBVIOUS
<1>2. NoPcb \in PcbType /\ NoState \in StateType
  BY <1>1, HttpdAssumption DEF NoPcb, PcbType, NoState, StateType
<1>3. SocketInv(NoPcb, NoState)
  BY DEF SocketInv, NoPcb, NoState
<1>4. StreamInv(NoPcb, NoState)
  BY DEF StreamInv, Closed, NoPcb, NoState
<1> QED BY <1>2, <1>3, <1>4 DEF ConnInv

(* Their fields.                                                           *)
LEMMA EmptyFields ==
  /\ NoState.handle = 0 /\ NoState.uri = NONE /\ NoState.file = 0 /\ NoState.parsed = 0
  /\ NoState.tag_state = "none" /\ NoState.tag_check = FALSE
  /\ NoPcb.reply = NONE /\ NoPcb.done = FALSE /\ NoPcb.out = << >>
  /\ 0 \in 0..MAX_RETRIES - 1
BY HttpdAssumption DEF NoState, NoPcb

(* A connection is accepted.                                               *)
LEMMA AcceptSafe ==
  ASSUME IInv, NEW c \in Conn, http_accept(c)
  PROVE  IInv'
<1> DEFINE p == [NoPcb EXCEPT !.state = "estab", !.arg = TRUE, !.recv = TRUE]
           h == [NoState EXCEPT !.live = TRUE]
<1>1. pcb' = [pcb EXCEPT ![c] = p] /\ hs' = [hs EXCEPT ![c] = h] /\ UNCHANGED <<inuse, leaked, cb>> /\ Idle
  BY DEF http_accept
<1>2. pcb[c] = NoPcb /\ ~hs[c].live /\ hs[c] = NoState
  BY IdleFacts DEF http_accept, SocketInv, NoPcb
<1>3. hs[c].handle = 0 /\ h.handle = 0 /\ h \in StateType /\ h.live /\ h.uri = NONE /\ h.file = 0
      /\ h.parsed = 0 /\ h.tag_state = "none" /\ ~h.tag_check
  BY <1>2, EmptyFields, EmptyTypes DEF StateType
<1>4. p \in PcbType /\ p.arg /\ p.state = "estab" /\ p.reply = NONE /\ ~p.done /\ p.out = << >>
  BY EmptyFields, EmptyTypes DEF PcbType
<1> HIDE DEF p, h
<1>5. ConnInv(p, h)
  BY <1>3, <1>4 DEF ConnInv, SocketInv, StreamInv, PcbType, StateType
<1>6. Changed(c, p, h)
  BY <1>1, <1>3, <1>4, <1>5 DEF Changed
<1>7. HandlesExact'
  BY <1>1, <1>3, HandleKept
<1>8. cb' \in CallType /\ CallInv'
  BY <1>1, StaysIdle
<1> QED BY <1>1, <1>6, <1>7, <1>8, IdleFacts, OneChanges

(* The state of a connection is freed and its file closed.                 *)
LEMMA FreeSafe ==
  ASSUME IInv, NEW c \in Conn, NEW p \in PcbType, ConnInv(p, NoState), Idle, cb' = cb, leaked' = leaked,
         pcb' = [pcb EXCEPT ![c] = p], hs' = [hs EXCEPT ![c] = NoState], inuse' = inuse \ {hs[c].handle}
  PROVE  IInv'
<1>1. Changed(c, p, NoState)
  BY EmptyTypes DEF Changed
<1>2. HandlesExact' /\ inuse' \subseteq 1..MAX_OPEN_FILES
  BY HandleClosed
<1>3. cb' \in CallType /\ CallInv'
  BY StaysIdle
<1> QED BY <1>1, <1>2, <1>3, IdleFacts, OneChanges

(* lwIP frees the pcb.                                                     *)
LEMMA ConnErrSafe ==
  ASSUME IInv, NEW c \in Conn, conn_err(c), Idle, cb' = cb, leaked' = leaked
  PROVE  IInv'
<1>1. pcb' = [pcb EXCEPT ![c] = NoPcb]
  BY DEF conn_err
<1>2. hs' = [hs EXCEPT ![c] = NoState] /\ inuse' = inuse \ {hs[c].handle}
  <2>1. CASE pcb[c].arg
    BY <2>1 DEF conn_err, FreeState
  <2>2. CASE ~pcb[c].arg
    <3>1. hs[c] = NoState /\ UNCHANGED <<hs, inuse>>
      BY <2>2, IdleFacts DEF SocketInv, conn_err
    <3>2. hs[c].handle = 0
      BY <3>1 DEF NoState
    <3> QED BY <3>1, <3>2, IdleFacts
  <2> QED BY <2>1, <2>2
<1> QED BY <1>1, <1>2, EmptyTypes, FreeSafe

(* The server closes the connection.                                       *)
LEMMA RecvCloseSafe ==
  ASSUME IInv, NEW c \in Conn, http_recv_close(c)
  PROVE  IInv'
<1>1. Idle /\ pcb[c].recv /\ cb' = cb /\ leaked' = leaked /\ close_conn(c)
  BY DEF http_recv_close
<1>2. PICK st \in {"fin", "estab"} : pcb' = [pcb EXCEPT ![c] = Detached(c, st)]
  BY <1>1 DEF close_conn
<1>3. hs' = [hs EXCEPT ![c] = NoState] /\ inuse' = inuse \ {hs[c].handle}
  BY <1>1 DEF close_conn, FreeState
<1> DEFINE p == Detached(c, st)
<1>4. /\ p \in PcbType /\ p.arg = FALSE /\ p.recv = FALSE /\ p.state = st
      /\ p.out = pcb[c].out /\ p.reply = pcb[c].reply /\ p.done = pcb[c].done
  BY IdleFacts DEF PcbType, Detached
<1>5. hs[c].live /\ ~pcb[c].done /\ pcb[c].reply = hs[c].uri
  BY <1>1, IdleFacts DEF SocketInv
<1> HIDE DEF p
<1>6. Closed(p)
  <2> SUFFICES ASSUME p.reply # NONE PROVE Begins(p.out, Reply(p.reply)) /\ (p.done => p.out = Reply(p.reply))
    BY DEF Closed
  <2>1. hs[c].handle # 0 /\ hs[c].uri \in Name
    BY <1>4, <1>5, IdleFacts DEF SocketInv, StateType
  <2>2. Sending(pcb[c].out, hs[c].uri, hs[c])
    BY <2>1, IdleFacts DEF StreamInv
  <2>3. Begins(pcb[c].out, Reply(hs[c].uri))
    BY <2>1, <2>2, SendingBegins
  <2> QED BY <1>4, <1>5, <2>3
<1>7. ConnInv(p, NoState)
  BY <1>4, <1>6 DEF ConnInv, SocketInv, StreamInv, NoState
<1> QED BY <1>1, <1>2, <1>3, <1>4, <1>7, FreeSafe DEF p

(* A request is answered, or there is no free file.                        *)
LEMMA RecvGetSafe ==
  ASSUME IInv, NEW c \in Conn, NEW uri \in Name \cup {Missing}, http_recv_get(c, uri)
  PROVE  IInv'
<1>0. pcb[c].recv /\ hs[c].handle = 0 /\ Call(c, FALSE)
  BY DEF http_recv_get
<1>1. /\ pcb[c].recv /\ hs[c].handle = 0 /\ Call(c, FALSE)
      /\ pcb[c].arg /\ hs[c].live /\ ~pcb[c].done /\ pcb[c].state = "estab" /\ pcb[c].out = << >>
      /\ hs[c].file = 0 /\ hs[c].parsed = 0 /\ hs[c].tag_state = "none" /\ ~hs[c].tag_check
      /\ pcb[c].reply = hs[c].uri /\ hs[c].uri = NONE
  <2>1. /\ pcb[c].arg /\ hs[c].live /\ ~pcb[c].done /\ pcb[c].state = "estab"
        /\ hs[c].file = 0 /\ hs[c].parsed = 0 /\ hs[c].tag_state = "none" /\ ~hs[c].tag_check
        /\ pcb[c].reply = hs[c].uri /\ hs[c].uri = NONE
    BY <1>0, IdleFacts DEF SocketInv
  <2>2. pcb[c].out = << >>
    BY <1>0, <2>1, IdleFacts DEF StreamInv
  <2> QED BY <1>0, <2>1, <2>2
<1>2. CASE FreeFiles # {}
  <2> DEFINE n == Least(FreeFiles)
             f == Found(uri)
             h == [NoState EXCEPT !.live = TRUE, !.handle = n, !.uri = f, !.tag_check = uri \in Shtml]
             p == [pcb[c] EXCEPT !.sent = TRUE, !.reply = f]
  <2>1. n \in FreeFiles /\ n \in 0..MAX_OPEN_FILES /\ n # 0
    <3>1. FreeFiles \in SUBSET Nat
      BY DEF FreeFiles
    <3>2. n \in FreeFiles
      BY <1>2, <3>1, LeastIs
    <3> QED BY <3>2 DEF FreeFiles
  <2>2. f \in Name /\ (uri \in Shtml <=> f \in Shtml)
    BY HttpdAssumption DEF Found
  <2>3. /\ hs' = [hs EXCEPT ![c] = h] /\ inuse' = inuse \cup {n} /\ leaked' = leaked
        /\ pcb' = [pcb EXCEPT ![c] = p]
    BY <1>2, IdleFacts DEF http_recv_get
  <2> HIDE DEF n, f
  <2>4. /\ h \in StateType /\ h.live /\ h.handle = n /\ h.uri = f /\ h.file = 0 /\ h.parsed = 0
        /\ h.tag_state = "none" /\ (h.tag_check <=> uri \in Shtml)
    <3> DEFINE t == uri \in Shtml
    <3>1. t \in BOOLEAN
      OBVIOUS
    <3> HIDE DEF t
    <3> QED BY <2>1, <2>2, <3>1, EmptyFields, EmptyTypes DEF StateType, t
  <2>5. /\ p \in PcbType /\ p.arg = pcb[c].arg /\ p.state = "estab" /\ p.reply = f /\ ~p.done
        /\ p.out = << >> /\ p.recv = pcb[c].recv
    BY <1>1, <2>2, IdleFacts DEF PcbType
  <2> HIDE DEF h, p
  <2>6. Sending(<< >>, f, h)
    <3>1. UpTo(f)[0] = << >> /\ Len(Content[f]) \in Nat
      BY <2>2, UpToIs, FileType
    <3> QED BY <2>2, <2>4, <3>1 DEF Sending, Plain
  <2>7. SocketInv(p, h)
    BY <1>1, <2>1, <2>2, <2>4, <2>5, HttpdAssumption DEF SocketInv, StateType, PcbType
  <2>8. StreamInv(p, h)
    BY <2>1, <2>4, <2>5, <2>6 DEF StreamInv
  <2>9. Changed(c, p, h)
    BY <2>3, <2>4, <2>5, <2>7, <2>8 DEF Changed, ConnInv
  <2>10. HandlesExact' /\ inuse' \subseteq 1..MAX_OPEN_FILES
    BY <1>1, <2>1, <2>3, <2>4, HandleOpened
  <2>11. hs'[c].live
    BY <2>3, <2>4, IdleFacts
  <2>12. cb' \in CallType /\ CallInv'
    BY <1>1, <2>11, CallStarts
  <2> QED BY <2>3, <2>9, <2>10, <2>12, IdleFacts, OneChanges
<1>3. CASE FreeFiles = {}
  <2> DEFINE h == [hs[c] EXCEPT !.retries = 0]
             p == [pcb[c] EXCEPT !.sent = TRUE]
  <2>1. /\ hs' = [hs EXCEPT ![c] = h] /\ inuse' = inuse /\ leaked' = TRUE
        /\ pcb' = [pcb EXCEPT ![c] = p]
    BY <1>3, IdleFacts DEF http_recv_get
  <2>2. /\ h \in StateType /\ h.live /\ h.handle = 0 /\ h.uri = NONE /\ h.file = 0 /\ h.parsed = 0
        /\ h.tag_state = "none" /\ ~h.tag_check
    BY <1>1, IdleFacts, EmptyFields DEF StateType
  <2>3. /\ p \in PcbType /\ p.arg = pcb[c].arg /\ p.state = "estab" /\ p.reply = NONE /\ ~p.done
        /\ p.out = << >> /\ p.recv = pcb[c].recv
    BY <1>1, IdleFacts DEF PcbType
  <2> HIDE DEF h, p
  <2>4. ConnInv(p, h)
    BY <1>1, <2>2, <2>3 DEF ConnInv, SocketInv, StreamInv, StateType, PcbType
  <2>5. Changed(c, p, h)
    BY <2>1, <2>2, <2>3, <2>4 DEF Changed
  <2>6. HandlesExact'
    BY <1>1, <2>1, <2>2, HandleKept
  <2>7. hs'[c].live
    BY <2>1, <2>2, IdleFacts
  <2>8. cb' \in CallType /\ CallInv'
    BY <1>1, <2>7, CallStarts
  <2> QED BY <2>1, <2>5, <2>6, <2>8, IdleFacts, OneChanges
<1> QED BY <1>2, <1>3

(* Fields that neither the socket nor the stream depends on.               *)
Alike(p, h, p1, h1) ==
  /\ p1 \in PcbType /\ h1 \in StateType
  /\ p1.arg = p.arg /\ p1.recv = p.recv /\ p1.state = p.state /\ p1.reply = p.reply
  /\ p1.done = p.done /\ p1.out = p.out /\ p.state # "none"
  /\ (h1 = h \/ \E r : h.live /\ h1 = [h EXCEPT !.retries = r])

(* The invariant of the connection does not depend on them.                *)
LEMMA AlikeConn ==
  ASSUME NEW p, NEW h \in StateType, ConnInv(p, h), NEW p1, NEW h1, Alike(p, h, p1, h1)
  PROVE  /\ ConnInv(p1, h1) /\ h1.handle = h.handle /\ h1.live = h.live
<1>1. CASE h1 = h
  BY <1>1 DEF ConnInv, SocketInv, StreamInv, Alike, Closed
<1>2. CASE \E r : h.live /\ h1 = [h EXCEPT !.retries = r]
  <2>1. /\ h.live /\ h1.live = h.live /\ h1.handle = h.handle /\ h1.uri = h.uri /\ h1.file = h.file
        /\ h1.parsed = h.parsed /\ h1.tag_check = h.tag_check /\ h1.tag_state = h.tag_state
        /\ h1.tag_index = h.tag_index /\ h1.tag_end = h.tag_end
    BY <1>2 DEF StateType
  <2>2. SocketInv(p1, h1)
    BY <2>1 DEF ConnInv, SocketInv, Alike
  <2>3. \A out, f : Sending(out, f, h) => Sending(out, f, h1)
    BY <2>1 DEF Sending
  <2>4. StreamInv(p1, h1)
    BY <2>1, <2>3 DEF ConnInv, StreamInv, Alike
  <2> QED BY <2>1, <2>2, <2>4 DEF ConnInv
<1> QED BY <1>1, <1>2 DEF Alike

(* Data is acknowledged.                                                   *)
LEMMA SentSafe ==
  ASSUME IInv, NEW c \in Conn, NEW n \in 1..SND_BUF, http_sent(c, n)
  PROVE  IInv'
<1>1. Idle /\ n <= pcb[c].unacked /\ inuse' = inuse /\ leaked' = leaked
  BY DEF http_sent
<1>2. pcb[c].unacked - n \in 0..SND_BUF
  BY <1>1, IdleFacts, HttpdAssumption DEF PcbType
<1>3. pcb[c].state # "none"
  <2>1. CASE pcb[c] = NoPcb
    BY <1>1, <2>1 DEF NoPcb
  <2> QED BY <2>1, IdleFacts DEF SocketInv
<1>4. CASE pcb[c].sent /\ pcb[c].arg
  <2> DEFINE p == [pcb[c] EXCEPT !.unacked = @ - n, !.sent = FALSE]
             h == [hs[c] EXCEPT !.retries = 0]
  <2>1. pcb' = [pcb EXCEPT ![c] = p] /\ hs' = [hs EXCEPT ![c] = h] /\ Call(c, TRUE)
    BY <1>4, IdleFacts DEF http_sent
  <2>2. hs[c].live
    BY <1>4, IdleFacts DEF SocketInv
  <2>3. Alike(pcb[c], hs[c], p, h)
    <3>1. h \in StateType
      BY IdleFacts, EmptyFields DEF StateType
    <3>2. /\ p \in PcbType /\ p.arg = pcb[c].arg /\ p.recv = pcb[c].recv /\ p.state = pcb[c].state
          /\ p.reply = pcb[c].reply /\ p.done = pcb[c].done /\ p.out = pcb[c].out
      BY <1>2, IdleFacts DEF PcbType
    <3> HIDE DEF p
    <3> QED BY <1>3, <2>2, <3>1, <3>2 DEF Alike
  <2> HIDE DEF p, h
  <2>4. ConnInv(p, h) /\ h.handle = hs[c].handle /\ h.live = hs[c].live
    BY <2>3, IdleFacts, AlikeConn
  <2>5. Changed(c, p, h) /\ h \in StateType
    BY <2>1, <2>3, <2>4 DEF Changed, Alike
  <2>6. HandlesExact'
    BY <1>1, <2>1, <2>4, <2>5, HandleKept
  <2>7. hs'[c].live
    BY <2>1, <2>2, <2>4, IdleFacts
  <2>8. cb' \in CallType /\ CallInv'
    BY <2>1, <2>7, CallStarts
  <2> QED BY <1>1, <2>5, <2>6, <2>8, IdleFacts, OneChanges
<1>5. CASE ~(pcb[c].sent /\ pcb[c].arg)
  <2> DEFINE p == [pcb[c] EXCEPT !.unacked = @ - n]
  <2>1. pcb' = [pcb EXCEPT ![c] = p] /\ hs' = [hs EXCEPT ![c] = hs[c]] /\ cb' = cb
    BY <1>5, IdleFacts DEF http_sent
  <2>2. Alike(pcb[c], hs[c], p, hs[c])
    <3>1. /\ p \in PcbType /\ p.arg = pcb[c].arg /\ p.recv = pcb[c].recv /\ p.state = pcb[c].state
          /\ p.reply = pcb[c].reply /\ p.done = pcb[c].done /\ p.out = pcb[c].out
      BY <1>2, IdleFacts DEF PcbType
    <3> HIDE DEF p
    <3> QED BY <1>3, <3>1, IdleFacts DEF Alike
  <2> HIDE DEF p
  <2>3. ConnInv(p, hs[c])
    BY <2>2, IdleFacts, AlikeConn
  <2>4. Changed(c, p, hs[c])
    BY <2>1, <2>2, <2>3 DEF Changed, Alike
  <2>5. HandlesExact'
    BY <1>1, <2>1, IdleFacts, HandleKept
  <2>6. cb' \in CallType /\ CallInv'
    BY <1>1, <2>1, StaysIdle
  <2> QED BY <1>1, <2>4, <2>5, <2>6, IdleFacts, OneChanges
<1> QED BY <1>4, <1>5

(* The timer polls: the connection is aborted, or data is tried again.     *)
LEMMA PollSafe ==
  ASSUME IInv, NEW c \in Conn, http_poll(c)
  PROVE  IInv'
<1>1. Idle /\ pcb[c].state # "none" /\ leaked' = leaked
  BY DEF http_poll
<1>2. CASE conn_err(c) /\ UNCHANGED cb
  BY <1>1, <1>2, ConnErrSafe
<1>3. CASE /\ pcb[c].arg /\ hs[c].retries + 1 # MAX_RETRIES
           /\ hs' = [hs EXCEPT ![c].retries = @ + 1]
           /\ IF hs[c].handle # 0 THEN Call(c, FALSE) ELSE UNCHANGED cb
           /\ UNCHANGED <<pcb, inuse>>
  <2> DEFINE h == [hs[c] EXCEPT !.retries = @ + 1]
  <2>1. pcb' = [pcb EXCEPT ![c] = pcb[c]] /\ hs' = [hs EXCEPT ![c] = h] /\ inuse' = inuse
    BY <1>3, IdleFacts
  <2>2. hs[c].live
    BY <1>3, IdleFacts DEF SocketInv
  <2>3. Alike(pcb[c], hs[c], pcb[c], h)
    <3>1. hs[c].retries + 1 \in 0..MAX_RETRIES - 1
      BY <1>3, IdleFacts, HttpdAssumption DEF StateType
    <3>2. h \in StateType
      BY <3>1, IdleFacts DEF StateType
    <3> QED BY <1>1, <2>2, <3>2, IdleFacts DEF Alike
  <2> HIDE DEF h
  <2>4. ConnInv(pcb[c], h) /\ h.handle = hs[c].handle /\ h.live = hs[c].live
    BY <2>3, IdleFacts, AlikeConn
  <2>5. Changed(c, pcb[c], h) /\ h \in StateType
    BY <2>1, <2>3, <2>4 DEF Changed, Alike
  <2>6. HandlesExact'
    BY <1>1, <2>1, <2>4, <2>5, HandleKept
  <2>7. hs'[c].live
    BY <2>1, <2>2, <2>4, IdleFacts
  <2>8. cb' \in CallType /\ CallInv'
    <3>1. CASE Call(c, FALSE)
      BY <2>7, <3>1, CallStarts
    <3>2. CASE cb' = cb
      BY <1>1, <3>2, StaysIdle
    <3> QED BY <1>3, <3>1, <3>2
  <2> QED BY <1>1, <2>1, <2>5, <2>6, <2>8, IdleFacts, OneChanges
<1> QED BY <1>2, <1>3 DEF http_poll

(* The client disappears.                                                  *)
LEMMA ClientGoneSafe ==
  ASSUME IInv, NEW c \in Conn, Reset(c) \/ Finished(c)
  PROVE  IInv'
<1>1. CASE Reset(c)
  BY <1>1, ConnErrSafe DEF Reset
<1>2. CASE Finished(c)
  <2>1. ~hs[c].live /\ hs[c] = NoState
    BY <1>2, IdleFacts DEF Finished, SocketInv
  <2>2. hs[c].handle = 0
    BY <2>1 DEF NoState
  <2>3. /\ pcb' = [pcb EXCEPT ![c] = NoPcb] /\ hs' = [hs EXCEPT ![c] = NoState]
        /\ inuse' = inuse \ {hs[c].handle} /\ cb' = cb /\ leaked' = leaked /\ Idle
    BY <1>2, <2>1, <2>2, IdleFacts DEF Finished
  <2> QED BY <2>3, EmptyTypes, FreeSafe
<1> QED BY <1>1, <1>2

----------------------------------------------------------------------------
(* The theorems.                                                           *)

(* Nothing is served at the start.                                         *)
LEMMA InitSafe == Init => IInv
<1> SUFFICES ASSUME Init PROVE IInv
  OBVIOUS
<1>1. \A c \in Conn : pcb[c] = NoPcb /\ hs[c] = NoState
  BY DEF Init
<1>2. Types
  BY EmptyTypes DEF Init, Types, NoCall, CallType
<1>3. \A c \in Conn : ConnInv(pcb[c], hs[c])
  BY <1>1, EmptyTypes
<1>4. CallInv
  BY DEF Init, CallInv
<1>5. HandlesExact
  BY <1>1, EmptyFields DEF Init, HandlesExact
<1> QED BY <1>2, <1>3, <1>4, <1>5 DEF IInv

(* Every step of the server, of lwIP and of the clients keeps IInv.        *)
LEMMA NextSafe == IInv /\ [Next]_vars => IInv'
<1> SUFFICES ASSUME IInv, [Next]_vars PROVE IInv'
  OBVIOUS
<1>1. CASE send_data
  BY <1>1, SendDataSafe
<1>2. ASSUME NEW c \in Conn,
             \/ http_accept(c) \/ http_recv_close(c) \/ http_poll(c) \/ Reset(c) \/ Finished(c)
      PROVE  IInv'
  BY <1>2, AcceptSafe, RecvCloseSafe, PollSafe, ClientGoneSafe
<1>3. ASSUME NEW c \in Conn, NEW uri \in Name \cup {Missing}, http_recv_get(c, uri)
      PROVE  IInv'
  BY <1>3, RecvGetSafe
<1>4. ASSUME NEW c \in Conn, NEW n \in 1..SND_BUF, http_sent(c, n)
      PROVE  IInv'
  BY <1>4, SentSafe
<1>5. CASE UNCHANGED vars
  BY <1>5 DEF vars, IInv, Types, CallInv, HandlesExact
<1> QED BY <1>1, <1>2, <1>3, <1>4, <1>5 DEF Next

(* IInv is an invariant of the server.                                     *)
THEOREM Invariance == Spec => []IInv
BY InitSafe, NextSafe, PTL DEF Spec

(* Every field of the pcbs and of the states keeps its type; the position  *)
(* in the file and the end of the parsed part stay in the file.            *)
THEOREM TypeCorrect == Spec => []TypeOK
<1>1. IInv => TypeOK
  <2> SUFFICES ASSUME IInv PROVE TypeOK
    OBVIOUS
  <2>1. ASSUME NEW c \in Conn
        PROVE  /\ pcb[c].state \in {"none", "estab", "fin"}
               /\ {pcb[c].arg, pcb[c].recv, pcb[c].sent, pcb[c].done} \subseteq BOOLEAN
               /\ pcb[c].unacked \in 0..SND_BUF /\ pcb[c].reply \in Name \cup {NONE}
               /\ hs[c].handle \in 0..MAX_OPEN_FILES /\ hs[c].uri \in Name \cup {NONE}
               /\ hs[c].retries \in 0..MAX_RETRIES - 1
               /\ hs[c].file \in 0..Size(c) /\ hs[c].parsed \in 0..Size(c)
    <3>1. /\ pcb[c].state \in {"none", "estab", "fin"}
          /\ {pcb[c].arg, pcb[c].recv, pcb[c].sent, pcb[c].done} \subseteq BOOLEAN
          /\ pcb[c].unacked \in 0..SND_BUF /\ pcb[c].reply \in Name \cup {NONE}
      BY IdleFacts DEF PcbType
    <3>2. /\ hs[c].handle \in 0..MAX_OPEN_FILES /\ hs[c].uri \in Name \cup {NONE}
          /\ hs[c].retries \in 0..MAX_RETRIES - 1
      BY IdleFacts DEF StateType
    <3>3. hs[c].file \in 0..Size(c) /\ hs[c].parsed \in 0..Size(c)
      <4>1. CASE hs[c].handle = 0
        BY <4>1, IdleFacts DEF SocketInv, Size
      <4>2. CASE hs[c].handle # 0
        BY <4>2, IdleFacts DEF StreamInv, Sending, Size
      <4> QED BY <4>1, <4>2
    <3> QED BY <3>1, <3>2, <3>3
  <2>2. inuse \subseteq 1..MAX_OPEN_FILES /\ leaked \in BOOLEAN /\ cb.conn \in Conn \cup {NONE}
    BY DEF IInv, Types, CallType
  <2> QED BY <2>1, <2>2 DEF TypeOK
<1> QED BY <1>1, Invariance, PTL

(* Whatever pieces send_data can write, the client gets the file with      *)
(* every tag followed by its insert, or a beginning of that; all of it     *)
(* when send_data closes the connection at the end of the file.            *)
THEOREM StreamsIntact == Spec => []StreamIntact
<1>1. IInv => StreamIntact
  <2> SUFFICES ASSUME IInv, NEW c \in Conn, pcb[c].reply # NONE
               PROVE  LET r == Reply(pcb[c].reply)
                      IN  /\ Len(pcb[c].out) <= Len(r)
                          /\ pcb[c].out = SubSeq(r, 1, Len(pcb[c].out))
                          /\ pcb[c].done => pcb[c].out = r
    BY DEF StreamIntact
  <2>1. pcb[c].out \in Seq(Byte)
    BY IdleFacts DEF PcbType
  <2>2. /\ Begins(pcb[c].out, Reply(pcb[c].reply))
        /\ pcb[c].done => pcb[c].out = Reply(pcb[c].reply)
    <3>1. CASE hs[c].live
      <4>1. hs[c].handle # 0 /\ hs[c].uri \in Name /\ pcb[c].reply = hs[c].uri /\ ~pcb[c].done
        BY <3>1, IdleFacts DEF SocketInv, StateType
      <4>2. Sending(pcb[c].out, hs[c].uri, hs[c])
        BY <4>1, IdleFacts DEF StreamInv
      <4> QED BY <4>1, <4>2, SendingBegins
    <3>2. CASE ~hs[c].live
      BY <3>2, IdleFacts DEF StreamInv, Closed
    <3> QED BY <3>1, <3>2
  <2> QED BY <2>1, <2>2, BeginsIs
<1> QED BY <1>1, Invariance, PTL

(* The callbacks never get the address of a freed state, and no state is   *)
(* lost that is still allocated.                                           *)
THEOREM ArgumentsValid == Spec => []NoStaleState
<1>1. IInv => NoStaleState
  BY IdleFacts DEF NoStaleState, SocketInv
<1> QED BY <1>1, Invariance, PTL

(* fs_memory neither leaks an entry nor gives one to two connections.      *)
THEOREM FilesAccounted == Spec => []HandlesExact
<1>1. IInv => HandlesExact
  BY DEF IInv
<1> QED BY <1>1, Invariance, PTL

(* With an entry of fs_memory for every pcb a request finds a free one.    *)
LEMMA FileFound ==
  ASSUME IInv, IsFiniteSet(Conn), Cardinality(Conn) <= MAX_OPEN_FILES,
         NEW c \in Conn, hs[c].handle = 0
  PROVE  FreeFiles # {}
<1> DEFINE D == Conn \ {c}
           h == [d \in D |-> hs[d].handle]
           I == {h[d] : d \in D}
<1> SUFFICES ASSUME FreeFiles = {} PROVE FALSE
  OBVIOUS
<1>1. IsFiniteSet(D) /\ Cardinality(D) = Cardinality(Conn) - 1 /\ Cardinality(D) \in Nat
  BY FS_RemoveElement, FS_CardinalityType
<1>2. IsFiniteSet(I) /\ Cardinality(I) <= Cardinality(D)
  <2>1. h \in Surjection(D, I)
    BY DEF Surjection
  <2> HIDE DEF D, h, I
  <2> QED BY <1>1, <2>1, FS_Surjection
<1>3. 1..MAX_OPEN_FILES \subseteq I
  <2>1. 1..MAX_OPEN_FILES \subseteq inuse
    BY DEF FreeFiles
  <2>2. \A n \in inuse : \E d \in Conn : n = hs[d].handle /\ n # 0
    BY DEF IInv, HandlesExact
  <2>3. \A n \in inuse : n \in I
    BY <2>2
  <2> QED BY <2>1, <2>3
<1>4. IsFiniteSet(1..MAX_OPEN_FILES) /\ Cardinality(1..MAX_OPEN_FILES) = MAX_OPEN_FILES
  BY HttpdAssumption, FS_Interval
<1>5. Cardinality(1..MAX_OPEN_FILES) <= Cardinality(I)
  BY <1>2, <1>3, FS_Subset
<1>6. Cardinality(I) \in Nat /\ Cardinality(Conn) \in Nat
  BY <1>2, FS_CardinalityType
<1> HIDE DEF I, D
<1> QED BY <1>1, <1>2, <1>4, <1>5, <1>6, HttpdAssumption

(* So no request is left without a file, and no pbuf without a free.       *)
THEOREM PbufsFreed ==
  ASSUME IsFiniteSet(Conn), Cardinality(Conn) <= MAX_OPEN_FILES
  PROVE  Spec => []NoPbufLeak
<1>1. Init => NoPbufLeak
  BY DEF Init, NoPbufLeak
<1>2. IInv /\ NoPbufLeak /\ [Next]_vars => NoPbufLeak'
  <2> SUFFICES ASSUME IInv, NoPbufLeak, [Next]_vars PROVE leaked' = leaked
    BY DEF NoPbufLeak
  <2>1. CASE send_data
    BY <2>1 DEF send_data, SendEnd, SendPlain, SendParsed, ScanTag, SendTag, SendInsert, SendTail
  <2>2. ASSUME NEW c \in Conn,
               \/ http_accept(c) \/ http_recv_close(c) \/ http_poll(c) \/ Reset(c) \/ Finished(c)
        PROVE  leaked' = leaked
    BY <2>2 DEF http_accept, http_recv_close, http_poll, Reset, Finished
  <2>3. ASSUME NEW c \in Conn, NEW uri \in Name \cup {Missing}, http_recv_get(c, uri)
        PROVE  leaked' = leaked
    <3>1. FreeFiles # {}
      BY <2>3, FileFound DEF http_recv_get
    <3> QED BY <2>3, <3>1 DEF http_recv_get
  <2>4. ASSUME NEW c \in Conn, NEW n \in 1..SND_BUF, http_sent(c, n)
        PROVE  leaked' = leaked
    BY <2>4 DEF http_sent
  <2>5. CASE UNCHANGED vars
    BY <2>5 DEF vars
  <2> QED BY <2>1, <2>2, <2>3, <2>4, <2>5 DEF Next
<1> QED BY <1>1, <1>2, Invariance, PTL DEF Spec

----------------------------------------------------------------------------
(* The parse loop.                                                         *)

(* Nothing of a page is sent before a part of it is parsed.                *)
Unsent(p, h) == h.live /\ h.parsed = 0 /\ (h.handle # 0 => h.tag_check) => p.unacked = 0

(* Between two tags, the parsed part of a page ends in a tag.              *)
AfterTag(h) ==
  h.tag_check /\ h.tag_state = "none" /\ h.parsed \in 1..Len(Content[h.uri]) - 1
    => Content[h.uri][h.parsed] \in Tags

(* The parse loop without a byte to write: the send buffer is full, and    *)
(* what fills it is behind the start of the page; if it goes on to a tag,  *)
(* it is not the first.                                                    *)
NoRoomFor(c) ==
  cb.conn = c /\ cb.at = "parse" /\ cb.err = "OK" /\ cb.len = 0 =>
    /\ pcb[c].unacked = SND_BUF
    /\ hs[c].tag_state = "none" => hs[c].parsed # 0
    /\ hs[c].tag_state = "sending" /\ hs[c].file < hs[c].parsed
         => TagBefore(hs[c].uri, hs[c].parsed)

LoopInv == \A c \in Conn : Unsent(pcb[c], hs[c]) /\ AfterTag(hs[c]) /\ NoRoomFor(c)

(* To write nothing is no error only if nothing is asked for.              *)
LEMMA NothingWritten ==
  ASSUME NEW len \in Nat, NEW room \in Nat, NEW w \in WriteLoop(len, room), w.err = "OK", w.len = 0
  PROVE  len = 0
<1>1. PICK n \in Tried(len) : w = [err |-> "OK", len |-> n]
  BY DEF WriteLoop
<1>2. n = 0
  BY <1>1
<1> QED BY <1>1, <1>2 DEF Tried

(* LoopInv is kept if one connection changes and keeps it.                 *)
LEMMA LoopKept ==
  ASSUME IInv, LoopInv, NEW c \in Conn, NEW p, NEW h,
         pcb' = [pcb EXCEPT ![c] = p], hs' = [hs EXCEPT ![c] = h],
         Unsent(p, h), AfterTag(h), cb'.at # "parse" \/ cb'.conn = c, NoRoomFor(c)'
  PROVE  LoopInv'
<1>1. ASSUME NEW d \in Conn
      PROVE  Unsent(pcb'[d], hs'[d]) /\ AfterTag(hs'[d]) /\ NoRoomFor(d)'
  <2>1. pcb \in [Conn -> PcbType] /\ hs \in [Conn -> StateType]
    BY DEF IInv, Types
  <2>2. CASE d = c
    BY <2>1, <2>2
  <2>3. CASE d # c
    <3>1. pcb'[d] = pcb[d] /\ hs'[d] = hs[d]
      BY <2>1, <2>3
    <3>2. NoRoomFor(d)'
      BY <2>3 DEF NoRoomFor
    <3> QED BY <3>1, <3>2 DEF LoopInv
  <2> QED BY <2>2, <2>3
<1> QED BY <1>1 DEF LoopInv

(* A call that is not in the parse loop.                                   *)
LEMMA NotParsing ==
  ASSUME NEW c, cb'.at # "parse"
  PROVE  NoRoomFor(c)'
BY DEF NoRoomFor

(* What LoopInv says of the connection that is served.                     *)
LEMMA LoopFacts ==
  ASSUME IInv, LoopInv, NEW c, Serving(c), hs[c].handle # 0, hs[c].tag_check
  PROVE  /\ c \in Conn /\ cb.conn = c /\ cb \in CallType
         /\ pcb[c] \in PcbType /\ hs[c] \in StateType /\ hs[c].live
         /\ pcb \in [Conn -> PcbType] /\ hs \in [Conn -> StateType]
         /\ SND_BUF \in Nat \ {0} /\ SndBuf(c) \in Nat /\ SndBuf(c) = SND_BUF - pcb[c].unacked
         /\ pcb[c].unacked \in Nat /\ hs[c].file \in Nat /\ hs[c].parsed \in Nat
         /\ hs[c].file <= hs[c].parsed
         /\ Size(c) = Len(Content[hs[c].uri]) /\ Size(c) \in Nat \ {0} /\ hs[c].parsed <= Size(c)
         /\ hs[c].parsed = 0 => pcb[c].unacked = 0
         /\ AfterTag(hs[c]) /\ NoRoomFor(c) /\ Sending(pcb[c].out, hs[c].uri, hs[c])
<1>1. /\ c \in Conn /\ cb.conn = c /\ cb \in CallType /\ hs[c].live /\ SndBuf(c) \in Nat
      /\ pcb[c] \in PcbType /\ hs[c] \in StateType
      /\ pcb \in [Conn -> PcbType] /\ hs \in [Conn -> StateType]
      /\ hs[c].uri \in Name /\ Sending(pcb[c].out, hs[c].uri, hs[c])
      /\ Size(c) = Len(Content[hs[c].uri])
  BY ServingFacts DEF Serving, IInv, Types
<1>2. Size(c) \in Nat \ {0}
  BY <1>1, FileType
<1>3. Unsent(pcb[c], hs[c]) /\ AfterTag(hs[c]) /\ NoRoomFor(c)
  BY <1>1 DEF LoopInv
<1>4. pcb[c].unacked \in Nat /\ hs[c].file \in Nat /\ hs[c].parsed \in Nat
  BY <1>1, HttpdAssumption DEF PcbType, StateType
<1> QED BY <1>1, <1>2, <1>3, <1>4, ParsedLength, HttpdAssumption DEF Unsent, SndBuf

(* A piece of no bytes does not change the pcb's count.                    *)
LEMMA EmptyPiece ==
  ASSUME IInv, NEW c, Serving(c), hs[c].handle # 0, NEW w, w.err = "OK", w.len = 0
  PROVE  Len(FilePiece(c, w)) = 0
<1>1. hs[c].uri \in Name /\ hs[c] \in StateType
  BY ServingFacts
<1>2. Content[hs[c].uri] \in Seq(Byte) /\ hs[c].file \in Nat
  BY <1>1, FileType DEF StateType
<1> DEFINE s == Content[hs[c].uri]
           i == hs[c].file
<1>3. FilePiece(c, w) = SubSeq(s, i + 1, i + 0)
  BY DEF FilePiece
<1>4. SubSeq(s, i + 1, i + 0) = << >>
  BY <1>2, SubSeqEmpty
<1> HIDE DEF s, i
<1>5. FilePiece(c, w) = << >>
  BY <1>3, <1>4
<1> QED BY <1>5

(* Up to a tag: without a byte to write, the tag is not the first.         *)
LEMMA ToTagLoops ==
  ASSUME IInv, LoopInv, NEW c, Serving(c), hs[c].handle # 0, hs[c].tag_check, NEW h \in StateType,
         h.file = hs[c].file, h.file \in Nat, h.tag_end = h.parsed, h.parsed \in Nat,
         h.file < h.parsed, h.tag_state = "sending", h.uri = hs[c].uri,
         cb.len = 0 => pcb[c].unacked = SND_BUF /\ TagBefore(h.uri, h.parsed),
         SendToTag(c, h)
  PROVE  LoopInv'
<1> DEFINE len == Least({cb.len, h.tag_end - h.file})
<1>1. PICK w \in WriteLoop(len, SndBuf(c)) :
        /\ hs' = [hs EXCEPT ![c] = [h EXCEPT !.file = @ + Len(FilePiece(c, w))]]
        /\ GoOn(Wrote(c, FilePiece(c, w)), "parse", w.len, w.err)
  BY DEF SendToTag
<1>2. /\ c \in Conn /\ cb.conn = c /\ cb \in CallType /\ pcb[c] \in PcbType /\ SndBuf(c) \in Nat
      /\ pcb[c].unacked \in Nat /\ pcb \in [Conn -> PcbType] /\ hs \in [Conn -> StateType]
  BY LoopFacts
<1>3. len \in Nat /\ (len = 0 => cb.len = 0)
  <2>1. {cb.len, h.tag_end - h.file} \in SUBSET Nat /\ h.tag_end - h.file # 0
    BY <1>2 DEF CallType
  <2> QED BY <2>1, LeastIs
<1> HIDE DEF len
<1> DEFINE piece == FilePiece(c, w)
           p     == Wrote(c, piece)
           h1    == [h EXCEPT !.file = @ + Len(piece)]
<1>4. pcb' = [pcb EXCEPT ![c] = p] /\ hs' = [hs EXCEPT ![c] = h1]
  BY <1>1, <1>2 DEF GoOn
<1>5. cb' = [cb EXCEPT !.at = "parse", !.len = w.len, !.err = w.err] /\ cb'.conn = c
      /\ cb'.len = w.len /\ cb'.err = w.err
  BY <1>1, <1>2 DEF GoOn, CallType
<1>6. h1.parsed = h.parsed /\ h1.tag_state = "sending" /\ h1.uri = h.uri
  BY DEF StateType
<1>7. p.unacked = pcb[c].unacked + Len(piece)
  BY <1>2 DEF Wrote, PcbType
<1>8. Unsent(p, h1) /\ AfterTag(h1)
  <2> HIDE DEF p, h1
  <2> QED BY <1>6 DEF Unsent, AfterTag
<1>9. NoRoomFor(c)'
  <2> SUFFICES ASSUME w.err = "OK", w.len = 0
               PROVE  p.unacked = SND_BUF /\ TagBefore(h1.uri, h1.parsed)
    <3> HIDE DEF p, h1, piece
    <3>1. pcb'[c] = p /\ hs'[c] = h1
      BY <1>2, <1>4
    <3> QED BY <1>5, <1>6, <3>1 DEF NoRoomFor, TagBefore
  <2>1. Len(piece) = 0
    BY EmptyPiece
  <2>2. cb.len = 0
    BY <1>2, <1>3, NothingWritten
  <2> HIDE DEF p, h1, piece
  <2> QED BY <1>2, <1>6, <1>7, <2>1, <2>2
<1> HIDE DEF p, h1
<1> QED BY <1>2, <1>4, <1>5, <1>8, <1>9, LoopKept

(* The connection is closed at the end of the file, or nothing changes.    *)
LEMMA SendEndLoops ==
  ASSUME IInv, LoopInv, NEW c, Serving(c), SendEnd(c)
  PROVE  LoopInv'
<1>1. /\ c \in Conn /\ cb.conn = c /\ pcb \in [Conn -> PcbType] /\ hs \in [Conn -> StateType]
      /\ pcb[c] \in PcbType
  BY ServingFacts DEF Serving, IInv, Types
<1>2. Unsent(pcb[c], hs[c]) /\ AfterTag(hs[c])
  BY <1>1 DEF LoopInv
<1>3. cb' = NoCall
  BY DEF SendEnd, Return
<1>4. cb'.at # "parse"
  BY <1>3 DEF NoCall
<1>5. ASSUME NEW p, Return(p), FreeState(c)
      PROVE  LoopInv'
  <2> DEFINE q == [p EXCEPT !.sent = @ \/ cb.fromSent]
  <2>1. pcb' = [pcb EXCEPT ![c] = q]
    BY <1>1, <1>5 DEF Return
  <2>2. hs' = [hs EXCEPT ![c] = NoState]
    BY <1>5 DEF FreeState
  <2> HIDE DEF q
  <2>3. Unsent(q, NoState) /\ AfterTag(NoState)
    BY DEF Unsent, AfterTag, NoState
  <2> QED BY <1>1, <1>4, <2>1, <2>2, <2>3, LoopKept, NotParsing
<1>6. CASE Return(pcb[c]) /\ UNCHANGED hs
  <2> DEFINE b == pcb[c].sent \/ cb.fromSent
             p == [pcb[c] EXCEPT !.sent = b]
  <2>1. pcb' = [pcb EXCEPT ![c] = p] /\ hs' = [hs EXCEPT ![c] = hs[c]]
    BY <1>1, <1>6 DEF Return
  <2>2. p.unacked = pcb[c].unacked
    BY <1>1 DEF PcbType
  <2> HIDE DEF p
  <2>3. Unsent(p, hs[c])
    BY <1>2, <2>2 DEF Unsent
  <2> QED BY <1>1, <1>2, <1>4, <2>1, <2>3, LoopKept, NotParsing
<1> QED BY <1>5, <1>6 DEF SendEnd

(* A file without tags, or the rest of what is parsed: send_data returns.  *)
LEMMA ReturnLoops ==
  ASSUME IInv, LoopInv, NEW c, Serving(c), hs[c].handle # 0, NEW p, NEW k,
         pcb' = [pcb EXCEPT ![c] = [p EXCEPT !.sent = @ \/ cb.fromSent]],
         cb' = NoCall, hs' = [hs EXCEPT ![c].file = k],
         hs[c].tag_check => hs[c].parsed # 0
  PROVE  LoopInv'
<1>1. c \in Conn /\ hs \in [Conn -> StateType] /\ hs[c] \in StateType
  BY ServingFacts DEF IInv, Types
<1> DEFINE h == [hs[c] EXCEPT !.file = k]
           q == [p EXCEPT !.sent = @ \/ cb.fromSent]
<1>2. hs' = [hs EXCEPT ![c] = h] /\ pcb' = [pcb EXCEPT ![c] = q]
  OBVIOUS
<1>3. /\ h.tag_check = hs[c].tag_check /\ h.tag_state = hs[c].tag_state /\ h.parsed = hs[c].parsed
      /\ h.uri = hs[c].uri /\ h.handle = hs[c].handle
  BY <1>1 DEF StateType
<1> HIDE DEF h, q
<1>4. Unsent(q, h) /\ AfterTag(h)
  BY <1>1, <1>3 DEF Unsent, AfterTag, LoopInv
<1>5. cb'.at # "parse"
  BY DEF NoCall
<1> QED BY <1>1, <1>2, <1>4, <1>5, LoopKept, NotParsing

(* A file without tags.                                                    *)
LEMMA SendPlainLoops ==
  ASSUME IInv, LoopInv, NEW c, Serving(c), SendPlain(c)
  PROVE  LoopInv'
<1>1. cb.conn = c /\ hs[c].handle # 0 /\ ~hs[c].tag_check
  BY ServingFacts DEF SendPlain, Serving
<1>2. PICK w : /\ hs' = [hs EXCEPT ![c].file = @ + Len(FilePiece(c, w))]
               /\ Return(Wrote(c, FilePiece(c, w)))
  BY DEF SendPlain
<1>3. /\ pcb' = [pcb EXCEPT ![c] = [Wrote(c, FilePiece(c, w)) EXCEPT !.sent = @ \/ cb.fromSent]]
      /\ cb' = NoCall
  BY <1>1, <1>2 DEF Return
<1> QED BY <1>1, <1>2, <1>3, ReturnLoops

(* The parse loop is entered: if without a byte to write, then because the *)
(* send buffer is full at the end of an insert.                            *)
LEMMA SendParsedLoops ==
  ASSUME IInv, LoopInv, NEW c, Serving(c), SendParsed(c)
  PROVE  LoopInv'
<1>1. hs[c].handle # 0 /\ hs[c].tag_check
  BY ServingFacts DEF SendParsed
<1>2. /\ c \in Conn /\ cb.conn = c /\ cb \in CallType /\ pcb[c] \in PcbType /\ hs[c] \in StateType
      /\ pcb \in [Conn -> PcbType] /\ hs \in [Conn -> StateType]
      /\ SND_BUF \in Nat \ {0} /\ SndBuf(c) \in Nat /\ SndBuf(c) = SND_BUF - pcb[c].unacked
      /\ pcb[c].unacked \in Nat /\ hs[c].file \in Nat /\ hs[c].parsed \in Nat
      /\ hs[c].file <= hs[c].parsed /\ (hs[c].parsed = 0 => pcb[c].unacked = 0)
      /\ AfterTag(hs[c])
  BY <1>1, LoopFacts
<1> DEFINE len == Least({SndBuf(c), hs[c].parsed - hs[c].file, 2 * MSS})
<1>3. ASSUME hs[c].parsed > hs[c].file, NEW w \in WriteLoop(len, SndBuf(c)),
             hs' = [hs EXCEPT ![c].file = @ + Len(FilePiece(c, w))],
             Return(Wrote(c, FilePiece(c, w)))
      PROVE  LoopInv'
  <2>1. /\ pcb' = [pcb EXCEPT ![c] = [Wrote(c, FilePiece(c, w)) EXCEPT !.sent = @ \/ cb.fromSent]]
        /\ cb' = NoCall /\ hs[c].parsed # 0
    BY <1>2, <1>3 DEF Return
  <2> QED BY <1>1, <1>3, <2>1, ReturnLoops
<1>4. ASSUME hs[c].parsed > hs[c].file, NEW w \in WriteLoop(len, SndBuf(c)),
             hs' = [hs EXCEPT ![c].file = @ + Len(FilePiece(c, w))],
             SndBuf(c) # Len(FilePiece(c, w)),
             GoOn(Wrote(c, FilePiece(c, w)), "parse", w.len, w.err)
      PROVE  LoopInv'
  <2> DEFINE p == Wrote(c, FilePiece(c, w))
             h == [hs[c] EXCEPT !.file = @ + Len(FilePiece(c, w))]
  <2>1. pcb' = [pcb EXCEPT ![c] = p] /\ hs' = [hs EXCEPT ![c] = h]
    BY <1>2, <1>4 DEF GoOn
  <2>2. cb'.conn = c /\ cb'.err = w.err /\ cb'.len = w.len
    BY <1>2, <1>4 DEF GoOn, CallType
  <2>3. /\ h.tag_check = hs[c].tag_check /\ h.tag_state = hs[c].tag_state
        /\ h.parsed = hs[c].parsed /\ h.uri = hs[c].uri
    BY <1>2 DEF StateType
  <2> HIDE DEF p, h
  <2>4. Unsent(p, h) /\ AfterTag(h)
    BY <1>2, <1>4, <2>3 DEF Unsent, AfterTag
  <2>5. ~(w.err = "OK" /\ w.len = 0)
    <3> SUFFICES ASSUME w.err = "OK", w.len = 0 PROVE FALSE
      OBVIOUS
    <3>1. {SndBuf(c), hs[c].parsed - hs[c].file, 2 * MSS} \in SUBSET Nat
      BY <1>2, HttpdAssumption
    <3>2. len \in Nat /\ len \in {SndBuf(c), hs[c].parsed - hs[c].file, 2 * MSS}
      BY <3>1, LeastIs
    <3>3. len = 0
      <4> HIDE DEF len
      <4> QED BY <1>2, <1>4, <3>2, NothingWritten DEF len
    <3>4. hs[c].parsed - hs[c].file # 0 /\ 2 * MSS # 0
      BY <1>2, <1>4, HttpdAssumption
    <3>5. SndBuf(c) = 0
      BY <3>2, <3>3, <3>4
    <3>6. Len(FilePiece(c, w)) = 0
      BY <1>1, EmptyPiece
    <3> QED BY <1>4, <3>5, <3>6
  <2>6. NoRoomFor(c)'
    BY <2>2, <2>5 DEF NoRoomFor
  <2> QED BY <1>2, <2>1, <2>2, <2>4, <2>6, LoopKept
<1>5. ASSUME hs[c].parsed = hs[c].file, GoOn(pcb[c], "parse", SndBuf(c), "OK"), UNCHANGED hs
      PROVE  LoopInv'
  <2>1. pcb' = [pcb EXCEPT ![c] = pcb[c]] /\ hs' = [hs EXCEPT ![c] = hs[c]]
    BY <1>2, <1>5 DEF GoOn
  <2>2. cb'.conn = c /\ cb'.len = SndBuf(c)
    BY <1>2, <1>5 DEF GoOn, CallType
  <2>3. Unsent(pcb[c], hs[c])
    BY <1>2 DEF LoopInv
  <2>4. pcb'[c] = pcb[c] /\ hs'[c] = hs[c]
    BY <1>2, <2>1
  <2>5. NoRoomFor(c)'
    <3>1. SndBuf(c) = 0 => pcb[c].unacked = SND_BUF /\ hs[c].parsed # 0
      BY <1>2
    <3>2. ~(hs[c].file < hs[c].parsed)
      BY <1>2, <1>5
    <3> QED BY <2>2, <2>4, <3>1, <3>2 DEF NoRoomFor
  <2> QED BY <1>2, <2>1, <2>2, <2>3, <2>5, LoopKept
<1>6. hs[c].parsed > hs[c].file \/ hs[c].parsed = hs[c].file
  BY <1>2
<1> QED BY <1>3, <1>4, <1>5, <1>6 DEF SendParsed

(* The scan: the tag before the one that it finds is where it starts.      *)
LEMMA ScanTagLoops ==
  ASSUME IInv, LoopInv, NEW c, Serving(c), ScanTag(c)
  PROVE  LoopInv'
<1> DEFINE f     == hs[c].uri
           found == NextTag(f, hs[c].parsed)
           k     == Least(found)
<1>1. /\ hs[c].handle # 0 /\ hs[c].tag_check /\ hs[c].tag_state = "none" /\ cb.at = "parse"
      /\ cb.err = "OK" /\ hs[c].parsed < Size(c) /\ f \in Name
  BY ServingFacts DEF ScanTag, Parsing
<1>2. /\ c \in Conn /\ cb.conn = c /\ cb \in CallType /\ pcb[c] \in PcbType /\ hs[c] \in StateType
      /\ pcb \in [Conn -> PcbType] /\ hs \in [Conn -> StateType]
      /\ hs[c].file \in Nat /\ hs[c].parsed \in Nat /\ hs[c].file <= hs[c].parsed
      /\ Size(c) = Len(Content[f]) /\ Size(c) \in Nat \ {0}
      /\ AfterTag(hs[c]) /\ NoRoomFor(c) /\ Sending(pcb[c].out, f, hs[c])
  BY <1>1, LoopFacts
<1>3. CASE found # {}
  <2> DEFINE h == [hs[c] EXCEPT !.parsed = k, !.tag_end = k, !.tag_index = 0, !.tag_state = "sending"]
  <2>1. k \in found
    <3>1. found \in SUBSET Nat
      BY <1>2 DEF NextTag
    <3> QED BY <1>3, <3>1, LeastIs
  <2>2. k \in Nat /\ hs[c].parsed < k /\ hs[c].file < k
    BY <1>2, <2>1 DEF NextTag
  <2>3. SendToTag(c, h)
    BY <1>3 DEF ScanTag
  <2>4. cb.len = 0 => pcb[c].unacked = SND_BUF /\ TagBefore(f, k)
    <3> SUFFICES ASSUME cb.len = 0 PROVE pcb[c].unacked = SND_BUF /\ TagBefore(f, k)
      OBVIOUS
    <3>1. pcb[c].unacked = SND_BUF /\ hs[c].parsed # 0
      BY <1>1, <1>2 DEF NoRoomFor
    <3>2. Content[f][hs[c].parsed] \in Tags
      BY <1>1, <1>2, <3>1 DEF AfterTag
    <3>3. hs[c].parsed \in 1..k - 1
      BY <1>2, <2>2, <3>1
    <3> QED BY <3>1, <3>2, <3>3 DEF TagBefore
  <2> HIDE DEF k
  <2>5. /\ h \in StateType /\ h.tag_state = "sending" /\ h.uri = f /\ h.file = hs[c].file
        /\ h.parsed = k /\ h.tag_end = k
    BY <1>2, <2>2 DEF StateType
  <2> HIDE DEF h, f
  <2> QED BY <1>1, <1>2, <2>2, <2>3, <2>4, <2>5, ToTagLoops DEF f
<1>4. CASE found = {}
  <2> DEFINE h == [hs[c] EXCEPT !.parsed = Size(c)]
  <2>1. hs' = [hs EXCEPT ![c] = h] /\ pcb' = [pcb EXCEPT ![c] = pcb[c]] /\ cb' = cb /\ pcb' = pcb
    BY <1>2, <1>4 DEF ScanTag
  <2>2. h.parsed = Size(c) /\ h.tag_state = "none" /\ h.uri = f
    BY <1>1, <1>2 DEF StateType
  <2> HIDE DEF h
  <2>3. Unsent(pcb[c], h) /\ AfterTag(h)
    BY <1>2, <2>2 DEF Unsent, AfterTag
  <2>4. hs'[c] = h
    BY <1>2, <2>1
  <2>5. NoRoomFor(c)'
    BY <1>1, <1>2, <2>1, <2>2, <2>4 DEF NoRoomFor
  <2> QED BY <1>2, <2>1, <2>3, <2>5, LoopKept
<1> QED BY <1>3, <1>4

(* The rest of the file before the insert.                                 *)
LEMMA SendTagLoops ==
  ASSUME IInv, LoopInv, NEW c, Serving(c), SendTag(c)
  PROVE  LoopInv'
<1>1. /\ hs[c].handle # 0 /\ hs[c].tag_check /\ hs[c].tag_state = "sending" /\ cb.at = "parse"
      /\ cb.err = "OK" /\ hs[c].tag_end > hs[c].file /\ SendToTag(c, hs[c])
  BY ServingFacts DEF SendTag, Parsing
<1>2. /\ c \in Conn /\ cb.conn = c /\ hs[c] \in StateType
      /\ hs[c].file \in Nat /\ hs[c].parsed \in Nat /\ NoRoomFor(c) /\ hs[c].tag_end = hs[c].parsed
  BY <1>1, LoopFacts DEF Sending
<1>3. hs[c].file < hs[c].parsed
  BY <1>1, <1>2
<1>4. cb.len = 0 => pcb[c].unacked = SND_BUF /\ TagBefore(hs[c].uri, hs[c].parsed)
  BY <1>1, <1>2, <1>3 DEF NoRoomFor
<1> QED BY <1>1, <1>2, <1>3, <1>4, ToTagLoops

(* The insert: after its last byte the scan starts behind its tag.         *)
LEMMA SendInsertLoops ==
  ASSUME IInv, LoopInv, NEW c, Serving(c), SendInsert(c)
  PROVE  LoopInv'
<1>1. /\ hs[c].handle # 0 /\ hs[c].tag_check /\ hs[c].tag_state = "sending" /\ cb.at = "parse"
      /\ cb.err = "OK"
  BY ServingFacts DEF SendInsert, Parsing
<1>2. /\ c \in Conn /\ cb.conn = c /\ cb \in CallType /\ pcb[c] \in PcbType /\ hs[c] \in StateType
      /\ pcb \in [Conn -> PcbType] /\ hs \in [Conn -> StateType]
      /\ NoRoomFor(c) /\ hs[c].parsed \in Nat \ {0} /\ Content[hs[c].uri][hs[c].parsed] \in Tags
  BY <1>1, LoopFacts DEF Sending
<1>3. ASSUME NEW w, NEW p, hs' = [hs EXCEPT ![c].tag_index = @ + w.len], Return(p)
      PROVE  LoopInv'
  <2> DEFINE q == [p EXCEPT !.sent = @ \/ cb.fromSent]
             h == [hs[c] EXCEPT !.tag_index = @ + w.len]
  <2>1. pcb' = [pcb EXCEPT ![c] = q] /\ hs' = [hs EXCEPT ![c] = h] /\ cb' = NoCall
    BY <1>2, <1>3 DEF Return
  <2>2. h.parsed = hs[c].parsed /\ h.tag_state = "sending"
    BY <1>1, <1>2 DEF StateType
  <2> HIDE DEF q, h
  <2>3. Unsent(q, h) /\ AfterTag(h)
    BY <1>2, <2>2 DEF Unsent, AfterTag
  <2>4. cb'.at # "parse"
    BY <2>1 DEF NoCall
  <2> QED BY <1>2, <2>1, <2>3, <2>4, LoopKept, NotParsing
<1>4. ASSUME NEW w, w.err = "MEM", GoOn(pcb[c], "parse", w.len, w.err), UNCHANGED hs
      PROVE  LoopInv'
  <2>1. pcb' = [pcb EXCEPT ![c] = pcb[c]] /\ hs' = [hs EXCEPT ![c] = hs[c]]
    BY <1>2, <1>4 DEF GoOn
  <2>2. cb'.conn = c /\ cb'.err = "MEM"
    BY <1>2, <1>4 DEF GoOn, CallType
  <2>3. Unsent(pcb[c], hs[c]) /\ AfterTag(hs[c])
    BY <1>2 DEF LoopInv
  <2>4. NoRoomFor(c)'
    BY <2>2 DEF NoRoomFor
  <2> QED BY <1>2, <2>1, <2>2, <2>3, <2>4, LoopKept
<1>5. ASSUME hs' = [hs EXCEPT ![c].tag_index = 0, ![c].tag_state = "none"], UNCHANGED <<pcb, cb>>
      PROVE  LoopInv'
  <2> DEFINE h == [hs[c] EXCEPT !.tag_index = 0, !.tag_state = "none"]
  <2>1. pcb' = [pcb EXCEPT ![c] = pcb[c]] /\ hs' = [hs EXCEPT ![c] = h] /\ cb' = cb /\ pcb' = pcb
    BY <1>2, <1>5
  <2>2. h.parsed = hs[c].parsed /\ h.tag_state = "none" /\ h.uri = hs[c].uri
    BY <1>2 DEF StateType
  <2> HIDE DEF h
  <2>3. Unsent(pcb[c], h) /\ AfterTag(h)
    BY <1>2, <2>2 DEF Unsent, AfterTag
  <2>4. hs'[c] = h
    BY <1>2, <2>1
  <2>5. NoRoomFor(c)'
    BY <1>1, <1>2, <2>1, <2>2, <2>4 DEF NoRoomFor
  <2> QED BY <1>2, <2>1, <2>3, <2>5, LoopKept
<1> QED BY <1>3, <1>4, <1>5 DEF SendInsert

(* The rest of what is parsed.                                             *)
LEMMA SendTailLoops ==
  ASSUME IInv, LoopInv, NEW c, Serving(c), SendTail(c)
  PROVE  LoopInv'
<1>1. hs[c].handle # 0 /\ hs[c].tag_check
  BY ServingFacts DEF SendTail
<1>2. /\ c \in Conn /\ cb.conn = c /\ cb \in CallType /\ pcb[c] \in PcbType /\ hs[c] \in StateType
      /\ pcb \in [Conn -> PcbType] /\ hs \in [Conn -> StateType]
      /\ hs[c].file \in Nat /\ hs[c].parsed \in Nat
  BY <1>1, LoopFacts
<1>3. ASSUME hs[c].parsed > hs[c].file, NEW w,
             hs' = [hs EXCEPT ![c].file = @ + Len(FilePiece(c, w))],
             Return(Wrote(c, FilePiece(c, w)))
      PROVE  LoopInv'
  <2>1. /\ pcb' = [pcb EXCEPT ![c] = [Wrote(c, FilePiece(c, w)) EXCEPT !.sent = @ \/ cb.fromSent]]
        /\ cb' = NoCall /\ hs[c].parsed # 0
    BY <1>2, <1>3 DEF Return
  <2> QED BY <1>1, <1>3, <2>1, ReturnLoops
<1>4. ASSUME Return(pcb[c]), UNCHANGED hs
      PROVE  LoopInv'
  <2> DEFINE p == [pcb[c] EXCEPT !.sent = @ \/ cb.fromSent]
  <2>1. pcb' = [pcb EXCEPT ![c] = p] /\ hs' = [hs EXCEPT ![c] = hs[c]] /\ cb' = NoCall
    BY <1>2, <1>4 DEF Return
  <2>2. p.unacked = pcb[c].unacked
    BY <1>2 DEF PcbType
  <2> HIDE DEF p
  <2>3. Unsent(p, hs[c]) /\ AfterTag(hs[c])
    BY <1>2, <2>2 DEF LoopInv, Unsent
  <2>4. cb'.at # "parse"
    BY <2>1 DEF NoCall
  <2> QED BY <1>2, <2>1, <2>3, <2>4, LoopKept, NotParsing
<1> QED BY <1>3, <1>4 DEF SendTail

(* A connection whose state is freed, or that is accepted.                 *)
LEMMA FreshLoops ==
  ASSUME IInv, LoopInv, NEW c \in Conn, NEW p, NEW h,
         pcb' = [pcb EXCEPT ![c] = p], hs' = [hs EXCEPT ![c] = h],
         h.live => p.unacked = 0, ~h.tag_check, cb'.at # "parse"
  PROVE  LoopInv'
<1>1. Unsent(p, h) /\ AfterTag(h)
  BY DEF Unsent, AfterTag
<1> QED BY <1>1, LoopKept, NotParsing

(* One of which no byte is parsed or acknowledged.                         *)
LEMMA AlikeLoops ==
  ASSUME IInv, LoopInv, NEW c \in Conn, NEW p, NEW h,
         pcb' = [pcb EXCEPT ![c] = p], hs' = [hs EXCEPT ![c] = h],
         h.live = hs[c].live, h.handle = hs[c].handle, h.uri = hs[c].uri, h.parsed = hs[c].parsed,
         h.tag_check = hs[c].tag_check, h.tag_state = hs[c].tag_state,
         p.unacked = pcb[c].unacked \/ pcb[c].unacked # 0 \/ ~h.live, cb'.at # "parse"
  PROVE  LoopInv'
<1>1. Unsent(pcb[c], hs[c]) /\ AfterTag(hs[c])
  BY DEF LoopInv
<1>2. Unsent(p, h) /\ AfterTag(h)
  BY <1>1 DEF Unsent, AfterTag
<1> QED BY <1>2, LoopKept, NotParsing

(* The callbacks.                                                          *)
LEMMA CallbackLoops ==
  ASSUME IInv, LoopInv, NEW c \in Conn,
         \/ http_accept(c) \/ http_recv_close(c) \/ http_poll(c) \/ Reset(c) \/ Finished(c)
         \/ \E uri \in Name \cup {Missing} : http_recv_get(c, uri)
         \/ \E n \in 1..SND_BUF : http_sent(c, n)
  PROVE  LoopInv'
<1>1. /\ pcb \in [Conn -> PcbType] /\ hs \in [Conn -> StateType] /\ pcb[c] \in PcbType
      /\ hs[c] \in StateType /\ SocketInv(pcb[c], hs[c])
  BY IdleFacts
<1>2. NoState.live = FALSE /\ NoState.tag_check = FALSE /\ NoPcb.unacked = 0 /\ NoCall.at = "idle"
  BY DEF NoState, NoPcb, NoCall
<1>3. ASSUME Idle, cb' = cb PROVE cb'.at # "parse"
  BY <1>2, <1>3 DEF Idle
<1>4. ASSUME NEW back, Call(c, back) PROVE cb'.at # "parse"
  BY <1>4 DEF Call, NoCall
<1>5. ASSUME conn_err(c), Idle, cb' = cb PROVE LoopInv'
  <2>1. pcb' = [pcb EXCEPT ![c] = NoPcb]
    BY <1>5 DEF conn_err
  <2>2. CASE pcb[c].arg
    <3>1. hs' = [hs EXCEPT ![c] = NoState]
      BY <1>5, <2>2 DEF conn_err, FreeState
    <3> QED BY <1>2, <1>3, <1>5, <2>1, <3>1, FreshLoops
  <2>3. CASE ~pcb[c].arg
    <3>1. hs' = [hs EXCEPT ![c] = hs[c]] /\ ~hs[c].live
      BY <1>1, <1>5, <2>3 DEF conn_err, SocketInv
    <3>2. ~hs[c].tag_check
      BY <1>1, <1>2, <3>1 DEF SocketInv
    <3> QED BY <1>3, <1>5, <2>1, <3>1, <3>2, FreshLoops
  <2> QED BY <2>2, <2>3
<1>6. CASE http_accept(c)
  <2> DEFINE p == [NoPcb EXCEPT !.state = "estab", !.arg = TRUE, !.recv = TRUE]
             h == [NoState EXCEPT !.live = TRUE]
  <2>1. pcb' = [pcb EXCEPT ![c] = p] /\ hs' = [hs EXCEPT ![c] = h] /\ Idle /\ cb' = cb
    BY <1>6 DEF http_accept
  <2>2. p.unacked = 0 /\ ~h.tag_check
    BY DEF NoPcb, NoState
  <2> HIDE DEF p, h
  <2> QED BY <1>3, <2>1, <2>2, FreshLoops
<1>7. CASE http_recv_close(c)
  <2>1. PICK p : pcb' = [pcb EXCEPT ![c] = p]
    BY <1>7 DEF http_recv_close, close_conn
  <2>2. hs' = [hs EXCEPT ![c] = NoState] /\ Idle /\ cb' = cb
    BY <1>7 DEF http_recv_close, close_conn, FreeState
  <2> QED BY <1>2, <1>3, <2>1, <2>2, FreshLoops
<1>8. CASE http_poll(c)
  <2>1. CASE Idle /\ conn_err(c) /\ UNCHANGED cb
    BY <1>5, <2>1
  <2>2. CASE /\ Idle /\ pcb[c].arg /\ hs[c].retries + 1 # MAX_RETRIES
             /\ hs' = [hs EXCEPT ![c].retries = @ + 1]
             /\ IF hs[c].handle # 0 THEN Call(c, FALSE) ELSE UNCHANGED cb
             /\ UNCHANGED <<pcb, inuse>>
    <3> DEFINE h == [hs[c] EXCEPT !.retries = @ + 1]
    <3>1. pcb' = [pcb EXCEPT ![c] = pcb[c]] /\ hs' = [hs EXCEPT ![c] = h]
      BY <1>1, <2>2
    <3>2. /\ h.live = hs[c].live /\ h.handle = hs[c].handle /\ h.uri = hs[c].uri
          /\ h.parsed = hs[c].parsed /\ h.tag_check = hs[c].tag_check /\ h.tag_state = hs[c].tag_state
      BY <1>1 DEF StateType
    <3>3. cb'.at # "parse"
      BY <1>3, <1>4, <2>2
    <3> HIDE DEF h
    <3> QED BY <3>1, <3>2, <3>3, AlikeLoops
  <2> QED BY <1>8, <2>1, <2>2 DEF http_poll
<1>9. CASE Reset(c)
  BY <1>5, <1>9 DEF Reset
<1>10. CASE Finished(c)
  <2>1. pcb' = [pcb EXCEPT ![c] = NoPcb] /\ hs' = [hs EXCEPT ![c] = hs[c]] /\ Idle /\ cb' = cb
    BY <1>1, <1>10 DEF Finished
  <2>2. ~hs[c].tag_check
    BY <1>1, <1>2, <1>10 DEF Finished, SocketInv
  <2> QED BY <1>2, <1>3, <2>1, <2>2, FreshLoops
<1>11. ASSUME NEW uri \in Name \cup {Missing}, http_recv_get(c, uri)
       PROVE  LoopInv'
  <2>1. hs[c].handle = 0 /\ hs[c].parsed = 0 /\ hs[c].live /\ Call(c, FALSE)
    BY <1>1, <1>11 DEF http_recv_get, SocketInv
  <2>2. pcb[c].unacked = 0
    BY <2>1 DEF LoopInv, Unsent
  <2>3. PICK p : pcb' = [pcb EXCEPT ![c] = p] /\ p.unacked = 0
    <3>1. \A f : [pcb[c] EXCEPT !.sent = TRUE, !.reply = f].unacked = pcb[c].unacked
      BY <1>1 DEF PcbType
    <3>2. [pcb[c] EXCEPT !.sent = TRUE].unacked = pcb[c].unacked
      BY <1>1 DEF PcbType
    <3>3. \/ pcb' = [pcb EXCEPT ![c] = [pcb[c] EXCEPT !.sent = TRUE, !.reply = Found(uri)]]
          \/ pcb' = [pcb EXCEPT ![c] = [pcb[c] EXCEPT !.sent = TRUE]]
      BY <1>1, <1>11 DEF http_recv_get
    <3> QED BY <2>2, <3>1, <3>2, <3>3
  <2>4. PICK h : hs' = [hs EXCEPT ![c] = h] /\ (h.parsed = 0 /\ AfterTag(h))
    <3>1. CASE FreeFiles # {}
      <4> DEFINE h == [NoState EXCEPT !.live = TRUE, !.handle = Least(FreeFiles),
                                      !.uri = Found(uri), !.tag_check = uri \in Shtml]
      <4>1. hs' = [hs EXCEPT ![c] = h]
        BY <1>11, <3>1 DEF http_recv_get
      <4>2. h.parsed = 0
        BY DEF NoState
      <4> HIDE DEF h
      <4>3. AfterTag(h)
        BY <4>2 DEF AfterTag
      <4> QED BY <4>1, <4>2, <4>3
    <3>2. CASE FreeFiles = {}
      <4> DEFINE h == [hs[c] EXCEPT !.retries = 0]
      <4>1. hs' = [hs EXCEPT ![c] = h]
        BY <1>1, <1>11, <3>2 DEF http_recv_get
      <4>2. h.parsed = 0
        BY <1>1, <2>1 DEF StateType
      <4> HIDE DEF h
      <4>3. AfterTag(h)
        BY <4>2 DEF AfterTag
      <4> QED BY <4>1, <4>2, <4>3
    <3> QED BY <3>1, <3>2
  <2>5. Unsent(p, h) /\ cb'.at # "parse"
    BY <1>4, <2>1, <2>3 DEF Unsent
  <2> QED BY <2>3, <2>4, <2>5, LoopKept, NotParsing
<1>12. ASSUME NEW n \in 1..SND_BUF, http_sent(c, n)
       PROVE  LoopInv'
  <2>1. Idle /\ pcb[c].unacked # 0
    BY <1>1, <1>12, HttpdAssumption DEF http_sent, PcbType
  <2>2. cb'.at # "parse"
    BY <1>3, <1>4, <1>12, <2>1 DEF http_sent
  <2>3. PICK p : pcb' = [pcb EXCEPT ![c] = p]
    BY <1>12 DEF http_sent
  <2>4. PICK h : /\ hs' = [hs EXCEPT ![c] = h]
                 /\ h.live = hs[c].live /\ h.handle = hs[c].handle /\ h.uri = hs[c].uri
                 /\ h.parsed = hs[c].parsed /\ h.tag_check = hs[c].tag_check
                 /\ h.tag_state = hs[c].tag_state
    <3>1. CASE hs' = [hs EXCEPT ![c].retries = 0]
      <4> DEFINE h == [hs[c] EXCEPT !.retries = 0]
      <4>1. hs' = [hs EXCEPT ![c] = h]
        BY <1>1, <3>1
      <4>2. /\ h.live = hs[c].live /\ h.handle = hs[c].handle /\ h.uri = hs[c].uri
            /\ h.parsed = hs[c].parsed /\ h.tag_check = hs[c].tag_check
            /\ h.tag_state = hs[c].tag_state
        BY <1>1 DEF StateType
      <4> HIDE DEF h
      <4> QED BY <4>1, <4>2
    <3>2. CASE hs' = hs
      BY <1>1, <3>2
    <3> QED BY <1>12, <3>1, <3>2 DEF http_sent
  <2> QED BY <2>1, <2>2, <2>3, <2>4, AlikeLoops
<1> QED BY <1>6, <1>7, <1>8, <1>9, <1>10, <1>11, <1>12

(* LoopInv is an invariant of the server, IInv given.                      *)
LEMMA LoopSafe ==
  /\ Init => LoopInv
  /\ IInv /\ LoopInv /\ [Next]_vars => LoopInv'
<1>1. ASSUME Init PROVE LoopInv
  BY <1>1 DEF Init, LoopInv, Unsent, AfterTag, NoRoomFor, NoState, NoPcb, NoCall
<1>2. ASSUME IInv, LoopInv, [Next]_vars PROVE LoopInv'
  <2>1. CASE send_data
    <3>1. PICK c \in Conn :
            /\ cb.conn = c
            /\ SendEnd(c) \/ SendPlain(c) \/ SendParsed(c) \/ ScanTag(c)
                 \/ SendTag(c) \/ SendInsert(c) \/ SendTail(c)
      BY <2>1 DEF send_data
    <3>2. Serving(c)
      BY <3>1 DEF Serving
    <3> QED BY <1>2, <3>1, <3>2, SendEndLoops, SendPlainLoops, SendParsedLoops, ScanTagLoops,
              SendTagLoops, SendInsertLoops, SendTailLoops
  <2>2. CASE UNCHANGED vars
    BY <1>2, <2>2 DEF vars, LoopInv, Unsent, AfterTag, NoRoomFor
  <2> QED BY <1>2, <2>1, <2>2, CallbackLoops DEF Next
<1> QED BY <1>1, <1>2

(* send_data is only ever caught in its parse loop with a full send buffer *)
(* and at a tag that has another one before it: for all files, never in a  *)
(* page with one tag.                                                      *)
THEOREM CaughtOnlyBehindTags == Spec => []CaughtBehindTag
<1>1. IInv /\ LoopInv => CaughtBehindTag
  <2> SUFFICES ASSUME IInv, LoopInv, NEW c \in Conn, Caught(c)
               PROVE  SndBuf(c) = 0 /\ TagBefore(hs[c].uri, hs[c].tag_end)
    BY DEF CaughtBehindTag
  <2>1. /\ Serving(c) /\ cb.at = "parse" /\ cb.err = "OK" /\ cb.len = 0
        /\ hs[c].tag_state = "sending" /\ hs[c].tag_end > hs[c].file
    BY DEF Caught, Parsing, Serving
  <2>2. hs[c].handle # 0 /\ hs[c].tag_check
    BY <2>1, ServingFacts
  <2>3. /\ NoRoomFor(c) /\ Sending(pcb[c].out, hs[c].uri, hs[c]) /\ SndBuf(c) = SND_BUF - pcb[c].unacked
        /\ SND_BUF \in Nat /\ hs[c].file \in Nat /\ hs[c].parsed \in Nat
    BY <2>1, <2>2, LoopFacts
  <2>4. hs[c].tag_end = hs[c].parsed
    BY <2>1, <2>3 DEF Sending
  <2>5. pcb[c].unacked = SND_BUF /\ TagBefore(hs[c].uri, hs[c].parsed)
    BY <2>1, <2>3, <2>4 DEF NoRoomFor, Serving
  <2> QED BY <2>3, <2>4, <2>5
<1>2. Spec => []LoopInv
  BY LoopSafe, Invariance, PTL DEF Spec
<1> QED BY <1>1, <1>2, Invariance, PTL
=============================================================================
