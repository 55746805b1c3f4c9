--------------------------- MODULE NornNodeProofs ---------------------------
(***************************************************************************)
(* Theorems about the parts of a node, for tables, buffers and numbers of  *)
(* processes of every size.                                                *)
(*                                                                         *)
(* NornForward: a connection of the tunnel carries its own bytes, in       *)
(* order, and a server serves it to the end.                               *)
(*                                                                         *)
(* NornDaemon: a process reads what is for it, a publish goes out once,    *)
(* and the log of published records is sound.                              *)
(*                                                                         *)
(* NornServe: a fetch hands over what is served, whole.                    *)
(*                                                                         *)
(* NornTransport: the frames of a stream arrive whole and in order.  What  *)
(* is not delivered yet, unread in the framer and on the wire, is a row of *)
(* whole frames, those that follow the delivered ones; wherever reads cut  *)
(* that row, the framer finds the frames where they were written.          *)
(***************************************************************************)
EXTENDS NornDaemon, NornServe, NornTransport, NornForward, SequenceTheorems, FiniteSetTheorems,
        TLAPS

\* The least of two numbers.
LEMMA MinPair ==
  ASSUME NEW x \in Nat, NEW y \in Nat
  PROVE  Min({x, y}) = IF x <= y THEN x ELSE y
<1> DEFINE m == IF x <= y THEN x ELSE y
           L(z) == \A w \in {x, y} : z <= w
<1>1. m \in {x, y} /\ L(m)
  OBVIOUS
<1>2. \A z \in {x, y} : L(z) => z = m
  OBVIOUS
<1> HIDE DEF m, L
<1>3. (CHOOSE z \in {x, y} : L(z)) = m
  BY <1>1, <1>2
<1>4. Min({x, y}) = CHOOSE z \in {x, y} : L(z)
  BY DEF Min, L
<1> QED
  BY <1>3, <1>4 DEF m

\* A set of places that is not empty has a first one.
LEMMA MinIsThere ==
  ASSUME NEW n \in Nat, NEW S \in SUBSET (1..n), S # {}
  PROVE  Min(S) \in S /\ \A j \in S : Min(S) <= j
<1> DEFINE U == 1..n
           T == {1..i : i \in S}
<1>1. T # {} /\ T \subseteq FiniteSubsetsOf(U)
  <2>1. IsFiniteSet(U)
    BY FS_Interval
  <2>2. FiniteSubsetsOf(U) = SUBSET U
    BY <2>1, FS_FiniteSubsetsOfFinite
  <2>3. \A i \in S : 1..i \in SUBSET U
    OBVIOUS
  <2>4. T \subseteq SUBSET U
    BY <2>3
  <2>5. T # {}
    OBVIOUS
  <2> QED
    BY <2>2, <2>4, <2>5
<1>2. IsWellFoundedOn(StrictSubsetOrdering(U), FiniteSubsetsOf(U))
  BY FS_StrictSubsetOrderingWellFounded
<1>3. PICK x \in T : \A y \in T : ~(<<y, x>> \in StrictSubsetOrdering(U))
  BY <1>1, <1>2, WFMin
<1>4. PICK i \in S : x = 1..i
  BY <1>3
<1>5. \A j \in S : i <= j
  <2> SUFFICES ASSUME NEW j \in S, j < i PROVE FALSE
    OBVIOUS
  <2>1. 1..j \subseteq 1..i /\ 1..j # 1..i
    OBVIOUS
  <2>2. 1..j \in T /\ 1..i \in SUBSET U /\ 1..j \in SUBSET U
    OBVIOUS
  <2> QED
    BY <1>3, <1>4, <2>1, <2>2 DEF StrictSubsetOrdering
<1> QED
  BY <1>5 DEF Min

\* What holds at 0 and passes to the next number holds up to N.
LEMMA UpTo ==
  ASSUME NEW N \in Nat, NEW S, 0 \in S, \A k \in 0..N-1 : k \in S => k + 1 \in S
  PROVE  \A k \in 0..N : k \in S
<1> SUFFICES ASSUME NEW k \in 0..N, k \notin S PROVE FALSE
  OBVIOUS
<1> DEFINE Bad == {i \in 1..N : i \notin S}
<1>1. Bad \in SUBSET (1..N) /\ k \in Bad
  OBVIOUS
<1>2. PICK i : i = Min(Bad)
  OBVIOUS
<1>3. i \in Bad /\ \A j \in Bad : i <= j
  BY <1>1, <1>2, MinIsThere
<1>4. i - 1 \in 0..N-1 /\ (i - 1) + 1 = i /\ i - 1 \notin Bad /\ i \notin S
  BY <1>3
<1>5. i - 1 \in S
  BY <1>4
<1> QED
  BY <1>4, <1>5

-----------------------------------------------------------------------------
(* The tunnel (NornForward): the bytes of a connection. *)

Byte == [conn : Nat, side : Side, at : Nat]
ByteAt(k, e, x) == [conn |-> k, side |-> e, at |-> x]

\* The n bytes of side e of connection k behind place a.
IsRange(s, k, e, a, n) ==
  /\ s \in Seq(Byte) /\ n \in Nat /\ Len(s) = n /\ \A i \in 1..n : s[i] = ByteAt(k, e, a + i)

\* Bytes gives such a range.
LEMMA BytesRange ==
  ASSUME NEW k \in Nat, NEW e \in Side, NEW a \in Nat, NEW b \in Nat, a <= b
  PROVE  IsRange(Bytes(k, e, a, b), k, e, a, b - a)
<1>1. b - a \in Nat
  OBVIOUS
<1>2. \A i \in 1..(b - a) : ByteAt(k, e, a + i) \in Byte
  BY <1>1 DEF Byte, ByteAt
<1>3. Bytes(k, e, a, b) = [i \in 1..(b - a) |-> ByteAt(k, e, a + i)]
  BY DEF Bytes, ByteAt
<1> QED
  BY <1>1, <1>2, <1>3 DEF IsRange

\* There is one such range.
LEMMA RangeOnce ==
  ASSUME NEW s, NEW t, NEW k, NEW e, NEW a, NEW n, IsRange(s, k, e, a, n), IsRange(t, k, e, a, n)
  PROVE  s = t
<1>1. /\ s \in Seq(Byte) /\ t \in Seq(Byte) /\ Len(s) = n /\ Len(t) = n
      /\ \A i \in 1..n : s[i] = t[i]
  BY DEF IsRange
<1> QED
  BY <1>1, SeqEqual

\* A range is Bytes.
LEMMA RangeBytes ==
  ASSUME NEW k \in Nat, NEW e \in Side, NEW a \in Nat, NEW b \in Nat, a <= b, NEW s,
         IsRange(s, k, e, a, b - a)
  PROVE  s = Bytes(k, e, a, b)
<1>1. IsRange(Bytes(k, e, a, b), k, e, a, b - a)
  BY BytesRange
<1> QED
  BY <1>1, RangeOnce

\* A range is a sequence of bytes with a length.
LenOK(k, e, a, b) == Bytes(k, e, a, b) \in Seq(Byte) /\ Len(Bytes(k, e, a, b)) = b - a

\* The length of a range.
LEMMA BytesLen ==
  ASSUME NEW k \in Nat, NEW e \in Side, NEW a \in Nat, NEW b \in Nat, a <= b
  PROVE  LenOK(k, e, a, b)
BY BytesRange DEF IsRange, LenOK

\* A sequence is empty when its length is 0.
IsEmpty(s) == s = <<>>

\* The range that is empty.
LEMMA BytesNone ==
  ASSUME NEW k \in Nat, NEW e \in Side, NEW a \in Nat, NEW b \in Nat, a <= b
  PROVE  IsEmpty(Bytes(k, e, a, b)) <=> a = b
<1>1. Bytes(k, e, a, b) \in Seq(Byte) /\ Len(Bytes(k, e, a, b)) = b - a
  BY BytesLen DEF LenOK
<1>2. IsEmpty(Bytes(k, e, a, b)) <=> Len(Bytes(k, e, a, b)) = 0
  BY <1>1, EmptySeq DEF IsEmpty
<1> QED
  BY <1>1, <1>2

\* Two ranges, one behind the other.
LEMMA RangeConcat ==
  ASSUME NEW k, NEW e, NEW a \in Nat, NEW s, NEW t, NEW m \in Nat, NEW n \in Nat,
         IsRange(s, k, e, a, m), IsRange(t, k, e, a + m, n)
  PROVE  IsRange(s \o t, k, e, a, m + n)
<1>1. s \in Seq(Byte) /\ t \in Seq(Byte) /\ Len(s) = m /\ Len(t) = n
  BY DEF IsRange
<1>2. s \o t \in Seq(Byte) /\ Len(s \o t) = m + n
  BY <1>1, ConcatProperties
<1>3. ASSUME NEW i \in 1..(m + n) PROVE (s \o t)[i] = ByteAt(k, e, a + i)
  <2>1. (s \o t)[i] = IF i <= m THEN s[i] ELSE t[i - m]
    BY <1>1, ConcatProperties
  <2>2. CASE i <= m
    <3>1. i \in 1..m
      BY <2>2
    <3> QED
      BY <2>1, <2>2, <3>1 DEF IsRange
  <2>3. CASE ~(i <= m)
    <3>1. i - m \in 1..n /\ (a + m) + (i - m) = a + i
      BY <2>3
    <3>2. t[i - m] = ByteAt(k, e, (a + m) + (i - m))
      BY <3>1 DEF IsRange
    <3> QED
      BY <2>1, <2>3, <3>1, <3>2
  <2> QED
    BY <2>2, <2>3
<1>4. m + n \in Nat
  OBVIOUS
<1> QED
  BY <1>2, <1>3, <1>4 DEF IsRange

\* A part of a range.
LEMMA RangePart ==
  ASSUME NEW k, NEW e, NEW a \in Nat, NEW s, NEW n \in Nat, IsRange(s, k, e, a, n),
         NEW i \in Nat, NEW j \in Nat, i <= j, j <= n
  PROVE  IsRange(SubSeq(s, i + 1, j), k, e, a + i, j - i)
<1> DEFINE p == SubSeq(s, i + 1, j)
<1>1. s \in Seq(Byte) /\ Len(s) = n
  BY DEF IsRange
<1>2. \A x \in (i + 1)..j : s[x] \in Byte
  BY <1>1, ElementOfSeq
<1>3. /\ p \in Seq(Byte) /\ Len(p) = IF i + 1 <= j THEN j - (i + 1) + 1 ELSE 0
      /\ \A x \in 1..(j - (i + 1) + 1) : p[x] = s[(i + 1) + x - 1]
  BY <1>2, SubSeqProperties
<1> HIDE DEF p
<1>4. j - i \in Nat /\ Len(p) = j - i
  BY <1>3
<1>5. ASSUME NEW x \in 1..(j - i) PROVE p[x] = ByteAt(k, e, (a + i) + x)
  <2>1. i + x \in 1..n /\ a + (i + x) = (a + i) + x /\ (i + 1) + x - 1 = i + x
    OBVIOUS
  <2>2. x \in 1..(j - (i + 1) + 1)
    OBVIOUS
  <2>3. p[x] = s[i + x]
    BY <1>3, <2>1, <2>2
  <2>4. s[i + x] = ByteAt(k, e, a + (i + x))
    BY <2>1 DEF IsRange
  <2> QED
    BY <2>1, <2>3, <2>4
<1>6. IsRange(p, k, e, a + i, j - i)
  BY <1>3, <1>4, <1>5 DEF IsRange
<1> QED
  BY <1>6 DEF p

\* Two ranges of bytes, one behind the other.
LEMMA BytesConcat ==
  ASSUME NEW k \in Nat, NEW e \in Side, NEW a \in Nat, NEW b \in Nat, NEW c \in Nat, a <= b, b <= c
  PROVE  Bytes(k, e, a, b) \o Bytes(k, e, b, c) = Bytes(k, e, a, c)
<1>1. IsRange(Bytes(k, e, a, b), k, e, a, b - a) /\ IsRange(Bytes(k, e, b, c), k, e, b, c - b)
  BY BytesRange
<1>2. b - a \in Nat /\ c - b \in Nat /\ a + (b - a) = b /\ (b - a) + (c - b) = c - a /\ a <= c
  OBVIOUS
<1>3. IsRange(Bytes(k, e, b, c), k, e, a + (b - a), c - b)
  BY <1>1, <1>2
<1>4. IsRange(Bytes(k, e, a, b) \o Bytes(k, e, b, c), k, e, a, (b - a) + (c - b))
  BY <1>1, <1>2, <1>3, RangeConcat
<1>5. IsRange(Bytes(k, e, a, b) \o Bytes(k, e, b, c), k, e, a, c - a)
  BY <1>2, <1>4
<1> QED
  BY <1>2, <1>5, RangeBytes

\* The bytes i + 1 to j of a range.
PartOK(k, e, a, b, i, j) == SubSeq(Bytes(k, e, a, b), i + 1, j) = Bytes(k, e, a + i, a + j)

\* A part of a range of bytes.
LEMMA BytesPart ==
  ASSUME NEW k \in Nat, NEW e \in Side, NEW a \in Nat, NEW b \in Nat, NEW i \in Nat, NEW j \in Nat,
         i <= j, a + j <= b
  PROVE  PartOK(k, e, a, b, i, j)
<1>1. /\ a <= b /\ b - a \in Nat /\ j <= b - a /\ a + i \in Nat /\ a + j \in Nat /\ a + i <= a + j
      /\ (a + j) - (a + i) = j - i
  OBVIOUS
<1>2. IsRange(Bytes(k, e, a, b), k, e, a, b - a)
  BY <1>1, BytesRange
<1>3. IsRange(SubSeq(Bytes(k, e, a, b), i + 1, j), k, e, a + i, j - i)
  BY <1>1, <1>2, RangePart
<1>4. IsRange(SubSeq(Bytes(k, e, a, b), i + 1, j), k, e, a + i, (a + j) - (a + i))
  BY <1>1, <1>3
<1>5. SubSeq(Bytes(k, e, a, b), i + 1, j) = Bytes(k, e, a + i, a + j)
  BY <1>1, <1>4, RangeBytes
<1> QED
  BY <1>5 DEF PartOK

HalfType == [buf : Seq(Byte), src_eof : BOOLEAN, dst_shut : BOOLEAN]

\* What was read and not written fits in the buffer.
Fits(g, t) == t - g <= bufsize

\* A half that has written the bytes up to g and read those up to t, of n, comes to g2 and t2.
DrivesTo(k, e, h, g, t, n, ended, d, g2, t2) ==
  /\ g <= g2 /\ g2 <= t2 /\ t <= t2 /\ t2 <= n /\ Fits(g2, t2)
  /\ d.out = Bytes(k, e, g, g2) /\ d.half.buf = Bytes(k, e, g2, t2) /\ d.read = t2 - t
  /\ d.half \in HalfType
  /\ h.src_eof => d.half.src_eof
  /\ d.half.src_eof => h.src_eof \/ (ended /\ t2 = n)
  /\ d.half.dst_shut <=> h.dst_shut \/ (d.half.src_eof /\ g2 = t2)

\* The first w bytes of a range, and the others.
SplitOK(k, e, g, n, g2, w) ==
  /\ SubSeq(Bytes(k, e, g, n), w + 1, Len(Bytes(k, e, g, n))) = Bytes(k, e, g2, n)
  /\ SubSeq(Bytes(k, e, g, n), 1, w) = Bytes(k, e, g, g2)

\* A range is split at any place.
LEMMA BytesSplit ==
  ASSUME NEW k \in Nat, NEW e \in Side, NEW g \in Nat, NEW n \in Nat, NEW g2 \in Nat, g <= g2, g2 <= n,
         NEW w \in Nat, w = g2 - g
  PROVE  SplitOK(k, e, g, n, g2, w)
<1>1. LenOK(k, e, g, n)
  <2>1. g <= n
    OBVIOUS
  <2> QED
    BY <2>1, BytesLen
<1>2. PICK m \in Nat : m = n - g
  OBVIOUS
<1>3. PICK z \in Nat : z = 0
  OBVIOUS
<1>4. g + m = n /\ g + w = g2 /\ g + z = g /\ z + 1 = 1 /\ w <= m /\ z <= w /\ g + m <= n /\ g + w <= n
  BY <1>2, <1>3
<1>5. PartOK(k, e, g, n, w, m)
  BY <1>4, BytesPart
<1>6. PartOK(k, e, g, n, z, w)
  BY <1>4, BytesPart
<1>7. /\ SubSeq(Bytes(k, e, g, n), w + 1, m) = Bytes(k, e, g2, n)
      /\ SubSeq(Bytes(k, e, g, n), 1, w) = Bytes(k, e, g, g2)
  BY <1>4, <1>5, <1>6 DEF PartOK
<1>8. Len(Bytes(k, e, g, n)) = m
  BY <1>1, <1>2 DEF LenOK
<1> QED
  BY <1>7, <1>8 DEF SplitOK

\* What half_drive computes, by its parts.
DriveOf(h, all, rest, w, b, ended, d) ==
  LET buf == SubSeq(rest, 1, b)
      eof == h.src_eof \/ (ended /\ Len(rest) < bufsize)
  IN  d = [half |-> [buf |-> buf, src_eof |-> eof, dst_shut |-> h.dst_shut \/ Drained(eof, buf)],
           out |-> SubSeq(all, 1, w), read |-> w + Len(buf) - Len(h.buf)]

\* half_drive writes what was read first, keeps the rest in order, and sees the end of its
\* source only when it has read all.
LEMMA HalfDrive ==
  ASSUME NEW k \in Nat, NEW e \in Side, NEW h \in HalfType, NEW g \in Nat, NEW t \in Nat,
         NEW n \in Nat, g <= t, t <= n, Fits(g, t), h.buf = Bytes(k, e, g, t),
         NEW ended, NEW room \in Nat,
         NEW d, d = half_drive(h, Bytes(k, e, t, n), ended, room)
  PROVE  \E g2, t2 \in Nat : DrivesTo(k, e, h, g, t, n, ended, d, g2, t2)
<1>0. bufsize \in Nat
  BY ForwardAssumption
<1>1. PICK all : all = h.buf \o Bytes(k, e, t, n)
  OBVIOUS
<1>2. all = Bytes(k, e, g, n) /\ Len(all) = n - g /\ Len(h.buf) = t - g
  <2>1. all = Bytes(k, e, g, n)
    BY <1>1, BytesConcat
  <2>2. g <= n
    OBVIOUS
  <2>3. LenOK(k, e, g, n) /\ LenOK(k, e, g, t)
    BY <2>2, BytesLen
  <2> QED
    BY <2>1, <2>3 DEF LenOK
<1>3. n - g \in Nat
  OBVIOUS
<1>4. PICK w \in Nat : w = Min({room, Len(all)}) /\ w <= n - g
  BY <1>2, <1>3, MinPair
<1>5. PICK g2 \in Nat : g2 = g + w
  OBVIOUS
<1>6. g <= g2 /\ g2 <= n /\ w = g2 - g
  BY <1>4, <1>5
<1>7. PICK rest : rest = SubSeq(all, w + 1, Len(all))
  OBVIOUS
<1>8. rest = Bytes(k, e, g2, n) /\ SubSeq(all, 1, w) = Bytes(k, e, g, g2)
  <2>1. SplitOK(k, e, g, n, g2, w)
    BY <1>6, BytesSplit
  <2> QED
    BY <1>2, <1>7, <2>1 DEF SplitOK
<1>9. Len(rest) = n - g2 /\ n - g2 \in Nat
  <2>1. LenOK(k, e, g2, n)
    BY <1>6, BytesLen
  <2>2. n - g2 \in Nat
    BY <1>6
  <2> QED
    BY <1>8, <2>1, <2>2 DEF LenOK
<1>10. PICK b \in Nat : b = Min({bufsize, Len(rest)}) /\ b <= n - g2 /\ b <= bufsize
                          /\ (b = bufsize \/ b = n - g2)
  BY <1>0, <1>9, MinPair
<1>11. PICK t2 \in Nat : t2 = g2 + b
  OBVIOUS
<1>12. g2 <= t2 /\ t2 <= n /\ b = t2 - g2
  BY <1>9, <1>10, <1>11
<1>13. t <= t2 /\ Fits(g2, t2)
  <2>1. t - g <= bufsize
    BY DEF Fits
  <2>2. t2 - g2 <= bufsize
    BY <1>0, <1>10, <1>12
  <2>3. t <= t2
    BY <1>0, <1>6, <1>10, <1>11, <1>12, <2>1
  <2> QED
    BY <2>2, <2>3 DEF Fits
<1>14. PICK buf : buf = SubSeq(rest, 1, b)
  OBVIOUS
<1>15. buf = Bytes(k, e, g2, t2)
  <2>1. SplitOK(k, e, g2, n, t2, b)
    BY <1>12, BytesSplit
  <2> QED
    BY <1>8, <1>14, <2>1 DEF SplitOK
<1>16. buf \in Seq(Byte) /\ Len(buf) = t2 - g2 /\ (IsEmpty(buf) <=> g2 = t2)
  <2>1. LenOK(k, e, g2, t2)
    BY <1>12, BytesLen
  <2>2. IsEmpty(Bytes(k, e, g2, t2)) <=> g2 = t2
    BY <1>12, BytesNone
  <2> QED
    BY <1>15, <2>1, <2>2 DEF LenOK
<1>17. PICK eof \in BOOLEAN : eof <=> h.src_eof \/ (ended /\ Len(rest) < bufsize)
  OBVIOUS
<1>18. PICK shut \in BOOLEAN : shut <=> h.dst_shut \/ (eof /\ IsEmpty(buf))
  OBVIOUS
<1>19. PICK hf : hf = [buf |-> buf, src_eof |-> eof, dst_shut |-> shut]
  OBVIOUS
<1>20. DriveOf(h, all, rest, w, b, ended, d)
  BY <1>1, <1>4, <1>7, <1>10 DEF half_drive, DriveOf
<1>21. d = [half |-> hf, out |-> SubSeq(all, 1, w), read |-> w + Len(buf) - Len(h.buf)]
  BY <1>14, <1>17, <1>18, <1>19, <1>20 DEF DriveOf, Drained, IsEmpty
<1>22. d.half = hf /\ d.out = Bytes(k, e, g, g2) /\ d.read = w + Len(buf) - Len(h.buf)
  BY <1>8, <1>21
<1>23. d.read = t2 - t
  <2>1. w + (t2 - g2) - (t - g) = t2 - t
    BY <1>6
  <2> QED
    BY <1>2, <1>16, <1>22, <2>1
<1>24. hf \in HalfType /\ hf.buf = buf /\ hf.src_eof = eof /\ hf.dst_shut = shut
  BY <1>16, <1>19 DEF HalfType
<1>25. Len(rest) < bufsize => t2 = n
  BY <1>0, <1>6, <1>9, <1>10, <1>11
<1>26. (h.src_eof => eof) /\ (eof => h.src_eof \/ (ended /\ t2 = n))
  BY <1>17, <1>25
<1>27. shut <=> h.dst_shut \/ (eof /\ g2 = t2)
  BY <1>16, <1>18
<1>28. DrivesTo(k, e, h, g, t, n, ended, d, g2, t2)
  BY <1>6, <1>12, <1>13, <1>15, <1>22, <1>23, <1>24, <1>26, <1>27 DEF DrivesTo
<1> QED
  BY <1>28

-----------------------------------------------------------------------------
(* The two directions of a connection. *)

FarType ==
  [open : BOOLEAN, sent : Nat, ended : BOOLEAN, taken : Nat, got : Seq(Byte), eof : BOOLEAN]

\* What a far end has been handed of connection k: bytes of its other far end, and the end
\* of them after the last.
EndOK(k, e, from, to) ==
  /\ to.got = Bytes(k, e, 0, Len(to.got))
  /\ to.eof => from.ended /\ Len(to.got) = from.sent

\* The half h between them: what it holds comes after what it has written.
FlowOK(k, e, h, from, to) ==
  /\ to.got = Bytes(k, e, 0, Len(to.got))
  /\ h.buf = Bytes(k, e, Len(to.got), from.taken)
  /\ Len(to.got) <= from.taken /\ from.taken <= from.sent
  /\ Fits(Len(to.got), from.taken)
  /\ h.src_eof => from.ended /\ from.taken = from.sent
  /\ to.eof <=> h.dst_shut
  /\ h.dst_shut => h.src_eof /\ Len(to.got) = from.taken

\* The far ends of a flow are sound.
LEMMA FlowEnds ==
  ASSUME NEW k, NEW e, NEW h, NEW from, NEW to, FlowOK(k, e, h, from, to)
  PROVE  EndOK(k, e, from, to)
BY DEF FlowOK, EndOK

\* Reading takes bytes of a far end and changes nothing else of it.
LEMMA TakesType ==
  ASSUME NEW r \in FarType, NEW d, r.taken + d.read \in Nat
  PROVE  /\ Takes(r, d) \in FarType /\ Takes(r, d).taken = r.taken + d.read
         /\ Takes(r, d).sent = r.sent /\ Takes(r, d).ended = r.ended
         /\ Takes(r, d).got = r.got /\ Takes(r, d).eof = r.eof
BY DEF Takes, FarType

\* Writing hands bytes to a far end, and the end, and changes nothing else of it.
LEMMA GetsType ==
  ASSUME NEW r \in FarType, NEW d, d.out \in Seq(Byte), d.half.dst_shut \in BOOLEAN
  PROVE  /\ Gets(r, d) \in FarType
         /\ Gets(r, d).got = r.got \o d.out
         /\ Gets(r, d).eof <=> r.eof \/ d.half.dst_shut
         /\ Gets(r, d).sent = r.sent /\ Gets(r, d).ended = r.ended /\ Gets(r, d).taken = r.taken
<1>1. r.eof \in BOOLEAN /\ r.got \in Seq(Byte) /\ r.got \o d.out \in Seq(Byte)
  BY ConcatProperties DEF FarType
<1>2. PICK x \in BOOLEAN : x <=> r.eof \/ d.half.dst_shut
  BY <1>1
<1>3. PICK s \in Seq(Byte) : s = r.got \o d.out
  BY <1>1
<1>4. Gets(r, d) = [r EXCEPT !.got = s, !.eof = x]
  BY <1>2, <1>3 DEF Gets
<1>5. [r EXCEPT !.got = s, !.eof = x] \in FarType
  BY DEF FarType
<1>6. /\ [r EXCEPT !.got = s, !.eof = x].got = s /\ [r EXCEPT !.got = s, !.eof = x].eof = x
      /\ [r EXCEPT !.got = s, !.eof = x].sent = r.sent /\ [r EXCEPT !.got = s, !.eof = x].ended = r.ended
      /\ [r EXCEPT !.got = s, !.eof = x].taken = r.taken
  BY DEF FarType
<1> QED
  BY <1>2, <1>3, <1>4, <1>5, <1>6

\* Driving a half keeps its flow.
LEMMA FlowDrives ==
  ASSUME NEW k \in Nat, NEW e \in Side, NEW h \in HalfType, NEW from \in FarType, NEW to \in FarType,
         FlowOK(k, e, h, from, to), NEW room \in Nat,
         NEW d, d = half_drive(h, Bytes(k, e, from.taken, from.sent), from.ended, room)
  PROVE  /\ d.half \in HalfType /\ d.out \in Seq(Byte) /\ from.taken + d.read \in Nat
         /\ FlowOK(k, e, d.half, Takes(from, d), Gets(to, d))
         /\ EndOK(k, e, Takes(from, d), [to EXCEPT !.got = @ \o d.out])
<1> DEFINE g == Len(to.got)
           t == from.taken
           n == from.sent
<1>1. /\ g \in Nat /\ t \in Nat /\ n \in Nat /\ from.ended \in BOOLEAN /\ to.eof \in BOOLEAN
      /\ to.got \in Seq(Byte)
  BY LenProperties DEF FarType
<1>2. /\ to.got = Bytes(k, e, 0, g) /\ h.buf = Bytes(k, e, g, t) /\ g <= t /\ t <= n
      /\ Fits(g, t)
  BY DEF FlowOK
<1>3. PICK g2, t2 \in Nat : DrivesTo(k, e, h, g, t, n, from.ended, d, g2, t2)
  <2> HIDE DEF g, t, n
  <2>1. d = half_drive(h, Bytes(k, e, t, n), from.ended, room)
    BY DEF t, n
  <2> QED
    BY <1>1, <1>2, <2>1, HalfDrive
<1>4. /\ g <= g2 /\ g2 <= t2 /\ t <= t2 /\ t2 <= n /\ Fits(g2, t2)
      /\ d.out = Bytes(k, e, g, g2) /\ d.half.buf = Bytes(k, e, g2, t2) /\ d.read = t2 - t
      /\ d.half \in HalfType
  BY <1>3 DEF DrivesTo
<1>5. d.out \in Seq(Byte) /\ t + d.read = t2
  <2> HIDE DEF g, t, n
  <2>0. LenOK(k, e, g, g2)
    BY <1>1, <1>4, BytesLen
  <2>1. d.out \in Seq(Byte)
    BY <1>4, <2>0 DEF LenOK
  <2> QED
    BY <1>1, <1>4, <2>1
<1>6. to.got \o d.out = Bytes(k, e, 0, g2) /\ Len(to.got \o d.out) = g2
  <2> HIDE DEF g, t, n
  <2>1. PICK z \in Nat : z = 0
    OBVIOUS
  <2>2. z <= g /\ z <= g2 /\ g <= g2 /\ g2 - z = g2 /\ g \in Nat
    BY <1>1, <1>4, <2>1
  <2>3. Bytes(k, e, z, g) \o Bytes(k, e, g, g2) = Bytes(k, e, z, g2)
    BY <2>2, BytesConcat
  <2>4. LenOK(k, e, z, g2)
    BY <2>2, BytesLen
  <2> QED
    BY <1>2, <1>4, <2>1, <2>2, <2>3, <2>4 DEF LenOK
<1>7. PICK f2 : f2 = Takes(from, d)
  OBVIOUS
<1>8. PICK o2 : o2 = Gets(to, d)
  OBVIOUS
<1>9. f2.taken = t2 /\ f2.sent = n /\ f2.ended = from.ended
  BY <1>5, <1>7, TakesType
<1>10. o2.got = to.got \o d.out /\ (o2.eof <=> to.eof \/ d.half.dst_shut)
  BY <1>4, <1>5, <1>8, GetsType DEF HalfType
<1>11. Len(o2.got) = g2 /\ o2.got = Bytes(k, e, 0, g2)
  BY <1>6, <1>10
<1>12. d.half.src_eof => from.ended /\ t2 = n
  <2>1. h.src_eof => from.ended /\ t = n
    BY DEF FlowOK
  <2>2. t = n => t2 = n
    BY <1>1, <1>4
  <2> QED
    BY <1>3, <2>1, <2>2 DEF DrivesTo
<1>13. d.half.dst_shut => d.half.src_eof /\ g2 = t2
  <2>1. h.dst_shut => h.src_eof /\ g = t
    BY DEF FlowOK
  <2>2. h.src_eof => t = n
    BY DEF FlowOK
  <2>3. g = t /\ t = n => g2 = t2
    BY <1>1, <1>4
  <2> QED
    BY <1>3, <2>1, <2>2, <2>3 DEF DrivesTo
<1>14. o2.eof <=> d.half.dst_shut
  <2>1. (to.eof <=> h.dst_shut) /\ (h.dst_shut => d.half.dst_shut)
    BY <1>3 DEF FlowOK, DrivesTo
  <2> QED
    BY <1>10, <2>1
<1>15. FlowOK(k, e, d.half, f2, o2)
  BY <1>4, <1>9, <1>11, <1>12, <1>13, <1>14 DEF FlowOK
<1>16. EndOK(k, e, f2, [to EXCEPT !.got = @ \o d.out])
  <2>1. PICK q : q = [to EXCEPT !.got = @ \o d.out]
    OBVIOUS
  <2>2. q.got = to.got \o d.out /\ q.eof = to.eof
    BY <2>1 DEF FarType
  <2>3. to.eof => from.ended /\ g2 = n
    <3>1. to.eof => d.half.dst_shut
      BY <1>10, <1>14
    <3> QED
      BY <1>12, <1>13, <3>1
  <2>4. EndOK(k, e, f2, q)
    BY <1>6, <1>9, <2>2, <2>3 DEF EndOK
  <2> QED
    BY <2>1, <2>4
<1> QED
  BY <1>1, <1>4, <1>5, <1>7, <1>8, <1>15, <1>16


-----------------------------------------------------------------------------
(* A connection: two flows between its far ends. *)

EndsType == [Side -> FarType]
PumpType == [Side -> HalfType]
EndsOK(k, f) == \A e \in Side : EndOK(k, e, f[e], f[Other(e)])
FlowsOK(k, p, f) == \A e \in Side : FlowOK(k, e, p[e], f[e], f[Other(e)])

\* The side across.
LEMMA Across == \A e \in Side : Other(e) \in Side /\ Other(e) # e /\ Other(Other(e)) = e
BY DEF Other, Side

\* The far ends of a connection whose two flows are sound.
LEMMA FlowsEnds ==
  ASSUME NEW k, NEW p, NEW f, FlowsOK(k, p, f)
  PROVE  EndsOK(k, f)
BY FlowEnds DEF FlowsOK, EndsOK

\* A flow reads only this of its far ends.
LEMMA FlowSame ==
  ASSUME NEW k, NEW e, NEW h, NEW from, NEW to, NEW from2, NEW to2, FlowOK(k, e, h, from, to),
         from2.taken = from.taken, from2.sent = from.sent, from2.ended = from.ended,
         to2.got = to.got, to2.eof = to.eof
  PROVE  FlowOK(k, e, h, from2, to2)
BY DEF FlowOK

\* What is said of far ends reads only this of them.
LEMMA EndSame ==
  ASSUME NEW k, NEW e, NEW from, NEW to, NEW from2, NEW to2, EndOK(k, e, from, to),
         from2.sent = from.sent, from2.ended = from.ended, to2.got = to.got, to2.eof = to.eof
  PROVE  EndOK(k, e, from2, to2)
BY DEF EndOK

Shut(f) == [e \in Side |-> [f[e] EXCEPT !.open = FALSE]]

\* conn_kill changes nothing that was sent or handed over.
LEMMA ShutEnds ==
  ASSUME NEW k, NEW f \in EndsType, EndsOK(k, f)
  PROVE  /\ Shut(f) \in EndsType /\ EndsOK(k, Shut(f))
         /\ \A e \in Side : Shut(f)[e].eof = f[e].eof
<1>1. ASSUME NEW r \in FarType
      PROVE  /\ [r EXCEPT !.open = FALSE] \in FarType
             /\ [r EXCEPT !.open = FALSE].sent = r.sent /\ [r EXCEPT !.open = FALSE].ended = r.ended
             /\ [r EXCEPT !.open = FALSE].got = r.got /\ [r EXCEPT !.open = FALSE].eof = r.eof
  BY DEF FarType
<1>2. \A e \in Side : f[e] \in FarType /\ Shut(f)[e] = [f[e] EXCEPT !.open = FALSE]
  BY DEF EndsType, Shut
<1>3. \A e \in Side : /\ Shut(f)[e] \in FarType
                      /\ Shut(f)[e].sent = f[e].sent /\ Shut(f)[e].ended = f[e].ended
                      /\ Shut(f)[e].got = f[e].got /\ Shut(f)[e].eof = f[e].eof
  BY <1>1, <1>2
<1>4. Shut(f) \in EndsType
  BY <1>3 DEF EndsType, Shut
<1>5. ASSUME NEW e \in Side PROVE EndOK(k, e, Shut(f)[e], Shut(f)[Other(e)])
  <2>1. EndOK(k, e, f[e], f[Other(e)]) /\ Other(e) \in Side
    BY Across DEF EndsOK
  <2> QED
    BY <1>3, <2>1, EndSame
<1> QED
  BY <1>3, <1>4, <1>5 DEF EndsOK

Moves(f, e, d) == [x \in Side |-> IF x = e THEN Takes(f[x], d) ELSE Gets(f[x], d)]

\* One half is driven: both flows stay sound.
LEMMA DriveConn ==
  ASSUME NEW k \in Nat, NEW p \in PumpType, NEW f \in EndsType, FlowsOK(k, p, f), NEW e \in Side,
         NEW room \in Nat, NEW d, NEW hf,
         d = half_drive(p[e], Bytes(k, e, f[e].taken, f[e].sent), f[e].ended, room), hf = d.half
  PROVE  /\ Moves(f, e, d) \in EndsType /\ hf \in HalfType
         /\ FlowsOK(k, [p EXCEPT ![e] = hf], Moves(f, e, d))
         /\ EndOK(k, e, Takes(f[e], d), [f[Other(e)] EXCEPT !.got = @ \o d.out])
<1> DEFINE o == Other(e)
<1>1. o \in Side /\ o # e /\ Other(o) = e /\ \A x \in Side : x = e \/ x = o
  BY Across DEF Other, Side
<1> HIDE DEF o
<1>2. p[e] \in HalfType /\ p[o] \in HalfType /\ f[e] \in FarType /\ f[o] \in FarType
  BY <1>1 DEF PumpType, EndsType
<1>3. FlowOK(k, e, p[e], f[e], f[o]) /\ FlowOK(k, o, p[o], f[o], f[e])
  BY <1>1 DEF FlowsOK, o
<1>4. /\ hf \in HalfType /\ d.out \in Seq(Byte) /\ f[e].taken + d.read \in Nat
      /\ FlowOK(k, e, hf, Takes(f[e], d), Gets(f[o], d))
      /\ EndOK(k, e, Takes(f[e], d), [f[o] EXCEPT !.got = @ \o d.out])
  BY <1>2, <1>3, FlowDrives
<1>5. d.half.dst_shut \in BOOLEAN
  BY <1>4 DEF HalfType
<1>6. /\ Takes(f[e], d) \in FarType /\ Takes(f[e], d).got = f[e].got /\ Takes(f[e], d).eof = f[e].eof
  BY <1>2, <1>4, TakesType
<1>7. /\ Gets(f[o], d) \in FarType /\ Gets(f[o], d).sent = f[o].sent
      /\ Gets(f[o], d).ended = f[o].ended /\ Gets(f[o], d).taken = f[o].taken
  BY <1>2, <1>4, <1>5, GetsType
<1>8. FlowOK(k, o, p[o], Gets(f[o], d), Takes(f[e], d))
  BY <1>3, <1>6, <1>7, FlowSame
<1>9. Moves(f, e, d)[e] = Takes(f[e], d) /\ Moves(f, e, d)[o] = Gets(f[o], d)
  BY <1>1 DEF Moves
<1>10. Moves(f, e, d) \in EndsType
  <2>1. \A x \in Side : (IF x = e THEN Takes(f[x], d) ELSE Gets(f[x], d)) \in FarType
    BY <1>1, <1>6, <1>7
  <2> QED
    BY <2>1 DEF Moves, EndsType
<1>11. PICK q : q = [p EXCEPT ![e] = hf]
  OBVIOUS
<1>12. q[e] = hf /\ q[o] = p[o]
  BY <1>1, <1>11 DEF PumpType
<1>13. PICK m : m = Moves(f, e, d)
  OBVIOUS
<1>14. FlowOK(k, e, q[e], m[e], m[o]) /\ FlowOK(k, o, q[o], m[o], m[e])
  BY <1>4, <1>8, <1>9, <1>12, <1>13
<1>15. FlowsOK(k, q, m)
  BY <1>1, <1>14 DEF FlowsOK, o
<1> QED
  BY <1>4, <1>10, <1>11, <1>13, <1>15 DEF o

\* A half whose call fails, after it wrote some bytes: the far ends stay sound.
LEMMA FailConn ==
  ASSUME NEW k \in Nat, NEW p \in PumpType, NEW f \in EndsType, FlowsOK(k, p, f), NEW e \in Side,
         NEW room \in Nat, NEW d, NEW d2,
         d = half_drive(p[e], Bytes(k, e, f[e].taken, f[e].sent), f[e].ended, room),
         d2.read = d.read, d2.out = d.out, d2.half.dst_shut = FALSE
  PROVE  Moves(f, e, d2) \in EndsType /\ EndsOK(k, Moves(f, e, d2))
<1> DEFINE o == Other(e)
<1>1. o \in Side /\ o # e /\ Other(o) = e /\ \A x \in Side : x = e \/ x = o
  BY Across DEF Other, Side
<1> HIDE DEF o
<1>2. p[e] \in HalfType /\ f[e] \in FarType /\ f[o] \in FarType
  BY <1>1 DEF PumpType, EndsType
<1>3. FlowOK(k, e, p[e], f[e], f[o]) /\ EndOK(k, o, f[o], f[e])
  BY <1>1, FlowEnds DEF FlowsOK, o
<1>4. PICK q : q = [f[o] EXCEPT !.got = @ \o d.out]
  OBVIOUS
<1>5. /\ d.out \in Seq(Byte) /\ f[e].taken + d.read \in Nat
      /\ EndOK(k, e, Takes(f[e], d), q)
  BY <1>2, <1>3, <1>4, FlowDrives
<1>6. q.got = f[o].got \o d.out /\ q.eof = f[o].eof
  BY <1>2, <1>4 DEF FarType
<1>7. /\ Takes(f[e], d).sent = f[e].sent /\ Takes(f[e], d).ended = f[e].ended
  BY <1>2, <1>5, TakesType
<1>8. /\ Takes(f[e], d2) \in FarType /\ Takes(f[e], d2).sent = f[e].sent
      /\ Takes(f[e], d2).ended = f[e].ended /\ Takes(f[e], d2).got = f[e].got
      /\ Takes(f[e], d2).eof = f[e].eof
  BY <1>2, <1>5, TakesType
<1>9. /\ Gets(f[o], d2) \in FarType /\ Gets(f[o], d2).sent = f[o].sent
      /\ Gets(f[o], d2).ended = f[o].ended /\ Gets(f[o], d2).got = f[o].got \o d.out
      /\ Gets(f[o], d2).eof <=> f[o].eof \/ d2.half.dst_shut
  <2>1. d2.half.dst_shut \in BOOLEAN /\ d2.out \in Seq(Byte)
    BY <1>5
  <2>2. PICK r \in FarType : r = f[o]
    BY <1>2
  <2>3. /\ Gets(r, d2) \in FarType /\ Gets(r, d2).got = r.got \o d2.out
        /\ Gets(r, d2).eof <=> r.eof \/ d2.half.dst_shut
        /\ Gets(r, d2).sent = r.sent /\ Gets(r, d2).ended = r.ended
    BY <2>1, GetsType
  <2> QED
    BY <2>2, <2>3
<1>10. Gets(f[o], d2).eof = f[o].eof
  <2>1. Gets(f[o], d2).eof \in BOOLEAN /\ f[o].eof \in BOOLEAN
    BY <1>2, <1>9 DEF FarType
  <2> QED
    BY <1>9, <2>1
<1>11. EndOK(k, e, Takes(f[e], d2), Gets(f[o], d2))
  BY <1>5, <1>6, <1>7, <1>8, <1>9, <1>10, EndSame
<1>12. EndOK(k, o, Gets(f[o], d2), Takes(f[e], d2))
  BY <1>3, <1>8, <1>9, EndSame
<1>13. PICK m : m = Moves(f, e, d2)
  OBVIOUS
<1>14. m[e] = Takes(f[e], d2) /\ m[o] = Gets(f[o], d2)
  BY <1>1, <1>13 DEF Moves
<1>15. m \in EndsType
  <2>1. \A x \in Side : (IF x = e THEN Takes(f[x], d2) ELSE Gets(f[x], d2)) \in FarType
    BY <1>1, <1>8, <1>9
  <2> QED
    BY <1>13, <2>1 DEF Moves, EndsType
<1>16. EndOK(k, e, m[e], m[o]) /\ EndOK(k, o, m[o], m[e])
  BY <1>11, <1>12, <1>14
<1>17. EndsOK(k, m)
  BY <1>1, <1>16 DEF EndsOK, o
<1> QED
  BY <1>13, <1>15, <1>17

-----------------------------------------------------------------------------
(* A slot of the table. *)

ConnType == [fd : Nat, state : {"dead", "dialing", "ready"}, pump : SUBSET PumpType]

\* A far end of which nothing was read and to which nothing was written.
Fresh(r) == r.taken = 0 /\ r.got = <<>> /\ r.eof = FALSE

\* A slot c of the table, its last connection k and that one's far ends.
ConnOK(c, f, k) ==
  /\ c.fd # 0 => k = c.fd
  /\ c.state # "dead" => c.fd # 0
  /\ EndsOK(k, f)
  /\ c.state = "dialing" => \A e \in Side : Fresh(f[e])
  /\ c.state = "ready" => \E p \in PumpType : c.pump = {p} /\ FlowsOK(k, p, f)

\* No byte.
LEMMA NoBytes == \A k, e : Bytes(k, e, 0, 0) = <<>>
BY DEF Bytes

\* A pump that was just made is sound between fresh far ends.
LEMMA FreshFlows ==
  ASSUME NEW k, NEW f \in EndsType, \A e \in Side : Fresh(f[e])
  PROVE  norn_pump_new \in PumpType /\ FlowsOK(k, norn_pump_new, f) /\ EndsOK(k, f)
<1>1. Half \in HalfType /\ Half.buf = <<>> /\ Half.src_eof = FALSE /\ Half.dst_shut = FALSE
  <2>1. <<>> \in Seq(Byte)
    BY EmptySeq
  <2> QED
    BY <2>1 DEF Half, HalfType
<1>2. \A e \in Side : norn_pump_new[e] = Half
  BY DEF norn_pump_new, Side
<1>3. norn_pump_new \in PumpType
  BY <1>1 DEF norn_pump_new, PumpType, Side
<1>4. ASSUME NEW e \in Side PROVE FlowOK(k, e, norn_pump_new[e], f[e], f[Other(e)])
  <2>1. PICK from \in FarType : from = f[e]
    BY DEF EndsType
  <2>2. PICK to \in FarType : to = f[Other(e)]
    BY Across DEF EndsType
  <2>3. from.taken = 0 /\ to.got = <<>> /\ to.eof = FALSE
    BY <2>1, <2>2, Across DEF Fresh
  <2>4. Len(to.got) = 0 /\ from.sent \in Nat
    BY <2>3 DEF FarType
  <2>5. Fits(0, 0)
    BY ForwardAssumption DEF Fits
  <2>6. Bytes(k, e, 0, 0) = <<>> /\ 0 <= from.sent /\ 0 <= 0
    BY <2>4, NoBytes
  <2>7. FlowOK(k, e, Half, from, to)
    <3>1. /\ to.got = Bytes(k, e, 0, Len(to.got))
          /\ Half.buf = Bytes(k, e, Len(to.got), from.taken)
      BY <1>1, <2>3, <2>4, <2>6
    <3>2. /\ Len(to.got) <= from.taken /\ from.taken <= from.sent
      BY <2>3, <2>4
    <3>3. Fits(Len(to.got), from.taken)
      BY <2>3, <2>4, <2>5
    <3> QED
      BY <1>1, <2>3, <3>1, <3>2, <3>3 DEF FlowOK
  <2> QED
    BY <1>2, <2>1, <2>2, <2>7
<1>5. FlowsOK(k, norn_pump_new, f)
  BY <1>4 DEF FlowsOK
<1> QED
  BY <1>3, <1>5, FlowsEnds

-----------------------------------------------------------------------------
(* The table. *)

TableOK ==
  /\ g_conns \in [ConnSlot -> ConnType] /\ far \in [ConnSlot -> EndsType] /\ last \in [ConnSlot -> Nat]
  /\ \A i \in ConnSlot : ConnOK(g_conns[i], far[i], last[i])

ForwardInv == server_mode \in BOOLEAN /\ made \in Nat /\ TableOK /\ ServedToTheEnd

SlotSet(i, c, f, k) ==
  /\ g_conns' = [g_conns EXCEPT ![i] = c]
  /\ far' = [far EXCEPT ![i] = f]
  /\ last' = [last EXCEPT ![i] = k]

\* A server's connection that is over and met no error was served to the end.
SeenEnd(server, c, f, k, bad) == server /\ k # 0 /\ c.fd = 0 /\ ~bad => \A e \in Side : f[e].eof

\* One slot changes: the table stays sound.
LEMMA SlotTable ==
  ASSUME TableOK, NEW i \in ConnSlot, NEW c \in ConnType, NEW f \in EndsType, NEW k \in Nat,
         ConnOK(c, f, k), SlotSet(i, c, f, k)
  PROVE  TableOK'
<1>1. /\ g_conns' \in [ConnSlot -> ConnType] /\ far' \in [ConnSlot -> EndsType]
      /\ last' \in [ConnSlot -> Nat]
  BY DEF TableOK, SlotSet
<1>2. /\ g_conns'[i] = c /\ far'[i] = f /\ last'[i] = k
      /\ \A j \in ConnSlot \ {i} : /\ g_conns'[j] = g_conns[j] /\ far'[j] = far[j]
                                   /\ last'[j] = last[j]
  BY DEF TableOK, SlotSet
<1>3. \A j \in ConnSlot : ConnOK(g_conns'[j], far'[j], last'[j])
  BY <1>2 DEF TableOK
<1> QED
  BY <1>1, <1>3 DEF TableOK

\* One slot changes: a server's connections have been served to the end.
LEMMA SlotServed ==
  ASSUME TableOK, ServedToTheEnd, server_mode' = server_mode,
         NEW i \in ConnSlot, NEW c, NEW f, NEW k, SlotSet(i, c, f, k),
         \A j \in ConnSlot \ {i} : j \in failed' <=> j \in failed,
         SeenEnd(server_mode, c, f, k, i \in failed')
  PROVE  ServedToTheEnd'
<1>1. /\ g_conns'[i] = c /\ far'[i] = f /\ last'[i] = k
      /\ \A j \in ConnSlot \ {i} : /\ g_conns'[j] = g_conns[j] /\ far'[j] = far[j]
                                   /\ last'[j] = last[j]
  BY DEF TableOK, SlotSet
<1>2. ASSUME server_mode, NEW j \in ConnSlot, last'[j] # 0, g_conns'[j].fd = 0, j \notin failed'
      PROVE  \A e \in Side : far'[j][e].eof
  <2>1. CASE j = i
    BY <1>1, <1>2, <2>1 DEF SeenEnd
  <2>2. CASE j # i
    <3>1. last[j] # 0 /\ g_conns[j].fd = 0 /\ j \notin failed /\ far'[j] = far[j]
      BY <1>1, <1>2, <2>2
    <3> QED
      BY <1>2, <3>1 DEF ServedToTheEnd, HalfCloseHonoured
  <2> QED
    BY <2>1, <2>2
<1> QED
  BY <1>2 DEF ServedToTheEnd, HalfCloseHonoured

\* A slot that is freed.
LEMMA KillSlot ==
  ASSUME TableOK, NEW i \in ConnSlot, NEW F, NEW m \in EndsType, F = [far EXCEPT ![i] = m],
         EndsOK(last[i], m), conn_kill(i, F)
  PROVE  /\ SlotSet(i, FreeConn, Shut(m), last[i]) /\ last[i] \in Nat
         /\ FreeConn \in ConnType /\ Shut(m) \in EndsType
         /\ ConnOK(FreeConn, Shut(m), last[i])
         /\ \A e \in Side : Shut(m)[e].eof = m[e].eof
<1>1. F[i] = m /\ \A x : [F EXCEPT ![i] = x] = [far EXCEPT ![i] = x]
  BY DEF TableOK
<1>2. far' = [F EXCEPT ![i] = Shut(F[i])]
  BY DEF conn_kill, Shut
<1>3. far' = [far EXCEPT ![i] = Shut(m)]
  BY <1>1, <1>2
<1>4. g_conns' = [g_conns EXCEPT ![i] = FreeConn] /\ last' = [last EXCEPT ![i] = last[i]]
  BY DEF conn_kill, TableOK
<1>5. Shut(m) \in EndsType /\ EndsOK(last[i], Shut(m)) /\ \A e \in Side : Shut(m)[e].eof = m[e].eof
  BY ShutEnds
<1>6. FreeConn \in ConnType
  BY DEF FreeConn, ConnType
<1>7. ConnOK(FreeConn, Shut(m), last[i])
  BY <1>5 DEF ConnOK, FreeConn
<1> QED
  BY <1>3, <1>4, <1>5, <1>6, <1>7 DEF SlotSet, TableOK

\* conn_alloc finds a slot of the table, or 0.
LEMMA AllocSlot == conn_alloc = 0 \/ conn_alloc \in ConnSlot
<1> DEFINE S == {i \in ConnSlot : g_conns[i].fd = 0}
<1>1. CASE S = {}
  BY <1>1 DEF conn_alloc
<1>2. CASE S # {}
  <2>1. MAX_CONN \in Nat /\ S \in SUBSET (1..MAX_CONN)
    BY ForwardAssumption DEF ConnSlot
  <2> HIDE DEF S
  <2>2. Min(S) \in S
    BY <1>2, <2>1, MinIsThere
  <2>3. conn_alloc = Min(S)
    BY <1>2 DEF conn_alloc, S
  <2> QED
    BY <2>2, <2>3 DEF S
<1> QED
  BY <1>1, <1>2

\* A far end of a new connection.
LEMMA NewEnd ==
  ASSUME NEW b \in BOOLEAN
  PROVE  FarEnd(b) \in FarType /\ Fresh(FarEnd(b))
<1>1. <<>> \in Seq(Byte)
  BY EmptySeq
<1> QED
  BY <1>1 DEF FarEnd, FarType, Fresh

\* The two far ends of a new connection.
LEMMA PairEnds ==
  ASSUME NEW f, NEW x \in FarType, NEW y \in FarType, Fresh(x), Fresh(y), f = [fd |-> x, stream |-> y]
  PROVE  f \in EndsType /\ \A e \in Side : Fresh(f[e])
BY DEF EndsType, Side

\* A connection that gets a slot.
LEMMA OccupiesKeeps ==
  ASSUME ForwardInv, NEW i \in ConnSlot, server_mode' = server_mode, made' \in Nat,
         \/ Occupies(i, "dialing", {})
         \/ Occupies(i, "ready", {norn_pump_new})
  PROVE  ForwardInv'
<1>1. PICK k \in Nat : k = made + 1 /\ k # 0
  BY DEF ForwardInv
<1>0. PICK b \in BOOLEAN : \E c :
        /\ SlotSet(i, c, [fd |-> FarEnd(TRUE), stream |-> FarEnd(b)], k)
        /\ failed' = failed \ {i}
        /\ \/ c = [fd |-> k, state |-> "dialing", pump |-> {}]
           \/ c = [fd |-> k, state |-> "ready", pump |-> {norn_pump_new}]
  <2>1. ({} # {}) = FALSE /\ ({norn_pump_new} # {}) = TRUE
    OBVIOUS
  <2>2. CASE Occupies(i, "dialing", {})
    <3>1. SlotSet(i, [fd |-> k, state |-> "dialing", pump |-> {}],
                  [fd |-> FarEnd(TRUE), stream |-> FarEnd(FALSE)], k) /\ failed' = failed \ {i}
      BY <1>1, <2>1, <2>2 DEF Occupies, SlotSet
    <3> QED
      BY <3>1
  <2>3. CASE Occupies(i, "ready", {norn_pump_new})
    <3>1. SlotSet(i, [fd |-> k, state |-> "ready", pump |-> {norn_pump_new}],
                  [fd |-> FarEnd(TRUE), stream |-> FarEnd(TRUE)], k) /\ failed' = failed \ {i}
      BY <1>1, <2>1, <2>3 DEF Occupies, SlotSet
    <3> QED
      BY <3>1
  <2> QED
    BY <2>2, <2>3
<1>2. PICK c :
        /\ SlotSet(i, c, [fd |-> FarEnd(TRUE), stream |-> FarEnd(b)], k)
        /\ failed' = failed \ {i}
        /\ \/ c = [fd |-> k, state |-> "dialing", pump |-> {}]
           \/ c = [fd |-> k, state |-> "ready", pump |-> {norn_pump_new}]
  BY <1>0
<1>3. PICK f : f = [fd |-> FarEnd(TRUE), stream |-> FarEnd(b)]
  OBVIOUS
<1>4. f \in EndsType /\ \A e \in Side : Fresh(f[e])
  <2>1. /\ FarEnd(TRUE) \in FarType /\ Fresh(FarEnd(TRUE)) /\ FarEnd(b) \in FarType /\ Fresh(FarEnd(b))
    BY NewEnd
  <2>2. PICK x : x = FarEnd(TRUE)
    OBVIOUS
  <2>3. PICK y : y = FarEnd(b)
    OBVIOUS
  <2>4. f = [fd |-> x, stream |-> y] /\ x \in FarType /\ Fresh(x) /\ y \in FarType /\ Fresh(y)
    BY <1>3, <2>1, <2>2, <2>3
  <2> QED
    BY <2>4, PairEnds
<1>5. norn_pump_new \in PumpType /\ FlowsOK(k, norn_pump_new, f) /\ EndsOK(k, f)
  BY <1>4, FreshFlows
<1>6. c \in ConnType /\ c.fd = k
  BY <1>2, <1>5 DEF ConnType
<1>7. ConnOK(c, f, k)
  BY <1>1, <1>2, <1>4, <1>5 DEF ConnOK
<1>8. TableOK'
  BY <1>2, <1>3, <1>4, <1>6, <1>7, SlotTable DEF ForwardInv
<1>9. ServedToTheEnd'
  <2>1. SeenEnd(server_mode, c, f, k, i \in failed')
    BY <1>1, <1>6 DEF SeenEnd
  <2>2. \A j \in ConnSlot \ {i} : j \in failed' <=> j \in failed
    BY <1>2
  <2> QED
    BY <1>2, <1>3, <2>1, <2>2, SlotServed DEF ForwardInv
<1> QED
  BY <1>8, <1>9 DEF ForwardInv

\* A far end that sends or ends, or whose stream opens, changes no flow.
LEMMA FarSlot ==
  ASSUME ForwardInv, NEW i \in ConnSlot, NEW e \in Side, NEW r \in FarType, NEW r0, r0 = far[i][e],
         r.taken = r0.taken, r.got = r0.got, r.eof = r0.eof, r0.sent <= r.sent,
         r0.ended => r.ended /\ r.sent = r0.sent,
         far' = [far EXCEPT ![i] = [far[i] EXCEPT ![e] = r]],
         UNCHANGED <<server_mode, g_conns, made, last, failed>>
  PROVE  ForwardInv'
<1> DEFINE o == Other(e)
<1>1. o \in Side /\ o # e /\ Other(o) = e /\ \A x \in Side : x = e \/ x = o
  BY Across DEF Other, Side
<1> HIDE DEF o
<1>2. PICK f \in EndsType : f = far[i]
  BY DEF ForwardInv, TableOK
<1>3. PICK c \in ConnType : c = g_conns[i]
  BY DEF ForwardInv, TableOK
<1>4. PICK k \in Nat : k = last[i]
  BY DEF ForwardInv, TableOK
<1>5. PICK f2 : f2 = [f EXCEPT ![e] = r]
  OBVIOUS
<1>6. ConnOK(c, f, k) /\ r0 = f[e] /\ r0 \in FarType
  BY <1>2, <1>3, <1>4 DEF ForwardInv, TableOK, EndsType
<1>7. f2 \in EndsType /\ f2[e] = r /\ f2[o] = f[o]
  BY <1>1, <1>5 DEF EndsType
<1>8. EndsOK(k, f2)
  <2>1. EndOK(k, e, r0, f[o]) /\ EndOK(k, o, f[o], r0)
    BY <1>1, <1>6 DEF ConnOK, EndsOK, o
  <2>2. EndOK(k, e, r, f[o]) /\ EndOK(k, o, f[o], r)
    BY <2>1 DEF EndOK
  <2> QED
    BY <1>1, <1>7, <2>2 DEF EndsOK, o
<1>9. ASSUME c.state = "dialing" PROVE \A x \in Side : Fresh(f2[x])
  <2>1. Fresh(r0) /\ Fresh(f[o])
    BY <1>1, <1>6, <1>9 DEF ConnOK
  <2>2. Fresh(r)
    BY <2>1 DEF Fresh
  <2> QED
    BY <1>1, <1>7, <2>1, <2>2
<1>10. ASSUME c.state = "ready" PROVE \E p \in PumpType : c.pump = {p} /\ FlowsOK(k, p, f2)
  <2>1. PICK p \in PumpType : c.pump = {p} /\ FlowsOK(k, p, f)
    BY <1>6, <1>10 DEF ConnOK
  <2>2. FlowOK(k, e, p[e], r0, f[o]) /\ FlowOK(k, o, p[o], f[o], r0)
    BY <1>1, <1>6, <2>1 DEF FlowsOK, o
  <2>3. FlowOK(k, o, p[o], f[o], r)
    BY <2>2, FlowSame
  <2>4. r.taken <= r.sent /\ (r0.ended /\ r0.taken = r0.sent => r.ended /\ r.taken = r.sent)
    <3>1. r0.taken <= r0.sent
      BY <2>2 DEF FlowOK
    <3> QED
      BY <1>6, <3>1 DEF FarType
  <2>5. FlowOK(k, e, p[e], r, f[o])
    BY <2>2, <2>4 DEF FlowOK
  <2>6. FlowsOK(k, p, f2)
    BY <1>1, <1>7, <2>3, <2>5 DEF FlowsOK, o
  <2> QED
    BY <2>1, <2>6
<1>11. ConnOK(c, f2, k)
  BY <1>6, <1>8, <1>9, <1>10 DEF ConnOK
<1>12. SlotSet(i, c, f2, k)
  BY <1>2, <1>3, <1>4, <1>5 DEF SlotSet, ForwardInv, TableOK
<1>13. TableOK'
  BY <1>7, <1>11, <1>12, SlotTable DEF ForwardInv
<1>14. SeenEnd(server_mode, c, f2, k, i \in failed')
  <2>1. ASSUME server_mode, k # 0, c.fd = 0, i \notin failed PROVE \A x \in Side : f2[x].eof
    <3>1. \A x \in Side : f[x].eof
      BY <1>2, <1>3, <1>4, <2>1 DEF ForwardInv, ServedToTheEnd, HalfCloseHonoured
    <3> QED
      BY <1>1, <1>6, <1>7, <3>1
  <2> QED
    BY <2>1 DEF SeenEnd
<1>15. ServedToTheEnd'
  BY <1>12, <1>14, SlotServed DEF ForwardInv
<1> QED
  BY <1>13, <1>15 DEF ForwardInv

\* FarSends keeps the invariant.
LEMMA FarSendsKeeps ==
  ASSUME ForwardInv, NEW i \in ConnSlot, NEW e \in Side, FarSends(i, e)
  PROVE  ForwardInv'
<1>1. PICK r0 \in FarType : r0 = far[i][e]
  BY DEF ForwardInv, TableOK, EndsType
<1>2. PICK r : r = [r0 EXCEPT !.sent = @ + 1]
  OBVIOUS
<1>3. /\ r \in FarType /\ r.taken = r0.taken /\ r.got = r0.got /\ r.eof = r0.eof
      /\ r0.sent <= r.sent
  BY <1>2 DEF FarType
<1>4. r0.ended => r.ended /\ r.sent = r0.sent
  BY <1>1 DEF FarSends
<1>5. far' = [far EXCEPT ![i] = [far[i] EXCEPT ![e] = r]]
  BY <1>1, <1>2 DEF FarSends
<1>6. UNCHANGED <<server_mode, g_conns, made, last, failed>>
  BY DEF FarSends
<1> QED
  BY <1>1, <1>3, <1>4, <1>5, <1>6, FarSlot

\* FarEnds keeps the invariant.
LEMMA FarEndsKeeps ==
  ASSUME ForwardInv, NEW i \in ConnSlot, NEW e \in Side, FarEnds(i, e)
  PROVE  ForwardInv'
<1>1. PICK r0 \in FarType : r0 = far[i][e]
  BY DEF ForwardInv, TableOK, EndsType
<1>2. PICK r : r = [r0 EXCEPT !.ended = TRUE]
  OBVIOUS
<1>3. /\ r \in FarType /\ r.taken = r0.taken /\ r.got = r0.got /\ r.eof = r0.eof
      /\ r0.sent <= r.sent
  <2>1. r.sent = r0.sent /\ r0.sent \in Nat
    BY <1>2 DEF FarType
  <2>2. r \in FarType /\ r.taken = r0.taken /\ r.got = r0.got /\ r.eof = r0.eof
    BY <1>2 DEF FarType
  <2> QED
    BY <2>1, <2>2
<1>4. r0.ended => r.ended /\ r.sent = r0.sent
  BY <1>2 DEF FarType
<1>5. far' = [far EXCEPT ![i] = [far[i] EXCEPT ![e] = r]]
  BY <1>1, <1>2 DEF FarEnds
<1>6. UNCHANGED <<server_mode, g_conns, made, last, failed>>
  BY DEF FarEnds
<1> QED
  BY <1>1, <1>3, <1>4, <1>5, <1>6, FarSlot

\* Accept keeps the invariant.
LEMMA AcceptKeeps ==
  ASSUME ForwardInv, NEW ok \in BOOLEAN, Accept(ok) \/ on_inbound_stream(ok)
  PROVE  ForwardInv'
<1>1. server_mode' = server_mode /\ made' = made + 1
  BY DEF Accept, on_inbound_stream
<1>2. made' \in Nat
  BY <1>1 DEF ForwardInv
<1>3. CASE UNCHANGED <<g_conns, far, last, failed>>
  BY <1>1, <1>2, <1>3 DEF ForwardInv, TableOK, ServedToTheEnd, HalfCloseHonoured
<1>4. CASE /\ conn_alloc # 0
           /\ Occupies(conn_alloc, "dialing", {}) \/ Occupies(conn_alloc, "ready", {norn_pump_new})
  <2>1. PICK i \in ConnSlot : i = conn_alloc
    BY <1>4, AllocSlot
  <2>2. Occupies(i, "dialing", {}) \/ Occupies(i, "ready", {norn_pump_new})
    BY <1>4, <2>1
  <2> QED
    BY <1>1, <1>2, <2>2, OccupiesKeeps
<1> QED
  BY <1>3, <1>4 DEF Accept, on_inbound_stream

\* on_forward_session keeps the invariant.
LEMMA SessionKeeps ==
  ASSUME ForwardInv, NEW i \in ConnSlot, on_forward_session(i)
  PROVE  ForwardInv'
<1>1. PICK c \in ConnType : c = g_conns[i]
  BY DEF ForwardInv, TableOK
<1>2. PICK f \in EndsType : f = far[i]
  BY DEF ForwardInv, TableOK
<1>3. PICK k \in Nat : k = last[i]
  BY DEF ForwardInv, TableOK
<1>4. c.state = "dialing" /\ ConnOK(c, f, k)
  BY <1>1, <1>2, <1>3 DEF on_forward_session, ForwardInv, TableOK
<1>5. PICK s : s = "stream"
  OBVIOUS
<1>6. s \in Side
  BY <1>5 DEF Side
<1>7. PICK r : r = [f[s] EXCEPT !.open = TRUE]
  OBVIOUS
<1>8. f[s] \in FarType /\ Fresh(f[s])
  BY <1>4, <1>6 DEF EndsType, ConnOK
<1>9. r \in FarType /\ Fresh(r)
  BY <1>7, <1>8 DEF FarType, Fresh
<1>10. PICK f2 : f2 = [f EXCEPT ![s] = r]
  OBVIOUS
<1>11. f2 \in EndsType /\ \A e \in Side : Fresh(f2[e])
  <2>1. f2 \in EndsType
    BY <1>9, <1>10 DEF EndsType
  <2>2. ASSUME NEW e \in Side PROVE Fresh(f2[e])
    <3>1. f2[e] = r \/ f2[e] = f[e]
      BY <1>10 DEF EndsType
    <3>2. Fresh(f[e])
      BY <1>4 DEF ConnOK
    <3> QED
      BY <1>9, <3>1, <3>2
  <2> QED
    BY <2>1, <2>2
<1>12. norn_pump_new \in PumpType /\ FlowsOK(k, norn_pump_new, f2) /\ EndsOK(k, f2)
  BY <1>11, FreshFlows
<1>13. PICK c2 : c2 = [c EXCEPT !.state = "ready", !.pump = {norn_pump_new}]
  OBVIOUS
<1>14. c2 \in ConnType /\ c2.state = "ready" /\ c2.pump = {norn_pump_new} /\ c2.fd = c.fd
  BY <1>12, <1>13 DEF ConnType
<1>15. c.fd # 0 /\ k = c.fd
  BY <1>4 DEF ConnOK
<1>16. ConnOK(c2, f2, k)
  BY <1>12, <1>14, <1>15 DEF ConnOK
<1>17. SlotSet(i, c2, f2, k)
  <2>1. g_conns' = [g_conns EXCEPT ![i] = c2]
    BY <1>1, <1>13 DEF on_forward_session, ForwardInv, TableOK
  <2>2. far' = [far EXCEPT ![i] = f2]
    BY <1>2, <1>5, <1>7, <1>10 DEF on_forward_session
  <2>3. last' = [last EXCEPT ![i] = k]
    BY <1>3 DEF on_forward_session, ForwardInv, TableOK
  <2> QED
    BY <2>1, <2>2, <2>3 DEF SlotSet
<1>18. SeenEnd(server_mode, c2, f2, k, i \in failed')
  BY <1>14, <1>15 DEF SeenEnd
<1>19. UNCHANGED <<server_mode, made, failed>>
  BY DEF on_forward_session
<1>20. TableOK'
  BY <1>11, <1>14, <1>16, <1>17, SlotTable DEF ForwardInv
<1>21. ServedToTheEnd'
  BY <1>17, <1>18, <1>19, SlotServed DEF ForwardInv
<1> QED
  BY <1>19, <1>20, <1>21 DEF ForwardInv

\* A slot that is freed, with an error or not: the invariant is kept.
LEMMA KillKeeps ==
  ASSUME ForwardInv, NEW i \in ConnSlot, NEW F, NEW m \in EndsType, F = [far EXCEPT ![i] = m],
         EndsOK(last[i], m), conn_kill(i, F), server_mode' = server_mode, made' = made,
         \A j \in ConnSlot \ {i} : j \in failed' <=> j \in failed,
         server_mode => i \in failed' \/ \A e \in Side : m[e].eof
  PROVE  ForwardInv'
<1>1. PICK k \in Nat : k = last[i]
  BY DEF ForwardInv, TableOK
<1>2. PICK f : f = Shut(m)
  OBVIOUS
<1>3. PICK c : c = FreeConn
  OBVIOUS
<1>4. /\ SlotSet(i, c, f, k) /\ c \in ConnType /\ f \in EndsType /\ ConnOK(c, f, k)
      /\ \A e \in Side : f[e].eof = m[e].eof
  BY <1>1, <1>2, <1>3, KillSlot DEF ForwardInv
<1>5. TableOK'
  BY <1>4, SlotTable DEF ForwardInv
<1>6. SeenEnd(server_mode, c, f, k, i \in failed')
  BY <1>4 DEF SeenEnd
<1>7. ServedToTheEnd'
  BY <1>4, <1>6, SlotServed DEF ForwardInv
<1> QED
  BY <1>5, <1>7 DEF ForwardInv

\* DialFails keeps the invariant.
LEMMA DialFailsKeeps ==
  ASSUME ForwardInv, NEW i \in ConnSlot, DialFails(i)
  PROVE  ForwardInv'
<1>1. PICK m \in EndsType : m = far[i]
  BY DEF ForwardInv, TableOK
<1>2. far = [far EXCEPT ![i] = m]
  BY <1>1 DEF ForwardInv, TableOK
<1>3. EndsOK(last[i], m)
  BY <1>1 DEF ForwardInv, TableOK, ConnOK
<1>4. /\ conn_kill(i, far) /\ server_mode' = server_mode /\ made' = made
      /\ failed' = failed \cup {i}
  BY DEF DialFails
<1>5. i \in failed' /\ \A j \in ConnSlot \ {i} : j \in failed' <=> j \in failed
  BY <1>4
<1> QED
  BY <1>2, <1>3, <1>4, <1>5, KillKeeps

\* A slot with a pump: the pump, its connection and its far ends.
LEMMA ReadySlot ==
  ASSUME ForwardInv, NEW i \in ConnSlot, g_conns[i].state = "ready"
  PROVE  /\ g_conns[i] \in ConnType /\ far[i] \in EndsType /\ last[i] \in Nat
         /\ g_conns[i].fd = last[i] /\ g_conns[i].fd # 0
         /\ Pump(i) \in PumpType /\ FlowsOK(last[i], Pump(i), far[i]) /\ EndsOK(last[i], far[i])
<1>1. /\ g_conns[i] \in ConnType /\ far[i] \in EndsType /\ last[i] \in Nat
      /\ ConnOK(g_conns[i], far[i], last[i])
  BY DEF ForwardInv, TableOK
<1>2. PICK p \in PumpType : g_conns[i].pump = {p} /\ FlowsOK(last[i], p, far[i])
  BY <1>1 DEF ConnOK
<1>3. Pump(i) = p
  BY <1>2 DEF Pump
<1>4. g_conns[i].fd # 0 /\ g_conns[i].fd = last[i] /\ EndsOK(last[i], far[i])
  BY <1>1 DEF ConnOK
<1> QED
  BY <1>1, <1>2, <1>3, <1>4

\* What Copied does to a slot.
LEMMA CopiedSlot ==
  ASSUME NEW F, NEW i \in ConnSlot, NEW m, NEW d, NEW e, F = [far EXCEPT ![i] = m],
         far \in [ConnSlot -> EndsType]
  PROVE  Copied(F, i, e, d) = [far EXCEPT ![i] = Moves(m, e, d)]
<1>1. F[i] = m
  OBVIOUS
<1>2. Copied(F, i, e, d) = [F EXCEPT ![i] = Moves(F[i], e, d)]
  BY DEF Copied, Moves
<1>3. \A x : [F EXCEPT ![i] = x] = [far EXCEPT ![i] = x]
  OBVIOUS
<1> QED
  BY <1>1, <1>2, <1>3

\* PumpFails keeps the invariant.
LEMMA PumpFailsKeeps ==
  ASSUME ForwardInv, NEW i \in ConnSlot, NEW e \in Side, NEW room \in Nat, PumpFails(i, e, room)
  PROVE  ForwardInv'
<1>1. g_conns[i].state = "ready"
  BY DEF PumpFails
<1>2. PICK k \in Nat : k = last[i]
  BY <1>1, ReadySlot
<1>3. PICK f \in EndsType : f = far[i]
  BY <1>1, ReadySlot
<1>4. PICK p \in PumpType : p = Pump(i)
  BY <1>1, ReadySlot
<1>5. FlowsOK(k, p, f) /\ g_conns[i].fd = k
  BY <1>1, <1>2, <1>3, <1>4, ReadySlot
<1>6. PICK d : d = Driven(far, i, e, room)
  OBVIOUS
<1>7. d = half_drive(p[e], Bytes(k, e, f[e].taken, f[e].sent), f[e].ended, room)
  BY <1>3, <1>4, <1>5, <1>6 DEF Driven
<1>8. PICK d2 : d2 = [d EXCEPT !.half.dst_shut = FALSE]
  OBVIOUS
<1>9. d2.read = d.read /\ d2.out = d.out /\ d2.half.dst_shut = FALSE
  <2>1. PICK x, y, z : d = [half |-> x, out |-> y, read |-> z]
    BY <1>7 DEF half_drive
  <2>2. PICK u, v, w : x = [buf |-> u, src_eof |-> v, dst_shut |-> w]
    BY <1>7, <2>1 DEF half_drive
  <2>3. d2 = [half |-> [buf |-> u, src_eof |-> v, dst_shut |-> FALSE], out |-> y, read |-> z]
    BY <1>8, <2>1, <2>2
  <2> QED
    BY <2>1, <2>3
<1>10. PICK m : m = Moves(f, e, d2)
  OBVIOUS
<1>11. m \in EndsType /\ EndsOK(k, m)
  BY <1>5, <1>7, <1>9, <1>10, FailConn
<1>12. far \in [ConnSlot -> EndsType] /\ far = [far EXCEPT ![i] = f]
  BY <1>3 DEF ForwardInv, TableOK
<1>13. PICK F : F = Copied(far, i, e, d2)
  OBVIOUS
<1>14. F = [far EXCEPT ![i] = m]
  BY <1>10, <1>12, <1>13, CopiedSlot
<1>15. /\ conn_kill(i, F) /\ server_mode' = server_mode /\ made' = made /\ failed' = failed \cup {i}
  BY <1>6, <1>8, <1>13 DEF PumpFails
<1>16. i \in failed' /\ \A j \in ConnSlot \ {i} : j \in failed' <=> j \in failed
  BY <1>15
<1>17. EndsOK(last[i], m)
  BY <1>2, <1>11
<1> QED
  BY <1>11, <1>14, <1>15, <1>16, <1>17, KillKeeps

\* What norn_pump_drive does, by its parts.
PumpStep(i, ab, after, ba, both) ==
  LET freed == ~server_mode /\ ab.half.dst_shut
      done == half_done(ab.half) /\ half_done(ba.half)
  IN  /\ \/ freed /\ conn_kill(i, after)
         \/ ~freed /\ done /\ conn_kill(i, both)
         \/ /\ ~freed /\ ~done
            /\ g_conns' = [g_conns EXCEPT ![i].pump = {[fd |-> ab.half, stream |-> ba.half]}]
            /\ far' = both /\ last' = last
      /\ UNCHANGED <<server_mode, made, failed>>

\* norn_pump_drive keeps the invariant.
LEMMA PumpKeeps ==
  ASSUME ForwardInv, NEW i \in ConnSlot, NEW roomB \in Nat, NEW roomA \in Nat,
         norn_pump_drive(i, roomB, roomA)
  PROVE  ForwardInv'
<1>1. g_conns[i].state = "ready"
  BY DEF norn_pump_drive
<1>2. PICK k \in Nat : k = last[i]
  BY <1>1, ReadySlot
<1>3. PICK f \in EndsType : f = far[i]
  BY <1>1, ReadySlot
<1>4. PICK p \in PumpType : p = Pump(i)
  BY <1>1, ReadySlot
<1>5. PICK c \in ConnType : c = g_conns[i]
  BY <1>1, ReadySlot
<1>6. FlowsOK(k, p, f) /\ c.fd = k /\ k # 0 /\ c.state = "ready"
  BY <1>1, <1>2, <1>3, <1>4, <1>5, ReadySlot
<1>7. PICK A : A = "fd"
  OBVIOUS
<1>8. PICK B : B = "stream"
  OBVIOUS
<1>9. A \in Side /\ B \in Side /\ A # B /\ Other(A) = B /\ Other(B) = A /\ Side = {A, B}
  BY <1>7, <1>8 DEF Side, Other
<1>10. far \in [ConnSlot -> EndsType] /\ far = [far EXCEPT ![i] = f]
  BY <1>3 DEF ForwardInv, TableOK
<1>11. PICK ab : ab = Driven(far, i, A, roomB)
  OBVIOUS
<1>12. PICK ha : ha = ab.half
  OBVIOUS
<1>13. PICK f1 : f1 = Moves(f, A, ab)
  OBVIOUS
<1>14. PICK p1 : p1 = [p EXCEPT ![A] = ha]
  OBVIOUS
<1>15. f1 \in EndsType /\ ha \in HalfType /\ FlowsOK(k, p1, f1)
  <2>1. ab = half_drive(p[A], Bytes(k, A, f[A].taken, f[A].sent), f[A].ended, roomB)
    BY <1>3, <1>4, <1>5, <1>6, <1>11 DEF Driven
  <2> QED
    BY <1>6, <1>9, <1>12, <1>13, <1>14, <2>1, DriveConn
<1>16. p1 \in PumpType /\ p1[A] = ha /\ p1[B] = p[B]
  BY <1>9, <1>14, <1>15 DEF PumpType
<1>17. PICK after : after = Copied(far, i, A, ab)
  OBVIOUS
<1>18. after = [far EXCEPT ![i] = f1]
  BY <1>10, <1>13, <1>17, CopiedSlot
<1>19. after[i] = f1
  BY <1>10, <1>18
<1>20. PICK ba : ba = Driven(after, i, B, roomA)
  OBVIOUS
<1>21. PICK hb : hb = ba.half
  OBVIOUS
<1>22. PICK f2 : f2 = Moves(f1, B, ba)
  OBVIOUS
<1>23. PICK p2 : p2 = [p1 EXCEPT ![B] = hb]
  OBVIOUS
<1>24. f2 \in EndsType /\ hb \in HalfType /\ FlowsOK(k, p2, f2)
  <2>1. ba = half_drive(p1[B], Bytes(k, B, f1[B].taken, f1[B].sent), f1[B].ended, roomA)
    BY <1>4, <1>5, <1>6, <1>16, <1>19, <1>20 DEF Driven
  <2> QED
    BY <1>9, <1>15, <1>16, <1>21, <1>22, <1>23, <2>1, DriveConn
<1>25. PICK both : both = Copied(after, i, B, ba)
  OBVIOUS
<1>26. both = [far EXCEPT ![i] = f2]
  <2>1. far \in [ConnSlot -> EndsType]
    BY <1>10
  <2>2. Copied(after, i, B, ba) = [far EXCEPT ![i] = Moves(f1, B, ba)]
    <3>1. Copied(after, i, B, ba) = [after EXCEPT ![i] = Moves(after[i], B, ba)]
      BY DEF Copied, Moves
    <3>2. \A x : [after EXCEPT ![i] = x] = [far EXCEPT ![i] = x]
      BY <1>18, <2>1
    <3> QED
      BY <1>19, <3>1, <3>2
  <2> QED
    BY <1>22, <1>25, <2>2
<1>27. PumpStep(i, ab, after, ba, both)
  BY <1>7, <1>8, <1>11, <1>17, <1>20, <1>25 DEF norn_pump_drive, PumpStep
<1>28. UNCHANGED <<server_mode, made, failed>>
  BY <1>27 DEF PumpStep
<1>29. \A j \in ConnSlot \ {i} : j \in failed' <=> j \in failed
  BY <1>28
<1>30. CASE ~server_mode /\ conn_kill(i, after)
  <2>1. EndsOK(last[i], f1)
    BY <1>2, <1>15, FlowsEnds
  <2> QED
    BY <1>15, <1>18, <1>28, <1>29, <1>30, <2>1, KillKeeps
<1>31. p2 \in PumpType /\ p2[A] = ha /\ p2[B] = hb
  BY <1>9, <1>16, <1>23, <1>24 DEF PumpType
<1>32. CASE half_done(ha) /\ half_done(hb) /\ conn_kill(i, both)
  <2>1. EndsOK(last[i], f2)
    BY <1>2, <1>24, FlowsEnds
  <2>2. ha.dst_shut /\ hb.dst_shut
    BY <1>32 DEF half_done
  <2>3. FlowOK(k, A, p2[A], f2[A], f2[B]) /\ FlowOK(k, B, p2[B], f2[B], f2[A])
    BY <1>9, <1>24 DEF FlowsOK
  <2>4. f2[A].eof /\ f2[B].eof
    BY <1>31, <2>2, <2>3 DEF FlowOK
  <2>5. \A e \in Side : f2[e].eof
    BY <1>9, <2>4
  <2> QED
    BY <1>24, <1>26, <1>28, <1>29, <1>32, <2>1, <2>5, KillKeeps
<1>33. CASE /\ g_conns' = [g_conns EXCEPT ![i].pump = {[fd |-> ha, stream |-> hb]}]
            /\ far' = both /\ last' = last
  <2>1. [fd |-> ha, stream |-> hb] = p2
    <3>1. p2 = [e \in Side |-> p2[e]]
      BY <1>31 DEF PumpType
    <3>2. [fd |-> ha, stream |-> hb] = [e \in Side |-> IF e = "fd" THEN ha ELSE hb]
      BY DEF Side
    <3>3. \A e \in Side : p2[e] = IF e = "fd" THEN ha ELSE hb
      BY <1>7, <1>9, <1>31
    <3> QED
      BY <3>1, <3>2, <3>3
  <2>2. PICK c2 : c2 = [c EXCEPT !.pump = {p2}]
    OBVIOUS
  <2>3. c2 \in ConnType /\ c2.state = "ready" /\ c2.pump = {p2} /\ c2.fd = k
    BY <1>6, <1>31, <2>2 DEF ConnType
  <2>4. SlotSet(i, c2, f2, k)
    <3>1. g_conns' = [g_conns EXCEPT ![i] = c2]
      BY <1>5, <1>33, <2>1, <2>2 DEF ForwardInv, TableOK
    <3>2. last' = [last EXCEPT ![i] = k]
      BY <1>2, <1>33 DEF ForwardInv, TableOK
    <3> QED
      BY <1>26, <1>33, <3>1, <3>2 DEF SlotSet
  <2>5. EndsOK(k, f2)
    BY <1>24, FlowsEnds
  <2>6. ConnOK(c2, f2, k)
    BY <1>6, <1>24, <1>31, <2>3, <2>5 DEF ConnOK
  <2>7. TableOK'
    BY <1>24, <2>3, <2>4, <2>6, SlotTable DEF ForwardInv
  <2>8. SeenEnd(server_mode, c2, f2, k, i \in failed')
    BY <1>6, <2>3 DEF SeenEnd
  <2>9. ServedToTheEnd'
    BY <1>28, <1>29, <2>4, <2>8, SlotServed DEF ForwardInv
  <2> QED
    BY <1>28, <2>7, <2>9 DEF ForwardInv
<1> QED
  BY <1>12, <1>21, <1>27, <1>30, <1>32, <1>33 DEF PumpStep

\* Stop keeps the invariant.
LEMMA StopKeeps ==
  ASSUME ForwardInv, Stop
  PROVE  ForwardInv'
<1>1. /\ g_conns' = [i \in ConnSlot |-> FreeConn] /\ far' = far /\ last' = last
      /\ server_mode' = server_mode /\ made' = made
      /\ failed' = failed \cup {i \in ConnSlot : g_conns[i].fd # 0}
  BY DEF Stop
<1>2. FreeConn \in ConnType /\ FreeConn.fd = 0 /\ FreeConn.state = "dead"
  BY DEF FreeConn, ConnType
<1>3. \A i \in ConnSlot : ConnOK(FreeConn, far[i], last[i])
  BY <1>2 DEF ForwardInv, TableOK, ConnOK
<1>4. TableOK'
  <2>1. g_conns' \in [ConnSlot -> ConnType] /\ \A i \in ConnSlot : g_conns'[i] = FreeConn
    BY <1>1, <1>2
  <2> QED
    BY <1>1, <1>3, <2>1 DEF ForwardInv, TableOK
<1>5. ServedToTheEnd'
  <2>1. ASSUME server_mode, NEW i \in ConnSlot, last[i] # 0, i \notin failed'
        PROVE  \A e \in Side : far[i][e].eof
    <3>1. i \notin failed /\ g_conns[i].fd = 0
      BY <1>1, <2>1
    <3> QED
      BY <2>1, <3>1 DEF ForwardInv, ServedToTheEnd, HalfCloseHonoured
  <2> QED
    BY <1>1, <2>1 DEF ServedToTheEnd, HalfCloseHonoured
<1> QED
  BY <1>1, <1>4, <1>5 DEF ForwardInv

\* The invariant holds initially.
LEMMA ForwardStarts ==
  ASSUME ForwardInit
  PROVE  ForwardInv
<1>1. /\ server_mode \in BOOLEAN /\ made = 0 /\ g_conns = [i \in ConnSlot |-> FreeConn]
      /\ far = [i \in ConnSlot |-> [e \in Side |-> FarEnd(FALSE)]] /\ last = [i \in ConnSlot |-> 0]
  BY DEF ForwardInit
<1>2. FreeConn \in ConnType /\ FreeConn.fd = 0 /\ FreeConn.state = "dead"
  BY DEF FreeConn, ConnType
<1>3. PICK f : f = [e \in Side |-> FarEnd(FALSE)]
  OBVIOUS
<1>4. f \in EndsType /\ \A e \in Side : Fresh(f[e])
  <2>1. FarEnd(FALSE) \in FarType /\ Fresh(FarEnd(FALSE))
    BY NewEnd
  <2>2. PICK r \in FarType : r = FarEnd(FALSE) /\ Fresh(r)
    BY <2>1
  <2>3. f = [e \in Side |-> r]
    BY <1>3, <2>2
  <2> QED
    BY <2>2, <2>3 DEF EndsType
<1>5. EndsOK(0, f)
  BY <1>4, FreshFlows
<1>6. ConnOK(FreeConn, f, 0)
  BY <1>2, <1>5 DEF ConnOK
<1>7. TableOK
  <2>1. /\ g_conns \in [ConnSlot -> ConnType] /\ far \in [ConnSlot -> EndsType]
        /\ last \in [ConnSlot -> Nat]
    BY <1>1, <1>2, <1>3, <1>4
  <2>2. \A i \in ConnSlot : g_conns[i] = FreeConn /\ far[i] = f /\ last[i] = 0
    BY <1>1, <1>3
  <2> QED
    BY <1>6, <2>1, <2>2 DEF TableOK
<1>8. ServedToTheEnd
  BY <1>1 DEF ServedToTheEnd, HalfCloseHonoured
<1> QED
  BY <1>1, <1>7, <1>8 DEF ForwardInv

\* Every step keeps the invariant.
LEMMA ForwardKeeps ==
  ASSUME ForwardInv, [ForwardNext]_forwardVars
  PROVE  ForwardInv'
<1>1. CASE UNCHANGED forwardVars
  BY <1>1 DEF forwardVars, ForwardInv, TableOK, ServedToTheEnd, HalfCloseHonoured
<1>2. CASE \E ok \in BOOLEAN : Accept(ok) \/ on_inbound_stream(ok)
  BY <1>2, AcceptKeeps
<1>3. CASE Stop
  BY <1>3, StopKeeps
<1>4. ASSUME NEW i \in ConnSlot,
             \/ on_forward_session(i) \/ DialFails(i)
             \/ \E roomB, roomA \in 0..MaxSent : norn_pump_drive(i, roomB, roomA)
             \/ \E e \in Side :
                  \/ FarSends(i, e) \/ FarEnds(i, e)
                  \/ \E room \in 0..MaxSent : PumpFails(i, e, room)
      PROVE  ForwardInv'
  <2>0. \A n \in 0..MaxSent : n \in Nat
    BY ForwardAssumption
  <2>1. CASE on_forward_session(i)
    BY <2>1, SessionKeeps
  <2>2. CASE DialFails(i)
    BY <2>2, DialFailsKeeps
  <2>3. CASE \E roomB, roomA \in 0..MaxSent : norn_pump_drive(i, roomB, roomA)
    BY <2>0, <2>3, PumpKeeps
  <2>4. ASSUME NEW e \in Side, FarSends(i, e) PROVE ForwardInv'
    BY <2>4, FarSendsKeeps
  <2>5. ASSUME NEW e \in Side, FarEnds(i, e) PROVE ForwardInv'
    BY <2>5, FarEndsKeeps
  <2>6. ASSUME NEW e \in Side, NEW room \in 0..MaxSent, PumpFails(i, e, room) PROVE ForwardInv'
    BY <2>0, <2>6, PumpFailsKeeps
  <2> QED
    BY <1>4, <2>1, <2>2, <2>3, <2>4, <2>5, <2>6
<1> QED
  BY <1>1, <1>2, <1>3, <1>4 DEF ForwardNext

\* The invariant says that the tunnel is faithful.
LEMMA ForwardSays ==
  ASSUME ForwardInv
  PROVE  TunnelFaithful
<1> SUFFICES ASSUME NEW i \in ConnSlot, NEW e \in Side
             PROVE  /\ far[i][e].got = Bytes(last[i], Other(e), 0, Len(far[i][e].got))
                    /\ far[i][e].eof => /\ far[i][Other(e)].ended
                                        /\ Len(far[i][e].got) = far[i][Other(e)].sent
  BY DEF TunnelFaithful
<1>1. EndsOK(last[i], far[i]) /\ Other(e) \in Side /\ Other(Other(e)) = e
  BY Across DEF ForwardInv, TableOK, ConnOK
<1>2. EndOK(last[i], Other(e), far[i][Other(e)], far[i][e])
  BY <1>1 DEF EndsOK
<1> QED
  BY <1>2 DEF EndOK

\* norn-forward hands each far end the bytes of its own connection's other far end, in
\* order, and the end of them only after the last (half_drive, norn_pump_drive), whatever
\* is read and written at a time, whichever call fails and however slots are used again.
THEOREM TunnelCorrect == ForwardSpec => []TunnelFaithful
<1>1. ForwardInit => ForwardInv
  BY ForwardStarts
<1>2. ForwardInv /\ [ForwardNext]_forwardVars => ForwardInv'
  BY ForwardKeeps
<1>3. ForwardInv => TunnelFaithful
  BY ForwardSays
<1> QED
  BY <1>1, <1>2, <1>3, PTL DEF ForwardSpec

\* A connection of a norn-forward server that met no error is over only when both far ends
\* have been handed the end of the other's bytes (norn_pump_drive, conn_kill).
THEOREM ServedCorrect == ForwardSpec => []ServedToTheEnd
<1>1. ForwardInit => ForwardInv
  BY ForwardStarts
<1>2. ForwardInv /\ [ForwardNext]_forwardVars => ForwardInv'
  BY ForwardKeeps
<1>3. ForwardInv => ServedToTheEnd
  BY DEF ForwardInv
<1> QED
  BY <1>1, <1>2, <1>3, PTL DEF ForwardSpec

-----------------------------------------------------------------------------
(* The daemon (NornDaemon): its tables. *)

TablesOK(t) ==
  t = [lstore |-> t.lstore, publog |-> t.publog, pubqueue |-> t.pubqueue, held |-> t.held,
       keyfile |-> t.keyfile]

\* What a command may do to the log and the queue of publishes.
Quiet(o) == o.tab.publog = tables.publog /\ o.tab.pubqueue = tables.pubqueue /\ o.pub = 0
LogsOnly(o, t) ==
  /\ o.tab.publog = publog_add(tables.publog, [target |-> t, n |-> 0])
  /\ o.tab.pubqueue = tables.pubqueue /\ o.pub = 0
Publishes(o, t) ==
  /\ FreeSlots(tables.pubqueue) # {}
  /\ o.tab.publog = publog_add(tables.publog, [target |-> t, n |-> issued + 1])
  /\ o.tab.pubqueue = pubqueue_add(tables.pubqueue, issued + 1) /\ o.pub = issued + 1
OutcomeOK(o, c) ==
  /\ TablesOK(o.tab)
  /\ \/ Quiet(o)
     \/ LogsOnly(o, c.key)
     \/ \E t \in {Mutable(c.key), Immutable(c.val)} : Publishes(o, t)

\* A command that fails or only answers.
LEMMA QuietOnes ==
  ASSUME TablesOK(tables)
  PROVE  /\ TablesOK(Fails.tab) /\ Quiet(Fails)
         /\ \A v : TablesOK(Answers(v).tab) /\ Quiet(Answers(v))
BY DEF Fails, Answers, Quiet

\* The commands that change neither the log nor the queue.
LEMMA KeygenQuiet ==
  ASSUME TablesOK(tables), NEW o \in node_keygen
  PROVE  TablesOK(o.tab) /\ Quiet(o)
<1>1. CASE o = Fails
  BY <1>1, QuietOnes
<1>2. CASE o = [Answers("pubkey") EXCEPT !.tab.keyfile = TRUE]
  BY <1>2 DEF Answers, Fails, TablesOK, Quiet
<1> QED
  BY <1>1, <1>2 DEF node_keygen

\* node-set.
LEMMA NodeSetQuiet ==
  ASSUME TablesOK(tables), NEW k, NEW v, NEW o \in node_set(k, v)
  PROVE  TablesOK(o.tab) /\ Quiet(o)
<1>1. CASE o = Fails
  BY <1>1, QuietOnes
<1>2. ASSUME NEW x, o = [Answers("any") EXCEPT !.tab.lstore = x] PROVE TablesOK(o.tab) /\ Quiet(o)
  BY <1>2 DEF Answers, Fails, TablesOK, Quiet
<1> QED
  BY <1>1, <1>2 DEF node_set

\* bep44-del.
LEMMA DelQuiet ==
  ASSUME TablesOK(tables), NEW t, NEW o \in bep44_del(t)
  PROVE  TablesOK(o.tab) /\ Quiet(o)
<1>1. CASE o = Fails
  BY <1>1, QuietOnes
<1>2. CASE o = [Answers("any") EXCEPT !.tab.held = @ \ {t}]
  BY <1>2 DEF Answers, Fails, TablesOK, Quiet
<1> QED
  BY <1>1, <1>2 DEF bep44_del

\* A publish.
LEMMA PublishDoes ==
  ASSUME TablesOK(tables), NEW t, NEW o \in Publish(t)
  PROVE  TablesOK(o.tab) /\ (Quiet(o) \/ Publishes(o, t))
<1>1. CASE FreeSlots(tables.pubqueue) = {}
  BY <1>1, QuietOnes DEF Publish
<1>2. CASE FreeSlots(tables.pubqueue) # {}
  <2>1. o = [Answers("target") EXCEPT
               !.tab.pubqueue = pubqueue_add(@, issued + 1),
               !.tab.publog = publog_add(@, [target |-> t, n |-> issued + 1]),
               !.pub = issued + 1]
    BY <1>2 DEF Publish
  <2>2. TablesOK(o.tab) /\ o.pub = issued + 1
        /\ o.tab.pubqueue = pubqueue_add(tables.pubqueue, issued + 1)
        /\ o.tab.publog = publog_add(tables.publog, [target |-> t, n |-> issued + 1])
    BY <2>1 DEF Answers, Fails, TablesOK
  <2> QED
    BY <1>2, <2>2 DEF Publishes
<1> QED
  BY <1>1, <1>2

\* publog-add.
LEMMA LogOnlyDoes ==
  ASSUME TablesOK(tables), NEW t, NEW o \in log_only(t)
  PROVE  TablesOK(o.tab) /\ LogsOnly(o, t)
<1>1. o = [Answers("any") EXCEPT !.tab.publog = publog_add(@, [target |-> t, n |-> 0])]
  BY DEF log_only
<1> QED
  BY <1>1 DEF Answers, Fails, TablesOK, LogsOnly

\* The commands that only answer, and may fail.
Plain(S) == \A o \in S : o = Fails \/ \E v : o = Answers(v)

\* A set of such outcomes.
LEMMA PlainOnes ==
  /\ \A v : Plain({Answers(v)}) /\ Plain(Perhaps(v))
  /\ \A id : Plain(peer_public(id))
  /\ \A id, name : Plain(bep44_get(id, name))
  /\ \A t : Plain(bep44_get_immutable(t))
  /\ Plain(ping) /\ Plain(node_public) /\ Plain(node_secret) /\ Plain(node_id) /\ Plain(node_stats)
  /\ Plain(peer_list) /\ Plain(bep44_list) /\ Plain(peer_fetch)
  /\ \A x : Plain(cluster_op(x))
<1>1. \A v : Plain({Answers(v)}) /\ Plain(Perhaps(v))
  BY DEF Plain, Perhaps
<1>2. \A id : Plain(peer_public(id))
  BY <1>1 DEF peer_public
<1>3. \A id, name : Plain(bep44_get(id, name))
  <2> TAKE id, name
  <2>1. bep44_get(id, name) = Perhaps("value")
        \/ bep44_get(id, name) = {Answers("value")} \cup {}
        \/ bep44_get(id, name) = {Answers("value")} \cup {Fails}
    BY DEF bep44_get
  <2>2. Plain({Answers("value")} \cup {}) /\ Plain({Answers("value")} \cup {Fails})
    BY DEF Plain
  <2> QED
    BY <1>1, <2>1, <2>2
<1>4. \A t : Plain(bep44_get_immutable(t))
  BY <1>1 DEF bep44_get_immutable
<1>5. /\ Plain(ping) /\ Plain(node_public) /\ Plain(node_secret) /\ Plain(node_id) /\ Plain(node_stats)
      /\ Plain(peer_list) /\ Plain(bep44_list) /\ Plain(peer_fetch)
  BY <1>1 DEF ping, node_public, node_secret, node_id, node_stats, peer_list, bep44_list, peer_fetch
<1>6. \A x : Plain(cluster_op(x))
  BY <1>1 DEF cluster_op
<1> QED
  BY <1>1, <1>2, <1>3, <1>4, <1>5, <1>6

\* serve_client carries out one of these.
LEMMA DispatchIs ==
  ASSUME NEW c
  PROVE  \/ Plain(dispatch(c)) \/ dispatch(c) = node_keygen \/ dispatch(c) = node_set(c.key, c.val)
         \/ dispatch(c) = Publish(Mutable(c.key)) \/ dispatch(c) = Publish(Immutable(c.val))
         \/ dispatch(c) = log_only(c.key) \/ dispatch(c) = bep44_del(c.key)
BY PlainOnes DEF dispatch, bep44_set, bep44_put

\* What any command may do to the tables.
LEMMA DispatchDoes ==
  ASSUME TablesOK(tables), NEW c, NEW o \in dispatch(c)
  PROVE  OutcomeOK(o, c)
<1>1. CASE Plain(dispatch(c))
  BY <1>1, QuietOnes DEF Plain, OutcomeOK
<1>2. CASE dispatch(c) = node_keygen \/ dispatch(c) = node_set(c.key, c.val) \/ dispatch(c) = bep44_del(c.key)
  BY <1>2, KeygenQuiet, NodeSetQuiet, DelQuiet DEF OutcomeOK
<1>3. CASE dispatch(c) = log_only(c.key)
  BY <1>3, LogOnlyDoes DEF OutcomeOK
<1>4. CASE dispatch(c) = Publish(Mutable(c.key)) \/ dispatch(c) = Publish(Immutable(c.val))
  BY <1>4, PublishDoes DEF OutcomeOK
<1> QED
  BY <1>1, <1>2, <1>3, <1>4, DispatchIs

-----------------------------------------------------------------------------
(* The processes that ask the daemon. *)

IsList(s) == \E S : s \in Seq(S)

\* What is appended comes last and moves nothing.
LEMMA AppendSeq ==
  ASSUME NEW s, IsList(s), NEW x
  PROVE  /\ IsList(Append(s, x)) /\ Append(s, x) # <<>>
         /\ Len(s) \in Nat /\ DOMAIN s = 1..Len(s) /\ DOMAIN Append(s, x) = 1..(Len(s) + 1)
         /\ \A i \in 1..Len(s) : Append(s, x)[i] = s[i]
         /\ Append(s, x)[Len(s) + 1] = x
<1>1. PICK S : s \in Seq(S)
  BY DEF IsList
<1>2. s \in Seq(S \cup {x}) /\ x \in S \cup {x}
  BY <1>1
<1> QED
  BY <1>2, AppendProperties, LenProperties DEF IsList

\* The frame f that process p, with command c, may read as its i-th.
FrameOK(p, c, i, f) ==
  IF i = 1 THEN f.kind = "reply" /\ f.of = p
  ELSE f.kind = "event" /\ c.op = "watch" /\ Matches(c.key, f.of)

ProcRec(r) ==
  r = [pc |-> r.pc, cmd |-> r.cmd, unread |-> r.unread, got |-> r.got, rc |-> r.rc]

NoFrame(r) == r.got = <<>>
Asking(r) == r.pc \in {"idle", "open"}

\* Process p, with command c, and its state r: until it has asked it was sent nothing.
ProcOK(p, c, r) ==
  /\ ProcRec(r) /\ r.cmd = c /\ IsList(r.got) /\ r.unread \in BOOLEAN
  /\ Asking(r) => ~r.unread /\ NoFrame(r)
  /\ r.unread => NoFrame(r)
  /\ \A i \in DOMAIN r.got : FrameOK(p, c, i, r.got[i])

\* Its next state: what it has read it keeps.
Follows(p, c, r, r2) == ProcOK(p, c, r2) /\ (~NoFrame(r) => ~NoFrame(r2))

\* A process that moves on and is sent nothing.
LEMMA MovesOn ==
  ASSUME NEW p, NEW c, NEW r, ProcOK(p, c, r), NEW r2, ProcRec(r2), r2.cmd = r.cmd, r2.got = r.got,
         r2.unread \in BOOLEAN, Asking(r2) => ~r2.unread /\ NoFrame(r), r2.unread => NoFrame(r)
  PROVE  Follows(p, c, r, r2)
BY DEF ProcOK, Follows, NoFrame

\* A process that is ended, or whose end is cut.
LEMMA EndProc ==
  ASSUME NEW p, NEW c, NEW r, ProcOK(p, c, r), NEW x \in {"closed", "cut"}
  PROVE  /\ Follows(p, c, r, [r EXCEPT !.pc = x])
         /\ Follows(p, c, r, [r EXCEPT !.pc = x, !.unread = FALSE])
         /\ \A y : Follows(p, c, r, [r EXCEPT !.pc = x, !.rc = y])
<1>0. ProcRec(r) /\ r.unread \in BOOLEAN /\ (r.unread => NoFrame(r))
  BY DEF ProcOK
<1>1. Follows(p, c, r, [r EXCEPT !.pc = x])
  <2>1. PICK r2 : r2 = [r EXCEPT !.pc = x]
    OBVIOUS
  <2>2. ProcRec(r2) /\ r2.cmd = r.cmd /\ r2.got = r.got /\ r2.unread = r.unread /\ r2.pc = x
    BY <1>0, <2>1 DEF ProcRec
  <2>3. ~Asking(r2)
    BY <2>2 DEF Asking
  <2> QED
    BY <1>0, <2>1, <2>2, <2>3, MovesOn
<1>2. Follows(p, c, r, [r EXCEPT !.pc = x, !.unread = FALSE])
  <2>1. PICK r2 : r2 = [r EXCEPT !.pc = x, !.unread = FALSE]
    OBVIOUS
  <2>2. ProcRec(r2) /\ r2.cmd = r.cmd /\ r2.got = r.got /\ r2.unread = FALSE /\ r2.pc = x
    BY <1>0, <2>1 DEF ProcRec
  <2>3. ~Asking(r2)
    BY <2>2 DEF Asking
  <2> QED
    BY <1>0, <2>1, <2>2, <2>3, MovesOn
<1>3. ASSUME NEW y PROVE Follows(p, c, r, [r EXCEPT !.pc = x, !.rc = y])
  <2>1. PICK r2 : r2 = [r EXCEPT !.pc = x, !.rc = y]
    OBVIOUS
  <2>2. ProcRec(r2) /\ r2.cmd = r.cmd /\ r2.got = r.got /\ r2.unread = r.unread /\ r2.pc = x
    BY <1>0, <2>1 DEF ProcRec
  <2>3. ~Asking(r2)
    BY <2>2 DEF Asking
  <2> QED
    BY <1>0, <2>1, <2>2, <2>3, MovesOn
<1> QED
  BY <1>1, <1>2, <1>3

\* A process that connects, writes its request, or has it read.
LEMMA AskProc ==
  ASSUME NEW p, NEW c, NEW r, ProcOK(p, c, r)
  PROVE  /\ Follows(p, c, r, r)
         /\ r.pc = "idle" => Follows(p, c, r, [r EXCEPT !.pc = "open"])
         /\ r.pc = "open" => Follows(p, c, r, [r EXCEPT !.pc = "asked", !.unread = TRUE])
         /\ Follows(p, c, r, [r EXCEPT !.unread = FALSE])
<1>0. /\ ProcRec(r) /\ r.unread \in BOOLEAN /\ (r.unread => NoFrame(r))
      /\ (Asking(r) => ~r.unread /\ NoFrame(r))
  BY DEF ProcOK
<1>1. ASSUME r.pc = "idle" PROVE Follows(p, c, r, [r EXCEPT !.pc = "open"])
  <2>1. PICK r2 : r2 = [r EXCEPT !.pc = "open"]
    OBVIOUS
  <2>2. ProcRec(r2) /\ r2.cmd = r.cmd /\ r2.got = r.got /\ r2.unread = r.unread
    BY <1>0, <2>1 DEF ProcRec
  <2>3. Asking(r)
    BY <1>1 DEF Asking
  <2> QED
    BY <1>0, <2>1, <2>2, <2>3, MovesOn
<1>2. ASSUME r.pc = "open" PROVE Follows(p, c, r, [r EXCEPT !.pc = "asked", !.unread = TRUE])
  <2>1. PICK r2 : r2 = [r EXCEPT !.pc = "asked", !.unread = TRUE]
    OBVIOUS
  <2>2. ProcRec(r2) /\ r2.cmd = r.cmd /\ r2.got = r.got /\ r2.unread = TRUE /\ r2.pc = "asked"
    BY <1>0, <2>1 DEF ProcRec
  <2>3. Asking(r) /\ ~Asking(r2)
    BY <1>2, <2>2 DEF Asking
  <2> QED
    BY <1>0, <2>1, <2>2, <2>3, MovesOn
<1>3. Follows(p, c, r, [r EXCEPT !.unread = FALSE])
  <2>1. PICK r2 : r2 = [r EXCEPT !.unread = FALSE]
    OBVIOUS
  <2>2. ProcRec(r2) /\ r2.cmd = r.cmd /\ r2.got = r.got /\ r2.unread = FALSE /\ r2.pc = r.pc
    BY <1>0, <2>1 DEF ProcRec
  <2>3. Asking(r2) => Asking(r)
    BY <2>2 DEF Asking
  <2> QED
    BY <1>0, <2>1, <2>2, <2>3, MovesOn
<1>4. Follows(p, c, r, r)
  BY DEF Follows
<1> QED
  BY <1>1, <1>2, <1>3, <1>4

\* A process is sent a frame it may read.
LEMMA SentProc ==
  ASSUME NEW p, NEW c, NEW r, ProcOK(p, c, r), ~r.unread, ~Asking(r), NEW f,
         NoFrame(r) => f.kind = "reply" /\ f.of = p,
         ~NoFrame(r) => f.kind = "event" /\ c.op = "watch" /\ Matches(c.key, f.of)
  PROVE  Follows(p, c, r, [r EXCEPT !.got = Append(@, f)])
<1>0. ProcRec(r) /\ r.unread \in BOOLEAN /\ IsList(r.got) /\ r.cmd = c
  BY DEF ProcOK
<1>1. PICK g : g = Append(r.got, f)
  OBVIOUS
<1>2. PICK r2 : r2 = [r EXCEPT !.got = g]
  OBVIOUS
<1>3. ProcRec(r2) /\ r2.cmd = r.cmd /\ r2.got = g /\ r2.unread = r.unread /\ r2.pc = r.pc
  BY <1>0, <1>2 DEF ProcRec
<1>4. PICK n \in Nat : n = Len(r.got)
  BY <1>0, AppendSeq
<1>5. /\ IsList(g) /\ g # <<>> /\ DOMAIN r.got = 1..n /\ DOMAIN g = 1..(n + 1)
      /\ \A i \in 1..n : g[i] = r.got[i]
      /\ g[n + 1] = f
  BY <1>0, <1>1, <1>4, AppendSeq
<1>6. NoFrame(r) <=> n = 0
  <2>1. PICK S : r.got \in Seq(S)
    BY <1>0 DEF IsList
  <2> QED
    BY <1>4, <2>1, EmptySeq DEF NoFrame
<1>7. ASSUME NEW i \in 1..(n + 1) PROVE FrameOK(p, c, i, g[i])
  <2>1. CASE i \in 1..n
    BY <1>5, <2>1 DEF ProcOK
  <2>2. CASE i = n + 1 /\ n = 0
    <3>1. g[i] = f /\ i = 1 /\ NoFrame(r)
      BY <1>5, <1>6, <2>2
    <3> QED
      BY <3>1 DEF FrameOK
  <2>3. CASE i = n + 1 /\ n # 0
    <3>1. g[i] = f /\ i # 1 /\ ~NoFrame(r)
      BY <1>5, <1>6, <2>3
    <3> QED
      BY <3>1 DEF FrameOK
  <2> QED
    BY <2>1, <2>2, <2>3
<1>8. ~NoFrame(r2) /\ ~r2.unread /\ ~Asking(r2)
  BY <1>3, <1>5 DEF NoFrame, Asking
<1>9. ProcOK(p, c, r2)
  <2>1. DOMAIN r2.got = 1..(n + 1) /\ r2.got = g
    BY <1>3, <1>5
  <2> QED
    BY <1>0, <1>3, <1>5, <1>7, <1>8, <2>1 DEF ProcOK
<1> QED
  BY <1>1, <1>2, <1>8, <1>9 DEF Follows

\* All processes of a workload, and their next states.
CliOK(w, c) == c = [p \in DOMAIN w |-> c[p]] /\ \A p \in DOMAIN w : ProcOK(p, w[p], c[p])
FollowsAll(w, c, c2) ==
  c2 = [p \in DOMAIN w |-> c2[p]] /\ \A p \in DOMAIN w : Follows(p, w[p], c[p], c2[p])

\* Next states are states.
LEMMA FollowsOK ==
  ASSUME NEW w, NEW c, NEW c2, FollowsAll(w, c, c2)
  PROVE  CliOK(w, c2)
BY DEF FollowsAll, CliOK, Follows

\* Nobody moves.
LEMMA FollowsNone ==
  ASSUME NEW w, NEW c, CliOK(w, c)
  PROVE  FollowsAll(w, c, c)
BY DEF FollowsAll, CliOK, Follows

\* Two moves.
LEMMA FollowsTwo ==
  ASSUME NEW w, NEW c, NEW c2, NEW c3, FollowsAll(w, c, c2), FollowsAll(w, c2, c3)
  PROVE  FollowsAll(w, c, c3)
BY DEF FollowsAll, Follows

\* One process moves.
LEMMA FollowsOne ==
  ASSUME NEW w, NEW c, CliOK(w, c), NEW p \in DOMAIN w, NEW r2, Follows(p, w[p], c[p], r2),
         NEW c2, c2 = [c EXCEPT ![p] = r2]
  PROVE  FollowsAll(w, c, c2)
<1>1. c2 = [q \in DOMAIN w |-> IF q = p THEN r2 ELSE c[q]]
  BY DEF CliOK
<1>2. c2 = [q \in DOMAIN w |-> c2[q]]
  BY <1>1
<1>3. ASSUME NEW q \in DOMAIN w PROVE Follows(q, w[q], c[q], c2[q])
  <2>1. CASE q = p
    BY <1>1, <2>1
  <2>2. CASE q # p
    <3>1. c2[q] = c[q]
      BY <1>1, <2>2
    <3> QED
      BY <3>1 DEF CliOK, Follows
  <2> QED
    BY <2>1, <2>2
<1> QED
  BY <1>2, <1>3 DEF FollowsAll

-----------------------------------------------------------------------------
(* Descriptors, clients and watches. *)

WatchOK(s, r) == r.cmd.op = "watch" /\ s.prefix = r.cmd.key /\ ~NoFrame(r)

WatchesOK(c, F, S) == \A s \in S : s.fd \in Fd /\ F[s.fd] # None /\ WatchOK(s, c[F[s.fd]])

\* F gives descriptors to processes of w, C lists the ones given out, each once.
FdsOK(w, F, C) ==
  /\ F \in [Fd -> DOMAIN w \cup {None}] /\ C \in Seq(Fd)
  /\ \A i, j \in 1..Len(C) : C[i] = C[j] => i = j
  /\ \A d \in Fd : F[d] # None <=> \E i \in 1..Len(C) : C[i] = d

\* Watches follow their processes.
LEMMA WatchesFollow ==
  ASSUME NEW w, NEW c, NEW c2, CliOK(w, c), FollowsAll(w, c, c2), NEW F, NEW C, FdsOK(w, F, C),
         NEW S, WatchesOK(c, F, S)
  PROVE  WatchesOK(c2, F, S)
<1> SUFFICES ASSUME NEW s \in S PROVE s.fd \in Fd /\ F[s.fd] # None /\ WatchOK(s, c2[F[s.fd]])
  BY DEF WatchesOK
<1>1. s.fd \in Fd /\ F[s.fd] # None /\ WatchOK(s, c[F[s.fd]])
  BY DEF WatchesOK
<1>2. PICK p \in DOMAIN w : p = F[s.fd]
  BY <1>1 DEF FdsOK
<1>3. Follows(p, w[p], c[p], c2[p]) /\ ProcOK(p, w[p], c[p])
  BY DEF FollowsAll, CliOK
<1>4. c[p].cmd = w[p] /\ c2[p].cmd = w[p] /\ (~NoFrame(c[p]) => ~NoFrame(c2[p]))
  BY <1>3 DEF Follows, ProcOK
<1>5. WatchOK(s, c2[p])
  BY <1>1, <1>2, <1>4 DEF WatchOK
<1> QED
  BY <1>1, <1>2, <1>5

\* Some descriptor is free while there is room for a client.
LEMMA FreeFd ==
  ASSUME NEW w, NEW F, NEW C, FdsOK(w, F, C), Len(C) < MAX_CLIENTS
  PROVE  Min({e \in Fd : F[e] = None}) \in {e \in Fd : F[e] = None}
<1> DEFINE U == {e \in Fd : F[e] = None}
<1>1. MAX_CLIENTS \in Nat /\ Len(C) \in Nat /\ MAX_CLIENTS + 1 \in Nat
  BY DaemonAssumption, LenProperties DEF FdsOK
<1>2. U # {}
  <2> SUFFICES ASSUME U = {} PROVE FALSE
    OBVIOUS
  <2> DEFINE I == 1..Len(C)
             R == {C[i] : i \in I}
  <2>1. Fd \subseteq R
    BY DEF FdsOK
  <2>2. IsFiniteSet(I) /\ Cardinality(I) = Len(C)
    <3>1. 1 \in Int /\ Len(C) \in Int
      BY <1>1
    <3>2. IsFiniteSet(I) /\ Cardinality(I) = IF 1 > Len(C) THEN 0 ELSE Len(C) - 1 + 1
      BY <3>1, FS_Interval
    <3> QED
      BY <1>1, <3>2
  <2>3. IsFiniteSet(R) /\ Cardinality(R) <= Cardinality(I)
    <3> DEFINE f == [i \in I |-> C[i]]
    <3>1. f \in Surjection(I, R)
      BY DEF Surjection
    <3> HIDE DEF f, I, R
    <3> QED
      BY <2>2, <3>1, FS_Surjection
  <2>4. IsFiniteSet(Fd) /\ Cardinality(Fd) = MAX_CLIENTS + 1
    <3>1. PICK m \in Nat : m = MAX_CLIENTS + 1
      BY <1>1
    <3>2. Fd = 1..m /\ 1 \in Int /\ m \in Int
      BY <3>1 DEF Fd
    <3>3. IsFiniteSet(1..m) /\ Cardinality(1..m) = IF 1 > m THEN 0 ELSE m - 1 + 1
      BY <3>2, FS_Interval
    <3>4. (IF 1 > m THEN 0 ELSE m - 1 + 1) = m
      BY <1>1, <3>1
    <3> QED
      BY <3>1, <3>2, <3>3, <3>4
  <2> HIDE DEF R, I
  <2>5. Cardinality(Fd) <= Cardinality(R)
    BY <2>1, <2>3, FS_Subset
  <2>6. Cardinality(R) \in Nat
    BY <2>3, FS_CardinalityType
  <2> QED
    BY <1>1, <2>2, <2>3, <2>4, <2>5, <2>6
<1>3. U \in SUBSET (1..(MAX_CLIENTS + 1))
  BY DEF Fd
<1> HIDE DEF U
<1>4. Min(U) \in U
  BY <1>1, <1>2, <1>3, MinIsThere
<1> QED
  BY <1>4 DEF U

\* A connection is accepted on a free descriptor.
LEMMA AcceptFd ==
  ASSUME NEW w, NEW c, NEW F, NEW C, FdsOK(w, F, C), NEW S, WatchesOK(c, F, S),
         NEW d \in Fd, F[d] = None, NEW p \in DOMAIN w, p # None
  PROVE  FdsOK(w, [F EXCEPT ![d] = p], Append(C, d)) /\ WatchesOK(c, [F EXCEPT ![d] = p], S)
<1>1. PICK F2 : F2 = [F EXCEPT ![d] = p]
  OBVIOUS
<1>2. PICK C2 : C2 = Append(C, d)
  OBVIOUS
<1>3. F \in [Fd -> DOMAIN w \cup {None}] /\ C \in Seq(Fd)
  BY DEF FdsOK
<1>4. PICK n \in Nat : n = Len(C)
  BY <1>3, LenProperties
<1>5. /\ C2 \in Seq(Fd) /\ Len(C2) = n + 1 /\ C2[n + 1] = d /\ \A i \in 1..n : C2[i] = C[i]
  BY <1>2, <1>3, <1>4, AppendProperties
<1>6. /\ F2 \in [Fd -> DOMAIN w \cup {None}] /\ F2[d] = p /\ \A e \in Fd \ {d} : F2[e] = F[e]
  BY <1>1, <1>3
<1>7. \A i \in 1..n : C[i] \in Fd /\ C[i] # d
  <2>1. \A i \in 1..n : C[i] \in Fd /\ F[C[i]] # None
    BY <1>3, <1>4, ElementOfSeq DEF FdsOK
  <2> QED
    BY <2>1
<1>8. \A i, j \in 1..(n + 1) : C2[i] = C2[j] => i = j
  <2>1. \A i \in 1..(n + 1) : i \in 1..n \/ i = n + 1
    OBVIOUS
  <2>2. \A i, j \in 1..n : C[i] = C[j] => i = j
    BY <1>4 DEF FdsOK
  <2> QED
    BY <1>5, <1>7, <2>1, <2>2
<1>9. ASSUME NEW e \in Fd PROVE F2[e] # None <=> \E i \in 1..(n + 1) : C2[i] = e
  <2>1. CASE e = d
    <3>1. n + 1 \in 1..(n + 1) /\ C2[n + 1] = e
      BY <1>5, <2>1
    <3> QED
      BY <1>6, <2>1, <3>1
  <2>2. CASE e # d
    <3>1. F2[e] # None <=> \E i \in 1..n : C[i] = e
      BY <1>4, <1>6, <2>2 DEF FdsOK
    <3>2. (\E i \in 1..(n + 1) : C2[i] = e) <=> \E i \in 1..n : C[i] = e
      <4>1. \A i \in 1..(n + 1) : i \in 1..n \/ i = n + 1
        OBVIOUS
      <4>2. \A i \in 1..n : i \in 1..(n + 1)
        OBVIOUS
      <4> QED
        BY <1>5, <2>2, <4>1, <4>2
    <3> QED
      BY <3>1, <3>2
  <2> QED
    BY <2>1, <2>2
<1>10. FdsOK(w, F2, C2)
  BY <1>5, <1>6, <1>8, <1>9 DEF FdsOK
<1>11. WatchesOK(c, F2, S)
  <2> SUFFICES ASSUME NEW s \in S PROVE s.fd \in Fd /\ F2[s.fd] # None /\ WatchOK(s, c[F2[s.fd]])
    BY DEF WatchesOK
  <2>1. s.fd \in Fd /\ F[s.fd] # None /\ WatchOK(s, c[F[s.fd]])
    BY DEF WatchesOK
  <2>2. F2[s.fd] = F[s.fd]
    BY <1>6, <2>1
  <2> QED
    BY <2>1, <2>2
<1> QED
  BY <1>1, <1>2, <1>10, <1>11

\* The last of C takes place i.
Filled(C, i) == Front([C EXCEPT ![i] = Last(C)])

\* What is left of C when the last takes place i.
LEMMA FilledIs ==
  ASSUME NEW X, NEW C \in Seq(X), NEW i \in 1..Len(C)
  PROVE  /\ Filled(C, i) \in Seq(X) /\ Len(Filled(C, i)) = Len(C) - 1 /\ Len(C) - 1 \in Nat
         /\ \A j \in 1..(Len(C) - 1) : Filled(C, i)[j] = IF j = i THEN C[Len(C)] ELSE C[j]
<1>1. PICK n \in Nat : n = Len(C)
  BY LenProperties
<1>2. PICK D : D = [C EXCEPT ![i] = Last(C)]
  OBVIOUS
<1>3. C[n] \in X /\ Last(C) = C[n] /\ n - 1 \in Nat
  <2>1. n \in 1..Len(C) /\ n - 1 \in Nat
    BY <1>1
  <2>2. C[n] \in X
    BY <2>1, ElementOfSeq
  <2> QED
    BY <1>1, <2>1, <2>2 DEF Last
<1>4. D \in Seq(X) /\ Len(D) = n /\ \A j \in 1..n : D[j] = IF j = i THEN C[n] ELSE C[j]
  BY <1>1, <1>2, <1>3, ExceptSeq
<1>5. Filled(C, i) = SubSeq(D, 1, n - 1)
  BY <1>2, <1>4 DEF Filled, Front
<1>6. PICK m \in Nat : m = n - 1
  BY <1>3
<1>7. \A j \in 1..m : D[j] \in X
  <2>1. \A j \in 1..m : j \in 1..n
    BY <1>6
  <2> QED
    BY <1>4, <2>1, ElementOfSeq
<1>8. /\ SubSeq(D, 1, m) \in Seq(X) /\ Len(SubSeq(D, 1, m)) = m
      /\ \A j \in 1..m : SubSeq(D, 1, m)[j] = D[j]
  <2>1. /\ SubSeq(D, 1, m) \in Seq(X) /\ Len(SubSeq(D, 1, m)) = IF 1 <= m THEN m - 1 + 1 ELSE 0
        /\ \A j \in 1..(m - 1 + 1) : SubSeq(D, 1, m)[j] = D[1 + j - 1]
    BY <1>7, SubSeqProperties
  <2>2. m - 1 + 1 = m /\ (IF 1 <= m THEN m - 1 + 1 ELSE 0) = m /\ \A j \in 1..m : 1 + j - 1 = j
    OBVIOUS
  <2> QED
    BY <2>1, <2>2
<1>9. \A j \in 1..m : SubSeq(D, 1, m)[j] = IF j = i THEN C[n] ELSE C[j]
  <2>1. \A j \in 1..m : j \in 1..n
    BY <1>6
  <2> QED
    BY <1>4, <1>8, <2>1
<1> QED
  BY <1>1, <1>3, <1>5, <1>6, <1>8, <1>9

\* A client is dropped, its descriptor free and its watches gone.
LEMMA DropFd ==
  ASSUME NEW w, NEW c, NEW F, NEW C, FdsOK(w, F, C), NEW S, WatchesOK(c, F, S), NEW i \in 1..Len(C)
  PROVE  /\ FdsOK(w, [F EXCEPT ![C[i]] = None], Filled(C, i))
         /\ WatchesOK(c, [F EXCEPT ![C[i]] = None], {s \in S : s.fd # C[i]})
<1>1. F \in [Fd -> DOMAIN w \cup {None}] /\ C \in Seq(Fd)
  BY DEF FdsOK
<1>2. PICK n \in Nat : n = Len(C)
  BY <1>1, LenProperties
<1>3. PICK C2 : C2 = Filled(C, i)
  OBVIOUS
<1>4. PICK m \in Nat : m = n - 1
  BY <1>2
<1>5. C2 \in Seq(Fd) /\ Len(C2) = m /\ \A j \in 1..m : C2[j] = IF j = i THEN C[n] ELSE C[j]
  BY <1>1, <1>2, <1>3, <1>4, FilledIs
<1>6. PICK d \in Fd : d = C[i]
  BY <1>1, ElementOfSeq
<1>7. PICK F2 : F2 = [F EXCEPT ![d] = None]
  OBVIOUS
<1>8. F2 \in [Fd -> DOMAIN w \cup {None}] /\ F2[d] = None /\ \A e \in Fd \ {d} : F2[e] = F[e]
  BY <1>1, <1>7
<1>9. \A j, k \in 1..n : C[j] = C[k] => j = k
  BY <1>2 DEF FdsOK
<1>10. n \in 1..n /\ i \in 1..n /\ \A j \in 1..m : j \in 1..n /\ j # n
  BY <1>2, <1>4
<1>11. \A j, k \in 1..m : C2[j] = C2[k] => j = k
  BY <1>5, <1>9, <1>10
<1>12. \A e \in Fd : (\E j \in 1..m : C2[j] = e) <=> (\E j \in 1..n : C[j] = e /\ j # i)
  <2>1. ASSUME NEW e \in Fd, NEW j \in 1..m, C2[j] = e PROVE \E k \in 1..n : C[k] = e /\ k # i
    <3>1. CASE j = i
      BY <1>5, <1>10, <2>1, <3>1
    <3>2. CASE j # i
      BY <1>5, <1>10, <2>1, <3>2
    <3> QED
      BY <3>1, <3>2
  <2>2. ASSUME NEW e \in Fd, NEW k \in 1..n, C[k] = e, k # i PROVE \E j \in 1..m : C2[j] = e
    <3>1. CASE k = n
      <4>1. i \in 1..m
        BY <1>4, <1>10, <2>2, <3>1
      <4>2. C2[i] = e
        BY <1>5, <2>2, <3>1, <4>1
      <4> QED
        BY <4>1, <4>2
    <3>2. CASE k # n
      <4>1. k \in 1..m
        BY <1>4, <3>2
      <4>2. C2[k] = e
        BY <1>5, <2>2, <4>1
      <4> QED
        BY <4>1, <4>2
    <3> QED
      BY <3>1, <3>2
  <2> QED
    BY <2>1, <2>2
<1>13. ASSUME NEW e \in Fd PROVE F2[e] # None <=> \E j \in 1..m : C2[j] = e
  <2>1. CASE e = d
    <3>1. ~\E j \in 1..n : C[j] = e /\ j # i
      BY <1>6, <1>9, <1>10, <2>1
    <3> QED
      BY <1>8, <1>12, <2>1, <3>1
  <2>2. CASE e # d
    <3>1. F2[e] # None <=> \E j \in 1..n : C[j] = e
      BY <1>2, <1>8, <2>2 DEF FdsOK
    <3>2. (\E j \in 1..n : C[j] = e) <=> \E j \in 1..n : C[j] = e /\ j # i
      BY <1>6, <2>2
    <3> QED
      BY <1>12, <3>1, <3>2
  <2> QED
    BY <2>1, <2>2
<1>14. FdsOK(w, F2, C2)
  BY <1>5, <1>8, <1>11, <1>13 DEF FdsOK
<1>15. WatchesOK(c, F2, {s \in S : s.fd # d})
  BY <1>8 DEF WatchesOK
<1> QED
  BY <1>3, <1>6, <1>7, <1>14, <1>15

-----------------------------------------------------------------------------
(* The daemon's steps. *)

\* The processes, connections and watches of workload w.
DaemonOK(w) ==
  /\ CliOK(w, cli) /\ FdsOK(w, fds, clients) /\ backlog \in Seq(DOMAIN w)
  /\ WatchesOK(cli, fds, subs)

\* The names of the processes.
LEMMA ProcsAre ==
  ASSUME NEW w \in Workloads, DaemonOK(w)
  PROVE  Proc = DOMAIN w /\ None \notin DOMAIN w /\ \A p \in DOMAIN w : ProcOK(p, w[p], cli[p])
<1>1. cli = [p \in DOMAIN w |-> cli[p]] /\ \A p \in DOMAIN w : ProcOK(p, w[p], cli[p])
  BY DEF DaemonOK, CliOK
<1>2. DOMAIN cli = DOMAIN w
  BY <1>1
<1> QED
  BY <1>1, <1>2, DaemonAssumption DEF Proc

\* Only processes move, and connections wait or are turned away.
LEMMA ProcsMove ==
  ASSUME NEW w, DaemonOK(w), FollowsAll(w, cli, cli'), backlog' \in Seq(DOMAIN w),
         UNCHANGED <<fds, clients, subs>>
  PROVE  DaemonOK(w)'
<1>1. CliOK(w, cli')
  BY FollowsOK
<1>2. WatchesOK(cli', fds, subs)
  BY WatchesFollow DEF DaemonOK
<1> QED
  BY <1>1, <1>2 DEF DaemonOK

\* The steps of a process.
LEMMA ProcKeeps ==
  ASSUME NEW w \in Workloads, DaemonOK(w), NEW p \in Proc, Connect(p) \/ Write(p) \/ Exit(p) \/ Kill(p)
  PROVE  DaemonOK(w)'
<1>1. p \in DOMAIN w /\ ProcOK(p, w[p], cli[p]) /\ CliOK(w, cli) /\ backlog \in Seq(DOMAIN w)
  BY ProcsAre DEF DaemonOK
<1>2. PICK r : r = cli[p]
  OBVIOUS
<1>3. PICK r2 : Follows(p, w[p], r, r2) /\ cli' = [cli EXCEPT ![p] = r2]
  <2>1. CASE Connect(p)
    <3>1. r.pc = "idle" /\ cli' = [cli EXCEPT ![p] = [r EXCEPT !.pc = "open"]]
      BY <1>2, <2>1 DEF Connect
    <3> QED
      BY <1>1, <1>2, <3>1, AskProc
  <2>2. CASE Write(p)
    <3>1. r.pc = "open" /\ cli' = [cli EXCEPT ![p] = [r EXCEPT !.pc = "asked", !.unread = TRUE]]
      BY <1>2, <2>2 DEF Write
    <3> QED
      BY <1>1, <1>2, <3>1, AskProc
  <2>3. CASE Exit(p)
    <3>1. PICK y : cli' = [cli EXCEPT ![p] = [r EXCEPT !.pc = "closed", !.rc = y]]
      BY <1>2, <2>3 DEF Exit
    <3> QED
      BY <1>1, <1>2, <3>1, EndProc
  <2>4. CASE Kill(p)
    <3>1. cli' = [cli EXCEPT ![p] = [r EXCEPT !.pc = "closed"]]
      BY <1>2, <2>4 DEF Kill
    <3> QED
      BY <1>1, <1>2, <3>1, EndProc
  <2> QED
    BY <2>1, <2>2, <2>3, <2>4
<1>4. FollowsAll(w, cli, cli')
  BY <1>1, <1>2, <1>3, FollowsOne
<1>5. backlog' \in Seq(DOMAIN w)
  BY <1>1, AppendProperties DEF Connect, Write, Exit, Kill
<1>6. UNCHANGED <<fds, clients, subs>>
  BY DEF Connect, Write, Exit, Kill
<1> QED
  BY <1>4, <1>5, <1>6, ProcsMove

\* A process that was cut, or had ended before.
LEMMA CutProc ==
  ASSUME NEW w, NEW c, CliOK(w, c), NEW p \in DOMAIN w, NEW b \in BOOLEAN, NEW c2,
         c2 = [c EXCEPT ![p].pc = IF b THEN "cut" ELSE @]
  PROVE  FollowsAll(w, c, c2)
<1>1. PICK r : r = c[p]
  OBVIOUS
<1>2. ProcOK(p, w[p], r)
  BY <1>1 DEF CliOK
<1>3. CASE b
  <2>1. c2 = [c EXCEPT ![p] = [r EXCEPT !.pc = "cut"]]
    BY <1>1, <1>3
  <2>2. Follows(p, w[p], r, [r EXCEPT !.pc = "cut"])
    BY <1>2, EndProc
  <2> QED
    BY <1>1, <2>1, <2>2, FollowsOne
<1>4. CASE ~b
  <2>1. c2 = [c EXCEPT ![p] = [r EXCEPT !.pc = r.pc]]
    BY <1>1, <1>4
  <2>2. [r EXCEPT !.pc = r.pc] = r
    BY <1>2 DEF ProcOK, ProcRec
  <2>3. Follows(p, w[p], r, r)
    BY <1>2, AskProc
  <2>4. c2 = [c EXCEPT ![p] = r]
    BY <2>1, <2>2
  <2>5. Follows(p, w[p], c[p], r)
    BY <1>1, <2>3
  <2> QED
    BY <2>4, <2>5, FollowsOne
<1> QED
  BY <1>3, <1>4

\* What on_kv_change sends, to whom.
Notified(k) ==
  [q \in Proc |-> IF k # None /\ q \in Told(k) THEN [cli[q] EXCEPT !.got = Append(@, Event(k))] ELSE cli[q]]

\* The processes that watch are told.
LEMMA ToldProcs ==
  ASSUME NEW w \in Workloads, DaemonOK(w), NEW k
  PROVE  FollowsAll(w, cli, Notified(k))
<1>1. Proc = DOMAIN w /\ None \notin DOMAIN w /\ \A p \in DOMAIN w : ProcOK(p, w[p], cli[p])
  BY ProcsAre
<1>2. PICK t : t = Notified(k)
  OBVIOUS
<1>3. t = [q \in DOMAIN w |-> t[q]]
  BY <1>1, <1>2 DEF Notified
<1>4. ASSUME NEW q \in DOMAIN w PROVE Follows(q, w[q], cli[q], t[q])
  <2>1. PICK r : r = cli[q]
    OBVIOUS
  <2>2. ProcOK(q, w[q], r)
    BY <1>1, <2>1
  <2>3. CASE k # None /\ q \in Told(k)
    <3>1. PICK s \in subs : fds[s.fd] = q /\ Matches(s.prefix, k)
      BY <2>3 DEF Told
    <3>2. WatchOK(s, r)
      BY <2>1, <3>1 DEF DaemonOK, WatchesOK
    <3>3. w[q].op = "watch" /\ s.prefix = w[q].key /\ ~NoFrame(r)
      BY <2>2, <3>2 DEF WatchOK, ProcOK
    <3>4. ~r.unread /\ ~Asking(r)
      BY <2>2, <3>3 DEF ProcOK
    <3>5. PICK f : f = Event(k)
      OBVIOUS
    <3>6. f.kind = "event" /\ f.of = k
      BY <3>5 DEF Event
    <3>7. Matches(w[q].key, f.of)
      BY <3>1, <3>3, <3>6
    <3>8. Follows(q, w[q], r, [r EXCEPT !.got = Append(@, f)])
      BY <2>2, <3>3, <3>4, <3>6, <3>7, SentProc
    <3>9. t[q] = [r EXCEPT !.got = Append(@, f)]
      BY <1>1, <1>2, <2>1, <2>3, <3>5 DEF Notified
    <3> QED
      BY <2>1, <3>8, <3>9
  <2>4. CASE ~(k # None /\ q \in Told(k))
    <3>1. t[q] = r
      BY <1>1, <1>2, <2>1, <2>4 DEF Notified
    <3> QED
      BY <2>1, <2>2, <3>1, AskProc
  <2> QED
    BY <2>3, <2>4
<1> QED
  BY <1>2, <1>3, <1>4 DEF FollowsAll

\* One pass up to the clients.
LEMMA PassKeeps ==
  ASSUME NEW w \in Workloads, DaemonOK(w), NEW k, NEW save, NEW garbage, Pass(k, save, garbage)
  PROVE  DaemonOK(w)'
<1>1. Proc = DOMAIN w /\ None \notin DOMAIN w
  BY ProcsAre
<1>2. PICK t : t = Notified(k)
  OBVIOUS
<1>3. FollowsAll(w, cli, t) /\ CliOK(w, t)
  BY <1>2, ToldProcs, FollowsOK
<1>4. PICK d : d = Min({e \in Fd : fds[e] = None})
  OBVIOUS
<1>5. PICK p : p = Head(backlog)
  OBVIOUS
<1>6. /\ subs' = subs
      /\ \/ backlog = <<>> /\ cli' = t /\ UNCHANGED <<backlog, fds, clients>>
         \/ /\ backlog # <<>> /\ Len(clients) < MAX_CLIENTS /\ backlog' = Tail(backlog)
            /\ fds' = [fds EXCEPT ![d] = p] /\ clients' = Append(clients, d) /\ cli' = t
         \/ /\ backlog # <<>> /\ backlog' = Tail(backlog)
            /\ cli' = [t EXCEPT ![p].pc = IF Alive(p) THEN "cut" ELSE @]
            /\ UNCHANGED <<fds, clients>>
  BY <1>2, <1>4, <1>5 DEF Pass, Notified
<1>7. backlog \in Seq(DOMAIN w)
  BY DEF DaemonOK
<1>8. backlog # <<>> => p \in DOMAIN w /\ Tail(backlog) \in Seq(DOMAIN w)
  BY <1>5, <1>7, HeadTailProperties
<1>9. CASE backlog = <<>> /\ cli' = t /\ UNCHANGED <<backlog, fds, clients>>
  BY <1>3, <1>6, <1>7, <1>9, ProcsMove
<1>10. CASE /\ backlog # <<>> /\ Len(clients) < MAX_CLIENTS /\ backlog' = Tail(backlog)
            /\ fds' = [fds EXCEPT ![d] = p] /\ clients' = Append(clients, d) /\ cli' = t
  <2>1. d \in Fd /\ fds[d] = None
    <3>1. d \in {e \in Fd : fds[e] = None}
      BY <1>4, <1>10, FreeFd DEF DaemonOK
    <3> QED
      BY <3>1
  <2>2. WatchesOK(t, fds, subs) /\ FdsOK(w, fds, clients)
    BY <1>3, WatchesFollow DEF DaemonOK
  <2>3. p \in DOMAIN w /\ p # None
    BY <1>1, <1>8, <1>10
  <2>4. FdsOK(w, fds', clients') /\ WatchesOK(t, fds', subs)
    BY <1>10, <2>1, <2>2, <2>3, AcceptFd
  <2> QED
    BY <1>3, <1>6, <1>8, <1>10, <2>4 DEF DaemonOK
<1>11. CASE /\ backlog # <<>> /\ backlog' = Tail(backlog)
            /\ cli' = [t EXCEPT ![p].pc = IF Alive(p) THEN "cut" ELSE @]
            /\ UNCHANGED <<fds, clients>>
  <2>1. PICK b \in BOOLEAN : b <=> Alive(p)
    OBVIOUS
  <2>2. PICK c2 : c2 = [t EXCEPT ![p].pc = IF b THEN "cut" ELSE @]
    OBVIOUS
  <2>3. cli' = c2
    BY <1>11, <2>1, <2>2
  <2>4. FollowsAll(w, t, c2)
    BY <1>3, <1>8, <1>11, <2>2, CutProc
  <2>5. FollowsAll(w, cli, cli')
    BY <1>3, <2>3, <2>4, FollowsTwo
  <2> QED
    BY <1>6, <1>8, <1>11, <2>5, ProcsMove
<1> QED
  BY <1>6, <1>9, <1>10, <1>11

\* A client is dropped.
LEMMA DropKeeps ==
  ASSUME NEW w \in Workloads, DaemonOK(w), NEW i \in DOMAIN clients, NEW c, FollowsAll(w, cli, c),
         Drop(i, c), backlog' = backlog
  PROVE  DaemonOK(w)'
<1>1. clients \in Seq(Fd) /\ i \in 1..Len(clients) /\ FdsOK(w, fds, clients)
  BY DEF DaemonOK, FdsOK
<1>2. PICK d \in Fd : d = clients[i]
  BY <1>1, ElementOfSeq
<1>3. PICK p \in DOMAIN w : p = fds[d]
  BY <1>1, <1>2 DEF FdsOK
<1>4. PICK b \in BOOLEAN : b <=> Alive(p)
  OBVIOUS
<1>5. PICK c2 : c2 = [c EXCEPT ![p].pc = IF b THEN "cut" ELSE @]
  OBVIOUS
<1>6. /\ subs' = {s \in subs : s.fd # clients[i]} /\ fds' = [fds EXCEPT ![clients[i]] = None]
      /\ clients' = Filled(clients, i) /\ cli' = c2
  BY <1>2, <1>3, <1>4, <1>5 DEF Drop, Filled, watch_drop
<1>7. FollowsAll(w, c, c2)
  BY <1>5, CutProc, FollowsOK
<1>8. FollowsAll(w, cli, c2) /\ CliOK(w, c2)
  BY <1>7, FollowsTwo, FollowsOK
<1>9. WatchesOK(c2, fds, subs)
  BY <1>8, WatchesFollow DEF DaemonOK
<1>10. FdsOK(w, fds', clients') /\ WatchesOK(c2, fds', subs')
  <2>1. PICK F, C, S : F = fds /\ C = clients /\ S = subs
    OBVIOUS
  <2>2. FdsOK(w, F, C) /\ WatchesOK(c2, F, S) /\ i \in 1..Len(C)
    BY <1>1, <1>9, <2>1
  <2>3. /\ FdsOK(w, [F EXCEPT ![C[i]] = None], Filled(C, i))
        /\ WatchesOK(c2, [F EXCEPT ![C[i]] = None], {s \in S : s.fd # C[i]})
    BY <2>2, DropFd
  <2>4. fds' = [F EXCEPT ![C[i]] = None] /\ clients' = Filled(C, i) /\ subs' = {s \in S : s.fd # C[i]}
    BY <1>6, <2>1
  <2> QED
    BY <2>3, <2>4
<1> QED
  BY <1>6, <1>8, <1>10 DEF DaemonOK

\* A watch is added.
LEMMA AddWatch ==
  ASSUME NEW w, NEW c, NEW F, NEW S, WatchesOK(c, F, S), NEW d \in Fd, F[d] # None, NEW x,
         WatchOK([fd |-> d, prefix |-> x], c[F[d]])
  PROVE  WatchesOK(c, F, {s \in S : s.fd # d} \cup {[fd |-> d, prefix |-> x]})
BY DEF WatchesOK

\* A client is served.
LEMMA ServeKeeps ==
  ASSUME NEW w \in Workloads, DaemonOK(w), NEW i \in DOMAIN clients, serve_client(i)
  PROVE  DaemonOK(w)'
<1>1. clients \in Seq(Fd) /\ i \in 1..Len(clients) /\ FdsOK(w, fds, clients)
  BY DEF DaemonOK, FdsOK
<1>2. PICK d \in Fd : d = clients[i]
  BY <1>1, ElementOfSeq
<1>3. PICK p \in DOMAIN w : p = fds[d] /\ p # None
  BY <1>1, <1>2, DaemonAssumption DEF FdsOK
<1>4. PICK r : r = cli[p]
  OBVIOUS
<1>5. ProcOK(p, w[p], r) /\ CliOK(w, cli)
  BY <1>4 DEF DaemonOK, CliOK
<1>6. PICK r1 : r1 = [r EXCEPT !.unread = FALSE]
  OBVIOUS
<1>7. PICK read : read = [cli EXCEPT ![p] = r1]
  OBVIOUS
<1>8. Follows(p, w[p], r, r1)
  BY <1>5, <1>6, AskProc
<1>9. FollowsAll(w, cli, read)
  BY <1>4, <1>5, <1>7, <1>8, FollowsOne
<1>10. backlog' = backlog
  BY DEF serve_client
<1>11. read = [cli EXCEPT ![p].unread = FALSE]
  BY <1>4, <1>6, <1>7
<1>12. \/ Drop(i, read)
       \/ /\ r.unread
          /\ \E o : cli' = [read EXCEPT ![p].got = Append(@, Reply(p, o))]
          /\ subs' = IF r.cmd.op = "watch" THEN watch_add(d, r.cmd.key) ELSE subs
          /\ UNCHANGED <<fds, clients>>
  BY <1>2, <1>3, <1>4, <1>11 DEF serve_client
<1>13. CASE Drop(i, read)
  BY <1>9, <1>10, <1>13, DropKeeps
<1>14. CASE /\ r.unread
            /\ \E o : cli' = [read EXCEPT ![p].got = Append(@, Reply(p, o))]
            /\ subs' = IF r.cmd.op = "watch" THEN watch_add(d, r.cmd.key) ELSE subs
            /\ UNCHANGED <<fds, clients>>
  <2>1. PICK o : cli' = [read EXCEPT ![p].got = Append(@, Reply(p, o))]
    BY <1>14
  <2>2. PICK f : f = Reply(p, o)
    OBVIOUS
  <2>3. f.kind = "reply" /\ f.of = p
    BY <2>2 DEF Reply
  <2>4. PICK r2 : r2 = [r1 EXCEPT !.got = Append(@, f)]
    OBVIOUS
  <2>5. read[p] = r1 /\ CliOK(w, read)
    BY <1>5, <1>7, <1>9, FollowsOK DEF CliOK
  <2>6. cli' = [read EXCEPT ![p] = r2]
    BY <2>1, <2>2, <2>4, <2>5
  <2>7. NoFrame(r) /\ ~Asking(r) /\ ProcRec(r) /\ r.cmd = w[p]
    BY <1>5, <1>14 DEF ProcOK
  <2>8. r1.unread = FALSE /\ r1.got = r.got /\ r1.pc = r.pc /\ r1.cmd = r.cmd
    BY <1>6, <2>7 DEF ProcRec
  <2>9. NoFrame(r1) /\ ~Asking(r1) /\ ~r1.unread
    BY <2>7, <2>8 DEF NoFrame, Asking
  <2>10. ProcOK(p, w[p], r1)
    BY <1>8 DEF Follows
  <2>11. Follows(p, w[p], r1, r2)
    BY <2>3, <2>4, <2>9, <2>10, SentProc
  <2>12. FollowsAll(w, read, cli')
    BY <2>5, <2>6, <2>11, FollowsOne
  <2>13. FollowsAll(w, cli, cli') /\ CliOK(w, cli')
    BY <1>9, <2>12, FollowsTwo, FollowsOK
  <2>14. WatchesOK(cli', fds, subs)
    BY <2>13, WatchesFollow DEF DaemonOK
  <2>15. WatchesOK(cli', fds, subs')
    <3>1. CASE r.cmd.op # "watch"
      BY <1>14, <2>14, <3>1
    <3>2. CASE r.cmd.op = "watch"
      <4>1. PICK x : x = r.cmd.key
        OBVIOUS
      <4>2. subs' = watch_add(d, x)
        BY <1>14, <3>2, <4>1
      <4>3. cli'[p] = r2 /\ r2.cmd = w[p]
        <5>1. cli'[p] = r2
          BY <2>5, <2>6 DEF CliOK
        <5> QED
          BY <2>11, <5>1 DEF Follows, ProcOK
      <4>4. ~NoFrame(r2)
        <5>1. IsList(r1.got) /\ ProcRec(r1)
          BY <2>10 DEF ProcOK
        <5>2. r2.got = Append(r1.got, f)
          BY <2>4, <5>1 DEF ProcRec
        <5>3. Append(r1.got, f) # <<>>
          BY <5>1, AppendSeq
        <5> QED
          BY <5>2, <5>3 DEF NoFrame
      <4>5. WatchOK([fd |-> d, prefix |-> x], cli'[p])
        BY <2>7, <3>2, <4>1, <4>3, <4>4 DEF WatchOK
      <4>6. WatchesOK(cli', fds, {s \in subs : s.fd # d} \cup {[fd |-> d, prefix |-> x]})
        BY <1>3, <2>14, <4>5, AddWatch
      <4>7. WatchesOK(cli', fds, {s \in subs : s.fd # d})
        BY <2>14 DEF WatchesOK
      <4> QED
        BY <4>2, <4>6, <4>7 DEF watch_add, watch_drop
    <3> QED
      BY <3>1, <3>2
  <2> QED
    BY <1>10, <1>14, <2>13, <2>15 DEF DaemonOK
<1> QED
  BY <1>12, <1>13, <1>14

\* Nobody is connected.
LEMMA NoFds ==
  ASSUME NEW w
  PROVE  /\ FdsOK(w, [d \in Fd |-> None], <<>>) /\ <<>> \in Seq(DOMAIN w)
         /\ \A c : WatchesOK(c, [d \in Fd |-> None], {})
<1>1. <<>> \in Seq(Fd) /\ <<>> \in Seq(DOMAIN w) /\ 1..Len(<<>>) = {}
  BY EmptySeq
<1>2. PICK F : F = [d \in Fd |-> None]
  OBVIOUS
<1>3. F \in [Fd -> DOMAIN w \cup {None}] /\ \A d \in Fd : F[d] = None
  BY <1>2
<1>4. FdsOK(w, F, <<>>)
  BY <1>1, <1>3 DEF FdsOK
<1>5. \A c : WatchesOK(c, F, {})
  BY DEF WatchesOK
<1> QED
  BY <1>1, <1>2, <1>4, <1>5

\* The daemon ends and starts again.
LEMMA RestartKeeps ==
  ASSUME NEW w \in Workloads, DaemonOK(w), NEW orderly, Restart(orderly)
  PROVE  DaemonOK(w)'
<1>1. Proc = DOMAIN w /\ CliOK(w, cli) /\ \A p \in DOMAIN w : ProcOK(p, w[p], cli[p])
  BY ProcsAre DEF DaemonOK
<1>2. cli' = [p \in DOMAIN w |-> IF Alive(p) THEN [cli[p] EXCEPT !.pc = "cut", !.unread = FALSE]
                                 ELSE [cli[p] EXCEPT !.unread = FALSE]]
  BY <1>1 DEF Restart
<1>3. cli' = [p \in DOMAIN w |-> cli'[p]]
  BY <1>2
<1>4. ASSUME NEW p \in DOMAIN w PROVE ProcOK(p, w[p], cli'[p])
  <2>1. PICK r : r = cli[p]
    OBVIOUS
  <2>2. ProcOK(p, w[p], r)
    BY <1>1, <2>1
  <2>3. cli'[p] = [r EXCEPT !.pc = "cut", !.unread = FALSE] \/ cli'[p] = [r EXCEPT !.unread = FALSE]
    BY <1>2, <2>1
  <2>4. Follows(p, w[p], r, [r EXCEPT !.pc = "cut", !.unread = FALSE])
    BY <2>2, EndProc
  <2>5. Follows(p, w[p], r, [r EXCEPT !.unread = FALSE])
    BY <2>2, AskProc
  <2>6. Follows(p, w[p], r, cli'[p])
    BY <2>3, <2>4, <2>5
  <2> QED
    BY <2>6 DEF Follows
<1>5. CliOK(w, cli')
  BY <1>3, <1>4 DEF CliOK
<1>6. fds' = [d \in Fd |-> None] /\ clients' = <<>> /\ subs' = {} /\ backlog' = <<>>
  BY DEF Restart
<1>7. FdsOK(w, fds', clients') /\ backlog' \in Seq(DOMAIN w) /\ WatchesOK(cli', fds', subs')
  BY <1>6, NoFds
<1> QED
  BY <1>5, <1>7 DEF DaemonOK

\* The start.
LEMMA DaemonStarts ==
  ASSUME DaemonInit
  PROVE  \E w \in Workloads : DaemonOK(w)
<1>1. PICK w \in Workloads :
        cli = [p \in DOMAIN w |-> [pc |-> "idle", cmd |-> w[p], unread |-> FALSE, got |-> <<>>, rc |-> None]]
  BY DEF DaemonInit
<1>2. cli = [p \in DOMAIN w |-> cli[p]]
  BY <1>1
<1>3. ASSUME NEW p \in DOMAIN w PROVE ProcOK(p, w[p], cli[p])
  <2>1. PICK r : r = cli[p]
    OBVIOUS
  <2>2. r = [pc |-> "idle", cmd |-> w[p], unread |-> FALSE, got |-> <<>>, rc |-> None]
    BY <1>1, <2>1
  <2>3. ProcRec(r) /\ r.cmd = w[p] /\ r.unread = FALSE /\ r.got = <<>>
    BY <2>2 DEF ProcRec
  <2>4. IsList(r.got) /\ NoFrame(r) /\ DOMAIN r.got = {}
    <3>1. <<>> \in Seq({}) /\ DOMAIN <<>> = {}
      BY EmptySeq
    <3> QED
      BY <2>3, <3>1 DEF IsList, NoFrame
  <2> QED
    BY <2>1, <2>3, <2>4 DEF ProcOK
<1>4. CliOK(w, cli)
  BY <1>2, <1>3 DEF CliOK
<1>5. fds = [d \in Fd |-> None] /\ clients = <<>> /\ subs = {} /\ backlog = <<>>
  BY DEF DaemonInit
<1>6. FdsOK(w, fds, clients) /\ backlog \in Seq(DOMAIN w) /\ WatchesOK(cli, fds, subs)
  BY <1>5, NoFds
<1> QED
  BY <1>4, <1>6 DEF DaemonOK

\* Every step.
LEMMA DaemonKeeps ==
  ASSUME NEW w \in Workloads, DaemonOK(w), [DaemonNext]_daemonVars
  PROVE  DaemonOK(w)'
<1>1. CASE UNCHANGED daemonVars
  BY <1>1 DEF daemonVars, DaemonOK
<1>2. ASSUME NEW p \in Proc, Connect(p) \/ Write(p) \/ Exit(p) \/ Kill(p) PROVE DaemonOK(w)'
  BY <1>2, ProcsAre, ProcKeeps
<1>3. ASSUME NEW k \in Watched \cup {None}, NEW save, NEW garbage, Pass(k, save, garbage)
      PROVE  DaemonOK(w)'
  BY <1>3, PassKeeps
<1>4. ASSUME NEW i \in DOMAIN clients, serve_client(i) PROVE DaemonOK(w)'
  BY <1>4, ServeKeeps
<1>5. ASSUME NEW orderly, Restart(orderly) PROVE DaemonOK(w)'
  BY <1>5, RestartKeeps
<1> QED
  BY <1>1, <1>2, <1>3, <1>4, <1>5 DEF DaemonNext

\* nornd's clients: what a process reads is the reply to its own request and then, for a
\* watch, events under its prefix, though descriptors are given out again and the last
\* client takes the place of the one dropped (nornd/main.c).
THEOREM FramesOwn == DaemonSpec => []OwnFrames
<1> DEFINE Inv == \E w \in Workloads : DaemonOK(w)
<1>1. DaemonInit => Inv
  BY DaemonStarts
<1>2. Inv /\ [DaemonNext]_daemonVars => Inv'
  BY DaemonKeeps
<1>3. Inv => OwnFrames
  <2> SUFFICES ASSUME NEW w \in Workloads, DaemonOK(w), NEW p \in Proc, NEW i \in DOMAIN cli[p].got
               PROVE  FrameOK(p, cli[p].cmd, i, cli[p].got[i])
    BY DEF OwnFrames, FrameOK
  <2>1. ProcOK(p, w[p], cli[p])
    BY ProcsAre
  <2> QED
    BY <2>1 DEF ProcOK
<1> QED
  BY <1>1, <1>2, <1>3, PTL DEF DaemonSpec

-----------------------------------------------------------------------------
(* The log of publishes. *)

LogTab(L) == L = [i \in 1..PUBLOG_MAX |-> L[i]]
OneEach(L) == \A i, j \in Used(L) : L[i].target = L[j].target => i = j
Covers(L, D) == \A i \in Used(D) : \E j \in Used(L) : L[j].target = D[i].target

\* Used slots of a table.
LEMMA LogUsed ==
  ASSUME NEW L, LogTab(L)
  PROVE  /\ Used(L) = {i \in 1..PUBLOG_MAX : L[i] # None}
         /\ FreeSlots(L) = {i \in 1..PUBLOG_MAX : L[i] = None}
<1>1. DOMAIN L = 1..PUBLOG_MAX
  BY DEF LogTab
<1>2. Used(L) = {i \in 1..PUBLOG_MAX : L[i] # None}
  BY <1>1 DEF Used
<1> QED
  BY <1>1, <1>2 DEF FreeSlots

\* The entry of a target is replaced, or a free slot taken.
LEMMA LogTakes ==
  ASSUME NEW L, LogTab(L), OneEach(L), NEW e, e # None, NEW s \in 1..PUBLOG_MAX,
         \/ L[s] # None /\ L[s].target = e.target
         \/ L[s] = None /\ \A i \in Used(L) : L[i].target # e.target,
         NEW M, M = [L EXCEPT ![s] = e]
  PROVE  LogTab(M) /\ OneEach(M) /\ Covers(M, L)
<1>1. M = [i \in 1..PUBLOG_MAX |-> IF i = s THEN e ELSE L[i]]
  BY DEF LogTab
<1>2. LogTab(M)
  BY <1>1 DEF LogTab
<1>3. Used(L) = {i \in 1..PUBLOG_MAX : L[i] # None} /\ Used(M) = {i \in 1..PUBLOG_MAX : M[i] # None}
  BY <1>2, LogUsed
<1>4. M[s] = e /\ s \in Used(M) /\ \A i \in 1..PUBLOG_MAX : i # s => M[i] = L[i]
  BY <1>1, <1>3
<1>5. \A i \in Used(M) : i = s \/ i \in Used(L)
  BY <1>3, <1>4
<1>6. \A i \in Used(L) : i # s => L[i].target # e.target
  BY <1>3 DEF OneEach
<1>7. OneEach(M)
  <2> SUFFICES ASSUME NEW i \in Used(M), NEW j \in Used(M), M[i].target = M[j].target PROVE i = j
    BY DEF OneEach
  <2>1. CASE i = s /\ j = s
    BY <2>1
  <2>2. CASE i = s /\ j # s
    BY <1>3, <1>4, <1>5, <1>6, <2>2
  <2>3. CASE i # s /\ j = s
    BY <1>3, <1>4, <1>5, <1>6, <2>3
  <2>4. CASE i # s /\ j # s
    BY <1>3, <1>4, <1>5, <2>4 DEF OneEach
  <2> QED
    BY <2>1, <2>2, <2>3, <2>4
<1>8. Covers(M, L)
  <2> SUFFICES ASSUME NEW i \in Used(L) PROVE \E j \in Used(M) : M[j].target = L[i].target
    BY DEF Covers
  <2>1. CASE i = s
    BY <1>3, <1>4, <2>1
  <2>2. CASE i # s
    BY <1>3, <1>4, <2>2
  <2> QED
    BY <2>1, <2>2
<1> QED
  BY <1>2, <1>7, <1>8

\* publog_add keeps one entry for a target and forgets none.
LEMMA LogAdd ==
  ASSUME NEW L, LogTab(L), OneEach(L), NEW e, e # None
  PROVE  LogTab(publog_add(L, e)) /\ OneEach(publog_add(L, e)) /\ Covers(publog_add(L, e), L)
<1> DEFINE same == {i \in Used(L) : L[i].target = e.target}
           slots == IF same # {} THEN same ELSE FreeSlots(L)
<1>1. PUBLOG_MAX \in Nat
  BY DaemonAssumption
<1>2. /\ Used(L) = {i \in 1..PUBLOG_MAX : L[i] # None}
      /\ FreeSlots(L) = {i \in 1..PUBLOG_MAX : L[i] = None}
  BY LogUsed
<1>3. CASE slots = {}
  <2>1. publog_add(L, e) = L
    BY <1>3 DEF publog_add
  <2> QED
    BY <2>1 DEF Covers
<1>4. CASE slots # {}
  <2>1. slots \in SUBSET (1..PUBLOG_MAX)
    BY <1>2
  <2>2. publog_add(L, e) = [L EXCEPT ![Min(slots)] = e]
    BY <1>4 DEF publog_add
  <2>3. slots = same \/ (same = {} /\ slots = FreeSlots(L))
    OBVIOUS
  <2> HIDE DEF slots
  <2>4. PICK s : s = Min(slots)
    OBVIOUS
  <2>5. s \in slots
    BY <1>1, <1>4, <2>1, <2>4, MinIsThere
  <2>6. s \in 1..PUBLOG_MAX
    BY <2>1, <2>5
  <2>7. \/ L[s] # None /\ L[s].target = e.target
        \/ L[s] = None /\ \A i \in Used(L) : L[i].target # e.target
    BY <1>2, <2>3, <2>5
  <2>8. PICK M : M = [L EXCEPT ![s] = e]
    OBVIOUS
  <2>9. LogTab(M) /\ OneEach(M) /\ Covers(M, L)
    BY <2>6, <2>7, <2>8, LogTakes
  <2>10. publog_add(L, e) = M
    BY <2>2, <2>4, <2>8
  <2> QED
    BY <2>9, <2>10
<1> QED
  BY <1>3, <1>4

\* The log forgets no target, in two steps or in none.
LEMMA CoversMore ==
  /\ \A L : Covers(L, L)
  /\ \A L, M, N : Covers(L, M) /\ Covers(M, N) => Covers(L, N)
<1>1. \A L : Covers(L, L)
  BY DEF Covers
<1>2. ASSUME NEW L, NEW M, NEW N, Covers(L, M), Covers(M, N) PROVE Covers(L, N)
  BY <1>2 DEF Covers
<1> QED
  BY <1>1, <1>2

-----------------------------------------------------------------------------
(* The queue of publishes. *)

\* The publishes numbered up to m: each is in the queue Q or in s, handed over, at most
\* once.
QueueOK(Q, s, m) ==
  /\ Q \in [1..PUBQUEUE_MAX -> 1..m \cup {None}] /\ s \in Seq(1..m)
  /\ \A i, j \in 1..PUBQUEUE_MAX : Q[i] # None /\ Q[i] = Q[j] => i = j
  /\ \A i, j \in 1..Len(s) : s[i] = s[j] => i = j
  /\ \A i \in 1..PUBQUEUE_MAX, j \in 1..Len(s) : Q[i] # s[j]

\* None is lost.
NoneLost(Q, s, m) ==
  \A n \in 1..m : (\E i \in 1..PUBQUEUE_MAX : Q[i] = n) \/ (\E j \in 1..Len(s) : s[j] = n)

\* An entry leaves the queue and is handed over.
LEMMA TakeOut ==
  ASSUME NEW m \in Nat, NEW Q, NEW s, QueueOK(Q, s, m), NEW i \in 1..PUBQUEUE_MAX, Q[i] # None,
         NEW Q2, Q2 = [Q EXCEPT ![i] = None], NEW s2, s2 = Append(s, Q[i])
  PROVE  QueueOK(Q2, s2, m) /\ (NoneLost(Q, s, m) => NoneLost(Q2, s2, m))
<1>1. Q \in [1..PUBQUEUE_MAX -> 1..m \cup {None}] /\ s \in Seq(1..m) /\ None \notin 1..m
  BY DaemonAssumption DEF QueueOK
<1>2. PICK x \in 1..m : x = Q[i]
  BY <1>1
<1>3. PICK n \in Nat : n = Len(s)
  BY <1>1, LenProperties
<1>4. s2 \in Seq(1..m) /\ Len(s2) = n + 1 /\ s2[n + 1] = x /\ \A j \in 1..n : s2[j] = s[j]
  BY <1>1, <1>2, <1>3, AppendProperties
<1>5. Q2 \in [1..PUBQUEUE_MAX -> 1..m \cup {None}] /\ Q2[i] = None
      /\ \A j \in 1..PUBQUEUE_MAX : j # i => Q2[j] = Q[j]
  BY <1>1
<1>6. \A j \in 1..(n + 1) : j \in 1..n \/ j = n + 1
  OBVIOUS
<1>7. /\ \A j, k \in 1..PUBQUEUE_MAX : Q[j] # None /\ Q[j] = Q[k] => j = k
      /\ \A j, k \in 1..n : s[j] = s[k] => j = k
      /\ \A j \in 1..PUBQUEUE_MAX, k \in 1..n : Q[j] # s[k]
  BY <1>3 DEF QueueOK
<1>8. \A j, k \in 1..PUBQUEUE_MAX : Q2[j] # None /\ Q2[j] = Q2[k] => j = k
  BY <1>5, <1>7
<1>9. \A j, k \in 1..(n + 1) : s2[j] = s2[k] => j = k
  BY <1>2, <1>4, <1>6, <1>7
<1>10. \A j \in 1..PUBQUEUE_MAX, k \in 1..(n + 1) : Q2[j] # s2[k]
  <2> SUFFICES ASSUME NEW j \in 1..PUBQUEUE_MAX, NEW k \in 1..(n + 1) PROVE Q2[j] # s2[k]
    OBVIOUS
  <2>1. s2[k] \in 1..m
    BY <1>4, ElementOfSeq
  <2>2. CASE j = i
    BY <1>1, <1>5, <2>1, <2>2
  <2>3. CASE j # i /\ k \in 1..n
    BY <1>4, <1>5, <1>7, <2>3
  <2>4. CASE j # i /\ k = n + 1
    BY <1>2, <1>4, <1>5, <1>7, <2>4
  <2> QED
    BY <1>6, <2>2, <2>3, <2>4
<1>11. QueueOK(Q2, s2, m)
  BY <1>4, <1>5, <1>8, <1>9, <1>10 DEF QueueOK
<1>12. ASSUME NoneLost(Q, s, m), NEW k \in 1..m
       PROVE  (\E j \in 1..PUBQUEUE_MAX : Q2[j] = k) \/ (\E j \in 1..(n + 1) : s2[j] = k)
  <2>1. n + 1 \in 1..(n + 1) /\ \A j \in 1..n : j \in 1..(n + 1)
    OBVIOUS
  <2>2. (\E j \in 1..PUBQUEUE_MAX : Q[j] = k) \/ (\E j \in 1..n : s[j] = k)
    BY <1>3, <1>12 DEF NoneLost
  <2>3. CASE \E j \in 1..PUBQUEUE_MAX : Q[j] = k
    <3>1. PICK j \in 1..PUBQUEUE_MAX : Q[j] = k
      BY <2>3
    <3>2. CASE j = i
      BY <1>2, <1>4, <2>1, <3>1, <3>2
    <3>3. CASE j # i
      BY <1>5, <3>1, <3>3
    <3> QED
      BY <3>2, <3>3
  <2>4. CASE \E j \in 1..n : s[j] = k
    BY <1>4, <2>1, <2>4
  <2> QED
    BY <2>2, <2>3, <2>4
<1>13. NoneLost(Q, s, m) => NoneLost(Q2, s2, m)
  BY <1>4, <1>12 DEF NoneLost
<1> QED
  BY <1>11, <1>13

\* A publish is queued.
LEMMA PutIn ==
  ASSUME NEW m \in Nat, NEW Q, NEW s, QueueOK(Q, s, m), FreeSlots(Q) # {}
  PROVE  /\ QueueOK(pubqueue_add(Q, m + 1), s, m + 1)
         /\ NoneLost(Q, s, m) => NoneLost(pubqueue_add(Q, m + 1), s, m + 1)
<1>1. Q \in [1..PUBQUEUE_MAX -> 1..m \cup {None}] /\ s \in Seq(1..m) /\ PUBQUEUE_MAX \in Nat
  BY DaemonAssumption DEF QueueOK
<1>2. PICK i \in 1..PUBQUEUE_MAX : i = Min(FreeSlots(Q)) /\ Q[i] = None
  <2>1. FreeSlots(Q) \in SUBSET (1..PUBQUEUE_MAX) /\ \A i \in FreeSlots(Q) : Q[i] = None
    BY <1>1 DEF FreeSlots, Used
  <2>2. Min(FreeSlots(Q)) \in FreeSlots(Q)
    BY <1>1, <2>1, MinIsThere
  <2> QED
    BY <2>1, <2>2
<1>3. PICK x \in Nat : x = m + 1
  OBVIOUS
<1>4. PICK Q2 : Q2 = [Q EXCEPT ![i] = x]
  OBVIOUS
<1>5. pubqueue_add(Q, m + 1) = Q2
  BY <1>2, <1>3, <1>4 DEF pubqueue_add
<1>6. x \in 1..x /\ x \notin 1..m /\ 1..m \subseteq 1..x /\ x # None
      /\ \A n \in 1..x : n \in 1..m \/ n = x
  BY <1>3, DaemonAssumption
<1>7. Q2 \in [1..PUBQUEUE_MAX -> 1..x \cup {None}] /\ Q2[i] = x
      /\ \A j \in 1..PUBQUEUE_MAX : j # i => Q2[j] = Q[j]
  BY <1>1, <1>4, <1>6
<1>8. s \in Seq(1..x)
  BY <1>1, <1>6
<1>9. /\ \A j, k \in 1..PUBQUEUE_MAX : Q[j] # None /\ Q[j] = Q[k] => j = k
      /\ \A j, k \in 1..Len(s) : s[j] = s[k] => j = k
      /\ \A j \in 1..PUBQUEUE_MAX, k \in 1..Len(s) : Q[j] # s[k]
  BY DEF QueueOK
<1>10. \A j \in 1..PUBQUEUE_MAX : Q[j] # x
  BY <1>1, <1>6
<1>11. \A j \in 1..Len(s) : s[j] # x
  BY <1>1, <1>6, ElementOfSeq
<1>12. \A j, k \in 1..PUBQUEUE_MAX : Q2[j] # None /\ Q2[j] = Q2[k] => j = k
  BY <1>7, <1>9, <1>10
<1>13. \A j \in 1..PUBQUEUE_MAX, k \in 1..Len(s) : Q2[j] # s[k]
  BY <1>7, <1>9, <1>11
<1>14. QueueOK(Q2, s, x)
  BY <1>7, <1>8, <1>9, <1>12, <1>13 DEF QueueOK
<1>15. ASSUME NoneLost(Q, s, m), NEW n \in 1..x
       PROVE  (\E j \in 1..PUBQUEUE_MAX : Q2[j] = n) \/ (\E j \in 1..Len(s) : s[j] = n)
  <2>1. CASE n = x
    BY <1>7, <2>1
  <2>2. CASE n \in 1..m
    <3>1. (\E j \in 1..PUBQUEUE_MAX : Q[j] = n) \/ (\E j \in 1..Len(s) : s[j] = n)
      BY <1>15, <2>2 DEF NoneLost
    <3>2. n # None
      BY <2>2, DaemonAssumption
    <3> QED
      BY <1>2, <1>7, <3>1, <3>2
  <2> QED
    BY <1>6, <2>1, <2>2
<1>16. NoneLost(Q, s, m) => NoneLost(Q2, s, x)
  BY <1>15 DEF NoneLost
<1> QED
  BY <1>3, <1>5, <1>14, <1>16

\* The entry found is in the queue.
LEMMA NthUsed ==
  ASSUME NEW Q, NEW s, NEW m \in Nat, QueueOK(Q, s, m), NEW i, Nth(Q, i) # None
  PROVE  Nth(Q, i) \in 1..PUBQUEUE_MAX /\ Q[Nth(Q, i)] # None
<1> DEFINE S == {j \in Used(Q) : Cardinality({k \in Used(Q) : k <= j}) = i}
<1>1. Used(Q) \in SUBSET (1..PUBQUEUE_MAX) /\ \A j \in Used(Q) : Q[j] # None
  BY DEF QueueOK, Used
<1>2. S \in SUBSET (1..PUBQUEUE_MAX) /\ \A j \in S : Q[j] # None
  BY <1>1
<1>3. S # {} /\ Nth(Q, i) = Min(S)
  BY DEF Nth
<1>4. PUBQUEUE_MAX \in Nat
  BY DaemonAssumption
<1> HIDE DEF S
<1>5. Min(S) \in S
  BY <1>2, <1>3, <1>4, MinIsThere
<1> QED
  BY <1>2, <1>3, <1>5

\* One step of the drain.
DrainOne(b, i) ==
  LET j == Nth(b.tab, i)
  IN  IF j = None THEN b
      ELSE [tab |-> pubqueue_done(b.tab, i), out |-> Append(b.out, b.tab[j])]

\* What is left in the queue and what was put to the DHT since s.
DrainOK(b, Q, s, m) ==
  /\ b.out \in Seq(1..m) /\ QueueOK(b.tab, s \o b.out, m)
  /\ NoneLost(Q, s, m) => NoneLost(b.tab, s \o b.out, m)

\* A step of the drain loses nothing and sends nothing twice.
LEMMA DrainOneOK ==
  ASSUME NEW m \in Nat, NEW Q, NEW s \in Seq(1..m), NEW b, DrainOK(b, Q, s, m), NEW i
  PROVE  DrainOK(DrainOne(b, i), Q, s, m)
<1>1. PICK j : j = Nth(b.tab, i)
  OBVIOUS
<1>2. CASE j = None
  BY <1>1, <1>2 DEF DrainOne
<1>3. CASE j # None
  <2>1. PICK T, o : T = b.tab /\ o = b.out
    OBVIOUS
  <2>2. PICK u : u = s \o o
    OBVIOUS
  <2>3. o \in Seq(1..m) /\ QueueOK(T, u, m) /\ (NoneLost(Q, s, m) => NoneLost(T, u, m))
    BY <2>1, <2>2 DEF DrainOK
  <2>4. j \in 1..PUBQUEUE_MAX /\ T[j] # None
    BY <1>1, <1>3, <2>1, <2>3, NthUsed
  <2>5. PICK x \in 1..m : x = T[j]
    BY <2>3, <2>4 DEF QueueOK
  <2>6. PICK T2, u2 : T2 = [T EXCEPT ![j] = None] /\ u2 = Append(u, T[j])
    OBVIOUS
  <2>7. QueueOK(T2, u2, m) /\ (NoneLost(T, u, m) => NoneLost(T2, u2, m))
    BY <2>3, <2>4, <2>6, TakeOut
  <2>8. PICK o2 : o2 = Append(o, x)
    OBVIOUS
  <2>9. o2 \in Seq(1..m)
    BY <2>3, <2>8, AppendProperties
  <2>10. u2 = s \o o2
    <3>1. <<x>> \in Seq(1..m) /\ u \in Seq(1..m)
      BY <2>3 DEF QueueOK
    <3>2. Append(u, x) = u \o <<x>> /\ o2 = o \o <<x>>
      BY <2>3, <2>8, <3>1, AppendIsConcat
    <3>3. (s \o o) \o <<x>> = s \o (o \o <<x>>)
      <4>1. PICK y \in Seq(1..m) : y = <<x>>
        BY <3>1
      <4>2. (s \o o) \o y = s \o (o \o y)
        BY <2>3, ConcatAssociative
      <4> QED
        BY <4>1, <4>2
    <3> QED
      BY <2>2, <2>5, <2>6, <3>2, <3>3
  <2>11. DrainOne(b, i) = [tab |-> T2, out |-> o2]
    <3>1. pubqueue_done(b.tab, i) = T2
      BY <1>1, <1>3, <2>1, <2>6 DEF pubqueue_done
    <3> QED
      BY <1>1, <1>3, <2>1, <2>5, <2>8, <3>1 DEF DrainOne
  <2>12. DrainOne(b, i).tab = T2 /\ DrainOne(b, i).out = o2
    BY <2>11
  <2> QED
    BY <2>3, <2>7, <2>9, <2>10, <2>12 DEF DrainOK
<1> QED
  BY <1>2, <1>3

\* The drain is so many of its steps.
LEMMA DrainIs ==
  ASSUME NEW Q, Cardinality(Used(Q)) \in Nat
  PROVE  \E N, T :
           /\ N \in Nat /\ Drain(Q) = T[N] /\ T[0] = [tab |-> Q, out |-> <<>>]
           /\ \A j \in 1..N : T[j] = DrainOne(T[j - 1], j)
<1> DEFINE b0 == [tab |-> Q, out |-> <<>>]
           N == Cardinality(Used(Q))
           F(g) == [j \in 0..N |-> IF j = 0 THEN b0 ELSE DrainOne(g[j - 1], j)]
           S == {k \in Nat : \E g : /\ g[0] = b0
                                    /\ \A j \in 1..k : g[j] = DrainOne(g[j - 1], j)}
<1>0. N \in Nat
  OBVIOUS
<1>1. 0 \in S
  <2>1. PICK b : b = b0
    OBVIOUS
  <2>2. PICK g : g = [i \in {0} |-> b]
    OBVIOUS
  <2>3. g[0] = b /\ \A j \in 1..0 : g[j] = DrainOne(g[j - 1], j)
    BY <2>2
  <2> QED
    BY <2>1, <2>3
<1>2. ASSUME NEW k \in 0..N-1, k \in S PROVE k + 1 \in S
  <2>1. PICK g : g[0] = b0 /\ \A j \in 1..k : g[j] = DrainOne(g[j - 1], j)
    BY <1>2
  <2>2. k \in Nat /\ k + 1 \in Nat
    BY <1>0
  <2>3. PICK y : y = DrainOne(g[k], k + 1)
    OBVIOUS
  <2>4. PICK h : h = [i \in 0..(k + 1) |-> IF i <= k THEN g[i] ELSE y]
    OBVIOUS
  <2>5. h[k + 1] = y /\ \A i \in 0..k : h[i] = g[i]
    BY <2>2, <2>4
  <2>6. ASSUME NEW j \in 1..(k + 1) PROVE h[j] = DrainOne(h[j - 1], j)
    <3>1. CASE j = k + 1
      <4>1. j - 1 = k /\ k \in 0..k
        BY <2>2, <3>1
      <4> QED
        BY <2>3, <2>5, <3>1, <4>1
    <3>2. CASE j # k + 1
      <4>1. j \in 1..k /\ j - 1 \in 0..k /\ j \in 0..k
        BY <2>2, <3>2
      <4> QED
        BY <2>1, <2>5, <4>1
    <3> QED
      BY <3>1, <3>2
  <2>7. h[0] = b0
    BY <2>1, <2>2, <2>5
  <2> QED
    BY <2>2, <2>6, <2>7
<1>3. N \in S
  <2> HIDE DEF S, N
  <2>1. \A k \in 0..N : k \in S
    BY <1>0, <1>1, <1>2, UpTo
  <2> QED
    BY <1>0, <2>1
<1>4. PICK g : g[0] = b0 /\ \A j \in 1..N : g[j] = DrainOne(g[j - 1], j)
  BY <1>3
<1>5. \E x : x = F(x)
  <2> HIDE DEF N, b0
  <2>1. PICK x : x = [j \in 0..N |-> g[j]]
    OBVIOUS
  <2>2. x = F(x)
    <3>1. \A j \in 0..N : x[j] = g[j]
      BY <2>1
    <3>2. \A j \in 1..N : j - 1 \in 0..N /\ j \in 0..N
      BY <1>0
    <3>3. \A j \in 0..N : x[j] = IF j = 0 THEN b0 ELSE DrainOne(x[j - 1], j)
      BY <1>0, <1>4, <3>1, <3>2
    <3> QED
      BY <2>1, <3>1, <3>3
  <2> QED
    BY <2>2
<1> DEFINE T == CHOOSE x : x = F(x)
<1>6. Drain(Q) = T[N]
  BY DEF Drain, DrainOne
<1>7. T = F(T)
  <2> HIDE DEF F
  <2> QED
    BY <1>5
<1> HIDE DEF T
<1>8. T[0] = b0 /\ \A j \in 1..N : T[j] = DrainOne(T[j - 1], j)
  <2> HIDE DEF b0, N
  <2> QED
    BY <1>0, <1>7
<1> HIDE DEF N
<1>9. Drain(Q) = T[N] /\ T[0] = [tab |-> Q, out |-> <<>>] /\ \A j \in 1..N : T[j] = DrainOne(T[j - 1], j)
  BY <1>6, <1>8
<1> QED
  BY <1>0, <1>9

\* The drain of one pass loses nothing and sends nothing twice, whichever entries it passes over.
LEMMA DrainKeeps ==
  ASSUME NEW m \in Nat, NEW Q, NEW s, QueueOK(Q, s, m)
  PROVE  DrainOK(Drain(Q), Q, s, m)
<1>0. s \in Seq(1..m)
  BY DEF QueueOK
<1>1. Cardinality(Used(Q)) \in Nat
  <2>1. IsFiniteSet(1..PUBQUEUE_MAX)
    BY DaemonAssumption, FS_Interval
  <2>2. Used(Q) \subseteq 1..PUBQUEUE_MAX
    BY DEF QueueOK, Used
  <2> QED
    BY <2>1, <2>2, FS_Subset, FS_CardinalityType
<1>2. PICK N, T :
        /\ N \in Nat /\ Drain(Q) = T[N] /\ T[0] = [tab |-> Q, out |-> <<>>]
        /\ \A j \in 1..N : T[j] = DrainOne(T[j - 1], j)
  BY <1>1, DrainIs
<1> DEFINE S == {k \in Nat : DrainOK(T[k], Q, s, m)}
<1>3. 0 \in S
  <2>1. <<>> \in Seq(1..m) /\ s \o <<>> = s
    BY <1>0, EmptySeq, ConcatEmptySeq
  <2>2. T[0].tab = Q /\ T[0].out = <<>>
    BY <1>2
  <2>3. DrainOK(T[0], Q, s, m)
    BY <2>1, <2>2 DEF DrainOK
  <2> QED
    BY <2>3
<1>4. ASSUME NEW k \in 0..N-1, k \in S PROVE k + 1 \in S
  <2>1. k + 1 \in 1..N /\ (k + 1) - 1 = k /\ k + 1 \in Nat
    BY <1>2
  <2>2. T[k + 1] = DrainOne(T[k], k + 1)
    BY <1>2, <2>1
  <2>3. DrainOK(DrainOne(T[k], k + 1), Q, s, m)
    BY <1>0, <1>4, DrainOneOK
  <2> QED
    BY <2>1, <2>2, <2>3
<1>5. N \in S
  <2> HIDE DEF S
  <2>1. \A k \in 0..N : k \in S
    BY <1>2, <1>3, <1>4, UpTo
  <2> QED
    BY <1>2, <2>1
<1> QED
  BY <1>2, <1>5

-----------------------------------------------------------------------------
(* What the daemon publishes. *)

LogInv(L, D) == LogTab(L) /\ LogTab(D) /\ OneEach(L) /\ OneEach(D) /\ Covers(L, D)
PubInv ==
  /\ TablesOK(tables) /\ issued \in Nat /\ crashes \in Nat
  /\ LogInv(tables.publog, disk.publog)
  /\ QueueOK(tables.pubqueue, handed, issued)
  /\ crashes = 0 => NoneLost(tables.pubqueue, handed, issued)

\* The log is added to.
LEMMA LogGrows ==
  ASSUME NEW L, NEW D, LogInv(L, D), NEW e, e # None
  PROVE  LogInv(publog_add(L, e), D)
<1>1. PICK M : M = publog_add(L, e)
  OBVIOUS
<1>2. LogTab(M) /\ OneEach(M) /\ Covers(M, L)
  BY <1>1, LogAdd DEF LogInv
<1>3. Covers(M, D)
  BY <1>2, CoversMore DEF LogInv
<1> QED
  BY <1>1, <1>2, <1>3 DEF LogInv

\* An empty queue, after what was handed over.
LEMMA QueueEmpty ==
  ASSUME NEW s, NEW m \in Nat, NEW Q, QueueOK(Q, s, m)
  PROVE  QueueOK(Slots(PUBQUEUE_MAX), s, m)
<1>1. PICK E : E = Slots(PUBQUEUE_MAX)
  OBVIOUS
<1>2. E \in [1..PUBQUEUE_MAX -> 1..m \cup {None}] /\ \A i \in 1..PUBQUEUE_MAX : E[i] = None
  BY <1>1 DEF Slots
<1>3. s \in Seq(1..m) /\ (\A i, j \in 1..Len(s) : s[i] = s[j] => i = j)
  BY DEF QueueOK
<1>4. \A i \in 1..PUBQUEUE_MAX, j \in 1..Len(s) : E[i] # s[j]
  <2>1. \A j \in 1..Len(s) : s[j] \in 1..m
    BY <1>3, ElementOfSeq
  <2>2. None \notin 1..m
    BY DaemonAssumption
  <2> QED
    BY <1>2, <2>1, <2>2
<1>5. QueueOK(E, s, m)
  BY <1>2, <1>3, <1>4 DEF QueueOK
<1> QED
  BY <1>1, <1>5

\* The start.
LEMMA PubStarts ==
  ASSUME DaemonInit
  PROVE  PubInv
<1>1. /\ tables = [lstore |-> Slots(LOCALSTORE_MAX_ENTRIES), publog |-> Slots(PUBLOG_MAX),
                   pubqueue |-> Slots(PUBQUEUE_MAX), held |-> Held, keyfile |-> FALSE]
      /\ disk = [publog |-> Slots(PUBLOG_MAX), held |-> Held]
      /\ issued = 0 /\ handed = <<>> /\ crashes = 0
  BY DEF DaemonInit
<1>2. TablesOK(tables)
  BY <1>1 DEF TablesOK
<1>3. PICK L : L = Slots(PUBLOG_MAX)
  OBVIOUS
<1>4. tables.publog = L /\ disk.publog = L
  BY <1>1, <1>3
<1>5. LogTab(L) /\ \A i \in 1..PUBLOG_MAX : L[i] = None
  BY <1>3 DEF Slots, LogTab
<1>6. Used(L) = {}
  BY <1>5, LogUsed
<1>7. LogInv(L, L)
  BY <1>5, <1>6 DEF LogInv, OneEach, Covers
<1>8. PICK Q : Q = Slots(PUBQUEUE_MAX)
  OBVIOUS
<1>9. tables.pubqueue = Q
  BY <1>1, <1>8
<1>10. Q \in [1..PUBQUEUE_MAX -> 1..0 \cup {None}] /\ \A i \in 1..PUBQUEUE_MAX : Q[i] = None
  BY <1>8 DEF Slots
<1>11. <<>> \in Seq(1..0) /\ 1..Len(<<>>) = {}
  BY EmptySeq
<1>12. QueueOK(Q, <<>>, 0)
  BY <1>10, <1>11 DEF QueueOK
<1>13. NoneLost(Q, <<>>, 0)
  <2>1. 1..0 = {}
    OBVIOUS
  <2> QED
    BY <2>1 DEF NoneLost
<1> QED
  BY <1>1, <1>2, <1>4, <1>7, <1>9, <1>12, <1>13 DEF PubInv

\* A pass.
LEMMA PassPub ==
  ASSUME PubInv, NEW k, NEW save, NEW garbage, Pass(k, save, garbage)
  PROVE  PubInv'
<1>1. PICK D : D = Drain(tables.pubqueue)
  OBVIOUS
<1>2. /\ tables' = [tables EXCEPT !.pubqueue = D.tab] /\ handed' = handed \o D.out
      /\ (disk' = [publog |-> tables.publog, held |-> tables.held] \/ disk' = disk)
      /\ issued' = issued /\ crashes' = crashes
  BY <1>1 DEF Pass
<1>3. DrainOK(D, tables.pubqueue, handed, issued)
  BY <1>1, DrainKeeps DEF PubInv
<1>4. TablesOK(tables') /\ tables'.publog = tables.publog /\ tables'.pubqueue = D.tab
  BY <1>2 DEF PubInv, TablesOK
<1>5. LogInv(tables'.publog, disk'.publog)
  <2>1. disk'.publog = tables.publog \/ disk'.publog = disk.publog
    BY <1>2
  <2>2. LogInv(tables.publog, tables.publog)
    BY CoversMore DEF PubInv, LogInv
  <2> QED
    BY <1>4, <2>1, <2>2 DEF PubInv
<1>6. QueueOK(tables'.pubqueue, handed', issued')
  BY <1>2, <1>3, <1>4 DEF DrainOK
<1>7. crashes' = 0 => NoneLost(tables'.pubqueue, handed', issued')
  BY <1>2, <1>3, <1>4 DEF DrainOK, PubInv
<1> QED
  BY <1>2, <1>4, <1>5, <1>6, <1>7 DEF PubInv

\* A command is carried out.
LEMMA CommandPub ==
  ASSUME PubInv, NEW w \in Workloads, NEW p \in DOMAIN w, NEW o \in dispatch(w[p]), tables' = o.tab,
         issued' = (IF o.pub = 0 THEN issued ELSE o.pub), UNCHANGED <<disk, handed, crashes>>
  PROVE  PubInv'
<1>1. PICK c : c = w[p]
  OBVIOUS
<1>2. OutcomeOK(o, c)
  BY <1>1, DispatchDoes DEF PubInv
<1>3. ASSUME NEW x \in {Mutable(c.key), Immutable(c.val), c.key}, NEW n \in Nat
      PROVE  LogInv(publog_add(tables.publog, [target |-> x, n |-> n]), disk.publog)
  <2>1. /\ None \notin [target : {Mutable(c.key)}, n : Nat]
        /\ None \notin [target : {Immutable(c.val)}, n : Nat]
        /\ None \notin [target : {c.key}, n : Nat]
    BY <1>1, EntryAssumption
  <2>2. None \notin [target : {x}, n : Nat]
    BY <1>3, <2>1
  <2>3. PICK e : e = [target |-> x, n |-> n]
    OBVIOUS
  <2>4. e \in [target : {x}, n : Nat]
    BY <2>3
  <2>5. e # None
    BY <2>2, <2>4
  <2>6. LogInv(publog_add(tables.publog, e), disk.publog)
    BY <2>5, LogGrows DEF PubInv
  <2> QED
    BY <2>3, <2>6
<1>4. TablesOK(tables') /\ crashes' = crashes /\ handed' = handed /\ disk' = disk /\ issued \in Nat
  BY <1>2 DEF OutcomeOK, PubInv
<1>5. CASE Quiet(o)
  <2>1. tables'.publog = tables.publog /\ tables'.pubqueue = tables.pubqueue /\ issued' = issued
    BY <1>5 DEF Quiet
  <2> QED
    BY <1>4, <2>1 DEF PubInv
<1>6. CASE LogsOnly(o, c.key)
  <2>1. /\ tables'.publog = publog_add(tables.publog, [target |-> c.key, n |-> 0])
        /\ tables'.pubqueue = tables.pubqueue /\ issued' = issued
    BY <1>6 DEF LogsOnly
  <2>2. LogInv(tables'.publog, disk'.publog)
    BY <1>3, <1>4, <2>1
  <2> QED
    BY <1>4, <2>1, <2>2 DEF PubInv
<1>7. ASSUME NEW t \in {Mutable(c.key), Immutable(c.val)}, Publishes(o, t) PROVE PubInv'
  <2>1. issued + 1 \in Nat /\ issued + 1 # 0
    BY <1>4
  <2>2. /\ FreeSlots(tables.pubqueue) # {}
        /\ tables'.publog = publog_add(tables.publog, [target |-> t, n |-> issued + 1])
        /\ tables'.pubqueue = pubqueue_add(tables.pubqueue, issued + 1)
        /\ issued' = issued + 1
    BY <1>7, <2>1 DEF Publishes
  <2>3. LogInv(tables'.publog, disk'.publog)
    BY <1>3, <1>4, <2>1, <2>2
  <2>4. /\ QueueOK(pubqueue_add(tables.pubqueue, issued + 1), handed, issued + 1)
        /\ NoneLost(tables.pubqueue, handed, issued)
             => NoneLost(pubqueue_add(tables.pubqueue, issued + 1), handed, issued + 1)
    BY <1>4, <2>2, PutIn DEF PubInv
  <2>5. /\ QueueOK(tables'.pubqueue, handed', issued')
        /\ NoneLost(tables.pubqueue, handed, issued) => NoneLost(tables'.pubqueue, handed', issued')
    BY <1>4, <2>2, <2>4
  <2> QED
    BY <1>4, <2>1, <2>2, <2>3, <2>5 DEF PubInv
<1> QED
  BY <1>2, <1>5, <1>6, <1>7 DEF OutcomeOK

\* A client is served.
LEMMA ServePub ==
  ASSUME PubInv, NEW w \in Workloads, DaemonOK(w), NEW i \in DOMAIN clients, serve_client(i)
  PROVE  PubInv'
<1>1. clients \in Seq(Fd) /\ i \in 1..Len(clients) /\ FdsOK(w, fds, clients)
  BY DEF DaemonOK, FdsOK
<1>2. PICK d \in Fd : d = clients[i]
  BY <1>1, ElementOfSeq
<1>3. PICK p \in DOMAIN w : p = fds[d]
  BY <1>1, <1>2 DEF FdsOK
<1>4. cli[p].cmd = w[p]
  BY ProcsAre DEF ProcOK
<1>5. \/ UNCHANGED <<tables, issued>>
      \/ \E o \in dispatch(w[p]) : tables' = o.tab /\ issued' = (IF o.pub = 0 THEN issued ELSE o.pub)
  BY <1>2, <1>3, <1>4 DEF serve_client
<1>6. UNCHANGED <<disk, handed, crashes>>
  BY DEF serve_client
<1>7. CASE UNCHANGED <<tables, issued>>
  BY <1>6, <1>7 DEF PubInv
<1>8. ASSUME NEW o \in dispatch(w[p]), tables' = o.tab,
             issued' = (IF o.pub = 0 THEN issued ELSE o.pub)
      PROVE  PubInv'
  BY <1>6, <1>8, CommandPub
<1> QED
  BY <1>5, <1>7, <1>8

\* The daemon ends and starts again.
LEMMA RestartPub ==
  ASSUME PubInv, NEW orderly, Restart(orderly)
  PROVE  PubInv'
<1>1. PICK s : s = IF orderly THEN [publog |-> tables.publog, held |-> tables.held] ELSE disk
  OBVIOUS
<1>2. /\ crashes' = crashes + 1 /\ disk' = s /\ issued' = issued /\ handed' = handed
      /\ tables' = [tables EXCEPT !.lstore = Slots(LOCALSTORE_MAX_ENTRIES),
                                  !.pubqueue = Slots(PUBQUEUE_MAX),
                                  !.publog = s.publog, !.held = s.held]
  BY <1>1 DEF Restart
<1>3. TablesOK(tables') /\ tables'.publog = s.publog /\ tables'.pubqueue = Slots(PUBQUEUE_MAX)
  BY <1>2 DEF PubInv, TablesOK
<1>4. s.publog = tables.publog \/ s.publog = disk.publog
  BY <1>1
<1>5. LogInv(s.publog, s.publog)
  BY <1>4, CoversMore DEF PubInv, LogInv
<1>6. QueueOK(Slots(PUBQUEUE_MAX), handed, issued)
  BY QueueEmpty DEF PubInv
<1>7. crashes' \in Nat /\ crashes' # 0
  BY <1>2 DEF PubInv
<1> QED
  BY <1>2, <1>3, <1>5, <1>6, <1>7 DEF PubInv

\* Every step.
LEMMA PubKeeps ==
  ASSUME PubInv, NEW w \in Workloads, DaemonOK(w), [DaemonNext]_daemonVars
  PROVE  PubInv'
<1>1. CASE UNCHANGED <<tables, disk, issued, handed, crashes>>
  BY <1>1 DEF PubInv
<1>2. ASSUME NEW p \in Proc, Connect(p) \/ Write(p) \/ Exit(p) \/ Kill(p) PROVE PubInv'
  BY <1>1, <1>2 DEF Connect, Write, Exit, Kill
<1>3. ASSUME NEW k, NEW save, NEW garbage, Pass(k, save, garbage) PROVE PubInv'
  BY <1>3, PassPub
<1>4. ASSUME NEW i \in DOMAIN clients, serve_client(i) PROVE PubInv'
  BY <1>4, ServePub
<1>5. ASSUME NEW orderly, Restart(orderly) PROVE PubInv'
  BY <1>5, RestartPub
<1>6. CASE UNCHANGED daemonVars
  BY <1>1, <1>6 DEF daemonVars
<1> QED
  BY <1>2, <1>3, <1>4, <1>5, <1>6 DEF DaemonNext

\* Invariant of the daemon.
LEMMA DaemonHolds == DaemonSpec => [](PubInv /\ \E w \in Workloads : DaemonOK(w))
<1> DEFINE Inv == PubInv /\ \E w \in Workloads : DaemonOK(w)
<1>1. DaemonInit => Inv
  BY DaemonStarts, PubStarts
<1>2. Inv /\ [DaemonNext]_daemonVars => Inv'
  BY DaemonKeeps, PubKeeps
<1> QED
  BY <1>1, <1>2, PTL DEF DaemonSpec

\* At most, and exactly, one place.
LEMMA OnePlace ==
  ASSUME NEW S, \A i, j \in S : i = j
  PROVE  Cardinality(S) = IF S = {} THEN 0 ELSE 1
<1>1. CASE S = {}
  BY <1>1, FS_EmptySet
<1>2. CASE S # {}
  <2>1. PICK x : S = {x}
    BY <1>2
  <2> QED
    BY <1>2, <2>1, FS_Singleton
<1> QED
  BY <1>1, <1>2

\* The publishes nornd accepts (pubqueue.c): one that was accepted is handed to norn_put_* at
\* most once, and while the daemon lives it is in the queue or was handed over, though the
\* drain walks the queue while entries leave it, and whatever the size of the queue.
THEOREM DrainsOnce == DaemonSpec => []DrainedOnce
<1>1. PubInv => DrainedOnce
  <2> DEFINE queued(n) == {i \in Used(tables.pubqueue) : tables.pubqueue[i] = n}
             times(n) == {i \in DOMAIN handed : handed[i] = n}
             once(n) == /\ Cardinality(queued(n)) + Cardinality(times(n)) <= 1
                        /\ crashes = 0 => Cardinality(queued(n)) + Cardinality(times(n)) = 1
  <2> SUFFICES ASSUME PubInv, NEW n \in 1..issued PROVE once(n)
    BY DEF DrainedOnce
  <2>1. PICK Q, A, B : Q = tables.pubqueue /\ A = queued(n) /\ B = times(n)
    OBVIOUS
  <2>2. QueueOK(Q, handed, issued) /\ (crashes = 0 => NoneLost(Q, handed, issued)) /\ issued \in Nat
    BY <2>1 DEF PubInv
  <2>3. DOMAIN Q = 1..PUBQUEUE_MAX /\ DOMAIN handed = 1..Len(handed) /\ n # None
    BY <2>2, DaemonAssumption, LenProperties DEF QueueOK
  <2>4. A = {i \in 1..PUBQUEUE_MAX : Q[i] = n}
    BY <2>1, <2>3 DEF Used
  <2>5. B = {i \in 1..Len(handed) : handed[i] = n}
    BY <2>1, <2>3
  <2>6. (\A i, j \in A : i = j) /\ (\A i, j \in B : i = j)
    BY <2>2, <2>3, <2>4, <2>5 DEF QueueOK
  <2>7. A = {} \/ B = {}
    BY <2>2, <2>4, <2>5 DEF QueueOK
  <2>8. crashes = 0 => A # {} \/ B # {}
    BY <2>2, <2>4, <2>5 DEF NoneLost
  <2>9. Cardinality(A) = (IF A = {} THEN 0 ELSE 1) /\ Cardinality(B) = (IF B = {} THEN 0 ELSE 1)
    BY <2>6, OnePlace
  <2>10. /\ Cardinality(A) + Cardinality(B) <= 1
         /\ crashes = 0 => Cardinality(A) + Cardinality(B) = 1
    BY <2>7, <2>8, <2>9
  <2> QED
    BY <2>1, <2>10
<1> QED
  BY <1>1, DaemonHolds, PTL

\* The log of publishes (publog.c): one entry for a target, in memory and on disk, and no
\* target on disk that the memory lacks, across restarts and a log that fills up.
THEOREM LogIsSound == DaemonSpec => []LogSound
<1>1. PubInv => LogSound
  BY DEF PubInv, LogInv, OneEach, Covers, LogSound
<1> QED
  BY <1>1, DaemonHolds, PTL

-----------------------------------------------------------------------------
(* Served values (NornServe): what an exchange writes. *)

\* The least of three numbers.
LEMMA MinThree ==
  ASSUME NEW x \in Nat, NEW y \in Nat, NEW z \in Nat
  PROVE  /\ Min({x, y, z}) \in Nat /\ Min({x, y, z}) <= x /\ Min({x, y, z}) <= y
         /\ Min({x, y, z}) <= z /\ Min({x, y, z}) \in {x, y, z}
<1> DEFINE m == IF x <= y THEN IF x <= z THEN x ELSE z ELSE IF y <= z THEN y ELSE z
           L(v) == \A u \in {x, y, z} : v <= u
<1>1. m \in {x, y, z} /\ L(m)
  OBVIOUS
<1>2. \A v \in {x, y, z} : L(v) => v = m
  OBVIOUS
<1>3. m \in Nat /\ m <= x /\ m <= y /\ m <= z
  OBVIOUS
<1> HIDE DEF m, L
<1>4. (CHOOSE v \in {x, y, z} : L(v)) = m
  BY <1>1, <1>2
<1>5. Min({x, y, z}) = CHOOSE v \in {x, y, z} : L(v)
  BY DEF Min, L
<1> QED
  BY <1>1, <1>3, <1>4, <1>5

Req == {Line(s, r) : s \in Fetch, r \in Request \cup {NoRequest}} \cup {NoRequest}
Arg == {r.arg : r \in Req}
Item == [ok : BOOLEAN, len : Nat] \cup [of : Arg, at : Nat]

\* What request r is served with.
Served(r) ==
  \/ r.verb \in {"get", "list"} /\ r.arg \in DOMAIN Local
  \/ r.verb = "cat" /\ r.arg \in DOMAIN Object
ServedLen(r) == IF r.verb = "cat" THEN Object[r.arg] ELSE Local[r.arg]

\* T is a status and the first n bytes of the value a.
Clean(T, a, n) == Len(T) = n + 1 /\ \A j \in 1..n : T[j + 1] = [of |-> a, at |-> j]

\* T begins with an OK for len bytes.
Opens(T, len) == T # <<>> /\ T[1] = [ok |-> TRUE, len |-> len]
Refuses(T) == T # <<>> /\ T[1].ok = FALSE

\* What a fetch with request r may have been sent: nothing, a refusal, the value as far as
\* it goes, or less than the value.
SentOK(T, r) ==
  \/ T = <<>>
  \/ Refuses(T)
  \/ /\ Served(r) /\ Opens(T, ServedLen(r))
     /\ \/ \E n \in 0..ServedLen(r) : Clean(T, r.arg, n)
        \/ Len(T) <= ServedLen(r)

ExRec(c) ==
  c = [f |-> c.f, phase |-> c.phase, ok |-> c.ok, len |-> c.len, file |-> c.file, sent |-> c.sent,
       pos |-> c.pos]

\* An exchange that waits for its request, and one in its body: it has written the bytes
\* up to sent, or an object was read past what was sent.
AtStart(c, T) ==
  /\ ExRec(c) /\ c.phase = "REQ" /\ c.ok = FALSE /\ c.len = 0 /\ c.file = FALSE
  /\ c.sent = 0 /\ c.pos = 0 /\ T = <<>>
Counts(c, r) ==
  /\ c.len = ServedLen(r) /\ c.len \in Nat /\ c.sent \in Nat /\ c.pos \in Nat /\ c.sent <= c.len
  /\ c.file \in BOOLEAN /\ (c.file => r.verb = "cat")
Skipped(c) == c.file /\ c.sent < c.pos /\ c.pos <= c.len
Exact(c, T, r) == Clean(T, r.arg, c.sent) /\ (c.file => c.pos = c.sent)
InBody(c, T, r) ==
  /\ ExRec(c) /\ c.phase \in {"BODY", "DONE"} /\ Served(r) /\ Counts(c, r)
  /\ T \in Seq(Item) /\ Opens(T, c.len) /\ Len(T) = c.sent + 1
  /\ Exact(c, T, r) \/ Skipped(c)
ExOK(c, T, r) == AtStart(c, T) \/ (InBody(c, T, r) /\ c.phase = "BODY")

\* An exchange never leaves its fetch with what is not SentOK.
LEMMA ExFlow ==
  ASSUME NEW c, NEW T, NEW r, InBody(c, T, r)
  PROVE  SentOK(T, r)
<1>1. Served(r) /\ Counts(c, r) /\ Opens(T, c.len) /\ Len(T) = c.sent + 1
  BY DEF InBody
<1>2. c.len = ServedLen(r) /\ c.len \in Nat /\ c.sent \in Nat /\ c.sent <= c.len /\ c.pos \in Nat
  BY <1>1 DEF Counts
<1>3. CASE Exact(c, T, r)
  <2>1. c.sent \in 0..ServedLen(r)
    BY <1>2
  <2>2. Clean(T, r.arg, c.sent)
    BY <1>3 DEF Exact
  <2> QED
    BY <1>1, <1>2, <2>1, <2>2 DEF SentOK
<1>4. CASE Skipped(c)
  <2>1. c.sent < c.pos /\ c.pos <= c.len
    BY <1>4 DEF Skipped
  <2>2. c.sent + 1 <= c.len
    BY <1>2, <2>1
  <2>3. Len(T) <= ServedLen(r)
    BY <1>1, <1>2, <2>2
  <2> QED
    BY <1>1, <1>2, <2>3 DEF SentOK
<1> QED
  BY <1>3, <1>4 DEF InBody

\* A piece of a body.
LEMMA BodyIs ==
  ASSUME NEW a \in Arg, NEW p \in Nat, NEW n \in Nat
  PROVE  /\ Body(a, p, n) \in Seq(Item) /\ Len(Body(a, p, n)) = n
         /\ \A j \in 1..n : Body(a, p, n)[j] = [of |-> a, at |-> p + j]
<1>1. \A j \in 1..n : [of |-> a, at |-> p + j] \in Item
  BY DEF Item
<1>2. PICK b : b = Body(a, p, n)
  OBVIOUS
<1>3. b \in [1..n -> Item] /\ \A j \in 1..n : b[j] = [of |-> a, at |-> p + j]
  BY <1>1, <1>2 DEF Body
<1>4. b \in Seq(Item)
  BY <1>3
<1>5. Len(b) = n
  BY <1>3, <1>4, LenProperties
<1> QED
  BY <1>2, <1>3, <1>4, <1>5

\* A piece written behind what was written.
LEMMA BodyAppends ==
  ASSUME NEW T \in Seq(Item), NEW a \in Arg, NEW p \in Nat, NEW n \in Nat, NEW len, Opens(T, len)
  PROVE  /\ T \o Body(a, p, n) \in Seq(Item) /\ Len(T \o Body(a, p, n)) = Len(T) + n
         /\ Opens(T \o Body(a, p, n), len)
         /\ Clean(T, a, p) => Clean(T \o Body(a, p, n), a, p + n)
<1>1. PICK b : b = Body(a, p, n)
  OBVIOUS
<1>2. b \in Seq(Item) /\ Len(b) = n /\ \A j \in 1..n : b[j] = [of |-> a, at |-> p + j]
  BY <1>1, BodyIs
<1>3. PICK m \in Nat : m = Len(T)
  BY LenProperties
<1>4. PICK U : U = T \o b
  OBVIOUS
<1>5. /\ U \in Seq(Item) /\ Len(U) = m + n
      /\ \A i \in 1..(m + n) : U[i] = IF i <= m THEN T[i] ELSE b[i - m]
  BY <1>2, <1>3, <1>4, ConcatProperties
<1>6. m # 0
  BY <1>3, EmptySeq DEF Opens
<1>7. Opens(U, len)
  <2>1. 1 \in 1..(m + n) /\ 1 <= m /\ m + n # 0
    BY <1>6
  <2>2. U[1] = T[1] /\ U # <<>>
    BY <1>5, <2>1
  <2> QED
    BY <2>2 DEF Opens
<1>8. ASSUME Clean(T, a, p) PROVE Clean(U, a, p + n)
  <2>1. m = p + 1 /\ \A j \in 1..p : T[j + 1] = [of |-> a, at |-> j]
    BY <1>3, <1>8 DEF Clean
  <2>2. Len(U) = p + n + 1
    BY <1>5, <2>1
  <2>3. ASSUME NEW j \in 1..(p + n) PROVE U[j + 1] = [of |-> a, at |-> j]
    <3>0. j + 1 \in 1..(m + n)
      BY <2>1
    <3>1. CASE j <= p
      BY <1>5, <2>1, <3>0, <3>1
    <3>2. CASE j > p
      <4>1. ~(j + 1 <= m) /\ j + 1 - m = j - p /\ j - p \in 1..n /\ p + (j - p) = j
        BY <2>1, <3>2
      <4>2. PICK k : k = j + 1
        OBVIOUS
      <4>3. k \in 1..(m + n) /\ ~(k <= m) /\ k - m = j - p
        BY <3>0, <4>1, <4>2
      <4>4. U[k] = b[j - p]
        BY <1>5, <4>3
      <4> QED
        BY <1>2, <4>1, <4>2, <4>4
    <3> QED
      BY <3>1, <3>2
  <2> QED
    BY <2>2, <2>3 DEF Clean
<1> QED
  BY <1>1, <1>3, <1>4, <1>5, <1>7, <1>8

\* A working state of a pump, T what was written before.
Works(s, T, r, room, f) ==
  /\ s.out \in Seq(Item) /\ Len(s.out) <= room /\ s.c.f = f
  /\ InBody(s.c, T \o s.out, r)

\* Items written one after the other.
LEMMA Regroup == \A a, b, c \in Seq(Item) : (a \o b) \o c = a \o (b \o c)
BY ConcatAssociative

\* A piece is written: the exchange goes on with it.
LEMMA PieceWritten ==
  ASSUME NEW T \in Seq(Item), NEW r \in Req, NEW room \in Nat, NEW f, NEW s, Works(s, T, r, room, f),
         NEW p \in Nat, NEW n \in Nat, Len(s.out) + n <= room, NEW c2, ExRec(c2), c2.f = f,
         c2.phase \in {"BODY", "DONE"}, Counts(c2, r), c2.sent = s.c.sent + n,
         c2.len = s.c.len,
         \/ Skipped(c2)
         \/ Exact(s.c, T \o s.out, r) /\ p = s.c.sent /\ (c2.file => c2.pos = c2.sent),
         NEW s2, s2.c = c2, s2.out = s.out \o Body(r.arg, p, n)
  PROVE  Works(s2, T, r, room, f)
<1>1. PICK a \in Arg : a = r.arg
  BY DEF Arg
<1>2. PICK b : b = Body(a, p, n)
  OBVIOUS
<1>3. b \in Seq(Item) /\ Len(b) = n
  BY <1>2, BodyIs
<1>4. PICK o \in Seq(Item) : o = s.out
  BY DEF Works
<1>5. PICK U : U = T \o o
  OBVIOUS
<1>6. InBody(s.c, U, r)
  BY <1>4, <1>5 DEF Works
<1>7. U \in Seq(Item) /\ Opens(U, s.c.len) /\ Len(U) = s.c.sent + 1 /\ Served(r) /\ Counts(s.c, r)
  BY <1>6 DEF InBody
<1>8. PICK U2 : U2 = U \o b
  OBVIOUS
<1>9. /\ U2 \in Seq(Item) /\ Len(U2) = Len(U) + n /\ Opens(U2, s.c.len)
      /\ Clean(U, a, p) => Clean(U2, a, p + n)
  BY <1>2, <1>7, <1>8, BodyAppends
<1>10. s2.out = o \o b /\ o \o b \in Seq(Item) /\ Len(o \o b) = Len(o) + n
  <2>1. s2.out = o \o b
    BY <1>1, <1>2, <1>4
  <2>2. o \o b \in Seq(Item) /\ Len(o \o b) = Len(o) + Len(b)
    BY <1>3, ConcatProperties
  <2> QED
    BY <1>3, <2>1, <2>2
<1>11. T \o s2.out = U2
  <2>1. T \o (o \o b) = (T \o o) \o b
    <3>1. b \in Seq(Item)
      BY <1>3
    <3> QED
      BY <3>1, Regroup, Zenon
  <2> QED
    BY <1>5, <1>8, <1>10, <2>1
<1>12. s.c.sent \in Nat
  BY <1>7 DEF Counts
<1>13. Len(U2) = c2.sent + 1
  BY <1>7, <1>9, <1>12
<1>14. Exact(c2, U2, r) \/ Skipped(c2)
  <2>1. CASE Skipped(c2)
    BY <2>1
  <2>2. CASE Exact(s.c, T \o s.out, r) /\ p = s.c.sent /\ (c2.file => c2.pos = c2.sent)
    <3>1. Clean(U, a, p)
      BY <1>1, <1>4, <1>5, <2>2 DEF Exact
    <3>2. Clean(U2, a, c2.sent)
      BY <1>9, <2>2, <3>1
    <3> QED
      BY <1>1, <2>2, <3>2 DEF Exact
  <2> QED
    BY <2>1, <2>2
<1>15. InBody(c2, U2, r)
  BY <1>7, <1>9, <1>13, <1>14 DEF InBody
<1>16. Len(s2.out) <= room
  BY <1>4, <1>10
<1> QED
  BY <1>10, <1>11, <1>15, <1>16 DEF Works

\* A value in the exchange's buffer.
LEMMA InlineWorks ==
  ASSUME NEW T \in Seq(Item), NEW r \in Req, NEW room \in Nat, NEW f, NEW s, Works(s, T, r, room, f),
         s.c.phase = "BODY", ~s.c.file
  PROVE  Works(PumpInline(s, r.arg, room - Len(s.out)), T, r, room, f)
<1>1. PICK c : c = s.c
  OBVIOUS
<1>2. ExRec(c) /\ Counts(c, r) /\ c.f = f /\ InBody(c, T \o s.out, r) /\ c.phase = "BODY"
  BY <1>1 DEF Works, InBody
<1>3. c.len \in Nat /\ c.sent \in Nat /\ c.sent <= c.len /\ c.file = FALSE /\ c.pos \in Nat
      /\ c.len = ServedLen(r)
  BY <1>1, <1>2 DEF Counts
<1>4. PICK x \in Nat : x = c.len - c.sent
  BY <1>3
<1>5. PICK y \in Nat : y = room - Len(s.out) /\ Len(s.out) \in Nat
  <2>1. s.out \in Seq(Item) /\ Len(s.out) <= room
    BY DEF Works
  <2>2. Len(s.out) \in Nat
    BY <2>1, LenProperties
  <2>3. PICK k \in Nat : k = Len(s.out)
    BY <2>2
  <2>4. k <= room
    BY <2>1, <2>3
  <2>5. room - k \in Nat
    BY <2>4
  <2> QED
    BY <2>3, <2>5
<1>6. PICK n : n = Min({x, y})
  OBVIOUS
<1>7. n \in Nat /\ n <= x /\ n <= y
  BY <1>6, MinPair
<1>8. PICK c2 : c2 = [c EXCEPT !.sent = @ + n, !.phase = IF c.sent + n = c.len THEN "DONE" ELSE @]
  OBVIOUS
<1>9. /\ ExRec(c2) /\ c2.f = f /\ c2.sent = c.sent + n /\ c2.len = c.len /\ c2.file = FALSE
      /\ c2.pos = c.pos
  BY <1>2, <1>3, <1>8 DEF ExRec
<1>10. c2.phase \in {"BODY", "DONE"}
  BY <1>2, <1>8 DEF ExRec
<1>11. c.sent + n \in Nat /\ c.sent + n <= c.len /\ Len(s.out) + n <= room
  BY <1>3, <1>4, <1>5, <1>7
<1>12. Counts(c2, r)
  BY <1>3, <1>9, <1>11 DEF Counts
<1>13. Exact(c, T \o s.out, r)
  BY <1>2, <1>3 DEF InBody, Skipped
<1>14. PICK s2 : s2 = [c |-> c2, out |-> s.out \o Body(r.arg, c.sent, n)]
  OBVIOUS
<1>15. s2.c = c2 /\ s2.out = s.out \o Body(r.arg, c.sent, n)
  BY <1>14
<1>16. Works(s2, T, r, room, f)
  BY <1>1, <1>3, <1>7, <1>9, <1>10, <1>11, <1>12, <1>13, <1>15, PieceWritten
<1>17. PumpInline(s, r.arg, room - Len(s.out)) = s2
  BY <1>1, <1>4, <1>5, <1>6, <1>8, <1>14 DEF PumpInline
<1> QED
  BY <1>16, <1>17

\* A working state of the loop over an object.
InRounds(s, T, r, room, f) ==
  /\ s = [c |-> s.c, out |-> s.out, stop |-> s.stop] /\ s.c.file
  /\ Works(s, T, r, room, f)

\* One round of that loop.
LEMMA FileRoundWorks ==
  ASSUME NEW T \in Seq(Item), NEW r \in Req, NEW room \in Nat, NEW f, NEW s, InRounds(s, T, r, room, f),
         s.c.phase = "BODY"
  PROVE  InRounds(FileRound(s, r.arg, room), T, r, room, f)
<1>0. PICK c : c = s.c
  OBVIOUS
<1>1. /\ s = [c |-> c, out |-> s.out, stop |-> s.stop] /\ c.file /\ Works(s, T, r, room, f)
      /\ c.phase = "BODY"
  BY <1>0 DEF InRounds
<1>2. ExRec(c) /\ Counts(c, r) /\ c.f = f /\ InBody(c, T \o s.out, r) /\ s.out \in Seq(Item)
      /\ Len(s.out) <= room
  BY <1>0, <1>1 DEF Works, InBody
<1>3. /\ c.len \in Nat /\ c.sent \in Nat /\ c.sent <= c.len /\ c.pos \in Nat /\ c.len = ServedLen(r)
      /\ r.verb = "cat" /\ c.file = TRUE
  BY <1>1, <1>2 DEF Counts
<1>4. Object[r.arg] = c.len
  BY <1>3 DEF ServedLen
<1>5. c.pos <= c.len /\ c.sent <= c.pos
  BY <1>2, <1>3 DEF InBody, Exact, Skipped
<1>6. PICK k \in Nat : k = Len(s.out)
  BY <1>2, LenProperties
<1>7. PICK y \in Nat : y = room - k
  <2>1. k <= room
    BY <1>2, <1>6
  <2> QED
    BY <2>1
<1>8. PICK x \in Nat : x = c.len - c.sent
  BY <1>3
<1>9. PICK z \in Nat : z = c.len - c.pos
  BY <1>3, <1>5
<1>10. PICK got : got = Min({x, Chunk, z})
  OBVIOUS
<1>11. got \in Nat /\ got <= x /\ got <= z
  BY <1>10, MinThree, ServeAssumption
<1>12. PICK n : n = Min({got, y})
  OBVIOUS
<1>13. n \in Nat /\ n <= got /\ n <= y
  BY <1>11, <1>12, MinPair
<1>14. FileRound(s, r.arg, room) =
         IF got = 0 THEN [s EXCEPT !.c.phase = "DONE"]
         ELSE IF n = 0 THEN [s EXCEPT !.c.pos = @ + got, !.stop = TRUE]
         ELSE [c |-> [c EXCEPT !.sent = @ + n, !.pos = @ + n,
                               !.phase = IF c.sent + n = c.len THEN "DONE" ELSE @],
               out |-> s.out \o Body(r.arg, c.pos, n), stop |-> n < got]
  BY <1>0, <1>4, <1>6, <1>7, <1>8, <1>9, <1>10, <1>12 DEF FileRound
<1>15. CASE got = 0
  <2>1. PICK c2 : c2 = [c EXCEPT !.phase = "DONE"]
    OBVIOUS
  <2>2. PICK s2 : s2 = [c |-> c2, out |-> s.out, stop |-> s.stop]
    OBVIOUS
  <2>3. FileRound(s, r.arg, room) = s2
    BY <1>1, <1>14, <1>15, <2>1, <2>2
  <2>4. /\ ExRec(c2) /\ c2.phase = "DONE" /\ c2.f = c.f /\ c2.len = c.len /\ c2.sent = c.sent
        /\ c2.pos = c.pos /\ c2.file = c.file
    BY <1>2, <2>1 DEF ExRec
  <2>5. InBody(c2, T \o s.out, r)
    BY <1>2, <2>4 DEF InBody, Counts, Exact, Skipped
  <2>6. s2 = [c |-> s2.c, out |-> s2.out, stop |-> s2.stop] /\ s2.c = c2 /\ s2.out = s.out
    BY <2>2
  <2> QED
    BY <1>1, <1>2, <2>3, <2>4, <2>5, <2>6 DEF InRounds, Works
<1>16. CASE got # 0 /\ n = 0
  <2>1. PICK c2 : c2 = [c EXCEPT !.pos = @ + got]
    OBVIOUS
  <2>2. PICK s2 : s2 = [c |-> c2, out |-> s.out, stop |-> TRUE]
    OBVIOUS
  <2>3. FileRound(s, r.arg, room) = s2
    <3>1. PICK q : q = c.pos + got
      OBVIOUS
    <3>2. FileRound(s, r.arg, room) = [s EXCEPT !.c.pos = q, !.stop = TRUE]
      BY <1>0, <1>14, <1>16, <3>1
    <3>3. c2 = [c EXCEPT !.pos = q]
      BY <2>1, <3>1
    <3>4. PICK s1 : s1 = [s EXCEPT !.c.pos = q]
      OBVIOUS
    <3>5. s1 = [c |-> c2, out |-> s.out, stop |-> s.stop]
      BY <1>1, <3>3, <3>4
    <3>6. [s EXCEPT !.c.pos = q, !.stop = TRUE] = [s1 EXCEPT !.stop = TRUE]
      BY <3>4
    <3> QED
      BY <2>2, <3>2, <3>5, <3>6
  <2>4. /\ ExRec(c2) /\ c2.phase = "BODY" /\ c2.f = c.f /\ c2.len = c.len /\ c2.sent = c.sent
        /\ c2.pos = c.pos + got /\ c2.file = TRUE
    BY <1>1, <1>2, <1>3, <2>1 DEF ExRec
  <2>5. c.pos + got \in Nat /\ c.pos + got <= c.len /\ c.sent < c.pos + got
    BY <1>3, <1>5, <1>9, <1>11, <1>16
  <2>6. Counts(c2, r) /\ Skipped(c2)
    BY <1>3, <2>4, <2>5 DEF Counts, Skipped
  <2>7. InBody(c2, T \o s.out, r)
    BY <1>2, <2>4, <2>6 DEF InBody
  <2>8. s2 = [c |-> s2.c, out |-> s2.out, stop |-> s2.stop] /\ s2.c = c2 /\ s2.out = s.out
    BY <2>2
  <2> QED
    BY <1>2, <2>3, <2>4, <2>7, <2>8 DEF InRounds, Works
<1>17. CASE got # 0 /\ n # 0
  <2>1. PICK c2 : c2 = [c EXCEPT !.sent = @ + n, !.pos = @ + n,
                                 !.phase = IF c.sent + n = c.len THEN "DONE" ELSE @]
    OBVIOUS
  <2>3. PICK s2 : s2 = [c |-> c2, out |-> s.out \o Body(r.arg, c.pos, n), stop |-> n < got]
    OBVIOUS
  <2>4. FileRound(s, r.arg, room) = s2
    BY <1>14, <1>17, <2>1, <2>3
  <2>5. /\ ExRec(c2) /\ c2.f = c.f /\ c2.len = c.len /\ c2.sent = c.sent + n
        /\ c2.pos = c.pos + n /\ c2.file = TRUE
    BY <1>2, <1>3, <2>1 DEF ExRec
  <2>6. c2.phase \in {"BODY", "DONE"}
    BY <1>1, <1>2, <2>1 DEF ExRec
  <2>7. c.sent + n \in Nat /\ c.sent + n <= c.len /\ c.pos + n \in Nat /\ c.pos + n <= c.len
    <3>1. PICK S \in Nat, P \in Nat, L \in Nat : S = c.sent /\ P = c.pos /\ L = c.len
      BY <1>3
    <3>2. S <= L /\ P <= L /\ x = L - S /\ z = L - P /\ n <= x /\ n <= z
      BY <1>3, <1>5, <1>8, <1>9, <1>11, <1>13, <3>1
    <3>3. S + n \in Nat /\ S + n <= L /\ P + n \in Nat /\ P + n <= L
      BY <1>13, <3>2
    <3> QED
      BY <3>1, <3>3
  <2>8. Counts(c2, r)
    BY <1>3, <2>5, <2>7 DEF Counts
  <2>9. \/ Skipped(c2)
        \/ Exact(c, T \o s.out, r) /\ c.pos = c.sent /\ (c2.file => c2.pos = c2.sent)
    <3>1. CASE Exact(c, T \o s.out, r)
      <4>1. c.pos = c.sent
        BY <1>1, <3>1 DEF Exact
      <4> QED
        BY <2>5, <3>1, <4>1
    <3>2. CASE Skipped(c)
      <4>1. c.sent < c.pos
        BY <3>2 DEF Skipped
      <4>2. c.sent + n < c.pos + n
        BY <1>3, <1>13, <4>1
      <4> QED
        BY <2>5, <2>7, <4>2 DEF Skipped
    <3> QED
      BY <1>2, <3>1, <3>2 DEF InBody
  <2>10. Len(s.out) + n <= room
    BY <1>6, <1>7, <1>13
  <2>11. s2 = [c |-> s2.c, out |-> s2.out, stop |-> s2.stop] /\ s2.c = c2
         /\ s2.out = s.out \o Body(r.arg, c.pos, n)
    BY <2>3
  <2>12. Works(s2, T, r, room, f)
    <3>1. /\ c2.sent = s.c.sent + n /\ c2.len = s.c.len /\ c2.f = f /\ c.pos \in Nat
          /\ \/ Skipped(c2)
             \/ Exact(s.c, T \o s.out, r) /\ c.pos = s.c.sent /\ (c2.file => c2.pos = c2.sent)
      BY <1>0, <1>2, <1>3, <2>5, <2>9
    <3> QED
      BY <1>1, <1>13, <2>5, <2>6, <2>8, <2>10, <2>11, <3>1, PieceWritten
  <2> QED
    BY <2>4, <2>5, <2>11, <2>12 DEF InRounds
<1> QED
  BY <1>15, <1>16, <1>17

\* One turn of the loop over an object, which may have ended.
RoundOne(b, a, room) == IF b.stop \/ b.c.phase = "DONE" THEN b ELSE FileRound(b, a, room)

\* The loop is so many of its turns.
LEMMA PumpFileIs ==
  ASSUME NEW s, s.c.len \in Nat, NEW a, NEW room
  PROVE  \E N, T :
           /\ N \in Nat /\ PumpFile(s, a, room) = [c |-> T[N].c, out |-> T[N].out]
           /\ T[0] = [c |-> s.c, out |-> s.out, stop |-> FALSE]
           /\ \A j \in 1..N : T[j] = RoundOne(T[j - 1], a, room)
<1> DEFINE b0 == [c |-> s.c, out |-> s.out, stop |-> FALSE]
           N == s.c.len + 1
           F(g) == [j \in 0..N |-> IF j = 0 THEN b0 ELSE RoundOne(g[j - 1], a, room)]
           S == {k \in Nat : \E g : /\ g[0] = b0
                                    /\ \A j \in 1..k : g[j] = RoundOne(g[j - 1], a, room)}
<1>0. N \in Nat
  OBVIOUS
<1>1. 0 \in S
  <2>1. PICK b : b = b0
    OBVIOUS
  <2>2. PICK g : g = [i \in {0} |-> b]
    OBVIOUS
  <2>3. g[0] = b /\ \A j \in 1..0 : g[j] = RoundOne(g[j - 1], a, room)
    BY <2>2
  <2> QED
    BY <2>1, <2>3
<1>2. ASSUME NEW k \in 0..N-1, k \in S PROVE k + 1 \in S
  <2>1. PICK g : g[0] = b0 /\ \A j \in 1..k : g[j] = RoundOne(g[j - 1], a, room)
    BY <1>2
  <2>2. k \in Nat /\ k + 1 \in Nat
    BY <1>0
  <2>3. PICK y : y = RoundOne(g[k], a, room)
    OBVIOUS
  <2>4. PICK h : h = [i \in 0..(k + 1) |-> IF i <= k THEN g[i] ELSE y]
    OBVIOUS
  <2>5. h[k + 1] = y /\ \A i \in 0..k : h[i] = g[i]
    BY <2>2, <2>4
  <2>6. ASSUME NEW j \in 1..(k + 1) PROVE h[j] = RoundOne(h[j - 1], a, room)
    <3>1. CASE j = k + 1
      <4>1. j - 1 = k /\ k \in 0..k
        BY <2>2, <3>1
      <4> QED
        BY <2>3, <2>5, <3>1, <4>1
    <3>2. CASE j # k + 1
      <4>1. j \in 1..k /\ j - 1 \in 0..k /\ j \in 0..k
        BY <2>2, <3>2
      <4> QED
        BY <2>1, <2>5, <4>1
    <3> QED
      BY <3>1, <3>2
  <2>7. h[0] = b0
    BY <2>1, <2>2, <2>5
  <2> QED
    BY <2>2, <2>6, <2>7
<1>3. N \in S
  <2> HIDE DEF S, N
  <2>1. \A k \in 0..N : k \in S
    BY <1>0, <1>1, <1>2, UpTo
  <2> QED
    BY <1>0, <2>1
<1>4. PICK g : g[0] = b0 /\ \A j \in 1..N : g[j] = RoundOne(g[j - 1], a, room)
  BY <1>3
<1>5. \E x : x = F(x)
  <2> HIDE DEF N, b0
  <2>1. PICK x : x = [j \in 0..N |-> g[j]]
    OBVIOUS
  <2>2. x = F(x)
    <3>1. \A j \in 0..N : x[j] = g[j]
      BY <2>1
    <3>2. \A j \in 1..N : j - 1 \in 0..N /\ j \in 0..N
      BY <1>0
    <3>3. \A j \in 0..N : x[j] = IF j = 0 THEN b0 ELSE RoundOne(x[j - 1], a, room)
      BY <1>0, <1>4, <3>1, <3>2
    <3> QED
      BY <2>1, <3>1, <3>3
  <2> QED
    BY <2>2
<1> DEFINE T == CHOOSE x : x = F(x)
<1>6. PumpFile(s, a, room) = [c |-> T[N].c, out |-> T[N].out]
  BY DEF PumpFile, RoundOne
<1>7. T = F(T)
  <2> HIDE DEF F
  <2> QED
    BY <1>5
<1> HIDE DEF T
<1>8. T[0] = b0 /\ \A j \in 1..N : T[j] = RoundOne(T[j - 1], a, room)
  <2> HIDE DEF b0, N
  <2> QED
    BY <1>0, <1>7
<1> HIDE DEF N
<1>9. /\ PumpFile(s, a, room) = [c |-> T[N].c, out |-> T[N].out]
      /\ T[0] = [c |-> s.c, out |-> s.out, stop |-> FALSE]
      /\ \A j \in 1..N : T[j] = RoundOne(T[j - 1], a, room)
  BY <1>6, <1>8
<1> QED
  BY <1>0, <1>9

\* An object is written as far as there is room.
LEMMA FileWorks ==
  ASSUME NEW T \in Seq(Item), NEW r \in Req, NEW room \in Nat, NEW f, NEW s, Works(s, T, r, room, f),
         s.c.phase = "BODY", s.c.file
  PROVE  Works(PumpFile(s, r.arg, room), T, r, room, f)
<1>1. s.c.len \in Nat
  BY DEF Works, InBody, Counts
<1>2. PICK N, R :
        /\ N \in Nat /\ PumpFile(s, r.arg, room) = [c |-> R[N].c, out |-> R[N].out]
        /\ R[0] = [c |-> s.c, out |-> s.out, stop |-> FALSE]
        /\ \A j \in 1..N : R[j] = RoundOne(R[j - 1], r.arg, room)
  <2>1. PICK a : a = r.arg
    OBVIOUS
  <2>2. \E N, R :
          /\ N \in Nat /\ PumpFile(s, a, room) = [c |-> R[N].c, out |-> R[N].out]
          /\ R[0] = [c |-> s.c, out |-> s.out, stop |-> FALSE]
          /\ \A j \in 1..N : R[j] = RoundOne(R[j - 1], a, room)
    BY <1>1, PumpFileIs
  <2> QED
    BY <2>1, <2>2
<1> DEFINE S == {k \in Nat : InRounds(R[k], T, r, room, f)}
<1>3. 0 \in S
  <2>1. PICK b : b = R[0]
    OBVIOUS
  <2>2. b.c = s.c /\ b.out = s.out /\ b = [c |-> b.c, out |-> b.out, stop |-> b.stop]
    BY <1>2, <2>1
  <2>3. InRounds(b, T, r, room, f)
    BY <2>2 DEF InRounds, Works
  <2> QED
    BY <2>1, <2>3
<1>4. ASSUME NEW k \in 0..N-1, k \in S PROVE k + 1 \in S
  <2>1. k + 1 \in 1..N /\ (k + 1) - 1 = k /\ k + 1 \in Nat
    BY <1>2
  <2>2. PICK b : b = R[k]
    OBVIOUS
  <2>3. R[k + 1] = RoundOne(b, r.arg, room)
    BY <1>2, <2>1, <2>2
  <2>4. InRounds(b, T, r, room, f)
    BY <1>4, <2>2
  <2>5. b.c.phase \in {"BODY", "DONE"}
    BY <2>4 DEF InRounds, Works, InBody
  <2>6. RoundOne(b, r.arg, room) = b
        \/ (b.c.phase = "BODY" /\ RoundOne(b, r.arg, room) = FileRound(b, r.arg, room))
    BY <2>5 DEF RoundOne
  <2>7. InRounds(RoundOne(b, r.arg, room), T, r, room, f)
    BY <2>4, <2>6, FileRoundWorks
  <2> QED
    BY <2>1, <2>3, <2>7
<1>5. N \in S
  <2> HIDE DEF S
  <2>1. \A k \in 0..N : k \in S
    BY <1>2, <1>3, <1>4, UpTo
  <2> QED
    BY <1>2, <2>1
<1>6. PICK b, e : b = R[N] /\ e = PumpFile(s, r.arg, room)
  OBVIOUS
<1>7. InRounds(b, T, r, room, f)
  BY <1>5, <1>6
<1>8. e.c = b.c /\ e.out = b.out
  BY <1>2, <1>6
<1>9. Works(e, T, r, room, f)
  BY <1>7, <1>8 DEF InRounds, Works
<1> QED
  BY <1>6, <1>9

\* The result of a pump, which may be done.
Pumped(s, T, r, room, f) ==
  /\ s.out \in Seq(Item) /\ Len(s.out) <= room /\ s.c.f = f
  /\ SentOK(T \o s.out, r)
  /\ s.c.phase # "DONE" => ExOK(s.c, T \o s.out, r)

\* What works is a result.
LEMMA WorksPumped ==
  ASSUME NEW s, NEW T, NEW r, NEW room, NEW f, Works(s, T, r, room, f)
  PROVE  Pumped(s, T, r, room, f)
<1>1. InBody(s.c, T \o s.out, r)
  BY DEF Works
<1>2. SentOK(T \o s.out, r)
  BY <1>1, ExFlow
<1>3. s.c.phase # "DONE" => ExOK(s.c, T \o s.out, r)
  BY <1>1 DEF InBody, ExOK
<1> QED
  BY <1>2, <1>3 DEF Works, Pumped

\* The body phase.
LEMMA BodyPumped ==
  ASSUME NEW T \in Seq(Item), NEW r \in Req, NEW room \in Nat, NEW f, NEW s, Works(s, T, r, room, f)
  PROVE  Pumped(PumpBody(s, r.arg, room), T, r, room, f)
<1>1. PICK e : e = PumpBody(s, r.arg, room)
  OBVIOUS
<1>2. s.c.file \in BOOLEAN
  BY DEF Works, InBody, Counts
<1>3. Works(e, T, r, room, f)
  <2>1. CASE s.c.phase # "BODY"
    BY <1>1, <2>1 DEF PumpBody
  <2>2. CASE s.c.phase = "BODY" /\ s.c.file
    BY <1>1, <2>2, FileWorks DEF PumpBody
  <2>3. CASE s.c.phase = "BODY" /\ ~s.c.file
    BY <1>1, <2>3, InlineWorks DEF PumpBody
  <2> QED
    BY <1>2, <2>1, <2>2, <2>3
<1> QED
  BY <1>1, <1>3, WorksPumped

\* What nornd_served_handle makes of an exchange.
LEMMA HandleIs ==
  ASSUME NEW c, NEW r, AtStart(c, <<>>)
  PROVE  LET h == nornd_served_handle(c, r)
         IN  /\ ExRec(h) /\ h.f = c.f /\ h.sent = 0 /\ h.pos = 0
             /\ \/ h.phase = "DONE"
                \/ h.phase = "STATUS" /\ h.ok = FALSE /\ h.len = 0
                \/ /\ h.phase = "STATUS" /\ h.ok = TRUE /\ Served(r) /\ h.len = ServedLen(r)
                   /\ h.len \in Nat /\ h.file \in BOOLEAN /\ (h.file => r.verb = "cat")
<1>1. ExRec(c) /\ c.ok = FALSE /\ c.len = 0 /\ c.file = FALSE /\ c.sent = 0 /\ c.pos = 0
  BY DEF AtStart
<1>2. PICK h : h = nornd_served_handle(c, r)
  OBVIOUS
<1>3. CASE r.verb \in {"get", "list"} /\ r.arg \in DOMAIN Local
  <2>1. PICK n \in Nat : n = Local[r.arg]
    BY <1>3, ServeAssumption
  <2>2. h = [c EXCEPT !.phase = "STATUS", !.ok = TRUE, !.len = n]
    BY <1>2, <1>3, <2>1 DEF nornd_served_handle
  <2>3. /\ ExRec(h) /\ h.f = c.f /\ h.sent = 0 /\ h.pos = 0 /\ h.phase = "STATUS" /\ h.ok = TRUE
        /\ h.len = n /\ h.file = FALSE
    BY <1>1, <2>2 DEF ExRec
  <2>4. Served(r) /\ n = ServedLen(r)
    BY <1>3, <2>1 DEF Served, ServedLen
  <2> QED
    BY <1>2, <2>3, <2>4
<1>4. CASE r.verb = "cat" /\ r.arg \in DOMAIN Object
  <2>1. PICK n \in Nat : n = Object[r.arg]
    BY <1>4, ServeAssumption
  <2>2. h = [c EXCEPT !.phase = "STATUS", !.ok = TRUE, !.len = n, !.file = TRUE]
    BY <1>2, <1>4, <2>1 DEF nornd_served_handle
  <2>3. /\ ExRec(h) /\ h.f = c.f /\ h.sent = 0 /\ h.pos = 0 /\ h.phase = "STATUS" /\ h.ok = TRUE
        /\ h.len = n /\ h.file = TRUE
    BY <1>1, <2>2 DEF ExRec
  <2>4. Served(r) /\ n = ServedLen(r)
    BY <1>4, <2>1 DEF Served, ServedLen
  <2> QED
    BY <1>2, <1>4, <2>3, <2>4
<1>5. CASE ~(r.verb \in {"get", "list"} /\ r.arg \in DOMAIN Local)
           /\ ~(r.verb = "cat" /\ r.arg \in DOMAIN Object)
  <2>1. PICK x : x \in {"STATUS", "DONE"} /\ h = [c EXCEPT !.phase = x]
    BY <1>2, <1>5 DEF nornd_served_handle
  <2>2. /\ ExRec(h) /\ h.f = c.f /\ h.sent = 0 /\ h.pos = 0 /\ h.phase = x /\ h.ok = FALSE
        /\ h.len = 0
    BY <1>1, <2>1 DEF ExRec
  <2> QED
    BY <1>2, <2>1, <2>2
<1> QED
  BY <1>3, <1>4, <1>5

\* A sequence of one status.
LEMMA OneStatus ==
  ASSUME NEW b \in BOOLEAN, NEW n \in Nat, NEW o, o = Append(<<>>, [ok |-> b, len |-> n])
  PROVE  o \in Seq(Item) /\ Len(o) = 1 /\ o # <<>> /\ o[1] = [ok |-> b, len |-> n] /\ <<>> \o o = o
<1>1. PICK e \in Item : e = [ok |-> b, len |-> n]
  BY DEF Item
<1>2. <<>> \in Seq(Item) /\ Len(<<>>) = 0
  BY EmptySeq
<1>3. o \in Seq(Item) /\ Len(o) = 0 + 1 /\ o # <<>> /\ o[0 + 1] = e
  BY <1>1, <1>2, AppendProperties
<1>4. <<>> \o o = o
  BY <1>3, ConcatEmptySeq
<1> QED
  BY <1>1, <1>3, <1>4

\* One visit of an exchange.
LEMMA PumpDoes ==
  ASSUME NEW T \in Seq(Item), NEW r \in Req, NEW room \in Nat, NEW c, ExOK(c, T, r),
         T = <<>> => room # 0
  PROVE  Pumped(PumpBody(PumpStatus(PumpRequest([c |-> c, out |-> <<>>], r)), r.arg, room),
                T, r, room, c.f)
<1>1. PICK s0 : s0 = [c |-> c, out |-> <<>>]
  OBVIOUS
<1>2. s0.c = c /\ s0.out = <<>> /\ <<>> \in Seq(Item) /\ Len(<<>>) = 0 /\ T \o <<>> = T
  BY <1>1, EmptySeq, ConcatEmptySeq
<1>3. CASE InBody(c, T, r) /\ c.phase = "BODY"
  <2>1. PumpStatus(PumpRequest(s0, r)) = s0
    BY <1>2, <1>3 DEF PumpStatus, PumpRequest
  <2>2. Works(s0, T, r, room, c.f)
    BY <1>2, <1>3 DEF Works
  <2> QED
    BY <1>1, <2>1, <2>2, BodyPumped
<1>4. CASE AtStart(c, T)
  <2>1. T = <<>> /\ AtStart(c, <<>>) /\ c.phase = "REQ" /\ room # 0
    BY <1>4 DEF AtStart
  <2>2. PICK h : h = nornd_served_handle(c, r)
    OBVIOUS
  <2>3. /\ ExRec(h) /\ h.f = c.f /\ h.sent = 0 /\ h.pos = 0
        /\ \/ h.phase = "DONE"
           \/ h.phase = "STATUS" /\ h.ok = FALSE /\ h.len = 0
           \/ /\ h.phase = "STATUS" /\ h.ok = TRUE /\ Served(r) /\ h.len = ServedLen(r)
              /\ h.len \in Nat /\ h.file \in BOOLEAN /\ (h.file => r.verb = "cat")
    BY <2>1, <2>2, HandleIs
  <2>4. PICK s1 : s1 = PumpRequest(s0, r)
    OBVIOUS
  <2>5. s1.c = h /\ s1.out = <<>>
    BY <1>1, <2>1, <2>2, <2>4 DEF PumpRequest
  <2>6. CASE h.phase = "DONE"
    <3>1. PumpStatus(s1) = s1 /\ PumpBody(s1, r.arg, room) = s1
      BY <2>5, <2>6 DEF PumpStatus, PumpBody
    <3>2. SentOK(T \o s1.out, r)
      BY <1>2, <2>1, <2>5 DEF SentOK
    <3>3. Pumped(s1, T, r, room, c.f)
      BY <1>2, <2>3, <2>5, <2>6, <3>2 DEF Pumped
    <3> QED
      BY <1>1, <2>4, <3>1, <3>3
  <2>7. CASE h.phase = "STATUS"
    <3>1. PICK h2 : h2 = [h EXCEPT !.phase = IF h.ok /\ h.len > 0 THEN "BODY" ELSE "DONE"]
      OBVIOUS
    <3>2. PICK o : o = Append(<<>>, [ok |-> h.ok, len |-> h.len])
      OBVIOUS
    <3>3. PICK s2 : s2 = [c |-> h2, out |-> o]
      OBVIOUS
    <3>4. PumpStatus(s1) = s2 /\ s2.c = h2 /\ s2.out = o
      BY <2>5, <2>7, <3>1, <3>2, <3>3 DEF PumpStatus
    <3>5. /\ ExRec(h2) /\ h2.f = c.f /\ h2.sent = 0 /\ h2.pos = 0 /\ h2.ok = h.ok /\ h2.len = h.len
          /\ h2.file = h.file
      BY <2>3, <3>1 DEF ExRec
    <3>6. h2.phase = IF h.ok /\ h.len > 0 THEN "BODY" ELSE "DONE"
      BY <2>3, <3>1 DEF ExRec
    <3>7. h.ok \in BOOLEAN /\ h.len \in Nat
      <4>1. (h.ok = FALSE /\ h.len = 0) \/ (h.ok = TRUE /\ h.len \in Nat)
        BY <2>3, <2>7
      <4>2. h.ok \in BOOLEAN
        BY <4>1
      <4>3. h.len \in Nat
        BY <4>1
      <4> QED
        BY <4>2, <4>3
    <3>8. o \in Seq(Item) /\ Len(o) = 1 /\ o # <<>> /\ o[1] = [ok |-> h.ok, len |-> h.len] /\ <<>> \o o = o
      BY <3>2, <3>7, OneStatus
    <3>9. T \o s2.out = o /\ Len(s2.out) <= room
      BY <2>1, <3>4, <3>8
    <3>10. CASE h.ok = FALSE
      <4>1. h2.phase = "DONE"
        BY <3>6, <3>10
      <4>2. Refuses(o)
        BY <3>8, <3>10 DEF Refuses
      <4>3. SentOK(o, r)
        BY <4>2 DEF SentOK
      <4>4. PumpBody(s2, r.arg, room) = s2
        BY <3>4, <4>1 DEF PumpBody
      <4>5. Pumped(s2, T, r, room, c.f)
        BY <3>4, <3>5, <3>8, <3>9, <4>1, <4>3 DEF Pumped
      <4> QED
        BY <1>1, <2>4, <3>4, <4>4, <4>5
    <3>11. CASE h.ok = TRUE
      <4>1. Served(r) /\ h.len = ServedLen(r) /\ h.file \in BOOLEAN /\ (h.file => r.verb = "cat")
        BY <2>3, <2>7, <3>11
      <4>2. h2.phase \in {"BODY", "DONE"}
        BY <3>6
      <4>3. Counts(h2, r)
        BY <3>5, <3>7, <4>1 DEF Counts
      <4>4. Opens(o, h2.len)
        BY <3>5, <3>8, <3>11 DEF Opens
      <4>5. Clean(o, r.arg, 0)
        BY <3>8 DEF Clean
      <4>6. Exact(h2, o, r)
        BY <3>5, <4>5 DEF Exact
      <4>7. InBody(h2, o, r)
        BY <3>5, <3>8, <4>1, <4>2, <4>3, <4>4, <4>6 DEF InBody
      <4>8. Works(s2, T, r, room, c.f)
        BY <3>4, <3>5, <3>8, <3>9, <4>7 DEF Works
      <4> QED
        BY <1>1, <2>4, <3>4, <4>8, BodyPumped
    <3> QED
      BY <3>7, <3>10, <3>11
  <2> QED
    BY <2>3, <2>6, <2>7
<1> QED
  BY <1>3, <1>4 DEF ExOK

-----------------------------------------------------------------------------
(* Served values: the fetches and the table of exchanges. *)

\* rx was read and d is to be read of what was written, T; a buffer that is full lets the
\* rest go.
Reads(rx, d, T) == T = rx \o d \/ (Len(rx) >= RX /\ T # <<>>)

SessRec(x) == x = [pc |-> x.pc, req |-> x.req, rx |-> x.rx]
Untouched(x, d) == x.rx = <<>> /\ d = <<>>

\* A session x, its stream d, and whether its request came in.
StreamOK(x, d, b) ==
  /\ SessRec(x) /\ x.req \in Req /\ x.rx \in Seq(Item) /\ d \in Seq(Item) /\ Len(d) <= Room
  /\ b \in BOOLEAN /\ (x.pc # "open" => ~b) /\ (~b => Untouched(x, d))
LineOK(f, x, d, T, C) ==
  /\ T \in Seq(Item) /\ Reads(x.rx, d, T) /\ SentOK(T, x.req)
  /\ \A i \in 1..Len(C) : C[i].f = f => ExOK(C[i], T, x.req)
HasLine(f, x, d, C) == \E T : LineOK(f, x, d, T, C)

\* The table C of the peer p.
TableIs(C, A, p) ==
  /\ IsList(C) /\ \A i \in 1..Len(C) : C[i].f \in Fetch /\ A[C[i].f] /\ Peer[C[i].f] = p
  /\ \A i, j \in 1..Len(C) : C[i].f = C[j].f => i = j
LinesInv ==
  /\ sess = [f \in Fetch |-> sess[f]] /\ down = [f \in Fetch |-> down[f]]
  /\ arrived = [f \in Fetch |-> arrived[f]] /\ conns = [p \in Peers |-> conns[p]]
  /\ \A p \in Peers : TableIs(conns[p], arrived, p)
  /\ \A f \in Fetch : StreamOK(sess[f], down[f], arrived[f]) /\ HasLine(f, sess[f], down[f], conns[Peer[f]])

\* The peer of a session.
LEMMA PeerIs == \A f \in Fetch : Peer[f] \in Peers
BY DEF Peers

\* One stream moves.
LEMMA StreamMoves ==
  ASSUME LinesInv, NEW f \in Fetch, NEW x2, NEW d2, StreamOK(x2, d2, arrived[f]),
         HasLine(f, x2, d2, conns[Peer[f]]), sess' = [sess EXCEPT ![f] = x2],
         down' = [down EXCEPT ![f] = d2], UNCHANGED <<arrived, conns>>
  PROVE  LinesInv'
<1>1. /\ sess' = [g \in Fetch |-> IF g = f THEN x2 ELSE sess[g]]
      /\ down' = [g \in Fetch |-> IF g = f THEN d2 ELSE down[g]]
  BY DEF LinesInv
<1>2. sess' = [g \in Fetch |-> sess'[g]] /\ down' = [g \in Fetch |-> down'[g]]
  BY <1>1
<1>3. ASSUME NEW g \in Fetch
      PROVE  StreamOK(sess'[g], down'[g], arrived[g]) /\ HasLine(g, sess'[g], down'[g], conns[Peer[g]])
  <2>1. CASE g = f
    <3>1. sess'[g] = x2 /\ down'[g] = d2
      BY <1>1, <2>1
    <3> QED
      BY <2>1, <3>1
  <2>2. CASE g # f
    <3>1. sess'[g] = sess[g] /\ down'[g] = down[g]
      BY <1>1, <2>2
    <3> QED
      BY <3>1 DEF LinesInv
  <2> QED
    BY <2>1, <2>2
<1> QED
  BY <1>2, <1>3 DEF LinesInv

\* A stream that nothing was written to.
LEMMA NoLine ==
  ASSUME LinesInv, NEW f \in Fetch, ~arrived[f], NEW x, x.rx = <<>>
  PROVE  down[f] = <<>> /\ LineOK(f, x, down[f], <<>>, conns[Peer[f]])
<1>1. down[f] = <<>>
  BY DEF LinesInv, StreamOK, Untouched
<1>2. <<>> \in Seq(Item) /\ <<>> \o <<>> = <<>>
  BY EmptySeq, ConcatEmptySeq
<1>3. \A i \in 1..Len(conns[Peer[f]]) : conns[Peer[f]][i].f # f
  BY PeerIs DEF LinesInv, TableIs
<1> QED
  BY <1>1, <1>2, <1>3 DEF LineOK, Reads, SentOK

\* The session x in state y with the line r.
SessionAs(x, y, r) == [pc |-> y, req |-> r, rx |-> x.rx]

\* What the steps of a session make of it.
LEMMA SessionSteps ==
  ASSUME LinesInv, NEW f \in Fetch, NEW y, NEW r
  PROVE  /\ [sess EXCEPT ![f].pc = y] = [sess EXCEPT ![f] = SessionAs(sess[f], y, sess[f].req)]
         /\ Opened(f, r) = [sess EXCEPT ![f] = SessionAs(sess[f], "open", Line(f, r))]
<1>1. PICK x : x = sess[f]
  OBVIOUS
<1>2. SessRec(x) /\ sess = [g \in Fetch |-> sess[g]]
  BY <1>1 DEF LinesInv, StreamOK
<1>3. PICK l : l = Line(f, r)
  OBVIOUS
<1>4. [x EXCEPT !.pc = y] = SessionAs(x, y, x.req)
  BY <1>2 DEF SessRec, SessionAs
<1>5. [x EXCEPT !.pc = "open", !.req = l] = SessionAs(x, "open", l)
  <2>1. PICK x1 : x1 = [pc |-> "open", req |-> x.req, rx |-> x.rx]
    OBVIOUS
  <2>2. [x EXCEPT !.pc = "open"] = x1
    BY <1>2, <2>1 DEF SessRec
  <2>3. [x1 EXCEPT !.req = l] = [pc |-> "open", req |-> l, rx |-> x.rx]
    BY <2>1
  <2>4. [[x EXCEPT !.pc = "open"] EXCEPT !.req = l] = SessionAs(x, "open", l)
    BY <2>2, <2>3 DEF SessionAs
  <2> QED
    BY <2>4
<1>6. [sess EXCEPT ![f].pc = y] = [sess EXCEPT ![f] = SessionAs(x, y, x.req)]
  BY <1>1, <1>2, <1>4
<1>7. [sess EXCEPT ![f].pc = "open", ![f].req = l] = [sess EXCEPT ![f] = SessionAs(x, "open", l)]
  BY <1>1, <1>2, <1>5
<1> QED
  BY <1>1, <1>3, <1>6, <1>7 DEF Opened

\* A session that is not open yet goes on: it is dialled, opened with a line, or left.
LEMMA SessionGoesOn ==
  ASSUME LinesInv, NEW f \in Fetch, NEW y, NEW r \in Req, sess[f].pc # "open",
         sess' = [sess EXCEPT ![f] = SessionAs(sess[f], y, r)], UNCHANGED <<down, arrived, conns>>
  PROVE  LinesInv'
<1>1. PICK x : x = sess[f]
  OBVIOUS
<1>2. StreamOK(x, down[f], arrived[f]) /\ x.pc # "open"
  BY <1>1 DEF LinesInv
<1>3. PICK x2 : x2 = SessionAs(x, y, r)
  OBVIOUS
<1>4. SessRec(x) /\ ~arrived[f] /\ x.rx = <<>>
  BY <1>2 DEF StreamOK, Untouched
<1>5. SessRec(x2) /\ x2.pc = y /\ x2.req = r /\ x2.rx = x.rx
  BY <1>3 DEF SessRec, SessionAs
<1>6. StreamOK(x2, down[f], arrived[f])
  BY <1>2, <1>4, <1>5 DEF StreamOK, Untouched
<1>7. HasLine(f, x2, down[f], conns[Peer[f]])
  BY <1>4, <1>5, NoLine DEF HasLine
<1>8. sess' = [sess EXCEPT ![f] = x2] /\ down' = [down EXCEPT ![f] = down[f]]
  BY <1>1, <1>3 DEF LinesInv
<1> QED
  BY <1>6, <1>7, <1>8, StreamMoves

\* A stream is announced, and gets an exchange when there is room.
LEMMA AcceptsStream ==
  ASSUME LinesInv, NEW f \in Fetch, on_served_accept(f)
  PROVE  LinesInv'
<1>0. PICK p \in Peers : p = Peer[f]
  BY PeerIs
<1>1. ~arrived[f] /\ arrived' = [arrived EXCEPT ![f] = TRUE] /\ UNCHANGED <<sess, down>>
      /\ sess[f].pc = "open"
  BY DEF on_served_accept
<1>2. PICK e : e = [f |-> f, phase |-> "REQ", ok |-> FALSE, len |-> 0, file |-> FALSE, sent |-> 0, pos |-> 0]
  OBVIOUS
<1>b. PICK C, C2 : C = conns[p] /\ C2 = conns'[p]
  OBVIOUS
<1>c. /\ conns' = [q \in Peers |-> conns'[q]] /\ (C2 = C \/ C2 = Append(C, e))
       /\ \A q \in Peers : q # p => conns'[q] = conns[q]
  <2>1. conns = [q \in Peers |-> conns[q]]
    BY DEF LinesInv
  <2>2. conns' = conns \/ conns' = [conns EXCEPT ![p] = Append(C, e)]
    BY <1>0, <1>2, <1>b DEF on_served_accept
  <2> QED
    BY <1>b, <2>1, <2>2
<1>4. e.f = f /\ AtStart(e, <<>>)
  BY <1>2 DEF AtStart, ExRec
<1>5. arrived' = [g \in Fetch |-> arrived'[g]] /\ arrived'[f] = TRUE
      /\ \A g \in Fetch : g # f => arrived'[g] = arrived[g]
  BY <1>1 DEF LinesInv
<1>6. \A i \in 1..Len(C) : C[i].f # f /\ C[i].f \in Fetch /\ arrived[C[i].f] /\ Peer[C[i].f] = p
  BY <1>1, <1>b DEF LinesInv, TableIs
<1>7. IsList(C) /\ \A i, j \in 1..Len(C) : C[i].f = C[j].f => i = j
  BY <1>b DEF LinesInv, TableIs
<1>8. PICK n \in Nat : n = Len(C)
  BY <1>7, AppendSeq
<1>9. /\ IsList(C2) /\ \A i \in 1..Len(C2) : (i \in 1..n /\ C2[i] = C[i])
                                            \/ (i = n + 1 /\ C2[i] = e)
  <2>1. CASE C2 = C
    BY <1>7, <1>8, <2>1
  <2>2. CASE C2 = Append(C, e)
    <3>1. /\ IsList(Append(C, e)) /\ DOMAIN Append(C, e) = 1..(n + 1)
          /\ (\A i \in 1..n : Append(C, e)[i] = C[i]) /\ Append(C, e)[n + 1] = e
      BY <1>7, <1>8, AppendSeq
    <3>2. DOMAIN Append(C, e) = 1..Len(Append(C, e))
      BY <3>1, AppendSeq
    <3>3. \A i \in 1..(n + 1) : i \in 1..n \/ i = n + 1
      OBVIOUS
    <3> QED
      BY <2>2, <3>1, <3>2, <3>3
  <2> QED
    BY <1>c, <2>1, <2>2
<1>10. \A q \in Peers : TableIs(conns'[q], arrived', q)
  <2>1. \A i \in 1..Len(C2) : C2[i].f \in Fetch /\ arrived'[C2[i].f] /\ Peer[C2[i].f] = p
    BY <1>0, <1>4, <1>5, <1>6, <1>8, <1>9
  <2>2. \A i, j \in 1..Len(C2) : C2[i].f = C2[j].f => i = j
    BY <1>4, <1>6, <1>7, <1>8, <1>9
  <2>3. TableIs(C2, arrived', p)
    BY <1>9, <2>1, <2>2 DEF TableIs
  <2>4. ASSUME NEW q \in Peers, q # p PROVE TableIs(conns[q], arrived', q)
    <3>1. TableIs(conns[q], arrived, q)
      BY DEF LinesInv
    <3> QED
      BY <1>5, <3>1 DEF TableIs
  <2> QED
    BY <1>b, <1>c, <2>3, <2>4
<1>11. ASSUME NEW g \in Fetch
       PROVE  StreamOK(sess[g], down[g], arrived'[g]) /\ HasLine(g, sess[g], down[g], conns'[Peer[g]])
  <2>1. StreamOK(sess[g], down[g], arrived[g]) /\ Peer[g] \in Peers
    BY PeerIs DEF LinesInv
  <2>2. CASE g = f
    <3>1. StreamOK(sess[g], down[g], arrived'[g])
      BY <1>1, <1>5, <2>1, <2>2 DEF StreamOK
    <3>2. sess[f].rx = <<>>
      BY <1>1, <2>1, <2>2 DEF StreamOK, Untouched
    <3>3. LineOK(f, sess[f], down[f], <<>>, conns[Peer[f]])
      BY <1>1, <3>2, NoLine
    <3>4. \A i \in 1..Len(C2) : C2[i].f = f => ExOK(C2[i], <<>>, sess[f].req)
      BY <1>4, <1>6, <1>8, <1>9 DEF ExOK
    <3>5. LineOK(f, sess[f], down[f], <<>>, C2)
      BY <3>3, <3>4 DEF LineOK
    <3> QED
      BY <1>0, <1>b, <2>2, <3>1, <3>5 DEF HasLine
  <2>3. CASE g # f
    <3>1. PICK T : LineOK(g, sess[g], down[g], T, conns[Peer[g]])
      BY DEF LinesInv, HasLine
    <3>2. CASE Peer[g] = p
      <4>1. LineOK(g, sess[g], down[g], T, C)
        BY <1>b, <3>1, <3>2
      <4>2. \A i \in 1..Len(C2) : C2[i].f = g => ExOK(C2[i], T, sess[g].req)
        BY <1>4, <1>8, <1>9, <2>3, <4>1 DEF LineOK
      <4>3. LineOK(g, sess[g], down[g], T, C2)
        BY <4>1, <4>2 DEF LineOK
      <4> QED
        BY <1>b, <1>5, <2>1, <2>3, <3>2, <4>3 DEF HasLine
    <3>3. CASE Peer[g] # p
      BY <1>c, <1>5, <2>1, <2>3, <3>1, <3>3 DEF HasLine
    <3> QED
      BY <3>2, <3>3
  <2> QED
    BY <2>2, <2>3
<1> QED
  BY <1>1, <1>5, <1>c, <1>10, <1>11 DEF LinesInv

\* A sequence cut in two.
LEMMA CutIn ==
  ASSUME NEW X, NEW d \in Seq(X), NEW k \in Nat, k <= Len(d)
  PROVE  /\ SubSeq(d, 1, k) \in Seq(X) /\ Len(SubSeq(d, 1, k)) = k
         /\ \A j \in 1..k : SubSeq(d, 1, k)[j] = d[j]
         /\ SubSeq(d, k + 1, Len(d)) \in Seq(X) /\ Len(SubSeq(d, k + 1, Len(d))) = Len(d) - k
         /\ SubSeq(d, 1, k) \o SubSeq(d, k + 1, Len(d)) = d
<1>1. PICK n \in Nat : n = Len(d)
  BY LenProperties
<1>2. \A j \in 1..n : d[j] \in X
  BY <1>1, ElementOfSeq
<1>3. /\ SubSeq(d, 1, k) \in Seq(X) /\ Len(SubSeq(d, 1, k)) = IF 1 <= k THEN k - 1 + 1 ELSE 0
      /\ \A j \in 1..(k - 1 + 1) : SubSeq(d, 1, k)[j] = d[1 + j - 1]
  <2>1. 1 \in Int /\ k \in Int /\ \A j \in 1..k : d[j] \in X
    BY <1>1, <1>2
  <2> QED
    BY <2>1, SubSeqProperties
<1>4. k - 1 + 1 = k /\ (IF 1 <= k THEN k - 1 + 1 ELSE 0) = k /\ \A j \in 1..k : 1 + j - 1 = j
  OBVIOUS
<1>5. PICK m \in Nat : m = k + 1
  OBVIOUS
<1>6. /\ SubSeq(d, m, n) \in Seq(X) /\ Len(SubSeq(d, m, n)) = IF m <= n THEN n - m + 1 ELSE 0
  <2>1. m \in Int /\ n \in Int /\ \A j \in m..n : d[j] \in X
    BY <1>2, <1>5
  <2> QED
    BY <2>1, SubSeqProperties
<1>7. (IF m <= n THEN n - m + 1 ELSE 0) = n - k
  BY <1>1, <1>5
<1>8. SubSeq(d, 1, k) \o SubSeq(d, k + 1, n) = SubSeq(d, 1, n)
  <2>1. 1 \in 1..(Len(d) + 1) /\ k \in (1 - 1)..Len(d) /\ n \in k..Len(d)
    BY <1>1
  <2> QED
    BY <2>1, ConcatAdjacentSubSeq
<1>9. SubSeq(d, 1, n) = d
  BY <1>1, SubSeqFull
<1> QED
  BY <1>1, <1>3, <1>4, <1>5, <1>6, <1>7, <1>8, <1>9

\* A fetch that has read a status and as many bytes as it says has read the value.
LEMMA ReadsWhole ==
  ASSUME NEW T \in Seq(Item), NEW r \in Req, SentOK(T, r), NEW rx \in Seq(Item), rx # <<>>,
         Len(rx) <= Len(T), \A j \in 1..Len(rx) : rx[j] = T[j]
  PROVE  /\ rx[1].ok \in BOOLEAN
         /\ rx[1].ok /\ Received(rx) >= rx[1].len
              => SubSeq(rx, 2, rx[1].len + 1) = Body(r.arg, 0, ServedLen(r))
<1>1. PICK n \in Nat, m \in Nat : n = Len(rx) /\ m = Len(T) /\ n # 0 /\ n <= m
  BY LenProperties, EmptySeq
<1>2. T # <<>> /\ rx[1] = T[1]
  <2>1. 1 \in 1..n
    BY <1>1
  <2>2. m # 0
    BY <1>1
  <2> QED
    BY <1>1, <2>1, <2>2, EmptySeq
<1>3. CASE Refuses(T)
  BY <1>2, <1>3 DEF Refuses
<1>4. CASE /\ Served(r) /\ Opens(T, ServedLen(r))
           /\ \/ \E k \in 0..ServedLen(r) : Clean(T, r.arg, k)
              \/ Len(T) <= ServedLen(r)
  <2>1. PICK len \in Nat : len = ServedLen(r)
    BY <1>4, ServeAssumption DEF Served, ServedLen
  <2>2. rx[1].ok = TRUE /\ rx[1].len = len
    BY <1>2, <1>4, <2>1 DEF Opens
  <2>3. ASSUME Received(rx) >= rx[1].len
        PROVE  SubSeq(rx, 2, len + 1) = Body(r.arg, 0, len)
    <3>1. n - 1 >= len
      BY <1>1, <2>2, <2>3 DEF Received
    <3>2. ~(m <= len)
      BY <1>1, <3>1
    <3>3. PICK k \in 0..len : Clean(T, r.arg, k)
      BY <1>1, <1>4, <2>1, <3>2
    <3>4. k = len
      BY <1>1, <3>1, <3>3 DEF Clean
    <3>5. \A j \in 1..len : T[j + 1] = [of |-> r.arg, at |-> j]
      BY <3>3, <3>4 DEF Clean
    <3>6. PICK a \in Arg : a = r.arg
      BY DEF Arg
    <3>7. PICK u : u = SubSeq(rx, 2, len + 1)
      OBVIOUS
    <3>8. \A j \in 2..(len + 1) : rx[j] \in Item
      BY <1>1, <3>1, ElementOfSeq
    <3>9. /\ u \in Seq(Item) /\ Len(u) = IF 2 <= len + 1 THEN (len + 1) - 2 + 1 ELSE 0
          /\ \A j \in 1..((len + 1) - 2 + 1) : u[j] = rx[2 + j - 1]
      <4>1. 2 \in Int /\ len + 1 \in Int
        OBVIOUS
      <4> QED
        BY <3>7, <3>8, <4>1, SubSeqProperties
    <3>10. Len(u) = len /\ \A j \in 1..len : u[j] = rx[j + 1]
      <4>1. (len + 1) - 2 + 1 = len /\ (IF 2 <= len + 1 THEN (len + 1) - 2 + 1 ELSE 0) = len
            /\ \A j \in 1..len : 2 + j - 1 = j + 1
        OBVIOUS
      <4> QED
        BY <3>9, <4>1
    <3>11. \A j \in 1..len : u[j] = [of |-> a, at |-> 0 + j]
      <4>1. \A j \in 1..len : j + 1 \in 1..n /\ 0 + j = j
        BY <1>1, <3>1
      <4> QED
        BY <1>1, <3>5, <3>6, <3>10, <4>1
    <3>12. PICK b : b = Body(a, 0, len)
      OBVIOUS
    <3>13. b \in Seq(Item) /\ Len(b) = len /\ \A j \in 1..len : b[j] = [of |-> a, at |-> 0 + j]
      BY <3>12, BodyIs
    <3>14. u = b
      BY <3>9, <3>10, <3>11, <3>13, SeqEqual
    <3> QED
      BY <3>6, <3>7, <3>12, <3>14
  <2> QED
    BY <2>1, <2>2, <2>3
<1> QED
  BY <1>2, <1>3, <1>4 DEF SentOK

\* One read of n items of the stream d: what fits is kept, what was read is gone from the stream.
TookIn(rx, d, n, rx2, d2) ==
  /\ rx2 = rx \o SubSeq(d, 1, Min({n, RX - Len(rx)}))
  /\ d2 = SubSeq(d, n + 1, Len(d))
ReadOn(rx2, d2, d, T) ==
  /\ rx2 \in Seq(Item) /\ rx2 # <<>> /\ d2 \in Seq(Item) /\ Len(d2) <= Len(d)
  /\ Reads(rx2, d2, T) /\ Len(rx2) <= Len(T)
  /\ \A j \in 1..Len(rx2) : rx2[j] = T[j]

\* What a fetch reads of what was written.
LEMMA ReadsOn ==
  ASSUME NEW T \in Seq(Item), NEW rx \in Seq(Item), NEW d \in Seq(Item), Reads(rx, d, T), Len(rx) < RX,
         NEW n \in 1..Len(d), NEW rx2, NEW d2, TookIn(rx, d, n, rx2, d2)
  PROVE  ReadOn(rx2, d2, d, T)
<1>0. /\ rx2 = rx \o SubSeq(d, 1, Min({n, RX - Len(rx)}))
      /\ d2 = SubSeq(d, n + 1, Len(d))
  BY DEF TookIn
<1>1. PICK m \in Nat, l \in Nat : m = Len(rx) /\ l = Len(d)
  BY LenProperties
<1>2. RX \in Nat /\ m < RX
  BY <1>1, ServeAssumption
<1>3. T = rx \o d
  BY <1>1, <1>2 DEF Reads
<1>4. PICK x \in Nat : x = RX - m /\ x # 0
  BY <1>2
<1>5. PICK k : k = Min({n, RX - Len(rx)})
  OBVIOUS
<1>6. n \in Nat /\ n # 0 /\ n <= l
  BY <1>1
<1>7. k \in Nat /\ k # 0 /\ k <= n /\ k <= x /\ (k = n \/ k = x)
  <2>1. k = Min({n, x})
    BY <1>1, <1>4, <1>5
  <2>2. Min({n, x}) = IF n <= x THEN n ELSE x
    BY <1>4, <1>6, MinPair
  <2> QED
    BY <1>4, <1>6, <2>1, <2>2
<1>8. PICK p : p = SubSeq(d, 1, k)
  OBVIOUS
<1>9. p \in Seq(Item) /\ Len(p) = k /\ \A j \in 1..k : p[j] = d[j]
  <2>1. k <= Len(d)
    BY <1>1, <1>6, <1>7
  <2> QED
    BY <1>7, <1>8, <2>1, CutIn
<1>10. rx2 = rx \o p
  BY <1>0, <1>5, <1>8
<1>11. /\ rx2 \in Seq(Item) /\ Len(rx2) = m + k
       /\ \A i \in 1..(m + k) : rx2[i] = IF i <= m THEN rx[i] ELSE p[i - m]
  <2>1. p \in Seq(Item) /\ Len(p) = k
    BY <1>9
  <2>2. /\ rx \o p \in Seq(Item) /\ Len(rx \o p) = Len(rx) + Len(p)
        /\ \A i \in 1..(Len(rx) + Len(p)) : (rx \o p)[i] = IF i <= Len(rx) THEN rx[i] ELSE p[i - Len(rx)]
    BY <2>1, ConcatProperties
  <2> QED
    BY <1>1, <1>10, <2>1, <2>2
<1>12. Len(T) = m + l /\ \A i \in 1..(m + l) : T[i] = IF i <= m THEN rx[i] ELSE d[i - m]
  BY <1>1, <1>3, ConcatProperties
<1>13. \A j \in 1..(m + k) : rx2[j] = T[j]
  <2> SUFFICES ASSUME NEW j \in 1..(m + k) PROVE rx2[j] = T[j]
    OBVIOUS
  <2>1. j \in 1..(m + l)
    BY <1>6, <1>7
  <2>2. CASE j <= m
    BY <1>11, <1>12, <2>1, <2>2
  <2>3. CASE ~(j <= m)
    <3>1. PICK q \in 1..k : q = j - m
      BY <1>7, <2>3
    <3>2. rx2[j] = p[q] /\ T[j] = d[q]
      BY <1>11, <1>12, <2>1, <2>3, <3>1
    <3> QED
      BY <1>9, <3>2
  <2> QED
    BY <2>2, <2>3
<1>14. d2 \in Seq(Item) /\ Len(d2) = l - n /\ SubSeq(d, 1, n) \o d2 = d /\ SubSeq(d, 1, n) \in Seq(Item)
  <2>1. n <= Len(d) /\ Len(d) = l
    BY <1>1, <1>6
  <2>2. PICK L : L = Len(d)
    OBVIOUS
  <2> QED
    BY <1>0, <1>6, <2>1, CutIn
<1>15. Len(T) # 0 /\ T \in Seq(Item)
  BY <1>6, <1>12
<1>16. T # <<>>
  BY <1>15, EmptySeq
<1>17. Reads(rx2, d2, T)
  <2>1. CASE k = n
    <3>1. p \o d2 = d
      BY <1>8, <1>14, <2>1
    <3>2. (rx \o p) \o d2 = rx \o (p \o d2)
      <4>1. p \in Seq(Item) /\ d2 \in Seq(Item)
        BY <1>9, <1>14
      <4> QED
        BY <4>1, Regroup
    <3>3. T = rx2 \o d2
      BY <1>3, <1>10, <3>1, <3>2
    <3> QED
      BY <3>3 DEF Reads
  <2>2. CASE k = x
    <3>1. Len(rx2) >= RX
      BY <1>2, <1>4, <1>11, <2>2
    <3> QED
      BY <1>16, <3>1 DEF Reads
  <2> QED
    BY <1>7, <2>1, <2>2
<1>18. rx2 # <<>>
  BY <1>7, <1>11, EmptySeq
<1>19. Len(d2) <= Len(d) /\ Len(rx2) <= Len(T)
  BY <1>1, <1>6, <1>7, <1>11, <1>12, <1>14
<1> QED
  BY <1>11, <1>13, <1>14, <1>17, <1>18, <1>19 DEF ReadOn

\* What a whole answer comes to.
WholeValue(rx, r) ==
  rx[1].ok /\ Received(rx) >= rx[1].len => Fetched(rx) = Body(r.arg, 0, ServedLen(r))

\* A call reads.
LEMMA StreamReads ==
  ASSUME LinesInv, NEW g \in Fetch, NEW f \in Fetch, NEW n \in 1..Len(down[f]), pump_rx(g, f, n)
  PROVE  /\ LinesInv' /\ sess' = [sess EXCEPT ![f] = sess'[f]] /\ sess'[f].pc = sess[f].pc
         /\ sess'[f].req = sess[f].req /\ sess'[f].rx[1].ok \in BOOLEAN /\ WholeValue(sess'[f].rx, sess[f].req)
<1>1. PICK x, d : x = sess[f] /\ d = down[f]
  OBVIOUS
<1>2. StreamOK(x, d, arrived[f]) /\ HasLine(f, x, d, conns[Peer[f]])
  BY <1>1 DEF LinesInv
<1>3. PICK T : LineOK(f, x, d, T, conns[Peer[f]])
  BY <1>2 DEF HasLine
<1>4. /\ SessRec(x) /\ x.req \in Req /\ x.rx \in Seq(Item) /\ d \in Seq(Item) /\ Len(d) <= Room
      /\ Len(x.rx) < RX /\ n \in 1..Len(d)
  BY <1>1, <1>2 DEF StreamOK, pump_rx
<1>5. PICK rx2 : rx2 = x.rx \o SubSeq(d, 1, Min({n, RX - Len(x.rx)}))
  OBVIOUS
<1>6. PICK d2 : d2 = SubSeq(d, n + 1, Len(d))
  OBVIOUS
<1>7. T \in Seq(Item) /\ Reads(x.rx, d, T) /\ SentOK(T, x.req)
  BY <1>3 DEF LineOK
<1>8. PICK rx \in Seq(Item) : rx = x.rx
  BY <1>4
<1>9. /\ rx2 \in Seq(Item) /\ rx2 # <<>> /\ d2 \in Seq(Item) /\ Len(d2) <= Len(d)
      /\ Reads(rx2, d2, T) /\ Len(rx2) <= Len(T)
      /\ \A j \in 1..Len(rx2) : rx2[j] = T[j]
  <2>1. Reads(rx, d, T) /\ Len(rx) < RX
    BY <1>4, <1>7, <1>8
  <2>2. TookIn(rx, d, n, rx2, d2)
    BY <1>5, <1>6, <1>8 DEF TookIn
  <2>3. T \in Seq(Item) /\ d \in Seq(Item) /\ n \in 1..Len(d)
    BY <1>4, <1>7
  <2>4. ReadOn(rx2, d2, d, T)
    BY <1>8, <2>1, <2>2, <2>3, ReadsOn
  <2> QED
    BY <2>4 DEF ReadOn
<1>10. rx2[1].ok \in BOOLEAN /\ WholeValue(rx2, x.req)
  BY <1>4, <1>7, <1>9, ReadsWhole DEF WholeValue, Fetched
<1>14. PICK x2 : x2 = [x EXCEPT !.rx = rx2]
  OBVIOUS
<1>15. SessRec(x2) /\ x2.rx = rx2 /\ x2.pc = x.pc /\ x2.req = x.req
  BY <1>4, <1>14 DEF SessRec
<1>19. arrived[f] \in BOOLEAN /\ arrived[f]
  <2>1. arrived[f] \in BOOLEAN /\ (~arrived[f] => Untouched(x, d))
    BY <1>2 DEF StreamOK
  <2>2. d # <<>>
    <3>1. Len(d) # 0
      BY <1>4, LenProperties
    <3> QED
      BY <1>4, <3>1, EmptySeq
  <2> QED
    BY <2>1, <2>2 DEF Untouched
<1>20. Len(d2) <= Room
  <2>1. Len(d2) \in Nat /\ Len(d) \in Nat /\ Room \in Nat
    BY <1>4, <1>9, LenProperties, ServeAssumption
  <2> QED
    BY <1>4, <1>9, <2>1
<1>21. x.pc = "open"
  BY <1>2, <1>19 DEF StreamOK
<1>22. StreamOK(x2, d2, arrived[f])
  BY <1>4, <1>9, <1>15, <1>19, <1>20, <1>21 DEF StreamOK
<1>23. LineOK(f, x2, d2, T, conns[Peer[f]])
  BY <1>3, <1>9, <1>15 DEF LineOK
<1>24. sess' = [sess EXCEPT ![f] = x2] /\ down' = [down EXCEPT ![f] = d2] /\ sess'[f] = x2
  <2>1. sess' = [sess EXCEPT ![f].rx = rx2]
    BY <1>1, <1>5 DEF pump_rx
  <2>2. down' = [down EXCEPT ![f] = d2]
    BY <1>1, <1>6 DEF pump_rx
  <2>3. sess = [h \in Fetch |-> sess[h]]
    BY DEF LinesInv
  <2> QED
    BY <1>1, <1>14, <2>1, <2>2, <2>3
<1>25. UNCHANGED <<arrived, conns>>
  BY DEF pump_rx
<1>26. LinesInv'
  BY <1>22, <1>23, <1>24, <1>25, StreamMoves DEF HasLine
<1> QED
  BY <1>1, <1>10, <1>15, <1>24, <1>26

\* What the table holds after an exchange was visited: the others, and it unless it is done.
Visited(C, i, e, C2) ==
  /\ IsList(C2)
  /\ \A j \in 1..Len(C2) : \/ \E k \in 1..Len(C) : k # i /\ C2[j] = C[k]
                           \/ C2[j] = e /\ e.phase # "DONE"
  /\ \A j, k \in 1..Len(C2) : C2[j].f = C2[k].f => j = k

\* The table after a visit.
LEMMA TableVisited ==
  ASSUME NEW C, IsList(C), \A j, k \in 1..Len(C) : C[j].f = C[k].f => j = k, NEW i \in 1..Len(C),
         NEW e, e.f = C[i].f,
         NEW C2, C2 = IF e.phase = "DONE" THEN Filled(C, i) ELSE [C EXCEPT ![i] = e]
  PROVE  Visited(C, i, e, C2)
<1>1. PICK X : C \in Seq(X)
  BY DEF IsList
<1>2. C \in Seq(X \cup {e}) /\ e \in X \cup {e}
  BY <1>1
<1>3. PICK n \in Nat : n = Len(C)
  BY <1>1, LenProperties
<1>4. CASE e.phase = "DONE"
  <2>1. PICK m \in Nat : m = n - 1
    BY <1>3
  <2>2. C2 \in Seq(X) /\ Len(C2) = m /\ \A j \in 1..m : C2[j] = IF j = i THEN C[n] ELSE C[j]
    BY <1>1, <1>3, <1>4, <2>1, FilledIs
  <2>3. \A j \in 1..m : j \in 1..n /\ j # n /\ n \in 1..n
    BY <2>1
  <2>4. \A j \in 1..m : \E k \in 1..n : k # i /\ C2[j] = C[k]
    BY <2>2, <2>3
  <2>5. \A j, k \in 1..m : C2[j].f = C2[k].f => j = k
    BY <1>3, <2>2, <2>3
  <2> QED
    BY <1>3, <2>2, <2>4, <2>5 DEF Visited, IsList
<1>5. CASE e.phase # "DONE"
  <2>1. C2 \in Seq(X \cup {e}) /\ Len(C2) = n /\ \A j \in 1..n : C2[j] = IF j = i THEN e ELSE C[j]
    BY <1>2, <1>3, <1>5, ExceptSeq
  <2>2. \A j \in 1..n : (j # i /\ C2[j] = C[j]) \/ (C2[j] = e /\ e.phase # "DONE")
    BY <1>5, <2>1
  <2>3. \A j \in 1..n : C2[j].f = C[j].f
    BY <1>3, <2>1
  <2>4. \A j, k \in 1..n : C2[j].f = C2[k].f => j = k
    BY <1>3, <2>3
  <2> QED
    BY <1>3, <2>1, <2>2, <2>4 DEF Visited, IsList
<1> QED
  BY <1>4, <1>5

\* An exchange is visited.
LEMMA ServePumps ==
  ASSUME LinesInv, NEW p \in Peers, NEW i \in DOMAIN conns[p], serve_host_pump(p, i)
  PROVE  LinesInv'
<1>0. PICK C, C2 : C = conns[p] /\ C2 = conns'[p]
  OBVIOUS
<1>a. TableIs(C, arrived, p) /\ i \in DOMAIN C
  BY <1>0 DEF LinesInv
<1>1. IsList(C) /\ i \in 1..Len(C) /\ \A j, k \in 1..Len(C) : C[j].f = C[k].f => j = k
  <2>1. IsList(C)
    BY <1>a DEF TableIs
  <2>2. DOMAIN C = 1..Len(C)
    BY <2>1, AppendSeq
  <2> QED
    BY <1>a, <2>1, <2>2 DEF TableIs
<1>2. PICK c : c = C[i]
  OBVIOUS
<1>3. PICK f \in Fetch : f = c.f /\ arrived[f] /\ Peer[f] = p
  BY <1>a, <1>1, <1>2 DEF TableIs
<1>4. PICK x, d : x = sess[f] /\ d = down[f]
  OBVIOUS
<1>5. StreamOK(x, d, arrived[f]) /\ HasLine(f, x, d, C)
  BY <1>0, <1>3, <1>4 DEF LinesInv
<1>6. PICK T : LineOK(f, x, d, T, C)
  BY <1>5 DEF HasLine
<1>7. /\ T \in Seq(Item) /\ Reads(x.rx, d, T) /\ ExOK(c, T, x.req) /\ x.req \in Req
      /\ x.rx \in Seq(Item) /\ d \in Seq(Item) /\ Len(d) <= Room
  BY <1>1, <1>2, <1>3, <1>5, <1>6 DEF LineOK, StreamOK
<1>8. PICK l \in Nat : l = Len(d)
  BY <1>7, LenProperties
<1>9. PICK room \in Nat : room = Room - l /\ Room \in Nat /\ Room # 0
  BY <1>7, <1>8, ServeAssumption
<1>10. T = <<>> => room # 0
  <2> SUFFICES ASSUME T = <<>> PROVE room # 0
    OBVIOUS
  <2>1. x.rx \o d = <<>>
    BY <1>7 DEF Reads
  <2>2. d = <<>>
    BY <1>7, <2>1, ConcatEqualIffEmpty
  <2>3. l = 0
    BY <1>8, <2>2, EmptySeq
  <2> QED
    BY <1>9, <2>3
<1>11. PICK s : s = nornd_serve_conn_pump(c)
  OBVIOUS
<1>12. Pumped(s, T, x.req, room, f)
  <2>1. s = PumpBody(PumpStatus(PumpRequest([c |-> c, out |-> <<>>], x.req)), x.req.arg, room)
    BY <1>3, <1>4, <1>8, <1>9, <1>11 DEF nornd_serve_conn_pump
  <2> QED
    BY <1>3, <1>7, <1>10, <2>1, PumpDoes
<1>13. PICK e, o : e = s.c /\ o = s.out
  OBVIOUS
<1>14. PICK T2, d2 : T2 = T \o o /\ d2 = d \o o
  OBVIOUS
<1>15. /\ o \in Seq(Item) /\ Len(o) <= room /\ e.f = f /\ SentOK(T2, x.req)
       /\ e.phase # "DONE" => ExOK(e, T2, x.req)
  BY <1>12, <1>13, <1>14 DEF Pumped
<1>16. /\ C2 = IF e.phase = "DONE" THEN Filled(C, i) ELSE [C EXCEPT ![i] = e]
       /\ conns' = [q \in Peers |-> conns'[q]] /\ \A q \in Peers : q # p => conns'[q] = conns[q]
       /\ down' = [down EXCEPT ![f] = d2] /\ UNCHANGED <<sess, arrived>>
  <2>1. conns = [q \in Peers |-> conns[q]]
    BY DEF LinesInv
  <2>2. /\ conns' = [conns EXCEPT ![p] = IF e.phase = "DONE" THEN Filled(C, i) ELSE [C EXCEPT ![i] = e]]
        /\ down' = [down EXCEPT ![f] = d2] /\ UNCHANGED <<sess, arrived>>
    BY <1>0, <1>2, <1>3, <1>4, <1>11, <1>13, <1>14 DEF serve_host_pump, Filled
  <2> QED
    BY <1>0, <2>1, <2>2
<1>17. Visited(C, i, e, C2)
  BY <1>1, <1>2, <1>3, <1>15, <1>16, TableVisited
<1>18. T2 \in Seq(Item) /\ d2 \in Seq(Item) /\ Len(d2) <= Room
  <2>1. T2 \in Seq(Item) /\ d2 \in Seq(Item) /\ Len(d2) = Len(d) + Len(o) /\ Len(o) \in Nat
    BY <1>7, <1>14, <1>15, ConcatProperties, LenProperties
  <2> QED
    BY <1>8, <1>9, <1>15, <2>1
<1>19. Reads(x.rx, d2, T2)
  <2>1. CASE T = x.rx \o d
    <3>1. (x.rx \o d) \o o = x.rx \o (d \o o)
      BY <1>7, <1>15, Regroup
    <3> QED
      BY <1>14, <2>1, <3>1 DEF Reads
  <2>2. CASE Len(x.rx) >= RX /\ T # <<>>
    <3>1. T \o o # <<>>
      BY <1>7, <1>15, <2>2, ConcatEqualIffEmpty
    <3> QED
      BY <1>14, <2>2, <3>1 DEF Reads
  <2> QED
    BY <1>7, <2>1, <2>2 DEF Reads
<1>20. StreamOK(x, d2, arrived[f])
  BY <1>3, <1>5, <1>18 DEF StreamOK
<1>21. \A j \in 1..Len(C2) : C2[j].f = f => ExOK(C2[j], T2, x.req)
  BY <1>1, <1>2, <1>3, <1>15, <1>17 DEF Visited
<1>22. LineOK(f, x, d2, T2, C2)
  BY <1>15, <1>18, <1>19, <1>21 DEF LineOK
<1>23. TableIs(C2, arrived, p)
  <2>1. \A j \in 1..Len(C) : C[j].f \in Fetch /\ arrived[C[j].f] /\ Peer[C[j].f] = p
    BY <1>a DEF TableIs
  <2>2. \A j \in 1..Len(C2) : C2[j].f \in Fetch /\ arrived[C2[j].f] /\ Peer[C2[j].f] = p
    BY <1>3, <1>15, <1>17, <2>1 DEF Visited
  <2> QED
    BY <1>17, <2>2 DEF TableIs, Visited
<1>24. down' = [g \in Fetch |-> down'[g]] /\ down'[f] = d2
       /\ \A g \in Fetch : g # f => down'[g] = down[g]
  BY <1>16 DEF LinesInv
<1>25. ASSUME NEW g \in Fetch
       PROVE  StreamOK(sess[g], down'[g], arrived[g]) /\ HasLine(g, sess[g], down'[g], conns'[Peer[g]])
  <2>1. CASE g = f
    BY <1>0, <1>3, <1>4, <1>20, <1>22, <1>24, <2>1 DEF HasLine
  <2>2. CASE g # f
    <3>1. down'[g] = down[g] /\ StreamOK(sess[g], down[g], arrived[g]) /\ Peer[g] \in Peers
      BY <1>24, <2>2, PeerIs DEF LinesInv
    <3>2. PICK U : LineOK(g, sess[g], down[g], U, conns[Peer[g]])
      BY DEF LinesInv, HasLine
    <3>3. CASE Peer[g] = p
      <4>1. LineOK(g, sess[g], down[g], U, C)
        BY <1>0, <3>2, <3>3
      <4>2. \A j \in 1..Len(C2) : C2[j].f = g => ExOK(C2[j], U, sess[g].req)
        BY <1>15, <1>17, <2>2, <4>1 DEF Visited, LineOK
      <4>3. LineOK(g, sess[g], down[g], U, C2)
        BY <4>1, <4>2 DEF LineOK
      <4> QED
        BY <1>0, <3>1, <3>3, <4>3 DEF HasLine
    <3>4. CASE Peer[g] # p
      BY <1>16, <3>1, <3>2, <3>4 DEF HasLine
    <3> QED
      BY <3>3, <3>4
  <2> QED
    BY <2>1, <2>2
<1>26. ASSUME NEW q \in Peers PROVE TableIs(conns'[q], arrived, q)
  <2>1. CASE q = p
    BY <1>0, <1>23, <2>1
  <2>2. CASE q # p
    BY <1>16, <2>2 DEF LinesInv
  <2> QED
    BY <2>1, <2>2
<1> QED
  BY <1>16, <1>24, <1>25, <1>26 DEF LinesInv

\* The start of the streams.
LEMMA StreamsStart ==
  ASSUME ServeInit
  PROVE  LinesInv
<1>1. PICK x : x = [pc |-> "idle", req |-> NoRequest, rx |-> <<>>]
  OBVIOUS
<1>2. /\ sess = [f \in Fetch |-> x] /\ down = [f \in Fetch |-> <<>>]
      /\ arrived = [f \in Fetch |-> FALSE] /\ conns = [p \in Peers |-> <<>>]
  BY <1>1 DEF ServeInit
<1>3. <<>> \in Seq(Item) /\ Len(<<>>) = 0 /\ <<>> \o <<>> = <<>> /\ 1..Len(<<>>) = {}
  BY EmptySeq, ConcatEmptySeq
<1>4. SessRec(x) /\ x.req \in Req /\ x.rx = <<>> /\ x.pc = "idle"
  BY <1>1 DEF SessRec, Req
<1>5. Len(<<>>) <= Room
  BY <1>3, ServeAssumption
<1>6. StreamOK(x, <<>>, FALSE)
  BY <1>3, <1>4, <1>5 DEF StreamOK, Untouched
<1>7. \A f : LineOK(f, x, <<>>, <<>>, <<>>)
  BY <1>3, <1>4 DEF LineOK, Reads, SentOK
<1>8. \A p \in Peers : conns[p] = <<>> /\ TableIs(conns[p], arrived, p)
  <2>1. IsList(<<>>)
    BY <1>3 DEF IsList
  <2> QED
    BY <1>2, <1>3, <2>1 DEF TableIs
<1>9. \A f \in Fetch : sess[f] = x /\ down[f] = <<>> /\ arrived[f] = FALSE /\ conns[Peer[f]] = <<>>
  BY <1>2, <1>8, PeerIs
<1>10. \A f \in Fetch : StreamOK(sess[f], down[f], arrived[f]) /\ HasLine(f, sess[f], down[f], conns[Peer[f]])
  BY <1>6, <1>7, <1>9 DEF HasLine
<1> QED
  BY <1>2, <1>8, <1>10 DEF LinesInv

-----------------------------------------------------------------------------
(* Served values: the calls. *)

CallRec(c) == c = [pc |-> c.pc, req |-> c.req, stream |-> c.stream, rc |-> c.rc, out |-> c.out]

\* The call t has returned and never got the stream of its own session.
Left(t) == call[t].pc = "returned" /\ call[t].stream # t

\* The stream of the call c of g is open, carries its line, and is on its own session or
\* on that of a call that was left.
OnStream(g, c) ==
  /\ c.stream \in Fetch /\ sess[c.stream].pc = "open" /\ sess[c.stream].req = Line(c.stream, c.req)
  /\ c.stream = g \/ Left(c.stream)
CallOK(g, c) ==
  /\ CallRec(c) /\ c.pc \in {"idle", "calling", "returned"} /\ c.req \in Request \cup {NoRequest}
  /\ c.pc = "idle" => sess[g].pc = "idle" /\ c.stream = NoStream
  /\ c.stream = NoStream \/ OnStream(g, c)
  /\ c.rc = 0 => c.pc = "returned" /\ c.stream # NoStream /\ c.out = Serves(Peer[c.stream], c.req)
CallsInv ==
  /\ call = [g \in Fetch |-> call[g]]
  /\ \A g \in Fetch : CallOK(g, call[g])
  /\ \A g, h \in Fetch :
        call[g].pc = "calling" /\ call[h].pc = "calling" /\ Caller[g] = Caller[h] => g = h

\* A call and a session move.
LEMMA CallMoves ==
  ASSUME CallsInv, LinesInv, NEW g \in Fetch, NEW c2, NEW s \in Fetch, NEW x2,
         call' = [call EXCEPT ![g] = c2], sess' = [sess EXCEPT ![s] = x2],
         c2 = call[g] \/ call[g].pc # "returned",
         sess[s].pc = "open" => x2.pc = "open" /\ x2.req = sess[s].req,
         call[s].pc = "idle" => x2.pc = "idle" \/ s = g,
         CallOK(g, c2)',
         c2.pc = "calling" => \A h \in Fetch : call[h].pc = "calling" /\ Caller[h] = Caller[g] => h = g
  PROVE  CallsInv'
<1>1. call' = [h \in Fetch |-> IF h = g THEN c2 ELSE call[h]] /\ sess' = [h \in Fetch |-> IF h = s THEN x2 ELSE sess[h]]
  BY DEF CallsInv, LinesInv
<1>2. call' = [h \in Fetch |-> call'[h]] /\ call'[g] = c2 /\ \A h \in Fetch : h # g => call'[h] = call[h]
  BY <1>1
<1>3. sess'[s] = x2 /\ \A h \in Fetch : h # s => sess'[h] = sess[h]
  BY <1>1
<1>4. \A t \in Fetch : Left(t) => Left(t)'
  BY <1>2 DEF Left
<1>5. \A t \in Fetch : sess[t].pc = "open" => sess'[t].pc = "open" /\ sess'[t].req = sess[t].req
  BY <1>3
<1>6. ASSUME NEW h \in Fetch, h # g PROVE CallOK(h, call[h])'
  <2>1. PICK c : c = call[h]
    OBVIOUS
  <2>2. CallOK(h, c) /\ call'[h] = c
    BY <1>2, <1>6, <2>1 DEF CallsInv
  <2>3. OnStream(h, c) => OnStream(h, c)'
    BY <1>4, <1>5 DEF OnStream
  <2>4. c.pc = "idle" => sess'[h].pc = "idle"
    BY <1>3, <1>6, <2>1, <2>2 DEF CallOK
  <2>5. CallOK(h, c)'
    BY <2>2, <2>3, <2>4 DEF CallOK
  <2> QED
    BY <2>2, <2>5 DEF CallOK, OnStream, Left
<1>7. CallOK(g, call[g])'
  BY <1>2 DEF CallOK, OnStream, Left
<1>8. \A h, k \in Fetch :
        call'[h].pc = "calling" /\ call'[k].pc = "calling" /\ Caller[h] = Caller[k] => h = k
  BY <1>2 DEF CallsInv
<1> QED
  BY <1>2, <1>6, <1>7, <1>8 DEF CallsInv
\* The parts of a session after a step.
LEMMA SessionParts ==
  \A x, y, r : SessionAs(x, y, r).pc = y /\ SessionAs(x, y, r).req = r
BY DEF SessionAs

\* A call begins.
LEMMA CallBegins ==
  ASSUME CallsInv, LinesInv, NEW f \in Fetch, NEW r \in Request, nornd_peer_fetch(f, r)
  PROVE  CallsInv' /\ LinesInv'
<1>1. PICK c, x : c = call[f] /\ x = sess[f]
  OBVIOUS
<1>2. CallOK(f, c) /\ c.pc = "idle" /\ x.pc = "idle" /\ c.stream = NoStream /\ c.rc # 0 /\ CallRec(c)
  BY <1>1 DEF CallsInv, CallOK, nornd_peer_fetch
<1>3. PICK c2, x2 : c2 = [c EXCEPT !.pc = "calling", !.req = r] /\ x2 = SessionAs(x, "dialing", x.req)
  OBVIOUS
<1>4. CallRec(c2) /\ c2.pc = "calling" /\ c2.req = r /\ c2.stream = NoStream /\ c2.rc # 0
  BY <1>2, <1>3 DEF CallRec
<1>5. /\ call' = [call EXCEPT ![f].pc = "calling", ![f].req = r] /\ sess' = [sess EXCEPT ![f].pc = "dialing"]
      /\ UNCHANGED <<down, arrived, conns>>
      /\ \A g \in Fetch : Caller[g] = Caller[f] => call[g].pc # "calling"
  BY DEF nornd_peer_fetch
<1>6. call' = [call EXCEPT ![f] = c2] /\ sess' = [sess EXCEPT ![f] = x2]
  BY <1>1, <1>3, <1>5, SessionSteps DEF CallsInv
<1>7. x2.pc = "dialing" /\ sess[f].req \in Req /\ sess[f].pc # "open"
  BY <1>1, <1>2, <1>3, SessionParts DEF LinesInv, StreamOK
<1>8. CallOK(f, c2)'
  BY <1>4 DEF CallOK
<1>9. CallsInv'
  BY <1>1, <1>2, <1>4, <1>5, <1>6, <1>7, <1>8, CallMoves
<1>10. LinesInv'
  <2>1. sess' = [sess EXCEPT ![f] = SessionAs(sess[f], "dialing", sess[f].req)]
    BY <1>1, <1>3, <1>6
  <2>2. PICK q \in Req : q = sess[f].req
    BY <1>7
  <2>3. sess' = [sess EXCEPT ![f] = SessionAs(sess[f], "dialing", q)]
    BY <2>1, <2>2
  <2> QED
    BY <1>5, <1>7, <2>3, SessionGoesOn
<1> QED
  BY <1>9, <1>10

\* A call that gets a stream: of its own session, or of one that was left.
LEMMA CallGetsStream ==
  ASSUME CallsInv, LinesInv, NEW s \in Fetch, NEW g \in Fetch, call[g].stream = NoStream,
         call[g].pc = "calling", Caller[g] = Caller[s], sess[s].pc = "dialing",
         call' = [call EXCEPT ![g].stream = s], sess' = Opened(s, call[g].req),
         UNCHANGED <<down, arrived, conns>>
  PROVE  CallsInv' /\ LinesInv'
<1>1. PICK c, x : c = call[g] /\ x = sess[s]
  OBVIOUS
<1>2. CallOK(g, c) /\ CallRec(c) /\ c.req \in Request \cup {NoRequest} /\ c.rc # 0
  BY <1>1 DEF CallsInv, CallOK
<1>3. PICK l : l = Line(s, c.req)
  OBVIOUS
<1>4. l \in Req
  BY <1>2, <1>3 DEF Req
<1>5. PICK c2, x2 : c2 = [c EXCEPT !.stream = s] /\ x2 = SessionAs(x, "open", l)
  OBVIOUS
<1>6. CallRec(c2) /\ c2.pc = "calling" /\ c2.req = c.req /\ c2.stream = s /\ c2.rc = c.rc
  BY <1>1, <1>2, <1>5 DEF CallRec
<1>7. call' = [call EXCEPT ![g] = c2] /\ sess' = [sess EXCEPT ![s] = x2] /\ x2.pc = "open" /\ x2.req = l
  <2>1. call' = [call EXCEPT ![g] = [call[g] EXCEPT !.stream = s]]
    BY DEF CallsInv
  <2>2. Opened(s, c.req) = [sess EXCEPT ![s] = SessionAs(x, "open", l)]
    BY <1>1, <1>3, SessionSteps
  <2> QED
    BY <1>1, <1>5, <2>1, <2>2, SessionParts
<1>8. call[s].pc # "idle" /\ call[s].stream # s
  <2>1. CallOK(s, call[s])
    BY DEF CallsInv
  <2>2. s # NoStream
    BY ServeAssumption
  <2> QED
    BY <2>1, <2>2 DEF CallOK, OnStream
<1>9. s = g \/ Left(s)
  <2>1. call[s].pc \in {"idle", "calling", "returned"}
    BY DEF CallsInv, CallOK
  <2>2. call[s].pc = "calling" => s = g
    BY DEF CallsInv
  <2> QED
    BY <1>8, <2>1, <2>2 DEF Left
<1>10. sess'[s] = x2 /\ (s # g => call'[s] = call[s])
  BY <1>7 DEF LinesInv, CallsInv
<1>11. OnStream(g, c2)'
  BY <1>3, <1>6, <1>7, <1>9, <1>10 DEF OnStream, Left
<1>12. CallOK(g, c2)'
  BY <1>2, <1>6, <1>11 DEF CallOK
<1>13. \A h \in Fetch : call[h].pc = "calling" /\ Caller[h] = Caller[g] => h = g
  BY DEF CallsInv
<1>14. CallsInv'
  BY <1>7, <1>8, <1>12, <1>13, CallMoves
<1>15. LinesInv'
  <2>1. sess' = [sess EXCEPT ![s] = SessionAs(sess[s], "open", l)]
    BY <1>1, <1>5, <1>7
  <2>2. sess[s].pc # "open"
    OBVIOUS
  <2> QED
    BY <1>4, <2>1, <2>2, SessionGoesOn
<1> QED
  BY <1>14, <1>15

\* A session is left without a stream, or opened for nobody, while no call or one call moves on
\* to y.
LEMMA SessionLeft ==
  ASSUME CallsInv, LinesInv, NEW s \in Fetch, NEW z \in {"open", "silent"}, NEW r \in Req, sess[s].pc = "dialing",
         sess' = [sess EXCEPT ![s] = SessionAs(sess[s], z, r)],
         NEW g \in Fetch, NEW y, call' = [call EXCEPT ![g].pc = y],
         y = call[g].pc \/ (y = "returned" /\ call[g].pc = "calling"),
         UNCHANGED <<down, arrived, conns>>
  PROVE  CallsInv' /\ LinesInv'
<1>1. PICK c, x2 : c = call[g] /\ x2 = SessionAs(sess[s], z, r)
  OBVIOUS
<1>2. CallOK(g, c) /\ CallRec(c)
  BY <1>1 DEF CallsInv, CallOK
<1>3. PICK c2 : c2 = [c EXCEPT !.pc = y]
  OBVIOUS
<1>4. CallRec(c2) /\ c2.pc = y /\ c2.req = c.req /\ c2.stream = c.stream /\ c2.rc = c.rc /\ c2.out = c.out
  BY <1>2, <1>3 DEF CallRec
<1>5. call' = [call EXCEPT ![g] = c2] /\ sess' = [sess EXCEPT ![s] = x2] /\ x2.pc = z
  BY <1>1, <1>3, SessionParts DEF CallsInv
<1>6. call[s].pc # "idle"
  BY DEF CallsInv, CallOK
<1>7. y = call[g].pc => c2 = call[g]
  BY <1>1, <1>2, <1>4 DEF CallRec
<1>8. /\ \A h \in Fetch : h # s => sess'[h] = sess[h]
      /\ \A h \in Fetch : h # g => call'[h] = call[h]
      /\ call'[g] = c2
  BY <1>5 DEF LinesInv, CallsInv
<1>9. OnStream(g, c) => OnStream(g, c2)'
  <2> SUFFICES ASSUME OnStream(g, c) PROVE OnStream(g, c2)'
    OBVIOUS
  <2>1. PICK t \in Fetch : t = c.stream /\ sess[t].pc = "open" /\ sess[t].req = Line(t, c.req) /\ (t = g \/ Left(t))
    BY DEF OnStream
  <2>2. sess'[t] = sess[t]
    BY <1>8, <2>1
  <2>3. t = g \/ Left(t)'
    BY <1>4, <1>7, <1>8, <2>1 DEF Left
  <2> QED
    BY <1>4, <2>1, <2>2, <2>3 DEF OnStream
<1>10. c2.pc = "idle" => sess'[g].pc = "idle"
  <2> SUFFICES ASSUME y = "idle" PROVE sess'[g].pc = "idle"
    BY <1>4
  <2>1. call[g].pc = "idle" /\ g # s
    BY <1>6
  <2>2. sess[g].pc = "idle"
    BY <1>1, <1>2, <2>1 DEF CallOK
  <2> QED
    BY <1>8, <2>1, <2>2
<1>11. CallOK(g, c2)'
  BY <1>1, <1>2, <1>4, <1>9, <1>10 DEF CallOK
<1>12. c2.pc = "calling" => \A h \in Fetch : call[h].pc = "calling" /\ Caller[h] = Caller[g] => h = g
  BY <1>4 DEF CallsInv
<1>13. c2 = call[g] \/ call[g].pc # "returned"
  BY <1>7
<1>14. CallsInv'
  BY <1>5, <1>6, <1>11, <1>12, <1>13, CallMoves
<1>15. LinesInv'
  BY SessionGoesOn
<1> QED
  BY <1>14, <1>15

\* Nothing of the calls or their sessions changes.
LEMMA CallsSame ==
  ASSUME CallsInv, UNCHANGED <<call, sess>>
  PROVE  CallsInv'
BY DEF CallsInv, CallOK, OnStream, Left

\* A call reads: what it hands over, when it ends well, is the value.
LEMMA CallReads ==
  ASSUME CallsInv, LinesInv, NEW g \in Fetch, NEW s \in Fetch, NEW n \in 1..Len(down[s]), pump_rx(g, s, n)
  PROVE  CallsInv' /\ LinesInv'
<1>1. /\ LinesInv' /\ sess' = [sess EXCEPT ![s] = sess'[s]] /\ sess'[s].pc = sess[s].pc
      /\ sess'[s].req = sess[s].req /\ sess'[s].rx[1].ok \in BOOLEAN /\ WholeValue(sess'[s].rx, sess[s].req)
  BY StreamReads
<1>2. PICK c, x2 : c = call[g] /\ x2 = sess'[s]
  OBVIOUS
<1>3. PICK rx : rx = x2.rx
  OBVIOUS
<1>4. PICK done \in BOOLEAN : done = (~rx[1].ok \/ Received(rx) >= rx[1].len)
  OBVIOUS
<1>5. /\ c.pc = "calling" /\ c.stream = s /\ c.req.verb # "connect"
  BY <1>2 DEF pump_rx
<1>6. PICK c2 : c2 = [pc |-> IF done THEN "returned" ELSE c.pc, req |-> c.req, stream |-> s,
                      rc |-> IF done /\ rx[1].ok THEN 0 ELSE c.rc,
                      out |-> IF done /\ rx[1].ok THEN Fetched(rx) ELSE c.out]
  OBVIOUS
<1>7. CallOK(g, c) /\ CallRec(c)
  BY <1>2 DEF CallsInv, CallOK
<1>8. call' = [call EXCEPT ![g] = c2]
  <2>1. PICK rx0 : rx0 = sess[s].rx \o SubSeq(down[s], 1, Min({n, RX - Len(sess[s].rx)}))
    OBVIOUS
  <2>2. sess' = [sess EXCEPT ![s].rx = rx0]
    BY <2>1 DEF pump_rx
  <2>3. rx0 = rx
    <3>1. PICK x : x = sess[s]
      OBVIOUS
    <3>2. SessRec(x) /\ sess = [h \in Fetch |-> sess[h]]
      BY <3>1 DEF LinesInv, StreamOK
    <3>3. sess'[s] = [x EXCEPT !.rx = rx0]
      BY <2>2, <3>1, <3>2
    <3>4. [x EXCEPT !.rx = rx0].rx = rx0
      BY <3>2 DEF SessRec
    <3> QED
      BY <1>2, <1>3, <3>3, <3>4
  <2>4. call' = [call EXCEPT ![g].pc = IF done THEN "returned" ELSE @,
                              ![g].rc = IF done /\ rx[1].ok THEN 0 ELSE @,
                              ![g].out = IF done /\ rx[1].ok THEN Fetched(rx) ELSE @]
    BY <1>4, <2>1, <2>3 DEF pump_rx
  <2>5. PICK a, b, o : /\ a = (IF done THEN "returned" ELSE c.pc) /\ b = (IF done /\ rx[1].ok THEN 0 ELSE c.rc)
                       /\ o = (IF done /\ rx[1].ok THEN Fetched(rx) ELSE c.out)
    OBVIOUS
  <2>6. call = [h \in Fetch |-> call[h]]
    BY DEF CallsInv
  <2>7. call' = [call EXCEPT ![g] = call'[g]]
    BY <2>4, <2>6
  <2>8. call'[g] = c2
    <3>1. c = [pc |-> c.pc, req |-> c.req, stream |-> s, rc |-> c.rc, out |-> c.out]
      BY <1>5, <1>7 DEF CallRec
    <3>2. PICK c0, c1 : /\ c0 = [pc |-> a, req |-> c.req, stream |-> s, rc |-> c.rc, out |-> c.out]
                        /\ c1 = [pc |-> a, req |-> c.req, stream |-> s, rc |-> b, out |-> c.out]
      OBVIOUS
    <3>3. PICK A : A = [call EXCEPT ![g] = c0]
      OBVIOUS
    <3>4. [call EXCEPT ![g].pc = IF done THEN "returned" ELSE @] = A
      <4>1. [c EXCEPT !.pc = a] = c0
        BY <3>1, <3>2
      <4>2. [call EXCEPT ![g].pc = a] = A
        BY <1>2, <3>3, <4>1
      <4> QED
        BY <1>2, <2>5, <4>2
    <3>5. PICK B : B = [call EXCEPT ![g] = c1]
      OBVIOUS
    <3>6. A[g] = c0
      BY <2>6, <3>3
    <3>7. [A EXCEPT ![g].rc = IF done /\ rx[1].ok THEN 0 ELSE @] = B
      <4>1. A = [h \in Fetch |-> IF h = g THEN c0 ELSE call[h]] /\ B = [h \in Fetch |-> IF h = g THEN c1 ELSE call[h]]
        BY <2>6, <3>3, <3>5
      <4>2. c0.rc = c.rc /\ [c0 EXCEPT !.rc = b] = c1
        BY <3>2
      <4>3. [A EXCEPT ![g] = c1] = B
        BY <4>1
      <4>4. [A EXCEPT ![g].rc = b] = B
        BY <3>6, <4>2, <4>3
      <4> QED
        BY <2>5, <3>6, <4>2, <4>4
    <3>8. B[g] = c1
      BY <2>6, <3>5
    <3>9. [B EXCEPT ![g].out = IF done /\ rx[1].ok THEN Fetched(rx) ELSE @][g] = c2
      <4>1. c1.out = c.out /\ [c1 EXCEPT !.out = o] = c2
        BY <1>6, <2>5, <3>2
      <4>2. B = [h \in Fetch |-> IF h = g THEN c1 ELSE call[h]]
        BY <2>6, <3>5
      <4>3. [B EXCEPT ![g] = c2][g] = c2
        BY <4>2
      <4>4. [B EXCEPT ![g].out = o][g] = c2
        BY <3>8, <4>1, <4>3
      <4> QED
        BY <2>5, <3>8, <4>1, <4>4
    <3> QED
      BY <2>4, <3>4, <3>7, <3>9
  <2> QED
    BY <2>7, <2>8
<1>9. /\ CallRec(c2) /\ c2.pc = (IF done THEN "returned" ELSE "calling") /\ c2.req = c.req /\ c2.stream = s
      /\ (c2.rc = 0 => c2.pc = "returned" /\ c2.out = Fetched(rx) /\ rx[1].ok /\ Received(rx) >= rx[1].len)
  <2>1. c.rc # 0
    BY <1>5, <1>7 DEF CallOK
  <2> QED
    BY <1>4, <1>5, <1>6, <2>1 DEF CallRec
<1>10. s # NoStream /\ OnStream(g, c)
  BY <1>5, <1>7, ServeAssumption DEF CallOK
<1>11. sess[s].pc = "open" /\ sess[s].req = Line(s, c.req) /\ (s = g \/ Left(s))
  BY <1>5, <1>10 DEF OnStream
<1>12. Fetched(rx) = Serves(Peer[s], c.req) \/ c2.rc # 0
  <2>1. c2.rc = 0 => Fetched(rx) = Body(Line(s, c.req).arg, 0, ServedLen(Line(s, c.req)))
    BY <1>1, <1>2, <1>3, <1>9, <1>11 DEF WholeValue
  <2>2. Line(s, c.req).arg = <<Peer[s], c.req.arg>> /\ Line(s, c.req).verb = c.req.verb
    BY DEF Line
  <2> QED
    BY <2>1, <2>2 DEF Serves, ServedLen
<1>13. s # g => Left(s)'
  <2>1. s # g => call'[s] = call[s]
    BY <1>8 DEF CallsInv
  <2> QED
    BY <1>11, <2>1 DEF Left
<1>14. OnStream(g, c2)'
  BY <1>1, <1>9, <1>11, <1>13 DEF OnStream
<1>15. CallOK(g, c2)'
  BY <1>7, <1>9, <1>10, <1>12, <1>14 DEF CallOK
<1>16. c2.pc = "calling" => \A h \in Fetch : call[h].pc = "calling" /\ Caller[h] = Caller[g] => h = g
  BY <1>2, <1>5 DEF CallsInv
<1>17. call[s].pc # "idle"
  <2>1. CallOK(s, call[s])
    BY DEF CallsInv
  <2> QED
    BY <1>11, <2>1 DEF CallOK
<1>18. sess[s].pc = "open" => x2.pc = "open" /\ x2.req = sess[s].req
  BY <1>1, <1>2
<1>19. sess' = [sess EXCEPT ![s] = x2] /\ call[g].pc # "returned"
  BY <1>1, <1>2, <1>5
<1>20. CallsInv'
  BY <1>8, <1>15, <1>16, <1>17, <1>18, <1>19, CallMoves
<1> QED
  BY <1>1, <1>20

\* A call ends without a value; its session stays as it is.
LEMMA CallTimesOut ==
  ASSUME CallsInv, LinesInv, NEW g \in Fetch, TimedOut(g)
  PROVE  CallsInv' /\ LinesInv'
<1>1. PICK c : c = call[g]
  OBVIOUS
<1>2. CallOK(g, c) /\ CallRec(c) /\ c.pc = "calling" /\ UNCHANGED <<sess, down, arrived, conns>>
  BY <1>1 DEF CallsInv, CallOK, TimedOut
<1>3. PICK c2 : c2 = [pc |-> "returned", req |-> c.req, stream |-> c.stream, rc |-> c.rc, out |-> c.out]
  OBVIOUS
<1>4. call' = [call EXCEPT ![g] = c2]
  <2>1. [c EXCEPT !.pc = "returned"] = c2
    BY <1>2, <1>3 DEF CallRec
  <2> QED
    BY <1>1, <2>1 DEF TimedOut, CallsInv
<1>5. CallRec(c2) /\ c2.pc = "returned" /\ c2.req = c.req /\ c2.stream = c.stream /\ c2.rc = c.rc /\ c2.out = c.out
  BY <1>3 DEF CallRec
<1>6. OnStream(g, c) => OnStream(g, c2)'
  <2>1. \A h \in Fetch : h # g => call'[h] = call[h]
    BY <1>4 DEF CallsInv
  <2> QED
    BY <1>2, <1>5, <2>1 DEF OnStream, Left
<1>7. CallOK(g, c2)'
  BY <1>2, <1>5, <1>6 DEF CallOK
<1>8. sess' = [sess EXCEPT ![g] = sess[g]]
  BY <1>2 DEF LinesInv
<1>9. CallsInv'
  BY <1>1, <1>2, <1>4, <1>5, <1>7, <1>8, CallMoves
<1>10. LinesInv'
  BY <1>2 DEF LinesInv, StreamOK, HasLine, LineOK
<1> QED
  BY <1>9, <1>10

\* What on_session and DialFailed make of a session that gets no stream.
LEMMA SilentIs ==
  ASSUME LinesInv, NEW s \in Fetch
  PROVE  sess[s].req \in Req /\ Silent(s) = [sess EXCEPT ![s] = SessionAs(sess[s], "silent", sess[s].req)]
<1>1. sess[s].req \in Req
  BY DEF LinesInv, StreamOK
<1>2. [sess EXCEPT ![s].pc = "silent"] = [sess EXCEPT ![s] = SessionAs(sess[s], "silent", sess[s].req)]
  BY SessionSteps
<1> QED
  BY <1>1, <1>2 DEF Silent

\* A dial ends while a call is under way.
LEMMA CallbackInCall ==
  ASSUME CallsInv, LinesInv, NEW s \in Fetch, NEW g \in Fetch, on_session(s, g) \/ DialFailed(s, g)
  PROVE  CallsInv' /\ LinesInv'
<1>1. /\ sess[s].pc = "dialing" /\ call[g].pc = "calling" /\ Caller[g] = Caller[s]
      /\ UNCHANGED <<down, arrived, conns>>
  BY DEF on_session, DialFailed
<1>2. CASE call[g].stream = NoStream /\ call' = [call EXCEPT ![g].stream = s] /\ sess' = Opened(s, call[g].req)
  BY <1>1, <1>2, CallGetsStream
<1>3. CASE sess' = Silent(s) /\ (UNCHANGED call \/ call' = [call EXCEPT ![g].pc = "returned"])
  <2>1. PICK r \in Req : r = sess[s].req /\ sess' = [sess EXCEPT ![s] = SessionAs(sess[s], "silent", r)]
    BY <1>3, SilentIs
  <2>2. PICK y : y = call'[g].pc
    OBVIOUS
  <2>3. call' = [call EXCEPT ![g].pc = y] /\ (y = call[g].pc \/ y = "returned")
    <3>1. CallRec(call[g]) /\ call = [h \in Fetch |-> call[h]]
      BY DEF CallsInv, CallOK
    <3>2. CASE UNCHANGED call
      <4>1. [call[g] EXCEPT !.pc = call[g].pc] = call[g]
        BY <3>1 DEF CallRec
      <4> QED
        BY <2>2, <3>1, <3>2, <4>1
    <3>3. CASE call' = [call EXCEPT ![g].pc = "returned"]
      <4>1. call'[g].pc = "returned"
        BY <3>1, <3>3 DEF CallRec
      <4> QED
        BY <2>2, <3>3, <4>1
    <3> QED
      BY <1>3, <3>2, <3>3
  <2> QED
    BY <1>1, <2>1, <2>3, SessionLeft
<1> QED
  BY <1>2, <1>3 DEF on_session, DialFailed

\* A dial ends between two calls.
LEMMA CallbackInDeadFrame ==
  ASSUME CallsInv, LinesInv, NEW s \in Fetch, DeadFrame(s)
  PROVE  CallsInv' /\ LinesInv'
<1>1. sess[s].pc = "dialing" /\ UNCHANGED <<call, down, arrived, conns>>
  BY DEF DeadFrame
<1>2. PICK y : y = call[s].pc
  OBVIOUS
<1>3. call' = [call EXCEPT ![s].pc = y]
  <2>1. CallRec(call[s]) /\ call = [h \in Fetch |-> call[h]]
    BY DEF CallsInv, CallOK
  <2>2. [call[s] EXCEPT !.pc = call[s].pc] = call[s]
    BY <2>1 DEF CallRec
  <2> QED
    BY <1>1, <1>2, <2>1, <2>2
<1>4. CASE sess' = Silent(s)
  <2>1. PICK r \in Req : r = sess[s].req /\ sess' = [sess EXCEPT ![s] = SessionAs(sess[s], "silent", r)]
    BY <1>4, SilentIs
  <2> QED
    BY <1>1, <1>2, <1>3, <2>1, SessionLeft
<1>5. CASE \E r \in Request : sess' = Opened(s, r)
  <2>1. PICK r \in Request : sess' = Opened(s, r)
    BY <1>5
  <2>2. PICK l \in Req : l = Line(s, r)
    BY DEF Req
  <2>3. sess' = [sess EXCEPT ![s] = SessionAs(sess[s], "open", l)]
    BY <2>1, <2>2, SessionSteps
  <2> QED
    BY <1>1, <1>2, <1>3, <2>3, SessionLeft
<1>6. CASE UNCHANGED sess
  <2>1. LinesInv'
    BY <1>1, <1>6 DEF LinesInv, StreamOK, HasLine, LineOK
  <2> QED
    BY <1>1, <1>6, <2>1, CallsSame
<1> QED
  BY <1>4, <1>5, <1>6 DEF DeadFrame

\* The start of the calls.
LEMMA CallsStart ==
  ASSUME ServeInit
  PROVE  CallsInv
<1>1. PICK c : c = [pc |-> "idle", req |-> NoRequest, stream |-> NoStream, rc |-> 1, out |-> <<>>]
  OBVIOUS
<1>2. call = [f \in Fetch |-> c] /\ \A f \in Fetch : sess[f].pc = "idle"
  BY <1>1 DEF ServeInit
<1>3. CallRec(c) /\ c.pc = "idle" /\ c.req = NoRequest /\ c.stream = NoStream /\ c.rc = 1
  BY <1>1 DEF CallRec
<1>4. \A g \in Fetch : CallOK(g, c)
  BY <1>2, <1>3 DEF CallOK
<1> QED
  BY <1>2, <1>3, <1>4 DEF CallsInv

ServeInv == LinesInv /\ CallsInv

\* The invariant holds on.
LEMMA ServeKeepsInv ==
  ASSUME ServeInv, [ServeNext]_serveVars
  PROVE  ServeInv'
<1> USE DEF ServeInv
<1>1. CASE UNCHANGED serveVars
  <2>1. UNCHANGED <<call, sess, down, arrived, conns>>
    BY <1>1 DEF serveVars
  <2>2. LinesInv'
    BY <2>1 DEF LinesInv, StreamOK, HasLine, LineOK
  <2> QED
    BY <2>1, <2>2, CallsSame
<1>2. ASSUME NEW f \in Fetch, NEW r \in Request, nornd_peer_fetch(f, r) PROVE ServeInv'
  BY <1>2, CallBegins
<1>3. ASSUME NEW f \in Fetch, NEW g \in Fetch, on_session(f, g) \/ DialFailed(f, g) PROVE ServeInv'
  BY <1>3, CallbackInCall
<1>4. ASSUME NEW f \in Fetch, NEW g \in Fetch, NEW n \in 1..Len(down[f]), pump_rx(g, f, n) PROVE ServeInv'
  BY <1>4, CallReads
<1>5. ASSUME NEW f \in Fetch, DeadFrame(f) PROVE ServeInv'
  BY <1>5, CallbackInDeadFrame
<1>6. ASSUME NEW f \in Fetch, TimedOut(f) PROVE ServeInv'
  BY <1>6, CallTimesOut
<1>7. ASSUME NEW f \in Fetch, on_served_accept(f) PROVE ServeInv'
  <2>1. UNCHANGED <<call, sess>>
    BY <1>7 DEF on_served_accept
  <2> QED
    BY <1>7, <2>1, AcceptsStream, CallsSame
<1>8. ASSUME NEW p \in Peers, NEW i \in DOMAIN conns[p], serve_host_pump(p, i) PROVE ServeInv'
  <2>1. UNCHANGED <<call, sess>>
    BY <1>8 DEF serve_host_pump
  <2> QED
    BY <1>8, <2>1, ServePumps, CallsSame
<1>9. CASE ServeNext
  BY <1>2, <1>3, <1>4, <1>5, <1>6, <1>7, <1>8, <1>9 DEF ServeNext
<1> QED
  BY <1>1, <1>9

\* What a call hands over is the whole of what one peer serves under the name it asked
\* for, and the peer is the one it named unless its stream is on the session of a call
\* that returned before it was established (peer_fetch.c:39, peer_fetch.c:185,
\* served_conn.c): whatever the peers, the sizes, the number of exchanges and the calls
\* that time out or end in a dead frame.
THEOREM FetchedServed == ServeSpec => []FetchedIsServed
<1>1. ServeInit => ServeInv
  BY StreamsStart, CallsStart DEF ServeInv
<1>2. ServeInv /\ [ServeNext]_serveVars => ServeInv'
  BY ServeKeepsInv
<1>3. ServeInv => FetchedIsServed
  <2> SUFFICES ASSUME ServeInv, NEW g \in Fetch, call[g].rc = 0
               PROVE  /\ call[g].out = Serves(Peer[call[g].stream], call[g].req)
                      /\ call[g].stream = g \/ Left(call[g].stream)
    BY DEF FetchedIsServed, Left
  <2> QED
    BY DEF ServeInv, CallsInv, CallOK, OnStream
<1> QED
  BY <1>1, <1>2, <1>3, PTL DEF ServeSpec

-----------------------------------------------------------------------------
(* The links of the cluster (NornTransport): the frames of a stream. *)

WireElem == [frame : Nat, at : Nat, len : Nat]

\* The elements of x behind a and up to b are those of frame f.
Placed(x, a, b, f) ==
  /\ a < b /\ b <= Len(x) /\ b - a - 1 <= NORND_FRAME_MAX
  /\ \A i \in (a + 1)..b : x[i] = [frame |-> f, at |-> i - a - 1, len |-> b - a - 1]

\* off tells where in x the frames of w behind the first k end.
Offsets(off, x, w, k) ==
  /\ off[k] = 0 /\ off[Len(w)] = Len(x)
  /\ \A j \in k..Len(w) : off[j] \in Nat
  /\ \A i, j \in k..Len(w) : i <= j => off[i] <= off[j]
  /\ \A j \in (k + 1)..Len(w) : Placed(x, off[j - 1], off[j], w[j])

\* x is the frames of w behind the first k, one after the other.
Carries(x, w, k) ==
  /\ x \in Seq(WireElem) /\ w \in Seq(Nat) /\ k \in 0..Len(w)
  /\ \E off : Offsets(off, x, w, k)

\* Nothing is no frame.
LEMMA CarriesNone ==
  ASSUME NEW e, e = <<>>
  PROVE  Carries(e, e, 0)
<1>1. e \in Seq(WireElem) /\ e \in Seq(Nat) /\ Len(e) = 0
  BY EmptySeq
<1>2. PICK off : off = [i \in {0} |-> 0]
  OBVIOUS
<1>3. off[0] = 0
  BY <1>2
<1>4. \A j \in 0..0 : j = 0
  OBVIOUS
<1>5. \A j \in (0 + 1)..0 : FALSE
  OBVIOUS
<1>6. Offsets(off, e, e, 0)
  BY <1>1, <1>3, <1>4, <1>5 DEF Offsets
<1>7. 0 \in 0..Len(e)
  BY <1>1
<1> QED
  BY <1>1, <1>6, <1>7 DEF Carries

\* When nothing is carried, every frame has been.
LEMMA CarriesEnd ==
  ASSUME NEW e, e = <<>>, NEW w, NEW k, Carries(e, w, k)
  PROVE  k = Len(w)
<1>1. PICK n \in Nat : n = Len(w)
  BY LenProperties DEF Carries
<1>2. PICK off : Offsets(off, e, w, k)
  BY DEF Carries
<1>3. k \in 0..n /\ Len(e) = 0
  BY <1>1, EmptySeq DEF Carries
<1>4. SUFFICES ASSUME k # n PROVE FALSE
  BY <1>1
<1>5. k + 1 \in (k + 1)..n /\ k + 1 \in k..n /\ n \in k..n /\ k + 1 <= n /\ (k + 1) - 1 = k
  BY <1>3, <1>4
<1>6. off[k] = 0 /\ off[n] = 0 /\ off[k + 1] \in Nat /\ off[k + 1] <= off[n]
  BY <1>1, <1>2, <1>3, <1>5 DEF Offsets
<1>7. Placed(e, off[(k + 1) - 1], off[k + 1], w[k + 1])
  BY <1>1, <1>2, <1>5 DEF Offsets
<1>8. off[(k + 1) - 1] < off[k + 1]
  BY <1>7 DEF Placed
<1> QED
  BY <1>5, <1>6, <1>8

\* One frame more.
LEMMA CarriesMore ==
  ASSUME NEW x, NEW w, NEW k, Carries(x, w, k), NEW f \in Nat, NEW l \in Nat, l <= NORND_FRAME_MAX,
         NEW y \in Seq(WireElem), Len(y) = l + 1,
         \A i \in 1..(l + 1) : y[i] = [frame |-> f, at |-> i - 1, len |-> l]
  PROVE  Carries(x \o y, Append(w, f), k)
<1>1. x \in Seq(WireElem) /\ w \in Seq(Nat) /\ k \in 0..Len(w)
  BY DEF Carries
<1>2. PICK n \in Nat : n = Len(w)
  BY <1>1, LenProperties
<1>3. PICK m \in Nat : m = Len(x)
  BY <1>1, LenProperties
<1>4. PICK off : Offsets(off, x, w, k)
  BY DEF Carries
<1>5. PICK z : z = x \o y
  OBVIOUS
<1>6. /\ z \in Seq(WireElem) /\ Len(z) = m + (l + 1)
      /\ \A i \in 1..(m + (l + 1)) : z[i] = IF i <= m THEN x[i] ELSE y[i - m]
  <2>1. PICK d \in Nat : d = Len(y)
    OBVIOUS
  <2>2. /\ z \in Seq(WireElem) /\ Len(z) = m + d
        /\ \A i \in 1..(m + d) : z[i] = IF i <= m THEN x[i] ELSE y[i - m]
    BY <1>1, <1>3, <1>5, <2>1, ConcatProperties
  <2> QED
    BY <2>1, <2>2
<1>7. PICK v : v = Append(w, f)
  OBVIOUS
<1>8. v \in Seq(Nat) /\ Len(v) = n + 1 /\ (\A i \in 1..n : v[i] = w[i]) /\ v[n + 1] = f
  BY <1>1, <1>2, <1>7, AppendProperties
<1>9. PICK o : o = [j \in k..(n + 1) |-> IF j = n + 1 THEN m + (l + 1) ELSE off[j]]
  OBVIOUS
<1>10. k \in Int /\ k <= n /\ k >= 0 /\ k \in 0..(n + 1)
  BY <1>1, <1>2
<1>11. o[n + 1] = m + (l + 1) /\ \A j \in k..n : o[j] = off[j]
  <2>1. n + 1 \in k..(n + 1) /\ \A j \in k..n : j \in k..(n + 1) /\ j # n + 1
    BY <1>10
  <2> QED
    BY <1>9, <2>1
<1>12. /\ off[k] = 0 /\ off[n] = m
       /\ \A j \in k..n : off[j] \in Nat
       /\ \A i, j \in k..n : i <= j => off[i] <= off[j]
       /\ \A j \in (k + 1)..n : Placed(x, off[j - 1], off[j], w[j])
  BY <1>2, <1>3, <1>4 DEF Offsets
<1>13. \A j \in k..(n + 1) : j \in k..n \/ j = n + 1
  BY <1>10
<1>14. k \in k..n /\ n \in k..n /\ (n + 1) - 1 = n
  BY <1>10
<1>15. o[k] = 0 /\ o[n + 1] = Len(z)
  BY <1>6, <1>11, <1>12, <1>14
<1>16. \A j \in k..(n + 1) : o[j] \in Nat
  BY <1>11, <1>12, <1>13
<1>17. \A i, j \in k..(n + 1) : i <= j => o[i] <= o[j]
  <2> SUFFICES ASSUME NEW i \in k..(n + 1), NEW j \in k..(n + 1), i <= j PROVE o[i] <= o[j]
    OBVIOUS
  <2>1. CASE j \in k..n
    <3>1. i \in k..n
      BY <1>10, <2>1
    <3> QED
      BY <1>11, <1>12, <2>1, <3>1
  <2>2. CASE j = n + 1 /\ i \in k..n
    <3>1. off[i] <= off[n] /\ off[i] \in Nat
      BY <1>10, <1>12, <1>14, <2>2
    <3> QED
      BY <1>11, <1>12, <2>2, <3>1
  <2>3. CASE j = n + 1 /\ i = n + 1
    BY <1>11, <2>3
  <2> QED
    BY <1>13, <2>1, <2>2, <2>3
<1>18. ASSUME NEW j \in (k + 1)..(n + 1) PROVE Placed(z, o[j - 1], o[j], v[j])
  <2>1. CASE j # n + 1
    <3>1. j \in (k + 1)..n /\ j - 1 \in k..n /\ j \in k..n /\ j \in 1..n
      BY <1>10, <2>1
    <3>2. PICK a : a = off[j - 1]
      OBVIOUS
    <3>3. PICK b : b = off[j]
      OBVIOUS
    <3>4. a \in Nat /\ b \in Nat /\ o[j - 1] = a /\ o[j] = b /\ v[j] = w[j]
      BY <1>8, <1>11, <1>12, <3>1, <3>2, <3>3
    <3>5. Placed(x, a, b, w[j])
      BY <1>12, <3>1, <3>2, <3>3
    <3>6. /\ a < b /\ b <= m /\ b - a - 1 <= NORND_FRAME_MAX
          /\ \A i \in (a + 1)..b : x[i] = [frame |-> w[j], at |-> i - a - 1, len |-> b - a - 1]
      BY <1>3, <3>5 DEF Placed
    <3>7. \A i \in (a + 1)..b : i \in 1..(m + (l + 1)) /\ i <= m
      BY <3>4, <3>6
    <3>8. \A i \in (a + 1)..b : z[i] = x[i]
      BY <1>6, <3>7
    <3>9. b <= Len(z)
      BY <1>6, <3>4, <3>6
    <3>10. \A i \in (a + 1)..b : z[i] = [frame |-> w[j], at |-> i - a - 1, len |-> b - a - 1]
      BY <3>6, <3>8
    <3>11. Placed(z, a, b, w[j])
      BY <3>6, <3>9, <3>10, Zenon DEF Placed
    <3> QED
      BY <3>4, <3>11
  <2>2. CASE j = n + 1
    <3>1. o[j - 1] = m /\ o[j] = m + (l + 1) /\ v[j] = f
      BY <1>8, <1>11, <1>12, <1>14, <2>2
    <3>2. (m + (l + 1)) - m - 1 = l /\ m < m + (l + 1)
      OBVIOUS
    <3>3. ASSUME NEW i \in (m + 1)..(m + (l + 1)) PROVE z[i] = [frame |-> f, at |-> i - m - 1, len |-> l]
      <4>1. i \in 1..(m + (l + 1)) /\ ~(i <= m) /\ i - m \in 1..(l + 1)
        OBVIOUS
      <4> QED
        BY <1>6, <4>1
    <3>4. Placed(z, m, m + (l + 1), f)
      BY <1>6, <3>2, <3>3 DEF Placed
    <3> QED
      BY <3>1, <3>4
  <2> QED
    BY <2>1, <2>2
<1>19. Offsets(o, z, v, k)
  BY <1>8, <1>15, <1>16, <1>17, <1>18 DEF Offsets
<1>20. Carries(z, v, k)
  BY <1>6, <1>8, <1>10, <1>19 DEF Carries
<1> QED
  BY <1>5, <1>7, <1>20

\* At the front of x is the frame of w behind the first k, of length l, and then the others.
FirstFrame(x, w, k, l) ==
  /\ l <= NORND_FRAME_MAX /\ l + 1 <= Len(x)
  /\ \A i \in 1..(l + 1) : x[i] = [frame |-> w[k + 1], at |-> i - 1, len |-> l]
  /\ \E z : z = SubSeq(x, l + 2, Len(x)) /\ Carries(z, w, k + 1)

\* What is carried first: the whole of the next frame, and then the others.
LEMMA CarriesFirst ==
  ASSUME NEW x, NEW w, NEW k, Carries(x, w, k), x # <<>>
  PROVE  /\ k < Len(w)
         /\ \E l \in Nat : FirstFrame(x, w, k, l)
<1>1. x \in Seq(WireElem) /\ w \in Seq(Nat) /\ k \in 0..Len(w)
  BY DEF Carries
<1>2. PICK n \in Nat : n = Len(w)
  BY <1>1, LenProperties
<1>3. PICK m \in Nat : m = Len(x)
  BY <1>1, LenProperties
<1>4. PICK off : Offsets(off, x, w, k)
  BY DEF Carries
<1>5. /\ off[k] = 0 /\ off[n] = m
      /\ \A j \in k..n : off[j] \in Nat
      /\ \A i, j \in k..n : i <= j => off[i] <= off[j]
      /\ \A j \in (k + 1)..n : Placed(x, off[j - 1], off[j], w[j])
  BY <1>2, <1>3, <1>4 DEF Offsets
<1>6. m # 0
  BY <1>1, <1>3, EmptySeq, SeqEqual
<1>7. k \in Nat /\ k < n
  BY <1>1, <1>2, <1>5, <1>6
<1>8. k + 1 \in (k + 1)..n /\ k + 1 \in k..n /\ n \in k..n /\ (k + 1) - 1 = k
  BY <1>7
<1>9. PICK c \in Nat : c = off[k + 1]
  BY <1>5, <1>8
<1>10. Placed(x, 0, c, w[k + 1])
  BY <1>5, <1>8, <1>9
<1>11. /\ 0 < c /\ c <= m /\ c - 0 - 1 <= NORND_FRAME_MAX
       /\ \A i \in (0 + 1)..c : x[i] = [frame |-> w[k + 1], at |-> i - 0 - 1, len |-> c - 0 - 1]
  BY <1>3, <1>10 DEF Placed
<1>12. PICK l \in Nat : l = c - 1
  BY <1>11
<1>13. l + 1 = c /\ l + 2 = c + 1 /\ c - 0 - 1 = l /\ \A i \in 1..c : i \in (0 + 1)..c /\ i - 0 - 1 = i - 1
  BY <1>12
<1>14. \A i \in 1..(l + 1) : x[i] = [frame |-> w[k + 1], at |-> i - 1, len |-> l]
  BY <1>11, <1>13
<1>15. PICK z : z = SubSeq(x, c + 1, m)
  OBVIOUS
<1>16. z \in Seq(WireElem) /\ Len(z) = m - c /\ \A i \in 1..(m - c) : z[i] = x[c + i]
  <2>1. \A i \in (c + 1)..m : x[i] \in WireElem
    BY <1>1, <1>3, ElementOfSeq
  <2>2. /\ z \in Seq(WireElem) /\ Len(z) = IF c + 1 <= m THEN m - (c + 1) + 1 ELSE 0
        /\ \A i \in 1..(m - (c + 1) + 1) : z[i] = x[(c + 1) + i - 1]
    BY <1>1, <1>3, <1>15, <2>1, SubSeqProperties
  <2>3. m - (c + 1) + 1 = m - c /\ (~(c + 1 <= m) => m - c = 0) /\ \A i \in 1..(m - c) : (c + 1) + i - 1 = c + i
    BY <1>11
  <2> QED
    BY <2>2, <2>3
<1>17. PICK o : o = [j \in (k + 1)..n |-> off[j] - c]
  OBVIOUS
<1>18. \A j \in (k + 1)..n : o[j] = off[j] - c /\ off[j] \in Nat /\ c <= off[j] /\ o[j] \in Nat
  <2> SUFFICES ASSUME NEW j \in (k + 1)..n PROVE o[j] = off[j] - c /\ off[j] \in Nat /\ c <= off[j] /\ o[j] \in Nat
    OBVIOUS
  <2>1. j \in k..n /\ k + 1 <= j
    BY <1>7
  <2>2. off[j] \in Nat /\ c <= off[j]
    BY <1>5, <1>8, <1>9, <2>1
  <2> QED
    BY <1>17, <2>2
<1>19. o[k + 1] = 0 /\ o[n] = Len(z)
  BY <1>5, <1>7, <1>8, <1>9, <1>16, <1>18
<1>20. \A i, j \in (k + 1)..n : i <= j => o[i] <= o[j]
  <2> SUFFICES ASSUME NEW i \in (k + 1)..n, NEW j \in (k + 1)..n, i <= j PROVE o[i] <= o[j]
    OBVIOUS
  <2>1. i \in k..n /\ j \in k..n
    BY <1>7
  <2>2. off[i] <= off[j]
    BY <1>5, <2>1
  <2> QED
    BY <1>18, <2>2
<1>21. ASSUME NEW j \in ((k + 1) + 1)..n PROVE Placed(z, o[j - 1], o[j], w[j])
  <2>1. j \in (k + 1)..n /\ j - 1 \in (k + 1)..n
    BY <1>7
  <2>2. PICK a \in Nat : a = off[j - 1]
    BY <1>18, <2>1
  <2>3. PICK b \in Nat : b = off[j]
    BY <1>18, <2>1
  <2>4. c <= a /\ c <= b /\ o[j - 1] = a - c /\ o[j] = b - c
    BY <1>18, <2>1, <2>2, <2>3
  <2>5. Placed(x, a, b, w[j])
    BY <1>5, <2>1, <2>2, <2>3
  <2>6. /\ a < b /\ b <= m /\ b - a - 1 <= NORND_FRAME_MAX
        /\ \A i \in (a + 1)..b : x[i] = [frame |-> w[j], at |-> i - a - 1, len |-> b - a - 1]
    BY <1>3, <2>5 DEF Placed
  <2>7. a - c < b - c /\ b - c <= m - c /\ (b - c) - (a - c) - 1 = b - a - 1
    BY <2>4, <2>6
  <2>8. ASSUME NEW i \in ((a - c) + 1)..(b - c)
        PROVE  z[i] = [frame |-> w[j], at |-> i - (a - c) - 1, len |-> b - a - 1]
    <3>1. i \in 1..(m - c) /\ c + i \in (a + 1)..b /\ (c + i) - a - 1 = i - (a - c) - 1
      BY <2>4, <2>6
    <3> QED
      BY <1>16, <2>6, <3>1
  <2>9. Placed(z, a - c, b - c, w[j])
    BY <1>16, <2>6, <2>7, <2>8 DEF Placed
  <2> QED
    BY <2>4, <2>9
<1>22. Offsets(o, z, w, k + 1)
  BY <1>2, <1>18, <1>19, <1>20, <1>21 DEF Offsets
<1>23. k + 1 \in 0..n
  BY <1>7
<1>24. Carries(z, w, k + 1)
  BY <1>1, <1>2, <1>16, <1>22, <1>23 DEF Carries
<1>25. z = SubSeq(x, l + 2, Len(x))
  BY <1>3, <1>13, <1>15
<1>26. l <= NORND_FRAME_MAX /\ l + 1 <= Len(x)
  BY <1>3, <1>11, <1>13
<1>27. FirstFrame(x, w, k, l)
  BY <1>14, <1>24, <1>25, <1>26, Zenon DEF FirstFrame
<1> QED
  BY <1>2, <1>7, <1>27

-----------------------------------------------------------------------------
(* The framer (NornTransport). *)

FramerEntry == [session : Nat, buf : Seq(WireElem), start : Nat]
FramerOK(ic) == ic \in FramerEntry /\ ic.start <= Len(ic.buf)

\* What is not read yet.
LEMMA UnreadIs ==
  ASSUME NEW ic, FramerOK(ic), NEW u, u = Unread(ic)
  PROVE  /\ u \in Seq(WireElem) /\ Len(u) = Len(ic.buf) - ic.start /\ Len(u) \in Nat
         /\ \A i \in 1..Len(u) : u[i] = ic.buf[ic.start + i]
<1>1. PICK b \in Seq(WireElem) : b = ic.buf
  BY DEF FramerOK, FramerEntry
<1>2. PICK a \in Nat : a = ic.start
  BY DEF FramerOK, FramerEntry
<1>3. PICK m \in Nat : m = Len(b)
  BY LenProperties
<1>4. a <= m /\ u = SubSeq(b, a + 1, m)
  BY <1>1, <1>2, <1>3 DEF FramerOK, Unread
<1>5. u \in Seq(WireElem) /\ Len(u) = m - a /\ \A i \in 1..(m - a) : u[i] = b[a + i]
  <2>1. \A i \in (a + 1)..m : b[i] \in WireElem
    BY <1>3, ElementOfSeq
  <2>2. /\ u \in Seq(WireElem) /\ Len(u) = IF a + 1 <= m THEN m - (a + 1) + 1 ELSE 0
        /\ \A i \in 1..(m - (a + 1) + 1) : u[i] = b[(a + 1) + i - 1]
    BY <1>3, <1>4, <2>1, SubSeqProperties
  <2>3. m - (a + 1) + 1 = m - a /\ (~(a + 1 <= m) => m - a = 0) /\ \A i \in 1..(m - a) : (a + 1) + i - 1 = a + i
    BY <1>4
  <2> QED
    BY <2>2, <2>3
<1> QED
  BY <1>1, <1>2, <1>3, <1>4, <1>5

\* What is left of a sequence behind a.
LEMMA TailFrom ==
  ASSUME NEW X, NEW s \in Seq(X), NEW m \in Nat, m = Len(s), NEW a \in Nat, a <= m,
         NEW t, t = SubSeq(s, a + 1, m)
  PROVE  t \in Seq(X) /\ Len(t) = m - a /\ \A i \in 1..(m - a) : t[i] = s[a + i]
<1>1. \A i \in (a + 1)..m : s[i] \in X
  BY ElementOfSeq
<1>2. /\ t \in Seq(X) /\ Len(t) = IF a + 1 <= m THEN m - (a + 1) + 1 ELSE 0
      /\ \A i \in 1..(m - (a + 1) + 1) : t[i] = s[(a + 1) + i - 1]
  BY <1>1, SubSeqProperties
<1>3. m - (a + 1) + 1 = m - a /\ (~(a + 1 <= m) => m - a = 0) /\ \A i \in 1..(m - a) : (a + 1) + i - 1 = a + i
  OBVIOUS
<1> QED
  BY <1>2, <1>3

\* t without its first d is s without its first e.
SameTail(s, t, d, e) == SubSeq(t, d + 1, Len(t)) = SubSeq(s, e + 1, Len(s))

\* What is left of what is left.
LEMMA TailOfTail ==
  ASSUME NEW X, NEW s \in Seq(X), NEW m \in Nat, m = Len(s), NEW a \in Nat, NEW d \in Nat, a + d <= m,
         NEW t, t = SubSeq(s, a + 1, m)
  PROVE  SameTail(s, t, d, a + d)
<1>1. t \in Seq(X) /\ Len(t) = m - a /\ \A i \in 1..(m - a) : t[i] = s[a + i]
  <2>1. \A p, q, r \in Nat : p + q <= r => p <= r
    OBVIOUS
  <2>2. a <= m
    BY <2>1
  <2> QED
    BY <2>2, TailFrom
<1>2. PICK c \in Nat : c = a + d
  OBVIOUS
<1>0. \A p, q, r \in Nat : p + q <= r => r - p \in Nat /\ q <= r - p
  OBVIOUS
<1>3. PICK l \in Nat : l = m - a /\ d <= l
  BY <1>0
<1>4. PICK u : u = SubSeq(s, c + 1, m)
  OBVIOUS
<1>5. PICK v : v = SubSeq(t, d + 1, l)
  OBVIOUS
<1>6. u \in Seq(X) /\ Len(u) = m - c /\ \A i \in 1..(m - c) : u[i] = s[c + i]
  BY <1>2, <1>4, TailFrom
<1>7. v \in Seq(X) /\ Len(v) = l - d /\ \A i \in 1..(l - d) : v[i] = t[d + i]
  BY <1>1, <1>3, <1>5, TailFrom
<1>8. l - d = m - c /\ \A i \in 1..(m - c) : d + i \in 1..(m - a) /\ a + (d + i) = c + i
  BY <1>2, <1>3
<1>9. \A i \in 1..(m - c) : u[i] = v[i]
  BY <1>1, <1>6, <1>7, <1>8
<1>10. u = v
  BY <1>6, <1>7, <1>8, <1>9, SeqEqual
<1> QED
  BY <1>1, <1>2, <1>3, <1>4, <1>5, <1>10 DEF SameTail

\* jc is ic when d more elements of what is unread, u, are read.
SkipsOn(ic, jc, u, d) ==
  FramerOK(jc) /\ jc.session = ic.session /\ Unread(jc) = SubSeq(u, d + 1, Len(u))

\* The framer reads past n elements.
LEMMA ReadPast ==
  ASSUME NEW ic, FramerOK(ic), NEW u, u = Unread(ic), NEW a \in Nat, a = ic.start,
         NEW d \in Nat, d <= Len(u), NEW c \in Nat, c = a + d
  PROVE  SkipsOn(ic, [ic EXCEPT !.start = c], u, d)
<1>1. PICK b \in Seq(WireElem) : b = ic.buf
  BY DEF FramerOK, FramerEntry
<1>2. PICK m \in Nat : m = Len(b)
  BY LenProperties
<1>3. a <= m /\ Len(u) = m - a /\ u = SubSeq(b, a + 1, m)
  BY <1>1, <1>2, UnreadIs DEF FramerOK, Unread
<1>4. c <= m /\ a + d <= m
  BY <1>2, <1>3
<1>9. SameTail(b, u, d, a + d)
  BY <1>2, <1>3, <1>4, TailOfTail
<1>5. SubSeq(u, d + 1, Len(u)) = SubSeq(b, c + 1, m)
  BY <1>2, <1>9 DEF SameTail
<1>6. PICK jc : jc = [ic EXCEPT !.start = c]
  OBVIOUS
<1>7. jc \in FramerEntry /\ jc.session = ic.session /\ jc.buf = b /\ jc.start = c
  BY <1>1, <1>6 DEF FramerOK, FramerEntry
<1>8. FramerOK(jc) /\ Unread(jc) = SubSeq(b, c + 1, m)
  BY <1>2, <1>4, <1>7 DEF FramerOK, Unread
<1> QED
  BY <1>5, <1>6, <1>7, <1>8 DEF SkipsOn

\* The first elements of u are not a whole frame.
NoWhole(u) == u = <<>> \/ Len(u) < 1 + u[1].len

\* One more frame is read from ic, of which n elements follow the first.
OneRead(ic, u, res, n) ==
  /\ res.r = "one" /\ u # <<>> /\ n + 1 <= Len(u)
  /\ FramerOK(res.ic) /\ res.ic.session = ic.session /\ Unread(res.ic) = SubSeq(u, n + 2, Len(u))
  /\ res.frame = Whole(u[1], SubSeq(u, 2, n + 1)) /\ res.frame \in Nat

\* What nornd_framer_next does, by the length n it takes the frame to have.
NextDoes(ic, u, junk, res) ==
  \/ u = <<>> /\ res.r = "none" /\ res.ic = ic
  \/ u # <<>> /\ \E n \in Nat :
       /\ n = IF u[1].at = 0 THEN u[1].len ELSE junk
       /\ \/ n > NORND_FRAME_MAX /\ res.r = "bad" /\ res.ic = ic
          \/ n <= NORND_FRAME_MAX /\ Len(u) < 1 + n /\ res.r = "none" /\ res.ic = ic
          \/ n <= NORND_FRAME_MAX /\ OneRead(ic, u, res, n)

\* It does that.
LEMMA NextIs ==
  ASSUME NEW ic, FramerOK(ic), NEW junk \in Nat, NEW u, u = Unread(ic), NEW res,
         res = nornd_framer_next(ic, junk)
  PROVE  NextDoes(ic, u, junk, res)
<1>1. u \in Seq(WireElem) /\ Len(u) \in Nat
  BY UnreadIs
<1>2. CASE u = <<>>
  BY <1>2 DEF nornd_framer_next, NextDoes
<1>3. CASE u # <<>>
  <2>1. 1 \in 1..Len(u) /\ Head(u) = u[1]
    BY <1>1, <1>3, HeadTailProperties, EmptySeq, SeqEqual
  <2>2. PICK h \in WireElem : h = u[1]
    BY <1>1, <2>1, ElementOfSeq
  <2>3. h.at \in Nat /\ h.len \in Nat /\ h.frame \in Nat
    BY DEF WireElem
  <2>4. PICK n : n = IF h.at = 0 THEN h.len ELSE junk
    OBVIOUS
  <2>5. n \in Nat
    BY <2>3, <2>4
  <2>6. Says(ic, junk) = n
    BY <2>1, <2>2, <2>4 DEF Says
  <2>7. PICK f : f = Whole(h, SubSeq(u, 2, n + 1))
    OBVIOUS
  <2>8. f \in Nat
    BY <2>3, <2>7 DEF Whole
  <2>0. PICK a \in Nat : a = ic.start
    BY DEF FramerOK, FramerEntry
  <2>15. PICK d \in Nat : d = n + 1
    BY <2>5
  <2>16. PICK c \in Nat : c = a + d
    BY <2>15
  <2>17. c = a + 1 + n /\ d + 1 = n + 2
    BY <2>5, <2>15, <2>16
  <2>9. PICK jc : jc = [ic EXCEPT !.start = c]
    OBVIOUS
  <2>10. res = IF n > NORND_FRAME_MAX THEN [r |-> "bad", ic |-> ic]
               ELSE IF Len(u) < 1 + n THEN [r |-> "none", ic |-> ic]
               ELSE [r |-> "one", ic |-> jc, frame |-> f]
    BY <1>3, <2>0, <2>1, <2>2, <2>6, <2>7, <2>9, <2>17 DEF nornd_framer_next
  <2>11. NORND_FRAME_MAX \in Nat
    BY TransportAssumption
  <2>12. CASE n > NORND_FRAME_MAX
    <3>1. res.r = "bad" /\ res.ic = ic
      BY <2>10, <2>12
    <3> QED
      BY <1>3, <2>2, <2>4, <2>5, <2>12, <3>1 DEF NextDoes
  <2>13. CASE n <= NORND_FRAME_MAX /\ Len(u) < 1 + n
    <3>1. res.r = "none" /\ res.ic = ic
      BY <2>5, <2>10, <2>11, <2>13
    <3> QED
      BY <1>3, <2>2, <2>4, <2>5, <2>13, <3>1 DEF NextDoes
  <2>14. CASE n <= NORND_FRAME_MAX /\ ~(Len(u) < 1 + n)
    <3>1. res.r = "one" /\ res.ic = jc /\ res.frame = f
      BY <2>5, <2>10, <2>11, <2>14
    <3>2. n + 1 <= Len(u)
      BY <1>1, <2>5, <2>14
    <3>5. d <= Len(u)
      BY <2>15, <3>2
    <3>6. SkipsOn(ic, jc, u, d)
      BY <2>0, <2>9, <2>15, <2>16, <3>5, ReadPast
    <3>3. FramerOK(jc) /\ jc.session = ic.session /\ Unread(jc) = SubSeq(u, d + 1, Len(u))
      BY <3>6 DEF SkipsOn
    <3>4. OneRead(ic, u, res, n)
      BY <1>3, <2>2, <2>7, <2>8, <2>17, <3>1, <3>2, <3>3 DEF OneRead
    <3> QED
      BY <1>3, <2>2, <2>4, <2>5, <2>14, <3>4 DEF NextDoes
  <2> QED
    BY <2>5, <2>11, <2>12, <2>13, <2>14
<1> QED
  BY <1>2, <1>3

\* T[j] is what the framer ic comes to in j turns, and f what m turns give.
Turns(T, ic, junk, m, f) ==
  /\ f = [ic |-> T[m].ic, got |-> T[m].got, bad |-> nornd_framer_next(T[m].ic, junk).r = "bad"]
  /\ T[0] = [ic |-> ic, got |-> <<>>]
  /\ \A j \in 1..m : T[j] = FrameTurn(T[j - 1], junk)

\* Frames is one turn after the other.
LEMMA FramesIs ==
  ASSUME NEW ic, NEW junk, NEW m \in Nat, m = Len(Unread(ic))
  PROVE  \E T : Turns(T, ic, junk, m, Frames(ic, junk))
<1> DEFINE b0 == [ic |-> ic, got |-> <<>>]
           N == m
           F(g) == [j \in 0..N |-> IF j = 0 THEN b0 ELSE FrameTurn(g[j - 1], junk)]
           S == {k \in Nat : \E g : g[0] = b0 /\ \A j \in 1..k : g[j] = FrameTurn(g[j - 1], junk)}
<1>0. N \in Nat
  OBVIOUS
<1>1. 0 \in S
  <2>1. PICK b : b = b0
    OBVIOUS
  <2>2. PICK g : g = [i \in {0} |-> b]
    OBVIOUS
  <2>3. g[0] = b /\ \A j \in 1..0 : g[j] = FrameTurn(g[j - 1], junk)
    BY <2>2
  <2> QED
    BY <2>1, <2>3
<1>2. ASSUME NEW k \in 0..N-1, k \in S PROVE k + 1 \in S
  <2>1. PICK g : g[0] = b0 /\ \A j \in 1..k : g[j] = FrameTurn(g[j - 1], junk)
    BY <1>2
  <2>2. k \in Nat /\ k + 1 \in Nat
    BY <1>0
  <2>3. PICK y : y = FrameTurn(g[k], junk)
    OBVIOUS
  <2>4. PICK h : h = [i \in 0..(k + 1) |-> IF i <= k THEN g[i] ELSE y]
    OBVIOUS
  <2>5. h[k + 1] = y /\ \A i \in 0..k : h[i] = g[i]
    BY <2>2, <2>4
  <2>6. ASSUME NEW j \in 1..(k + 1) PROVE h[j] = FrameTurn(h[j - 1], junk)
    <3>1. CASE j = k + 1
      <4>1. j - 1 = k /\ k \in 0..k
        BY <2>2, <3>1
      <4> QED
        BY <2>3, <2>5, <3>1, <4>1
    <3>2. CASE j # k + 1
      <4>1. j \in 1..k /\ j - 1 \in 0..k /\ j \in 0..k
        BY <2>2, <3>2
      <4> QED
        BY <2>1, <2>5, <4>1
    <3> QED
      BY <3>1, <3>2
  <2>7. h[0] = b0
    BY <2>1, <2>2, <2>5
  <2> QED
    BY <2>2, <2>6, <2>7
<1>3. N \in S
  <2> HIDE DEF S, N
  <2>1. \A k \in 0..N : k \in S
    BY <1>0, <1>1, <1>2, UpTo
  <2> QED
    BY <1>0, <2>1
<1>4. PICK g : g[0] = b0 /\ \A j \in 1..N : g[j] = FrameTurn(g[j - 1], junk)
  BY <1>3
<1>5. \E x : x = F(x)
  <2> HIDE DEF N, b0
  <2>1. PICK x : x = [j \in 0..N |-> g[j]]
    OBVIOUS
  <2>2. x = F(x)
    <3>1. \A j \in 0..N : x[j] = g[j]
      BY <2>1
    <3>2. \A j \in 1..N : j - 1 \in 0..N /\ j \in 0..N
      BY <1>0
    <3>3. \A j \in 0..N : x[j] = IF j = 0 THEN b0 ELSE FrameTurn(x[j - 1], junk)
      BY <1>0, <1>4, <3>1, <3>2
    <3> QED
      BY <2>1, <3>1, <3>3
  <2> QED
    BY <2>2
<1> DEFINE T == CHOOSE x : x = F(x)
<1>6. Frames(ic, junk) = [ic |-> T[N].ic, got |-> T[N].got, bad |-> nornd_framer_next(T[N].ic, junk).r = "bad"]
  BY DEF Frames
<1>7. T = F(T)
  <2> HIDE DEF F
  <2> QED
    BY <1>5
<1> HIDE DEF T
<1>8. T[0] = b0 /\ \A j \in 1..N : T[j] = FrameTurn(T[j - 1], junk)
  <2> HIDE DEF b0, N
  <2> QED
    BY <1>0, <1>7
<1>9. Turns(T, ic, junk, m, Frames(ic, junk))
  BY <1>6, <1>8 DEF Turns
<1> QED
  BY <1>9

\* So is a visit of the receiver.
LEMMA PolledIs ==
  ASSUME NEW ic, NEW rest, NEW n \in Nat, NEW junk
  PROVE  \E T : /\ Polled(ic, rest, n, junk) = T[n] /\ T[0] = [ic |-> ic, rest |-> rest, more |-> n, got |-> <<>>, lost |-> FALSE]
                /\ \A j \in 1..n : T[j] = Round(T[j - 1], junk)
<1> DEFINE b0 == [ic |-> ic, rest |-> rest, more |-> n, got |-> <<>>, lost |-> FALSE]
           N == n
           F(g) == [j \in 0..N |-> IF j = 0 THEN b0 ELSE Round(g[j - 1], junk)]
           S == {k \in Nat : \E g : g[0] = b0 /\ \A j \in 1..k : g[j] = Round(g[j - 1], junk)}
<1>0. N \in Nat
  OBVIOUS
<1>1. 0 \in S
  <2>1. PICK b : b = b0
    OBVIOUS
  <2>2. PICK g : g = [i \in {0} |-> b]
    OBVIOUS
  <2>3. g[0] = b /\ \A j \in 1..0 : g[j] = Round(g[j - 1], junk)
    BY <2>2
  <2> QED
    BY <2>1, <2>3
<1>2. ASSUME NEW k \in 0..N-1, k \in S PROVE k + 1 \in S
  <2>1. PICK g : g[0] = b0 /\ \A j \in 1..k : g[j] = Round(g[j - 1], junk)
    BY <1>2
  <2>2. k \in Nat /\ k + 1 \in Nat
    BY <1>0
  <2>3. PICK y : y = Round(g[k], junk)
    OBVIOUS
  <2>4. PICK h : h = [i \in 0..(k + 1) |-> IF i <= k THEN g[i] ELSE y]
    OBVIOUS
  <2>5. h[k + 1] = y /\ \A i \in 0..k : h[i] = g[i]
    BY <2>2, <2>4
  <2>6. ASSUME NEW j \in 1..(k + 1) PROVE h[j] = Round(h[j - 1], junk)
    <3>1. CASE j = k + 1
      <4>1. j - 1 = k /\ k \in 0..k
        BY <2>2, <3>1
      <4> QED
        BY <2>3, <2>5, <3>1, <4>1
    <3>2. CASE j # k + 1
      <4>1. j \in 1..k /\ j - 1 \in 0..k /\ j \in 0..k
        BY <2>2, <3>2
      <4> QED
        BY <2>1, <2>5, <4>1
    <3> QED
      BY <3>1, <3>2
  <2>7. h[0] = b0
    BY <2>1, <2>2, <2>5
  <2> QED
    BY <2>2, <2>6, <2>7
<1>3. N \in S
  <2> HIDE DEF S, N
  <2>1. \A k \in 0..N : k \in S
    BY <1>0, <1>1, <1>2, UpTo
  <2> QED
    BY <1>0, <2>1
<1>4. PICK g : g[0] = b0 /\ \A j \in 1..N : g[j] = Round(g[j - 1], junk)
  BY <1>3
<1>5. \E x : x = F(x)
  <2> HIDE DEF N, b0
  <2>1. PICK x : x = [j \in 0..N |-> g[j]]
    OBVIOUS
  <2>2. x = F(x)
    <3>1. \A j \in 0..N : x[j] = g[j]
      BY <2>1
    <3>2. \A j \in 1..N : j - 1 \in 0..N /\ j \in 0..N
      BY <1>0
    <3>3. \A j \in 0..N : x[j] = IF j = 0 THEN b0 ELSE Round(x[j - 1], junk)
      BY <1>0, <1>4, <3>1, <3>2
    <3> QED
      BY <2>1, <3>1, <3>3
  <2> QED
    BY <2>2
<1> DEFINE T == CHOOSE x : x = F(x)
<1>6. Polled(ic, rest, n, junk) = T[N]
  BY DEF Polled
<1>7. T = F(T)
  <2> HIDE DEF F
  <2> QED
    BY <1>5
<1> HIDE DEF T
<1>8. T[0] = b0 /\ \A j \in 1..N : T[j] = Round(T[j - 1], junk)
  <2> HIDE DEF b0, N
  <2> QED
    BY <1>0, <1>7
<1> QED
  BY <1>6, <1>8

\* Frames got in a row: those of w behind the first k.
GotOK(got, k, w) ==
  got \in Seq(Nat) /\ k + Len(got) <= Len(w) /\ \A i \in 1..Len(got) : got[i] = w[k + i]

\* One more.
LEMMA GotMore ==
  ASSUME NEW got, NEW k \in Nat, NEW w \in Seq(Nat), GotOK(got, k, w), k + Len(got) < Len(w),
         NEW f, f = w[k + Len(got) + 1]
  PROVE  GotOK(Append(got, f), k, w) /\ Len(Append(got, f)) = Len(got) + 1
<1>1. PICK g \in Nat : g = Len(got)
  BY LenProperties DEF GotOK
<1>2. PICK n \in Nat : n = Len(w)
  BY LenProperties
<1>3. k + g + 1 \in 1..n /\ k + (g + 1) = k + g + 1
  BY <1>1, <1>2
<1>4. f \in Nat
  BY <1>1, <1>2, <1>3, ElementOfSeq
<1>5. PICK h : h = Append(got, f)
  OBVIOUS
<1>6. h \in Seq(Nat) /\ Len(h) = g + 1 /\ (\A i \in 1..g : h[i] = got[i]) /\ h[g + 1] = f
  BY <1>1, <1>4, <1>5, AppendProperties DEF GotOK
<1>7. \A i \in 1..g : got[i] = w[k + i]
  BY <1>1 DEF GotOK
<1>8. \A i \in 1..(g + 1) : i \in 1..g \/ i = g + 1
  BY <1>1
<1>9. \A i \in 1..(g + 1) : h[i] = w[k + i]
  BY <1>1, <1>3, <1>6, <1>7, <1>8
<1>10. k + (g + 1) <= n
  BY <1>3
<1>11. GotOK(h, k, w)
  BY <1>2, <1>6, <1>9, <1>10 DEF GotOK
<1> QED
  BY <1>1, <1>5, <1>6, <1>11

\* Those got before, and those got now.
LEMMA GotBoth ==
  ASSUME NEW got, NEW k \in Nat, NEW w \in Seq(Nat), GotOK(got, k, w), NEW more, GotOK(more, k + Len(got), w)
  PROVE  GotOK(got \o more, k, w) /\ Len(got \o more) = Len(got) + Len(more)
<1>1. PICK g \in Nat : g = Len(got)
  BY LenProperties DEF GotOK
<1>2. PICK n \in Nat : n = Len(w)
  BY LenProperties
<1>3. PICK m \in Nat : m = Len(more)
  BY LenProperties DEF GotOK
<1>4. PICK h : h = got \o more
  OBVIOUS
<1>5. got \in Seq(Nat) /\ \A i \in 1..g : got[i] = w[k + i]
  BY <1>1 DEF GotOK
<1>6. more \in Seq(Nat) /\ (k + g) + m <= n /\ \A i \in 1..m : more[i] = w[(k + g) + i]
  BY <1>1, <1>2, <1>3 DEF GotOK
<1>7. h \in Seq(Nat) /\ Len(h) = g + m /\ \A i \in 1..(g + m) : h[i] = IF i <= g THEN got[i] ELSE more[i - g]
  BY <1>1, <1>3, <1>4, <1>5, <1>6, ConcatProperties
<1>8. ASSUME NEW i \in 1..(g + m) PROVE h[i] = w[k + i]
  <2>1. CASE i <= g
    <3>1. i \in 1..g
      BY <2>1
    <3> QED
      BY <1>5, <1>7, <2>1, <3>1
  <2>2. CASE ~(i <= g)
    <3>1. i - g \in 1..m /\ (k + g) + (i - g) = k + i
      BY <2>2
    <3> QED
      BY <1>6, <1>7, <2>2, <3>1
  <2> QED
    BY <2>1, <2>2
<1>9. k + (g + m) <= n
  BY <1>6
<1>10. GotOK(h, k, w)
  BY <1>2, <1>7, <1>8, <1>9 DEF GotOK
<1> QED
  BY <1>1, <1>3, <1>4, <1>7, <1>10

\* The framer ic waits for more, or reads the frame of w behind the first k.
GoodNext(ic, rest, w, k, res) ==
  \/ res.r = "none" /\ NoWhole(Unread(ic))
  \/ /\ res.r = "one" /\ ~NoWhole(Unread(ic)) /\ k < Len(w) /\ res.frame = w[k + 1]
     /\ FramerOK(res.ic) /\ res.ic.session = ic.session
     /\ Len(Unread(res.ic)) < Len(Unread(ic))
     /\ Carries(Unread(res.ic) \o rest, w, k + 1)

\* The framer reads a stream of whole frames right: what is unread, and after it rest,
\* are the frames of w behind the first k.
LEMMA NextGood ==
  ASSUME NEW ic, FramerOK(ic), NEW junk \in Nat, NEW rest \in Seq(WireElem), NEW w, NEW k \in Nat,
         Carries(Unread(ic) \o rest, w, k), NEW res, res = nornd_framer_next(ic, junk)
  PROVE  GoodNext(ic, rest, w, k, res)
<1>1. PICK u : u = Unread(ic)
  OBVIOUS
<1>2. u \in Seq(WireElem) /\ Len(u) \in Nat
  BY <1>1, UnreadIs
<1>5. NextDoes(ic, u, junk, res)
  BY <1>1, NextIs
<1>3. CASE u = <<>>
  <2>1. res.r = "none"
    BY <1>3, <1>5 DEF NextDoes
  <2> QED
    BY <1>1, <1>3, <2>1 DEF NoWhole, GoodNext
<1>4. CASE u # <<>>
  <2>1. PICK x : x = u \o rest
    OBVIOUS
  <2>2. PICK m \in Nat : m = Len(u)
    BY <1>2
  <2>3. PICK q \in Nat : q = Len(rest)
    BY LenProperties
  <2>4. x \in Seq(WireElem) /\ Len(x) = m + q /\ \A i \in 1..(m + q) : x[i] = IF i <= m THEN u[i] ELSE rest[i - m]
    BY <1>2, <2>1, <2>2, <2>3, ConcatProperties
  <2>5. m # 0
    BY <1>2, <1>4, <2>2, EmptySeq, SeqEqual
  <2>6. x # <<>>
    BY <2>2, <2>3, <2>4, <2>5, EmptySeq
  <2>7. Carries(x, w, k)
    BY <1>1, <2>1
  <2>8. k < Len(w) /\ \E l \in Nat : FirstFrame(x, w, k, l)
    BY <2>6, <2>7, CarriesFirst
  <2>19. PICK l \in Nat : FirstFrame(x, w, k, l)
    BY <2>8
  <2>9. /\ l <= NORND_FRAME_MAX /\ l + 1 <= Len(x)
        /\ \A i \in 1..(l + 1) : x[i] = [frame |-> w[k + 1], at |-> i - 1, len |-> l]
    BY <2>19, Zenon DEF FirstFrame
  <2>18. \E t : t = SubSeq(x, l + 2, Len(x)) /\ Carries(t, w, k + 1)
    BY <2>19, Zenon DEF FirstFrame
  <2>10. \A i \in 1..m : i \in 1..(m + q) /\ x[i] = u[i]
    BY <2>2, <2>3, <2>4
  <2>11. 1 \in 1..m /\ 1 \in 1..(l + 1) /\ 1 - 1 = 0
    BY <2>2, <2>5
  <2>12. u[1] = [frame |-> w[k + 1], at |-> 0, len |-> l]
    BY <2>9, <2>10, <2>11
  <2>13. u[1].at = 0 /\ u[1].len = l /\ u[1].frame = w[k + 1]
    BY <2>12
  <2>14. NORND_FRAME_MAX \in Nat
    BY TransportAssumption
  <2>15. \/ Len(u) < 1 + l /\ res.r = "none"
         \/ OneRead(ic, u, res, l)
    BY <1>4, <1>5, <2>9, <2>13, <2>14 DEF NextDoes
  <2>16. CASE Len(u) < 1 + l /\ res.r = "none"
    BY <1>1, <2>13, <2>16 DEF NoWhole, GoodNext
  <2>17. CASE OneRead(ic, u, res, l)
    <3>1. /\ res.r = "one" /\ l + 1 <= m
          /\ FramerOK(res.ic) /\ res.ic.session = ic.session /\ Unread(res.ic) = SubSeq(u, l + 2, m)
          /\ res.frame = Whole(u[1], SubSeq(u, 2, l + 1))
      BY <2>2, <2>17 DEF OneRead
    <3>2. ~NoWhole(u)
      BY <1>4, <2>2, <2>13, <3>1 DEF NoWhole
    <3>3. PICK d \in Nat : d = l + 1
      OBVIOUS
    <3>4. d <= m /\ d + 1 = l + 2 /\ d <= m + q
      BY <2>2, <2>3, <3>1, <3>3
    <3>5. PICK v : v = SubSeq(u, d + 1, m)
      OBVIOUS
    <3>6. v \in Seq(WireElem) /\ Len(v) = m - d /\ \A i \in 1..(m - d) : v[i] = u[d + i]
      <4>1. u \in Seq(WireElem) /\ m \in Nat /\ m = Len(u) /\ d \in Nat /\ d <= m
        BY <1>2, <2>2, <3>3, <3>4
      <4> QED
        BY <4>1, <3>5, TailFrom
    <3>7. PICK n \in Nat : n = m + q
      OBVIOUS
    <3>8. PICK z : z = SubSeq(x, d + 1, n)
      OBVIOUS
    <3>9. z \in Seq(WireElem) /\ Len(z) = n - d /\ \A i \in 1..(n - d) : z[i] = x[d + i]
      BY <2>4, <3>4, <3>7, <3>8, TailFrom
    <3>10. PICK y : y = v \o rest
      OBVIOUS
    <3>11. PICK c \in Nat : c = m - d
      BY <3>4
    <3>12. y \in Seq(WireElem) /\ Len(y) = c + q /\ \A i \in 1..(c + q) : y[i] = IF i <= c THEN v[i] ELSE rest[i - c]
      <4>1. v \in Seq(WireElem) /\ Len(v) = c
        BY <3>6, <3>11
      <4> QED
        BY <2>3, <3>10, <4>1, ConcatProperties
    <3>13. c + q = n - d
      BY <3>7, <3>11
    <3>14. ASSUME NEW i \in 1..(c + q) PROVE y[i] = z[i]
      <4>1. d + i \in 1..(m + q) /\ (i <= c <=> d + i <= m) /\ (d + i) - m = i - c
        BY <3>7, <3>11, <3>13
      <4>2. z[i] = IF d + i <= m THEN u[d + i] ELSE rest[(d + i) - m]
        BY <2>4, <3>9, <3>13, <4>1
      <4>3. CASE i <= c
        <5>1. i \in 1..(m - d)
          BY <3>11, <4>3
        <5> QED
          BY <3>6, <3>12, <4>1, <4>2, <4>3, <5>1
      <4>4. CASE ~(i <= c)
        BY <3>12, <4>1, <4>2, <4>4
      <4> QED
        BY <4>3, <4>4
    <3>15. y = z
      BY <3>9, <3>12, <3>13, <3>14, SeqEqual
    <3>16. Carries(Unread(res.ic) \o rest, w, k + 1)
      <4>1. Unread(res.ic) = v
        BY <3>1, <3>4, <3>5
      <4>2. SubSeq(x, l + 2, Len(x)) = z
        BY <2>4, <3>4, <3>7, <3>8
      <4>3. Carries(z, w, k + 1)
        BY <2>18, <4>2
      <4> QED
        BY <3>10, <3>15, <4>1, <4>3
    <3>17. Len(Unread(res.ic)) < Len(u)
      <4>1. Len(Unread(res.ic)) = m - d
        BY <3>1, <3>4, <3>5, <3>6
      <4>2. m - d < m
        BY <3>3
      <4> QED
        BY <2>2, <4>1, <4>2
    <3>18. res.frame = w[k + 1]
      <4>1. PICK body : body = SubSeq(u, 2, d)
        OBVIOUS
      <4>2. DOMAIN body = 1..l /\ \A i \in 1..l : body[i] = u[i + 1]
        <5>1. \A i \in 2..d : u[i] \in WireElem
          BY <1>2, <2>2, <3>4, ElementOfSeq
        <5>2. /\ body \in Seq(WireElem) /\ Len(body) = IF 2 <= d THEN d - 2 + 1 ELSE 0
              /\ \A i \in 1..(d - 2 + 1) : body[i] = u[2 + i - 1]
          BY <1>2, <4>1, <5>1, SubSeqProperties
        <5>3. d - 2 + 1 = l /\ (~(2 <= d) => l = 0) /\ \A i \in 1..l : 2 + i - 1 = i + 1
          BY <3>3
        <5>4. Len(body) = l
          BY <5>2, <5>3
        <5> QED
          BY <5>2, <5>3, <5>4, LenProperties
      <4>3. \A i \in 1..l : body[i].frame = u[1].frame /\ body[i].at = i
        <5> SUFFICES ASSUME NEW i \in 1..l PROVE body[i].frame = u[1].frame /\ body[i].at = i
          OBVIOUS
        <5>1. i + 1 \in 1..(l + 1) /\ i + 1 \in 1..m /\ (i + 1) - 1 = i
          BY <3>3, <3>4
        <5>2. body[i] = [frame |-> w[k + 1], at |-> i, len |-> l]
          BY <2>9, <2>10, <4>2, <5>1
        <5> QED
          BY <2>13, <5>2
      <4> QED
        BY <2>13, <3>1, <3>3, <4>1, <4>2, <4>3 DEF Whole
    <3> QED
      BY <1>1, <2>8, <3>1, <3>2, <3>16, <3>17, <3>18 DEF GoodNext
  <2> QED
    BY <2>15, <2>16, <2>17
<1> QED
  BY <1>3, <1>4

\* One turn leaves an entry of the same session.
LEMMA TurnType ==
  ASSUME NEW a, FramerOK(a.ic), NEW junk \in Nat
  PROVE  FramerOK(FrameTurn(a, junk).ic) /\ FrameTurn(a, junk).ic.session = a.ic.session
<1>1. PICK ic : ic = a.ic
  OBVIOUS
<1>2. PICK u : u = Unread(ic)
  OBVIOUS
<1>3. PICK res : res = nornd_framer_next(ic, junk)
  OBVIOUS
<1>4. NextDoes(ic, u, junk, res)
  BY <1>1, <1>2, <1>3, NextIs
<1>5. CASE res.r # "one"
  BY <1>1, <1>3, <1>5 DEF FrameTurn
<1>6. CASE res.r = "one"
  <2>1. PICK n \in Nat : OneRead(ic, u, res, n)
    BY <1>4, <1>6 DEF NextDoes
  <2>2. FrameTurn(a, junk).ic = res.ic
    BY <1>1, <1>3, <1>6 DEF FrameTurn
  <2> QED
    BY <1>1, <2>1, <2>2 DEF OneRead
<1> QED
  BY <1>5, <1>6

\* So do all turns.
LEMMA FramesType ==
  ASSUME NEW ic, FramerOK(ic), NEW junk \in Nat
  PROVE  FramerOK(Frames(ic, junk).ic) /\ Frames(ic, junk).ic.session = ic.session
<1>1. PICK m \in Nat : m = Len(Unread(ic))
  BY UnreadIs
<1>0. PICK T : Turns(T, ic, junk, m, Frames(ic, junk))
  BY <1>1, FramesIs
<1>2. /\ Frames(ic, junk) = [ic |-> T[m].ic, got |-> T[m].got, bad |-> nornd_framer_next(T[m].ic, junk).r = "bad"]
      /\ T[0] = [ic |-> ic, got |-> <<>>]
      /\ \A j \in 1..m : T[j] = FrameTurn(T[j - 1], junk)
  BY <1>0 DEF Turns
<1> DEFINE S == {k \in 0..m : FramerOK(T[k].ic) /\ T[k].ic.session = ic.session}
<1>3. 0 \in S
  BY <1>1, <1>2
<1>4. \A k \in 0..m-1 : k \in S => k + 1 \in S
  <2> SUFFICES ASSUME NEW k \in 0..m-1, k \in S PROVE k + 1 \in S
    OBVIOUS
  <2>1. k + 1 \in 1..m /\ k + 1 \in 0..m /\ (k + 1) - 1 = k
    BY <1>1
  <2>2. T[k + 1] = FrameTurn(T[k], junk)
    BY <1>2, <2>1
  <2>3. FramerOK(FrameTurn(T[k], junk).ic) /\ FrameTurn(T[k], junk).ic.session = T[k].ic.session
    BY TurnType
  <2> QED
    BY <2>1, <2>2, <2>3
<1>5. FramerOK(T[m].ic) /\ T[m].ic.session = ic.session
  <2> HIDE DEF S
  <2>1. \A k \in 0..m : k \in S
    BY <1>3, <1>4, UpTo
  <2>2. m \in 0..m
    BY <1>1
  <2> QED
    BY <2>1, <2>2 DEF S
<1>6. Frames(ic, junk).ic = T[m].ic
  BY <1>2
<1> QED
  BY <1>5, <1>6

\* The framer ic, and what it has got: the frames of w behind the first k; rest is to come.
Reading(ic, got, rest, w, k) ==
  FramerOK(ic) /\ GotOK(got, k, w) /\ Carries(Unread(ic) \o rest, w, k + Len(got))

\* One turn over a stream of whole frames.
LEMMA TurnGood ==
  ASSUME NEW a, NEW junk \in Nat, NEW rest \in Seq(WireElem), NEW w \in Seq(Nat), NEW k \in Nat,
         Reading(a.ic, a.got, rest, w, k), NEW b, b = FrameTurn(a, junk)
  PROVE  /\ Reading(b.ic, b.got, rest, w, k)
         /\ \/ NoWhole(Unread(a.ic)) /\ b = a
            \/ ~NoWhole(Unread(a.ic)) /\ Len(Unread(b.ic)) < Len(Unread(a.ic))
<1>1. PICK ic : ic = a.ic
  OBVIOUS
<1>2. PICK got : got = a.got
  OBVIOUS
<1>3. FramerOK(ic) /\ GotOK(got, k, w) /\ Carries(Unread(ic) \o rest, w, k + Len(got))
  BY <1>1, <1>2 DEF Reading
<1>4. PICK g \in Nat : g = Len(got)
  BY <1>3, LenProperties DEF GotOK
<1>5. PICK q \in Nat : q = k + g
  BY <1>4
<1>6. Carries(Unread(ic) \o rest, w, q)
  BY <1>3, <1>4, <1>5
<1>7. PICK res : res = nornd_framer_next(ic, junk)
  OBVIOUS
<1>8. \/ res.r = "none" /\ NoWhole(Unread(ic))
      \/ /\ res.r = "one" /\ ~NoWhole(Unread(ic)) /\ q < Len(w) /\ res.frame = w[q + 1]
         /\ FramerOK(res.ic) /\ res.ic.session = ic.session
         /\ Len(Unread(res.ic)) < Len(Unread(ic))
         /\ Carries(Unread(res.ic) \o rest, w, q + 1)
  <2>1. GoodNext(ic, rest, w, q, res)
    BY <1>3, <1>6, <1>7, NextGood
  <2> QED
    BY <2>1 DEF GoodNext
<1>9. b = IF res.r = "one" THEN [ic |-> res.ic, got |-> Append(got, res.frame)] ELSE a
  BY <1>1, <1>2, <1>7 DEF FrameTurn
<1>10. CASE res.r = "none" /\ NoWhole(Unread(ic))
  BY <1>1, <1>9, <1>10
<1>11. CASE /\ res.r = "one" /\ ~NoWhole(Unread(ic)) /\ q < Len(w) /\ res.frame = w[q + 1]
            /\ FramerOK(res.ic) /\ res.ic.session = ic.session
            /\ Len(Unread(res.ic)) < Len(Unread(ic))
            /\ Carries(Unread(res.ic) \o rest, w, q + 1)
  <2>1. PICK h : h = Append(got, res.frame)
    OBVIOUS
  <2>2. b.ic = res.ic /\ b.got = h
    BY <1>9, <1>11, <2>1
  <2>3. PICK f : f = res.frame
    OBVIOUS
  <2>4. k + Len(got) < Len(w) /\ f = w[k + Len(got) + 1]
    BY <1>4, <1>5, <1>11, <2>3
  <2>5. GotOK(Append(got, f), k, w) /\ Len(Append(got, f)) = Len(got) + 1
    BY <1>3, <2>4, GotMore
  <2>6. GotOK(h, k, w) /\ Len(h) = g + 1
    BY <1>4, <2>1, <2>3, <2>5
  <2>7. k + Len(h) = q + 1
    BY <1>5, <2>6
  <2>8. Reading(res.ic, h, rest, w, k)
    BY <1>11, <2>6, <2>7 DEF Reading
  <2> QED
    BY <1>1, <1>11, <2>2, <2>8
<1> QED
  BY <1>8, <1>10, <1>11

\* f has read all frames at hand.
GoodFrames(f, rest, w, k) ==
  Reading(f.ic, f.got, rest, w, k) /\ NoWhole(Unread(f.ic)) /\ f.bad = FALSE

\* All frames at hand of a stream of whole frames are read, and none is bad.
LEMMA FramesGood ==
  ASSUME NEW ic, NEW junk \in Nat, NEW rest \in Seq(WireElem), NEW w \in Seq(Nat), NEW k \in Nat,
         FramerOK(ic), Carries(Unread(ic) \o rest, w, k), NEW f, f = Frames(ic, junk)
  PROVE  GoodFrames(f, rest, w, k)
<1>1. PICK m \in Nat : m = Len(Unread(ic))
  BY UnreadIs
<1>0. PICK T : Turns(T, ic, junk, m, Frames(ic, junk))
  BY <1>1, FramesIs
<1>2. /\ Frames(ic, junk) = [ic |-> T[m].ic, got |-> T[m].got, bad |-> nornd_framer_next(T[m].ic, junk).r = "bad"]
      /\ T[0] = [ic |-> ic, got |-> <<>>]
      /\ \A j \in 1..m : T[j] = FrameTurn(T[j - 1], junk)
  BY <1>0 DEF Turns
<1> DEFINE S == {j \in 0..m : /\ Reading(T[j].ic, T[j].got, rest, w, k)
                              /\ NoWhole(Unread(T[j].ic)) \/ Len(Unread(T[j].ic)) <= m - j}
<1>3. 0 \in S
  <2>1. PICK e : e = <<>>
    OBVIOUS
  <2>2. e \in Seq(Nat) /\ Len(e) = 0
    BY <2>1, EmptySeq
  <2>3. k + Len(e) = k /\ k <= Len(w)
    BY <2>2 DEF Carries
  <2>4. GotOK(e, k, w)
    BY <2>2, <2>3 DEF GotOK
  <2>5. T[0].ic = ic /\ T[0].got = e
    BY <1>2, <2>1
  <2>6. Reading(ic, e, rest, w, k)
    BY <2>3, <2>4 DEF Reading
  <2>7. m <= m - 0 /\ 0 \in 0..m
    BY <1>1
  <2> QED
    BY <1>1, <2>5, <2>6, <2>7
<1>4. \A j \in 0..m-1 : j \in S => j + 1 \in S
  <2> SUFFICES ASSUME NEW j \in 0..m-1, j \in S PROVE j + 1 \in S
    OBVIOUS
  <2>1. j + 1 \in 1..m /\ j + 1 \in 0..m /\ (j + 1) - 1 = j
    BY <1>1
  <2>2. PICK a : a = T[j]
    OBVIOUS
  <2>3. PICK b : b = T[j + 1]
    OBVIOUS
  <2>4. b = FrameTurn(a, junk)
    BY <1>2, <2>1, <2>2, <2>3
  <2>5. Reading(a.ic, a.got, rest, w, k) /\ (NoWhole(Unread(a.ic)) \/ Len(Unread(a.ic)) <= m - j)
    BY <2>2
  <2>6. /\ Reading(b.ic, b.got, rest, w, k)
        /\ \/ NoWhole(Unread(a.ic)) /\ b = a
           \/ ~NoWhole(Unread(a.ic)) /\ Len(Unread(b.ic)) < Len(Unread(a.ic))
    BY <2>4, <2>5, TurnGood
  <2>7. Len(Unread(a.ic)) \in Nat /\ Len(Unread(b.ic)) \in Nat
    BY <2>5, <2>6, UnreadIs DEF Reading
  <2>8. NoWhole(Unread(b.ic)) \/ Len(Unread(b.ic)) <= m - (j + 1)
    BY <1>1, <2>5, <2>6, <2>7
  <2> QED
    BY <2>1, <2>3, <2>6, <2>8
<1>5. m \in S
  <2> HIDE DEF S
  <2>1. \A j \in 0..m : j \in S
    BY <1>3, <1>4, UpTo
  <2>2. m \in 0..m
    BY <1>1
  <2> QED
    BY <2>1, <2>2
<1>6. PICK a : a = T[m]
  OBVIOUS
<1>7. Reading(a.ic, a.got, rest, w, k) /\ (NoWhole(Unread(a.ic)) \/ Len(Unread(a.ic)) <= m - m)
  BY <1>5, <1>6
<1>8. FramerOK(a.ic)
  BY <1>7 DEF Reading
<1>9. NoWhole(Unread(a.ic))
  <2>1. Unread(a.ic) \in Seq(WireElem) /\ Len(Unread(a.ic)) \in Nat
    BY <1>8, UnreadIs
  <2>2. CASE Len(Unread(a.ic)) <= m - m
    <3>1. Len(Unread(a.ic)) = 0
      BY <1>1, <2>1, <2>2
    <3>2. Unread(a.ic) = <<>>
      BY <2>1, <3>1, EmptySeq, SeqEqual
    <3> QED
      BY <3>2 DEF NoWhole
  <2> QED
    BY <1>7, <2>2
<1>10. PICK res : res = nornd_framer_next(a.ic, junk)
  OBVIOUS
<1>11. res.r # "bad"
  <2>1. PICK jc : jc = a.ic
    OBVIOUS
  <2>2. PICK q \in Nat : q = k + Len(a.got)
    BY <1>7, LenProperties DEF Reading, GotOK
  <2>3. FramerOK(jc) /\ Carries(Unread(jc) \o rest, w, q)
    BY <1>7, <2>1, <2>2 DEF Reading
  <2>4. res = nornd_framer_next(jc, junk)
    BY <1>10, <2>1
  <2>5. GoodNext(jc, rest, w, q, res)
    BY <2>3, <2>4, NextGood
  <2> QED
    BY <2>5 DEF GoodNext
<1>12. f = [ic |-> a.ic, got |-> a.got, bad |-> res.r = "bad"]
  BY <1>2, <1>6, <1>10
<1>13. f.ic = a.ic /\ f.got = a.got /\ f.bad = (res.r = "bad")
  BY <1>12
<1> QED
  BY <1>7, <1>9, <1>11, <1>13 DEF GoodFrames

\* What is pushed comes behind what is unread.
LEMMA PushIs ==
  ASSUME NEW ic, FramerOK(ic), NEW data \in Seq(WireElem), NEW jc, jc = nornd_framer_push(ic, data)
  PROVE  FramerOK(jc) /\ jc.session = ic.session /\ Unread(jc) = Unread(ic) \o data
<1>1. PICK b \in Seq(WireElem) : b = ic.buf
  BY DEF FramerOK, FramerEntry
<1>2. PICK a \in Nat : a = ic.start
  BY DEF FramerOK, FramerEntry
<1>3. PICK m \in Nat : m = Len(b)
  BY LenProperties
<1>4. PICK q \in Nat : q = Len(data)
  BY LenProperties
<1>5. PICK u : u = Unread(ic)
  OBVIOUS
<1>6. a <= m /\ ic \in FramerEntry
  BY <1>1, <1>2, <1>3 DEF FramerOK
<1>7. PICK c \in Nat : c = m - a
  BY <1>6
<1>8. u \in Seq(WireElem) /\ Len(u) = c /\ \A i \in 1..c : u[i] = b[a + i]
  BY <1>1, <1>2, <1>3, <1>5, <1>7, UnreadIs
<1>9. PICK v : v = u \o data
  OBVIOUS
<1>10. v \in Seq(WireElem) /\ Len(v) = c + q /\ \A i \in 1..(c + q) : v[i] = IF i <= c THEN u[i] ELSE data[i - c]
  BY <1>4, <1>8, <1>9, ConcatProperties
<1>11. CASE Len(data) > NORND_FRAMER_CAP - Len(ic.buf)
  <2>1. jc = [ic EXCEPT !.buf = v, !.start = 0]
    BY <1>5, <1>9, <1>11 DEF nornd_framer_push
  <2>2. jc \in FramerEntry /\ jc.session = ic.session /\ jc.buf = v /\ jc.start = 0
    <3>1. v \in Seq(WireElem) /\ 0 \in Nat
      BY <1>10
    <3> QED
      BY <1>6, <2>1, <3>1 DEF FramerEntry
  <2>3. FramerOK(jc)
    BY <1>10, <2>2 DEF FramerOK
  <2>4. PICK z : z = Unread(jc)
    OBVIOUS
  <2>5. z \in Seq(WireElem) /\ Len(z) = (c + q) - 0 /\ \A i \in 1..Len(z) : z[i] = v[0 + i]
    BY <1>10, <2>2, <2>3, <2>4, UnreadIs
  <2>6. Len(z) = c + q /\ \A i \in 1..(c + q) : 0 + i = i
    BY <2>5
  <2>7. \A i \in 1..(c + q) : z[i] = v[i]
    BY <2>5, <2>6
  <2>8. z = v
    BY <1>10, <2>5, <2>6, <2>7, SeqEqual
  <2> QED
    BY <1>5, <1>9, <2>2, <2>3, <2>4, <2>8
<1>12. CASE ~(Len(data) > NORND_FRAMER_CAP - Len(ic.buf))
  <2>1. PICK y : y = b \o data
    OBVIOUS
  <2>2. y \in Seq(WireElem) /\ Len(y) = m + q /\ \A i \in 1..(m + q) : y[i] = IF i <= m THEN b[i] ELSE data[i - m]
    BY <1>3, <1>4, <2>1, ConcatProperties
  <2>3. jc = [ic EXCEPT !.buf = y]
    BY <1>1, <1>12, <2>1 DEF nornd_framer_push
  <2>4. jc \in FramerEntry /\ jc.session = ic.session /\ jc.buf = y /\ jc.start = a
    BY <1>2, <1>6, <2>2, <2>3 DEF FramerEntry
  <2>5. a <= m + q
    BY <1>6
  <2>6. FramerOK(jc)
    BY <2>2, <2>4, <2>5 DEF FramerOK
  <2>7. PICK z : z = Unread(jc)
    OBVIOUS
  <2>8. z \in Seq(WireElem) /\ Len(z) = (m + q) - a /\ \A i \in 1..Len(z) : z[i] = y[a + i]
    <3>1. z \in Seq(WireElem) /\ Len(z) = Len(y) - a /\ \A i \in 1..Len(z) : z[i] = y[a + i]
      BY <2>4, <2>6, <2>7, UnreadIs
    <3> QED
      BY <2>2, <3>1
  <2>9. (m + q) - a = c + q
    BY <1>7
  <2>10. ASSUME NEW i \in 1..(c + q) PROVE z[i] = v[i]
    <3>1. a + i \in 1..(m + q) /\ (i <= c <=> a + i <= m) /\ (a + i) - m = i - c
      BY <1>6, <1>7
    <3>2. z[i] = IF a + i <= m THEN b[a + i] ELSE data[(a + i) - m]
      BY <2>2, <2>8, <2>9, <3>1
    <3>3. CASE i <= c
      <4>1. i \in 1..c
        BY <3>3
      <4> QED
        BY <1>8, <1>10, <3>1, <3>2, <3>3, <4>1
    <3>4. CASE ~(i <= c)
      BY <1>10, <3>1, <3>2, <3>4
    <3> QED
      BY <3>3, <3>4
  <2>11. z = v
    BY <1>10, <2>8, <2>9, <2>10, SeqEqual
  <2> QED
    BY <1>5, <1>9, <2>4, <2>6, <2>7, <2>11
<1> QED
  BY <1>11, <1>12

\* v is t with u behind it.
Joined(X, t, n, u, q, v) ==
  v \in Seq(X) /\ Len(v) = n + q /\ \A i \in 1..(n + q) : v[i] = IF i <= n THEN t[i] ELSE u[i - n]

\* That is what \o makes.
LEMMA JoinedIs ==
  ASSUME NEW X, NEW t \in Seq(X), NEW n \in Nat, Len(t) = n, NEW u \in Seq(X), NEW q \in Nat, Len(u) = q,
         NEW v, v = t \o u
  PROVE  Joined(X, t, n, u, q, v)
BY ConcatProperties DEF Joined

\* s is t with u, of length l, behind it.
CutsTo(X, s, t, u, l) == t \in Seq(X) /\ u \in Seq(X) /\ Len(u) = l /\ t \o u = s

\* A sequence is its first n and the rest.
LEMMA CutAt ==
  ASSUME NEW X, NEW s \in Seq(X), NEW m \in Nat, m = Len(s), NEW n \in Nat, n <= m,
         NEW t, t = SubSeq(s, 1, n), NEW u, u = SubSeq(s, n + 1, m)
  PROVE  CutsTo(X, s, t, u, m - n)
<1>1. u \in Seq(X) /\ Len(u) = m - n /\ \A i \in 1..(m - n) : u[i] = s[n + i]
  BY TailFrom
<1>2. t \in Seq(X) /\ Len(t) = n /\ \A i \in 1..n : t[i] = s[i]
  <2>1. \A i \in 1..n : s[i] \in X
    BY ElementOfSeq
  <2>2. /\ t \in Seq(X) /\ Len(t) = IF 1 <= n THEN n - 1 + 1 ELSE 0
        /\ \A i \in 1..(n - 1 + 1) : t[i] = s[1 + i - 1]
    BY <2>1, SubSeqProperties
  <2>3. n - 1 + 1 = n /\ (~(1 <= n) => n = 0) /\ \A i \in 1..n : 1 + i - 1 = i
    OBVIOUS
  <2> QED
    BY <2>2, <2>3
<1>0. \A p, r \in Nat : p <= r => r - p \in Nat
  OBVIOUS
<1>3. PICK q \in Nat : q = m - n
  BY <1>0
<1>4. PICK v : v = t \o u
  OBVIOUS
<1>5. v \in Seq(X) /\ Len(v) = n + q /\ \A i \in 1..(n + q) : v[i] = IF i <= n THEN t[i] ELSE u[i - n]
  <2>1. u \in Seq(X) /\ Len(u) = q
    BY <1>1, <1>3
  <2>2. t \in Seq(X) /\ Len(t) = n
    BY <1>2
  <2>3. Joined(X, t, n, u, q, v)
    BY <1>4, <2>1, <2>2, JoinedIs
  <2> QED
    BY <2>3, Zenon DEF Joined
<1>6. n + q = m
  BY <1>3
<1>7. ASSUME NEW i \in 1..m PROVE v[i] = s[i]
  <2>1. CASE i <= n
    <3>1. i \in 1..n
      BY <2>1
    <3> QED
      BY <1>2, <1>5, <1>6, <2>1, <3>1
  <2>2. CASE ~(i <= n)
    <3>1. i - n \in 1..(m - n) /\ n + (i - n) = i
      BY <2>2
    <3> QED
      BY <1>1, <1>5, <1>6, <2>2, <3>1
  <2> QED
    BY <2>1, <2>2
<1>8. v = s
  BY <1>5, <1>6, <1>7, SeqEqual
<1> QED
  BY <1>1, <1>2, <1>4, <1>8 DEF CutsTo

\* Three pieces of a stream.
LEMMA RegroupWire == \A a, b, c \in Seq(WireElem) : (a \o b) \o c = a \o (b \o c)
BY ConcatAssociative

-----------------------------------------------------------------------------
(* The receiver's visit to a stream (NornTransport). *)

\* A state of the loop, by its parts.
Visit(ic, rest, more, got, lost) ==
  [ic |-> ic, rest |-> rest, more |-> more, got |-> got, lost |-> lost]

\* The parts are of their types; s is the session of the stream.
VisitOK(ic, rest, more, lost, s) ==
  /\ FramerOK(ic) /\ ic.session \in {0, s} /\ rest \in Seq(WireElem)
  /\ more \in Nat /\ more <= Len(rest) /\ lost \in BOOLEAN

\* What a round makes of a state that has data to read, of which rest2 is left and more2
\* bytes are still to be looked at.
RoundDoes(e, ic, data, rest2, more2, got, lost, junk) ==
  \/ e = Visit(nornd_framer_reset(ic), rest2, 0, got, TRUE)
  \/ \E f : /\ f = Frames(nornd_framer_push(ic, data), junk)
            /\ \/ f.bad /\ e = Visit(Idle, rest2, 0, got \o f.got, TRUE)
               \/ ~f.bad /\ e = Visit(f.ic, rest2, more2, got \o f.got, lost)

\* One round cuts data off what is to be read.
LEMMA RoundIs ==
  ASSUME NEW ic, NEW rest, NEW more, NEW got, NEW lost, NEW s, VisitOK(ic, rest, more, lost, s),
         NEW junk, more # 0, NEW e, e = Round(Visit(ic, rest, more, got, lost), junk)
  PROVE  \E data, rest2, more2 :
           /\ data \in Seq(WireElem) /\ rest2 \in Seq(WireElem) /\ data \o rest2 = rest
           /\ more2 \in Nat /\ more2 <= Len(rest2)
           /\ RoundDoes(e, ic, data, rest2, more2, got, lost, junk)
<1>1. rest \in Seq(WireElem) /\ more \in Nat /\ more <= Len(rest)
  BY DEF VisitOK
<1>2. PICK m \in Nat : m = Len(rest)
  BY <1>1, LenProperties
<1>3. PICK n : n = Min({more, NORND_FRAME_MAX})
  OBVIOUS
<1>4. n \in Nat /\ n <= more /\ n <= m
  <2>1. NORND_FRAME_MAX \in Nat
    BY TransportAssumption
  <2>2. n = IF more <= NORND_FRAME_MAX THEN more ELSE NORND_FRAME_MAX
    BY <1>1, <1>3, <2>1, MinPair
  <2> QED
    BY <1>1, <1>2, <2>1, <2>2
<1>5. PICK data : data = SubSeq(rest, 1, n)
  OBVIOUS
<1>6. PICK rest2 : rest2 = SubSeq(rest, n + 1, m)
  OBVIOUS
<1>7. data \in Seq(WireElem) /\ rest2 \in Seq(WireElem) /\ Len(rest2) = m - n /\ data \o rest2 = rest
  <2>1. CutsTo(WireElem, rest, data, rest2, m - n)
    BY <1>1, <1>2, <1>4, <1>5, <1>6, CutAt
  <2> QED
    BY <2>1, Zenon DEF CutsTo
<1>8. PICK more2 : more2 = more - n
  OBVIOUS
<1>9. more2 \in Nat /\ more2 <= Len(rest2)
  BY <1>1, <1>2, <1>4, <1>7, <1>8
<1>10. PICK d : d = Visit(ic, rest, more, got, lost)
  OBVIOUS
<1>11. d.ic = ic /\ d.rest = rest /\ d.more = more /\ d.got = got /\ d.lost = lost
  BY <1>10 DEF Visit
<1>12. PICK f : f = Frames(nornd_framer_push(ic, data), junk)
  OBVIOUS
<1>13. SubSeq(d.rest, n + 1, Len(d.rest)) = rest2
  BY <1>2, <1>6, <1>11
<1>14. d.more - n = more2 /\ d.more # 0
  BY <1>8, <1>11
<1>15. e = IF Refused(ic, data) THEN Visit(nornd_framer_reset(ic), rest2, 0, got, TRUE)
           ELSE IF f.bad THEN Visit(Idle, rest2, 0, got \o f.got, TRUE)
           ELSE Visit(f.ic, rest2, more2, got \o f.got, lost)
  <2>1. e = Round(d, junk)
    BY <1>10
  <2>2. data = SubSeq(d.rest, 1, Min({d.more, NORND_FRAME_MAX})) /\ n = Min({d.more, NORND_FRAME_MAX})
    BY <1>3, <1>5, <1>11
  <2> QED
    BY <1>11, <1>12, <1>13, <1>14, <2>1, <2>2 DEF Round, Visit
<1>17. RoundDoes(e, ic, data, rest2, more2, got, lost, junk)
  BY <1>12, <1>15 DEF RoundDoes
<1> QED
  BY <1>7, <1>9, <1>17

\* A state of the loop over the stream of session s.
InVisit(d, s) ==
  \E ic, rest, more, got, lost : d = Visit(ic, rest, more, got, lost) /\ VisitOK(ic, rest, more, lost, s)

\* The entry an error leaves.
LEMMA ResetOK ==
  ASSUME NEW ic, FramerOK(ic)
  PROVE  /\ FramerOK(Idle) /\ Idle.session = 0
         /\ FramerOK(nornd_framer_reset(ic)) /\ nornd_framer_reset(ic).session = ic.session
<1>1. PICK e : e = <<>>
  OBVIOUS
<1>2. e \in Seq(WireElem) /\ Len(e) = 0
  BY <1>1, EmptySeq
<1>3. PICK i : i = Idle
  OBVIOUS
<1>4. i = [session |-> 0, buf |-> e, start |-> 0]
  BY <1>1, <1>3 DEF Idle
<1>5. FramerOK(i) /\ i.session = 0
  BY <1>2, <1>4 DEF FramerOK, FramerEntry
<1>6. PICK r : r = nornd_framer_reset(ic)
  OBVIOUS
<1>7. r = [ic EXCEPT !.buf = e, !.start = 0]
  BY <1>1, <1>6 DEF nornd_framer_reset
<1>8. r \in FramerEntry /\ r.session = ic.session /\ r.buf = e /\ r.start = 0
  BY <1>2, <1>7 DEF FramerOK, FramerEntry
<1>9. FramerOK(r)
  BY <1>2, <1>8 DEF FramerOK
<1> QED
  BY <1>3, <1>5, <1>6, <1>8, <1>9

\* Every round leaves one.
LEMMA RoundType ==
  ASSUME NEW d, NEW s \in Nat, InVisit(d, s), NEW junk \in Nat
  PROVE  InVisit(Round(d, junk), s)
<1>1. PICK ic, rest, more, got, lost : d = Visit(ic, rest, more, got, lost) /\ VisitOK(ic, rest, more, lost, s)
  BY DEF InVisit
<1>2. PICK e : e = Round(d, junk)
  OBVIOUS
<1>3. CASE more = 0
  <2>1. d.more = 0
    BY <1>1, <1>3 DEF Visit
  <2>2. e = d
    BY <1>2, <2>1 DEF Round
  <2> QED
    BY <1>2, <2>2
<1>4. CASE more # 0
  <2>1. PICK data, rest2, more2 :
           /\ data \in Seq(WireElem) /\ rest2 \in Seq(WireElem) /\ data \o rest2 = rest
           /\ more2 \in Nat /\ more2 <= Len(rest2)
           /\ RoundDoes(e, ic, data, rest2, more2, got, lost, junk)
    BY <1>1, <1>2, <1>4, RoundIs
  <2>2. FramerOK(ic) /\ ic.session \in {0, s} /\ lost \in BOOLEAN
    BY <1>1 DEF VisitOK
  <2>3. 0 \in Nat /\ 0 <= Len(rest2) /\ TRUE \in BOOLEAN
    BY <2>1, LenProperties
  <2>4. CASE e = Visit(nornd_framer_reset(ic), rest2, 0, got, TRUE)
    <3>1. PICK jc : jc = nornd_framer_reset(ic)
      OBVIOUS
    <3>2. VisitOK(jc, rest2, 0, TRUE, s)
      BY <2>1, <2>2, <2>3, <3>1, ResetOK DEF VisitOK
    <3>3. InVisit(e, s)
      BY <2>4, <3>1, <3>2 DEF InVisit
    <3> QED
      BY <1>2, <3>3
  <2>5. CASE ~(e = Visit(nornd_framer_reset(ic), rest2, 0, got, TRUE))
    <3>1. PICK f : /\ f = Frames(nornd_framer_push(ic, data), junk)
                   /\ \/ f.bad /\ e = Visit(Idle, rest2, 0, got \o f.got, TRUE)
                      \/ ~f.bad /\ e = Visit(f.ic, rest2, more2, got \o f.got, lost)
      BY <2>1, <2>5 DEF RoundDoes
    <3>2. PICK pc : pc = nornd_framer_push(ic, data)
      OBVIOUS
    <3>3. FramerOK(pc) /\ pc.session = ic.session
      BY <2>1, <2>2, <3>2, PushIs
    <3>4. FramerOK(f.ic) /\ f.ic.session = pc.session
      BY <3>1, <3>2, <3>3, FramesType
    <3>5. CASE e = Visit(Idle, rest2, 0, got \o f.got, TRUE)
      <4>1. PICK jc : jc = Idle
        OBVIOUS
      <4>2. VisitOK(jc, rest2, 0, TRUE, s)
        BY <2>1, <2>2, <2>3, <4>1, ResetOK DEF VisitOK
      <4>3. InVisit(e, s)
        BY <3>5, <4>1, <4>2 DEF InVisit
      <4> QED
        BY <1>2, <4>3
    <3>6. CASE e = Visit(f.ic, rest2, more2, got \o f.got, lost)
      <4>1. PICK jc : jc = f.ic
        OBVIOUS
      <4>2. VisitOK(jc, rest2, more2, lost, s)
        BY <2>1, <2>2, <3>3, <3>4, <4>1 DEF VisitOK
      <4>3. InVisit(e, s)
        BY <3>6, <4>1, <4>2 DEF InVisit
      <4> QED
        BY <1>2, <4>3
    <3> QED
      BY <3>1, <3>5, <3>6
  <2> QED
    BY <2>4, <2>5
<1> QED
  BY <1>3, <1>4

\* A state of the loop over a stream of whole frames, of which the cluster had k before:
\* all went well so far, or the stream was given up.
GoodVisit(d, s, w, k) ==
  \E ic, rest, more, got, lost :
    /\ d = Visit(ic, rest, more, got, lost) /\ VisitOK(ic, rest, more, lost, s)
    /\ \/ lost = TRUE /\ more = 0
       \/ lost = FALSE /\ ic.session = s /\ Reading(ic, got, rest, w, k) /\ NoWhole(Unread(ic))

\* Every round leaves one.
LEMMA RoundGood ==
  ASSUME NEW d, NEW s \in Nat, NEW w \in Seq(Nat), NEW k \in Nat, GoodVisit(d, s, w, k), NEW junk \in Nat
  PROVE  GoodVisit(Round(d, junk), s, w, k)
<1>1. PICK ic, rest, more, got, lost :
        /\ d = Visit(ic, rest, more, got, lost) /\ VisitOK(ic, rest, more, lost, s)
        /\ \/ lost = TRUE /\ more = 0
           \/ lost = FALSE /\ ic.session = s /\ Reading(ic, got, rest, w, k) /\ NoWhole(Unread(ic))
  BY DEF GoodVisit
<1>2. PICK e : e = Round(d, junk)
  OBVIOUS
<1>3. CASE more = 0
  <2>1. d.more = 0
    BY <1>1, <1>3 DEF Visit
  <2>2. e = d
    BY <1>2, <2>1 DEF Round
  <2> QED
    BY <1>2, <2>2
<1>4. CASE more # 0
  <2>1. PICK data, rest2, more2 :
           /\ data \in Seq(WireElem) /\ rest2 \in Seq(WireElem) /\ data \o rest2 = rest
           /\ more2 \in Nat /\ more2 <= Len(rest2)
           /\ RoundDoes(e, ic, data, rest2, more2, got, lost, junk)
    BY <1>1, <1>2, <1>4, RoundIs
  <2>2. FramerOK(ic) /\ lost = FALSE /\ ic.session = s /\ Reading(ic, got, rest, w, k)
    BY <1>1, <1>4 DEF VisitOK
  <2>3. 0 \in Nat /\ 0 <= Len(rest2) /\ TRUE \in BOOLEAN
    BY <2>1, LenProperties
  <2>4. CASE e = Visit(nornd_framer_reset(ic), rest2, 0, got, TRUE)
    <3>1. PICK jc : jc = nornd_framer_reset(ic)
      OBVIOUS
    <3>2. VisitOK(jc, rest2, 0, TRUE, s)
      BY <2>1, <2>2, <2>3, <3>1, ResetOK DEF VisitOK
    <3>3. GoodVisit(e, s, w, k)
      BY <2>4, <3>1, <3>2 DEF GoodVisit
    <3> QED
      BY <1>2, <3>3
  <2>5. CASE ~(e = Visit(nornd_framer_reset(ic), rest2, 0, got, TRUE))
    <3>1. PICK f : /\ f = Frames(nornd_framer_push(ic, data), junk)
                   /\ \/ f.bad /\ e = Visit(Idle, rest2, 0, got \o f.got, TRUE)
                      \/ ~f.bad /\ e = Visit(f.ic, rest2, more2, got \o f.got, lost)
      BY <2>1, <2>5 DEF RoundDoes
    <3>2. PICK pc : pc = nornd_framer_push(ic, data)
      OBVIOUS
    <3>3. FramerOK(pc) /\ pc.session = ic.session /\ Unread(pc) = Unread(ic) \o data
      BY <2>1, <2>2, <3>2, PushIs
    <3>4. PICK u \in Seq(WireElem) : u = Unread(ic)
      BY <2>2, UnreadIs
    <3>5. Unread(pc) \o rest2 = u \o rest
      <4>1. (u \o data) \o rest2 = u \o (data \o rest2)
        BY <2>1, <3>4, RegroupWire
      <4> QED
        BY <2>1, <3>3, <3>4, <4>1
    <3>6. GotOK(got, k, w) /\ Carries(u \o rest, w, k + Len(got))
      BY <2>2, <3>4 DEF Reading
    <3>7. PICK g \in Nat : g = Len(got)
      BY <3>6, LenProperties DEF GotOK
    <3>8. PICK q \in Nat : q = k + g
      BY <3>7
    <3>9. Carries(Unread(pc) \o rest2, w, q)
      BY <3>5, <3>6, <3>7, <3>8
    <3>10. f = Frames(pc, junk)
      BY <3>1, <3>2
    <3>11. Reading(f.ic, f.got, rest2, w, q) /\ NoWhole(Unread(f.ic)) /\ f.bad = FALSE
      <4>1. GoodFrames(f, rest2, w, q)
        BY <2>1, <3>3, <3>9, <3>10, FramesGood
      <4> QED
        BY <4>1 DEF GoodFrames
    <3>12. PICK jc : jc = f.ic
      OBVIOUS
    <3>13. PICK more3 : more3 = f.got
      OBVIOUS
    <3>14. PICK both : both = got \o more3
      OBVIOUS
    <3>15. e = Visit(jc, rest2, more2, both, lost)
      BY <3>1, <3>11, <3>12, <3>13, <3>14
    <3>16. FramerOK(jc) /\ GotOK(more3, q, w) /\ Carries(Unread(jc) \o rest2, w, q + Len(more3)) /\ NoWhole(Unread(jc))
      BY <3>11, <3>12, <3>13 DEF Reading
    <3>17. GotOK(more3, k + Len(got), w)
      BY <3>7, <3>8, <3>16
    <3>18. GotOK(both, k, w) /\ Len(both) = Len(got) + Len(more3)
      BY <3>6, <3>14, <3>17, GotBoth
    <3>19. PICK h \in Nat : h = Len(more3)
      BY <3>16, LenProperties DEF GotOK
    <3>20. k + Len(both) = q + Len(more3)
      BY <3>7, <3>8, <3>18, <3>19
    <3>21. Reading(jc, both, rest2, w, k)
      BY <3>16, <3>18, <3>20 DEF Reading
    <3>22. jc.session = s
      BY <2>2, <3>3, <3>10, <3>12, FramesType
    <3>23. VisitOK(jc, rest2, more2, lost, s)
      BY <2>1, <2>2, <3>16, <3>22 DEF VisitOK
    <3>24. GoodVisit(e, s, w, k)
      BY <2>2, <3>15, <3>16, <3>21, <3>22, <3>23 DEF GoodVisit
    <3> QED
      BY <1>2, <3>24
  <2> QED
    BY <2>4, <2>5
<1> QED
  BY <1>3, <1>4

\* A visit ends in such a state.
LEMMA PolledType ==
  ASSUME NEW ic, FramerOK(ic), NEW s \in Nat, ic.session = s, NEW rest \in Seq(WireElem), NEW n \in Nat,
         n <= Len(rest), NEW junk \in Nat
  PROVE  InVisit(Polled(ic, rest, n, junk), s)
<1>1. PICK e : e = <<>>
  OBVIOUS
<1>2. PICK T : /\ Polled(ic, rest, n, junk) = T[n]
               /\ T[0] = [ic |-> ic, rest |-> rest, more |-> n, got |-> <<>>, lost |-> FALSE]
               /\ \A j \in 1..n : T[j] = Round(T[j - 1], junk)
  BY PolledIs
<1> DEFINE S == {j \in 0..n : InVisit(T[j], s)}
<1>3. 0 \in S
  <2>1. T[0] = Visit(ic, rest, n, e, FALSE)
    BY <1>1, <1>2 DEF Visit
  <2>2. VisitOK(ic, rest, n, FALSE, s)
    BY DEF VisitOK
  <2>3. InVisit(T[0], s)
    BY <2>1, <2>2 DEF InVisit
  <2>4. 0 \in 0..n
    OBVIOUS
  <2> QED
    BY <2>3, <2>4
<1>4. \A j \in 0..n-1 : j \in S => j + 1 \in S
  <2> SUFFICES ASSUME NEW j \in 0..n-1, j \in S PROVE j + 1 \in S
    OBVIOUS
  <2>1. j + 1 \in 1..n /\ j + 1 \in 0..n /\ (j + 1) - 1 = j
    OBVIOUS
  <2>2. T[j + 1] = Round(T[j], junk)
    BY <1>2, <2>1
  <2>3. InVisit(Round(T[j], junk), s)
    BY RoundType
  <2> QED
    BY <2>1, <2>2, <2>3
<1>5. n \in S
  <2> HIDE DEF S
  <2>1. \A j \in 0..n : j \in S
    BY <1>3, <1>4, UpTo
  <2>2. n \in 0..n
    OBVIOUS
  <2> QED
    BY <2>1, <2>2
<1> QED
  BY <1>2, <1>5

\* A visit to a stream of whole frames ends well, or gives the stream up.
LEMMA PolledGood ==
  ASSUME NEW ic, FramerOK(ic), NEW s \in Nat, ic.session = s, NEW rest \in Seq(WireElem), NEW n \in Nat,
         n <= Len(rest), NEW junk \in Nat, NEW w \in Seq(Nat), NEW k \in Nat,
         Carries(Unread(ic) \o rest, w, k), NoWhole(Unread(ic))
  PROVE  GoodVisit(Polled(ic, rest, n, junk), s, w, k)
<1>1. PICK e : e = <<>>
  OBVIOUS
<1>2. PICK T : /\ Polled(ic, rest, n, junk) = T[n]
               /\ T[0] = [ic |-> ic, rest |-> rest, more |-> n, got |-> <<>>, lost |-> FALSE]
               /\ \A j \in 1..n : T[j] = Round(T[j - 1], junk)
  BY PolledIs
<1> DEFINE S == {j \in 0..n : GoodVisit(T[j], s, w, k)}
<1>3. 0 \in S
  <2>1. T[0] = Visit(ic, rest, n, e, FALSE)
    BY <1>1, <1>2 DEF Visit
  <2>2. VisitOK(ic, rest, n, FALSE, s)
    BY DEF VisitOK
  <2>3. e \in Seq(Nat) /\ Len(e) = 0
    BY <1>1, EmptySeq
  <2>4. k <= Len(w) /\ k + Len(e) = k
    BY <2>3 DEF Carries
  <2>5. GotOK(e, k, w)
    BY <2>3, <2>4 DEF GotOK
  <2>6. Reading(ic, e, rest, w, k)
    BY <2>4, <2>5 DEF Reading
  <2>7. GoodVisit(T[0], s, w, k)
    BY <2>1, <2>2, <2>6 DEF GoodVisit
  <2>8. 0 \in 0..n
    OBVIOUS
  <2> QED
    BY <2>7, <2>8
<1>4. \A j \in 0..n-1 : j \in S => j + 1 \in S
  <2> SUFFICES ASSUME NEW j \in 0..n-1, j \in S PROVE j + 1 \in S
    OBVIOUS
  <2>1. j + 1 \in 1..n /\ j + 1 \in 0..n /\ (j + 1) - 1 = j
    OBVIOUS
  <2>2. T[j + 1] = Round(T[j], junk)
    BY <1>2, <2>1
  <2>3. GoodVisit(Round(T[j], junk), s, w, k)
    BY RoundGood
  <2> QED
    BY <2>1, <2>2, <2>3
<1>5. n \in S
  <2> HIDE DEF S
  <2>1. \A j \in 0..n : j \in S
    BY <1>3, <1>4, UpTo
  <2>2. n \in 0..n
    OBVIOUS
  <2> QED
    BY <2>1, <2>2
<1> QED
  BY <1>2, <1>5

-----------------------------------------------------------------------------
(* The links of the cluster: the invariant. *)

\* Between the framer, with u unread, and the sender, with r on the wire: the frames dl
\* were delivered, and the other frames of w are in u and r.
Flowing(u, r, dl, w) == NoWhole(u) /\ GotOK(dl, 0, w) /\ Carries(u \o r, w, Len(dl))

\* That holds of the stream of s, whether the receiver has an entry for it or not.
LinkOK(s, inb, r, dl, w) ==
  /\ \A i \in 1..MAX_INBOUND : inb[i].session = s => Flowing(Unread(inb[i]), r, dl, w)
  /\ (\A i \in 1..MAX_INBOUND : inb[i].session # s) => Flowing(<<>>, r, dl, w)

\* The table of inbound streams has one entry for a session at most.
InboundOK(inb, an) ==
  /\ DOMAIN inb = 1..MAX_INBOUND /\ an \subseteq Sess
  /\ \A i \in 1..MAX_INBOUND : FramerOK(inb[i]) /\ (inb[i].session # 0 => inb[i].session \in an)
  /\ \A i, j \in 1..MAX_INBOUND : inb[i].session # 0 /\ inb[i].session = inb[j].session => i = j

LinksOK(wi, wr, an, inb, de, to) ==
  /\ DOMAIN wi = Sess /\ DOMAIN wr = Sess /\ DOMAIN de = Sess
  /\ \A s \in Sess : wi[s] \in Seq(WireElem) /\ wr[s] \in Seq(Nat)
  /\ InboundOK(inb, an)
  /\ \A s \in Sess \ to : LinkOK(s, inb, wi[s], de[s], wr[s])

\* The inductive invariant of the links.
TransportInv ==
  /\ LinksOK(wire, written, announced, inbound, delivered, torn)
  /\ sends \in Nat /\ op \in [address : BOOLEAN, session : Nat, stream : Nat, redial : Nat]
  /\ op.stream \in Sess \cup {0}

\* Nothing has been sent or read.
LEMMA TransportStarts == TransportInit => TransportInv
<1> SUFFICES ASSUME TransportInit PROVE TransportInv
  OBVIOUS
<1>1. PICK e : e = <<>>
  OBVIOUS
<1>2. e \in Seq(WireElem) /\ e \in Seq(Nat) /\ Len(e) = 0
  BY <1>1, EmptySeq
<1>3. /\ wire = [s \in Sess |-> e] /\ written = [s \in Sess |-> e] /\ delivered = [s \in Sess |-> e]
      /\ announced = {} /\ torn = {} /\ sends = 0 /\ inbound = [i \in 1..MAX_INBOUND |-> Idle]
  BY <1>1 DEF TransportInit
<1>4. PICK i0 : i0 = Idle
  OBVIOUS
<1>5. FramerOK(i0) /\ i0.session = 0
  <2>1. i0 = [session |-> 0, buf |-> e, start |-> 0]
    BY <1>1, <1>4 DEF Idle
  <2> QED
    BY <1>2, <2>1 DEF FramerOK, FramerEntry
<1>6. InboundOK(inbound, announced)
  <2>1. DOMAIN inbound = 1..MAX_INBOUND /\ \A i \in 1..MAX_INBOUND : inbound[i] = i0
    BY <1>3, <1>4
  <2> QED
    BY <1>3, <1>5, <2>1 DEF InboundOK
<1>7. Flowing(e, e, e, e)
  <2>1. 0 + Len(e) <= Len(e) /\ \A i \in 1..Len(e) : FALSE
    BY <1>2
  <2>2. GotOK(e, 0, e)
    BY <1>2, <2>1 DEF GotOK
  <2>3. e \o e = e
    BY <1>1, <1>2, ConcatEmptySeq
  <2>4. Carries(e \o e, e, Len(e))
    BY <1>1, <1>2, <2>3, CarriesNone
  <2> QED
    BY <1>1, <2>2, <2>4 DEF Flowing, NoWhole
<1>8. \A s \in Sess : s # 0
  BY TransportAssumption DEF Sess
<1>9. \A s \in Sess : LinkOK(s, inbound, e, e, e)
  <2>1. \A i \in 1..MAX_INBOUND : inbound[i].session = 0
    BY <1>3, <1>4, <1>5
  <2> QED
    BY <1>1, <1>7, <1>8, <2>1 DEF LinkOK
<1>10. LinksOK(wire, written, announced, inbound, delivered, torn)
  BY <1>2, <1>3, <1>6, <1>9 DEF LinksOK
<1>11. op \in [address : BOOLEAN, session : Nat, stream : Nat, redial : Nat] /\ op.stream = 0
  <2>1. PICK a \in BOOLEAN :
          op = dial_peer([op |-> [address |-> a, session |-> 0, stream |-> 0, redial |-> 0],
                          dialled |-> 0, pending |-> {}]).op
    BY DEF TransportInit
  <2>2. REDIAL_TICKS \in Nat
    BY TransportAssumption
  <2>3. \/ op = [address |-> a, session |-> 0, stream |-> 0, redial |-> 0]
        \/ op = [address |-> a, session |-> 0, stream |-> 0, redial |-> REDIAL_TICKS]
    BY <2>1 DEF dial_peer
  <2> QED
    BY <2>2, <2>3
<1> QED
  BY <1>3, <1>10, <1>11 DEF TransportInv

\* The least of two numbers, one of which may be negative.
LEMMA MinInts ==
  ASSUME NEW x \in Int, NEW y \in Int
  PROVE  Min({x, y}) = IF x <= y THEN x ELSE y
<1> DEFINE m == IF x <= y THEN x ELSE y
           L(z) == \A w \in {x, y} : z <= w
<1>1. m \in {x, y} /\ L(m)
  OBVIOUS
<1>2. \A z \in {x, y} : L(z) => z = m
  OBVIOUS
<1> HIDE DEF m, L
<1>3. (CHOOSE z \in {x, y} : L(z)) = m
  BY <1>1, <1>2
<1>4. Min({x, y}) = CHOOSE z \in {x, y} : L(z)
  BY DEF Min, L
<1> QED
  BY <1>3, <1>4 DEF m

\* A frame of length l with number f.
FrameOf(y, f, l) ==
  /\ l <= NORND_FRAME_MAX /\ y \in Seq(WireElem) /\ Len(y) = l + 1
  /\ \A i \in 1..(l + 1) : y[i] = [frame |-> f, at |-> i - 1, len |-> l]

\* The encoder makes one, or nothing.
LEMMA EncodeIs ==
  ASSUME NEW f \in Nat, NEW l \in Nat
  PROVE  nornd_frame_encode(f, l) = <<>> \/ FrameOf(nornd_frame_encode(f, l), f, l)
<1>1. PICK y : y = nornd_frame_encode(f, l)
  OBVIOUS
<1>2. NORND_FRAME_MAX \in Nat
  BY TransportAssumption
<1>3. CASE l > NORND_FRAME_MAX
  BY <1>3 DEF nornd_frame_encode
<1>4. CASE ~(l > NORND_FRAME_MAX)
  <2> DEFINE El(i) == [frame |-> f, at |-> i - 1, len |-> l]
  <2>1. \A i \in 1..(l + 1) : El(i) \in WireElem
    BY DEF WireElem
  <2>2. y = [i \in 1..(l + 1) |-> El(i)]
    BY <1>1, <1>4 DEF nornd_frame_encode
  <2>3. l <= NORND_FRAME_MAX /\ l + 1 \in Nat
    BY <1>2, <1>4
  <2> HIDE DEF El
  <2>4. y \in [1..(l + 1) -> WireElem]
    BY <2>1, <2>2
  <2>5. y \in Seq(WireElem) /\ Len(y) = l + 1 /\ \A i \in 1..(l + 1) : y[i] = El(i)
    BY <2>2, <2>3, <2>4, SeqDef
  <2>6. FrameOf(y, f, l)
    BY <2>3, <2>5 DEF FrameOf, El
  <2> QED
    BY <1>1, <2>6
<1> QED
  BY <1>3, <1>4

\* What a stream takes of a frame: all of it, or less.
LEMMA TookIs ==
  ASSUME NEW y \in Seq(WireElem), NEW b \in Int, NEW took, took = SubSeq(y, 1, Min({Len(y), b}))
  PROVE  took \in Seq(WireElem) /\ (took = y \/ Len(took) < Len(y))
<1>1. PICK a \in Nat : a = Len(y)
  BY LenProperties
<1>2. PICK c : c = Min({a, b})
  OBVIOUS
<1>3. c = IF a <= b THEN a ELSE b
  BY <1>1, <1>2, MinInts
<1>4. c \in Int /\ c <= a
  BY <1>1, <1>3
<1>5. took = SubSeq(y, 1, c)
  BY <1>1, <1>2
<1>6. \A i \in 1..c : y[i] \in WireElem
  BY <1>1, <1>4, ElementOfSeq
<1>7. CASE 1 <= c
  <2>1. /\ took \in Seq(WireElem) /\ Len(took) = c - 1 + 1
        /\ \A i \in 1..(c - 1 + 1) : took[i] = y[1 + i - 1]
    <3>1. 1 \in Int
      OBVIOUS
    <3>2. PICK z : z = SubSeq(y, 1, c)
      OBVIOUS
    <3>3. /\ z \in Seq(WireElem) /\ Len(z) = IF 1 <= c THEN c - 1 + 1 ELSE 0
          /\ \A i \in 1..(c - 1 + 1) : z[i] = y[1 + i - 1]
      BY <1>4, <1>6, <3>1, <3>2, SubSeqProperties
    <3>4. z = took
      BY <1>5, <3>2
    <3> QED
      BY <1>7, <3>3, <3>4
  <2>2. \A k \in Int : k - 1 + 1 = k /\ \A i \in 1..k : 1 + i - 1 = i
    OBVIOUS
  <2>3. c - 1 + 1 = c /\ \A i \in 1..c : 1 + i - 1 = i
    BY <1>4, <2>2
  <2>4. Len(took) = c /\ \A i \in 1..c : took[i] = y[i]
    BY <2>1, <2>3
  <2>5. CASE c = a
    <3>1. took = y
      BY <1>1, <2>1, <2>4, <2>5, SeqEqual
    <3> QED
      BY <2>1, <3>1
  <2>6. CASE c # a
    <3>1. c < a
      BY <1>1, <1>4, <2>6
    <3> QED
      BY <1>1, <2>1, <2>4, <3>1
  <2> QED
    BY <2>5, <2>6
<1>8. CASE ~(1 <= c)
  <2>1. c < 1 /\ 1 \in Int
    BY <1>4, <1>8
  <2>2. took = <<>>
    BY <1>4, <1>5, <2>1, SubSeqEmpty
  <2>3. took \in Seq(WireElem) /\ Len(took) = 0
    BY <2>2, EmptySeq
  <2>4. CASE a = 0
    <3>1. \A i \in 1..0 : took[i] = y[i]
      OBVIOUS
    <3>2. took = y
      BY <1>1, <2>3, <2>4, <3>1, SeqEqual
    <3> QED
      BY <2>3, <3>2
  <2>5. CASE a # 0
    <3>1. 0 < a
      BY <1>1, <2>5
    <3> QED
      BY <1>1, <2>3, <3>1
  <2> QED
    BY <2>4, <2>5
<1> QED
  BY <1>4, <1>7, <1>8

\* What flows on when one more frame is sent.
LEMMA FlowMore ==
  ASSUME NEW u \in Seq(WireElem), NEW r \in Seq(WireElem), NEW dl, NEW w \in Seq(Nat), Flowing(u, r, dl, w),
         NEW f \in Nat, NEW l \in Nat, NEW y, FrameOf(y, f, l)
  PROVE  Flowing(u, r \o y, dl, Append(w, f))
<1>1. NoWhole(u) /\ GotOK(dl, 0, w) /\ Carries(u \o r, w, Len(dl))
  BY DEF Flowing
<1>2. PICK x : x = u \o r
  OBVIOUS
<1>3. PICK k : k = Len(dl)
  OBVIOUS
<1>4. l <= NORND_FRAME_MAX /\ y \in Seq(WireElem) /\ Len(y) = l + 1
      /\ \A i \in 1..(l + 1) : y[i] = [frame |-> f, at |-> i - 1, len |-> l]
  BY DEF FrameOf
<1>5. Carries(x, w, k)
  BY <1>1, <1>2, <1>3
<1>6. Carries(x \o y, Append(w, f), k)
  BY <1>4, <1>5, CarriesMore
<1>7. x \o y = u \o (r \o y)
  BY <1>2, <1>4, RegroupWire
<1>8. GotOK(dl, 0, Append(w, f))
  <2>1. PICK n \in Nat : n = Len(w)
    BY LenProperties
  <2>2. PICK v : v = Append(w, f)
    OBVIOUS
  <2>3. Len(v) = n + 1 /\ \A i \in 1..n : v[i] = w[i]
    BY <2>1, <2>2, AppendProperties
  <2>4. PICK g \in Nat : g = Len(dl)
    BY <1>1, LenProperties DEF GotOK
  <2>5. dl \in Seq(Nat) /\ 0 + g <= n /\ \A i \in 1..g : dl[i] = w[0 + i]
    BY <1>1, <2>1, <2>4 DEF GotOK
  <2>6. 0 + g <= n + 1 /\ \A i \in 1..g : 0 + i \in 1..n
    BY <2>5
  <2>7. \A i \in 1..g : dl[i] = v[0 + i]
    BY <2>3, <2>5, <2>6
  <2>8. GotOK(dl, 0, v)
    BY <2>3, <2>4, <2>5, <2>6, <2>7 DEF GotOK
  <2> QED
    BY <2>2, <2>8
<1> QED
  BY <1>1, <1>3, <1>6, <1>7, <1>8 DEF Flowing


\* The links after one more write of a whole frame, or of a piece of it on a stream that is
\* then torn.
LEMMA LinkSent ==
  ASSUME NEW wi, NEW wr, NEW an, NEW inb, NEW de, NEW to, LinksOK(wi, wr, an, inb, de, to),
         NEW s \in Sess, NEW f \in Nat, NEW l \in Nat, NEW y, FrameOf(y, f, l),
         NEW took \in Seq(WireElem), NEW to2, to \subseteq to2, s \in to2 \/ took = y,
         NEW wi2, wi2 = [wi EXCEPT ![s] = wi[s] \o took],
         NEW wr2, wr2 = [wr EXCEPT ![s] = Append(wr[s], f)]
  PROVE  LinksOK(wi2, wr2, an, inb, de, to2)
<1>1. /\ DOMAIN wi = Sess /\ DOMAIN wr = Sess /\ DOMAIN de = Sess /\ InboundOK(inb, an)
      /\ \A t \in Sess : wi[t] \in Seq(WireElem) /\ wr[t] \in Seq(Nat)
      /\ \A t \in Sess \ to : LinkOK(t, inb, wi[t], de[t], wr[t])
  BY DEF LinksOK
<1>2. wi[s] \o took \in Seq(WireElem) /\ Append(wr[s], f) \in Seq(Nat)
  BY <1>1, ConcatProperties, AppendProperties
<1>3. /\ DOMAIN wi2 = Sess /\ DOMAIN wr2 = Sess
      /\ wi2[s] = wi[s] \o took /\ wr2[s] = Append(wr[s], f)
      /\ \A t \in Sess : t # s => wi2[t] = wi[t] /\ wr2[t] = wr[t]
  BY <1>1
<1>4. \A t \in Sess : wi2[t] \in Seq(WireElem) /\ wr2[t] \in Seq(Nat)
  BY <1>1, <1>2, <1>3
<1>5. ASSUME NEW t \in Sess \ to2
      PROVE  LinkOK(t, inb, wi2[t], de[t], wr2[t])
  <2>1. LinkOK(t, inb, wi[t], de[t], wr[t])
    BY <1>1
  <2>2. CASE t # s
    BY <1>3, <2>1, <2>2
  <2>3. CASE t = s
    <3>1. took = y
      BY <2>3
    <3>2. PICK r \in Seq(WireElem) : r = wi[s]
      BY <1>1
    <3>3. PICK w \in Seq(Nat) : w = wr[s]
      BY <1>1
    <3>4. PICK g : g = de[s]
      OBVIOUS
    <3>5. \A u \in Seq(WireElem) : Flowing(u, r, g, w) => Flowing(u, r \o y, g, Append(w, f))
      BY FlowMore
    <3>6. LinkOK(s, inb, r, g, w)
      BY <2>1, <2>3, <3>2, <3>3, <3>4
    <3>7. \A i \in 1..MAX_INBOUND : Unread(inb[i]) \in Seq(WireElem)
      BY <1>1, UnreadIs DEF InboundOK
    <3>8. <<>> \in Seq(WireElem)
      BY EmptySeq
    <3>9. LinkOK(s, inb, r \o y, g, Append(w, f))
      BY <3>5, <3>6, <3>7, <3>8, Zenon DEF LinkOK
    <3>10. wi2[t] = r \o y /\ wr2[t] = Append(w, f) /\ de[t] = g
      BY <1>3, <2>3, <3>1, <3>2, <3>3, <3>4
    <3> QED
      BY <2>3, <3>9, <3>10
  <2> QED
    BY <2>2, <2>3
<1> QED
  BY <1>1, <1>3, <1>4, <1>5 DEF LinksOK

\* The links after the stream of s is announced: there is no room, or entry m becomes its
\* entry.
LEMMA LinkOpened ==
  ASSUME NEW wi, NEW wr, NEW an, NEW inb, NEW de, NEW to, LinksOK(wi, wr, an, inb, de, to),
         NEW s \in Sess, s \notin an, NEW m \in 1..MAX_INBOUND, inb[m].session = 0,
         NEW ic, FramerOK(ic), ic.session = s, Unread(ic) = <<>>,
         NEW inb2, inb2 = [inb EXCEPT ![m] = ic]
  PROVE  LinksOK(wi, wr, an \cup {s}, inb2, de, to)
<1>1. /\ DOMAIN wi = Sess /\ DOMAIN wr = Sess /\ DOMAIN de = Sess /\ InboundOK(inb, an)
      /\ \A t \in Sess : wi[t] \in Seq(WireElem) /\ wr[t] \in Seq(Nat)
      /\ \A t \in Sess \ to : LinkOK(t, inb, wi[t], de[t], wr[t])
  BY DEF LinksOK
<1>2. s # 0 /\ \A t \in Sess : t # 0
  BY TransportAssumption DEF Sess
<1>3. /\ DOMAIN inb = 1..MAX_INBOUND /\ an \subseteq Sess
      /\ \A i \in 1..MAX_INBOUND : FramerOK(inb[i]) /\ (inb[i].session # 0 => inb[i].session \in an)
      /\ \A i, j \in 1..MAX_INBOUND : inb[i].session # 0 /\ inb[i].session = inb[j].session => i = j
  BY <1>1 DEF InboundOK
<1>4. DOMAIN inb2 = 1..MAX_INBOUND /\ inb2[m] = ic /\ \A i \in 1..MAX_INBOUND : i # m => inb2[i] = inb[i]
  BY <1>3
<1>5. \A i \in 1..MAX_INBOUND : inb[i].session # s
  BY <1>2, <1>3
<1>6. InboundOK(inb2, an \cup {s})
  <2>1. \A i \in 1..MAX_INBOUND : FramerOK(inb2[i]) /\ (inb2[i].session # 0 => inb2[i].session \in an \cup {s})
    BY <1>3, <1>4
  <2>2. ASSUME NEW i \in 1..MAX_INBOUND, NEW j \in 1..MAX_INBOUND, inb2[i].session # 0,
               inb2[i].session = inb2[j].session
        PROVE  i = j
    <3>1. CASE i = m
      BY <1>4, <1>5, <2>2, <3>1
    <3>2. CASE j = m
      BY <1>4, <1>5, <2>2, <3>2
    <3>3. CASE i # m /\ j # m
      BY <1>3, <1>4, <2>2, <3>3
    <3> QED
      BY <3>1, <3>2, <3>3
  <2> QED
    BY <1>3, <1>4, <2>1, <2>2 DEF InboundOK
<1>7. ASSUME NEW t \in Sess \ to
      PROVE  LinkOK(t, inb2, wi[t], de[t], wr[t])
  <2>1. LinkOK(t, inb, wi[t], de[t], wr[t])
    BY <1>1
  <2> DEFINE F(u) == Flowing(u, wi[t], de[t], wr[t])
  <2>2. /\ \A i \in 1..MAX_INBOUND : inb[i].session = t => F(Unread(inb[i]))
        /\ (\A i \in 1..MAX_INBOUND : inb[i].session # t) => F(<<>>)
    BY <2>1, Zenon DEF LinkOK
  <2> HIDE DEF F
  <2>3. CASE t = s
    <3>1. F(<<>>)
      BY <1>5, <2>2, <2>3
    <3>2. \A i \in 1..MAX_INBOUND : inb2[i].session = t => i = m
      BY <1>4, <1>5, <2>3
    <3>3. \A i \in 1..MAX_INBOUND : inb2[i].session = t => F(Unread(inb2[i]))
      BY <1>4, <3>1, <3>2
    <3> QED
      BY <3>1, <3>3, Zenon DEF LinkOK, F
  <2>4. CASE t # s
    <3>1. \A i \in 1..MAX_INBOUND : inb2[i].session = t => i # m
      BY <1>4, <2>4
    <3>2. \A i \in 1..MAX_INBOUND : inb2[i].session = t => F(Unread(inb2[i]))
      BY <1>4, <2>2, <3>1
    <3>3. ASSUME \A i \in 1..MAX_INBOUND : inb2[i].session # t
          PROVE  F(<<>>)
      <4>1. \A i \in 1..MAX_INBOUND : inb[i].session # t
        BY <1>2, <1>4, <3>3
      <4> QED
        BY <2>2, <4>1
    <3> QED
      BY <3>2, <3>3, Zenon DEF LinkOK, F
  <2> QED
    BY <2>3, <2>4
<1> QED
  BY <1>1, <1>6, <1>7 DEF LinksOK

\* What a visit that ends in d makes of entry i, of session s, and of its stream.
LeftBy(wi, inb, de, to, i, s, d, wi2, inb2, de2, to2) ==
  /\ s = inb[i].session /\ s # 0
  /\ inb2 = [inb EXCEPT ![i] = d.ic] /\ wi2 = [wi EXCEPT ![s] = d.rest]
  /\ de2 = [de EXCEPT ![s] = de[s] \o d.got]
  /\ to2 = IF d.lost THEN to \cup {s} ELSE to

\* The links after a visit to entry i.
LEMMA LinkPolled ==
  ASSUME NEW wi, NEW wr, NEW an, NEW inb, NEW de, NEW to, LinksOK(wi, wr, an, inb, de, to),
         NEW i \in 1..MAX_INBOUND, NEW s, NEW n \in Nat, n <= Len(wi[s]),
         NEW junk \in Nat, NEW d, d = Polled(inb[i], wi[s], n, junk),
         NEW wi2, NEW inb2, NEW de2, NEW to2, LeftBy(wi, inb, de, to, i, s, d, wi2, inb2, de2, to2)
  PROVE  LinksOK(wi2, wr, an, inb2, de2, to2)
<1>0. /\ s = inb[i].session /\ s # 0
      /\ inb2 = [inb EXCEPT ![i] = d.ic] /\ wi2 = [wi EXCEPT ![s] = d.rest]
      /\ de2 = [de EXCEPT ![s] = de[s] \o d.got]
      /\ to2 = IF d.lost THEN to \cup {s} ELSE to
  BY DEF LeftBy
<1>1. /\ DOMAIN wi = Sess /\ DOMAIN wr = Sess /\ DOMAIN de = Sess /\ InboundOK(inb, an)
      /\ \A t \in Sess : wi[t] \in Seq(WireElem) /\ wr[t] \in Seq(Nat)
      /\ \A t \in Sess \ to : LinkOK(t, inb, wi[t], de[t], wr[t])
  BY DEF LinksOK
<1>2. /\ DOMAIN inb = 1..MAX_INBOUND /\ an \subseteq Sess
      /\ \A j \in 1..MAX_INBOUND : FramerOK(inb[j]) /\ (inb[j].session # 0 => inb[j].session \in an)
      /\ \A j, h \in 1..MAX_INBOUND : inb[j].session # 0 /\ inb[j].session = inb[h].session => j = h
  BY <1>1 DEF InboundOK
<1>3. s \in Sess /\ s \in an /\ FramerOK(inb[i])
  BY <1>0, <1>2
<1>4. s \in Nat /\ \A t \in Sess : t # 0
  BY <1>3, TransportAssumption DEF Sess
<1>5. PICK r \in Seq(WireElem) : r = wi[s]
  BY <1>1, <1>3
<1>6. PICK ic : ic = inb[i]
  OBVIOUS
<1>7. FramerOK(ic) /\ ic.session = s /\ n <= Len(r) /\ d = Polled(ic, r, n, junk)
  BY <1>0, <1>3, <1>5, <1>6
<1>8. InVisit(d, s)
  BY <1>4, <1>7, PolledType
<1>9. FramerOK(d.ic) /\ d.ic.session \in {0, s} /\ d.rest \in Seq(WireElem) /\ d.lost \in BOOLEAN
  BY <1>8 DEF InVisit, Visit, VisitOK
<1>10. DOMAIN inb2 = 1..MAX_INBOUND /\ inb2[i] = d.ic /\ \A j \in 1..MAX_INBOUND : j # i => inb2[j] = inb[j]
  BY <1>0, <1>2
<1>11. /\ DOMAIN wi2 = Sess /\ wi2[s] = d.rest /\ \A t \in Sess : t # s => wi2[t] = wi[t]
       /\ DOMAIN de2 = Sess /\ de2[s] = de[s] \o d.got /\ \A t \in Sess : t # s => de2[t] = de[t]
  BY <1>0, <1>1, <1>3
<1>12. \A t \in Sess : wi2[t] \in Seq(WireElem) /\ wr[t] \in Seq(Nat)
  BY <1>1, <1>9, <1>11
<1>13. \A j \in 1..MAX_INBOUND : inb2[j].session # 0 => inb2[j].session = inb[j].session
  BY <1>6, <1>7, <1>9, <1>10
<1>14. InboundOK(inb2, an)
  <2>1. \A j \in 1..MAX_INBOUND : FramerOK(inb2[j]) /\ (inb2[j].session # 0 => inb2[j].session \in an)
    BY <1>2, <1>9, <1>10, <1>13
  <2>2. \A j, h \in 1..MAX_INBOUND : inb2[j].session # 0 /\ inb2[j].session = inb2[h].session => j = h
    BY <1>2, <1>13
  <2> QED
    BY <1>2, <1>10, <2>1, <2>2 DEF InboundOK
<1>15. ASSUME NEW t \in Sess \ to2
       PROVE  LinkOK(t, inb2, wi2[t], de2[t], wr[t])
  <2>1. t \in Sess \ to /\ (t = s => d.lost = FALSE)
    BY <1>0, <1>9
  <2>2. LinkOK(t, inb, wi[t], de[t], wr[t])
    BY <1>1, <2>1
  <2>3. CASE t # s
    <3> DEFINE F(u) == Flowing(u, wi[t], de[t], wr[t])
    <3>1. /\ \A j \in 1..MAX_INBOUND : inb[j].session = t => F(Unread(inb[j]))
          /\ (\A j \in 1..MAX_INBOUND : inb[j].session # t) => F(<<>>)
      BY <2>2, Zenon DEF LinkOK
    <3> HIDE DEF F
    <3>2. \A j \in 1..MAX_INBOUND : inb2[j].session = t => j # i /\ inb[j].session = t
      BY <1>4, <1>6, <1>7, <1>13, <2>3
    <3>3. \A j \in 1..MAX_INBOUND : inb2[j].session = t => F(Unread(inb2[j]))
      BY <1>10, <3>1, <3>2
    <3>4. ASSUME \A j \in 1..MAX_INBOUND : inb2[j].session # t
          PROVE  F(<<>>)
      <4>1. \A j \in 1..MAX_INBOUND : inb[j].session # t
        BY <1>6, <1>7, <1>10, <2>3, <3>4
      <4> QED
        BY <3>1, <4>1
    <3>5. wi2[t] = wi[t] /\ de2[t] = de[t]
      BY <1>11, <2>3
    <3> QED
      BY <3>3, <3>4, <3>5, Zenon DEF LinkOK, F
  <2>4. CASE t = s
    <3>1. PICK w \in Seq(Nat) : w = wr[s]
      BY <1>1, <1>3
    <3>2. PICK g : g = de[s]
      OBVIOUS
    <3>3. Flowing(Unread(ic), r, g, w)
      BY <1>5, <1>6, <1>7, <2>2, <2>4, <3>1, <3>2, Zenon DEF LinkOK
    <3>4. NoWhole(Unread(ic)) /\ GotOK(g, 0, w) /\ Carries(Unread(ic) \o r, w, Len(g))
      BY <3>3 DEF Flowing
    <3>5. Len(g) \in Nat
      BY <3>4, LenProperties DEF GotOK
    <3>6. GoodVisit(d, s, w, Len(g))
      BY <1>4, <1>7, <3>4, <3>5, PolledGood
    <3>7. d.ic.session = s /\ Reading(d.ic, d.got, d.rest, w, Len(g)) /\ NoWhole(Unread(d.ic))
      <4>1. d.lost = FALSE
        BY <2>1, <2>4
      <4> QED
        BY <3>6, <4>1 DEF GoodVisit, Visit
    <3>8. GotOK(d.got, Len(g), w) /\ Carries(Unread(d.ic) \o d.rest, w, Len(g) + Len(d.got))
      BY <3>7 DEF Reading
    <3>9. GotOK(d.got, 0 + Len(g), w)
      BY <3>5, <3>8
    <3>10. GotOK(g \o d.got, 0, w) /\ Len(g \o d.got) = Len(g) + Len(d.got)
      BY <3>4, <3>9, GotBoth
    <3>11. Flowing(Unread(d.ic), d.rest, g \o d.got, w)
      BY <3>7, <3>8, <3>10 DEF Flowing
    <3>12. \A j \in 1..MAX_INBOUND : inb2[j].session = s => j = i
      BY <1>0, <1>2, <1>13
    <3>13. wi2[t] = d.rest /\ de2[t] = g \o d.got /\ wr[t] = w
      BY <1>11, <2>4, <3>1, <3>2
    <3> QED
      BY <1>10, <2>4, <3>7, <3>11, <3>12, <3>13, Zenon DEF LinkOK
  <2> QED
    BY <2>3, <2>4
<1> QED
  BY <1>1, <1>11, <1>12, <1>14, <1>15 DEF LinksOK


\* The sender's own record of the peer.
PeerRecord == [address : BOOLEAN, session : Nat, stream : Nat, redial : Nat]
OpOK(o) == o \in PeerRecord /\ o.stream \in Sess \cup {0}

\* A dial leaves the peer without a stream.
LEMMA DialLeaves ==
  ASSUME NEW o \in PeerRecord, NEW k, NEW p, NEW d, d = [op |-> o, dialled |-> k, pending |-> p]
  PROVE  OpOK(dial_peer(d).op)
<1>1. REDIAL_TICKS \in Nat
  BY TransportAssumption
<1>2. PICK a \in BOOLEAN, e \in Nat, t \in Nat, r \in Nat :
        o = [address |-> a, session |-> e, stream |-> t, redial |-> r]
  BY DEF PeerRecord
<1>3. CASE a
  <2>1. dial_peer(d).op = [d.op EXCEPT !.session = 0, !.stream = 0]
    BY <1>2, <1>3 DEF dial_peer
  <2>2. dial_peer(d).op = [address |-> a, session |-> 0, stream |-> 0, redial |-> r]
    BY <1>2, <2>1
  <2> QED
    BY <2>2 DEF OpOK, PeerRecord
<1>4. CASE ~a
  <2>1. d = [op |-> [address |-> a, session |-> e, stream |-> t, redial |-> r], dialled |-> k, pending |-> p]
    BY <1>2
  <2>2. dial_peer([op |-> [address |-> FALSE, session |-> e, stream |-> t, redial |-> r],
                   dialled |-> k, pending |-> p]).op
          = [address |-> FALSE, session |-> 0, stream |-> 0, redial |-> REDIAL_TICKS]
    BY DEF dial_peer
  <2>3. dial_peer(d).op = [address |-> a, session |-> 0, stream |-> 0, redial |-> REDIAL_TICKS]
    BY <1>4, <2>1, <2>2
  <2> QED
    BY <1>1, <2>3 DEF OpOK, PeerRecord
<1> QED
  BY <1>3, <1>4

\* A dial that ends, a tick without a session and a restart change the sender only.
LEMMA SenderKeeps ==
  ASSUME TransportInv, (\E s \in Sess : on_out_session(s)) \/ PollOut \/ nornd_transport_new
  PROVE  TransportInv'
<1>1. op \in PeerRecord /\ op.stream \in Sess \cup {0}
      /\ LinksOK(wire, written, announced, inbound, delivered, torn) /\ sends \in Nat
  BY DEF TransportInv, PeerRecord
<1>2. UNCHANGED <<wire, written, announced, inbound, delivered, torn, sends>>
  BY DEF on_out_session, PollOut, nornd_transport_new, toReceiver
<1>3. PICK a \in BOOLEAN, e \in Nat, t \in Nat, r \in Nat :
        op = [address |-> a, session |-> e, stream |-> t, redial |-> r]
  BY <1>1 DEF PeerRecord
<1>4. t \in Sess \cup {0}
  BY <1>1, <1>3
<1>5. OpOK(op')
  <2>1. ASSUME NEW s \in Sess, on_out_session(s)
        PROVE  OpOK(op')
    <3>1. op' = [op EXCEPT !.session = s, !.stream = IF op.stream = 0 THEN s ELSE op.stream]
      BY <2>1 DEF on_out_session
    <3>2. op' = [address |-> a, session |-> s, stream |-> IF t = 0 THEN s ELSE t, redial |-> r]
      BY <1>3, <3>1
    <3>3. s \in Nat
      BY TransportAssumption DEF Sess
    <3> QED
      BY <1>4, <3>2, <3>3 DEF OpOK, PeerRecord
  <2>2. CASE PollOut
    <3>1. CASE op.redial > 0 /\ Becomes([Dials EXCEPT !.op.redial = @ - 1])
      <4>1. op' = [Dials EXCEPT !.op.redial = @ - 1].op
        BY <3>1 DEF Becomes
      <4>2. op' = [address |-> a, session |-> e, stream |-> t, redial |-> r - 1]
        BY <1>3, <4>1 DEF Dials
      <4>3. r - 1 \in Nat
        BY <1>3, <3>1
      <4> QED
        BY <1>4, <4>2, <4>3 DEF OpOK, PeerRecord
    <3>2. CASE Becomes(dial_peer(Dials))
      <4>1. op' = dial_peer(Dials).op
        BY <3>2 DEF Becomes
      <4>2. Dials = [op |-> op, dialled |-> dialled, pending |-> pending]
        BY DEF Dials
      <4> QED
        BY <1>1, <4>1, <4>2, DialLeaves
    <3> QED
      BY <2>2, <3>1, <3>2 DEF PollOut
  <2>3. CASE nornd_transport_new
    <3>1. PICK d : d = [Dials EXCEPT !.op.redial = 0, !.pending = {}]
      OBVIOUS
    <3>2. op' = dial_peer(d).op
      BY <2>3, <3>1 DEF nornd_transport_new, Becomes
    <3>3. PICK o : o = [address |-> a, session |-> e, stream |-> t, redial |-> 0]
      OBVIOUS
    <3>4. d = [op |-> o, dialled |-> dialled, pending |-> {}]
      BY <1>3, <3>1, <3>3 DEF Dials
    <3>5. o \in PeerRecord
      BY <3>3 DEF PeerRecord
    <3> QED
      BY <3>2, <3>4, <3>5, DialLeaves
  <2> QED
    BY <2>1, <2>2, <2>3
<1> QED
  BY <1>1, <1>2, <1>5 DEF TransportInv, OpOK, PeerRecord

\* Raft sends a frame.
LEMMA SendKeeps ==
  ASSUME TransportInv, NEW len \in Length, nornd_transport_send(len)
  PROVE  TransportInv'
<1>1. op \in PeerRecord /\ op.stream \in Sess \cup {0}
      /\ LinksOK(wire, written, announced, inbound, delivered, torn) /\ sends \in Nat
  BY DEF TransportInv, PeerRecord
<1>2. PICK y : y = nornd_frame_encode(sends + 1, len)
  OBVIOUS
<1>3. PICK s : s = op.stream
  OBVIOUS
<1>4. PICK took : took = SubSeq(y, 1, Min({Len(y), Window - Len(wire[s])}))
  OBVIOUS
<1>5. /\ sends' = sends + 1 /\ UNCHANGED <<op, announced, inbound, delivered>>
      /\ \/ UNCHANGED <<wire, written, torn>>
         \/ /\ s # 0 /\ y # <<>>
            /\ wire' = [wire EXCEPT ![s] = wire[s] \o took]
            /\ written' = [written EXCEPT ![s] = Append(written[s], sends + 1)]
            /\ torn' = IF Len(took) < Len(y) THEN torn \cup {s} ELSE torn
  BY <1>2, <1>3, <1>4 DEF nornd_transport_send, toReceiver
<1>6. sends + 1 \in Nat /\ len \in Nat /\ Window \in Nat
  BY <1>1, TransportAssumption
<1>7. LinksOK(wire', written', announced', inbound', delivered', torn')
  <2>1. CASE UNCHANGED <<wire, written, torn>>
    BY <1>1, <1>5, <2>1
  <2>2. CASE /\ s # 0 /\ y # <<>>
             /\ wire' = [wire EXCEPT ![s] = wire[s] \o took]
             /\ written' = [written EXCEPT ![s] = Append(written[s], sends + 1)]
             /\ torn' = IF Len(took) < Len(y) THEN torn \cup {s} ELSE torn
    <3>1. s \in Sess
      BY <1>1, <1>3, <2>2
    <3>2. FrameOf(y, sends + 1, len)
      BY <1>2, <1>6, <2>2, EncodeIs
    <3>3. y \in Seq(WireElem)
      BY <3>2 DEF FrameOf
    <3>4. wire[s] \in Seq(WireElem)
      BY <1>1, <3>1 DEF LinksOK
    <3>5. PICK b : b = Window - Len(wire[s])
      OBVIOUS
    <3>6. b \in Int
      <4>1. Len(wire[s]) \in Nat
        BY <3>4, LenProperties
      <4> QED
        BY <1>6, <3>5, <4>1
    <3>7. took = SubSeq(y, 1, Min({Len(y), b}))
      BY <1>4, <3>5
    <3>8. took \in Seq(WireElem) /\ (took = y \/ Len(took) < Len(y))
      BY <3>3, <3>6, <3>7, TookIs
    <3>9. torn \subseteq torn' /\ (s \in torn' \/ took = y)
      BY <2>2, <3>8
    <3>10. LinksOK(wire', written', announced, inbound, delivered, torn')
      BY <1>1, <1>6, <2>2, <3>1, <3>2, <3>8, <3>9, LinkSent
    <3> QED
      BY <1>5, <3>10
  <2> QED
    BY <1>5, <2>1, <2>2
<1>8. sends' \in Nat /\ op' = op
  BY <1>5, <1>6
<1> QED
  BY <1>1, <1>7, <1>8 DEF TransportInv, PeerRecord

\* The first bytes of a stream come in.
LEMMA RaftStreamKeeps ==
  ASSUME TransportInv, NEW s \in Sess, on_raft_stream(s)
  PROVE  TransportInv'
<1>1. /\ op \in PeerRecord /\ op.stream \in Sess \cup {0} /\ sends \in Nat
      /\ LinksOK(wire, written, announced, inbound, delivered, torn)
  BY DEF TransportInv, PeerRecord
<1>2. PICK room : room = {i \in 1..MAX_INBOUND : inbound[i].session = 0}
  OBVIOUS
<1>3. PICK ic : ic = [Idle EXCEPT !.session = s]
  OBVIOUS
<1>4. /\ UNCHANGED <<op, wire, written, delivered, torn, sends>>
      /\ s \notin announced /\ announced' = announced \cup {s}
      /\ inbound' = IF room = {} THEN inbound ELSE [inbound EXCEPT ![Min(room)] = ic]
  BY <1>2, <1>3 DEF on_raft_stream
<1>5. LinksOK(wire, written, announced', inbound', delivered, torn)
  <2>1. CASE room = {}
    <3>1. inbound' = inbound /\ announced \subseteq announced' /\ announced' \subseteq announced \cup Sess
      BY <1>4, <2>1
    <3>2. InboundOK(inbound, announced')
      BY <1>1, <3>1 DEF LinksOK, InboundOK
    <3> QED
      BY <1>1, <3>1, <3>2 DEF LinksOK
  <2>2. CASE room # {}
    <3>1. MAX_INBOUND \in Nat /\ room \in SUBSET (1..MAX_INBOUND)
      BY <1>2, TransportAssumption
    <3>2. PICK m : m = Min(room)
      OBVIOUS
    <3>3. m \in room
      BY <2>2, <3>1, <3>2, MinIsThere
    <3>4. m \in 1..MAX_INBOUND /\ inbound[m].session = 0
      BY <1>2, <3>3
    <3>5. PICK e : e = <<>>
      OBVIOUS
    <3>6. ic = [session |-> s, buf |-> e, start |-> 0]
      BY <1>3, <3>5 DEF Idle
    <3>7. e \in Seq(WireElem) /\ Len(e) = 0 /\ s \in Nat
      BY <3>5, EmptySeq, TransportAssumption DEF Sess
    <3>8. FramerOK(ic) /\ ic.session = s
      BY <3>6, <3>7 DEF FramerOK, FramerEntry
    <3>9. Unread(ic) = <<>>
      <4>1. Unread(ic) = SubSeq(e, 1, 0)
        BY <3>6, <3>7 DEF Unread
      <4> QED
        BY <4>1, SubSeqEmpty
    <3>10. inbound' = [inbound EXCEPT ![m] = ic]
      BY <1>4, <2>2, <3>2
    <3>11. PICK inb2 : inb2 = [inbound EXCEPT ![m] = ic]
      OBVIOUS
    <3>12. LinksOK(wire, written, announced \cup {s}, inb2, delivered, torn)
      BY <1>1, <1>4, <3>4, <3>8, <3>9, <3>11, LinkOpened
    <3> QED
      BY <1>4, <3>10, <3>11, <3>12
  <2> QED
    BY <2>1, <2>2
<1> QED
  BY <1>1, <1>4, <1>5 DEF TransportInv, PeerRecord

\* The receiver visits a stream.
LEMMA PollInKeeps ==
  ASSUME TransportInv, NEW i \in 1..MAX_INBOUND, NEW n \in Nat, NEW junk \in Nat, PollIn(i, n, junk)
  PROVE  TransportInv'
<1>1. /\ op \in PeerRecord /\ op.stream \in Sess \cup {0} /\ sends \in Nat
      /\ LinksOK(wire, written, announced, inbound, delivered, torn)
  BY DEF TransportInv, PeerRecord
<1>2. PICK s : s = inbound[i].session
  OBVIOUS
<1>3. PICK d : d = Polled(inbound[i], wire[s], n, junk)
  OBVIOUS
<1>4. /\ UNCHANGED <<op, written, announced, sends>> /\ s # 0 /\ n \in 1..Len(wire[s])
      /\ inbound' = [inbound EXCEPT ![i] = d.ic] /\ wire' = [wire EXCEPT ![s] = d.rest]
      /\ delivered' = [delivered EXCEPT ![s] = delivered[s] \o d.got]
      /\ torn' = IF d.lost THEN torn \cup {s} ELSE torn
  BY <1>2, <1>3 DEF PollIn
<1>5. s \in Sess
  BY <1>1, <1>2, <1>4 DEF LinksOK, InboundOK
<1>6. n <= Len(wire[s])
  <2>1. Len(wire[s]) \in Nat
    BY <1>1, <1>5, LenProperties DEF LinksOK
  <2> QED
    BY <1>4, <2>1
<1>7. LinksOK(wire', written, announced, inbound', delivered', torn')
  <2>1. PICK inb2 : inb2 = [inbound EXCEPT ![i] = d.ic]
    OBVIOUS
  <2>2. PICK wi2 : wi2 = [wire EXCEPT ![s] = d.rest]
    OBVIOUS
  <2>3. PICK de2 : de2 = [delivered EXCEPT ![s] = delivered[s] \o d.got]
    OBVIOUS
  <2>4. PICK to2 : to2 = IF d.lost THEN torn \cup {s} ELSE torn
    OBVIOUS
  <2>5. LeftBy(wire, inbound, delivered, torn, i, s, d, wi2, inb2, de2, to2)
    BY <1>2, <1>4, <2>1, <2>2, <2>3, <2>4 DEF LeftBy
  <2>6. LinksOK(wi2, written, announced, inb2, de2, to2)
    BY <1>1, <1>3, <1>6, <2>5, LinkPolled
  <2>7. inbound' = inb2 /\ wire' = wi2 /\ delivered' = de2 /\ torn' = to2
    BY <1>4, <2>1, <2>2, <2>3, <2>4
  <2> QED
    BY <2>6, <2>7
<1> QED
  BY <1>1, <1>4, <1>7 DEF TransportInv, PeerRecord

\* Frames that are got and flow on are in order, and are all when nothing is left to read.
LEMMA InOrder ==
  ASSUME NEW u, NEW r \in Seq(WireElem), NEW g, NEW w \in Seq(Nat), u \in Seq(WireElem), Flowing(u, r, g, w)
  PROVE  IsPrefix(g, w) /\ (r = <<>> => g = w)
<1>1. NoWhole(u) /\ GotOK(g, 0, w) /\ Carries(u \o r, w, Len(g))
  BY DEF Flowing
<1>2. PICK k \in Nat : k = Len(g)
  BY <1>1, LenProperties DEF GotOK
<1>3. PICK n \in Nat : n = Len(w)
  BY LenProperties
<1>4. g \in Seq(Nat) /\ 0 + k <= n /\ \A i \in 1..k : g[i] = w[0 + i]
  BY <1>1, <1>2, <1>3 DEF GotOK
<1>5. k <= n /\ \A i \in 1..k : 0 + i = i
  BY <1>4
<1>6. \A i \in 1..k : g[i] = w[i]
  BY <1>4, <1>5
<1>7. IsPrefix(g, w)
  <2>1. PICK x : x = SubSeq(g, 1, k)
    OBVIOUS
  <2>2. PICK z : z = SubSeq(w, 1, k)
    OBVIOUS
  <2>3. \A i \in 1..k : w[i] \in Nat
    <3>1. \A i \in 1..k : i \in 1..n
      BY <1>5
    <3> QED
      BY <1>3, <3>1, ElementOfSeq
  <2>4. 1 \in Int /\ k \in Int /\ \A i \in 1..k : g[i] \in Nat
    BY <1>6, <2>3
  <2>5. /\ x \in Seq(Nat) /\ Len(x) = IF 1 <= k THEN k - 1 + 1 ELSE 0
        /\ \A i \in 1..(k - 1 + 1) : x[i] = g[1 + i - 1]
    BY <2>1, <2>4, SubSeqProperties
  <2>6. /\ z \in Seq(Nat) /\ Len(z) = IF 1 <= k THEN k - 1 + 1 ELSE 0
        /\ \A i \in 1..(k - 1 + 1) : z[i] = w[1 + i - 1]
    BY <2>2, <2>3, <2>4, SubSeqProperties
  <2>7. (IF 1 <= k THEN k - 1 + 1 ELSE 0) = k /\ k - 1 + 1 = k /\ \A i \in 1..k : 1 + i - 1 = i
    OBVIOUS
  <2>8. Len(x) = k /\ Len(z) = k
    BY <2>5, <2>6, <2>7
  <2>9. \A i \in 1..k : x[i] = z[i]
    BY <1>6, <2>5, <2>6, <2>7
  <2>10. x = z
    BY <2>5, <2>6, <2>8, <2>9, SeqEqual
  <2> QED
    BY <1>2, <1>3, <1>5, <2>1, <2>2, <2>10 DEF IsPrefix
<1>8. ASSUME r = <<>> PROVE g = w
  <2>1. u \o r = u
    BY <1>8, ConcatEmptySeq
  <2>2. Carries(u, w, k)
    BY <1>1, <1>2, <2>1
  <2>3. u = <<>>
    <3> SUFFICES ASSUME u # <<>> PROVE FALSE
      OBVIOUS
    <3>1. PICK l \in Nat : FirstFrame(u, w, k, l)
      BY <2>2, CarriesFirst
    <3>2. l + 1 <= Len(u) /\ u[1] = [frame |-> w[k + 1], at |-> 1 - 1, len |-> l]
      <4>1. 1 \in 1..(l + 1)
        OBVIOUS
      <4> QED
        BY <3>1, <4>1 DEF FirstFrame
    <3>3. Len(u) < 1 + l
      BY <1>1, <3>2 DEF NoWhole
    <3>4. PICK c \in Nat : c = Len(u)
      BY LenProperties
    <3> QED
      BY <3>2, <3>3, <3>4
  <2>4. k = n
    BY <1>3, <2>2, <2>3, CarriesEnd
  <2> QED
    BY <1>2, <1>3, <1>4, <1>6, <2>4, SeqEqual
<1> QED
  BY <1>7, <1>8

\* However the sender's dials and restarts go, however small the window is, and in whatever
\* pieces the bytes of a stream come in, the cluster gets the frames nornd_transport_send
\* gave to that stream whole and in order, and all of them once the stream is read out, as
\* long as no write of it was cut short and its framer did not give up.
THEOREM FramesStayInOrder == TransportSpec => []FramesInOrder
<1>1. TransportInit => TransportInv
  BY TransportStarts
<1>2. TransportInv /\ [TransportNext]_transportVars => TransportInv'
  <2> SUFFICES ASSUME TransportInv, [TransportNext]_transportVars PROVE TransportInv'
    OBVIOUS
  <2>1. CASE UNCHANGED transportVars
    BY <2>1 DEF TransportInv, transportVars
  <2>2. CASE (\E s \in Sess : on_out_session(s)) \/ PollOut \/ nornd_transport_new
    BY <2>2, SenderKeeps
  <2>3. CASE \E s \in Sess : on_raft_stream(s)
    BY <2>3, RaftStreamKeeps
  <2>4. CASE \E len \in Length : nornd_transport_send(len)
    BY <2>4, SendKeeps
  <2>5. CASE \E i \in 1..MAX_INBOUND, n \in 1..Window, junk \in 0..(NORND_FRAME_MAX + 1) : PollIn(i, n, junk)
    <3>1. PICK i \in 1..MAX_INBOUND, n \in 1..Window, junk \in 0..(NORND_FRAME_MAX + 1) : PollIn(i, n, junk)
      BY <2>5
    <3>2. n \in Nat /\ junk \in Nat
      BY TransportAssumption
    <3> QED
      BY <3>1, <3>2, PollInKeeps
  <2> QED
    BY <2>1, <2>2, <2>3, <2>4, <2>5 DEF TransportNext
<1>3. TransportInv => FramesInOrder
  <2> SUFFICES ASSUME TransportInv, NEW s \in Sess \ torn
               PROVE  /\ IsPrefix(delivered[s], written[s])
                      /\ (wire[s] = <<>> /\ \E i \in 1..MAX_INBOUND : inbound[i].session = s)
                           => delivered[s] = written[s]
    BY DEF FramesInOrder
  <2>1. LinkOK(s, inbound, wire[s], delivered[s], written[s])
        /\ wire[s] \in Seq(WireElem) /\ written[s] \in Seq(Nat) /\ InboundOK(inbound, announced)
    BY DEF TransportInv, LinksOK
  <2>2. PICK u \in Seq(WireElem) : Flowing(u, wire[s], delivered[s], written[s])
    <3>1. CASE \A i \in 1..MAX_INBOUND : inbound[i].session # s
      <4>1. <<>> \in Seq(WireElem)
        BY EmptySeq
      <4> QED
        BY <2>1, <3>1, <4>1, Zenon DEF LinkOK
    <3>2. CASE \E i \in 1..MAX_INBOUND : inbound[i].session = s
      <4>1. PICK i \in 1..MAX_INBOUND : inbound[i].session = s
        BY <3>2
      <4>2. Unread(inbound[i]) \in Seq(WireElem)
        BY <2>1, UnreadIs DEF InboundOK
      <4> QED
        BY <2>1, <4>1, <4>2, Zenon DEF LinkOK
    <3> QED
      BY <3>1, <3>2
  <2> QED
    BY <2>1, <2>2, InOrder
<1> QED
  BY <1>1, <1>2, <1>3, PTL DEF TransportSpec
=============================================================================
