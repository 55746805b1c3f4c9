-------------------------- MODULE NornStreamProofs --------------------------
(***************************************************************************)
(* Theorems about NornStream, for every window, segment size and number of *)
(* bytes: its types, its invariants, and that it implements BytePipe.      *)
(***************************************************************************)
EXTENDS NornStream, SequenceTheorems, FiniteSetTheorems, TLAPS

W == STREAM_WIN_MAX
P == STREAM_SEG_PAYLOAD
Slots == 0..W-1
Buffers == [Slots -> Segment \cup {NoSeg}]

-----------------------------------------------------------------------------
(* Numbers. *)

\* Every set of numbers that is not empty has a least one.
LEMMA LeastNumber ==
  ASSUME NEW S \in SUBSET Nat, S # {}
  PROVE  \E i \in S : \A j \in S : i <= j
<1> DEFINE T == {1..i : i \in S}
<1>1. T # {} /\ T \subseteq FiniteSubsetsOf(Nat)
  <2>1. \A i \in Nat : 1..i \in SUBSET Nat /\ IsFiniteSet(1..i)
    BY FS_Interval
  <2>2. \A i \in S : 1..i \in FiniteSubsetsOf(Nat)
    BY <2>1 DEF FiniteSubsetsOf
  <2> QED
    BY <2>2
<1>2. IsWellFoundedOn(StrictSubsetOrdering(Nat), FiniteSubsetsOf(Nat))
  BY FS_StrictSubsetOrderingWellFounded
<1>3. PICK x \in T : \A y \in T : ~(<<y, x>> \in StrictSubsetOrdering(Nat))
  BY <1>1, <1>2, WFMin
<1>4. PICK i \in S : x = 1..i
  BY <1>3
<1>5. \A j \in S : i <= j
  <2> SUFFICES ASSUME NEW j \in S, j < i PROVE FALSE
    OBVIOUS
  <2>1. 1..j \subseteq 1..i /\ 1..j # 1..i
    <3>1. i \in 1..i /\ i \notin 1..j
      OBVIOUS
    <3> QED
      BY <3>1
  <2>2. 1..j \in T /\ 1..i \in SUBSET Nat /\ 1..j \in SUBSET Nat
    OBVIOUS
  <2> QED
    BY <1>3, <1>4, <2>1, <2>2 DEF StrictSubsetOrdering
<1> QED
  BY <1>5

\* Induction up to N, for the set S of the numbers that have a property.
LEMMA UpTo ==
  ASSUME NEW N \in Nat, NEW S, 0 \in S, \A k \in 0..N-1 : k \in S => k + 1 \in S
  PROVE  \A k \in 0..N : k \in S
<1> SUFFICES ASSUME NEW k \in 0..N, k \notin S PROVE FALSE
  OBVIOUS
<1> DEFINE Bad == {i \in 0..N : i \notin S}
<1>1. PICK i \in Bad : \A j \in Bad : i <= j
  <2>1. Bad \in SUBSET Nat /\ k \in Bad
    OBVIOUS
  <2> QED
    BY <2>1, LeastNumber
<1>2. i # 0 /\ i \in 0..N /\ i \notin S
  BY <1>1
<1>3. i - 1 \in 0..N-1 /\ ~(i <= i - 1)
  BY <1>2
<1>4. i - 1 \in S
  BY <1>1, <1>3
<1>5. (i - 1) + 1 \in S
  BY <1>3, <1>4
<1> QED
  BY <1>2, <1>3, <1>5

\* A slot is one of the window's.
LEMMA SlotType ==
  ASSUME NEW q \in Nat
  PROVE  slot(q) \in Slots
BY StreamAssumption DEF slot, Slots, W

\* Numbers less than a window apart have different slots.
LEMMA SlotOnce ==
  ASSUME NEW q \in Nat, NEW r \in Nat, q - r < W, r - q < W, slot(q) = slot(r)
  PROVE  q = r
<1> DEFINE a == q \div W
           b == r \div W
           x == q % W
<1>1. W \in Nat \ {0}
  BY StreamAssumption DEF W
<1>2. a \in Nat /\ b \in Nat /\ x \in Nat
  BY <1>1
<1>3. q = (W * a) + x
  BY <1>1
<1>4. r = (W * b) + (r % W)
  BY <1>1
<1>5. r % W = x
  BY DEF slot, W
<1> HIDE DEF a, b, x
<1>6. q - r = W * (a - b)
  BY <1>1, <1>2, <1>3, <1>4, <1>5
<1>7. ASSUME NEW k \in Int, W * k < W, -W < W * k PROVE k = 0
  BY <1>1, <1>7
<1>8. a - b = 0
  BY <1>1, <1>2, <1>6, <1>7
<1> QED
  BY <1>1, <1>2, <1>3, <1>4, <1>5, <1>8

-----------------------------------------------------------------------------
(* Where the bytes of a run of segments end. *)

\* What the recursive definition of Offsets defines.
LEMMA OffsetsDef ==
  ASSUME NEW lens \in Seq(Nat)
  PROVE  /\ Offsets(lens) \in [0..Len(lens) -> Nat]
         /\ Offsets(lens)[0] = 0
         /\ \A j \in 1..Len(lens) : Offsets(lens)[j] = Offsets(lens)[j - 1] + lens[j]
<1> DEFINE N == Len(lens)
           F(g) == [j \in 0..N |-> IF j = 0 THEN 0 ELSE g[j - 1] + lens[j]]
           S == {k \in Nat : \E g \in [0..k -> Nat] :
                   /\ g[0] = 0
                   /\ \A j \in 1..k : g[j] = g[j - 1] + lens[j]}
<1>0. N \in Nat
  BY LenProperties
<1>1. 0 \in S
  <2> DEFINE g == [i \in 0..0 |-> 0]
  <2>1. g \in [0..0 -> Nat] /\ g[0] = 0 /\ \A j \in 1..0 : g[j] = g[j - 1] + lens[j]
    OBVIOUS
  <2> QED
    BY <2>1
<1>2. ASSUME NEW k \in 0..N-1, k \in S PROVE k + 1 \in S
  <2>1. PICK g \in [0..k -> Nat] : g[0] = 0 /\ \A j \in 1..k : g[j] = g[j - 1] + lens[j]
    BY <1>2
  <2>2. k \in Nat /\ lens[k + 1] \in Nat /\ g[k] \in Nat
    BY <1>0, <2>1, ElementOfSeq
  <2> DEFINE h == [i \in 0..(k + 1) |-> IF i <= k THEN g[i] ELSE g[k] + lens[k + 1]]
  <2>3. h \in [0..(k + 1) -> Nat] /\ h[0] = 0
    BY <2>1, <2>2
  <2>4. ASSUME NEW j \in 1..(k + 1) PROVE h[j] = h[j - 1] + lens[j]
    <3>1. CASE j = k + 1
      BY <2>2, <3>1
    <3>2. CASE j # k + 1
      <4>1. j \in 1..k /\ j - 1 \in 0..k /\ j \in 0..k
        BY <2>2, <3>2
      <4>2. h[j] = g[j] /\ h[j - 1] = g[j - 1]
        BY <2>2, <4>1
      <4> QED
        BY <2>1, <4>1, <4>2
    <3> QED
      BY <3>1, <3>2
  <2> HIDE DEF h
  <2>5. k + 1 \in Nat
    BY <2>2
  <2> QED
    BY <2>3, <2>4, <2>5
<1>3. N \in S
  <2> HIDE DEF S, N
  <2>1. \A k \in 0..N : k \in S
    BY <1>0, <1>1, <1>2, UpTo
  <2> QED
    BY <1>0, <2>1
<1>4. PICK g \in [0..N -> Nat] : g[0] = 0 /\ \A j \in 1..N : g[j] = g[j - 1] + lens[j]
  BY <1>3
<1>5. \E x : x = F(x)
  <2>1. g = F(g)
    BY <1>0, <1>4
  <2> QED
    BY <2>1
<1>6. Offsets(lens) = CHOOSE x : x = F(x)
  BY DEF Offsets
<1> DEFINE T == Offsets(lens)
<1>7. T = F(T)
  <2> HIDE DEF F
  <2> QED
    BY <1>5, <1>6
<1> HIDE DEF T
<1>8. T[0] = 0 /\ DOMAIN T = 0..N /\ \A j \in 1..N : T[j] = T[j - 1] + lens[j]
  BY <1>0, <1>7
<1>9. \A k \in 0..N : T[k] \in Nat
  <2> DEFINE R == {k \in Nat : T[k] \in Nat}
  <2>1. 0 \in R
    BY <1>8
  <2>2. ASSUME NEW k \in 0..N-1, k \in R PROVE k + 1 \in R
    <3>1. k + 1 \in 1..N /\ (k + 1) - 1 = k /\ k + 1 \in Nat
      BY <1>0
    <3>2. T[k + 1] = T[k] + lens[k + 1] /\ lens[k + 1] \in Nat
      BY <1>8, <3>1, ElementOfSeq
    <3> QED
      BY <2>2, <3>1, <3>2
  <2> HIDE DEF R, N
  <2>3. \A k \in 0..N : k \in R
    BY <1>0, <2>1, <2>2, UpTo
  <2> QED
    BY <2>3 DEF R
<1>10. T \in [0..N -> Nat]
  BY <1>7, <1>8, <1>9
<1> QED
  BY <1>8, <1>10 DEF T

\* Later segments end later.
LEMMA OffsetsGrow ==
  ASSUME NEW lens \in Seq(Nat), NEW i \in 0..Len(lens), NEW j \in i..Len(lens)
  PROVE  Offsets(lens)[i] <= Offsets(lens)[j]
<1> DEFINE T == Offsets(lens)
           N == Len(lens)
           S == {k \in Nat : i + k <= N => T[i] <= T[i + k]}
<1>0. N \in Nat /\ i \in Nat /\ j \in Nat /\ i <= j /\ j <= N
  BY LenProperties
<1>1. T \in [0..N -> Nat] /\ \A k \in 1..N : T[k] = T[k - 1] + lens[k]
  BY OffsetsDef
<1> HIDE DEF T, N
<1>2. 0 \in S
  <2>1. i \in 0..N /\ i + 0 = i
    BY <1>0
  <2>2. T[i] \in Nat
    BY <1>1, <2>1
  <2> QED
    BY <2>1, <2>2
<1>3. ASSUME NEW k \in 0..(j - i)-1, k \in S PROVE k + 1 \in S
  <2>1. k \in Nat /\ k + 1 \in Nat /\ i + k + 1 \in 1..N /\ i + k \in 0..N /\ i \in 0..N
        /\ (i + k + 1) - 1 = i + k /\ i + (k + 1) = i + k + 1
    BY <1>0
  <2>2. T[i + k + 1] = T[i + k] + lens[i + k + 1]
    BY <1>1, <2>1
  <2>3. lens[i + k + 1] \in Nat
    BY <2>1, ElementOfSeq DEF N
  <2>4. T[i] \in Nat /\ T[i + k] \in Nat
    BY <1>1, <2>1
  <2>5. T[i] <= T[i + k]
    BY <1>3, <2>1
  <2> QED
    BY <2>1, <2>2, <2>3, <2>4, <2>5
<1>4. j - i \in S
  <2> HIDE DEF S
  <2> DEFINE d == j - i
  <2>1. d \in Nat
    BY <1>0
  <2>2. \A k \in 0..d-1 : k \in S => k + 1 \in S
    BY <1>3
  <2> HIDE DEF d
  <2>3. \A k \in 0..d : k \in S
    BY <1>2, <2>1, <2>2, UpTo
  <2>4. d \in S
    BY <2>1, <2>3
  <2> QED
    BY <2>4 DEF d
<1> QED
  BY <1>0, <1>4 DEF T

\* Every byte is in one of the segments.
LEMMA OffsetsFind ==
  ASSUME NEW lens \in Seq(Nat), NEW i \in 1..Offsets(lens)[Len(lens)]
  PROVE  \E j \in 1..Len(lens) : Offsets(lens)[j - 1] < i /\ i <= Offsets(lens)[j]
<1> DEFINE T == Offsets(lens)
           N == Len(lens)
           S == {k \in 0..N : i <= T[k]}
<1>0. N \in Nat
  BY LenProperties
<1>1. T \in [0..N -> Nat] /\ T[0] = 0
  BY OffsetsDef
<1>2. i \in 1..T[N]
  OBVIOUS
<1> HIDE DEF T, N
<1>3. S \in SUBSET Nat /\ N \in S
  BY <1>0, <1>1, <1>2
<1>4. PICK k \in S : \A j \in S : k <= j
  BY <1>3, LeastNumber
<1>5. k # 0 /\ k \in 0..N /\ i <= T[k]
  BY <1>1, <1>2, <1>4
<1>6. k \in 1..N /\ k - 1 \in 0..N /\ ~(k <= k - 1)
  BY <1>0, <1>5
<1>7. k - 1 \notin S
  BY <1>4, <1>6
<1>8. T[k - 1] < i
  BY <1>0, <1>1, <1>2, <1>6, <1>7
<1> QED
  BY <1>5, <1>6, <1>8 DEF T, N

\* Offsets depend only on the segments before.
LEMMA OffsetsPrefix ==
  ASSUME NEW a \in Seq(Nat), NEW b \in Seq(Nat), NEW n \in Nat, n <= Len(a), n <= Len(b),
         \A j \in 1..n : a[j] = b[j]
  PROVE  Offsets(a)[n] = Offsets(b)[n]
<1> DEFINE A == Offsets(a)
           B == Offsets(b)
           S == {k \in Nat : A[k] = B[k]}
<1>0. Len(a) \in Nat /\ Len(b) \in Nat
  BY LenProperties
<1>1. /\ A[0] = 0 /\ \A j \in 1..Len(a) : A[j] = A[j - 1] + a[j]
      /\ B[0] = 0 /\ \A j \in 1..Len(b) : B[j] = B[j - 1] + b[j]
  BY OffsetsDef
<1> HIDE DEF A, B
<1>2. 0 \in S
  BY <1>1
<1>3. ASSUME NEW k \in 0..n-1, k \in S PROVE k + 1 \in S
  <2>1. k + 1 \in Nat /\ k + 1 \in 1..n /\ k + 1 \in 1..Len(a) /\ k + 1 \in 1..Len(b)
        /\ (k + 1) - 1 = k
    BY <1>0
  <2>2. A[k + 1] = A[k] + a[k + 1] /\ B[k + 1] = B[k] + b[k + 1] /\ a[k + 1] = b[k + 1]
    BY <1>1, <2>1
  <2>3. A[k] = B[k]
    BY <1>3
  <2> QED
    BY <2>1, <2>2, <2>3
<1>4. n \in S
  <2> HIDE DEF S
  <2>1. \A k \in 0..n : k \in S
    BY <1>2, <1>3, UpTo
  <2> QED
    BY <2>1
<1> QED
  BY <1>4 DEF A, B

\* Offsets of segments that lie one after the other from f[at] on.
LEMMA OffsetsOf ==
  ASSUME NEW lens \in Seq(Nat), NEW f \in [Nat -> Nat], NEW at \in Nat,
         \A j \in 1..Len(lens) : lens[j] = f[at + j] - f[at + j - 1],
         NEW n \in 0..Len(lens)
  PROVE  Offsets(lens)[n] = f[at + n] - f[at]
<1> DEFINE A == Offsets(lens)
           N == Len(lens)
           S == {k \in Nat : A[k] = f[at + k] - f[at]}
<1>0. N \in Nat /\ n \in 0..N
  BY LenProperties
<1>1. /\ A[0] = 0 /\ \A j \in 1..N : A[j] = A[j - 1] + lens[j]
      /\ \A j \in 1..N : lens[j] = f[at + j] - f[at + j - 1]
  BY OffsetsDef
<1> HIDE DEF A, N
<1>2. 0 \in S
  <2>1. at + 0 = at /\ f[at] \in Nat
    OBVIOUS
  <2>2. f[at + 0] - f[at] = 0
    BY <2>1
  <2> QED
    BY <1>1, <2>2
<1>3. ASSUME NEW k \in 0..N-1, k \in S PROVE k + 1 \in S
  <2>1. k \in Nat /\ k + 1 \in Nat /\ k + 1 \in 1..N /\ (k + 1) - 1 = k
        /\ at + (k + 1) - 1 = at + k /\ at + k \in Nat /\ at + (k + 1) \in Nat
    BY <1>0
  <2>2. A[k + 1] = A[k] + lens[k + 1] /\ lens[k + 1] = f[at + (k + 1)] - f[at + k]
    BY <1>1, <2>1
  <2>3. A[k] = f[at + k] - f[at]
    BY <1>3
  <2>4. f[at] \in Nat /\ f[at + k] \in Nat /\ f[at + (k + 1)] \in Nat
    BY <2>1
  <2> QED
    BY <2>1, <2>2, <2>3, <2>4
<1>4. n \in S
  <2> HIDE DEF S
  <2>1. \A k \in 0..N : k \in S
    BY <1>0, <1>2, <1>3, UpTo
  <2> QED
    BY <1>0, <2>1
<1> QED
  BY <1>4 DEF A

-----------------------------------------------------------------------------
(* The delivery loop. *)

Lens(run) == [j \in 1..Len(run) |-> run[j].len]
Total(run) == Offsets(Lens(run))[Len(run)]

\* The lengths of a run.
LEMMA LensType ==
  ASSUME NEW run \in Seq(Segment)
  PROVE  /\ Lens(run) \in Seq(Nat) /\ Len(Lens(run)) = Len(run)
         /\ \A j \in 1..Len(run) : Lens(run)[j] = run[j].len
         /\ Total(run) \in Nat
<1>1. Len(run) \in Nat
  BY LenProperties
<1>2. \A j \in 1..Len(run) : run[j].len \in Nat
  <2>1. \A j \in 1..Len(run) : run[j] \in Segment
    BY ElementOfSeq
  <2> QED
    BY <2>1, StreamAssumption DEF Segment
<1>3. Lens(run) \in Seq(Nat) /\ Len(Lens(run)) = Len(run)
  BY <1>1, <1>2 DEF Lens
<1>4. \A j \in 1..Len(run) : Lens(run)[j] = run[j].len
  BY DEF Lens
<1>5. Offsets(Lens(run)) \in [0..Len(run) -> Nat]
  BY <1>3, OffsetsDef
<1>6. Len(run) \in 0..Len(run)
  BY <1>1
<1> QED
  BY <1>3, <1>4, <1>5, <1>6 DEF Total

\* The bytes of a run are as many as its segments say.
LEMMA PayloadType ==
  ASSUME NEW run \in Seq(Segment)
  PROVE  /\ Payload(run) \in Seq(Nat)
         /\ Len(Payload(run)) = Total(run)
         /\ \A i \in 1..Total(run) : \E j \in 1..Len(run) :
              /\ Offsets(Lens(run))[j - 1] < i /\ i <= Offsets(Lens(run))[j]
              /\ Payload(run)[i] = run[j].lo + i - Offsets(Lens(run))[j - 1] - 1
<1> DEFINE T == Offsets(Lens(run))
           N == Len(run)
           In(i, j) == T[j - 1] < i /\ i <= T[j]
           seg(i) == CHOOSE j \in 1..N : In(i, j)
           M == Total(run)
<1>1. /\ Lens(run) \in Seq(Nat) /\ Len(Lens(run)) = N /\ M = T[N] /\ M \in Nat /\ N \in Nat
      /\ T \in [0..N -> Nat]
  BY LensType, LenProperties, OffsetsDef DEF Total
<1>2. Payload(run) = [i \in 1..M |-> run[seg(i)].lo + i - T[seg(i) - 1] - 1]
  BY DEF Payload, Total, Lens
<1>3. ASSUME NEW i \in 1..M PROVE seg(i) \in 1..N /\ In(i, seg(i))
  <2>1. \E j \in 1..N : In(i, j)
    BY <1>1, OffsetsFind
  <2> HIDE DEF In
  <2> QED
    BY <2>1
<1>4. \A j \in 1..N : run[j].lo \in Nat /\ T[j - 1] \in Nat
  <2>1. \A j \in 1..N : run[j] \in Segment
    BY ElementOfSeq
  <2>2. \A j \in 1..N : j - 1 \in 0..N
    BY <1>1
  <2> QED
    BY <1>1, <2>1, <2>2 DEF Segment
<1> HIDE DEF T, N, M, seg
<1>5. \A i \in 1..M : run[seg(i)].lo + i - T[seg(i) - 1] - 1 \in Nat
  <2> TAKE i \in 1..M
  <2>1. run[seg(i)].lo \in Nat /\ T[seg(i) - 1] \in Nat /\ T[seg(i) - 1] < i
    BY <1>3, <1>4
  <2>2. \A a, b, c \in Nat : b < c => a + c - b - 1 \in Nat
    OBVIOUS
  <2>3. i \in Nat
    BY <1>1
  <2> HIDE DEF In
  <2> QED
    BY <2>1, <2>2, <2>3
<1>6. Payload(run) \in [1..M -> Nat]
  BY <1>2, <1>5
<1>7. Payload(run) \in Seq(Nat) /\ Len(Payload(run)) = M
  BY <1>1, <1>6
<1>8. \A i \in 1..M : \E j \in 1..N :
        In(i, j) /\ Payload(run)[i] = run[j].lo + i - T[j - 1] - 1
  <2> TAKE i \in 1..M
  <2>1. seg(i) \in 1..N /\ In(i, seg(i))
    BY <1>3
  <2>2. Payload(run)[i] = run[seg(i)].lo + i - T[seg(i) - 1] - 1
    BY <1>2
  <2> HIDE DEF In
  <2> QED
    BY <2>1, <2>2
<1> QED
  BY <1>7, <1>8 DEF T, N, M

\* The bytes of segments that lie one after the other from f[at] on are the bytes from there.
LEMMA PayloadBytes ==
  ASSUME NEW run \in Seq(Segment), NEW f \in [Nat -> Nat], NEW at \in Nat,
         \A j \in 1..Len(run) : /\ run[j].len = f[at + j] - f[at + j - 1]
                                /\ run[j].len # 0 => run[j].lo = f[at + j - 1]
  PROVE  /\ Total(run) = f[at + Len(run)] - f[at]
         /\ Payload(run) = [i \in 1..(f[at + Len(run)] - f[at]) |-> f[at] + i - 1]
<1> DEFINE T == Offsets(Lens(run))
           N == Len(run)
           L == Lens(run)
<1>0. L \in Seq(Nat) /\ Len(L) = N /\ N \in Nat /\ \A j \in 1..N : L[j] = run[j].len
  BY LensType, LenProperties
<1>1. \A n \in 0..N : T[n] = f[at + n] - f[at]
  <2>1. \A j \in 1..N : L[j] = f[at + j] - f[at + j - 1]
    BY <1>0
  <2> HIDE DEF L
  <2> QED
    BY <1>0, <2>1, OffsetsOf DEF L
<1>2. Total(run) = f[at + N] - f[at]
  <2>1. N \in 0..N
    BY <1>0
  <2> QED
    BY <1>1, <2>1 DEF Total
<1>3. ASSUME NEW i \in 1..Total(run) PROVE Payload(run)[i] = f[at] + i - 1
  <2>1. PICK j \in 1..N : /\ T[j - 1] < i /\ i <= T[j]
                          /\ Payload(run)[i] = run[j].lo + i - T[j - 1] - 1
    BY PayloadType
  <2>2. j - 1 \in 0..N /\ j \in 0..N /\ at + (j - 1) = at + j - 1 /\ at + j - 1 \in Nat
        /\ at + j \in Nat /\ at \in Nat /\ i \in Int
    <3> HIDE DEF T, N, L
    <3>1. \A n, k, b \in Nat : k \in 1..n =>
            /\ k - 1 \in 0..n /\ k \in 0..n /\ b + (k - 1) = b + k - 1
            /\ b + k - 1 \in Nat /\ b + k \in Nat
      OBVIOUS
    <3>2. N \in Nat /\ j \in Nat /\ j \in 1..N
      BY <1>0
    <3>3. i \in Int
      OBVIOUS
    <3> QED
      BY <3>1, <3>2, <3>3
  <2>3. T[j - 1] = f[at + j - 1] - f[at] /\ T[j] = f[at + j] - f[at]
    <3> HIDE DEF T, N, L
    <3>1. PICK n \in 0..N : n = j - 1
      BY <2>2
    <3>2. T[n] = f[at + n] - f[at]
      BY <1>1
    <3>3. T[j] = f[at + j] - f[at]
      BY <1>1, <2>2
    <3>4. at + n = at + j - 1
      BY <2>2, <3>1
    <3> QED
      BY <3>1, <3>2, <3>3, <3>4
  <2>4. f[at + j - 1] \in Nat /\ f[at + j] \in Nat /\ f[at] \in Nat
    BY <2>2
  <2>5. run[j].len = f[at + j] - f[at + j - 1]
    OBVIOUS
  <2> DEFINE x == f[at + j - 1]
             y == f[at + j]
             z == f[at]
  <2>6. x \in Nat /\ y \in Nat /\ z \in Nat /\ x - z < i /\ i <= y - z
    BY <2>1, <2>3, <2>4
  <2>7. run[j].len = y - x
    BY <2>5
  <2>8. Payload(run)[i] = run[j].lo + i - (x - z) - 1
    BY <2>1, <2>3
  <2>9. run[j].len # 0 => run[j].lo = x
    OBVIOUS
  <2> HIDE DEF x, y, z
  <2>10. run[j].len # 0
    BY <2>2, <2>6, <2>7
  <2>11. x + i - (x - z) - 1 = z + i - 1
    BY <2>2, <2>6
  <2> QED
    BY <2>8, <2>9, <2>10, <2>11 DEF z
<1>4. Payload(run) \in Seq(Nat) /\ Len(Payload(run)) = Total(run)
  BY PayloadType
<1>5. Payload(run) = [i \in 1..Total(run) |-> f[at] + i - 1]
  <2>1. DOMAIN Payload(run) = 1..Total(run)
    BY <1>4, LenProperties
  <2>2. Payload(run) = [i \in 1..Total(run) |-> Payload(run)[i]]
    BY <1>4, <2>1
  <2> QED
    BY <1>3, <2>2
<1> QED
  BY <1>2, <1>5

\* What the delivery loop hands over: segments next, next + 1, ..., nothing behind a FIN,
\* and no more bytes than there is room for.
LEMMA RunSpec ==
  ASSUME NEW buf \in Buffers, NEW next \in Nat, NEW n \in 0..DELIV_CAP
  PROVE  /\ Run(buf, next, n) \in Seq(Segment) /\ Len(Run(buf, next, n)) \in 0..W
         /\ \A j \in 1..Len(Run(buf, next, n)) :
              /\ Run(buf, next, n)[j] = buf[slot(next + j - 1)]
              /\ Run(buf, next, n)[j].seq = next + j - 1
              /\ j < Len(Run(buf, next, n)) => ~Run(buf, next, n)[j].fin
         /\ Total(Run(buf, next, n)) <= DELIV_CAP - n
<1> DEFINE at(j) == buf[slot(next + j)]
           here(j) == at(j) # NoSeg /\ at(j).seq = next + j
           lens == [j \in 1..W |-> IF here(j - 1) THEN at(j - 1).len ELSE 0]
           total == Offsets(lens)
           room == DELIV_CAP - n
           good(k) == \A j \in 0..k-1 : /\ here(j) /\ total[j + 1] <= room
                                        /\ j < k - 1 => ~at(j).fin
           ends(k) == good(k) /\ (k = W \/ ~good(k + 1))
           m == CHOOSE k \in 0..W : ends(k)
           run == [j \in 1..m |-> at(j - 1)]
<1>0. W \in Nat \ {0} /\ P \in Nat \ {0}
  BY StreamAssumption DEF W, P
<1>1. room \in Nat
  <2>1. DELIV_CAP \in Nat
    BY <1>0 DEF DELIV_CAP, W, P
  <2> QED
    BY <2>1
<1>2. Run(buf, next, n) = run
  BY DEF Run, W
<1>3. ASSUME NEW j \in Nat PROVE at(j) \in Segment \cup {NoSeg}
  <2>1. slot(next + j) \in Slots
    BY SlotType
  <2> QED
    BY <2>1 DEF Buffers
<1>4. lens \in Seq(Nat) /\ Len(lens) = W
  <2>1. ASSUME NEW j \in 1..W PROVE (IF here(j - 1) THEN at(j - 1).len ELSE 0) \in Nat
    <3>1. at(j - 1) \in Segment \cup {NoSeg}
      BY <1>0, <1>3
    <3>2. \A s \in Segment : s.len \in Nat
      BY StreamAssumption DEF Segment
    <3> HIDE DEF at
    <3> QED
      BY <3>1, <3>2
  <2> QED
    BY <1>0, <2>1
<1>5. total \in [0..W -> Nat] /\ total[0] = 0
  BY <1>4, OffsetsDef
<1>6. good(0)
  OBVIOUS
<1>7. \E k \in 0..W : ends(k)
  <2> DEFINE S == {k \in 0..W : k = W \/ ~good(k + 1)}
  <2> HIDE DEF good
  <2>1. S \in SUBSET Nat /\ W \in S
    BY <1>0
  <2>2. PICK k \in S : \A j \in S : k <= j
    BY <2>1, LeastNumber
  <2>3. good(k)
    <3>1. CASE k = 0
      BY <1>6, <3>1
    <3>2. CASE k # 0
      <4>1. k - 1 \in 0..W /\ ~(k <= k - 1) /\ (k - 1) + 1 = k
        BY <1>0, <3>2
      <4>2. k - 1 \notin S
        BY <2>2, <4>1
      <4>3. good((k - 1) + 1)
        BY <4>1, <4>2
      <4> QED
        BY <4>1, <4>3
    <3> QED
      BY <3>1, <3>2
  <2> QED
    BY <2>2, <2>3
<1>8. m \in 0..W /\ ends(m)
  <2> HIDE DEF ends
  <2> QED
    BY <1>7
<1> HIDE DEF m, lens, room
<1>9. \A j \in 1..m : /\ j - 1 \in 0..m-1 /\ j - 1 \in Nat /\ (j - 1) + 1 = j
                      /\ next + (j - 1) = next + j - 1
  BY <1>0, <1>8
<1>10. \A j \in 1..m : here(j - 1) /\ total[j] <= room /\ (j < m => ~at(j - 1).fin)
  <2> TAKE j \in 1..m
  <2> DEFINE i == j - 1
  <2>1. i \in 0..m-1 /\ i + 1 = j
    BY <1>9
  <2>2. here(i) /\ total[i + 1] <= room /\ (i < m - 1 => ~at(i).fin)
    BY <1>8, <2>1
  <2>3. i < m - 1 <=> j < m
    BY <1>0, <1>8
  <2> QED
    BY <2>1, <2>2, <2>3
<1>11. \A j \in 1..m : at(j - 1) \in Segment
  <2> TAKE j \in 1..m
  <2>1. at(j - 1) \in Segment \cup {NoSeg}
    BY <1>3, <1>9
  <2> HIDE DEF at
  <2> QED
    BY <1>10, <2>1
<1>12. run \in Seq(Segment) /\ Len(run) = m
  <2> HIDE DEF at
  <2> QED
    BY <1>0, <1>8, <1>11
<1>13. ASSUME NEW j \in 1..m
       PROVE  run[j] = buf[slot(next + j - 1)] /\ run[j].seq = next + j - 1
              /\ (j < m => ~run[j].fin)
  <2>1. run[j] = at(j - 1)
    OBVIOUS
  <2>2. at(j - 1) = buf[slot(next + j - 1)] /\ at(j - 1).seq = next + j - 1
    BY <1>9, <1>10
  <2>3. j < m => ~at(j - 1).fin
    BY <1>10
  <2> HIDE DEF run, at
  <2> QED
    BY <2>1, <2>2, <2>3
<1>14. Total(run) <= room
  <2> DEFINE L == Lens(run)
  <2>1. L \in Seq(Nat) /\ Len(L) = m
    BY <1>12, LensType
  <2>2. \A j \in 1..m : L[j] = lens[j]
    <3> TAKE j \in 1..m
    <3>1. L[j] = run[j].len
      BY <1>12, LensType
    <3>2. run[j] = at(j - 1) /\ here(j - 1) /\ j \in 1..W
      BY <1>0, <1>8, <1>10
    <3>3. lens[j] = at(j - 1).len
      BY <3>2 DEF lens
    <3> HIDE DEF run, at
    <3> QED
      BY <3>1, <3>2, <3>3
  <2> HIDE DEF L, run
  <2>3. Offsets(L)[m] = total[m]
    BY <1>0, <1>4, <1>8, <2>1, <2>2, OffsetsPrefix
  <2>4. total[m] <= room
    <3>1. CASE m = 0
      BY <1>1, <1>5, <3>1 DEF room
    <3>2. CASE m # 0
      <4>1. m \in 1..m
        BY <1>0, <1>8, <3>2
      <4> QED
        BY <1>10, <4>1
    <3> QED
      BY <3>1, <3>2
  <2> QED
    BY <1>12, <2>3, <2>4 DEF Total, L
<1> QED
  BY <1>2, <1>8, <1>12, <1>13, <1>14 DEF room

-----------------------------------------------------------------------------
(* pump_send. *)

\* The bytes of the first j segments when p are pending.
Filled(p, j) == Least(p, j * P)

\* Multiples of the segment size.
LEMMA Multiples ==
  ASSUME NEW i \in Nat, NEW j \in Nat
  PROVE  /\ i * P \in Nat /\ (i + 1) * P = i * P + P
         /\ i <= j => i * P <= j * P
<1>1. P \in Nat \ {0}
  BY StreamAssumption DEF P
<1>2. i * P \in Nat /\ (i + 1) * P = i * P + P
  BY <1>1
<1>3. ASSUME i <= j PROVE i * P <= j * P
  <2>1. j - i \in Nat
    BY <1>3
  <2>2. (j - i) * P \in Nat
    BY <1>1, <2>1
  <2>3. j * P = i * P + (j - i) * P
    BY <1>1
  <2> QED
    BY <1>2, <2>2, <2>3
<1> QED
  BY <1>2, <1>3

\* The number of segments p bytes need.
LEMMA DataCount ==
  ASSUME NEW p \in Nat
  PROVE  LET d == (p + P - 1) \div P IN d \in Nat /\ p <= d * P /\ d * P < p + P
<1> DEFINE d == (p + P - 1) \div P
           r == (p + P - 1) % P
           a == p + P - 1
<1>1. P \in Nat \ {0} /\ a \in Nat
  BY StreamAssumption DEF P
<1>2. a = (P * d) + r
  <2> HIDE DEF a
  <2>1. a = (P * (a \div P)) + (a % P)
    BY <1>1
  <2> QED
    BY <2>1 DEF a
<1>3. r \in 0..P-1 /\ d \in Nat
  BY <1>1
<1> HIDE DEF d, r
<1>4. P * d = d * P /\ d * P \in Nat
  BY <1>1, <1>3
<1> QED
  BY <1>1, <1>2, <1>3, <1>4 DEF a, d

\* The segment after the first j, and where it ends.
LEMMA FilledStep ==
  ASSUME NEW p \in Nat, NEW j \in Nat \ {0}
  PROVE  LET d == (p + P - 1) \div P
             x == (j - 1) * P
         IN  /\ Filled(p, j) \in Nat /\ Filled(p, j - 1) \in Nat
             /\ Filled(p, 0) = 0
             /\ j <= d => /\ Filled(p, j - 1) = x /\ p - x > 0
                          /\ Filled(p, j) = x + Least(P, p - x)
             /\ j > d => Filled(p, j - 1) = p /\ Filled(p, j) = p
<1> DEFINE d == (p + P - 1) \div P
           x == (j - 1) * P
<1>1. d \in Nat /\ p <= d * P /\ d * P < p + P /\ P \in Nat \ {0}
  BY DataCount, StreamAssumption DEF P
<1> HIDE DEF d
<1>2. x \in Nat /\ j * P = x + P /\ 0 * P = 0 /\ d * P \in Nat
  <2>1. j - 1 \in Nat /\ (j - 1) + 1 = j
    OBVIOUS
  <2>2. x \in Nat /\ ((j - 1) + 1) * P = x + P
    BY <2>1, Multiples
  <2> QED
    BY <1>1, <2>1, <2>2, Multiples
<1>3. j <= d => x + P <= d * P
  BY <1>1, <1>2, Multiples
<1>4. j > d => d * P <= x
  <2>1. ASSUME j > d PROVE d <= j - 1 /\ j - 1 \in Nat
    BY <1>1, <2>1
  <2> QED
    BY <1>1, <2>1, Multiples
<1>5. Filled(p, j) = Least(p, x + P) /\ Filled(p, j - 1) = Least(p, x) /\ Filled(p, 0) = Least(p, 0)
  BY <1>2 DEF Filled
<1> HIDE DEF x
<1>6. Filled(p, 0) = 0
  BY <1>5 DEF Least
<1>7. ASSUME j <= d
      PROVE  Filled(p, j - 1) = x /\ p - x > 0 /\ Filled(p, j) = x + Least(P, p - x)
  BY <1>1, <1>2, <1>3, <1>5, <1>7 DEF Least
<1>8. ASSUME j > d PROVE Filled(p, j - 1) = p /\ Filled(p, j) = p
  BY <1>1, <1>2, <1>4, <1>5, <1>8 DEF Least
<1>9. Filled(p, j) \in Nat /\ Filled(p, j - 1) \in Nat
  BY <1>1, <1>2, <1>5 DEF Least
<1> QED
  BY <1>6, <1>7, <1>8, <1>9 DEF x, d

\* The window pump_send fills is at least one segment and at most all of the slots.
LEMMA WindowType ==
  ASSUME TypeOK, NEW e \in End
  PROVE  Window(e) \in 1..W
<1>1. peer_rwnd[e] \in 0..W /\ cwnd[e] \in Nat \ {0} /\ W \in Nat \ {0}
  <2>1. W \in Nat \ {0} /\ Greatest(STREAM_IW, W) \in Nat
    BY StreamAssumption DEF Greatest, W
  <2>2. peer_rwnd[e] \in 0..W /\ cwnd[e] \in 1..Greatest(STREAM_IW, W)
    BY DEF TypeOK, W
  <2> QED
    BY <2>1, <2>2
<1> QED
  BY <1>1 DEF Window, Greatest, Least, W

\* The n segments of o take up p pending bytes from lo on, the last of them the FIN if
\* there is one.
Fills(o, n, p, lo, fin) ==
  \A j \in 1..n :
    /\ o[j] \in Segment /\ ~o[j].sacked
    /\ o[j].len = Filled(p, j) - Filled(p, j - 1)
    /\ ~o[j].fin => o[j].lo = lo + Filled(p, j - 1) /\ o[j].len # 0
    /\ o[j].fin => fin /\ j = n /\ Filled(p, n) = p /\ o[j].len = 0

\* What pump_send puts out, with p bytes from lo on pending.
LEMMA PumpedSpec ==
  ASSUME TypeOK, NEW e \in End, NEW p \in Nat, NEW lo \in Nat, NEW fin \in BOOLEAN,
         snd_una[e] <= snd_nxt[e],
         NEW o, o = Pumped(e, p, lo, fin), NEW n, n = Len(o)
  PROVE  /\ o \in Seq(Segment) /\ n \in Nat
         /\ n > 0 => snd_nxt[e] + n - snd_una[e] <= W
         /\ \A j \in 1..n : o[j] \in Segment /\ o[j].seq = snd_nxt[e] + j - 1
         /\ Fills(o, n, p, lo, fin)
<1> DEFINE d == (p + P - 1) \div P
           room == IF Window(e) > snd_nxt[e] - snd_una[e]
                   THEN Window(e) - (snd_nxt[e] - snd_una[e]) ELSE 0
           m == Least(room, d + (IF fin THEN 1 ELSE 0))
           data(j) == Seg(snd_nxt[e] + j - 1, lo + (j - 1) * P, Least(P, p - (j - 1) * P), FALSE)
           last(j) == Seg(snd_nxt[e] + j - 1, 0, 0, TRUE)
           out == [j \in 1..m |-> IF j <= d THEN data(j) ELSE last(j)]
<1>0. Pumped(e, p, lo, fin) = out
  BY DEF Pumped, P
<1>1. d \in Nat /\ P \in Nat \ {0} /\ Window(e) \in 1..W /\ W \in Nat
      /\ snd_una[e] \in Nat /\ snd_nxt[e] \in Nat
  BY DataCount, WindowType, StreamAssumption DEF P, W, TypeOK
<1> HIDE DEF d
<1>2. room \in Nat /\ (room > 0 => snd_nxt[e] + room - snd_una[e] <= W)
  BY <1>1
<1> HIDE DEF room
<1>3. m \in Nat /\ m <= room /\ m <= d + 1 /\ (~fin => m <= d)
  BY <1>1, <1>2 DEF Least
<1> HIDE DEF m
<1>4. ASSUME NEW j \in 1..m, j <= d
      PROVE  /\ data(j) \in Segment
             /\ data(j).seq = snd_nxt[e] + j - 1 /\ ~data(j).sacked /\ ~data(j).fin
             /\ data(j).len = Filled(p, j) - Filled(p, j - 1) /\ data(j).len # 0
             /\ data(j).lo = lo + Filled(p, j - 1)
  <2> DEFINE x == (j - 1) * P
  <2>1. j \in Nat \ {0} /\ j - 1 \in Nat
    BY <1>3
  <2>2. /\ Filled(p, j - 1) = x /\ p - x > 0 /\ Filled(p, j) = x + Least(P, p - x)
        /\ Filled(p, j - 1) \in Nat
    BY <1>4, <2>1, FilledStep DEF d
  <2> HIDE DEF x
  <2>3. Least(P, p - x) \in 1..P /\ x \in Nat
    BY <1>1, <2>2 DEF Least
  <2> DEFINE s == data(j)
  <2>4. s = [seq |-> snd_nxt[e] + j - 1, lo |-> lo + x, len |-> Least(P, p - x), fin |-> FALSE,
             sacked |-> FALSE]
    BY DEF Seg, x
  <2>5. snd_nxt[e] + j - 1 \in Nat /\ lo + x \in Nat /\ Least(P, p - x) \in 0..P
    <3>1. snd_nxt[e] + j - 1 \in Nat
      BY <1>1, <2>1
    <3>2. lo + x \in Nat
      BY <2>3
    <3>3. Least(P, p - x) \in 0..P
      BY <1>1, <2>3
    <3> QED
      BY <3>1, <3>2, <3>3
  <2>6. Filled(p, j) - Filled(p, j - 1) = Least(P, p - x) /\ Least(P, p - x) # 0
    BY <2>2, <2>3
  <2> HIDE DEF s
  <2>7. s \in Segment
    BY <2>4, <2>5 DEF Segment, P
  <2>8. /\ s.seq = snd_nxt[e] + j - 1 /\ ~s.sacked /\ ~s.fin
        /\ s.len = Filled(p, j) - Filled(p, j - 1) /\ s.len # 0
        /\ s.lo = lo + Filled(p, j - 1)
    BY <2>2, <2>4, <2>6
  <2> QED
    BY <2>7, <2>8 DEF s
<1>5. ASSUME NEW j \in 1..m, ~(j <= d)
      PROVE  /\ last(j) \in Segment
             /\ last(j).seq = snd_nxt[e] + j - 1 /\ ~last(j).sacked /\ last(j).fin
             /\ last(j).len = 0
             /\ last(j).len = Filled(p, j) - Filled(p, j - 1)
             /\ fin /\ j = m /\ Filled(p, m) = p
  <2>1. j \in Nat \ {0} /\ j - 1 \in Nat /\ j > d /\ fin /\ j = m
    BY <1>1, <1>3, <1>5
  <2>2. Filled(p, j) = p /\ Filled(p, j - 1) = p
    BY <2>1, FilledStep DEF d
  <2> DEFINE s == last(j)
  <2>3. s = [seq |-> snd_nxt[e] + j - 1, lo |-> 0, len |-> 0, fin |-> TRUE, sacked |-> FALSE]
    BY DEF Seg
  <2>4. snd_nxt[e] + j - 1 \in Nat /\ 0 \in 0..P
    BY <1>1, <2>1
  <2>5. p - p = 0
    OBVIOUS
  <2> HIDE DEF s
  <2>6. s \in Segment
    BY <2>3, <2>4 DEF Segment, P
  <2>7. /\ s.seq = snd_nxt[e] + j - 1 /\ ~s.sacked /\ s.fin
        /\ s.len = Filled(p, j) - Filled(p, j - 1) /\ s.len = 0
    BY <2>2, <2>3, <2>5
  <2> QED
    BY <2>1, <2>2, <2>6, <2>7 DEF s
<1> HIDE DEF data, last
<1>6. out \in Seq(Segment) /\ Len(out) = m
  <2>1. \A j \in 1..m : (IF j <= d THEN data(j) ELSE last(j)) \in Segment
    BY <1>4, <1>5
  <2> QED
    BY <1>3, <2>1
<1>7. \A j \in 1..m : out[j] = IF j <= d THEN data(j) ELSE last(j)
  OBVIOUS
<1> HIDE DEF out
<1>8. \A j \in 1..m :
        /\ out[j].seq = snd_nxt[e] + j - 1 /\ ~out[j].sacked
        /\ out[j].len = Filled(p, j) - Filled(p, j - 1)
        /\ ~out[j].fin => out[j].lo = lo + Filled(p, j - 1) /\ out[j].len # 0
        /\ out[j].fin => fin /\ j = m /\ Filled(p, m) = p /\ out[j].len = 0
  <2> TAKE j \in 1..m
  <2>1. CASE j <= d
    BY <1>4, <1>7, <2>1
  <2>2. CASE ~(j <= d)
    BY <1>5, <1>7, <2>2
  <2> QED
    BY <2>1, <2>2
<1>9. m > 0 => snd_nxt[e] + m - snd_una[e] <= W
  BY <1>1, <1>2, <1>3
<1>10. \A j \in 1..m : out[j] \in Segment
  BY <1>6, ElementOfSeq
<1>11. o = out /\ n = m
  BY <1>0, <1>6
<1>12. Fills(out, m, p, lo, fin)
  <2> HIDE DEF out
  <2> QED
    BY <1>8, <1>10 DEF Fills
<1>13. \A j \in 1..m : out[j].seq = snd_nxt[e] + j - 1
  BY <1>8
<1> HIDE DEF out
<1> QED
  BY <1>3, <1>6, <1>9, <1>10, <1>11, <1>12, <1>13

\* The n segments of o have the next numbers, and the window has slots for them.
Numbered(e, o, n) ==
  /\ o \in Seq(Segment) /\ n \in Nat
  /\ n > 0 => snd_nxt[e] + n - snd_una[e] <= W
  /\ \A j \in 1..n : o[j] \in Segment /\ o[j].seq = snd_nxt[e] + j - 1

\* The numbers of the segments that go out.
LEMMA PumpedSlots ==
  ASSUME TypeOK, NEW e \in End, NEW p \in Nat, NEW lo \in Nat, NEW fin \in BOOLEAN,
         snd_una[e] <= snd_nxt[e],
         NEW o, o = Pumped(e, p, lo, fin), NEW n, n = Len(o)
  PROVE  Numbered(e, o, n)
BY PumpedSpec DEF Numbered

\* The bytes they carry.
LEMMA PumpedBytes ==
  ASSUME TypeOK, NEW e \in End, NEW p \in Nat, NEW lo \in Nat, NEW fin \in BOOLEAN,
         snd_una[e] <= snd_nxt[e],
         NEW o, o = Pumped(e, p, lo, fin), NEW n, n = Len(o)
  PROVE  n \in Nat /\ Fills(o, n, p, lo, fin)
BY PumpedSpec

-----------------------------------------------------------------------------
(* Types. *)

\* What an end has sent and not seen acknowledged is in its slots.
SendSlots ==
  \A e \in End :
    /\ snd_una[e] <= snd_nxt[e] /\ snd_nxt[e] - snd_una[e] <= W
    /\ pend[e] <= written[e]
    /\ \A q \in snd_una[e]..snd_nxt[e]-1 :
         sbuf[e][slot(q)] \in Segment /\ sbuf[e][slot(q)].seq = q

TypeInv == TypeOK /\ SendSlots

\* The constants.
LEMMA Sizes ==
  /\ W \in Nat \ {0} /\ P \in Nat \ {0} /\ W * P \in Nat
  /\ PEND_CAP = W * P /\ DELIV_CAP = W * P
  /\ Greatest(STREAM_IW, W) \in Nat
<1>1. W \in Nat \ {0} /\ P \in Nat \ {0} /\ STREAM_IW \in Nat
  BY StreamAssumption DEF W, P
<1>2. W * P \in Nat
  BY <1>1
<1> QED
  BY <1>1, <1>2 DEF PEND_CAP, DELIV_CAP, W, P, Greatest

\* Each end has one peer, and is its peer's peer.
LEMMA Peers ==
  ASSUME NEW e \in End
  PROVE  Peer(e) \in End /\ Peer(e) # e /\ Peer(Peer(e)) = e
<1>1. PICK a, b \in End : a # b /\ End = {a, b}
  BY StreamAssumption
<1>2. \E p \in End : p # e
  BY <1>1
<1>3. Peer(e) \in End /\ Peer(e) # e
  BY <1>2 DEF Peer
<1>4. \E p \in End : p # Peer(e)
  BY <1>3
<1>5. Peer(Peer(e)) \in End /\ Peer(Peer(e)) # Peer(e)
  BY <1>4 DEF Peer
<1> QED
  BY <1>1, <1>3, <1>5

\* The room an end announces is within the window.
LEMMA RwndType ==
  ASSUME NEW n \in 0..DELIV_CAP
  PROVE  local_rwnd(n) \in 0..W
<1> DEFINE a == W * P - n
           d == a \div P
           r == a % P
<1>0. W \in Nat \ {0} /\ P \in Nat \ {0} /\ W * P \in Nat /\ DELIV_CAP = W * P
  BY Sizes
<1>1. a \in Nat /\ a <= W * P
  BY <1>0
<1>2. local_rwnd(n) = d
  BY <1>0 DEF local_rwnd, P
<1> HIDE DEF a
<1>3. a = (P * d) + r /\ r \in Nat /\ d \in Nat
  BY <1>0, <1>1
<1> HIDE DEF d, r
<1>4. d <= W
  <2> SUFFICES ASSUME d > W PROVE FALSE
    BY <1>0, <1>3
  <2>1. d - W \in Nat \ {0}
    BY <1>0, <1>3
  <2>2. P * (d - W) \in Nat \ {0}
    BY <1>0, <2>1
  <2>3. P * d = W * P + P * (d - W)
    BY <1>0, <1>3
  <2> QED
    BY <1>0, <1>1, <1>3, <2>2, <2>3
<1> QED
  BY <1>0, <1>2, <1>3, <1>4

\* A segment goes out as a datagram.
LEMMA SegMsgType ==
  ASSUME TypeOK, NEW e \in End, NEW s \in Segment
  PROVE  SegMsg(e, s) \in Datagram
<1>1. local_rwnd(unread[e]) \in 0..STREAM_WIN_MAX
  BY RwndType DEF TypeOK, W
<1>2. rcv_nxt[e] \in Nat
  BY DEF TypeOK
<1>3. s.seq \in Nat /\ s.lo \in Nat /\ s.len \in 0..STREAM_SEG_PAYLOAD
  BY DEF Segment
<1>4. (IF s.fin THEN "fin" ELSE "data") \in {"data", "fin", "ack"}
  OBVIOUS
<1> QED
  BY <1>1, <1>2, <1>3, <1>4 DEF SegMsg, Datagram

\* So does an acknowledgement.
LEMMA AckMsgType ==
  ASSUME NEW buf, NEW next \in Nat, NEW n \in 0..DELIV_CAP
  PROVE  AckMsg(buf, next, n) \in Datagram
<1>1. local_rwnd(n) \in 0..STREAM_WIN_MAX
  BY RwndType DEF W
<1>2. 0 \in 0..STREAM_SEG_PAYLOAD
  BY StreamAssumption
<1> QED
  BY <1>1, <1>2 DEF AckMsg, Datagram

\* The segments of out, each in its slot of buf.
Placed(out, buf) ==
  [i \in Slots |-> IF \E j \in 1..Len(out) : slot(out[j].seq) = i
                   THEN out[CHOOSE j \in 1..Len(out) : slot(out[j].seq) = i] ELSE buf[i]]

\* pump_send puts its segments into slots nothing outstanding is in.
LEMMA PumpBuffers ==
  ASSUME TypeInv, NEW e \in End, NEW out \in Seq(Segment), NEW n \in Nat, Len(out) = n,
         n > 0 => snd_nxt[e] + n - snd_una[e] <= W,
         \A j \in 1..n : out[j].seq = snd_nxt[e] + j - 1,
         NEW buf, buf = Placed(out, sbuf[e])
  PROVE  /\ buf \in Buffers
         /\ \A q \in snd_una[e]..snd_nxt[e]-1 : buf[slot(q)] = sbuf[e][slot(q)]
         /\ \A j \in 1..n : buf[slot(snd_nxt[e] + j - 1)] = out[j]
<1> DEFINE una == snd_una[e]
           nxt == snd_nxt[e]
           In(i, j) == slot(out[j].seq) = i
           pick(i) == CHOOSE j \in 1..n : In(i, j)
<1>1. una \in Nat /\ nxt \in Nat /\ una <= nxt /\ W \in Nat \ {0} /\ sbuf[e] \in Buffers
  BY Sizes DEF TypeInv, TypeOK, SendSlots, Buffers, Slots, W
<1> HIDE DEF una, nxt
<1>2. ASSUME NEW i, \E j \in 1..n : In(i, j) PROVE pick(i) \in 1..n /\ In(i, pick(i))
  <2> HIDE DEF In
  <2> QED
    BY <1>2
<1>3. \A j \in 1..n : out[j] \in Segment
  BY ElementOfSeq
<1>4. ASSUME NEW i \in Slots
      PROVE  buf[i] = IF \E j \in 1..n : In(i, j) THEN out[pick(i)] ELSE sbuf[e][i]
  BY DEF Placed
<1>5. buf \in Buffers
  <2>1. \A i \in Slots : buf[i] \in Segment \cup {NoSeg}
    <3> TAKE i \in Slots
    <3>1. sbuf[e][i] \in Segment \cup {NoSeg}
      BY <1>1 DEF Buffers
    <3>2. (\E j \in 1..n : In(i, j)) => out[pick(i)] \in Segment
      BY <1>2, <1>3
    <3> HIDE DEF In, pick
    <3> QED
      BY <1>4, <3>1, <3>2
  <2>2. buf = [i \in Slots |-> buf[i]]
    BY DEF Placed
  <2> HIDE DEF In, pick
  <2> QED
    BY <2>1, <2>2 DEF Buffers
<1>6. ASSUME NEW q \in una..nxt-1 PROVE buf[slot(q)] = sbuf[e][slot(q)]
  <2>1. q \in Nat /\ slot(q) \in Slots
    BY <1>1, SlotType
  <2>2. ~\E j \in 1..n : In(slot(q), j)
    <3> SUFFICES ASSUME NEW j \in 1..n, In(slot(q), j) PROVE FALSE
      OBVIOUS
    <3> DEFINE r == nxt + j - 1
    <3>1. out[j].seq = r
      BY DEF nxt
    <3>2. nxt + n - una <= W
      BY DEF nxt, una
    <3>3. r \in Nat /\ r - q < W /\ q - r < W /\ q # r
      BY <1>1, <2>1, <3>2
    <3>4. slot(r) = slot(q)
      BY <3>1
    <3> HIDE DEF r
    <3> QED
      BY <2>1, <3>3, <3>4, SlotOnce
  <2> HIDE DEF In, pick
  <2> QED
    BY <1>4, <2>1, <2>2
<1>7. ASSUME NEW j \in 1..n PROVE buf[slot(nxt + j - 1)] = out[j]
  <2> DEFINE r == nxt + j - 1
             k == pick(slot(r))
  <2>1. r \in Nat /\ slot(r) \in Slots
    BY <1>1, SlotType
  <2>2. out[j].seq = r
    BY DEF nxt
  <2>3. In(slot(r), j)
    BY <2>2
  <2>4. k \in 1..n /\ In(slot(r), k)
    BY <1>2, <2>3
  <2>5. out[k].seq = nxt + k - 1
    BY <2>4 DEF nxt
  <2>6. slot(nxt + k - 1) = slot(r)
    BY <2>4, <2>5
  <2>7. nxt + n - una <= W
    BY DEF nxt, una
  <2> HIDE DEF k
  <2>8. nxt + k - 1 \in Nat /\ nxt + k - 1 - r < W /\ r - (nxt + k - 1) < W
    BY <1>1, <2>4, <2>7
  <2>9. nxt + k - 1 = r
    <3> DEFINE x == nxt + k - 1
    <3>1. x \in Nat /\ x - r < W /\ r - x < W
      BY <1>1, <2>4, <2>8
    <3>2. slot(x) = slot(r)
      BY <2>6, Zenon
    <3> HIDE DEF x, r
    <3>3. x = r
      BY <2>1, <3>1, <3>2, SlotOnce
    <3> QED
      BY <3>3 DEF x
  <2>10. k = j
    BY <1>1, <2>4, <2>9
  <2>11. buf[slot(r)] = out[k]
    BY <1>4, <2>1, <2>3 DEF k
  <2> QED
    BY <2>10, <2>11
<1> QED
  BY <1>5, <1>6, <1>7 DEF una, nxt

\* What a call of pump_send that puts the n segments of o out does.
PumpResult(e, p, fin, o, n) ==
  /\ o \in Seq(Segment) /\ n \in Nat
  /\ pend' \in [End -> 0..PEND_CAP] /\ pend'[e] = p - Filled(p, n)
  /\ \A x \in End \ {e} : pend'[x] = pend[x]
  /\ fin_queued' = [fin_queued EXCEPT ![e] = fin /\ ~(n > 0 /\ o[n].fin)]
  /\ fin_segmented' = [fin_segmented EXCEPT ![e] = @ \/ (n > 0 /\ o[n].fin)]
  /\ sbuf' \in [End -> Buffers]
  /\ \A x \in End \ {e} : sbuf'[x] = sbuf[x]
  /\ \A q \in snd_una[e]..snd_nxt[e]-1 : sbuf'[e][slot(q)] = sbuf[e][slot(q)]
  /\ \A j \in 1..n : sbuf'[e][slot(snd_nxt[e] + j - 1)] = o[j]
  /\ snd_nxt' = [snd_nxt EXCEPT ![e] = @ + n]
  /\ n > 0 => snd_nxt[e] + n - snd_una[e] <= W

\* What pump_send does, with w bytes written and p of them pending.
LEMMA PumpSend ==
  ASSUME TypeInv, NEW e \in End, NEW w \in Nat, NEW p \in 0..PEND_CAP, p <= w,
         NEW fin \in BOOLEAN, pump_send(e, w, p, fin),
         NEW o, o = Pumped(e, p, w - p + 1, fin), NEW l, l = Len(o)
  PROVE  PumpResult(e, p, fin, o, l)
<1> DEFINE out == Pumped(e, p, w - p + 1, fin)
           n == Len(out)
           sent == n > 0 /\ out[n].fin
           buf == Placed(out, sbuf[e])
<1>0. /\ PEND_CAP \in Nat /\ p \in Nat /\ w - p + 1 \in Nat /\ TypeOK
      /\ snd_una[e] <= snd_nxt[e] /\ snd_nxt[e] \in Nat
  <2>1. TypeOK /\ PEND_CAP \in Nat
    BY Sizes DEF TypeInv
  <2>2. snd_una[e] <= snd_nxt[e] /\ snd_nxt[e] \in Nat
    BY DEF TypeInv, TypeOK, SendSlots
  <2> QED
    BY <2>1, <2>2
<1>1. /\ out \in Seq(Segment) /\ n \in Nat
      /\ n > 0 => snd_nxt[e] + n - snd_una[e] <= W
      /\ \A j \in 1..n : out[j].seq = snd_nxt[e] + j - 1
  <2> DEFINE lo == w - p + 1
  <2>1. lo \in Nat /\ out = Pumped(e, p, lo, fin) /\ n = Len(out)
    BY <1>0
  <2> HIDE DEF lo, out, n
  <2>2. Numbered(e, out, n)
    BY <1>0, <2>1, PumpedSlots
  <2> QED
    BY <2>2 DEF Numbered
<1>2. /\ pend' = [pend EXCEPT ![e] = Greatest(0, p - n * STREAM_SEG_PAYLOAD)]
      /\ fin_queued' = [fin_queued EXCEPT ![e] = fin /\ ~sent]
      /\ fin_segmented' = [fin_segmented EXCEPT ![e] = @ \/ sent]
      /\ snd_nxt' = [snd_nxt EXCEPT ![e] = @ + n]
  BY DEF pump_send
<1>3. sbuf' = [sbuf EXCEPT ![e] = buf]
  BY DEF pump_send, Placed, Slots, W
<1> HIDE DEF out
<1>4. /\ buf \in Buffers
      /\ \A q \in snd_una[e]..snd_nxt[e]-1 : buf[slot(q)] = sbuf[e][slot(q)]
      /\ \A j \in 1..n : buf[slot(snd_nxt[e] + j - 1)] = out[j]
  BY <1>1, PumpBuffers
<1> HIDE DEF n, buf, sent
<1>5. /\ sbuf' \in [End -> Buffers] /\ sbuf'[e] = buf
      /\ \A x \in End \ {e} : sbuf'[x] = sbuf[x]
  BY <1>0, <1>3, <1>4 DEF TypeOK, Buffers, Slots, W
<1>6. pend'[e] = p - Filled(p, n) /\ pend'[e] \in 0..PEND_CAP
  <2>1. n * P \in Nat
    BY <1>1, Multiples
  <2>2. pend'[e] = Greatest(0, p - n * P)
    BY <1>0, <1>2 DEF TypeOK, P
  <2>3. Filled(p, n) = Least(p, n * P)
    BY DEF Filled
  <2> QED
    BY <1>0, <2>1, <2>2, <2>3 DEF Greatest, Least
<1>7. pend' \in [End -> 0..PEND_CAP] /\ \A x \in End \ {e} : pend'[x] = pend[x]
  BY <1>0, <1>2, <1>6 DEF TypeOK
<1>8. o = out /\ l = n
  BY DEF out, n
<1>9. PumpResult(e, p, fin, out, n)
  BY <1>1, <1>2, <1>4, <1>5, <1>6, <1>7 DEF sent, PumpResult
<1> QED
  BY <1>8, <1>9

\* What Write, Finish and Tick have in common keeps the types.
LEMMA PumpType ==
  ASSUME TypeInv, NEW e \in End, NEW w \in Nat, NEW p \in 0..PEND_CAP, p <= w,
         NEW fin \in BOOLEAN, pump_send(e, w, p, fin),
         written' = [written EXCEPT ![e] = w], snd_una' = snd_una
  PROVE  /\ SendSlots'
         /\ written' \in [End -> Nat] /\ pend' \in [End -> 0..PEND_CAP]
         /\ fin_queued' \in [End -> BOOLEAN] /\ fin_segmented' \in [End -> BOOLEAN]
         /\ sbuf' \in [End -> Buffers] /\ snd_nxt' \in [End -> Nat]
<1> DEFINE out == Pumped(e, p, w - p + 1, fin)
           n == Len(out)
           sent == n > 0 /\ out[n].fin
<1>0. /\ written \in [End -> Nat] /\ fin_queued \in [End -> BOOLEAN]
      /\ fin_segmented \in [End -> BOOLEAN] /\ snd_nxt \in [End -> Nat]
      /\ snd_una \in [End -> Nat] /\ pend \in [End -> 0..PEND_CAP] /\ PEND_CAP \in Nat
      /\ W \in Nat
  BY Sizes DEF TypeInv, TypeOK
<1>1. /\ out \in Seq(Segment) /\ n \in Nat
      /\ pend' \in [End -> 0..PEND_CAP] /\ pend'[e] = p - Filled(p, n)
      /\ \A x \in End \ {e} : pend'[x] = pend[x]
      /\ fin_queued' = [fin_queued EXCEPT ![e] = fin /\ ~sent]
      /\ fin_segmented' = [fin_segmented EXCEPT ![e] = @ \/ sent]
      /\ sbuf' \in [End -> Buffers]
      /\ \A x \in End \ {e} : sbuf'[x] = sbuf[x]
      /\ \A q \in snd_una[e]..snd_nxt[e]-1 : sbuf'[e][slot(q)] = sbuf[e][slot(q)]
      /\ \A j \in 1..n : sbuf'[e][slot(snd_nxt[e] + j - 1)] = out[j]
      /\ snd_nxt' = [snd_nxt EXCEPT ![e] = @ + n]
      /\ n > 0 => snd_nxt[e] + n - snd_una[e] <= W
  <2>1. PumpResult(e, p, fin, out, n)
    BY PumpSend
  <2> QED
    BY <2>1 DEF PumpResult
<1>2. \A j \in 1..n : out[j] \in Segment /\ out[j].seq = snd_nxt[e] + j - 1
  <2>1. p \in Nat /\ w - p + 1 \in Nat /\ TypeOK /\ snd_una[e] <= snd_nxt[e]
    BY <1>0 DEF TypeInv, SendSlots
  <2> QED
    BY <2>1, PumpedSlots DEF Numbered
<1> HIDE DEF out, n
<1>3. sent \in BOOLEAN
  BY <1>1, <1>2 DEF Segment
<1> HIDE DEF sent
<1>4. fin_queued' \in [End -> BOOLEAN] /\ fin_segmented' \in [End -> BOOLEAN]
  BY <1>0, <1>1, <1>3
<1>5. written' \in [End -> Nat] /\ snd_nxt' \in [End -> Nat]
  BY <1>0, <1>1
<1>6. ASSUME NEW x \in End
      PROVE  /\ snd_una'[x] <= snd_nxt'[x] /\ snd_nxt'[x] - snd_una'[x] <= W
             /\ pend'[x] <= written'[x]
             /\ \A q \in snd_una'[x]..snd_nxt'[x]-1 :
                  sbuf'[x][slot(q)] \in Segment /\ sbuf'[x][slot(q)].seq = q
  <2>0. /\ snd_una[x] <= snd_nxt[x] /\ snd_nxt[x] - snd_una[x] <= W /\ pend[x] <= written[x]
        /\ \A q \in snd_una[x]..snd_nxt[x]-1 :
             sbuf[x][slot(q)] \in Segment /\ sbuf[x][slot(q)].seq = q
    BY DEF TypeInv, SendSlots
  <2>1. CASE x = e
    <3>1. snd_nxt'[x] = snd_nxt[e] + n /\ snd_una'[x] = snd_una[e] /\ written'[x] = w
      BY <1>0, <1>1, <2>1
    <3>2. snd_una'[x] <= snd_nxt'[x] /\ snd_nxt'[x] - snd_una'[x] <= W
      BY <1>0, <1>1, <2>0, <2>1, <3>1
    <3>3. pend'[x] <= written'[x]
      <4>1. pend'[e] \in 0..PEND_CAP /\ pend'[e] <= p
        <5>1. Filled(p, n) \in Nat
          BY <1>1, Multiples DEF Filled, Least
        <5> QED
          BY <1>0, <1>1, <5>1
      <4> QED
        BY <1>0, <2>1, <3>1, <4>1
    <3>4. ASSUME NEW q \in snd_una'[x]..snd_nxt'[x]-1
          PROVE  sbuf'[x][slot(q)] \in Segment /\ sbuf'[x][slot(q)].seq = q
      <4>1. CASE q < snd_nxt[e]
        <5>1. q \in snd_una[e]..snd_nxt[e]-1
          BY <1>0, <1>1, <3>1, <4>1
        <5> QED
          BY <1>1, <2>0, <2>1, <5>1
      <4>2. CASE ~(q < snd_nxt[e])
        <5> DEFINE j == q - snd_nxt[e] + 1
        <5>1. j \in 1..n /\ q = snd_nxt[e] + j - 1
          <6>1. snd_nxt[e] \in Nat /\ snd_una[e] \in Nat /\ n \in Nat
            BY <1>0, <1>1
          <6>2. q \in snd_una[e]..(snd_nxt[e] + n)-1
            BY <3>1
          <6> QED
            BY <4>2, <6>1, <6>2
        <5> HIDE DEF j
        <5> QED
          BY <1>1, <1>2, <2>1, <5>1
      <4> QED
        BY <4>1, <4>2
    <3> QED
      BY <3>2, <3>3, <3>4
  <2>2. CASE x # e
    BY <1>0, <1>1, <2>0, <2>2
  <2> QED
    BY <2>1, <2>2
<1> QED
  BY <1>1, <1>4, <1>5, <1>6 DEF SendSlots

\* cc_on_ack counts how often the counter fills the window, which grows each time.
LEMMA WindowFills ==
  ASSUME NEW c \in Nat \ {0}, NEW s \in Nat
  PROVE  \E k \in 0..s : /\ k * c + (k * (k - 1)) \div 2 <= s
                         /\ (k + 1) * c + ((k + 1) * k) \div 2 > s
<1> DEFINE up(k) == (k + 1) * c + ((k + 1) * k) \div 2
           S == {k \in Nat : up(k) > s}
<1>1. ASSUME NEW k \in Nat PROVE up(k) \in Nat /\ up(k) >= k + 1
  <2> DEFINE x == (k + 1) * k
             y == (k + 1) * c
             z == (k + 1) * (c - 1)
  <2>1. x \in Nat /\ y \in Nat /\ z \in Nat /\ y = z + k + 1
    BY c - 1 \in Nat
  <2> HIDE DEF x, y, z
  <2>2. x \div 2 \in Nat
    BY <2>1
  <2>3. y + x \div 2 \in Nat /\ y + x \div 2 >= k + 1
    BY <2>1, <2>2
  <2> QED
    BY <2>3 DEF x, y
<1>2. s \in S
  BY <1>1
<1>3. PICK i \in S : \A j \in S : i <= j
  BY <1>2, LeastNumber
<1>4. i \in 0..s /\ up(i) > s
  <2> HIDE DEF up
  <2> QED
    BY <1>2, <1>3
<1>5. i * c + (i * (i - 1)) \div 2 <= s
  <2>1. CASE i = 0
    <3>1. i * c = 0 /\ i * (i - 1) = 0 /\ 0 \div 2 = 0
      BY <2>1
    <3> QED
      BY <3>1
  <2>2. CASE i # 0
    <3> DEFINE j == i - 1
    <3>1. j \in Nat /\ j + 1 = i /\ ~(i <= j)
      BY <1>4, <2>2
    <3> HIDE DEF up
    <3>2. ~(up(j) > s)
      BY <1>3, <3>1
    <3>3. up(j) = i * c + (i * (i - 1)) \div 2
      BY <3>1 DEF up
    <3>4. up(j) \in Nat
      BY <1>1, <3>1
    <3> QED
      BY <3>2, <3>3, <3>4
  <2> QED
    BY <2>1, <2>2
<1> QED
  BY <1>4, <1>5

\* The congestion window stays within the window's slots.
LEMMA GrownType ==
  ASSUME TypeOK, NEW e \in End, NEW n \in Nat
  PROVE  /\ Grown(e, n)[1] \in 1..Greatest(STREAM_IW, W)
         /\ Grown(e, n)[2] \in Nat
<1> DEFINE c == cwnd[e]
           sum == cwnd_cnt[e] + n
           In(k) == /\ k * c + (k * (k - 1)) \div 2 <= sum
                    /\ (k + 1) * c + ((k + 1) * k) \div 2 > sum
           more == CHOOSE k \in 0..sum : In(k)
           used == more * c + (more * (more - 1)) \div 2
           a == <<Least(c + n, W), cwnd_cnt[e]>>
           b == <<Least(c + more, W), sum - used>>
<1>1. W \in Nat \ {0} /\ STREAM_IW \in Nat \ {0} /\ Greatest(STREAM_IW, W) \in Nat
  BY Sizes, StreamAssumption
<1>2. c \in Nat \ {0} /\ sum \in Nat /\ cwnd_cnt[e] \in Nat
  <2>1. c \in 1..Greatest(STREAM_IW, W)
    BY DEF TypeOK, W
  <2>2. cwnd_cnt[e] \in Nat
    BY DEF TypeOK
  <2>3. c \in Nat \ {0}
    BY <1>1, <2>1
  <2> QED
    BY <2>2, <2>3
<1>3. Grown(e, n) = IF c < ssthresh[e] THEN a ELSE b
  BY DEF Grown, W
<1> HIDE DEF c, sum
<1>4. \E k \in 0..sum : In(k)
  BY <1>2, WindowFills
<1>5. more \in 0..sum /\ In(more)
  <2> HIDE DEF In
  <2> QED
    BY <1>4
<1> HIDE DEF more
<1>6. used \in Nat /\ used <= sum
  <2> DEFINE x == more * c
             y == more * (more - 1)
  <2>1. x \in Nat /\ y \in Nat
    <3>1. CASE more = 0
      BY <1>2, <3>1
    <3>2. CASE more # 0
      BY <1>2, <1>5, <3>2, more - 1 \in Nat
    <3> QED
      BY <3>1, <3>2
  <2>2. x + y \div 2 <= sum
    BY <1>5
  <2> HIDE DEF x, y
  <2>3. y \div 2 \in Nat
    BY <2>1
  <2>4. x + y \div 2 \in Nat
    BY <2>1, <2>3
  <2> QED
    BY <2>2, <2>4 DEF x, y
<1> HIDE DEF used
<1>7. /\ Least(c + n, W) \in 1..Greatest(STREAM_IW, W)
      /\ Least(c + more, W) \in 1..Greatest(STREAM_IW, W) /\ sum - used \in Nat
  BY <1>1, <1>2, <1>5, <1>6 DEF Least, Greatest
<1> QED
  BY <1>2, <1>3, <1>7

\* The channel takes what an end sends, or loses it.
LEMMA CarryType ==
  ASSUME TypeOK, NEW e \in End, NEW S \in SUBSET Datagram, NEW X \in Carry(net[Peer(e)], S)
  PROVE  X \in SUBSET Datagram /\ [net EXCEPT ![Peer(e)] = X] \in [End -> SUBSET Datagram]
<1>1. Peer(e) \in End
  BY Peers
<1>2. X \subseteq net[Peer(e)] \cup S /\ net \in [End -> SUBSET Datagram]
  BY DEF Carry, TypeOK
<1>3. X \in SUBSET Datagram
  BY <1>1, <1>2
<1> QED
  BY <1>1, <1>2, <1>3

\* What is sent of a set of segments.
LEMMA SentType ==
  ASSUME TypeOK, NEW e \in End, NEW S \in SUBSET Segment
  PROVE  {SegMsg(e, s) : s \in S} \in SUBSET Datagram
BY SegMsgType

\* The segments pump_send puts out.
LEMMA PumpedSegs ==
  ASSUME TypeInv, NEW e \in End, NEW p \in Nat, NEW lo \in Nat, NEW fin \in BOOLEAN
  PROVE  Segs(Pumped(e, p, lo, fin)) \in SUBSET Segment
<1>1. TypeOK /\ snd_una[e] <= snd_nxt[e]
  BY DEF TypeInv, SendSlots
<1>2. Pumped(e, p, lo, fin) \in Seq(Segment)
  BY <1>1, PumpedSlots DEF Numbered
<1> QED
  BY <1>2, ElementOfSeq DEF Segs

\* stream_write keeps the types.
LEMMA WriteType ==
  ASSUME TypeInv, NEW e \in End, NEW n \in 1..MaxBytes, Write(e, n)
  PROVE  TypeInv'
<1> DEFINE k == Least(n, PEND_CAP - pend[e])
           w == written[e] + k
           p == pend[e] + k
           fin == fin_queued[e]
           out == Pumped(e, p, written[e] - pend[e] + 1, fin)
<1>0. TypeOK /\ MaxBytes \in Nat /\ PEND_CAP \in Nat
  BY Sizes, StreamAssumption DEF TypeInv
<1>1. /\ pend[e] \in Nat /\ pend[e] <= PEND_CAP /\ written[e] \in Nat /\ pend[e] <= written[e]
      /\ fin \in BOOLEAN
  BY <1>0 DEF TypeInv, SendSlots, TypeOK
<1>2. /\ k > 0 /\ written' = [written EXCEPT ![e] = @ + k]
      /\ pump_send(e, w, p, fin)
      /\ timer' = [timer EXCEPT ![e] = @ \/ Len(out) > 0]
      /\ UNCHANGED <<closed, snd_una, dupacks, cwnd, ssthresh, cwnd_cnt, peer_rwnd, recvVars>>
  BY DEF Write
<1>3. \E X \in Carry(net[Peer(e)], {SegMsg(e, s) : s \in Segs(out)}) :
        net' = [net EXCEPT ![Peer(e)] = X]
  BY DEF Write
<1>4. k \in Nat /\ k <= PEND_CAP - pend[e]
  BY <1>0, <1>1 DEF Least
<1> HIDE DEF k
<1>5. w \in Nat /\ p \in 0..PEND_CAP /\ p <= w /\ written[e] - pend[e] + 1 \in Nat /\ p \in Nat
  BY <1>0, <1>1, <1>4
<1>6. written' = [written EXCEPT ![e] = w] /\ snd_una' = snd_una
  BY <1>2
<1>7. Segs(out) \in SUBSET Segment
  BY <1>1, <1>5, PumpedSegs
<1> HIDE DEF w, p, fin, out
<1>8. net' \in [End -> SUBSET Datagram]
  <2> DEFINE S == Segs(out)
             M == {SegMsg(e, s) : s \in S}
  <2>1. M \in SUBSET Datagram
    <3> HIDE DEF S
    <3> QED
      BY <1>0, <1>7, SentType DEF S
  <2>2. PICK X \in Carry(net[Peer(e)], M) : net' = [net EXCEPT ![Peer(e)] = X]
    BY <1>3
  <2> HIDE DEF M
  <2> QED
    BY <1>0, <2>1, <2>2, CarryType
<1>9. timer' \in [End -> BOOLEAN]
  BY <1>0, <1>2 DEF TypeOK
<1>10. /\ SendSlots'
       /\ written' \in [End -> Nat] /\ pend' \in [End -> 0..PEND_CAP]
       /\ fin_queued' \in [End -> BOOLEAN] /\ fin_segmented' \in [End -> BOOLEAN]
       /\ sbuf' \in [End -> Buffers] /\ snd_nxt' \in [End -> Nat]
  BY <1>1, <1>2, <1>5, <1>6, PumpType
<1>11. TypeOK'
  BY <1>0, <1>2, <1>8, <1>9, <1>10 DEF TypeOK, recvVars, Buffers, Slots, W
<1> QED
  BY <1>10, <1>11 DEF TypeInv

\* stream_finish keeps the types.
LEMMA FinishType ==
  ASSUME TypeInv, NEW e \in End, Finish(e)
  PROVE  TypeInv'
<1> DEFINE w == written[e]
           p == pend[e]
           out == Pumped(e, p, w - p + 1, TRUE)
<1>0. TypeOK /\ PEND_CAP \in Nat
  BY Sizes DEF TypeInv
<1>1. p \in 0..PEND_CAP /\ p \in Nat /\ w \in Nat /\ p <= w /\ w - p + 1 \in Nat
  BY <1>0 DEF TypeInv, SendSlots, TypeOK
<1>2. /\ closed' = [closed EXCEPT ![e] = TRUE]
      /\ pump_send(e, w, p, TRUE)
      /\ timer' = [timer EXCEPT ![e] = @ \/ Len(out) > 0]
      /\ UNCHANGED <<written, snd_una, dupacks, cwnd, ssthresh, cwnd_cnt, peer_rwnd, recvVars>>
  BY DEF Finish
<1>3. \E X \in Carry(net[Peer(e)], {SegMsg(e, s) : s \in Segs(out)}) :
        net' = [net EXCEPT ![Peer(e)] = X]
  BY DEF Finish
<1>6. written' = [written EXCEPT ![e] = w] /\ snd_una' = snd_una
  BY <1>0, <1>2 DEF TypeOK
<1>7. Segs(out) \in SUBSET Segment
  BY <1>1, PumpedSegs
<1> HIDE DEF w, p, out
<1>8. net' \in [End -> SUBSET Datagram]
  <2> DEFINE S == Segs(out)
             M == {SegMsg(e, s) : s \in S}
  <2>1. M \in SUBSET Datagram
    <3> HIDE DEF S
    <3> QED
      BY <1>0, <1>7, SentType DEF S
  <2>2. PICK X \in Carry(net[Peer(e)], M) : net' = [net EXCEPT ![Peer(e)] = X]
    BY <1>3
  <2> HIDE DEF M
  <2> QED
    BY <1>0, <2>1, <2>2, CarryType
<1>9. timer' \in [End -> BOOLEAN] /\ closed' \in [End -> BOOLEAN]
  BY <1>0, <1>2 DEF TypeOK
<1>10. /\ SendSlots'
       /\ written' \in [End -> Nat] /\ pend' \in [End -> 0..PEND_CAP]
       /\ fin_queued' \in [End -> BOOLEAN] /\ fin_segmented' \in [End -> BOOLEAN]
       /\ sbuf' \in [End -> Buffers] /\ snd_nxt' \in [End -> Nat]
  BY <1>1, <1>2, <1>6, PumpType
<1>11. TypeOK'
  BY <1>0, <1>2, <1>8, <1>9, <1>10 DEF TypeOK, recvVars, Buffers, Slots, W
<1> QED
  BY <1>10, <1>11 DEF TypeInv

\* What is retransmitted is what is outstanding.
LEMMA UnackedType ==
  ASSUME NEW buf, NEW una \in Nat, NEW nxt \in Nat, NEW limit \in Int, limit <= nxt,
         \A q \in una..nxt-1 : buf[slot(q)] \in Segment
  PROVE  Unacked(buf, una, limit) \in SUBSET Segment
<1>1. \A q \in una..limit-1 : q \in una..nxt-1
  OBVIOUS
<1> QED
  BY <1>1 DEF Unacked

\* The window after a loss.
LEMMA LossType ==
  ASSUME TypeOK, NEW e \in End
  PROVE  LossThresh(e) \in 1..Greatest(STREAM_IW, W) /\ LossThresh(e) \in Nat \ {0}
<1> DEFINE c == cwnd[e]
           d == c \div 2
<1>1. /\ W \in Nat \ {0} /\ STREAM_IW \in Nat \ {0} /\ STREAM_SSTHRESH_MIN \in 1..W
      /\ Greatest(STREAM_IW, W) \in Nat /\ W <= Greatest(STREAM_IW, W)
  BY Sizes, StreamAssumption DEF Greatest, W
<1>2. c \in 1..Greatest(STREAM_IW, W)
  BY DEF TypeOK, W
<1> HIDE DEF c
<1>3. c \in Nat
  BY <1>1, <1>2
<1>4. d \in Nat /\ d <= c
  BY <1>3
<1> HIDE DEF d
<1>5. LossThresh(e) = IF d > STREAM_SSTHRESH_MIN THEN d ELSE STREAM_SSTHRESH_MIN
  BY DEF LossThresh, Greatest, d, c
<1> DEFINE g == Greatest(STREAM_IW, W)
<1> HIDE DEF g
<1>6. g \in Nat /\ W <= g /\ c \in 1..g
  BY <1>1, <1>2 DEF g
<1>7. LossThresh(e) \in 1..g
  BY <1>1, <1>3, <1>4, <1>5, <1>6
<1>8. LossThresh(e) \in Nat \ {0}
  BY <1>6, <1>7
<1> QED
  BY <1>7, <1>8 DEF g

\* stream_tick keeps the types.
LEMMA TickType ==
  ASSUME TypeInv, NEW e \in End, NEW due \in BOOLEAN, Tick(e, due)
  PROVE  TypeInv'
<1> DEFINE w == written[e]
           p == pend[e]
           fin == fin_queued[e]
           out == Pumped(e, p, w - p + 1, fin)
           again == IF due THEN Unacked(sbuf'[e], snd_una[e], snd_nxt'[e]) ELSE {}
<1>0. TypeOK /\ PEND_CAP \in Nat
  BY Sizes DEF TypeInv
<1>1. p \in 0..PEND_CAP /\ p \in Nat /\ w \in Nat /\ p <= w /\ w - p + 1 \in Nat /\ fin \in BOOLEAN
  BY <1>0 DEF TypeInv, SendSlots, TypeOK
<1>2. /\ pump_send(e, w, p, fin)
      /\ timer' = [timer EXCEPT ![e] = TRUE]
      /\ UNCHANGED <<written, closed, snd_una, dupacks, peer_rwnd, recvVars>>
  BY DEF Tick
<1>3. \E X \in Carry(net[Peer(e)], {SegMsg(e, s) : s \in Segs(out) \cup again}) :
        net' = [net EXCEPT ![Peer(e)] = X]
  BY DEF Tick, TickSegs
<1>4. \/ /\ ssthresh' = [ssthresh EXCEPT ![e] = LossThresh(e)]
         /\ cwnd' = [cwnd EXCEPT ![e] = STREAM_IW]
         /\ cwnd_cnt' = [cwnd_cnt EXCEPT ![e] = 0]
      \/ UNCHANGED <<ssthresh, cwnd, cwnd_cnt>>
  BY DEF Tick
<1>6. written' = [written EXCEPT ![e] = w] /\ snd_una' = snd_una
  BY <1>0, <1>2 DEF TypeOK
<1>7. Segs(out) \in SUBSET Segment
  BY <1>1, PumpedSegs
<1> HIDE DEF w, p, fin, out
<1>8. /\ SendSlots'
      /\ written' \in [End -> Nat] /\ pend' \in [End -> 0..PEND_CAP]
      /\ fin_queued' \in [End -> BOOLEAN] /\ fin_segmented' \in [End -> BOOLEAN]
      /\ sbuf' \in [End -> Buffers] /\ snd_nxt' \in [End -> Nat]
  BY <1>1, <1>2, <1>6, PumpType
<1>9. again \in SUBSET Segment
  <2> DEFINE nxt == snd_nxt'[e]
             una == snd_una[e]
  <2>1. una \in Nat /\ nxt \in Nat
    BY <1>0, <1>8 DEF TypeOK
  <2>2. \A q \in una..nxt-1 : sbuf'[e][slot(q)] \in Segment
    BY <1>6, <1>8 DEF SendSlots
  <2> HIDE DEF una, nxt
  <2>3. Unacked(sbuf'[e], una, nxt) \in SUBSET Segment
    BY <2>1, <2>2, UnackedType
  <2> QED
    BY <2>3 DEF una, nxt
<1> HIDE DEF again
<1>10. Segs(out) \cup again \in SUBSET Segment
  BY <1>7, <1>9
<1>11. net' \in [End -> SUBSET Datagram]
  BY <1>0, <1>3, <1>10, SentType, CarryType
<1>12. timer' \in [End -> BOOLEAN]
  BY <1>0, <1>2 DEF TypeOK
<1>13. /\ ssthresh' \in [End -> Nat \ {0}] /\ cwnd_cnt' \in [End -> Nat]
       /\ cwnd' \in [End -> 1..Greatest(STREAM_IW, W)]
  <2>1. STREAM_IW \in 1..Greatest(STREAM_IW, W)
    BY Sizes, StreamAssumption DEF Greatest
  <2>2. LossThresh(e) \in Nat \ {0}
    BY <1>0, LossType
  <2>3. /\ ssthresh \in [End -> Nat \ {0}] /\ cwnd_cnt \in [End -> Nat]
        /\ cwnd \in [End -> 1..Greatest(STREAM_IW, W)]
    BY <1>0 DEF TypeOK, W
  <2> QED
    BY <1>4, <2>1, <2>2, <2>3
<1>14. TypeOK'
  BY <1>0, <1>2, <1>8, <1>11, <1>12, <1>13 DEF TypeOK, recvVars, Buffers, Slots, W
<1> QED
  BY <1>8, <1>14 DEF TypeInv

\* stream_read keeps the types.
LEMMA ReadType ==
  ASSUME TypeInv, NEW e \in End, NEW n \in 1..DELIV_CAP, Read(e, n)
  PROVE  TypeInv'
<1>1. TypeOK /\ DELIV_CAP \in Nat
  BY Sizes DEF TypeInv
<1>2. /\ unread' = [unread EXCEPT ![e] = @ - n] /\ n \in 1..unread[e]
      /\ UNCHANGED <<sendVars, ccVars, rbuf, rcv_nxt, peer_fin, got, net>>
  BY DEF Read
<1>3. unread' \in [End -> 0..DELIV_CAP]
  BY <1>1, <1>2 DEF TypeOK
<1>4. TypeOK'
  BY <1>1, <1>2, <1>3 DEF TypeOK, sendVars, ccVars
<1>5. SendSlots'
  BY <1>2 DEF TypeInv, SendSlots, sendVars
<1> QED
  BY <1>4, <1>5 DEF TypeInv

\* apply_sack only sets flags.
LEMMA SackFlag ==
  ASSUME NEW s \in Segment, NEW r, r = [s EXCEPT !.sacked = TRUE]
  PROVE  /\ r \in Segment
         /\ r.seq = s.seq /\ r.lo = s.lo /\ r.len = s.len /\ r.fin = s.fin
BY DEF Segment

\* The send window after apply_sack.
LEMMA SackedSpec ==
  ASSUME TypeInv, NEW e \in End, NEW m \in Datagram, NEW buf, buf = Sacked(e, m)
  PROVE  /\ buf \in Buffers
         /\ \A q \in snd_una[e]..snd_nxt[e]-1 :
              /\ buf[slot(q)] \in Segment
              /\ buf[slot(q)].seq = q
              /\ buf[slot(q)].lo = sbuf[e][slot(q)].lo
              /\ buf[slot(q)].len = sbuf[e][slot(q)].len
              /\ buf[slot(q)].fin = sbuf[e][slot(q)].fin
              /\ buf[slot(q)].sacked =>
                   sbuf[e][slot(q)].sacked \/ \E b \in m.sack : q = m.ack + 1 + b
<1> DEFINE C(i) == /\ sbuf[e][i] # NoSeg /\ sbuf[e][i].seq \in snd_una[e]..snd_nxt[e]-1
                   /\ \E b \in m.sack : sbuf[e][i].seq = m.ack + 1 + b
           R(i) == [sbuf[e][i] EXCEPT !.sacked = TRUE]
<1>1. buf = [i \in Slots |-> IF C(i) THEN R(i) ELSE sbuf[e][i]]
  BY DEF Sacked, Slots, W
<1>2. \A i \in Slots : sbuf[e][i] \in Segment \cup {NoSeg}
  <2>1. sbuf \in [End -> Buffers]
    BY DEF TypeInv, TypeOK, Buffers, Slots, W
  <2> QED
    BY <2>1 DEF Buffers
<1>3. snd_una[e] \in Nat /\ snd_nxt[e] \in Nat
  BY DEF TypeInv, TypeOK
<1>4. buf \in Buffers
  <2>1. ASSUME NEW i \in Slots, C(i) PROVE R(i) \in Segment
    <3>1. sbuf[e][i] \in Segment
      BY <1>2, <2>1
    <3> HIDE DEF C
    <3> QED
      BY <3>1, SackFlag
  <2> HIDE DEF C, R
  <2>2. \A i \in Slots : buf[i] \in Segment \cup {NoSeg}
    BY <1>1, <1>2, <2>1
  <2>3. buf = [i \in Slots |-> buf[i]]
    BY <1>1
  <2> QED
    BY <2>2, <2>3 DEF Buffers
<1>5. ASSUME NEW q \in snd_una[e]..snd_nxt[e]-1
      PROVE  /\ buf[slot(q)] \in Segment
             /\ buf[slot(q)].seq = q
             /\ buf[slot(q)].lo = sbuf[e][slot(q)].lo
             /\ buf[slot(q)].len = sbuf[e][slot(q)].len
             /\ buf[slot(q)].fin = sbuf[e][slot(q)].fin
             /\ buf[slot(q)].sacked =>
                  sbuf[e][slot(q)].sacked \/ \E b \in m.sack : q = m.ack + 1 + b
  <2> DEFINE i == slot(q)
             s == sbuf[e][i]
  <2>1. q \in Nat /\ i \in Slots
    BY <1>3, SlotType
  <2>2. s \in Segment /\ s.seq = q
    BY DEF TypeInv, SendSlots
  <2>3. CASE C(i)
    <3>1. buf[i] = [s EXCEPT !.sacked = TRUE]
      BY <1>1, <2>1, <2>3
    <3>2. \E b \in m.sack : q = m.ack + 1 + b
      BY <2>2, <2>3
    <3> HIDE DEF C, s
    <3>3. buf[i] \in Segment /\ buf[i].seq = s.seq /\ buf[i].lo = s.lo /\ buf[i].len = s.len
          /\ buf[i].fin = s.fin
      BY <2>2, <3>1, SackFlag
    <3> QED
      BY <2>2, <3>2, <3>3 DEF s
  <2>4. CASE ~C(i)
    <3>1. buf[i] = s
      BY <1>1, <2>1, <2>4
    <3> QED
      BY <2>2, <3>1
  <2> QED
    BY <2>3, <2>4
<1> QED
  BY <1>4, <1>5

\* on_ack moves the window's lower edge up to the acknowledgement or leaves it.
LEMMA AckType ==
  ASSUME TypeInv, NEW e \in End, NEW m \in Datagram,
         NewAck(e, m) \/ OldAck(e, m) \/ FastAck(e, m)
  PROVE  /\ cwnd' \in [End -> 1..Greatest(STREAM_IW, W)] /\ cwnd_cnt' \in [End -> Nat]
         /\ ssthresh' \in [End -> Nat \ {0}] /\ dupacks' \in [End -> Nat]
         /\ timer' \in [End -> BOOLEAN] /\ snd_una' \in [End -> Nat]
         /\ \A x \in End \ {e} : snd_una'[x] = snd_una[x]
         /\ snd_una'[e] >= snd_una[e] /\ snd_una'[e] <= snd_nxt[e]
         /\ snd_una'[e] = snd_una[e] \/ snd_una'[e] = m.ack
<1>0. TypeOK /\ m.ack \in Nat
  BY DEF TypeInv, Datagram
<1>1. /\ cwnd \in [End -> 1..Greatest(STREAM_IW, W)] /\ cwnd_cnt \in [End -> Nat]
      /\ ssthresh \in [End -> Nat \ {0}] /\ dupacks \in [End -> Nat]
      /\ timer \in [End -> BOOLEAN] /\ snd_una \in [End -> Nat] /\ snd_nxt \in [End -> Nat]
  BY <1>0 DEF TypeOK, W
<1>2. snd_una[e] <= snd_nxt[e]
  BY DEF TypeInv, SendSlots
<1>3. CASE NewAck(e, m)
  <2> DEFINE g == Grown(e, m.ack - snd_una[e])
  <2>1. m.ack - snd_una[e] \in Nat /\ m.ack <= snd_nxt[e]
    BY <1>0, <1>1, <1>3 DEF NewAck
  <2>2. g[1] \in 1..Greatest(STREAM_IW, W) /\ g[2] \in Nat
    BY <1>0, <2>1, GrownType
  <2>3. /\ cwnd' = [cwnd EXCEPT ![e] = g[1]] /\ cwnd_cnt' = [cwnd_cnt EXCEPT ![e] = g[2]]
        /\ snd_una' = [snd_una EXCEPT ![e] = m.ack] /\ dupacks' = [dupacks EXCEPT ![e] = 0]
        /\ timer' = [timer EXCEPT ![e] = m.ack # snd_nxt[e]] /\ ssthresh' = ssthresh
    BY <1>3 DEF NewAck
  <2> HIDE DEF g
  <2>4. cwnd' \in [End -> 1..Greatest(STREAM_IW, W)] /\ cwnd_cnt' \in [End -> Nat]
    BY <1>1, <2>2, <2>3
  <2>5. timer' \in [End -> BOOLEAN]
    BY <1>1, <2>3
  <2> QED
    BY <1>0, <1>1, <2>1, <2>3, <2>4, <2>5
<1>4. CASE OldAck(e, m)
  <2>1. dupacks' \in [End -> Nat]
    <3> DEFINE d == dupacks[e]
               x == Least(d + 1, STREAM_DUPACK_THRESH + 1)
    <3>1. d \in Nat /\ x \in Nat
      BY <1>1, StreamAssumption DEF Least
    <3>2. dupacks' = [dupacks EXCEPT ![e] = IF ~IsDup(e, m) THEN d ELSE IF m.rwnd = 0 THEN 0 ELSE x]
      BY <1>1, <1>4 DEF OldAck
    <3> HIDE DEF d, x
    <3> QED
      BY <1>1, <3>1, <3>2
  <2>2. UNCHANGED <<cwnd, cwnd_cnt, ssthresh, snd_una, timer>>
    BY <1>4 DEF OldAck
  <2> QED
    BY <1>1, <1>2, <2>1, <2>2
<1>5. CASE FastAck(e, m)
  <2> DEFINE l == LossThresh(e)
  <2>1. l \in 1..Greatest(STREAM_IW, W) /\ l \in Nat \ {0}
    BY <1>0, LossType
  <2>2. /\ dupacks' = [dupacks EXCEPT ![e] = @ + 1] /\ ssthresh' = [ssthresh EXCEPT ![e] = l]
        /\ cwnd' = [cwnd EXCEPT ![e] = l] /\ cwnd_cnt' = [cwnd_cnt EXCEPT ![e] = 0]
        /\ timer' = [timer EXCEPT ![e] = TRUE] /\ snd_una' = snd_una
    BY <1>5 DEF FastAck
  <2> HIDE DEF l
  <2> QED
    BY <1>1, <1>2, <2>1, <2>2
<1> QED
  BY <1>3, <1>4, <1>5

\* The reassembly slots with the segment that came in.
LEMMA BufferedSpec ==
  ASSUME TypeOK, NEW e \in End, NEW m \in Datagram, NEW s, s = Seg(m.seq, m.lo, m.len, m.kind = "fin"),
         NEW buf, buf = Buffered(e, m)
  PROVE  /\ s \in Segment /\ buf \in Buffers
         /\ s.seq = m.seq /\ s.lo = m.lo /\ s.len = m.len /\ (s.fin <=> m.kind = "fin")
         /\ \/ buf = rbuf[e]
            \/ /\ m.seq \in rcv_nxt[e]..rcv_nxt[e]+W-1 /\ rbuf[e][slot(m.seq)] = NoSeg
               /\ \A i \in Slots : buf[i] = IF i = slot(m.seq) THEN s ELSE rbuf[e][i]
<1>1. /\ m.seq \in Nat /\ m.lo \in Nat /\ m.len \in 0..STREAM_SEG_PAYLOAD
  BY DEF Datagram
<1>2. (m.kind = "fin") \in BOOLEAN
  OBVIOUS
<1>3. /\ s \in Segment
      /\ s.seq = m.seq /\ s.lo = m.lo /\ s.len = m.len /\ (s.fin <=> m.kind = "fin")
  BY <1>1, <1>2 DEF Seg, Segment
<1>4. slot(m.seq) \in Slots /\ rbuf[e] \in Buffers
  BY <1>1, SlotType DEF TypeOK, Buffers, Slots, W
<1>5. \/ buf = rbuf[e]
      \/ /\ m.seq \in rcv_nxt[e]..rcv_nxt[e]+W-1 /\ rbuf[e][slot(m.seq)] = NoSeg
         /\ buf = [rbuf[e] EXCEPT ![slot(m.seq)] = s]
  BY DEF Buffered, W
<1> QED
  BY <1>3, <1>4, <1>5 DEF Buffers

\* A bounded set of numbers has a greatest one.
LEMMA GreatestNumber ==
  ASSUME NEW S \in SUBSET Nat, S # {}, NEW N \in Nat, \A q \in S : q <= N
  PROVE  \E i \in S : \A j \in S : j <= i
<1> DEFINE B == {n \in Nat : \A q \in S : q <= n}
<1>1. N \in B
  OBVIOUS
<1>2. PICK i \in B : \A j \in B : i <= j
  BY <1>1, LeastNumber
<1>3. i \in S
  <2> SUFFICES ASSUME i \notin S PROVE FALSE
    OBVIOUS
  <2>1. \A q \in S : q \in Nat /\ q < i
    BY <1>2
  <2>2. i - 1 \in Nat /\ \A q \in S : q <= i - 1
    <3>1. i \in Nat
      BY <1>2
    <3>2. PICK x \in S : TRUE
      OBVIOUS
    <3>3. i > 0
      BY <2>1, <3>1, <3>2
    <3>4. \A q \in S : q <= i - 1
      BY <2>1, <3>1
    <3> QED
      BY <3>1, <3>3, <3>4
  <2>3. i - 1 \in B
    BY <2>2
  <2> QED
    BY <1>2, <2>3
<1> QED
  BY <1>2, <1>3

\* fast_retransmit sends outstanding segments.
LEMMA HolesType ==
  ASSUME TypeOK, NEW e \in End, NEW buf, snd_una[e] < snd_nxt[e],
         \A q \in snd_una[e]..snd_nxt[e]-1 : buf[slot(q)] \in Segment
  PROVE  \E limit \in Int : limit <= snd_nxt[e] /\ Holes(e, buf) = Unacked(buf, snd_una[e], limit)
<1> DEFINE una == snd_una[e]
           nxt == snd_nxt[e]
           tops == {q \in una..nxt-1 : buf[slot(q)].sacked}
           Top(q) == \A p \in tops : p <= q
           top == CHOOSE q \in tops : Top(q)
           limit == IF tops = {} THEN una + 1 ELSE 1 + top
<1>1. una \in Nat /\ nxt \in Nat /\ una < nxt
  BY DEF TypeOK
<1>2. Holes(e, buf) = Unacked(buf, una, limit)
  BY DEF Holes
<1> HIDE DEF una, nxt
<1>3. tops \in SUBSET Nat /\ \A q \in tops : q <= nxt - 1 /\ q \in Nat
  BY <1>1
<1> HIDE DEF tops
<1>4. tops # {} => top \in tops
  <2> SUFFICES ASSUME tops # {} PROVE top \in tops
    OBVIOUS
  <2>1. \E q \in tops : Top(q)
    BY <1>1, <1>3, GreatestNumber, nxt - 1 \in Nat
  <2> HIDE DEF Top
  <2> QED
    BY <2>1
<1> HIDE DEF top
<1>5. limit \in Int /\ limit <= nxt
  <2>1. CASE tops = {}
    BY <1>1, <2>1
  <2>2. CASE tops # {}
    <3>1. top \in Nat /\ top <= nxt - 1
      BY <1>3, <1>4, <2>2
    <3> QED
      BY <1>1, <2>2, <3>1
  <2> QED
    BY <2>1, <2>2
<1> QED
  BY <1>2, <1>5 DEF una, nxt

\* What stream_input does with a data or FIN segment.
LEMMA AcceptSpec ==
  ASSUME TypeOK, NEW e \in End, NEW m \in Datagram, Accept(e, m),
         NEW buf, buf = Buffered(e, m),
         NEW run, run = Run(buf, rcv_nxt[e], unread[e]), NEW k, k = Len(run)
  PROVE  /\ run \in Seq(Segment) /\ k \in 0..W
         /\ \A j \in 1..k : /\ run[j] \in Segment /\ run[j] = buf[slot(rcv_nxt[e] + j - 1)]
                            /\ run[j].seq = rcv_nxt[e] + j - 1
                            /\ j < k => ~run[j].fin
         /\ rcv_nxt' = [rcv_nxt EXCEPT ![e] = @ + k]
         /\ got' = [got EXCEPT ![e] = @ \o Payload(run)] /\ got' \in [End -> Seq(Nat)]
         /\ unread' \in [End -> 0..DELIV_CAP]
         /\ peer_fin' \in [End -> BOOLEAN] /\ \A x \in End \ {e} : peer_fin'[x] = peer_fin[x]
         /\ peer_fin'[e] <=> peer_fin[e] \/ \E j \in 1..k : run[j].fin
         /\ rbuf' \in [End -> Buffers] /\ \A x \in End \ {e} : rbuf'[x] = rbuf[x]
         /\ \A i \in Slots : rbuf'[e][i] = IF \E j \in 1..k : slot(run[j].seq) = i
                                           THEN NoSeg ELSE buf[i]
<1>0. DELIV_CAP \in Nat /\ W \in Nat
  BY Sizes
<1>1. /\ rcv_nxt \in [End -> Nat] /\ unread \in [End -> 0..DELIV_CAP]
      /\ got \in [End -> Seq(Nat)] /\ rbuf \in [End -> Buffers]
  BY DEF TypeOK, Buffers, Slots, W
<1>2. buf \in Buffers
  BY BufferedSpec
<1> DEFINE next == rcv_nxt[e]
           n == unread[e]
<1>3. next \in Nat /\ n \in 0..DELIV_CAP
  BY <1>1
<1> HIDE DEF next, n
<1>4. run = Run(buf, next, n)
  BY DEF next, n
<1>5. /\ run \in Seq(Segment) /\ k \in 0..W
      /\ \A j \in 1..k : /\ run[j] = buf[slot(next + j - 1)] /\ run[j].seq = next + j - 1
                         /\ j < k => ~run[j].fin
      /\ Total(run) <= DELIV_CAP - n
  BY <1>2, <1>3, <1>4, RunSpec
<1>6. \A j \in 1..k : run[j] \in Segment
  BY <1>5, ElementOfSeq
<1>7. Payload(run) \in Seq(Nat) /\ Len(Payload(run)) = Total(run) /\ Total(run) \in Nat
  BY <1>5, PayloadType, LensType
<1> DEFINE bytes == Payload(run)
           after == [i \in Slots |-> IF \E j \in 1..k : slot(run[j].seq) = i THEN NoSeg ELSE buf[i]]
<1>8. /\ rbuf' = [rbuf EXCEPT ![e] = after]
      /\ rcv_nxt' = [rcv_nxt EXCEPT ![e] = @ + k]
      /\ got' = [got EXCEPT ![e] = @ \o bytes]
      /\ unread' = [unread EXCEPT ![e] = @ + Len(bytes)]
      /\ peer_fin' = [peer_fin EXCEPT ![e] = @ \/ \E j \in 1..k : run[j].fin]
  BY DEF Accept, Slots, W
<1>9. after \in Buffers
  <2>1. \A i \in Slots : after[i] \in Segment \cup {NoSeg}
    BY <1>2 DEF Buffers
  <2>2. after = [i \in Slots |-> after[i]]
    OBVIOUS
  <2> HIDE DEF after
  <2> QED
    BY <2>1, <2>2 DEF Buffers
<1>10. rbuf' \in [End -> Buffers] /\ (\A x \in End \ {e} : rbuf'[x] = rbuf[x]) /\ rbuf'[e] = after
  <2> HIDE DEF after
  <2> QED
    BY <1>1, <1>8, <1>9
<1>11. unread' \in [End -> 0..DELIV_CAP]
  <2>1. n + Total(run) \in 0..DELIV_CAP
    BY <1>0, <1>3, <1>5, <1>7
  <2>2. unread' = [unread EXCEPT ![e] = n + Total(run)]
    BY <1>1, <1>7, <1>8 DEF n
  <2> QED
    BY <1>1, <2>1, <2>2
<1>12. got' \in [End -> Seq(Nat)]
  <2>1. got[e] \in Seq(Nat) /\ got[e] \o bytes \in Seq(Nat)
    BY <1>1, <1>7, ConcatProperties
  <2>2. got' = [got EXCEPT ![e] = got[e] \o bytes]
    BY <1>1, <1>8
  <2> HIDE DEF bytes
  <2> QED
    BY <1>1, <2>1, <2>2
<1>13. /\ peer_fin' \in [End -> BOOLEAN] /\ \A x \in End \ {e} : peer_fin'[x] = peer_fin[x]
       /\ peer_fin'[e] <=> peer_fin[e] \/ \E j \in 1..k : run[j].fin
  <2> DEFINE fin == \E j \in 1..k : run[j].fin
  <2>1. peer_fin' = [peer_fin EXCEPT ![e] = @ \/ fin] /\ fin \in BOOLEAN
    BY <1>8
  <2>2. peer_fin \in [End -> BOOLEAN]
    BY DEF TypeOK
  <2> HIDE DEF fin
  <2>3. /\ peer_fin' \in [End -> BOOLEAN] /\ \A x \in End \ {e} : peer_fin'[x] = peer_fin[x]
        /\ peer_fin'[e] <=> peer_fin[e] \/ fin
    BY <2>1, <2>2
  <2> QED
    BY <2>3 DEF fin
<1> QED
  BY <1>5, <1>6, <1>8, <1>10, <1>11, <1>12, <1>13 DEF next

\* What fast_retransmit sends, out of the window apply_sack leaves.
LEMMA FastSegs ==
  ASSUME TypeInv, NEW e \in End, NEW m \in Datagram, IsDup(e, m)
  PROVE  \E limit \in Int :
           limit <= snd_nxt[e] /\ Holes(e, Sacked(e, m)) = Unacked(Sacked(e, m), snd_una[e], limit)
<1>1. TypeOK /\ snd_una[e] \in Nat /\ snd_nxt[e] \in Nat /\ snd_una[e] <= snd_nxt[e]
  BY DEF TypeInv, SendSlots, TypeOK
<1>2. snd_una[e] < snd_nxt[e]
  BY <1>1 DEF IsDup
<1> DEFINE buf == Sacked(e, m)
<1>3. \A q \in snd_una[e]..snd_nxt[e]-1 : buf[slot(q)] \in Segment
  BY SackedSpec
<1> HIDE DEF buf
<1>4. \E limit \in Int : limit <= snd_nxt[e] /\ Holes(e, buf) = Unacked(buf, snd_una[e], limit)
  BY <1>1, <1>2, <1>3, HolesType
<1> QED
  BY <1>4 DEF buf

\* The datagrams stream_input sends.
LEMMA RepliesType ==
  ASSUME TypeInv, NEW e \in End, NEW m \in Datagram,
         rcv_nxt'[e] \in Nat, unread'[e] \in 0..DELIV_CAP
  PROVE  InputReplies(e, m) \in SUBSET Datagram
<1> DEFINE fast == IsDup(e, m) /\ m.rwnd # 0 /\ dupacks[e] + 1 = STREAM_DUPACK_THRESH
           S == IF fast THEN Holes(e, Sacked(e, m)) ELSE {}
           M == {SegMsg(e, s) : s \in S}
           A == AckMsg(rbuf'[e], rcv_nxt'[e], unread'[e])
<1>1. InputReplies(e, m) = M \cup (IF m.kind = "ack" THEN {} ELSE {A})
  BY DEF InputReplies
<1>2. A \in Datagram
  BY AckMsgType
<1>3. TypeOK /\ snd_una[e] \in Nat /\ snd_nxt[e] \in Nat
  BY DEF TypeInv, TypeOK
<1>4. S \in SUBSET Segment
  <2> SUFFICES ASSUME fast PROVE Holes(e, Sacked(e, m)) \in SUBSET Segment
    OBVIOUS
  <2> DEFINE buf == Sacked(e, m)
  <2>1. PICK limit \in Int : limit <= snd_nxt[e] /\ Holes(e, buf) = Unacked(buf, snd_una[e], limit)
    BY FastSegs
  <2>2. \A q \in snd_una[e]..snd_nxt[e]-1 : buf[slot(q)] \in Segment
    BY SackedSpec
  <2> HIDE DEF buf
  <2>3. Unacked(buf, snd_una[e], limit) \in SUBSET Segment
    BY <1>3, <2>1, <2>2, UnackedType
  <2> QED
    BY <2>1, <2>3 DEF buf
<1> HIDE DEF S, A
<1>5. M \in SUBSET Datagram
  BY <1>3, <1>4, SentType
<1> HIDE DEF M
<1> QED
  BY <1>1, <1>2, <1>5

\* stream_input keeps the types.
LEMMA InputType ==
  ASSUME TypeInv, NEW e \in End, NEW m \in net[e], Input(e, m)
  PROVE  TypeInv'
<1>0. TypeOK
  BY DEF TypeInv
<1>1. m \in Datagram /\ m.rwnd \in 0..STREAM_WIN_MAX /\ Peer(e) \in End /\ Peer(e) # e
  <2>1. m \in Datagram
    BY <1>0 DEF TypeOK
  <2> QED
    BY <2>1, Peers DEF Datagram
<1>2. /\ peer_rwnd' = [peer_rwnd EXCEPT ![e] = m.rwnd]
      /\ sbuf' = [sbuf EXCEPT ![e] = Sacked(e, m)]
      /\ NewAck(e, m) \/ OldAck(e, m) \/ FastAck(e, m)
      /\ IF m.kind = "ack" THEN UNCHANGED recvVars ELSE Accept(e, m)
      /\ UNCHANGED <<written, closed, pend, fin_queued, fin_segmented, snd_nxt>>
  BY DEF Input
<1>3. PICK X \in Carry(net[Peer(e)], InputReplies(e, m)), Y \in {net[e], net[e] \ {m}} :
        net' = [net EXCEPT ![Peer(e)] = X, ![e] = Y]
  BY DEF Input
<1>4. /\ rbuf' \in [End -> Buffers] /\ rcv_nxt' \in [End -> Nat]
      /\ peer_fin' \in [End -> BOOLEAN] /\ unread' \in [End -> 0..DELIV_CAP]
      /\ got' \in [End -> Seq(Nat)]
  <2>1. CASE m.kind = "ack"
    BY <1>0, <1>2, <2>1 DEF TypeOK, recvVars, Buffers, Slots, W
  <2>2. CASE m.kind # "ack"
    <3> DEFINE buf == Buffered(e, m)
               run == Run(buf, rcv_nxt[e], unread[e])
               k == Len(run)
    <3>0. /\ Accept(e, m)
          /\ buf = Buffered(e, m) /\ run = Run(buf, rcv_nxt[e], unread[e]) /\ k = Len(run)
      BY <1>2, <2>2
    <3> HIDE DEF buf, run, k
    <3>1. /\ k \in 0..W
          /\ rcv_nxt' = [rcv_nxt EXCEPT ![e] = @ + k] /\ got' \in [End -> Seq(Nat)]
          /\ unread' \in [End -> 0..DELIV_CAP] /\ rbuf' \in [End -> Buffers]
          /\ peer_fin' \in [End -> BOOLEAN]
      BY <1>0, <1>1, <3>0, AcceptSpec
    <3>2. rcv_nxt \in [End -> Nat] /\ W \in Nat
      BY <1>0, Sizes DEF TypeOK
    <3>3. k \in Nat
      BY <3>1, <3>2
    <3> QED
      BY <3>1, <3>2, <3>3
  <2> QED
    BY <2>1, <2>2
<1>5. sbuf' \in [End -> Buffers] /\ peer_rwnd' \in [End -> 0..STREAM_WIN_MAX]
  <2>1. Sacked(e, m) \in Buffers
    BY <1>1, SackedSpec
  <2>2. sbuf \in [End -> Buffers] /\ peer_rwnd \in [End -> 0..STREAM_WIN_MAX]
    BY <1>0 DEF TypeOK, Buffers, Slots, W
  <2> QED
    BY <1>1, <1>2, <2>1, <2>2
<1>6. /\ cwnd' \in [End -> 1..Greatest(STREAM_IW, W)] /\ cwnd_cnt' \in [End -> Nat]
      /\ ssthresh' \in [End -> Nat \ {0}] /\ dupacks' \in [End -> Nat]
      /\ timer' \in [End -> BOOLEAN] /\ snd_una' \in [End -> Nat]
      /\ \A x \in End \ {e} : snd_una'[x] = snd_una[x]
      /\ snd_una'[e] >= snd_una[e] /\ snd_una'[e] <= snd_nxt[e]
  BY <1>1, <1>2, AckType
<1>7. net' \in [End -> SUBSET Datagram]
  <2>1. InputReplies(e, m) \in SUBSET Datagram
    BY <1>1, <1>4, RepliesType
  <2>2. X \in SUBSET Datagram
    BY <1>0, <2>1, CarryType
  <2>3. net \in [End -> SUBSET Datagram] /\ Y \in SUBSET Datagram
    BY <1>0, <1>3 DEF TypeOK
  <2> QED
    BY <1>1, <1>3, <2>2, <2>3
<1>8. TypeOK'
  BY <1>0, <1>2, <1>4, <1>5, <1>6, <1>7 DEF TypeOK, Buffers, Slots, W
<1>9. SendSlots'
  <2> SUFFICES ASSUME NEW x \in End
               PROVE  /\ snd_una'[x] <= snd_nxt'[x] /\ snd_nxt'[x] - snd_una'[x] <= W
                      /\ pend'[x] <= written'[x]
                      /\ \A q \in snd_una'[x]..snd_nxt'[x]-1 :
                           sbuf'[x][slot(q)] \in Segment /\ sbuf'[x][slot(q)].seq = q
    BY DEF SendSlots
  <2>1. /\ snd_una[x] <= snd_nxt[x] /\ snd_nxt[x] - snd_una[x] <= W
        /\ pend[x] <= written[x]
        /\ \A q \in snd_una[x]..snd_nxt[x]-1 :
             sbuf[x][slot(q)] \in Segment /\ sbuf[x][slot(q)].seq = q
    BY DEF TypeInv, SendSlots
  <2>2. snd_nxt'[x] = snd_nxt[x] /\ pend'[x] = pend[x] /\ written'[x] = written[x]
    BY <1>2
  <2>3. snd_una[x] \in Nat /\ snd_nxt[x] \in Nat /\ snd_una'[x] \in Nat /\ W \in Nat
        /\ sbuf \in [End -> Buffers]
    BY <1>0, <1>6, Sizes DEF TypeOK, Buffers, Slots, W
  <2>4. CASE x = e
    <3>1. sbuf'[e] = Sacked(e, m)
      BY <1>2, <2>3
    <3>2. \A q \in snd_una[e]..snd_nxt[e]-1 :
             sbuf'[e][slot(q)] \in Segment /\ sbuf'[e][slot(q)].seq = q
      BY <1>1, <3>1, SackedSpec
    <3>3. \A q \in snd_una'[e]..snd_nxt[e]-1 : q \in snd_una[e]..snd_nxt[e]-1
      BY <1>6, <2>3, <2>4
    <3>4. snd_una'[x] <= snd_nxt'[x] /\ snd_nxt'[x] - snd_una'[x] <= W
      BY <1>6, <2>1, <2>2, <2>3, <2>4
    <3> QED
      BY <2>1, <2>2, <2>4, <3>2, <3>3, <3>4
  <2>5. CASE x # e
    BY <1>2, <1>6, <2>1, <2>2, <2>3, <2>5
  <2> QED
    BY <2>4, <2>5
<1> QED
  BY <1>8, <1>9 DEF TypeInv

\* Both ends start with typed, empty buffers.
LEMMA InitType == Init => TypeInv
<1> SUFFICES ASSUME Init PROVE TypeInv
  OBVIOUS
<1>1. /\ W \in Nat \ {0} /\ PEND_CAP \in Nat /\ DELIV_CAP \in Nat /\ STREAM_IW \in Nat \ {0}
      /\ STREAM_IW \in 1..Greatest(STREAM_IW, W)
  <2>1. /\ W \in Nat \ {0} /\ PEND_CAP \in Nat /\ DELIV_CAP \in Nat /\ STREAM_IW \in Nat \ {0}
        /\ Greatest(STREAM_IW, W) \in Nat
    BY Sizes, StreamAssumption
  <2>2. STREAM_IW <= Greatest(STREAM_IW, W)
    BY <2>1 DEF Greatest
  <2> QED
    BY <2>1, <2>2
<1>2. written \in [End -> Nat] /\ pend \in [End -> 0..PEND_CAP] /\ unread \in [End -> 0..DELIV_CAP]
      /\ snd_una \in [End -> Nat] /\ snd_nxt \in [End -> Nat] /\ rcv_nxt \in [End -> Nat]
      /\ dupacks \in [End -> Nat] /\ cwnd_cnt \in [End -> Nat]
      /\ \A e \in End : snd_una[e] = 0 /\ snd_nxt[e] = 0 /\ pend[e] = 0 /\ written[e] = 0
  BY <1>1 DEF Init
<1>3. /\ closed \in [End -> BOOLEAN] /\ fin_queued \in [End -> BOOLEAN]
      /\ fin_segmented \in [End -> BOOLEAN] /\ timer \in [End -> BOOLEAN]
      /\ peer_fin \in [End -> BOOLEAN] /\ net \in [End -> SUBSET Datagram]
  BY DEF Init
<1>4. /\ sbuf \in [End -> [0..STREAM_WIN_MAX-1 -> Segment \cup {NoSeg}]]
      /\ rbuf \in [End -> [0..STREAM_WIN_MAX-1 -> Segment \cup {NoSeg}]]
  BY DEF Init
<1>5. /\ cwnd \in [End -> 1..Greatest(STREAM_IW, STREAM_WIN_MAX)]
      /\ ssthresh \in [End -> Nat \ {0}] /\ peer_rwnd \in [End -> 0..STREAM_WIN_MAX]
  BY <1>1 DEF Init, W
<1>6. got \in [End -> Seq(Nat)]
  <2>1. <<>> \in Seq(Nat)
    OBVIOUS
  <2> QED
    BY <2>1 DEF Init
<1>7. TypeOK
  BY <1>2, <1>3, <1>4, <1>5, <1>6 DEF TypeOK
<1>8. SendSlots
  BY <1>1, <1>2 DEF SendSlots
<1> QED
  BY <1>7, <1>8 DEF TypeInv

\* Every step keeps the types.
LEMMA NextType == TypeInv /\ [Next]_vars => TypeInv'
<1> SUFFICES ASSUME TypeInv, [Next]_vars PROVE TypeInv'
  OBVIOUS
<1>1. CASE UNCHANGED vars
  BY <1>1 DEF TypeInv, TypeOK, SendSlots, vars, sendVars, ccVars, recvVars
<1>2. CASE Next
  <2>1. PICK e \in End :
          \/ \E n \in 1..MaxBytes : Write(e, n)
          \/ Finish(e)
          \/ \E due \in BOOLEAN : Tick(e, due)
          \/ \E m \in net[e] : Input(e, m)
          \/ \E n \in 1..DELIV_CAP : Read(e, n)
    BY <1>2 DEF Next
  <2> QED
    BY <2>1, WriteType, FinishType, TickType, InputType, ReadType
<1> QED
  BY <1>1, <1>2

\* The buffers of stream.c never hold more than they have room for: PEND_CAP bytes
\* pending, DELIV_CAP delivered and unread, a window of segments in flight; and on_ack,
\* cc_on_ack and cc_on_loss keep the congestion window positive and within its bound.
THEOREM StreamTypeCorrect == Spec => []TypeOK
<1>1. Spec => []TypeInv
  BY InitType, NextType, PTL DEF Spec
<1>2. TypeInv => TypeOK
  BY DEF TypeInv
<1> QED
  BY <1>1, <1>2, PTL

-----------------------------------------------------------------------------
(* The timer. *)

\* pump_send leaves an end with nothing outstanding only where nothing was and nothing
\* went out.
LEMMA PumpTimer ==
  ASSUME TypeInv, NEW e \in End, NEW w \in Nat, NEW p \in 0..PEND_CAP, p <= w,
         NEW fin \in BOOLEAN, pump_send(e, w, p, fin), snd_una' = snd_una,
         NEW n, n = Len(Pumped(e, p, w - p + 1, fin))
  PROVE  /\ n \in Nat /\ snd_nxt'[e] = snd_nxt[e] + n /\ \A x \in End \ {e} : snd_nxt'[x] = snd_nxt[x]
         /\ snd_una'[e] # snd_nxt'[e] <=> (snd_una[e] # snd_nxt[e] \/ n > 0)
<1>1. /\ snd_nxt \in [End -> Nat] /\ snd_una \in [End -> Nat] /\ snd_una[e] <= snd_nxt[e]
  BY DEF TypeInv, TypeOK, SendSlots
<1>2. n \in Nat /\ snd_nxt' = [snd_nxt EXCEPT ![e] = @ + n]
  <2>1. PumpResult(e, p, fin, Pumped(e, p, w - p + 1, fin), n)
    BY PumpSend
  <2> QED
    BY <2>1 DEF PumpResult
<1>3. snd_nxt'[e] = snd_nxt[e] + n /\ \A x \in End \ {e} : snd_nxt'[x] = snd_nxt[x]
  BY <1>1, <1>2
<1>4. snd_una[e] \in Nat /\ snd_nxt[e] \in Nat
  BY <1>1
<1> QED
  BY <1>1, <1>2, <1>3, <1>4

\* Every step keeps the timer running exactly while something is outstanding.
LEMMA NextTimer == TypeInv /\ TimerGuardsWindow /\ [Next]_vars => TimerGuardsWindow'
<1> SUFFICES ASSUME TypeInv, TimerGuardsWindow, [Next]_vars PROVE TimerGuardsWindow'
  OBVIOUS
<1>0. /\ timer \in [End -> BOOLEAN] /\ snd_una \in [End -> Nat] /\ snd_nxt \in [End -> Nat]
      /\ PEND_CAP \in Nat /\ pend \in [End -> 0..PEND_CAP] /\ written \in [End -> Nat]
      /\ fin_queued \in [End -> BOOLEAN]
      /\ \A e \in End : snd_una[e] <= snd_nxt[e] /\ pend[e] <= written[e]
      /\ \A e \in End : timer[e] <=> snd_una[e] # snd_nxt[e]
  BY Sizes DEF TypeInv, TypeOK, SendSlots, TimerGuardsWindow
<1>1. CASE UNCHANGED vars
  BY <1>1 DEF TimerGuardsWindow, vars, sendVars, ccVars
<1>2. ASSUME NEW e \in End, NEW x \in 1..MaxBytes, Write(e, x) PROVE TimerGuardsWindow'
  <2> DEFINE k == Least(x, PEND_CAP - pend[e])
             w == written[e] + k
             p == pend[e] + k
             n == Len(Pumped(e, p, w - p + 1, fin_queued[e]))
  <2>1. /\ pump_send(e, w, p, fin_queued[e]) /\ snd_una' = snd_una
        /\ timer' = [timer EXCEPT ![e] = @ \/ Len(Pumped(e, p, written[e] - pend[e] + 1, fin_queued[e])) > 0]
    BY <1>2 DEF Write
  <2>2. k \in Nat /\ k <= PEND_CAP - pend[e]
    BY <1>0, StreamAssumption DEF Least
  <2> HIDE DEF k
  <2>3. w \in Nat /\ p \in 0..PEND_CAP /\ p <= w /\ written[e] - pend[e] + 1 = w - p + 1
    BY <1>0, <2>2
  <2>4. timer' = [timer EXCEPT ![e] = @ \/ n > 0]
    BY <2>1, <2>3
  <2> HIDE DEF w, p
  <2>6. fin_queued[e] \in BOOLEAN /\ pump_send(e, w, p, fin_queued[e]) /\ snd_una' = snd_una
    BY <1>0, <2>1
  <2>7. w \in Nat /\ p \in 0..PEND_CAP /\ p <= w
    BY <2>3
  <2>5. /\ n \in Nat /\ \A y \in End \ {e} : snd_nxt'[y] = snd_nxt[y]
        /\ snd_una'[e] # snd_nxt'[e] <=> (snd_una[e] # snd_nxt[e] \/ n > 0)
    BY <2>6, <2>7, PumpTimer
  <2> HIDE DEF n
  <2> QED
    BY <1>0, <2>1, <2>4, <2>5 DEF TimerGuardsWindow
<1>3. ASSUME NEW e \in End, Finish(e) PROVE TimerGuardsWindow'
  <2> DEFINE w == written[e]
             p == pend[e]
             n == Len(Pumped(e, p, w - p + 1, TRUE))
  <2>1. /\ pump_send(e, w, p, TRUE) /\ snd_una' = snd_una
        /\ timer' = [timer EXCEPT ![e] = @ \/ n > 0]
    BY <1>3 DEF Finish
  <2>2. w \in Nat /\ p \in 0..PEND_CAP /\ p <= w
    BY <1>0
  <2> HIDE DEF w, p
  <2>3. /\ n \in Nat /\ \A y \in End \ {e} : snd_nxt'[y] = snd_nxt[y]
        /\ snd_una'[e] # snd_nxt'[e] <=> (snd_una[e] # snd_nxt[e] \/ n > 0)
    BY <2>1, <2>2, PumpTimer
  <2> HIDE DEF n
  <2> QED
    BY <1>0, <2>1, <2>3 DEF TimerGuardsWindow
<1>4. ASSUME NEW e \in End, NEW due \in BOOLEAN, Tick(e, due) PROVE TimerGuardsWindow'
  <2> DEFINE w == written[e]
             p == pend[e]
             n == Len(Pumped(e, p, w - p + 1, fin_queued[e]))
  <2>1. /\ pump_send(e, w, p, fin_queued[e]) /\ snd_una' = snd_una
        /\ timer' = [timer EXCEPT ![e] = TRUE]
        /\ IF due THEN snd_una[e] # snd_nxt'[e] ELSE snd_nxt'[e] # snd_nxt[e]
    BY <1>4 DEF Tick
  <2>2. w \in Nat /\ p \in 0..PEND_CAP /\ p <= w /\ fin_queued[e] \in BOOLEAN
    BY <1>0
  <2> HIDE DEF w, p
  <2>3. /\ n \in Nat /\ snd_nxt'[e] = snd_nxt[e] + n /\ \A y \in End \ {e} : snd_nxt'[y] = snd_nxt[y]
        /\ snd_una'[e] # snd_nxt'[e] <=> (snd_una[e] # snd_nxt[e] \/ n > 0)
    BY <2>1, <2>2, PumpTimer
  <2> HIDE DEF n
  <2>4. snd_una[e] # snd_nxt'[e]
    BY <1>0, <2>1, <2>3
  <2> QED
    BY <1>0, <2>1, <2>3, <2>4 DEF TimerGuardsWindow
<1>5. ASSUME NEW e \in End, NEW m \in net[e], Input(e, m) PROVE TimerGuardsWindow'
  <2>1. (NewAck(e, m) \/ OldAck(e, m) \/ FastAck(e, m)) /\ snd_nxt' = snd_nxt
    BY <1>5 DEF Input
  <2>2. CASE NewAck(e, m)
    BY <1>0, <2>1, <2>2 DEF NewAck, TimerGuardsWindow
  <2>3. CASE OldAck(e, m)
    BY <1>0, <2>1, <2>3 DEF OldAck, TimerGuardsWindow
  <2>4. CASE FastAck(e, m)
    BY <1>0, <2>1, <2>4 DEF FastAck, IsDup, TimerGuardsWindow
  <2> QED
    BY <2>1, <2>2, <2>3, <2>4
<1>6. ASSUME NEW e \in End, NEW n \in 1..DELIV_CAP, Read(e, n) PROVE TimerGuardsWindow'
  BY <1>6 DEF Read, TimerGuardsWindow, sendVars, ccVars
<1> QED
  BY <1>1, <1>2, <1>3, <1>4, <1>5, <1>6 DEF Next

\* The retransmission timer runs exactly while something is outstanding: whatever
\* pump_send, on_ack, fast_retransmit and stream_tick do to it and in whatever order,
\* nothing outstanding is forgotten and nothing acknowledged keeps it running.
THEOREM TimerCorrect == Spec => []TimerGuardsWindow
<1>1. Init => TimerGuardsWindow
  BY DEF Init, TimerGuardsWindow
<1> QED
  BY <1>1, InitType, NextType, NextTimer, PTL DEF Spec

-----------------------------------------------------------------------------
(* The bytes.  The proof names what the code never stores: the layout of a   *)
(* direction, that is, the first byte of each of its segments.  pump_send    *)
(* extends it and nothing changes what it has laid out, so a segment number  *)
(* means the same bytes at both ends and in every datagram, however late.    *)

Layouts == [End -> [Nat -> Nat \ {0}]]

\* Segment q of a direction of x segments with the layout f, the last of them the FIN if
\* the direction is over.
IsSeg(f, x, over, q, lo, len, fin) ==
  /\ q \in Nat /\ q < x
  /\ len = f[q + 1] - f[q]
  /\ len # 0 => lo = f[q]
  /\ fin <=> over /\ q = x - 1

\* The segments of a direction lay out the bytes that are no longer pending.
LayoutOK(S) ==
  \A e \in End :
    /\ S[e][0] = 1
    /\ S[e][snd_nxt[e]] = written[e] - pend[e] + 1
    /\ \A q \in 0..snd_nxt[e] : S[e][q] <= written[e] - pend[e] + 1
    /\ fin_queued[e] => closed[e]
    /\ fin_segmented[e] => closed[e] /\ ~fin_queued[e] /\ pend[e] = 0 /\ snd_nxt[e] > 0

\* An end that has come to next and has buf in its reassembly slots has segment q.
Held(next, buf, q) == q < next \/ (buf[slot(q)] # NoSeg /\ buf[slot(q)].seq = q)

\* The send window holds segments of the layout, and believes nothing untrue.
SendOK(S) ==
  \A e \in End :
    /\ snd_una[e] <= rcv_nxt[Peer(e)]
    /\ \A q \in snd_una[e]..snd_nxt[e]-1 :
         /\ IsSeg(S[e], snd_nxt[e], fin_segmented[e], q,
                  sbuf[e][slot(q)].lo, sbuf[e][slot(q)].len, sbuf[e][slot(q)].fin)
         /\ sbuf[e][slot(q)].sacked => Held(rcv_nxt[Peer(e)], rbuf[Peer(e)], q)

\* A reassembly slot holds a segment of the receive window.
SlotOK(f, x, over, next, i, s) ==
  /\ s.seq >= next /\ s.seq < next + W /\ slot(s.seq) = i
  /\ IsSeg(f, x, over, s.seq, s.lo, s.len, s.fin)

\* The bytes delivered are those of the segments below rcv_nxt, and the end of the stream
\* is known exactly when the FIN is one of them.
RecvOK(S) ==
  \A e \in End :
    /\ rcv_nxt[e] <= snd_nxt[Peer(e)]
    /\ got[e] = [i \in 1..(S[Peer(e)][rcv_nxt[e]] - 1) |-> i]
    /\ peer_fin[e] <=> fin_segmented[Peer(e)] /\ rcv_nxt[e] = snd_nxt[Peer(e)]
    /\ \A i \in Slots : rbuf[e][i] # NoSeg =>
         SlotOK(S[Peer(e)], snd_nxt[Peer(e)], fin_segmented[Peer(e)], rcv_nxt[e], i, rbuf[e][i])

\* A datagram of an end with next and buf: it acknowledges what the end has, and a segment
\* it carries is one of the layout.
MsgOK(f, x, over, next, buf, m) ==
  /\ m.ack <= next
  /\ \A b \in m.sack : Held(next, buf, m.ack + 1 + b)
  /\ m.kind # "ack" => IsSeg(f, x, over, m.seq, m.lo, m.len, m.kind = "fin")

NetOK(S) ==
  \A e \in End : \A m \in net[Peer(e)] :
    MsgOK(S[e], snd_nxt[e], fin_segmented[e], rcv_nxt[e], rbuf[e], m)

Laid(S) == LayoutOK(S) /\ SendOK(S) /\ RecvOK(S) /\ NetOK(S)

\* The inductive invariant.
StreamInv == TypeInv /\ \E S \in Layouts : Laid(S)

\* Filling never passes p and never goes back.
LEMMA FilledGrows ==
  ASSUME NEW p \in Nat, NEW i \in Nat, NEW j \in Nat, i <= j
  PROVE  /\ Filled(p, i) \in Nat /\ Filled(p, j) \in Nat /\ Filled(p, 0) = 0
         /\ Filled(p, i) <= Filled(p, j) /\ Filled(p, j) <= p
<1>1. i * P \in Nat /\ j * P \in Nat /\ i * P <= j * P /\ 0 * P = 0
  BY Multiples, Sizes
<1> QED
  BY <1>1 DEF Filled, Least

\* Filling yields a number of bytes.
LEMMA FilledType ==
  ASSUME NEW p \in Nat, NEW j \in Nat
  PROVE  Filled(p, j) \in Nat /\ Filled(p, j) <= p /\ Filled(p, 0) = 0
BY FilledGrows

\* pump_send after the FIN has its number puts nothing out.
LEMMA PumpedNothing ==
  ASSUME TypeInv, NEW e \in End, NEW lo \in Nat
  PROVE  Len(Pumped(e, 0, lo, FALSE)) = 0
<1> DEFINE o == Pumped(e, 0, lo, FALSE)
           n == Len(o)
<1>1. TypeOK /\ snd_una[e] <= snd_nxt[e]
  BY DEF TypeInv, SendSlots
<1>0. o = Pumped(e, 0, lo, FALSE) /\ n = Len(o)
  OBVIOUS
<1> HIDE DEF o, n
<1>2. /\ n \in Nat
      /\ \A j \in 1..n : /\ o[j].len = Filled(0, j) - Filled(0, j - 1)
                         /\ ~o[j].fin => o[j].len # 0
                         /\ o[j].fin => FALSE
  <2>1. n \in Nat /\ Fills(o, n, 0, lo, FALSE)
    BY <1>0, <1>1, PumpedBytes
  <2> QED
    BY <2>1 DEF Fills
<1>3. \A j \in Nat : Filled(0, j) = 0
  BY FilledType
<1>4. ~(1 \in 1..n)
  <2> SUFFICES ASSUME 1 \in 1..n PROVE FALSE
    OBVIOUS
  <2>1. Filled(0, 1) = 0 /\ Filled(0, 1 - 1) = 0
    BY <1>3
  <2> QED
    BY <1>2, <2>1
<1>5. n = 0
  BY <1>2, <1>4
<1> QED
  BY <1>0, <1>5

\* T lays the p bytes from lo on out from segment x on, the first n segments in full.
Lays(S, T, e, x, lo, p, n) ==
  /\ \A y \in End \ {e} : T[y] = S[y]
  /\ \A q \in 0..x : T[e][q] = S[e][q]
  /\ \A j \in Nat : T[e][x + j] = lo + Filled(p, j) /\ Filled(p, j) \in Nat
  /\ \A q \in 0..x+n : T[e][q] <= lo + Filled(p, n)

\* The segments of e's direction up to x lay out the bytes below top.
Reaches(T, e, x, top) == T[e][x] = top /\ \A q \in 0..x : T[e][q] <= top

\* There is such a layout.
LEMMA ExtendedSpec ==
  ASSUME NEW S \in Layouts, NEW e \in End, NEW x \in Nat, NEW lo \in Nat \ {0}, NEW p \in Nat,
         NEW n \in Nat, Reaches(S, e, x, lo)
  PROVE  \E T \in Layouts : Lays(S, T, e, x, lo, p, n)
<1> DEFINE f == [q \in Nat |-> IF q <= x THEN S[e][q] ELSE lo + Filled(p, q - x)]
           T == [S EXCEPT ![e] = f]
<1>0. S[e][x] = lo /\ \A q \in 0..x : S[e][q] <= lo
  BY DEF Reaches
<1>1. S[e] \in [Nat -> Nat \ {0}]
  BY DEF Layouts
<1>2. ASSUME NEW j \in Nat PROVE Filled(p, j) \in Nat /\ Filled(p, 0) = 0
  BY FilledType
<1>3. ASSUME NEW q \in Nat PROVE f[q] \in Nat \ {0}
  <2>1. CASE q <= x
    BY <1>1, <2>1
  <2>2. CASE ~(q <= x)
    <3> DEFINE j == q - x
    <3>1. j \in Nat
      BY <2>2
    <3>2. f[q] = lo + Filled(p, j)
      BY <2>2
    <3> HIDE DEF j, f
    <3>3. Filled(p, j) \in Nat
      BY <1>2, <3>1
    <3> QED
      BY <3>2, <3>3
  <2> QED
    BY <2>1, <2>2
<1>4. f \in [Nat -> Nat \ {0}]
  <2>1. f = [q \in Nat |-> f[q]]
    OBVIOUS
  <2> HIDE DEF f
  <2> QED
    BY <1>3, <2>1
<1>6. \A q \in 0..x : f[q] = S[e][q]
  OBVIOUS
<1>7. ASSUME NEW j \in Nat PROVE f[x + j] = lo + Filled(p, j)
  <2>1. CASE j = 0
    <3>1. x + j = x /\ f[x] = S[e][x]
      BY <1>6, <2>1
    <3>2. Filled(p, j) = 0
      BY <1>2, <2>1
    <3> HIDE DEF f
    <3> QED
      BY <1>0, <3>1, <3>2
  <2>2. CASE j # 0
    <3>1. x + j \in Nat /\ ~(x + j <= x) /\ (x + j) - x = j
      BY <2>2
    <3>2. f[x + j] = lo + Filled(p, (x + j) - x)
      BY <3>1
    <3> HIDE DEF f
    <3> QED
      BY <3>1, <3>2
  <2> QED
    BY <2>1, <2>2
<1> HIDE DEF f
<1>8. /\ T \in Layouts /\ \A y \in End \ {e} : T[y] = S[y]
      /\ T[e] = f
  BY <1>4 DEF Layouts
<1> HIDE DEF T
<1>9. ASSUME NEW q \in 0..x+n PROVE f[q] <= lo + Filled(p, n)
  <2>0. Filled(p, n) \in Nat
    BY <1>2
  <2>1. CASE q <= x
    <3>1. f[q] = S[e][q] /\ S[e][q] <= lo /\ f[q] \in Nat
      BY <1>0, <1>3, <1>6, <2>1
    <3> QED
      BY <2>0, <3>1
  <2>2. CASE ~(q <= x)
    <3> DEFINE j == q - x
    <3>1. j \in Nat /\ q = x + j /\ j <= n
      BY <2>2
    <3> HIDE DEF j
    <3>2. Filled(p, j) <= Filled(p, n) /\ Filled(p, j) \in Nat
      BY <3>1, FilledGrows
    <3>3. f[q] = lo + Filled(p, j)
      BY <1>7, <3>1
    <3> QED
      BY <2>0, <3>2, <3>3
  <2> QED
    BY <2>1, <2>2
<1>10. Lays(S, T, e, x, lo, p, n)
  BY <1>2, <1>6, <1>7, <1>8, <1>9 DEF Lays
<1> QED
  BY <1>8, <1>10

\* What pump_send puts out, from segment x on, is what T lays out.
Laying(T, e, w, x, fin, o, n) ==
  /\ n \in Nat /\ Reaches(T, e, x + n, w - pend'[e] + 1)
  /\ fin_segmented[e] => n = 0
  /\ n > 0 /\ o[n].fin => fin /\ pend'[e] = 0
  /\ \A j \in 1..n : /\ o[j].len = T[e][x + j] - T[e][x + j - 1]
                     /\ o[j].len # 0 => o[j].lo = T[e][x + j - 1]
                     /\ o[j].fin => j = n

\* What pump_send does to the layout: x is the next segment, lo the first of the p pending
\* bytes, and T lays them out.
LEMMA PumpLayout ==
  ASSUME TypeInv,
         NEW e \in End, NEW w \in Nat, NEW p \in 0..PEND_CAP, p <= w,
         NEW x \in Nat, x = snd_nxt[e], NEW lo \in Nat, lo = w - p + 1,
         NEW fin \in BOOLEAN, pump_send(e, w, p, fin),
         fin_segmented[e] => p = 0 /\ ~fin,
         NEW o, o = Pumped(e, p, lo, fin), NEW n, n = Len(o),
         NEW S, NEW T, Lays(S, T, e, x, lo, p, n)
  PROVE  Laying(T, e, w, x, fin, o, n)
<1>0. p \in Nat /\ TypeOK /\ snd_una[e] <= snd_nxt[e]
  BY Sizes DEF TypeInv, SendSlots
<1>1. n \in Nat /\ pend'[e] = p - Filled(p, n)
  <2>1. PumpResult(e, p, fin, o, n)
    BY PumpSend
  <2> QED
    BY <2>1 DEF PumpResult
<1>2. Fills(o, n, p, lo, fin)
  BY <1>0, PumpedBytes
<1>3. fin_segmented[e] => n = 0
  BY PumpedNothing
<1>4. /\ \A j \in Nat : T[e][x + j] = lo + Filled(p, j) /\ Filled(p, j) \in Nat
      /\ \A q \in 0..x+n : T[e][q] <= lo + Filled(p, n)
  BY DEF Lays
<1>5. w - pend'[e] + 1 = lo + Filled(p, n)
  <2>1. Filled(p, n) \in Nat
    BY <1>1, <1>4
  <2> QED
    BY <1>0, <1>1, <2>1
<1>6. n > 0 /\ o[n].fin => fin /\ pend'[e] = 0
  <2> SUFFICES ASSUME n > 0, o[n].fin PROVE fin /\ pend'[e] = 0
    OBVIOUS
  <2>1. n \in 1..n
    BY <1>1
  <2>2. fin /\ Filled(p, n) = p
    BY <1>2, <2>1 DEF Fills
  <2>3. p - p = 0
    BY <1>0
  <2> QED
    BY <1>1, <2>2, <2>3
<1>7. ASSUME NEW j \in 1..n
      PROVE  /\ o[j].len = T[e][x + j] - T[e][x + j - 1]
             /\ o[j].len # 0 => o[j].lo = T[e][x + j - 1]
             /\ o[j].fin => j = n
  <2> DEFINE a == Filled(p, j)
             b == Filled(p, j - 1)
  <2>1. j \in Nat /\ j - 1 \in Nat /\ x + j - 1 = x + (j - 1)
    <3>1. n \in Nat
      BY <1>1
    <3>2. j \in Nat /\ j - 1 \in Nat
      BY <3>1
    <3> QED
      BY <3>2
  <2>2. T[e][x + j] = lo + a /\ a \in Nat /\ T[e][x + j - 1] = lo + b /\ b \in Nat
    BY <1>4, <2>1
  <2>3. /\ o[j].len = a - b /\ (o[j].len # 0 => o[j].lo = lo + b)
        /\ (o[j].fin => j = n)
    BY <1>2 DEF Fills
  <2> HIDE DEF a, b
  <2>4. o[j].len = T[e][x + j] - T[e][x + j - 1]
    BY <2>2, <2>3
  <2> QED
    BY <2>2, <2>3, <2>4
<1>8. T[e][x + n] = w - pend'[e] + 1
  BY <1>1, <1>4, <1>5
<1>9. \A q \in 0..x+n : T[e][q] <= w - pend'[e] + 1
  BY <1>4, <1>5
<1> QED
  BY <1>1, <1>3, <1>6, <1>7, <1>8, <1>9 DEF Laying, Reaches

\* A step of e that pumps the segments of o: the layout goes from S to T, and the new
\* segments go into the slots above the old ones.
Pumps(S, T, e, o, n) ==
  /\ n \in Nat /\ snd_nxt'[e] = snd_nxt[e] + n
  /\ \A y \in End \ {e} : /\ T[y] = S[y] /\ snd_nxt'[y] = snd_nxt[y] /\ sbuf'[y] = sbuf[y]
                          /\ fin_segmented'[y] = fin_segmented[y]
  /\ \A q \in 0..snd_nxt[e] : T[e][q] = S[e][q]
  /\ fin_segmented[e] => n = 0
  /\ fin_segmented'[e] <=> fin_segmented[e] \/ (n > 0 /\ o[n].fin)
  /\ \A j \in 1..n : /\ o[j].len = T[e][snd_nxt[e] + j] - T[e][snd_nxt[e] + j - 1]
                     /\ o[j].len # 0 => o[j].lo = T[e][snd_nxt[e] + j - 1]
                     /\ o[j].fin => j = n
                     /\ ~o[j].sacked /\ o[j].seq = snd_nxt[e] + j - 1
                     /\ sbuf'[e][slot(snd_nxt[e] + j - 1)] = o[j]
  /\ \A q \in snd_una[e]..snd_nxt[e]-1 : sbuf'[e][slot(q)] = sbuf[e][slot(q)]

\* pump_send with w bytes written, p of them pending and lo the first of those, puts the n
\* segments of o out.
Pumping(e, w, p, fin, lo, o, n) ==
  /\ w \in Nat /\ p \in 0..PEND_CAP /\ p <= w /\ fin \in BOOLEAN /\ lo = w - p + 1
  /\ pump_send(e, w, p, fin) /\ o = Pumped(e, p, lo, fin) /\ n = Len(o)

\* The numbers of a call of pump_send.
LEMMA PumpingType ==
  ASSUME TypeInv, NEW e \in End, NEW w, NEW p, NEW fin, NEW lo, NEW o, NEW n,
         Pumping(e, w, p, fin, lo, o, n)
  PROVE  /\ p \in Nat /\ w \in Nat /\ lo \in Nat \ {0} /\ n \in Nat /\ fin \in BOOLEAN
         /\ Fills(o, n, p, lo, fin) /\ \A j \in 1..n : o[j].seq = snd_nxt[e] + j - 1
<1>1. p \in Nat /\ w \in Nat /\ p <= w /\ lo = w - p + 1 /\ fin \in BOOLEAN
  BY Sizes DEF Pumping
<1>2. lo \in Nat \ {0}
  BY <1>1
<1>3. TypeOK /\ snd_una[e] <= snd_nxt[e] /\ o = Pumped(e, p, lo, fin) /\ n = Len(o)
  BY DEF TypeInv, SendSlots, Pumping
<1>4. n \in Nat /\ Fills(o, n, p, lo, fin)
  BY <1>1, <1>2, <1>3, PumpedBytes
<1>5. lo \in Nat
  BY <1>2
<1>6. Numbered(e, o, n)
  BY <1>1, <1>3, <1>5, PumpedSlots
<1>7. \A j \in 1..n : o[j].seq = snd_nxt[e] + j - 1
  BY <1>6 DEF Numbered
<1> QED
  BY <1>1, <1>2, <1>4, <1>7

\* What it does to the variables.
PumpEffect(e, p, fin, o, n) ==
  /\ pend'[e] = p - Filled(p, n) /\ \A y \in End \ {e} : pend'[y] = pend[y]
  /\ fin_queued'[e] <=> fin /\ ~(n > 0 /\ o[n].fin)
  /\ fin_segmented'[e] <=> fin_segmented[e] \/ (n > 0 /\ o[n].fin)
  /\ \A y \in End \ {e} : /\ fin_segmented'[y] = fin_segmented[y]
                          /\ fin_queued'[y] = fin_queued[y]
                          /\ snd_nxt'[y] = snd_nxt[y] /\ sbuf'[y] = sbuf[y]
  /\ snd_nxt'[e] = snd_nxt[e] + n
  /\ \A q \in snd_una[e]..snd_nxt[e]-1 : sbuf'[e][slot(q)] = sbuf[e][slot(q)]
  /\ \A j \in 1..n : sbuf'[e][slot(snd_nxt[e] + j - 1)] = o[j]

\* Each variable of the send side by itself.
LEMMA PumpingEffect ==
  ASSUME TypeInv, NEW e \in End, NEW w, NEW p, NEW fin, NEW lo, NEW o, NEW n,
         Pumping(e, w, p, fin, lo, o, n)
  PROVE  PumpEffect(e, p, fin, o, n)
<1> DEFINE sent == n > 0 /\ o[n].fin
<1>0. /\ w \in Nat /\ p \in 0..PEND_CAP /\ p <= w /\ fin \in BOOLEAN
      /\ pump_send(e, w, p, fin) /\ o = Pumped(e, p, w - p + 1, fin) /\ n = Len(o)
  BY DEF Pumping
<1>1. /\ pend'[e] = p - Filled(p, n) /\ \A y \in End \ {e} : pend'[y] = pend[y]
      /\ fin_queued' = [fin_queued EXCEPT ![e] = fin /\ ~sent]
      /\ fin_segmented' = [fin_segmented EXCEPT ![e] = @ \/ sent]
      /\ \A y \in End \ {e} : sbuf'[y] = sbuf[y]
      /\ \A q \in snd_una[e]..snd_nxt[e]-1 : sbuf'[e][slot(q)] = sbuf[e][slot(q)]
      /\ \A j \in 1..n : sbuf'[e][slot(snd_nxt[e] + j - 1)] = o[j]
      /\ snd_nxt' = [snd_nxt EXCEPT ![e] = @ + n]
  <2>1. PumpResult(e, p, fin, o, n)
    BY <1>0, PumpSend
  <2> QED
    BY <2>1 DEF PumpResult
<1>2. /\ snd_nxt \in [End -> Nat] /\ fin_queued \in [End -> BOOLEAN]
      /\ fin_segmented \in [End -> BOOLEAN]
  BY DEF TypeInv, TypeOK
<1>3. sent \in BOOLEAN
  OBVIOUS
<1> HIDE DEF sent
<1>4. /\ fin_queued'[e] <=> fin /\ ~sent
      /\ fin_segmented'[e] <=> fin_segmented[e] \/ sent
  BY <1>0, <1>1, <1>2, <1>3
<1>5. /\ \A y \in End \ {e} : /\ fin_segmented'[y] = fin_segmented[y]
                              /\ fin_queued'[y] = fin_queued[y]
                              /\ snd_nxt'[y] = snd_nxt[y]
      /\ snd_nxt'[e] = snd_nxt[e] + n
  BY <1>1, <1>2
<1> QED
  BY <1>1, <1>4, <1>5 DEF PumpEffect, sent

\* With n more segments of e, T lays out all the w bytes but those still pending.
Spans(T, e, w, n) == Reaches(T, e, snd_nxt[e] + n, w - pend'[e] + 1)

\* pump_send is a step that pumps, and lays out what is no longer pending.
LEMMA PumpStep ==
  ASSUME TypeInv, NEW S \in Layouts, NEW e \in End,
         NEW w, NEW p, NEW fin, NEW lo, NEW o, NEW n, Pumping(e, w, p, fin, lo, o, n),
         Reaches(S, e, snd_nxt[e], lo), fin_segmented[e] => p = 0 /\ ~fin
  PROVE  \E T \in Layouts : Pumps(S, T, e, o, n) /\ Spans(T, e, w, n)
<1> DEFINE x == snd_nxt[e]
<1>0. p \in Nat /\ w \in Nat /\ lo \in Nat \ {0} /\ n \in Nat /\ fin \in BOOLEAN /\ x \in Nat
  BY PumpingType DEF TypeInv, TypeOK
<1>1. x = snd_nxt[e] /\ Reaches(S, e, x, lo)
  OBVIOUS
<1> HIDE DEF x
<1>3. PICK T \in Layouts : Lays(S, T, e, x, lo, p, n)
  BY <1>0, <1>1, ExtendedSpec
<1>4. /\ p \in 0..PEND_CAP /\ p <= w /\ lo = w - p + 1 /\ pump_send(e, w, p, fin)
      /\ o = Pumped(e, p, lo, fin) /\ n = Len(o)
  BY DEF Pumping
<1>5. Laying(T, e, w, x, fin, o, n)
  BY <1>0, <1>1, <1>3, <1>4, PumpLayout
<1>6. PumpEffect(e, p, fin, o, n)
  BY PumpingEffect
<1>7. \A j \in 1..n : ~o[j].sacked /\ o[j].seq = x + j - 1
  BY <1>1, PumpingType DEF Fills
<1>8. Pumps(S, T, e, o, n)
  BY <1>1, <1>3, <1>5, <1>6, <1>7 DEF Pumps, Lays, Laying, PumpEffect
<1> QED
  BY <1>1, <1>5, <1>8 DEF Laying, Spans

\* Nothing is reopened, and a direction with a FIN to send is closed.
Closes(e, fin) == (\A x \in End : closed[x] => closed'[x]) /\ (fin => closed'[e])

\* The layout after a step that pumps.
LEMMA PumpKeepsLayout ==
  ASSUME TypeInv, NEW S \in Layouts, LayoutOK(S), NEW e \in End, NEW T \in Layouts,
         NEW w, NEW p, NEW fin, NEW lo, NEW o, NEW n, Pumping(e, w, p, fin, lo, o, n),
         fin_segmented[e] => p = 0 /\ ~fin,
         Pumps(S, T, e, o, n), Spans(T, e, w, n),
         written' = [written EXCEPT ![e] = w],
         Closes(e, fin)
  PROVE  LayoutOK(T)'
<1> DEFINE sent == n > 0 /\ o[n].fin
<1>0. /\ p \in Nat /\ n \in Nat /\ fin \in BOOLEAN /\ snd_nxt[e] \in Nat
      /\ written \in [End -> Nat]
  BY PumpingType DEF TypeInv, TypeOK
<1>1. /\ pend'[e] = p - Filled(p, n) /\ \A y \in End \ {e} : pend'[y] = pend[y]
      /\ fin_queued'[e] <=> fin /\ ~sent
      /\ fin_segmented'[e] <=> fin_segmented[e] \/ sent
      /\ \A y \in End \ {e} : /\ fin_segmented'[y] = fin_segmented[y]
                              /\ fin_queued'[y] = fin_queued[y]
                              /\ snd_nxt'[y] = snd_nxt[y]
      /\ snd_nxt'[e] = snd_nxt[e] + n
  <2>1. PumpEffect(e, p, fin, o, n)
    BY PumpingEffect
  <2> QED
    BY <2>1 DEF PumpEffect
<1>2. sent => n > 0 /\ fin /\ pend'[e] = 0
  <2> SUFFICES ASSUME sent PROVE n > 0 /\ fin /\ pend'[e] = 0
    OBVIOUS
  <2>1. n \in 1..n /\ Fills(o, n, p, lo, fin)
    BY <1>0, PumpingType
  <2>2. fin /\ Filled(p, n) = p
    BY <2>1 DEF Fills
  <2>3. p - p = 0
    BY <1>0
  <2> QED
    BY <1>1, <2>2, <2>3
<1> HIDE DEF sent
<1>3. ASSUME NEW y \in End
      PROVE  /\ S[y][0] = 1
             /\ S[y][snd_nxt[y]] = written[y] - pend[y] + 1
             /\ \A q \in 0..snd_nxt[y] : S[y][q] <= written[y] - pend[y] + 1
             /\ fin_queued[y] => closed[y]
             /\ fin_segmented[y] => closed[y] /\ ~fin_queued[y] /\ pend[y] = 0 /\ snd_nxt[y] > 0
  BY DEF LayoutOK
<1>4. /\ T[e][0] = 1 /\ T[e][snd_nxt'[e]] = written'[e] - pend'[e] + 1
      /\ \A q \in 0..snd_nxt'[e] : T[e][q] <= written'[e] - pend'[e] + 1
  <2>1. 0 \in 0..snd_nxt[e] /\ S[e][0] = 1
    BY <1>0, <1>3
  <2>2. T[e][0] = 1
    BY <2>1 DEF Pumps
  <2>3. written'[e] = w
    BY <1>0
  <2> QED
    BY <1>1, <2>2, <2>3 DEF Spans, Reaches
<1>5. fin_queued'[e] => closed'[e]
  BY <1>1 DEF Closes
<1>6. ASSUME fin_segmented'[e]
      PROVE  closed'[e] /\ ~fin_queued'[e] /\ pend'[e] = 0 /\ snd_nxt'[e] > 0
  <2>1. CASE sent
    <3>1. closed'[e] /\ ~fin_queued'[e] /\ pend'[e] = 0 /\ n > 0
      BY <1>1, <1>2, <2>1 DEF Closes
    <3> QED
      BY <1>0, <1>1, <3>1
  <2>2. CASE ~sent
    <3>1. fin_segmented[e] /\ p = 0 /\ ~fin
      BY <1>1, <1>6, <2>2
    <3>2. n = 0
      BY <3>1 DEF Pumps
    <3>3. closed'[e] /\ ~fin_queued'[e] /\ snd_nxt[e] > 0
      BY <1>1, <1>3, <3>1 DEF Closes
    <3>4. Filled(p, n) = 0
      BY <1>0, <3>2, FilledType
    <3> QED
      BY <1>0, <1>1, <3>1, <3>2, <3>3, <3>4
  <2> QED
    BY <2>1, <2>2
<1>7. ASSUME NEW y \in End, y # e
      PROVE  /\ T[y] = S[y] /\ snd_nxt'[y] = snd_nxt[y] /\ written'[y] = written[y]
             /\ pend'[y] = pend[y] /\ fin_queued'[y] = fin_queued[y]
             /\ fin_segmented'[y] = fin_segmented[y] /\ (closed[y] => closed'[y])
  <2>1. T[y] = S[y]
    BY <1>7 DEF Pumps
  <2>2. written'[y] = written[y]
    BY <1>0, <1>7
  <2> QED
    BY <1>1, <1>7, <2>1, <2>2 DEF Closes
<1>8. ASSUME NEW y \in End
      PROVE  /\ T[y][0] = 1
             /\ T[y][snd_nxt'[y]] = written'[y] - pend'[y] + 1
             /\ \A q \in 0..snd_nxt'[y] : T[y][q] <= written'[y] - pend'[y] + 1
             /\ fin_queued'[y] => closed'[y]
             /\ fin_segmented'[y] =>
                  closed'[y] /\ ~fin_queued'[y] /\ pend'[y] = 0 /\ snd_nxt'[y] > 0
  <2>1. CASE y = e
    BY <1>4, <1>5, <1>6, <2>1
  <2>2. CASE y # e
    BY <1>3, <1>7, <2>2
  <2> QED
    BY <2>1, <2>2
<1> QED
  BY <1>8 DEF LayoutOK

\* A segment stays what it is when its end pumps more.
LEMMA PumpKeeps ==
  ASSUME TypeInv, NEW S \in Layouts, NEW T \in Layouts, NEW e \in End, NEW o, NEW n,
         Pumps(S, T, e, o, n), NEW y \in End, NEW q, NEW lo, NEW len, NEW fin,
         IsSeg(S[y], snd_nxt[y], fin_segmented[y], q, lo, len, fin)
  PROVE  IsSeg(T[y], snd_nxt'[y], fin_segmented'[y], q, lo, len, fin)
<1>0. snd_nxt[e] \in Nat /\ snd_nxt[y] \in Nat /\ n \in Nat
  BY DEF TypeInv, TypeOK, Pumps
<1>1. /\ q \in Nat /\ q < snd_nxt[y]
      /\ len = S[y][q + 1] - S[y][q]
      /\ len # 0 => lo = S[y][q]
      /\ fin <=> fin_segmented[y] /\ q = snd_nxt[y] - 1
  BY DEF IsSeg
<1>2. CASE y # e
  <2>1. T[y] = S[y] /\ snd_nxt'[y] = snd_nxt[y] /\ fin_segmented'[y] = fin_segmented[y]
    BY <1>2 DEF Pumps
  <2> QED
    BY <1>1, <2>1 DEF IsSeg
<1>3. CASE y = e
  <2>1. snd_nxt'[e] = snd_nxt[e] + n
    BY DEF Pumps
  <2>2. q \in 0..snd_nxt[e] /\ q + 1 \in 0..snd_nxt[e] /\ q < snd_nxt'[e]
    BY <1>0, <1>1, <1>3, <2>1
  <2>3. T[e][q] = S[e][q] /\ T[e][q + 1] = S[e][q + 1]
    BY <2>2 DEF Pumps
  <2>4. fin <=> fin_segmented'[e] /\ q = snd_nxt'[e] - 1
    <3>1. /\ fin_segmented[e] => n = 0
          /\ fin_segmented'[e] <=> fin_segmented[e] \/ (n > 0 /\ o[n].fin)
      BY DEF Pumps
    <3>2. CASE n = 0
      <4>1. snd_nxt'[e] = snd_nxt[e] /\ (fin_segmented'[e] <=> fin_segmented[e])
        BY <1>0, <2>1, <3>1, <3>2
      <4> QED
        BY <1>1, <1>3, <4>1
    <3>3. CASE n # 0
      <4>1. ~fin_segmented[e] /\ q # snd_nxt'[e] - 1
        BY <1>0, <1>1, <1>3, <2>1, <3>1, <3>3
      <4> QED
        BY <1>1, <1>3, <4>1
    <3> QED
      BY <3>2, <3>3
  <2> QED
    BY <1>1, <1>3, <2>2, <2>3, <2>4 DEF IsSeg
<1> QED
  BY <1>2, <1>3

\* The segments that go out are segments of the new layout.
LEMMA PumpAdds ==
  ASSUME TypeInv, NEW S \in Layouts, NEW T \in Layouts, NEW e \in End, NEW o, NEW n,
         Pumps(S, T, e, o, n), NEW j \in 1..n, NEW q, q = snd_nxt[e] + j - 1
  PROVE  IsSeg(T[e], snd_nxt'[e], fin_segmented'[e], q, o[j].lo, o[j].len, o[j].fin)
<1>0. snd_nxt[e] \in Nat /\ n \in Nat /\ snd_nxt'[e] = snd_nxt[e] + n
  BY DEF TypeInv, TypeOK, Pumps
<1>1. j \in Nat /\ q \in Nat /\ q + 1 = snd_nxt[e] + j /\ q < snd_nxt'[e]
      /\ (q = snd_nxt'[e] - 1 <=> j = n)
  BY <1>0
<1>2. /\ o[j].len = T[e][q + 1] - T[e][q]
      /\ o[j].len # 0 => o[j].lo = T[e][q]
      /\ o[j].fin => j = n
  BY <1>1 DEF Pumps
<1>3. /\ fin_segmented[e] => n = 0
      /\ fin_segmented'[e] <=> fin_segmented[e] \/ (n > 0 /\ o[n].fin)
  BY DEF Pumps
<1>4. o[j].fin <=> fin_segmented'[e] /\ j = n
  BY <1>0, <1>1, <1>2, <1>3
<1> QED
  BY <1>1, <1>2, <1>4 DEF IsSeg

\* The send windows after a step that pumps.
LEMMA PumpKeepsSend ==
  ASSUME TypeInv, NEW S \in Layouts, NEW T \in Layouts, NEW e \in End, NEW o, NEW n,
         Pumps(S, T, e, o, n), SendOK(S),
         snd_una' = snd_una, rcv_nxt' = rcv_nxt, rbuf' = rbuf
  PROVE  SendOK(T)'
<1>1. ASSUME NEW y \in End, NEW q \in snd_una[y]..snd_nxt[y]-1
      PROVE  /\ IsSeg(T[y], snd_nxt'[y], fin_segmented'[y], q,
                      sbuf[y][slot(q)].lo, sbuf[y][slot(q)].len, sbuf[y][slot(q)].fin)
             /\ sbuf[y][slot(q)].sacked => Held(rcv_nxt[Peer(y)], rbuf[Peer(y)], q)
             /\ sbuf'[y][slot(q)] = sbuf[y][slot(q)]
  <2>1. /\ IsSeg(S[y], snd_nxt[y], fin_segmented[y], q,
                 sbuf[y][slot(q)].lo, sbuf[y][slot(q)].len, sbuf[y][slot(q)].fin)
        /\ sbuf[y][slot(q)].sacked => Held(rcv_nxt[Peer(y)], rbuf[Peer(y)], q)
    BY DEF SendOK
  <2>2. sbuf'[y][slot(q)] = sbuf[y][slot(q)]
    BY DEF Pumps
  <2> QED
    BY <2>1, <2>2, PumpKeeps
<1>2. ASSUME NEW y \in End, NEW q \in snd_una'[y]..snd_nxt'[y]-1
      PROVE  /\ IsSeg(T[y], snd_nxt'[y], fin_segmented'[y], q,
                      sbuf'[y][slot(q)].lo, sbuf'[y][slot(q)].len, sbuf'[y][slot(q)].fin)
             /\ sbuf'[y][slot(q)].sacked => Held(rcv_nxt'[Peer(y)], rbuf'[Peer(y)], q)
  <2>0. snd_una[y] \in Nat /\ snd_nxt[y] \in Nat /\ n \in Nat /\ snd_una'[y] = snd_una[y]
    BY DEF TypeInv, TypeOK, Pumps
  <2>1. CASE q < snd_nxt[y]
    <3>1. q \in snd_una[y]..snd_nxt[y]-1
      BY <2>0, <2>1
    <3> QED
      BY <1>1, <3>1
  <2>2. CASE ~(q < snd_nxt[y])
    <3>1. y = e /\ snd_nxt'[e] = snd_nxt[e] + n
      BY <2>0, <2>2 DEF Pumps
    <3> DEFINE j == q - snd_nxt[e] + 1
    <3>2. j \in 1..n /\ q = snd_nxt[e] + j - 1
      BY <2>0, <2>2, <3>1
    <3> HIDE DEF j
    <3>3. sbuf'[e][slot(q)] = o[j] /\ ~o[j].sacked
      BY <3>2 DEF Pumps
    <3>4. IsSeg(T[e], snd_nxt'[e], fin_segmented'[e], q, o[j].lo, o[j].len, o[j].fin)
      BY <3>2, PumpAdds
    <3> QED
      BY <3>1, <3>3, <3>4
  <2> QED
    BY <2>1, <2>2
<1>3. \A y \in End : snd_una'[y] <= rcv_nxt'[Peer(y)]
  BY DEF SendOK
<1> QED
  BY <1>2, <1>3 DEF SendOK

\* The receive sides after a step that pumps.
LEMMA PumpKeepsRecv ==
  ASSUME TypeInv, NEW S \in Layouts, NEW T \in Layouts, NEW e \in End, NEW o, NEW n,
         Pumps(S, T, e, o, n), RecvOK(S), UNCHANGED <<rcv_nxt, rbuf, got, peer_fin>>
  PROVE  RecvOK(T)'
<1> SUFFICES ASSUME NEW y \in End, NEW p, p = Peer(y)
             PROVE  /\ rcv_nxt[y] <= snd_nxt'[p]
                    /\ got[y] = [i \in 1..(T[p][rcv_nxt[y]] - 1) |-> i]
                    /\ peer_fin[y] <=> fin_segmented'[p] /\ rcv_nxt[y] = snd_nxt'[p]
                    /\ \A i \in Slots : rbuf[y][i] # NoSeg =>
                         SlotOK(T[p], snd_nxt'[p], fin_segmented'[p], rcv_nxt[y], i, rbuf[y][i])
  BY DEF RecvOK
<1>0. p \in End /\ snd_nxt[p] \in Nat /\ rcv_nxt[y] \in Nat /\ n \in Nat /\ snd_nxt[e] \in Nat
  BY Peers DEF TypeInv, TypeOK, Pumps
<1>1. /\ rcv_nxt[y] <= snd_nxt[p]
      /\ got[y] = [i \in 1..(S[p][rcv_nxt[y]] - 1) |-> i]
      /\ peer_fin[y] <=> fin_segmented[p] /\ rcv_nxt[y] = snd_nxt[p]
      /\ \A i \in Slots : rbuf[y][i] # NoSeg =>
           SlotOK(S[p], snd_nxt[p], fin_segmented[p], rcv_nxt[y], i, rbuf[y][i])
  BY DEF RecvOK
<1>2. rcv_nxt[y] <= snd_nxt'[p] /\ T[p][rcv_nxt[y]] = S[p][rcv_nxt[y]]
      /\ (peer_fin[y] <=> fin_segmented'[p] /\ rcv_nxt[y] = snd_nxt'[p])
  <2>1. CASE p = e
    <3>1. snd_nxt'[e] = snd_nxt[e] + n
      BY DEF Pumps
    <3>2. rcv_nxt[y] \in 0..snd_nxt[e]
      BY <1>0, <1>1, <2>1
    <3>3. T[e][rcv_nxt[y]] = S[e][rcv_nxt[y]]
      BY <3>2 DEF Pumps
    <3>4. /\ fin_segmented[e] => n = 0
          /\ fin_segmented'[e] <=> fin_segmented[e] \/ (n > 0 /\ o[n].fin)
      BY DEF Pumps
    <3>5. peer_fin[y] <=> fin_segmented'[p] /\ rcv_nxt[y] = snd_nxt'[p]
      <4>1. CASE n = 0
        BY <1>0, <1>1, <2>1, <3>1, <3>4, <4>1
      <4>2. CASE n # 0
        <5>1. ~fin_segmented[e] /\ rcv_nxt[y] # snd_nxt'[e]
          BY <1>0, <1>1, <2>1, <3>1, <3>4, <4>2
        <5> QED
          BY <1>1, <2>1, <5>1
      <4> QED
        BY <4>1, <4>2
    <3>6. rcv_nxt[y] <= snd_nxt'[e]
      BY <1>0, <1>1, <2>1, <3>1
    <3> QED
      BY <2>1, <3>3, <3>5, <3>6
  <2>2. CASE p # e
    <3>1. T[p] = S[p] /\ snd_nxt'[p] = snd_nxt[p] /\ fin_segmented'[p] = fin_segmented[p]
      BY <1>0, <2>2 DEF Pumps
    <3> QED
      BY <1>1, <3>1
  <2> QED
    BY <2>1, <2>2
<1>3. ASSUME NEW i \in Slots, rbuf[y][i] # NoSeg
      PROVE  SlotOK(T[p], snd_nxt'[p], fin_segmented'[p], rcv_nxt[y], i, rbuf[y][i])
  <2>1. SlotOK(S[p], snd_nxt[p], fin_segmented[p], rcv_nxt[y], i, rbuf[y][i])
    BY <1>1, <1>3
  <2>2. IsSeg(S[p], snd_nxt[p], fin_segmented[p], rbuf[y][i].seq,
              rbuf[y][i].lo, rbuf[y][i].len, rbuf[y][i].fin)
    BY <2>1 DEF SlotOK
  <2>3. IsSeg(T[p], snd_nxt'[p], fin_segmented'[p], rbuf[y][i].seq,
              rbuf[y][i].lo, rbuf[y][i].len, rbuf[y][i].fin)
    BY <1>0, <2>2, PumpKeeps
  <2> QED
    BY <2>1, <2>3 DEF SlotOK
<1> QED
  BY <1>1, <1>2, <1>3

\* A datagram stays true when an end pumps more.
LEMMA PumpKeepsMsg ==
  ASSUME TypeInv, NEW S \in Layouts, NEW T \in Layouts, NEW e \in End, NEW o, NEW n,
         Pumps(S, T, e, o, n), NEW y \in End, NEW m,
         MsgOK(S[y], snd_nxt[y], fin_segmented[y], rcv_nxt[y], rbuf[y], m)
  PROVE  MsgOK(T[y], snd_nxt'[y], fin_segmented'[y], rcv_nxt[y], rbuf[y], m)
<1>1. ASSUME m.kind # "ack"
      PROVE  IsSeg(T[y], snd_nxt'[y], fin_segmented'[y], m.seq, m.lo, m.len, m.kind = "fin")
  <2> DEFINE fin == m.kind = "fin"
  <2>1. IsSeg(S[y], snd_nxt[y], fin_segmented[y], m.seq, m.lo, m.len, fin)
    BY <1>1 DEF MsgOK
  <2> HIDE DEF fin
  <2>2. IsSeg(T[y], snd_nxt'[y], fin_segmented'[y], m.seq, m.lo, m.len, fin)
    BY <2>1, PumpKeeps
  <2> QED
    BY <2>2 DEF fin
<1> QED
  BY <1>1 DEF MsgOK

\* A segment of the layout goes out as a true datagram.
LEMMA SegMsgOK ==
  ASSUME NEW e \in End, NEW f, NEW x, NEW over, NEW next, NEW buf, rcv_nxt[e] <= next,
         NEW s \in Segment, IsSeg(f, x, over, s.seq, s.lo, s.len, s.fin)
  PROVE  MsgOK(f, x, over, next, buf, SegMsg(e, s))
<1> DEFINE m == SegMsg(e, s)
<1>1. /\ m.ack = rcv_nxt[e] /\ m.sack = {} /\ m.seq = s.seq /\ m.lo = s.lo /\ m.len = s.len
      /\ m.kind = IF s.fin THEN "fin" ELSE "data"
  BY DEF SegMsg
<1> HIDE DEF m
<1>2. s.fin \in BOOLEAN
  BY DEF Segment
<1>3. (m.kind = "fin") <=> s.fin
  BY <1>1, <1>2
<1>4. IsSeg(f, x, over, m.seq, m.lo, m.len, m.kind = "fin")
  BY <1>1, <1>3 DEF IsSeg
<1>5. MsgOK(f, x, over, next, buf, m)
  BY <1>1, <1>4 DEF MsgOK
<1> QED
  BY <1>5 DEF m

\* What e puts on the wire is what it has outstanding.
Sends(e) ==
  /\ \A y \in End \ {Peer(e)} : net'[y] = net[y]
  /\ \A m \in net'[Peer(e)] :
       m \in net[Peer(e)] \/ \E q \in snd_una'[e]..snd_nxt'[e]-1 : m = SegMsg(e, sbuf'[e][slot(q)])

\* The datagrams after a step that pumps.
LEMMA PumpKeepsNet ==
  ASSUME TypeInv, TypeInv', NEW S \in Layouts, NEW T \in Layouts, NEW e \in End, NEW o, NEW n,
         Pumps(S, T, e, o, n), NetOK(S), SendOK(T)', Sends(e),
         rcv_nxt' = rcv_nxt, rbuf' = rbuf
  PROVE  NetOK(T)'
<1> SUFFICES ASSUME NEW y \in End, NEW m \in net'[Peer(y)]
             PROVE  MsgOK(T[y], snd_nxt'[y], fin_segmented'[y], rcv_nxt[y], rbuf[y], m)
  BY DEF NetOK
<1>0. Peer(y) \in End /\ Peer(e) \in End /\ Peer(Peer(y)) = y /\ Peer(Peer(e)) = e
  BY Peers
<1>1. CASE m \in net[Peer(y)]
  <2>1. MsgOK(S[y], snd_nxt[y], fin_segmented[y], rcv_nxt[y], rbuf[y], m)
    BY <1>1 DEF NetOK
  <2> QED
    BY <2>1, PumpKeepsMsg
<1>2. CASE m \notin net[Peer(y)]
  <2>1. Peer(y) = Peer(e)
    BY <1>0, <1>2 DEF Sends
  <2>2. y = e
    BY <1>0, <2>1
  <2>3. PICK q \in snd_una'[e]..snd_nxt'[e]-1 : m = SegMsg(e, sbuf'[e][slot(q)])
    BY <1>2, <2>2 DEF Sends
  <2>4. PICK s : s = sbuf'[e][slot(q)]
    OBVIOUS
  <2>5. s \in Segment /\ s.seq = q
    BY <2>4 DEF TypeInv, SendSlots
  <2>6. IsSeg(T[e], snd_nxt'[e], fin_segmented'[e], q, s.lo, s.len, s.fin)
    BY <2>4 DEF SendOK
  <2>7. rcv_nxt[e] <= rcv_nxt[e]
    BY DEF TypeInv, TypeOK
  <2>8. MsgOK(T[e], snd_nxt'[e], fin_segmented'[e], rcv_nxt[e], rbuf[e], SegMsg(e, s))
    BY <2>5, <2>6, <2>7, SegMsgOK
  <2> QED
    BY <2>2, <2>3, <2>4, <2>8
<1> QED
  BY <1>1, <1>2

\* A step that calls pump_send, and changes only the send side.
LEMMA PumpKeepsInv ==
  ASSUME TypeInv, TypeInv', NEW S \in Layouts, Laid(S), NEW e \in End,
         NEW w, NEW p, NEW fin, NEW lo, NEW o, NEW n, Pumping(e, w, p, fin, lo, o, n),
         Reaches(S, e, snd_nxt[e], lo), fin_segmented[e] => p = 0 /\ ~fin,
         written' = [written EXCEPT ![e] = w],
         Closes(e, fin),
         UNCHANGED <<snd_una, recvVars>>, Sends(e)
  PROVE  \E T \in Layouts : Laid(T)'
<1>1. PICK T \in Layouts : Pumps(S, T, e, o, n) /\ Spans(T, e, w, n)
  BY PumpStep
<1>2. LayoutOK(T)'
  <2>1. LayoutOK(S)
    BY DEF Laid
  <2> QED
    BY <1>1, <2>1, PumpKeepsLayout
<1>3. /\ snd_una' = snd_una /\ rcv_nxt' = rcv_nxt /\ rbuf' = rbuf
      /\ UNCHANGED <<rcv_nxt, rbuf, got, peer_fin>>
  BY DEF recvVars
<1>4. SendOK(T)'
  BY <1>1, <1>3, PumpKeepsSend DEF Laid
<1>5. RecvOK(T)'
  BY <1>1, <1>3, PumpKeepsRecv DEF Laid
<1>6. NetOK(T)'
  BY <1>1, <1>3, <1>4, PumpKeepsNet DEF Laid
<1> QED
  BY <1>2, <1>4, <1>5, <1>6 DEF Laid

\* The segments of A are outstanding after the step.
Outstanding(e, A) == \A s \in A : \E q \in snd_una'[e]..snd_nxt'[e]-1 : s = sbuf'[e][slot(q)]

\* The channel takes the segments of A from e, and may lose any.
Carried(e, A) ==
  \E X \in Carry(net[Peer(e)], {SegMsg(e, s) : s \in A}) : net' = [net EXCEPT ![Peer(e)] = X]

\* What pump_send puts out is outstanding afterwards.
LEMMA PumpSends ==
  ASSUME TypeInv, TypeInv', NEW e \in End, NEW w, NEW p, NEW fin, NEW lo, NEW o, NEW n,
         Pumping(e, w, p, fin, lo, o, n), snd_una' = snd_una,
         NEW A, Outstanding(e, A), Carried(e, Segs(o) \cup A)
  PROVE  Sends(e)
<1>0. /\ snd_una[e] \in Nat /\ snd_nxt[e] \in Nat /\ snd_una[e] <= snd_nxt[e] /\ n \in Nat
      /\ n = Len(o)
  BY PumpingType DEF TypeInv, TypeOK, SendSlots, Pumping
<1>1. ASSUME NEW s \in Segs(o)
      PROVE  \E q \in snd_una'[e]..snd_nxt'[e]-1 : s = sbuf'[e][slot(q)]
  <2>1. PICK j \in 1..n : s = o[j]
    BY <1>0 DEF Segs
  <2>2. snd_nxt'[e] = snd_nxt[e] + n /\ sbuf'[e][slot(snd_nxt[e] + j - 1)] = o[j]
    <3>1. PumpEffect(e, p, fin, o, n)
      BY PumpingEffect
    <3> QED
      BY <3>1 DEF PumpEffect
  <2> DEFINE q == snd_nxt[e] + j - 1
  <2>3. q \in snd_una'[e]..snd_nxt'[e]-1
    BY <1>0, <2>2
  <2> QED
    BY <2>1, <2>2, <2>3
<1>2. PICK X \in Carry(net[Peer(e)], {SegMsg(e, s) : s \in Segs(o) \cup A}) :
        net' = [net EXCEPT ![Peer(e)] = X]
  BY DEF Carried
<1>3. X \subseteq net[Peer(e)] \cup {SegMsg(e, s) : s \in Segs(o) \cup A}
  BY DEF Carry
<1>4. net'[Peer(e)] = X /\ \A y \in End \ {Peer(e)} : net'[y] = net[y]
  BY <1>2, Peers DEF TypeInv, TypeOK
<1>5. ASSUME NEW m \in X, m \notin net[Peer(e)]
      PROVE  \E q \in snd_una'[e]..snd_nxt'[e]-1 : m = SegMsg(e, sbuf'[e][slot(q)])
  <2>1. PICK s \in Segs(o) \cup A : m = SegMsg(e, s)
    BY <1>3, <1>5
  <2>2. PICK q \in snd_una'[e]..snd_nxt'[e]-1 : s = sbuf'[e][slot(q)]
    BY <1>1 DEF Outstanding
  <2> QED
    BY <2>1, <2>2
<1> QED
  BY <1>4, <1>5 DEF Sends

\* The pending bytes come right after the ones laid out.
LEMMA LaidReaches ==
  ASSUME NEW S \in Layouts, Laid(S), NEW e \in End, NEW lo, lo = written[e] - pend[e] + 1
  PROVE  Reaches(S, e, snd_nxt[e], lo)
BY DEF Laid, LayoutOK, Reaches

\* stream_write keeps the layout.
LEMMA WriteInv ==
  ASSUME TypeInv, TypeInv', NEW S \in Layouts, Laid(S), NEW e \in End, NEW x \in 1..MaxBytes,
         Write(e, x)
  PROVE  \E T \in Layouts : Laid(T)'
<1>0. /\ PEND_CAP \in Nat /\ pend[e] \in 0..PEND_CAP /\ written[e] \in Nat /\ pend[e] <= written[e]
      /\ fin_queued[e] \in BOOLEAN /\ MaxBytes \in Nat /\ closed \in [End -> BOOLEAN]
  BY Sizes, StreamAssumption DEF TypeInv, TypeOK, SendSlots
<1>1. PICK k : k = Least(x, PEND_CAP - pend[e])
  OBVIOUS
<1>2. PICK w : w = written[e] + k
  OBVIOUS
<1>3. PICK p : p = pend[e] + k
  OBVIOUS
<1>4. PICK fin : fin = fin_queued[e]
  OBVIOUS
<1>5. PICK lo : lo = written[e] - pend[e] + 1
  OBVIOUS
<1>6. PICK o : o = Pumped(e, p, lo, fin)
  OBVIOUS
<1>7. PICK n : n = Len(o)
  OBVIOUS
<1>8. /\ ~closed[e] /\ written' = [written EXCEPT ![e] = @ + k]
      /\ pump_send(e, w, p, fin)
      /\ \E X \in Carry(net[Peer(e)], {SegMsg(e, s) : s \in Segs(o)}) :
           net' = [net EXCEPT ![Peer(e)] = X]
      /\ UNCHANGED <<closed, snd_una, dupacks, cwnd, ssthresh, cwnd_cnt, peer_rwnd, recvVars>>
  BY <1>1, <1>2, <1>3, <1>4, <1>5, <1>6 DEF Write
<1>9. k \in Nat /\ k <= PEND_CAP - pend[e]
  BY <1>0, <1>1 DEF Least
<1>10. w \in Nat /\ p \in 0..PEND_CAP /\ p <= w /\ fin \in BOOLEAN /\ lo = w - p + 1
  BY <1>0, <1>2, <1>3, <1>4, <1>5, <1>9
<1>11. Pumping(e, w, p, fin, lo, o, n)
  BY <1>6, <1>7, <1>8, <1>10 DEF Pumping
<1>12. Reaches(S, e, snd_nxt[e], lo)
  BY <1>5, LaidReaches
<1>13. /\ fin_segmented[e] => p = 0 /\ ~fin
       /\ Closes(e, fin)
  <2>1. (fin_segmented[e] => closed[e]) /\ (fin_queued[e] => closed[e])
    BY DEF Laid, LayoutOK
  <2> QED
    BY <1>4, <1>8, <2>1 DEF Closes
<1>14. written' = [written EXCEPT ![e] = w] /\ UNCHANGED <<snd_una, recvVars>> /\ snd_una' = snd_una
  BY <1>0, <1>2, <1>8
<1>15. Sends(e)
  <2>1. Segs(o) = Segs(o) \cup {}
    OBVIOUS
  <2>2. Carried(e, Segs(o) \cup {})
    BY <1>8, <2>1 DEF Carried
  <2>3. Outstanding(e, {})
    BY DEF Outstanding
  <2> QED
    BY <1>11, <1>14, <2>2, <2>3, PumpSends
<1> QED
  BY <1>11, <1>12, <1>13, <1>14, <1>15, PumpKeepsInv

\* stream_finish keeps the layout.
LEMMA FinishInv ==
  ASSUME TypeInv, TypeInv', NEW S \in Layouts, Laid(S), NEW e \in End, Finish(e)
  PROVE  \E T \in Layouts : Laid(T)'
<1>0. /\ pend[e] \in 0..PEND_CAP /\ written[e] \in Nat /\ pend[e] <= written[e] /\ PEND_CAP \in Nat
      /\ closed \in [End -> BOOLEAN] /\ written \in [End -> Nat]
  BY Sizes DEF TypeInv, TypeOK, SendSlots
<1>1. PICK w : w = written[e]
  OBVIOUS
<1>2. PICK p : p = pend[e]
  OBVIOUS
<1>3. PICK lo : lo = written[e] - pend[e] + 1
  OBVIOUS
<1>4. PICK o : o = Pumped(e, p, lo, TRUE)
  OBVIOUS
<1>5. PICK n : n = Len(o)
  OBVIOUS
<1>6. /\ ~closed[e] /\ closed' = [closed EXCEPT ![e] = TRUE]
      /\ pump_send(e, w, p, TRUE)
      /\ \E X \in Carry(net[Peer(e)], {SegMsg(e, s) : s \in Segs(o)}) :
           net' = [net EXCEPT ![Peer(e)] = X]
      /\ UNCHANGED <<written, snd_una, dupacks, cwnd, ssthresh, cwnd_cnt, peer_rwnd, recvVars>>
  BY <1>1, <1>2, <1>3, <1>4 DEF Finish
<1>7. w \in Nat /\ p \in 0..PEND_CAP /\ p <= w /\ lo = w - p + 1
  BY <1>0, <1>1, <1>2, <1>3
<1>8. Pumping(e, w, p, TRUE, lo, o, n)
  BY <1>4, <1>5, <1>6, <1>7 DEF Pumping
<1>9. Reaches(S, e, snd_nxt[e], lo)
  BY <1>3, LaidReaches
<1>10. ~fin_segmented[e] /\ Closes(e, TRUE)
  <2>1. fin_segmented[e] => closed[e]
    BY DEF Laid, LayoutOK
  <2> QED
    BY <1>0, <1>6, <2>1 DEF Closes
<1>11. written' = [written EXCEPT ![e] = w] /\ UNCHANGED <<snd_una, recvVars>> /\ snd_una' = snd_una
  BY <1>0, <1>1, <1>6
<1>12. Sends(e)
  <2>1. Segs(o) = Segs(o) \cup {}
    OBVIOUS
  <2>2. Carried(e, Segs(o) \cup {})
    BY <1>6, <2>1 DEF Carried
  <2>3. Outstanding(e, {})
    BY DEF Outstanding
  <2> QED
    BY <1>8, <1>11, <2>2, <2>3, PumpSends
<1> QED
  BY <1>8, <1>9, <1>10, <1>11, <1>12, PumpKeepsInv

\* stream_tick keeps the layout.
LEMMA TickInv ==
  ASSUME TypeInv, TypeInv', NEW S \in Layouts, Laid(S), NEW e \in End, NEW due \in BOOLEAN,
         Tick(e, due)
  PROVE  \E T \in Layouts : Laid(T)'
<1>0. /\ pend[e] \in 0..PEND_CAP /\ written[e] \in Nat /\ pend[e] <= written[e] /\ PEND_CAP \in Nat
      /\ closed \in [End -> BOOLEAN] /\ written \in [End -> Nat] /\ fin_queued[e] \in BOOLEAN
      /\ snd_una[e] \in Nat /\ snd_nxt'[e] \in Nat
  BY Sizes DEF TypeInv, TypeOK, SendSlots
<1>1. PICK w : w = written[e]
  OBVIOUS
<1>2. PICK p : p = pend[e]
  OBVIOUS
<1>3. PICK lo : lo = written[e] - pend[e] + 1
  OBVIOUS
<1>4. PICK fin : fin = fin_queued[e]
  OBVIOUS
<1>5. PICK o : o = Pumped(e, p, lo, fin)
  OBVIOUS
<1>6. PICK n : n = Len(o)
  OBVIOUS
<1>7. PICK A : A = IF due THEN Unacked(sbuf'[e], snd_una[e], snd_nxt'[e]) ELSE {}
  OBVIOUS
<1>8. /\ pump_send(e, w, p, fin)
      /\ \E X \in Carry(net[Peer(e)], {SegMsg(e, s) : s \in Segs(o) \cup A}) :
           net' = [net EXCEPT ![Peer(e)] = X]
      /\ UNCHANGED <<written, closed, snd_una, dupacks, peer_rwnd, recvVars>>
  BY <1>1, <1>2, <1>3, <1>4, <1>5, <1>7 DEF Tick, TickSegs
<1>9. w \in Nat /\ p \in 0..PEND_CAP /\ p <= w /\ lo = w - p + 1 /\ fin \in BOOLEAN
  BY <1>0, <1>1, <1>2, <1>3, <1>4
<1>10. Pumping(e, w, p, fin, lo, o, n)
  BY <1>5, <1>6, <1>8, <1>9 DEF Pumping
<1>11. Reaches(S, e, snd_nxt[e], lo)
  BY <1>3, LaidReaches
<1>12. (fin_segmented[e] => p = 0 /\ ~fin) /\ Closes(e, fin)
  <2>1. /\ fin_segmented[e] => ~fin_queued[e] /\ pend[e] = 0
        /\ fin_queued[e] => closed[e]
    BY DEF Laid, LayoutOK
  <2> QED
    BY <1>2, <1>4, <1>8, <2>1 DEF Closes
<1>13. written' = [written EXCEPT ![e] = w] /\ UNCHANGED <<snd_una, recvVars>> /\ snd_una' = snd_una
  BY <1>0, <1>1, <1>8
<1>14. Outstanding(e, A)
  BY <1>7, <1>13 DEF Unacked, Outstanding
<1>15. Sends(e)
  <2>1. Carried(e, Segs(o) \cup A)
    BY <1>8 DEF Carried
  <2> QED
    BY <1>10, <1>13, <1>14, <2>1, PumpSends
<1> QED
  BY <1>10, <1>11, <1>12, <1>13, <1>15, PumpKeepsInv

\* stream_read keeps the layout: it changes nothing the layout is about.
LEMMA ReadInv ==
  ASSUME NEW S \in Layouts, Laid(S), NEW e \in End, NEW n \in 1..DELIV_CAP, Read(e, n)
  PROVE  Laid(S)'
<1>1. UNCHANGED <<written, closed, pend, fin_queued, fin_segmented, sbuf, snd_una, snd_nxt,
                  rbuf, rcv_nxt, peer_fin, got, net>>
  BY DEF Read, sendVars
<1> QED
  BY <1>1 DEF Laid, LayoutOK, SendOK, RecvOK, NetOK

\* The receive side of an end, with the layout f of the direction towards it.
RecvEndOK(f, x, over, next, buf, bytes, over2) ==
  /\ next <= x
  /\ bytes = [i \in 1..(f[next] - 1) |-> i]
  /\ over2 <=> over /\ next = x
  /\ \A i \in Slots : buf[i] # NoSeg => SlotOK(f, x, over, next, i, buf[i])

\* All its reassembly slots.
SlotsOK(f, x, over, next, buf) ==
  \A i \in Slots : buf[i] # NoSeg => SlotOK(f, x, over, next, i, buf[i])

\* A datagram carries a segment of the layout.
Carries(f, x, over, m) == IsSeg(f, x, over, m.seq, m.lo, m.len, m.kind = "fin")

\* What an end had, it still has.
StillHeld(next, buf, next2, buf2) ==
  next <= next2 /\ \A q \in Nat : Held(next, buf, q) => Held(next2, buf2, q)

\* The reassembly slots stay sound when a segment of the layout is put into one.
LEMMA BufferedOK ==
  ASSUME TypeOK, NEW e \in End, NEW m \in Datagram, NEW f, NEW x, NEW over,
         Carries(f, x, over, m), SlotsOK(f, x, over, rcv_nxt[e], rbuf[e]),
         NEW buf, buf = Buffered(e, m)
  PROVE  /\ SlotsOK(f, x, over, rcv_nxt[e], buf)
         /\ \A i \in Slots : rbuf[e][i] # NoSeg => buf[i] = rbuf[e][i]
<1>1. PICK s : s = Seg(m.seq, m.lo, m.len, m.kind = "fin")
  OBVIOUS
<1>2. /\ s \in Segment
      /\ s.seq = m.seq /\ s.lo = m.lo /\ s.len = m.len /\ (s.fin <=> m.kind = "fin")
      /\ \/ buf = rbuf[e]
         \/ /\ m.seq \in rcv_nxt[e]..rcv_nxt[e]+W-1 /\ rbuf[e][slot(m.seq)] = NoSeg
            /\ \A i \in Slots : buf[i] = IF i = slot(m.seq) THEN s ELSE rbuf[e][i]
  BY <1>1, BufferedSpec
<1>3. rcv_nxt[e] \in Nat /\ W \in Nat /\ m.seq \in Nat
  BY Sizes DEF TypeOK, Datagram
<1>4. CASE buf = rbuf[e]
  BY <1>4
<1>5. CASE /\ m.seq \in rcv_nxt[e]..rcv_nxt[e]+W-1 /\ rbuf[e][slot(m.seq)] = NoSeg
           /\ \A i \in Slots : buf[i] = IF i = slot(m.seq) THEN s ELSE rbuf[e][i]
  <2>1. IsSeg(f, x, over, s.seq, s.lo, s.len, s.fin)
    BY <1>2 DEF IsSeg, Carries
  <2>2. m.seq >= rcv_nxt[e] /\ m.seq < rcv_nxt[e] + W
    BY <1>3, <1>5
  <2>3. SlotOK(f, x, over, rcv_nxt[e], slot(m.seq), s)
    BY <1>2, <2>1, <2>2 DEF SlotOK
  <2> QED
    BY <1>5, <2>3 DEF SlotsOK
<1> QED
  BY <1>2, <1>4, <1>5

\* The bytes of a run, behind the bytes below the first of them.
LEMMA BytesJoin ==
  ASSUME NEW a \in Nat \ {0}, NEW b \in Nat, a <= b
  PROVE  [i \in 1..(a - 1) |-> i] \o [i \in 1..(b - a) |-> a + i - 1] = [i \in 1..(b - 1) |-> i]
<1> DEFINE s == [i \in 1..(a - 1) |-> i]
           t == [i \in 1..(b - a) |-> a + i - 1]
           u == [i \in 1..(b - 1) |-> i]
<1>0. a - 1 \in Nat /\ b - a \in Nat /\ b - 1 \in Nat
  OBVIOUS
<1>1. s \in Seq(Nat) /\ Len(s) = a - 1 /\ \A i \in 1..(a - 1) : s[i] = i
  BY <1>0
<1>2. t \in Seq(Nat) /\ Len(t) = b - a /\ \A i \in 1..(b - a) : t[i] = a + i - 1
  BY <1>0
<1>3. u \in Seq(Nat) /\ Len(u) = b - 1 /\ \A i \in 1..(b - 1) : u[i] = i
  BY <1>0
<1> HIDE DEF s, t, u
<1>4. s \o t \in Seq(Nat) /\ Len(s \o t) = b - 1
  <2>1. s \o t \in Seq(Nat) /\ Len(s \o t) = Len(s) + Len(t)
    BY <1>1, <1>2, ConcatProperties
  <2>2. Len(s) + Len(t) = b - 1
    BY <1>0, <1>1, <1>2
  <2> QED
    BY <2>1, <2>2
<1>5. ASSUME NEW i \in 1..(b - 1) PROVE (s \o t)[i] = u[i]
  <2>1. CASE i <= a - 1
    BY <1>0, <1>1, <1>2, <1>3, <2>1, ConcatProperties
  <2>2. CASE ~(i <= a - 1)
    <3> DEFINE j == i - (a - 1)
    <3>1. j \in 1..(b - a) /\ a + j - 1 = i
      BY <1>0, <2>2
    <3>2. (s \o t)[i] = t[j]
      BY <1>0, <1>1, <1>2, <2>2, ConcatProperties
    <3> HIDE DEF j
    <3> QED
      BY <1>2, <1>3, <3>1, <3>2
  <2> QED
    BY <2>1, <2>2
<1>6. s \o t = u
  BY <1>3, <1>4, <1>5, SeqEqual
<1> QED
  BY <1>6 DEF s, t, u

\* The delivery loop takes the k segments of run, from next on.
IsRun(buf, next, run, k) ==
  /\ run \in Seq(Segment) /\ k = Len(run) /\ k \in 0..W
  /\ \A j \in 1..k : /\ run[j] \in Segment /\ run[j] = buf[slot(next + j - 1)]
                     /\ run[j].seq = next + j - 1

\* The slots without those of the run.
Leaves(buf, run, k, buf2) ==
  \A i \in Slots : buf2[i] = IF \E j \in 1..k : slot(run[j].seq) = i THEN NoSeg ELSE buf[i]

\* Delivering the run: the bytes stay those of the segments below, and the FIN is reported
\* in its turn.
Delivered(f, x, over, next, bytes, over2, run, k) ==
  /\ next + k <= x
  /\ bytes \o Payload(run) = [i \in 1..(f[next + k] - 1) |-> i]
  /\ (over2 \/ \E j \in 1..k : run[j].fin) <=> over /\ next + k = x

\* The segments of a run are the next ones of the layout.
LEMMA RunSegs ==
  ASSUME NEW f, NEW x, NEW over, NEW next \in Nat, NEW buf,
         SlotsOK(f, x, over, next, buf),
         NEW run, NEW k, IsRun(buf, next, run, k)
  PROVE  \A j \in 1..k : IsSeg(f, x, over, next + j - 1, run[j].lo, run[j].len, run[j].fin)
<1> SUFFICES ASSUME NEW j \in 1..k
             PROVE  IsSeg(f, x, over, next + j - 1, run[j].lo, run[j].len, run[j].fin)
  OBVIOUS
<1>0. k \in Nat /\ W \in Nat
  BY Sizes DEF IsRun
<1>1. PICK q : q = next + j - 1
  OBVIOUS
<1>2. q \in Nat
  BY <1>0, <1>1
<1>3. run[j] \in Segment /\ run[j] = buf[slot(q)] /\ run[j].seq = q
  BY <1>1 DEF IsRun
<1>4. slot(q) \in Slots
  BY <1>2, SlotType
<1>5. buf[slot(q)] # NoSeg
  BY <1>3, NoSegAssumption
<1>6. SlotOK(f, x, over, next, slot(q), run[j])
  BY <1>3, <1>4, <1>5 DEF SlotsOK
<1> QED
  BY <1>1, <1>3, <1>6 DEF SlotOK

\* Delivering a run: the bytes stay those of the segments below rcv_nxt, and the FIN is
\* reported in its turn.
LEMMA RunDelivers ==
  ASSUME NEW f \in [Nat -> Nat \ {0}], NEW x \in Nat, NEW over \in BOOLEAN, NEW next \in Nat,
         NEW buf, NEW bytes, NEW over2 \in BOOLEAN, RecvEndOK(f, x, over, next, buf, bytes, over2),
         NEW run, NEW k, IsRun(buf, next, run, k)
  PROVE  Delivered(f, x, over, next, bytes, over2, run, k)
<1>0. k \in Nat /\ run \in Seq(Segment) /\ k = Len(run) /\ next <= x
  BY Sizes DEF IsRun, RecvEndOK
<1>1. \A j \in 1..k : IsSeg(f, x, over, next + j - 1, run[j].lo, run[j].len, run[j].fin)
  <2>1. SlotsOK(f, x, over, next, buf)
    BY DEF RecvEndOK, SlotsOK
  <2> QED
    BY <2>1, RunSegs
<1>2. next + k <= x
  <2>1. CASE k = 0
    BY <1>0, <2>1
  <2>2. CASE k # 0
    <3>1. k \in 1..k
      BY <1>0, <2>2
    <3>2. next + k - 1 < x
      BY <1>1, <3>1 DEF IsSeg
    <3> QED
      BY <1>0, <3>2
  <2> QED
    BY <2>1, <2>2
<1>3. bytes \o Payload(run) = [i \in 1..(f[next + k] - 1) |-> i]
  <2>1. \A j \in 1..Len(run) : /\ run[j].len = f[next + j] - f[next + j - 1]
                               /\ run[j].len # 0 => run[j].lo = f[next + j - 1]
    <3> SUFFICES ASSUME NEW j \in 1..k
                 PROVE  /\ run[j].len = f[next + j] - f[next + j - 1]
                        /\ run[j].len # 0 => run[j].lo = f[next + j - 1]
      BY <1>0
    <3>1. (next + j - 1) + 1 = next + j
      BY <1>0
    <3> QED
      BY <1>1, <3>1 DEF IsSeg
  <2>2. f \in [Nat -> Nat]
    OBVIOUS
  <2>3. /\ Total(run) = f[next + Len(run)] - f[next]
        /\ Payload(run) = [i \in 1..(f[next + Len(run)] - f[next]) |-> f[next] + i - 1]
    BY <1>0, <2>1, <2>2, PayloadBytes
  <2>4. Total(run) \in Nat
    BY <1>0, PayloadType, LensType
  <2>5. PICK a : a = f[next]
    OBVIOUS
  <2>6. PICK b : b = f[next + k]
    OBVIOUS
  <2>7. a \in Nat \ {0} /\ b \in Nat /\ a <= b
    <3>1. next + k \in Nat
      BY <1>0
    <3>2. a \in Nat \ {0} /\ b \in Nat
      BY <2>5, <2>6, <3>1
    <3>3. Total(run) = b - a
      BY <1>0, <2>3, <2>5, <2>6
    <3> QED
      BY <2>4, <3>2, <3>3
  <2>8. Payload(run) = [i \in 1..(b - a) |-> a + i - 1] /\ bytes = [i \in 1..(a - 1) |-> i]
    BY <1>0, <2>3, <2>5, <2>6 DEF RecvEndOK
  <2> QED
    BY <2>6, <2>7, <2>8, BytesJoin
<1>4. (over2 \/ \E j \in 1..k : run[j].fin) <=> over /\ next + k = x
  <2>0. ASSUME NEW j \in 1..k, next + j - 1 = x - 1 PROVE next + k = x
    <3>1. k \in Nat /\ j \in Nat /\ j <= k
      BY <1>0
    <3> QED
      BY <1>2, <2>0, <3>1
  <2>1. over2 <=> over /\ next = x
    BY DEF RecvEndOK
  <2>2. CASE k = 0
    <3>1. next + k = next /\ ~\E j \in 1..k : run[j].fin
      BY <2>2
    <3> QED
      BY <2>1, <3>1
  <2>3. CASE k # 0
    <3>1. next # x /\ k \in 1..k
      BY <1>0, <1>2, <2>3
    <3>2. ~over2
      BY <2>1, <3>1
    <3>3. ASSUME NEW j \in 1..k, run[j].fin PROVE over /\ next + k = x
      <4>1. over /\ next + j - 1 = x - 1
        BY <1>1, <3>3 DEF IsSeg
      <4> QED
        BY <2>0, <4>1
    <3>4. ASSUME over, next + k = x PROVE \E j \in 1..k : run[j].fin
      <4>1. next + k - 1 = x - 1
        BY <1>0, <3>4
      <4>2. run[k].fin
        BY <1>1, <3>1, <3>4, <4>1 DEF IsSeg
      <4> QED
        BY <3>1, <4>2
    <3> QED
      BY <3>2, <3>3, <3>4
  <2> QED
    BY <2>2, <2>3
<1> QED
  BY <1>2, <1>3, <1>4 DEF Delivered

\* The slots a run leaves are those of the segments above it, and nothing is forgotten.
LEMMA RunLeaves ==
  ASSUME NEW f, NEW x, NEW over, NEW next \in Nat, NEW buf,
         SlotsOK(f, x, over, next, buf),
         \A i \in Slots : buf[i] # NoSeg => buf[i] \in Segment,
         NEW run, NEW k, IsRun(buf, next, run, k), NEW buf2, Leaves(buf, run, k, buf2)
  PROVE  /\ SlotsOK(f, x, over, next + k, buf2)
         /\ StillHeld(next, buf, next + k, buf2)
<1>0. k \in Nat /\ W \in Nat
  BY Sizes DEF IsRun
<1>1. ASSUME NEW i \in Slots, buf2[i] # NoSeg PROVE SlotOK(f, x, over, next + k, i, buf2[i])
  <2>1. buf2[i] = buf[i] /\ ~\E j \in 1..k : slot(run[j].seq) = i
    BY <1>1 DEF Leaves
  <2>2. PICK q : q = buf[i].seq
    OBVIOUS
  <2>3. /\ q >= next /\ q < next + W /\ slot(q) = i /\ q \in Nat
        /\ IsSeg(f, x, over, q, buf[i].lo, buf[i].len, buf[i].fin)
    BY <1>1, <2>1, <2>2 DEF SlotsOK, SlotOK, Segment
  <2>4. q >= next + k
    <3> SUFFICES ASSUME q < next + k PROVE FALSE
      BY <1>0, <2>3
    <3>1. PICK j : j = q - next + 1
      OBVIOUS
    <3>2. j \in 1..k /\ next + j - 1 = q
      BY <1>0, <2>3, <3>1
    <3>3. run[j].seq = q
      BY <3>2 DEF IsRun
    <3> QED
      BY <2>1, <2>3, <3>2, <3>3
  <2>5. q < (next + k) + W
    BY <1>0, <2>3
  <2> QED
    BY <2>1, <2>2, <2>3, <2>4, <2>5 DEF SlotOK
<1>2. ASSUME NEW q \in Nat, Held(next, buf, q) PROVE Held(next + k, buf2, q)
  <2>1. CASE q < next + k
    BY <2>1 DEF Held
  <2>2. CASE ~(q < next + k)
    <3>1. ~(q < next)
      BY <1>0, <2>2
    <3>2. buf[slot(q)] # NoSeg /\ buf[slot(q)].seq = q
      BY <1>2, <3>1 DEF Held
    <3>3. slot(q) \in Slots
      BY SlotType
    <3>4. ASSUME NEW j \in 1..k PROVE slot(run[j].seq) # slot(q)
      <4> SUFFICES ASSUME slot(run[j].seq) = slot(q) PROVE FALSE
        OBVIOUS
      <4>1. run[j] = buf[slot(run[j].seq)] /\ run[j].seq = next + j - 1
        BY DEF IsRun
      <4>2. q = next + j - 1
        BY <3>2, <4>1
      <4> QED
        BY <1>0, <2>2, <4>2
    <3>5. buf2[slot(q)] = buf[slot(q)]
      BY <3>3, <3>4 DEF Leaves
    <3> QED
      BY <3>2, <3>5 DEF Held
  <2> QED
    BY <2>1, <2>2
<1>3. next <= next + k
  BY <1>0
<1> QED
  BY <1>1, <1>2, <1>3 DEF StillHeld, SlotsOK

\* What stream_input of a segment does to e, with the run it delivers.
Accepts(e, buf, run, k) ==
  /\ rcv_nxt'[e] = rcv_nxt[e] + k
  /\ got'[e] = got[e] \o Payload(run)
  /\ peer_fin'[e] <=> peer_fin[e] \/ \E j \in 1..k : run[j].fin
  /\ Leaves(buf, run, k, rbuf'[e])

\* Taking a segment delivers a run.
LEMMA AcceptRun ==
  ASSUME TypeOK, NEW e \in End, NEW m \in Datagram, Accept(e, m),
         NEW buf, buf = Buffered(e, m),
         NEW run, run = Run(buf, rcv_nxt[e], unread[e]), NEW k, k = Len(run)
  PROVE  IsRun(buf, rcv_nxt[e], run, k) /\ Accepts(e, buf, run, k)
<1>1. run \in Seq(Segment) /\ k \in 0..W
  BY AcceptSpec
<1>2. ASSUME NEW j \in 1..k
      PROVE  /\ run[j] \in Segment /\ run[j] = buf[slot(rcv_nxt[e] + j - 1)]
             /\ run[j].seq = rcv_nxt[e] + j - 1
  BY AcceptSpec
<1>3. IsRun(buf, rcv_nxt[e], run, k)
  BY <1>1, <1>2 DEF IsRun
<1>4. rcv_nxt' = [rcv_nxt EXCEPT ![e] = @ + k] /\ got' = [got EXCEPT ![e] = @ \o Payload(run)]
  BY DEF Accept
<1>5. rcv_nxt'[e] = rcv_nxt[e] + k /\ got'[e] = got[e] \o Payload(run)
  BY <1>4 DEF TypeOK
<1>6. peer_fin'[e] <=> peer_fin[e] \/ \E j \in 1..k : run[j].fin
  BY AcceptSpec
<1>7. \A i \in Slots : rbuf'[e][i] = IF \E j \in 1..k : slot(run[j].seq) = i THEN NoSeg ELSE buf[i]
  <2>1. rbuf' = [rbuf EXCEPT ![e] =
                   [i \in Slots |->
                      IF \E j \in 1..k : slot(run[j].seq) = i THEN NoSeg ELSE buf[i]]]
    BY DEF Accept, Slots, W
  <2>2. rbuf \in [End -> Buffers]
    BY DEF TypeOK, Buffers, Slots, W
  <2> QED
    BY <2>1, <2>2
<1> QED
  BY <1>3, <1>5, <1>6, <1>7 DEF Accepts, Leaves

\* stream_input of a segment of the layout keeps the receive side of e sound.
LEMMA AcceptOK ==
  ASSUME TypeOK, NEW e \in End, NEW m \in Datagram, Accept(e, m),
         NEW f \in [Nat -> Nat \ {0}], NEW x \in Nat, NEW over \in BOOLEAN,
         Carries(f, x, over, m),
         RecvEndOK(f, x, over, rcv_nxt[e], rbuf[e], got[e], peer_fin[e])
  PROVE  /\ RecvEndOK(f, x, over, rcv_nxt'[e], rbuf'[e], got'[e], peer_fin'[e])
         /\ StillHeld(rcv_nxt[e], rbuf[e], rcv_nxt'[e], rbuf'[e])
<1>1. PICK buf : buf = Buffered(e, m)
  OBVIOUS
<1>2. PICK run : run = Run(buf, rcv_nxt[e], unread[e])
  OBVIOUS
<1>3. PICK k : k = Len(run)
  OBVIOUS
<1>4. rcv_nxt[e] \in Nat /\ peer_fin[e] \in BOOLEAN
  BY DEF TypeOK
<1>5. IsRun(buf, rcv_nxt[e], run, k) /\ Accepts(e, buf, run, k)
  BY <1>1, <1>2, <1>3, AcceptRun
<1>6. SlotsOK(f, x, over, rcv_nxt[e], rbuf[e])
  BY DEF RecvEndOK, SlotsOK
<1>7. /\ SlotsOK(f, x, over, rcv_nxt[e], buf)
      /\ \A i \in Slots : rbuf[e][i] # NoSeg => buf[i] = rbuf[e][i]
  BY <1>1, <1>6, BufferedOK
<1>8. RecvEndOK(f, x, over, rcv_nxt[e], buf, got[e], peer_fin[e])
  BY <1>7 DEF RecvEndOK, SlotsOK
<1>9. \A i \in Slots : buf[i] # NoSeg => buf[i] \in Segment
  <2>1. PICK s : s = Seg(m.seq, m.lo, m.len, m.kind = "fin")
    OBVIOUS
  <2>2. buf \in Buffers
    BY <1>1, <2>1, BufferedSpec
  <2> QED
    BY <2>2 DEF Buffers
<1>10. Leaves(buf, run, k, rbuf'[e])
  BY <1>5 DEF Accepts
<1>11. SlotsOK(f, x, over, rcv_nxt[e] + k, rbuf'[e]) /\ StillHeld(rcv_nxt[e], buf, rcv_nxt[e] + k, rbuf'[e])
  BY <1>4, <1>5, <1>7, <1>9, <1>10, RunLeaves
<1>12. Delivered(f, x, over, rcv_nxt[e], got[e], peer_fin[e], run, k)
  BY <1>4, <1>5, <1>8, RunDelivers
<1>13. RecvEndOK(f, x, over, rcv_nxt'[e], rbuf'[e], got'[e], peer_fin'[e])
  BY <1>5, <1>11, <1>12 DEF RecvEndOK, Accepts, SlotsOK, Delivered
<1>14. ASSUME NEW q \in Nat, Held(rcv_nxt[e], rbuf[e], q) PROVE Held(rcv_nxt[e], buf, q)
  <2>1. slot(q) \in Slots
    BY SlotType
  <2> QED
    BY <1>7, <1>14, <2>1 DEF Held
<1>15. StillHeld(rcv_nxt[e], rbuf[e], rcv_nxt'[e], rbuf'[e])
  BY <1>5, <1>11, <1>14 DEF StillHeld, Accepts
<1> QED
  BY <1>13, <1>15

\* What an end that does not move has.
LEMMA StillHeldSelf ==
  ASSUME NEW next \in Nat, NEW buf
  PROVE  StillHeld(next, buf, next, buf)
BY DEF StillHeld

\* A datagram stays true of its sender.
LEMMA HeldMsg ==
  ASSUME NEW m \in Datagram, NEW f, NEW x, NEW over, NEW next \in Nat, NEW buf,
         NEW next2 \in Nat, NEW buf2,
         MsgOK(f, x, over, next, buf, m), StillHeld(next, buf, next2, buf2)
  PROVE  MsgOK(f, x, over, next2, buf2, m)
<1>1. m.ack \in Nat /\ SackBits \in Nat /\ \A b \in m.sack : b \in 0..SackBits-1
  BY StreamAssumption DEF Datagram
<1>2. m.ack <= next2
  <2>1. m.ack <= next /\ next <= next2
    BY DEF MsgOK, StillHeld
  <2> QED
    BY <1>1, <2>1
<1>3. ASSUME NEW b \in m.sack PROVE Held(next2, buf2, m.ack + 1 + b)
  <2>1. m.ack + 1 + b \in Nat
    BY <1>1
  <2>2. Held(next, buf, m.ack + 1 + b)
    BY DEF MsgOK
  <2> QED
    BY <2>1, <2>2 DEF StillHeld
<1> QED
  BY <1>2, <1>3 DEF MsgOK

\* stream_input keeps the receive side sound, and no end forgets what it has.
LEMMA InputRecv ==
  ASSUME TypeInv, TypeInv', NEW S \in Layouts, Laid(S), NEW e \in End, NEW m \in net[e],
         Input(e, m)
  PROVE  /\ RecvOK(S)'
         /\ \A y \in End : StillHeld(rcv_nxt[y], rbuf[y], rcv_nxt'[y], rbuf'[y])
<1>0. TypeOK /\ Peer(e) \in End /\ Peer(Peer(e)) = e
  BY Peers DEF TypeInv
<1>1. /\ m \in Datagram /\ rcv_nxt \in [End -> Nat] /\ snd_nxt \in [End -> Nat]
      /\ fin_segmented \in [End -> BOOLEAN]
  BY <1>0 DEF TypeOK
<1>2. snd_nxt' = snd_nxt /\ fin_segmented' = fin_segmented
  BY DEF Input
<1>3. CASE m.kind = "ack"
  <2>1. rbuf' = rbuf /\ rcv_nxt' = rcv_nxt /\ got' = got /\ peer_fin' = peer_fin
    BY <1>3 DEF Input, recvVars
  <2>2. RecvOK(S)'
    BY <1>2, <2>1 DEF Laid, RecvOK
  <2> QED
    BY <1>1, <2>1, <2>2, StillHeldSelf
<1>4. CASE m.kind # "ack"
  <2>1. Accept(e, m)
    BY <1>4 DEF Input
  <2>2. PICK p : p = Peer(e)
    OBVIOUS
  <2>3. /\ S[p] \in [Nat -> Nat \ {0}] /\ snd_nxt[p] \in Nat /\ fin_segmented[p] \in BOOLEAN
        /\ p \in End
    BY <1>0, <1>1, <2>2 DEF Layouts
  <2>4. MsgOK(S[p], snd_nxt[p], fin_segmented[p], rcv_nxt[p], rbuf[p], m)
    BY <1>0, <2>2 DEF Laid, NetOK
  <2>5. Carries(S[p], snd_nxt[p], fin_segmented[p], m)
    BY <1>4, <2>4 DEF MsgOK, Carries
  <2>6. RecvEndOK(S[p], snd_nxt[p], fin_segmented[p], rcv_nxt[e], rbuf[e], got[e], peer_fin[e])
    BY <2>2 DEF Laid, RecvOK, RecvEndOK
  <2>7. /\ RecvEndOK(S[p], snd_nxt[p], fin_segmented[p], rcv_nxt'[e], rbuf'[e], got'[e], peer_fin'[e])
        /\ StillHeld(rcv_nxt[e], rbuf[e], rcv_nxt'[e], rbuf'[e])
    BY <1>0, <1>1, <2>1, <2>3, <2>5, <2>6, AcceptOK
  <2>8. \A y \in End \ {e} : /\ rcv_nxt'[y] = rcv_nxt[y] /\ rbuf'[y] = rbuf[y]
                             /\ got'[y] = got[y] /\ peer_fin'[y] = peer_fin[y]
    BY <1>0, <2>1 DEF TypeOK, Accept
  <2>9. RecvOK(S)'
    <3> SUFFICES ASSUME NEW y \in End
                 PROVE  /\ rcv_nxt'[y] <= snd_nxt'[Peer(y)]
                        /\ got'[y] = [i \in 1..(S[Peer(y)][rcv_nxt'[y]] - 1) |-> i]
                        /\ peer_fin'[y] <=> fin_segmented'[Peer(y)] /\ rcv_nxt'[y] = snd_nxt'[Peer(y)]
                        /\ \A i \in Slots : rbuf'[y][i] # NoSeg =>
                             SlotOK(S[Peer(y)], snd_nxt'[Peer(y)], fin_segmented'[Peer(y)],
                                    rcv_nxt'[y], i, rbuf'[y][i])
      BY DEF RecvOK
    <3>1. CASE y = e
      BY <1>2, <2>2, <2>7, <3>1 DEF RecvEndOK
    <3>2. CASE y # e
      BY <1>2, <2>8, <3>2 DEF Laid, RecvOK
    <3> QED
      BY <3>1, <3>2
  <2>10. ASSUME NEW y \in End PROVE StillHeld(rcv_nxt[y], rbuf[y], rcv_nxt'[y], rbuf'[y])
    <3>1. CASE y = e
      BY <2>7, <3>1
    <3>2. CASE y # e
      BY <1>1, <2>8, <3>2, StillHeldSelf
    <3> QED
      BY <3>1, <3>2
  <2> QED
    BY <2>9, <2>10
<1> QED
  BY <1>3, <1>4

\* stream_input keeps the send side sound: what it learns from the datagram is true.
LEMMA InputSend ==
  ASSUME TypeInv, TypeInv', NEW S \in Layouts, Laid(S), NEW e \in End, NEW m \in net[e],
         Input(e, m)
  PROVE  SendOK(S)'
<1>0. TypeOK /\ TypeOK' /\ Peer(e) \in End /\ Peer(Peer(e)) = e
  BY Peers DEF TypeInv
<1>1. /\ m \in Datagram /\ sbuf \in [End -> Buffers] /\ m.ack \in Nat
      /\ rcv_nxt \in [End -> Nat] /\ snd_nxt \in [End -> Nat] /\ snd_una \in [End -> Nat]
      /\ rcv_nxt' \in [End -> Nat] /\ snd_una' \in [End -> Nat]
  <2>1. m \in Datagram
    BY <1>0 DEF TypeOK
  <2> QED
    BY <1>0, <2>1 DEF TypeOK, Datagram, Buffers, Slots, W
<1>2. /\ snd_nxt' = snd_nxt /\ fin_segmented' = fin_segmented
      /\ sbuf' = [sbuf EXCEPT ![e] = Sacked(e, m)]
      /\ NewAck(e, m) \/ OldAck(e, m) \/ FastAck(e, m)
  BY DEF Input
<1>3. \A y \in End : StillHeld(rcv_nxt[y], rbuf[y], rcv_nxt'[y], rbuf'[y])
  BY InputRecv
<1>4. /\ \A y \in End \ {e} : snd_una'[y] = snd_una[y]
      /\ snd_una'[e] >= snd_una[e]
      /\ snd_una'[e] = snd_una[e] \/ snd_una'[e] = m.ack
  BY <1>1, <1>2, AckType
<1>5. MsgOK(S[Peer(e)], snd_nxt[Peer(e)], fin_segmented[Peer(e)], rcv_nxt[Peer(e)], rbuf[Peer(e)], m)
  BY <1>0 DEF Laid, NetOK
<1>6. \A y \in End : snd_una[y] <= rcv_nxt[Peer(y)] /\ rcv_nxt[Peer(y)] <= rcv_nxt'[Peer(y)]
  BY <1>3, Peers DEF Laid, SendOK, StillHeld
<1>7. ASSUME NEW y \in End PROVE snd_una'[y] <= rcv_nxt'[Peer(y)]
  <2>0. /\ snd_una[y] \in Nat /\ snd_una'[y] \in Nat /\ rcv_nxt[Peer(y)] \in Nat
        /\ rcv_nxt'[Peer(y)] \in Nat
    BY <1>1, Peers
  <2>1. snd_una'[y] = snd_una[y] \/ snd_una'[y] <= rcv_nxt[Peer(y)]
    BY <1>4, <1>5 DEF MsgOK
  <2> QED
    BY <1>6, <2>0, <2>1
<1>8. ASSUME NEW y \in End, NEW q \in snd_una'[y]..snd_nxt'[y]-1
      PROVE  /\ IsSeg(S[y], snd_nxt'[y], fin_segmented'[y], q,
                      sbuf'[y][slot(q)].lo, sbuf'[y][slot(q)].len, sbuf'[y][slot(q)].fin)
             /\ sbuf'[y][slot(q)].sacked => Held(rcv_nxt'[Peer(y)], rbuf'[Peer(y)], q)
  <2>0. /\ snd_una[y] \in Nat /\ snd_una'[y] \in Nat /\ snd_nxt[y] \in Nat /\ snd_una'[y] >= snd_una[y]
        /\ Peer(y) \in End
    BY <1>1, <1>4, Peers
  <2>1. q \in snd_una[y]..snd_nxt[y]-1 /\ q \in Nat
    BY <1>2, <2>0
  <2>2. /\ IsSeg(S[y], snd_nxt[y], fin_segmented[y], q,
                 sbuf[y][slot(q)].lo, sbuf[y][slot(q)].len, sbuf[y][slot(q)].fin)
        /\ sbuf[y][slot(q)].sacked => Held(rcv_nxt[Peer(y)], rbuf[Peer(y)], q)
    BY <2>1 DEF Laid, SendOK
  <2>3. Held(rcv_nxt[Peer(y)], rbuf[Peer(y)], q) => Held(rcv_nxt'[Peer(y)], rbuf'[Peer(y)], q)
    BY <1>3, <2>0, <2>1 DEF StillHeld
  <2>4. CASE y = e
    <3>1. PICK buf : buf = Sacked(e, m)
      OBVIOUS
    <3>2. sbuf'[y] = buf
      BY <1>1, <1>2, <2>4, <3>1
    <3>3. /\ buf[slot(q)].lo = sbuf[e][slot(q)].lo
          /\ buf[slot(q)].len = sbuf[e][slot(q)].len
          /\ buf[slot(q)].fin = sbuf[e][slot(q)].fin
          /\ buf[slot(q)].sacked =>
               sbuf[e][slot(q)].sacked \/ \E b \in m.sack : q = m.ack + 1 + b
      BY <1>1, <2>1, <2>4, <3>1, SackedSpec
    <3>4. (\E b \in m.sack : q = m.ack + 1 + b) => Held(rcv_nxt[Peer(y)], rbuf[Peer(y)], q)
      BY <1>5, <2>4 DEF MsgOK
    <3>5. sbuf'[y][slot(q)].sacked => Held(rcv_nxt'[Peer(y)], rbuf'[Peer(y)], q)
      BY <2>2, <2>3, <2>4, <3>2, <3>3, <3>4
    <3> QED
      BY <1>2, <2>2, <2>4, <3>2, <3>3, <3>5
  <2>5. CASE y # e
    <3>1. sbuf'[y] = sbuf[y]
      BY <1>1, <1>2, <2>5
    <3> QED
      BY <1>2, <2>2, <2>3, <3>1
  <2> QED
    BY <2>4, <2>5
<1> QED
  BY <1>7, <1>8 DEF SendOK

\* The acknowledgement of an end that has come to next says what the end has.
LEMMA AckMsgOK ==
  ASSUME NEW buf, NEW next \in Nat, NEW n, NEW f, NEW x, NEW over
  PROVE  MsgOK(f, x, over, next, buf, AckMsg(buf, next, n))
<1> DEFINE m == AckMsg(buf, next, n)
<1>1. /\ m.kind = "ack" /\ m.ack = next
      /\ \A b \in m.sack : buf[slot(next + 1 + b)] # NoSeg /\ buf[slot(next + 1 + b)].seq = next + 1 + b
  BY DEF AckMsg
<1> HIDE DEF m
<1>2. MsgOK(f, x, over, next, buf, m)
  BY <1>1 DEF MsgOK, Held
<1> QED
  BY <1>2 DEF m

\* stream_input keeps the datagrams in flight true.
LEMMA InputNet ==
  ASSUME TypeInv, TypeInv', NEW S \in Layouts, Laid(S), NEW e \in End, NEW m \in net[e],
         Input(e, m)
  PROVE  NetOK(S)'
<1>0. TypeOK /\ TypeOK' /\ Peer(e) \in End /\ Peer(e) # e
  BY Peers DEF TypeInv
<1>1. /\ m \in Datagram /\ net \in [End -> SUBSET Datagram] /\ snd_una[e] \in Nat /\ snd_nxt[e] \in Nat
      /\ rcv_nxt \in [End -> Nat] /\ rcv_nxt' \in [End -> Nat]
  BY <1>0 DEF TypeOK
<1>2. snd_nxt' = snd_nxt /\ fin_segmented' = fin_segmented
  BY DEF Input
<1>3. \A y \in End : StillHeld(rcv_nxt[y], rbuf[y], rcv_nxt'[y], rbuf'[y])
  BY InputRecv
<1>4. PICK X \in Carry(net[Peer(e)], InputReplies(e, m)), Y \in {net[e], net[e] \ {m}} :
        net' = [net EXCEPT ![Peer(e)] = X, ![e] = Y]
  BY DEF Input
<1>5. net'[Peer(e)] = X /\ net'[e] \subseteq net[e] /\ X \subseteq net[Peer(e)] \cup InputReplies(e, m)
  BY <1>0, <1>1, <1>4 DEF Carry
<1>6. ASSUME NEW s, s \in Holes(e, Sacked(e, m)), IsDup(e, m)
      PROVE  MsgOK(S[e], snd_nxt[e], fin_segmented[e], rcv_nxt'[e], rbuf'[e], SegMsg(e, s))
  <2>1. PICK buf : buf = Sacked(e, m)
    OBVIOUS
  <2>2. PICK limit \in Int : limit <= snd_nxt[e] /\ Holes(e, buf) = Unacked(buf, snd_una[e], limit)
    BY <1>1, <1>6, <2>1, FastSegs
  <2>3. PICK q \in snd_una[e]..limit-1 : s = buf[slot(q)]
    BY <1>6, <2>1, <2>2 DEF Unacked
  <2>4. q \in snd_una[e]..snd_nxt[e]-1
    BY <1>1, <2>2
  <2>5. /\ s \in Segment /\ s.seq = q
        /\ s.lo = sbuf[e][slot(q)].lo /\ s.len = sbuf[e][slot(q)].len /\ s.fin = sbuf[e][slot(q)].fin
    BY <1>1, <2>1, <2>3, <2>4, SackedSpec
  <2>6. IsSeg(S[e], snd_nxt[e], fin_segmented[e], q, s.lo, s.len, s.fin)
    BY <2>4, <2>5 DEF Laid, SendOK
  <2>7. IsSeg(S[e], snd_nxt[e], fin_segmented[e], s.seq, s.lo, s.len, s.fin)
    BY <2>5, <2>6
  <2>8. rcv_nxt[e] <= rcv_nxt'[e]
    BY <1>3 DEF StillHeld
  <2> QED
    BY <2>5, <2>7, <2>8, SegMsgOK
<1>7. MsgOK(S[e], snd_nxt[e], fin_segmented[e], rcv_nxt'[e], rbuf'[e],
            AckMsg(rbuf'[e], rcv_nxt'[e], unread'[e]))
  BY <1>1, AckMsgOK
<1>8. \A r \in InputReplies(e, m) :
        MsgOK(S[e], snd_nxt[e], fin_segmented[e], rcv_nxt'[e], rbuf'[e], r)
  BY <1>6, <1>7 DEF InputReplies
<1>9. ASSUME NEW y \in End, NEW r \in net'[Peer(y)]
      PROVE  MsgOK(S[y], snd_nxt[y], fin_segmented[y], rcv_nxt'[y], rbuf'[y], r)
  <2>0. Peer(y) \in End /\ Peer(Peer(y)) = y /\ Peer(Peer(e)) = e
    BY Peers
  <2>1. CASE r \in net[Peer(y)]
    <3>1. MsgOK(S[y], snd_nxt[y], fin_segmented[y], rcv_nxt[y], rbuf[y], r)
      BY <2>1 DEF Laid, NetOK
    <3>2. r \in Datagram /\ rcv_nxt[y] \in Nat /\ rcv_nxt'[y] \in Nat
      BY <1>1, <2>0, <2>1
    <3>3. StillHeld(rcv_nxt[y], rbuf[y], rcv_nxt'[y], rbuf'[y])
      BY <1>3
    <3> QED
      BY <3>1, <3>2, <3>3, HeldMsg
  <2>2. CASE r \notin net[Peer(y)]
    <3>1. Peer(y) = Peer(e)
      BY <1>0, <1>1, <1>4, <1>5, <2>0, <2>2
    <3>2. y = e /\ r \in InputReplies(e, m)
      BY <1>5, <2>0, <2>2, <3>1
    <3> QED
      BY <1>8, <3>2
  <2> QED
    BY <2>1, <2>2
<1> QED
  BY <1>2, <1>9 DEF NetOK

\* stream_input keeps the layout.
LEMMA InputInv ==
  ASSUME TypeInv, TypeInv', NEW S \in Layouts, Laid(S), NEW e \in End, NEW m \in net[e],
         Input(e, m)
  PROVE  Laid(S)'
<1>1. LayoutOK(S)'
  <2>1. UNCHANGED <<written, closed, pend, fin_queued, fin_segmented, snd_nxt>>
    BY DEF Input
  <2> QED
    BY <2>1 DEF Laid, LayoutOK
<1>2. SendOK(S)' /\ RecvOK(S)' /\ NetOK(S)'
  BY InputSend, InputRecv, InputNet
<1> QED
  BY <1>1, <1>2 DEF Laid

\* Both ends start with nothing laid out.
LEMMA InitInv == Init => StreamInv
<1> SUFFICES ASSUME Init PROVE StreamInv
  OBVIOUS
<1>1. TypeInv
  BY InitType
<1>2. PICK S : S = [e \in End |-> [q \in Nat |-> 1]]
  OBVIOUS
<1>3. S \in Layouts /\ \A e \in End : \A q \in Nat : S[e][q] = 1
  BY <1>2 DEF Layouts
<1>4. \A e \in End : Peer(e) \in End
  BY Peers
<1>5. /\ \A e \in End : /\ written[e] = 0 /\ pend[e] = 0 /\ snd_una[e] = 0 /\ snd_nxt[e] = 0
                        /\ rcv_nxt[e] = 0 /\ got[e] = <<>> /\ net[e] = {}
                        /\ ~fin_queued[e] /\ ~fin_segmented[e] /\ ~peer_fin[e]
                        /\ \A i \in Slots : rbuf[e][i] = NoSeg
  BY DEF Init, Slots, W
<1>6. LayoutOK(S)
  BY <1>3, <1>5 DEF LayoutOK
<1>7. SendOK(S)
  BY <1>4, <1>5 DEF SendOK
<1>8. RecvOK(S)
  <2> SUFFICES ASSUME NEW e \in End
               PROVE  /\ rcv_nxt[e] <= snd_nxt[Peer(e)]
                      /\ got[e] = [i \in 1..(S[Peer(e)][rcv_nxt[e]] - 1) |-> i]
                      /\ peer_fin[e] <=> fin_segmented[Peer(e)] /\ rcv_nxt[e] = snd_nxt[Peer(e)]
                      /\ \A i \in Slots : rbuf[e][i] # NoSeg =>
                           SlotOK(S[Peer(e)], snd_nxt[Peer(e)], fin_segmented[Peer(e)],
                                  rcv_nxt[e], i, rbuf[e][i])
    BY DEF RecvOK
  <2>1. S[Peer(e)][rcv_nxt[e]] = 1
    BY <1>3, <1>4, <1>5
  <2>2. got[e] = [i \in 1..(1 - 1) |-> i]
    BY <1>5
  <2> QED
    BY <1>4, <1>5, <2>1, <2>2
<1>9. NetOK(S)
  BY <1>4, <1>5 DEF NetOK
<1> QED
  BY <1>1, <1>3, <1>6, <1>7, <1>8, <1>9 DEF StreamInv, Laid

\* Every step keeps a layout.
LEMMA NextInv == StreamInv /\ [Next]_vars => StreamInv'
<1> SUFFICES ASSUME StreamInv, [Next]_vars PROVE StreamInv'
  OBVIOUS
<1>1. TypeInv /\ TypeInv'
  BY NextType DEF StreamInv
<1>2. PICK S \in Layouts : Laid(S)
  BY DEF StreamInv
<1>3. CASE UNCHANGED vars
  <2>1. Laid(S)'
    BY <1>2, <1>3 DEF Laid, LayoutOK, SendOK, RecvOK, NetOK, vars, sendVars, ccVars, recvVars
  <2> QED
    BY <1>1, <2>1 DEF StreamInv
<1>4. CASE Next
  <2>1. PICK e \in End :
          \/ \E n \in 1..MaxBytes : Write(e, n)
          \/ Finish(e)
          \/ \E due \in BOOLEAN : Tick(e, due)
          \/ \E m \in net[e] : Input(e, m)
          \/ \E n \in 1..DELIV_CAP : Read(e, n)
    BY <1>4 DEF Next
  <2>2. \E T \in Layouts : Laid(T)'
    BY <1>1, <1>2, <2>1, WriteInv, FinishInv, TickInv, InputInv, ReadInv
  <2> QED
    BY <1>1, <2>2 DEF StreamInv
<1> QED
  BY <1>3, <1>4

\* StreamInv holds throughout.
LEMMA StreamInvariant == Spec => []StreamInv
BY InitInv, NextInv, PTL DEF Spec

-----------------------------------------------------------------------------
(* What the layout gives. *)

\* Slots are reused modulo the window and are never confused: pump_send never overwrites a
\* segment that is still outstanding, and a reassembly slot of stream_input only ever holds
\* a segment of the receive window that belongs there.
THEOREM SlotsCorrect == Spec => []SlotsSound
<1>1. StreamInv => SlotsSound
  <2> SUFFICES ASSUME StreamInv, NEW e \in End
               PROVE  /\ \A q \in snd_una[e]..snd_nxt[e]-1 : sbuf[e][slot(q)].seq = q
                      /\ snd_nxt[e] - snd_una[e] <= STREAM_WIN_MAX
                      /\ \A i \in 0..STREAM_WIN_MAX-1 : rbuf[e][i] # NoSeg =>
                           /\ rbuf[e][i].seq \in rcv_nxt[e]..rcv_nxt[e]+STREAM_WIN_MAX-1
                           /\ slot(rbuf[e][i].seq) = i
    BY DEF SlotsSound
  <2>1. PICK S \in Layouts : Laid(S)
    BY DEF StreamInv
  <2>2. /\ snd_nxt[e] - snd_una[e] <= W
        /\ \A q \in snd_una[e]..snd_nxt[e]-1 : sbuf[e][slot(q)].seq = q
    BY DEF StreamInv, TypeInv, SendSlots
  <2>3. ASSUME NEW i \in Slots, rbuf[e][i] # NoSeg
        PROVE  rbuf[e][i].seq \in rcv_nxt[e]..rcv_nxt[e]+W-1 /\ slot(rbuf[e][i].seq) = i
    <3>1. rbuf[e][i] \in Segment /\ rcv_nxt[e] \in Nat /\ W \in Nat
      BY <2>3, Sizes DEF StreamInv, TypeInv, TypeOK, Slots, W
    <3>2. PICK q : q = rbuf[e][i].seq
      OBVIOUS
    <3>3. q \in Nat
      BY <3>1, <3>2 DEF Segment
    <3>4. q >= rcv_nxt[e] /\ q < rcv_nxt[e] + W /\ slot(q) = i
      BY <2>1, <2>3, <3>2 DEF Laid, RecvOK, SlotOK
    <3> QED
      BY <3>1, <3>2, <3>3, <3>4
  <2> QED
    BY <2>2, <2>3 DEF Slots, W
<1> QED
  BY <1>1, StreamInvariant, PTL

\* on_ack and apply_sack never learn anything untrue, however late, repeated or reordered
\* the acknowledgements: what an end believes its peer has, its peer has.
THEOREM AcksCorrect == Spec => []AckedIsHeld
<1>1. StreamInv => AckedIsHeld
  <2> SUFFICES ASSUME StreamInv, NEW e \in End
               PROVE  /\ snd_una[e] <= rcv_nxt[Peer(e)]
                      /\ \A q \in snd_una[e]..snd_nxt[e]-1 : sbuf[e][slot(q)].sacked =>
                           q < rcv_nxt[Peer(e)] \/ rbuf[Peer(e)][slot(q)] # NoSeg
    BY DEF AckedIsHeld
  <2>1. PICK S \in Layouts : Laid(S)
    BY DEF StreamInv
  <2> QED
    BY <2>1 DEF Laid, SendOK, Held
<1> QED
  BY <1>1, StreamInvariant, PTL

\* The bytes laid out by an end whose FIN has a number are all it has written.
LEMMA LaidOut ==
  ASSUME TypeInv, NEW S \in Layouts, Laid(S), NEW e \in End, NEW p, p = Peer(e)
  PROVE  /\ p \in End /\ Len(got[e]) \in Nat /\ Len(got[e]) <= written[p]
         /\ got[e] = [i \in 1..Len(got[e]) |-> i]
         /\ peer_fin[e] <=> fin_segmented[p] /\ rcv_nxt[e] = snd_nxt[p]
         /\ peer_fin[e] => closed[p] /\ Len(got[e]) = written[p]
<1>0. /\ p \in End /\ rcv_nxt[e] \in Nat /\ snd_nxt[p] \in Nat /\ written[p] \in Nat
      /\ pend[p] \in Nat /\ pend[p] <= written[p]
  BY Peers, Sizes DEF TypeInv, TypeOK, SendSlots
<1>1. PICK b : b = S[p][rcv_nxt[e]]
  OBVIOUS
<1>2. b \in Nat \ {0}
  BY <1>0, <1>1 DEF Layouts
<1>3. /\ rcv_nxt[e] <= snd_nxt[p] /\ got[e] = [i \in 1..(b - 1) |-> i]
  BY <1>1 DEF Laid, RecvOK
<1>4. b <= written[p] - pend[p] + 1 /\ (rcv_nxt[e] = snd_nxt[p] => b = written[p] - pend[p] + 1)
  BY <1>0, <1>1, <1>3 DEF Laid, LayoutOK
<1>5. Len(got[e]) = b - 1
  BY <1>2, <1>3
<1>6. Len(got[e]) \in Nat /\ Len(got[e]) <= written[p] /\ got[e] = [i \in 1..Len(got[e]) |-> i]
  BY <1>0, <1>2, <1>3, <1>4, <1>5
<1>7. peer_fin[e] <=> fin_segmented[p] /\ rcv_nxt[e] = snd_nxt[p]
  BY DEF Laid, RecvOK
<1>8. fin_segmented[p] => closed[p] /\ pend[p] = 0
  BY <1>0 DEF Laid, LayoutOK
<1>9. pend[p] = 0 /\ rcv_nxt[e] = snd_nxt[p] => Len(got[e]) = written[p]
  BY <1>0, <1>2, <1>4, <1>5
<1>10. peer_fin[e] => closed[p] /\ Len(got[e]) = written[p]
  BY <1>7, <1>8, <1>9
<1> QED
  BY <1>0, <1>6, <1>7, <1>10

\* stream_send_done is true only when the peer has every byte and has been told of the end.
THEOREM DoneCorrect == Spec => []DoneIsTrue
<1>1. StreamInv => DoneIsTrue
  <2> SUFFICES ASSUME StreamInv, NEW e \in End, fin_segmented[e], snd_una[e] = snd_nxt[e]
               PROVE  peer_fin[Peer(e)] /\ Len(got[Peer(e)]) = written[e]
    BY DEF DoneIsTrue
  <2>1. PICK S \in Layouts : Laid(S)
    BY DEF StreamInv
  <2>2. PICK p : p = Peer(e)
    OBVIOUS
  <2>3. p \in End /\ e = Peer(p)
    BY <2>2, Peers
  <2>4. TypeInv /\ snd_nxt[e] \in Nat /\ rcv_nxt[p] \in Nat
    BY <2>3 DEF StreamInv, TypeInv, TypeOK
  <2>5. snd_una[e] <= rcv_nxt[p] /\ rcv_nxt[p] <= snd_nxt[e]
    BY <2>1, <2>2, <2>3 DEF Laid, SendOK, RecvOK
  <2>6. rcv_nxt[p] = snd_nxt[e]
    BY <2>4, <2>5
  <2>7. /\ peer_fin[p] <=> fin_segmented[e] /\ rcv_nxt[p] = snd_nxt[e]
        /\ peer_fin[p] => closed[e] /\ Len(got[p]) = written[e]
    BY <2>1, <2>3, <2>4, LaidOut
  <2> QED
    BY <2>2, <2>6, <2>7
<1> QED
  BY <1>1, StreamInvariant, PTL

-----------------------------------------------------------------------------
(* The pipe. *)

\* What e has been handed is a prefix of what its peer has written, all of it if it has been
\* told of the end.
Received(e) ==
  /\ Len(got[e]) \in Nat /\ Len(got[e]) <= written[Peer(e)]
  /\ got[e] = [i \in 1..Len(got[e]) |-> i]
  /\ peer_fin[e] => closed[Peer(e)] /\ Len(got[e]) = written[Peer(e)]

\* A layout says so.
LEMMA LaidReceived == TypeInv => \A T \in Layouts : Laid(T) => \A y \in End : Received(y)
<1> SUFFICES ASSUME TypeInv, NEW T \in Layouts, Laid(T), NEW y \in End PROVE Received(y)
  OBVIOUS
<1>1. PICK p : p = Peer(y)
  OBVIOUS
<1>2. /\ Len(got[y]) \in Nat /\ Len(got[y]) <= written[p]
      /\ got[y] = [i \in 1..Len(got[y]) |-> i]
      /\ peer_fin[y] => closed[p] /\ Len(got[y]) = written[p]
  BY <1>1, LaidOut
<1> QED
  BY <1>1, <1>2 DEF Received

\* A datagram hands over the next bytes, or none.
LEMMA InputPipe ==
  ASSUME TypeInv, TypeInv', NEW S \in Layouts, Laid(S), Laid(S)', NEW e \in End,
         NEW m \in net[e], Input(e, m)
  PROVE  Pipe!Deliver(e) \/ UNCHANGED <<written, closed, got, peer_fin>>
<1>0. /\ TypeOK /\ m \in Datagram /\ got \in [End -> Seq(Nat)] /\ peer_fin \in [End -> BOOLEAN]
      /\ got' \in [End -> Seq(Nat)] /\ peer_fin' \in [End -> BOOLEAN]
  BY DEF TypeInv, TypeOK
<1>1. UNCHANGED <<written, closed>>
  BY DEF Input
<1>2. CASE m.kind = "ack"
  BY <1>1, <1>2 DEF Input, recvVars
<1>3. CASE m.kind # "ack"
  <2>1. Accept(e, m)
    BY <1>3 DEF Input
  <2>2. PICK buf : buf = Buffered(e, m)
    OBVIOUS
  <2>3. PICK run : run = Run(buf, rcv_nxt[e], unread[e])
    OBVIOUS
  <2>4. PICK k : k = Len(run)
    OBVIOUS
  <2>5. IsRun(buf, rcv_nxt[e], run, k) /\ Accepts(e, buf, run, k)
    BY <1>0, <2>1, <2>2, <2>3, <2>4, AcceptRun
  <2>6. PICK p : p = Peer(e)
    OBVIOUS
  <2>7. PICK n : n = Len(got'[e])
    OBVIOUS
  <2>8. Len(got[e]) \in Nat
    BY <2>6, LaidOut
  <2>9. /\ p \in End /\ n \in Nat /\ n <= written'[p] /\ got'[e] = [i \in 1..n |-> i]
        /\ peer_fin'[e] => closed'[p] /\ n = written'[p]
    <3>1. (TypeInv => \A T \in Layouts : Laid(T) => \A y \in End : Received(y))'
      BY LaidReceived, PTL
    <3>2. Received(e)'
      BY <3>1
    <3> QED
      BY <2>6, <2>7, <3>2, Peers DEF Received
  <2>10. Len(got[e]) <= n
    <3>1. got'[e] = got[e] \o Payload(run) /\ Payload(run) \in Seq(Nat) /\ got[e] \in Seq(Nat)
      BY <1>0, <2>5, PayloadType DEF Accepts, IsRun
    <3>2. n = Len(got[e]) + Len(Payload(run)) /\ Len(Payload(run)) \in Nat
      BY <2>7, <3>1, ConcatProperties, LenProperties
    <3> QED
      BY <2>8, <3>2
  <2>11. peer_fin[e] => peer_fin'[e]
    BY <2>5 DEF Accepts
  <2>12. \A y \in End \ {e} : got'[y] = got[y] /\ peer_fin'[y] = peer_fin[y]
    BY <1>0, <2>1 DEF TypeOK, Accept
  <2>13. got' = [got EXCEPT ![e] = [i \in 1..n |-> i]]
    BY <1>0, <2>9, <2>12
  <2>14. n \in Len(got[e])..written[p]
    <3>1. written[p] \in Nat
      BY <2>9 DEF TypeInv, TypeOK
    <3> QED
      BY <1>1, <2>8, <2>9, <2>10, <3>1
  <2>15. \/ UNCHANGED peer_fin
         \/ closed[p] /\ Len(got'[e]) = written[p] /\ peer_fin' = [peer_fin EXCEPT ![e] = TRUE]
    <3>1. CASE peer_fin'[e] = peer_fin[e]
      BY <1>0, <2>12, <3>1
    <3>2. CASE peer_fin'[e] # peer_fin[e]
      <4>1. peer_fin'[e] = TRUE
        BY <1>0, <2>11, <3>2
      <4>2. peer_fin' = [peer_fin EXCEPT ![e] = TRUE]
        BY <1>0, <2>12, <4>1
      <4> QED
        BY <1>1, <2>7, <2>9, <4>1, <4>2
    <3> QED
      BY <3>1, <3>2
  <2> QED
    BY <1>1, <2>6, <2>13, <2>14, <2>15 DEF Pipe!Deliver
<1> QED
  BY <1>2, <1>3

\* stream_write writes to the pipe.
LEMMA WritePipe ==
  ASSUME TypeInv, NEW e \in End, NEW n \in 1..MaxBytes, Write(e, n)
  PROVE  Pipe!Write(e)
<1>1. written \in [End -> Nat] /\ PEND_CAP \in Nat /\ pend[e] \in 0..PEND_CAP /\ MaxBytes \in Nat
  BY Sizes, StreamAssumption DEF TypeInv, TypeOK
<1>2. PICK k : k = Least(n, PEND_CAP - pend[e])
  OBVIOUS
<1>3. k \in Nat
  BY <1>1, <1>2 DEF Least
<1>4. ~closed[e] /\ k > 0 /\ written' = [written EXCEPT ![e] = @ + k] /\ UNCHANGED <<closed, got, peer_fin>>
  BY <1>2 DEF Write, recvVars
<1>5. written'[e] = written[e] + k /\ written'[e] > written[e]
  BY <1>1, <1>3, <1>4
<1>6. written' = [written EXCEPT ![e] = written'[e]]
  BY <1>1, <1>4, <1>5
<1> QED
  BY <1>4, <1>5, <1>6 DEF Pipe!Write

\* Both applications see the pipe of stream.h: in each direction the bytes written come out
\* in order, each once, and the end after the last of them, whatever the channel loses,
\* repeats or reorders.
THEOREM StreamImplementsPipe == Spec => ImplementsPipe
<1>1. Init => Pipe!Init
  BY DEF Init, Pipe!Init
<1>2. StreamInv /\ [Next]_vars /\ StreamInv' => [Pipe!Next]_(Pipe!vars)
  <2> SUFFICES ASSUME StreamInv, [Next]_vars, StreamInv'
               PROVE  Pipe!Next \/ UNCHANGED <<written, closed, got, peer_fin>>
    BY DEF Pipe!vars
  <2>1. CASE UNCHANGED vars
    BY <2>1 DEF vars, sendVars, recvVars
  <2>2. ASSUME NEW e \in End, NEW n \in 1..MaxBytes, Write(e, n) PROVE Pipe!Next
    BY <2>2, WritePipe DEF StreamInv, Pipe!Next
  <2>3. ASSUME NEW e \in End, Finish(e) PROVE Pipe!Next
    <3>1. Pipe!Finish(e)
      BY <2>3 DEF Finish, Pipe!Finish, recvVars
    <3> QED
      BY <3>1 DEF Pipe!Next
  <2>4. ASSUME NEW e \in End, NEW due \in BOOLEAN, Tick(e, due)
        PROVE  UNCHANGED <<written, closed, got, peer_fin>>
    BY <2>4 DEF Tick, recvVars
  <2>5. ASSUME NEW e \in End, NEW m \in net[e], Input(e, m)
        PROVE  Pipe!Next \/ UNCHANGED <<written, closed, got, peer_fin>>
    <3>1. PICK S \in Layouts : Laid(S)
      BY DEF StreamInv
    <3>2. TypeInv /\ TypeInv'
      BY DEF StreamInv
    <3>3. Laid(S)'
      BY <2>5, <3>1, <3>2, InputInv
    <3>4. Pipe!Deliver(e) \/ UNCHANGED <<written, closed, got, peer_fin>>
      BY <2>5, <3>1, <3>2, <3>3, InputPipe
    <3> QED
      BY <3>4 DEF Pipe!Next
  <2>6. ASSUME NEW e \in End, NEW n \in 1..DELIV_CAP, Read(e, n)
        PROVE  UNCHANGED <<written, closed, got, peer_fin>>
    BY <2>6 DEF Read, sendVars
  <2> QED
    BY <2>1, <2>2, <2>3, <2>4, <2>5, <2>6 DEF Next
<1> QED
  BY <1>1, <1>2, StreamInvariant, PTL DEF Spec, ImplementsPipe, Pipe!Spec
=============================================================================
