----------------------------- MODULE Layout_proof -----------------------------
(***************************************************************************)
(* Proofs about arithmetic: the layout of a torrent, for any number of     *)
(* files of any lengths and any piece length, and the data directories,    *)
(* for any number of them.                                                 *)
(***************************************************************************)
EXTENDS EvictionRegions, DataDirs, NaturalsInduction, FiniteSetTheorems, TLAPS

------------------------------------------------------------------------------
(* Arithmetic.                                                             *)

Less == {ss \in Nat \X Nat : ss[1] < ss[2]}

\* A set of natural numbers has a least element: this is what induction is here.
LEMMA LeastOf ==
    ASSUME NEW T \in SUBSET Nat, T # {}
    PROVE  \E n \in T : \A m \in T : n <= m
<1>1. OpToRel(<, Nat) = Less
  BY DEF OpToRel, Less
<1>2. IsWellFoundedOn(Less, Nat)
  BY <1>1, NatLessThanWellFounded
<1>3. PICK n \in T : \A m \in T : ~ (<<m, n>> \in Less)
  BY <1>2, WFMin
<1>4. n \in Nat /\ \A m \in T : m \in Nat /\ <<m, n>> \notin Less
  BY <1>3
<1>5. ASSUME NEW m \in T PROVE n <= m
  <2>1. ~ (m < n)
    BY <1>4 DEF Less
  <2> QED BY <1>4, <2>1
<1> QED BY <1>5

\* The bounds of the pieces, and of the directories, grow with their number.
LEMMA Growing ==
    ASSUME NEW x \in Nat, NEW i \in Nat, NEW j \in Nat, i <= j
    PROVE  i * x <= j * x
<1>1. (j - i) * x >= 0
  OBVIOUS
<1> QED BY <1>1

LEMMA Quotient ==
    ASSUME NEW x \in Nat, NEW d \in Nat \ {0}
    PROVE  /\ x \div d \in Nat
           /\ (x \div d) * d <= x
           /\ x < (x \div d) * d + d
OBVIOUS

\* x lies in the interval of length d that its quotient numbers, and in no other.
LEMMA QuotientIs ==
    ASSUME NEW x \in Nat, NEW d \in Nat \ {0}, NEW q \in Nat,
           q * d <= x, x < q * d + d
    PROVE  q = x \div d
<1> DEFINE r == x \div d
<1>1. r \in Nat /\ r * d <= x /\ x < r * d + d
  BY Quotient
<1> HIDE DEF r
<1>2. /\ (q + 1) * d = q * d + d /\ (r + 1) * d = r * d + d
      /\ q * d \in Nat /\ r * d \in Nat
  BY <1>1
<1>3. ~ (q + 1 <= r)
  <2> SUFFICES ASSUME q + 1 <= r PROVE FALSE
    OBVIOUS
  <2>1. (q + 1) * d <= r * d
    BY <1>1, Growing
  <2> QED BY <1>1, <1>2, <2>1
<1>4. ~ (r + 1 <= q)
  <2> SUFFICES ASSUME r + 1 <= q PROVE FALSE
    OBVIOUS
  <2>1. (r + 1) * d <= q * d
    BY <1>1, Growing
  <2> QED BY <1>1, <1>2, <2>1
<1>5. q = r
  BY <1>1, <1>3, <1>4
<1> QED BY <1>5 DEF r

LEMMA QuotientGrows ==
    ASSUME NEW x \in Nat, NEW y \in Nat, NEW d \in Nat \ {0}, x <= y
    PROVE  x \div d <= y \div d
<1> DEFINE q == x \div d
           r == y \div d
<1>1. /\ q \in Nat /\ q * d <= x /\ x < q * d + d
      /\ r \in Nat /\ r * d <= y /\ y < r * d + d
  BY Quotient
<1> HIDE DEF q, r
<1>2. ~ (r + 1 <= q)
  <2> SUFFICES ASSUME r + 1 <= q PROVE FALSE
    OBVIOUS
  <2>1. (r + 1) * d <= q * d
    BY <1>1, Growing
  <2>2. (r + 1) * d = r * d + d /\ r * d \in Nat /\ q * d \in Nat
    BY <1>1
  <2> QED BY <1>1, <2>1, <2>2
<1>3. q <= r
  BY <1>1, <1>2
<1> QED BY <1>3 DEF q, r

------------------------------------------------------------------------------
(* The files of a torrent, laid end to end.                                *)

EndsUpTo(l, k, end) ==
    /\ end \in [0 .. k -> Nat]
    /\ end[0] = 0
    /\ \A f \in 1 .. k : end[f] = end[f - 1] + l.lens[f]

LEMMA EndsExist ==
    ASSUME NEW l, IsLayout(l), NEW k \in 0 .. Len(l.lens)
    PROVE  \E end : EndsUpTo(l, k, end)
<1> DEFINE n == Len(l.lens)
           T == {i \in 0 .. n : ~ \E end : EndsUpTo(l, i, end)}
<1>1. n \in Nat /\ \A f \in 1 .. n : l.lens[f] \in Nat
  BY DEF IsLayout
<1> HIDE DEF n
<1>2. SUFFICES ASSUME T # {} PROVE FALSE
  BY DEF n
<1>3. PICK i \in T : \A j \in T : i <= j
  <2>1. T \in SUBSET Nat
    BY <1>1
  <2> HIDE DEF T
  <2> QED BY <1>2, <2>1, LeastOf
<1>4. CASE i = 0
  <2>1. EndsUpTo(l, 0, [f \in 0 .. 0 |-> 0])
    BY DEF EndsUpTo
  <2> QED BY <1>4, <2>1
<1>5. CASE i # 0
  <2>1. i \in 1 .. n /\ i - 1 \in 0 .. n /\ ~ (i <= i - 1)
    BY <1>1, <1>5
  <2>2. i - 1 \notin T
    BY <1>3, <2>1
  <2>3. PICK end : EndsUpTo(l, i - 1, end)
    BY <2>1, <2>2
  <2> DEFINE more == [f \in 0 .. i |-> IF f = i THEN end[i - 1] + l.lens[i] ELSE end[f]]
  <2>4. EndsUpTo(l, i, more)
    <3>1. /\ i \in Nat /\ i - 1 \in 0 .. i - 1
          /\ \A f \in 0 .. i : f = i \/ f \in 0 .. i - 1
          /\ \A f \in 1 .. i : f - 1 # i /\ f - 1 \in 0 .. i
      BY <2>1
    <3>2. more \in [0 .. i -> Nat]
      BY <1>1, <2>1, <2>3, <3>1 DEF EndsUpTo
    <3>3. more[0] = 0
      BY <2>1, <2>3 DEF EndsUpTo
    <3>4. ASSUME NEW f \in 1 .. i PROVE more[f] = more[f - 1] + l.lens[f]
      BY <2>1, <2>3, <3>1 DEF EndsUpTo
    <3> QED BY <3>2, <3>3, <3>4 DEF EndsUpTo
  <2> QED BY <2>4
<1> QED BY <1>4, <1>5

LEMMA FileEndIs ==
    ASSUME NEW l, IsLayout(l)
    PROVE  EndsUpTo(l, Len(l.lens), FileEnd(l))
<1> DEFINE n == Len(l.lens)
           Step(end) == [f \in 0 .. n |-> IF f = 0 THEN 0 ELSE end[f - 1] + l.lens[f]]
<1>1. n \in Nat /\ \A f \in 1 .. n : l.lens[f] \in Nat
  BY DEF IsLayout
<1>2. PICK g : EndsUpTo(l, n, g)
  BY <1>1, EndsExist
<1>3. g = Step(g)
  BY <1>1, <1>2 DEF EndsUpTo
<1>4. FileEnd(l) = CHOOSE end : end = Step(end)
  BY DEF FileEnd
<1>5. FileEnd(l) = Step(FileEnd(l))
  BY <1>3, <1>4
<1> DEFINE end == FileEnd(l)
<1> HIDE DEF end
<1>6. /\ end = [f \in 0 .. n |-> end[f]]
      /\ end[0] = 0
      /\ \A f \in 1 .. n : end[f] = end[f - 1] + l.lens[f]
  <2>1. end = Step(end)
    BY <1>5 DEF end
  <2> QED BY <1>1, <2>1
<1>7. \A f \in 0 .. n : end[f] \in Nat
  <2> DEFINE T == {f \in 0 .. n : end[f] \notin Nat}
  <2>1. SUFFICES ASSUME T # {} PROVE FALSE
    OBVIOUS
  <2>2. PICK f \in T : \A j \in T : f <= j
    <3>1. T \in SUBSET Nat
      BY <1>1
    <3> HIDE DEF T
    <3> QED BY <2>1, <3>1, LeastOf
  <2>3. f # 0
    BY <1>6
  <2>4. f \in 1 .. n /\ f - 1 \in 0 .. n /\ ~ (f <= f - 1)
    BY <1>1, <2>3
  <2>5. end[f - 1] \in Nat
    BY <2>2, <2>4
  <2>6. end[f] = end[f - 1] + l.lens[f] /\ l.lens[f] \in Nat
    BY <1>1, <1>6, <2>4
  <2>7. end[f] \in Nat
    BY <2>5, <2>6
  <2>8. end[f] \notin Nat
    OBVIOUS
  <2> QED BY <2>7, <2>8
<1> QED BY <1>6, <1>7 DEF EndsUpTo, end

LEMMA EndsGrow ==
    ASSUME NEW l, IsLayout(l), NEW i \in 0 .. Len(l.lens), NEW j \in 0 .. Len(l.lens),
           i <= j
    PROVE  FileEnd(l)[i] <= FileEnd(l)[j]
<1> DEFINE n == Len(l.lens)
           end == FileEnd(l)
           T == {k \in i .. n : ~ end[i] <= end[k]}
<1>1. n \in Nat /\ EndsUpTo(l, n, end) /\ \A f \in 1 .. n : l.lens[f] \in Nat
  BY FileEndIs DEF IsLayout
<1> HIDE DEF n, end
<1>2. \A k \in 0 .. n : end[k] \in Nat
  BY <1>1 DEF EndsUpTo
<1>3. T = {}
  <2>1. SUFFICES ASSUME T # {} PROVE FALSE
    OBVIOUS
  <2>2. PICK k \in T : \A m \in T : k <= m
    <3>1. T \in SUBSET Nat
      BY <1>1 DEF n
    <3> HIDE DEF T
    <3> QED BY <2>1, <3>1, LeastOf
  <2>3. k # i /\ k \in i .. n /\ i \in 0 .. n
    BY <1>2 DEF n
  <2>4. /\ k \in 1 .. n /\ k \in 0 .. n
        /\ k - 1 \in i .. n /\ k - 1 \in 0 .. n /\ ~ (k <= k - 1)
    BY <1>1, <2>3
  <2>5. end[i] <= end[k - 1]
    BY <2>2, <2>4
  <2>6. end[k] = end[k - 1] + l.lens[k]
    BY <1>1, <2>4 DEF EndsUpTo
  <2> QED BY <1>1, <1>2, <2>3, <2>4, <2>5, <2>6
<1>4. j \in i .. n
  BY DEF n
<1> QED BY <1>3, <1>4 DEF end

\* Where a file begins and ends in the torrent.
LEMMA FileBounds ==
    ASSUME NEW l, IsLayout(l), NEW f \in FilesOf(l)
    PROVE  /\ FileStart(l, f) \in Nat /\ FileEnd(l)[f] \in Nat /\ TotalLength(l) \in Nat
           /\ l.lens[f] \in Nat
           /\ FileEnd(l)[f] = FileStart(l, f) + l.lens[f]
           /\ FileEnd(l)[f] <= TotalLength(l)
<1> DEFINE n == Len(l.lens)
           end == FileEnd(l)
<1>1. n \in Nat /\ l.lens[f] \in Nat /\ EndsUpTo(l, n, end)
  BY FileEndIs DEF IsLayout, FilesOf
<1>2. f \in 1 .. n /\ f \in 0 .. n /\ f - 1 \in 0 .. n /\ n \in 0 .. n /\ f <= n
  BY <1>1 DEF FilesOf
<1>3. end[f] <= end[n]
  BY <1>2, EndsGrow
<1> HIDE DEF n, end
<1>4. end[f] \in Nat /\ end[f - 1] \in Nat /\ end[n] \in Nat
      /\ end[f] = end[f - 1] + l.lens[f]
  BY <1>1, <1>2 DEF EndsUpTo
<1> QED BY <1>1, <1>3, <1>4 DEF end, n, FileStart, TotalLength

------------------------------------------------------------------------------
(* The pieces of a torrent.                                                *)

LEMMA TotalType ==
    ASSUME NEW l, IsLayout(l)
    PROVE  TotalLength(l) \in Nat
<1> DEFINE n == Len(l.lens)
<1>1. n \in Nat /\ EndsUpTo(l, n, FileEnd(l))
  BY FileEndIs DEF IsLayout
<1> QED BY <1>1 DEF EndsUpTo, TotalLength

\* The pieces are those that begin before the torrent ends.
LEMMA PiecesBegin ==
    ASSUME NEW l, IsLayout(l), NEW p \in Nat
    PROVE  p \in PiecesOf(l) <=> PieceOffset(l, p) < TotalLength(l)
<1> DEFINE d == l.pieceLength
           t == TotalLength(l)
           q == (t + d - 1) \div d
<1>1. d \in Nat \ {0} /\ t \in Nat /\ t + d - 1 \in Nat
  BY TotalType DEF IsLayout
<1>2. q \in Nat /\ q * d <= t + d - 1 /\ t + d - 1 < q * d + d
  BY <1>1, Quotient
<1>3. p \in PiecesOf(l) <=> p < q
  BY <1>2 DEF PiecesOf, NumPieces
<1> HIDE DEF d, t, q
<1>4. p * d \in Nat /\ q * d \in Nat /\ (p + 1) * d = p * d + d
  BY <1>1, <1>2
<1>5. CASE p < q
  <2>1. (p + 1) * d <= q * d
    BY <1>1, <1>2, <1>5, Growing
  <2>2. p * d < t
    BY <1>1, <1>2, <1>4, <2>1
  <2> QED BY <1>3, <1>5, <2>2 DEF PieceOffset, d, t
<1>6. CASE ~ (p < q)
  <2>1. q * d <= p * d
    BY <1>1, <1>2, <1>6, Growing
  <2>2. ~ (p * d < t)
    BY <1>1, <1>2, <1>4, <2>1
  <2> QED BY <1>3, <1>6, <2>2 DEF PieceOffset, d, t
<1> QED BY <1>5, <1>6

LEMMA PieceBounds ==
    ASSUME NEW l, IsLayout(l), NEW p \in PiecesOf(l)
    PROVE  /\ p \in Nat /\ PieceOffset(l, p) \in Nat /\ PieceEnd(l, p) \in Nat
           /\ PieceEnd(l, p) <= PieceOffset(l, p) + l.pieceLength
           /\ PieceEnd(l, p) <= TotalLength(l)
           /\ \/ PieceEnd(l, p) = PieceOffset(l, p) + l.pieceLength
              \/ PieceEnd(l, p) = TotalLength(l)
<1> DEFINE d == l.pieceLength
           t == TotalLength(l)
<1>1. p \in Nat /\ d \in Nat /\ t \in Nat
  <2>1. d \in Nat \ {0} /\ t \in Nat /\ t + d - 1 \in Nat
    BY TotalType DEF IsLayout
  <2>2. (t + d - 1) \div d \in Nat
    BY <2>1, Quotient
  <2> QED BY <2>1, <2>2 DEF PiecesOf, NumPieces
<1>2. PieceEnd(l, p) = IF (p + 1) * d < t THEN (p + 1) * d ELSE t
  BY DEF PieceEnd
<1> HIDE DEF d, t
<1>3. (p + 1) * d = p * d + d /\ p * d \in Nat
  BY <1>1
<1>4. PieceOffset(l, p) = p * d
  BY DEF PieceOffset, d
<1> QED BY <1>1, <1>2, <1>3, <1>4 DEF d, t

\* A byte of the torrent lies in the piece that the quotient of its offset and
\* the piece length numbers, and in no other.
LEMMA PieceOfByte ==
    ASSUME NEW l, IsLayout(l), NEW x \in Nat, x < TotalLength(l)
    PROVE  /\ x \div l.pieceLength \in PiecesOf(l)
           /\ \A p \in PiecesOf(l) :
                 PieceOffset(l, p) <= x /\ x < PieceEnd(l, p)
                    <=> p = x \div l.pieceLength
<1> DEFINE d == l.pieceLength
           t == TotalLength(l)
           q == x \div d
<1>1. d \in Nat \ {0} /\ t \in Nat /\ x < t
  BY TotalType DEF IsLayout
<1>2. q \in Nat /\ q * d <= x /\ x < q * d + d /\ q * d \in Nat
  <2>1. q \in Nat /\ q * d <= x /\ x < q * d + d
    BY <1>1, Quotient
  <2> HIDE DEF q
  <2> QED BY <1>1, <2>1
<1> HIDE DEF q
<1>3. q \in PiecesOf(l)
  BY <1>1, <1>2, PiecesBegin DEF PieceOffset
<1>4. PieceOffset(l, q) <= x /\ x < PieceEnd(l, q)
  <2>1. PieceOffset(l, q) = q * d
    BY DEF PieceOffset
  <2> QED BY <1>1, <1>2, <1>3, <2>1, PieceBounds
<1>5. ASSUME NEW p \in PiecesOf(l), PieceOffset(l, p) <= x, x < PieceEnd(l, p)
      PROVE  p = q
  <2>1. /\ p \in Nat /\ p * d \in Nat /\ PieceEnd(l, p) \in Nat
        /\ PieceEnd(l, p) <= p * d + d /\ p * d <= x
    BY <1>5, PieceBounds DEF PieceOffset
  <2>2. x < p * d + d
    BY <1>1, <1>5, <2>1
  <2> QED BY <1>1, <2>1, <2>2, QuotientIs DEF q
<1> QED BY <1>3, <1>4, <1>5 DEF q

------------------------------------------------------------------------------
(* The two ways of doing the arithmetic agree.                             *)

\* What pieceFileRegions (mmap.go) finds of a file is the bytes of the piece that
\* lie in it.
LEMMA RegionsAreThePiece ==
    ASSUME NEW l, IsLayout(l), NEW p \in PiecesOf(l), NEW f \in FilesOf(l)
    PROVE  RegionBytes(l, p, f) = PieceBytes(l, p, f)
<1> DEFINE s == FileStart(l, f)
           e == FileEnd(l)[f]
           off == PieceOffset(l, p)
           fin == PieceEnd(l, p)
           region == [fileIndex |-> f,
                      offset    |-> MaxOf(off, s) - s,
                      length    |-> MinOf(fin, e) - MaxOf(off, s)]
<1>1. /\ s \in Nat /\ e \in Nat /\ l.lens[f] \in Nat /\ e = s + l.lens[f]
      /\ off \in Nat /\ fin \in Nat
  BY FileBounds, PieceBounds
<1>2. {r \in Regions(l, p) : r.fileIndex = f} =
         IF fin > s /\ off < e THEN {region} ELSE {}
  BY DEF Regions
<1>3. RegionBytes(l, p, f) =
         IF fin > s /\ off < e
         THEN region.offset .. region.offset + region.length - 1
         ELSE {}
  BY <1>2 DEF RegionBytes
<1>4. PieceBytes(l, p, f) =
         {b \in 0 .. l.lens[f] - 1 : s + b >= off /\ s + b < fin}
  BY DEF PieceBytes, BytesOf
<1>5. region.offset = MaxOf(off, s) - s /\ region.length = MinOf(fin, e) - MaxOf(off, s)
  OBVIOUS
<1> HIDE DEF s, e, off, fin, region
<1>6. CASE fin > s /\ off < e
  <2>1. region.offset .. region.offset + region.length - 1 =
           (MaxOf(off, s) - s) .. (MinOf(fin, e) - s - 1)
    BY <1>1, <1>5 DEF MaxOf, MinOf
  <2>2. ASSUME NEW b
        PROVE  b \in (MaxOf(off, s) - s) .. (MinOf(fin, e) - s - 1)
                  <=> b \in 0 .. l.lens[f] - 1 /\ s + b >= off /\ s + b < fin
    BY <1>1, <1>6 DEF MaxOf, MinOf
  <2> QED BY <1>3, <1>4, <1>6, <2>1, <2>2
<1>7. CASE ~ (fin > s /\ off < e)
  <2>1. \A b \in 0 .. l.lens[f] - 1 : ~ (s + b >= off /\ s + b < fin)
    BY <1>1, <1>7
  <2> QED BY <1>3, <1>4, <1>7, <2>1
<1> QED BY <1>6, <1>7

\* A byte of a file belongs to one piece, and that piece is one of those that
\* complete the file.
LEMMA ByteHasPiece ==
    ASSUME NEW l, IsLayout(l), NEW f \in FilesOf(l), NEW b \in BytesOf(l, f)
    PROVE  \E q \in FilePieces(l, f) :
              \A p \in PiecesOf(l) : b \in PieceBytes(l, p, f) <=> p = q
<1> DEFINE s == FileStart(l, f)
           e == FileEnd(l)[f]
           x == s + b
           d == l.pieceLength
           q == x \div d
<1>1. /\ s \in Nat /\ e \in Nat /\ b \in Nat /\ x \in Nat
      /\ s <= x /\ x <= e /\ x < TotalLength(l)
      /\ d \in Nat \ {0}
  <2>1. /\ s \in Nat /\ e \in Nat /\ TotalLength(l) \in Nat /\ l.lens[f] \in Nat
        /\ e = s + l.lens[f] /\ e <= TotalLength(l)
    BY FileBounds
  <2>2. b \in 0 .. l.lens[f] - 1 /\ d \in Nat \ {0}
    BY DEF BytesOf, IsLayout
  <2> HIDE DEF s, e, d
  <2> QED BY <2>1, <2>2
<1> HIDE DEF x
<1>2. q \in PiecesOf(l)
  BY <1>1, PieceOfByte
<1>3. q \in StartPiece(l, f) .. EndPiece(l, f)
  <2>1. s \div d <= q /\ q <= e \div d
    BY <1>1, QuotientGrows
  <2>2. s \div d \in Nat /\ e \div d \in Nat /\ q \in Nat
    BY <1>1, Quotient
  <2> QED BY <2>1, <2>2 DEF StartPiece, EndPiece
<1>4. ASSUME NEW p \in PiecesOf(l)
      PROVE  b \in PieceBytes(l, p, f) <=> p = q
  <2>1. b \in PieceBytes(l, p, f) <=> x >= PieceOffset(l, p) /\ x < PieceEnd(l, p)
    BY DEF PieceBytes, x
  <2>2. x >= PieceOffset(l, p) <=> PieceOffset(l, p) <= x
    BY <1>1, PieceBounds
  <2> QED BY <1>1, <2>1, <2>2, PieceOfByte
<1> QED BY <1>2, <1>3, <1>4 DEF FilePieces

\* The rows that an eviction deletes include those of all files that need the piece.
LEMMA NeededIsAffected ==
    ASSUME NEW l, IsLayout(l), NEW f \in FilesOf(l), NEW p \in FilePieces(l, f)
    PROVE  f \in AffectedFiles(l, p)
<1>1. StartPiece(l, f) \in Nat /\ EndPiece(l, f) \in Nat
  BY FileBounds, Quotient DEF StartPiece, EndPiece, IsLayout
<1>2. StartPiece(l, f) <= p /\ p <= EndPiece(l, f)
  BY <1>1 DEF FilePieces
<1>3. Len(l.lens) = 1 => f = 1
  BY DEF FilesOf
<1> QED BY <1>2, <1>3 DEF AffectedFiles

\* In a torrent of one file the file needs every piece.
LEMMA SingleFileNeedsAll ==
    ASSUME NEW l, IsLayout(l), Len(l.lens) = 1
    PROVE  FilesOf(l) = {1} /\ FilePieces(l, 1) = PiecesOf(l)
<1> DEFINE d == l.pieceLength
           t == TotalLength(l)
<1>1. FilesOf(l) = {1} /\ d \in Nat \ {0} /\ t \in Nat
  BY TotalType DEF FilesOf, IsLayout
<1>2. StartPiece(l, 1) = 0 \div d /\ EndPiece(l, 1) = t \div d
  <2>1. FileEnd(l)[0] = 0
    BY FileEndIs DEF EndsUpTo
  <2> QED BY <2>1 DEF StartPiece, EndPiece, FileStart, TotalLength
<1>3. ASSUME NEW p \in PiecesOf(l) PROVE p \in (0 \div d) .. (t \div d)
  <2>1. p \in Nat /\ p * d \in Nat /\ p * d < t
    BY <1>1, PieceBounds, PiecesBegin DEF PieceOffset
  <2>2. p = (p * d) \div d
    BY <1>1, <2>1, QuotientIs
  <2>3. (p * d) \div d <= t \div d
    BY <1>1, <2>1, QuotientGrows
  <2>4. 0 = 0 \div d
    BY <1>1, QuotientIs
  <2>5. t \div d \in Nat
    BY <1>1, Quotient
  <2> HIDE DEF d, t
  <2> QED BY <2>1, <2>2, <2>3, <2>4, <2>5
<1> QED BY <1>1, <1>2, <1>3 DEF FilePieces

\* What Torrent assumes of the pieces and the files of a torrent holds of every
\* layout, so the theorems about the completion store, the tracker and the storage
\* speak of all torrents: no piece is empty, not even the last one, the files that a
\* piece affects (uncompleteAffectedFiles, mmap.go) are those whose range it is in
\* (piece_completion.go), and the only file of a torrent needs all its pieces.
THEOREM LayoutsAreTorrents ==
    ASSUME NEW l, IsLayout(l)
    PROVE  /\ IsFiniteSet(PiecesOf(l))
           /\ [p \in PiecesOf(l) |-> PieceEnd(l, p) - PieceOffset(l, p)]
                 \in [PiecesOf(l) -> Nat \ {0}]
           /\ [f \in FilesOf(l) |-> FilePieces(l, f)]
                 \in [1 .. Len(l.lens) -> SUBSET PiecesOf(l)]
           /\ \A p \in PiecesOf(l) :
                 AffectedFiles(l, p) = {f \in FilesOf(l) : p \in FilePieces(l, f)}
           /\ Len(l.lens) = 1 => FilePieces(l, 1) = PiecesOf(l)
<1>1. IsFiniteSet(PiecesOf(l))
  <2> DEFINE t == TotalLength(l)
             d == l.pieceLength
  <2>1. d \in Nat \ {0} /\ t \in Nat /\ t + d - 1 \in Nat
    BY TotalType DEF IsLayout
  <2>2. NumPieces(l) \in Nat
    BY <2>1, Quotient DEF NumPieces
  <2>3. NumPieces(l) - 1 \in Int
    BY <2>2
  <2> QED BY <2>3, FS_Interval DEF PiecesOf
<1>2. ASSUME NEW p \in PiecesOf(l)
      PROVE  PieceEnd(l, p) - PieceOffset(l, p) \in Nat \ {0}
  <2>1. /\ p \in Nat /\ PieceOffset(l, p) \in Nat /\ PieceEnd(l, p) \in Nat
        /\ \/ PieceEnd(l, p) = PieceOffset(l, p) + l.pieceLength
           \/ PieceEnd(l, p) = TotalLength(l)
        /\ l.pieceLength \in Nat \ {0} /\ TotalLength(l) \in Nat
    BY PieceBounds, TotalType DEF IsLayout
  <2>2. PieceOffset(l, p) < TotalLength(l)
    BY <2>1, PiecesBegin
  <2> QED BY <2>1, <2>2
<1>3. [f \in FilesOf(l) |-> FilePieces(l, f)]
         \in [1 .. Len(l.lens) -> SUBSET PiecesOf(l)]
  BY DEF FilesOf, FilePieces
<1>4. ASSUME NEW p \in PiecesOf(l)
      PROVE  AffectedFiles(l, p) = {f \in FilesOf(l) : p \in FilePieces(l, f)}
  <2>1. CASE Len(l.lens) = 1
    BY <2>1, SingleFileNeedsAll DEF AffectedFiles
  <2>2. CASE Len(l.lens) # 1
    <3>1. ASSUME NEW f \in FilesOf(l)
          PROVE  p \in FilePieces(l, f) <=> StartPiece(l, f) <= p /\ p <= EndPiece(l, f)
      <4>1. StartPiece(l, f) \in Nat /\ EndPiece(l, f) \in Nat /\ p \in Nat
        BY FileBounds, PieceBounds, Quotient DEF StartPiece, EndPiece, IsLayout
      <4> QED BY <4>1 DEF FilePieces
    <3> QED BY <2>2, <3>1 DEF AffectedFiles
  <2> QED BY <2>1, <2>2
<1> QED BY <1>1, <1>2, <1>3, <1>4, SingleFileNeedsAll

------------------------------------------------------------------------------
(* Evictions and downloads.                                                *)

RowsHaveTheirPieces == \A f \in rows : FilePieces(layout, f) \subseteq complete

RegionsInv == TypeOK /\ RowsHaveTheirPieces /\ DiskHoldsCompletePieces

LEMMA BytesInFile ==
    ASSUME NEW l, IsLayout(l), NEW f \in FilesOf(l), NEW p
    PROVE  PieceBytes(l, p, f) \subseteq BytesOf(l, f) /\ BytesOf(l, f) \subseteq Nat
BY FileBounds DEF PieceBytes, BytesOf

LEMMA RegionsInit == Init => RegionsInv
<1> SUFFICES ASSUME Init PROVE RegionsInv
  OBVIOUS
<1>1. TypeOK
  BY DEF Init, TypeOK
<1>2. RowsHaveTheirPieces /\ DiskHoldsCompletePieces
  BY DEF Init, RowsHaveTheirPieces, DiskHoldsCompletePieces
<1> QED BY <1>1, <1>2 DEF RegionsInv

LEMMA RegionsNext == RegionsInv /\ [Next]_vars => RegionsInv'
<1> SUFFICES ASSUME RegionsInv, [Next]_vars PROVE RegionsInv'
  OBVIOUS
<1> USE DEF RegionsInv
<1>0. /\ layout' = layout /\ IsLayout(layout) /\ layout \in Layouts
      /\ complete \subseteq PiecesOf(layout) /\ rows \subseteq FilesOf(layout)
  BY LayoutsAssumption DEF TypeOK, Next, Download, EvictPiece, AddRows, vars
<1>1. ASSUME stored' = [f \in FilesOf(layout) |-> stored'[f]],
             \A f \in FilesOf(layout) : stored'[f] \subseteq BytesOf(layout, f),
             complete' \subseteq PiecesOf(layout), rows' \subseteq FilesOf(layout)
      PROVE  TypeOK'
  <2>1. \A f \in FilesOf(layout) : stored'[f] \in SUBSET Nat
    BY <1>0, <1>1, BytesInFile
  <2> HIDE DEF FilesOf, BytesOf
  <2> QED BY <1>0, <1>1, <2>1 DEF TypeOK
<1>2. ASSUME NEW p \in PiecesOf(layout), Download(p) PROVE RegionsInv'
  <2>1. /\ stored' = [f \in FilesOf(layout) |->
                         stored[f] \cup PieceBytes(layout, p, f)]
        /\ complete' = complete \cup {p} /\ rows' = rows
    BY <1>2 DEF Download
  <2>2. TypeOK'
    BY <1>0, <1>1, <2>1, BytesInFile DEF TypeOK
  <2>3. RowsHaveTheirPieces'
    BY <1>0, <2>1 DEF RowsHaveTheirPieces
  <2>4. DiskHoldsCompletePieces'
    BY <1>0, <2>1 DEF DiskHoldsCompletePieces
  <2> QED BY <2>2, <2>3, <2>4
<1>3. ASSUME NEW p \in PiecesOf(layout), EvictPiece(p) PROVE RegionsInv'
  <2>1. /\ stored' = [f \in FilesOf(layout) |->
                         stored[f] \ PieceBytes(layout, p, f)]
        /\ complete' = complete \ {p}
        /\ rows' = rows \ AffectedFiles(layout, p)
    BY <1>0, <1>3, RegionsAreThePiece DEF EvictPiece
  <2>2. TypeOK'
    BY <1>0, <1>1, <2>1 DEF TypeOK
  <2>3. RowsHaveTheirPieces'
    BY <1>0, <2>1, NeededIsAffected DEF RowsHaveTheirPieces
  <2>4. ASSUME NEW f \in FilesOf(layout), NEW q \in complete \ {p}
        PROVE  PieceBytes(layout, q, f) \cap PieceBytes(layout, p, f) = {}
    <3>1. ASSUME NEW b \in PieceBytes(layout, q, f), b \in PieceBytes(layout, p, f)
          PROVE  FALSE
      BY <1>0, <3>1, BytesInFile, ByteHasPiece
    <3> QED BY <3>1
  <2>5. DiskHoldsCompletePieces'
    BY <1>0, <2>1, <2>4 DEF DiskHoldsCompletePieces
  <2> QED BY <2>2, <2>3, <2>5
<1>4. CASE AddRows
  <2>1. /\ UNCHANGED <<stored, complete>>
        /\ rows' = rows \cup {f \in FilesOf(layout) :
                                 FilePieces(layout, f) \subseteq complete}
    BY <1>4 DEF AddRows
  <2>2. TypeOK'
    BY <1>0, <1>1, <2>1 DEF TypeOK
  <2>3. RowsHaveTheirPieces'
    BY <1>0, <2>1 DEF RowsHaveTheirPieces
  <2>4. DiskHoldsCompletePieces'
    BY <1>0, <2>1 DEF DiskHoldsCompletePieces
  <2> QED BY <2>2, <2>3, <2>4
<1>5. CASE UNCHANGED vars
  BY <1>5 DEF vars, TypeOK, RowsHaveTheirPieces, DiskHoldsCompletePieces
<1> QED BY <1>2, <1>3, <1>4, <1>5 DEF Next

LEMMA RegionsInvariant == Spec => []RegionsInv
BY RegionsInit, RegionsNext, PTL DEF Spec

\* Data is only ever kept at bytes of files, and rows only for files, whatever the
\* lengths of the files and of the pieces.
THEOREM RegionsType == Spec => []TypeOK
<1>1. RegionsInv => TypeOK
  BY DEF RegionsInv
<1> QED BY <1>1, RegionsInvariant, PTL

\* For every layout the regions that an eviction punches (pieceFileRegions, mmap.go)
\* are the bytes of its piece: the disk holds what is complete, no byte more and no
\* byte less, although a piece may lie in many files and a file in many pieces.
THEOREM DiskAlwaysHoldsPieces == Spec => []DiskHoldsCompletePieces
<1>1. RegionsInv => DiskHoldsCompletePieces
  BY DEF RegionsInv
<1> QED BY <1>1, RegionsInvariant, PTL

\* For every layout a file with a row in file_completion is whole on the disk: the
\* range of pieces that completes a file (piece_completion.go) covers all its bytes,
\* and the test that invalidates its row (uncompleteAffectedFiles, mmap.go) is met by
\* every piece of that range.
THEOREM RowsAlwaysMeanWholeFiles == Spec => []RowMeansWholeFile
<1>1. RegionsInv => RowMeansWholeFile
  <2> SUFFICES ASSUME RegionsInv, NEW f \in rows
               PROVE  stored[f] = BytesOf(layout, f)
    BY DEF RowMeansWholeFile
  <2>1. /\ IsLayout(layout) /\ f \in FilesOf(layout)
        /\ FilePieces(layout, f) \subseteq complete
        /\ stored[f] = UNION {PieceBytes(layout, p, f) : p \in complete}
    BY LayoutsAssumption
       DEF RegionsInv, TypeOK, RowsHaveTheirPieces, DiskHoldsCompletePieces
  <2>2. ASSUME NEW b \in BytesOf(layout, f)
        PROVE  \E q \in complete : b \in PieceBytes(layout, q, f)
    <3>1. PICK q \in FilePieces(layout, f) :
             \A p \in PiecesOf(layout) : b \in PieceBytes(layout, p, f) <=> p = q
      BY <2>1, ByteHasPiece
    <3>2. q \in PiecesOf(layout)
      BY DEF FilePieces
    <3> QED BY <2>1, <3>1, <3>2
  <2> QED BY <2>1, <2>2, BytesInFile
<1> QED BY <1>1, RegionsInvariant, PTL

------------------------------------------------------------------------------
(* Which directory the digits of a torrent give.                           *)

LEMMA MaxDigitsType == MaxDigits \in Nat
BY SMT DEF MaxDigits

LEMMA IntervalBounds ==
    ASSUME NEW n \in Nat \ {0}
    PROVE  /\ interval(n) \in Nat
           /\ n * interval(n) <= total
           /\ total < n * interval(n) + n
<1>1. total \in Nat
  BY MaxDigitsType DEF total
<1> QED BY <1>1 DEF interval

\* The directories do not overlap.
LEMMA FirstIsUnique ==
    ASSUME NEW n \in Nat \ {0}, NEW digits \in Digits,
           NEW i \in 1 .. n, NEW j \in 1 .. n,
           IsFirst(n, digits, i), IsFirst(n, digits, j)
    PROVE  i = j
<1> DEFINE x == interval(n)
<1>1. x \in Nat
  BY IntervalBounds
<1>2. ASSUME NEW a \in 1 .. n, NEW b \in 1 .. n, a < b,
             IsFirst(n, digits, a), IsFirst(n, digits, b)
      PROVE  FALSE
  <2>1. digits * 1000 < a * x /\ (b - 1) * x <= digits * 1000
    BY <1>2 DEF IsFirst
  <2>2. a * x <= (b - 1) * x
    BY <1>1, <1>2, Growing
  <2>3. a * x \in Nat /\ (b - 1) * x \in Nat /\ digits * 1000 \in Nat
    BY <1>1, MaxDigitsType DEF Digits
  <2> QED BY <2>1, <2>2, <2>3
<1> QED BY <1>2

\* The digits fffff are beyond the end of the last directory, however many there
\* are: such a torrent is given no directory and no error (common.go:34).
THEOREM LastDigitsAreLost ==
    ASSUME NEW n \in Nat \ {0}
    PROVE  DistributeByHash(n, MaxDigits) = NoDir
<1> SUFFICES ASSUME NEW i \in 1 .. n, IsFirst(n, MaxDigits, i) PROVE FALSE
  BY DEF DistributeByHash
<1>1. interval(n) \in Nat /\ n * interval(n) <= total
  BY IntervalBounds
<1>2. i * interval(n) <= n * interval(n)
  BY <1>1, Growing
<1>3. total < i * interval(n)
  BY DEF IsFirst, total
<1>4. total \in Nat /\ i * interval(n) \in Nat /\ n * interval(n) \in Nat
  BY <1>1, MaxDigitsType DEF total
<1> QED BY <1>1, <1>2, <1>3, <1>4

\* What DistributeByHash returns, when it returns a directory.
LEMMA ChosenIsFirst ==
    ASSUME NEW n \in Nat \ {0}, NEW digits \in Digits,
           DistributeByHash(n, digits) # NoDir
    PROVE  /\ DistributeByHash(n, digits) \in 1 .. n
           /\ IsFirst(n, digits, DistributeByHash(n, digits))
<1>1. \E i \in 1 .. n : IsFirst(n, digits, i)
  BY DEF DistributeByHash
<1> QED BY <1>1 DEF DistributeByHash

\* All other torrents have a directory, up to a thousand of them: the remainder of
\* the division is lost behind the last one, and is shorter than the distance of
\* two digits (common.go:26).
THEOREM OthersHaveTheirs ==
    ASSUME NEW n \in 1 .. 1000, NEW digits \in Digits, digits # MaxDigits
    PROVE  /\ DistributeByHash(n, digits) \in 1 .. n
           /\ IsFirst(n, digits, DistributeByHash(n, digits))
<1> DEFINE x == interval(n)
           num == digits * 1000
           i == (num \div x) + 1
<1>1. x \in Nat /\ n * x <= total /\ total < n * x + n
  BY IntervalBounds
<1>2. /\ digits \in Nat /\ digits + 1 <= MaxDigits
      /\ total = MaxDigits * 1000
      /\ num \in Nat
  BY MaxDigitsType DEF Digits, total
<1>3. num < n * x
  <2>1. num + 1000 <= total
    BY <1>2, MaxDigitsType
  <2>2. n * x \in Nat
    BY <1>1
  <2> QED BY <1>1, <1>2, <2>1, <2>2, MaxDigitsType
<1>4. x > 0
  <2>1. x = 0 => n * x = 0
    OBVIOUS
  <2> QED BY <1>1, <1>2, <1>3, <2>1
<1> HIDE DEF x, num
<1>5. i \in Nat /\ (i - 1) * x <= num /\ num < i * x
  BY <1>1, <1>2, <1>4
<1> HIDE DEF i
<1>6. i - 1 < n
  <2>1. n <= i - 1 => n * x <= (i - 1) * x
    BY <1>1, <1>5, Growing
  <2>2. (i - 1) * x \in Int /\ n * x \in Int
    BY <1>1, <1>5
  <2> QED BY <1>2, <1>3, <1>5, <2>1, <2>2
<1>7. i \in 1 .. n
  <2>1. i # 0
    BY <1>1, <1>2, <1>5
  <2> QED BY <1>5, <1>6, <2>1
<1>8. IsFirst(n, digits, i)
  BY <1>5 DEF IsFirst, x, num
<1>9. DistributeByHash(n, digits) # NoDir
  BY <1>7, <1>8 DEF DistributeByHash, NoDir
<1> QED BY <1>9, ChosenIsFirst

\* A directory that is added behind the others moves torrents to later ones only.
\* Those that move leave their data behind, and FileCacheMap does not find it.
THEOREM AddedDirMovesUp ==
    ASSUME NEW n \in Nat \ {0}, NEW digits \in Digits,
           DistributeByHash(n, digits) # NoDir,
           DistributeByHash(n + 1, digits) # NoDir
    PROVE  DistributeByHash(n, digits) <= DistributeByHash(n + 1, digits)
<1> DEFINE x == interval(n)
           y == interval(n + 1)
           i == DistributeByHash(n, digits)
           j == DistributeByHash(n + 1, digits)
<1>1. /\ x \in Nat /\ n * x <= total /\ total < n * x + n
      /\ y \in Nat /\ (n + 1) * y <= total /\ total \in Nat
  BY IntervalBounds, MaxDigitsType DEF total
<1>2. y <= x
  <2> SUFFICES ASSUME x + 1 <= y PROVE FALSE
    BY <1>1
  <2>1. (n + 1) * (x + 1) <= (n + 1) * y
    <3>1. (n + 1) * (y - (x + 1)) >= 0
      BY <1>1
    <3> QED BY <1>1, <3>1
  <2>2. (n + 1) * (x + 1) = n * x + n + x + 1
    BY <1>1
  <2> QED BY <1>1, <2>1, <2>2
<1>3. /\ i \in 1 .. n /\ (i - 1) * x <= digits * 1000
      /\ j \in 1 .. n + 1 /\ digits * 1000 < j * y
  BY ChosenIsFirst DEF IsFirst
<1> HIDE DEF x, y, i, j
<1>4. SUFFICES ASSUME j < i PROVE FALSE
  BY <1>3 DEF i, j
<1>5. j * y <= j * x
  <2>1. j * (x - y) >= 0
    BY <1>1, <1>2, <1>3
  <2> QED BY <1>1, <1>3, <2>1
<1>6. j * x <= (i - 1) * x
  BY <1>1, <1>3, <1>4, Growing
<1>7. /\ j * y \in Nat /\ j * x \in Nat /\ (i - 1) * x \in Nat
      /\ digits * 1000 \in Nat
  BY <1>1, <1>3, MaxDigitsType DEF Digits
<1> QED BY <1>3, <1>5, <1>6, <1>7
=============================================================================
