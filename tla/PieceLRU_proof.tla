---------------------------- MODULE PieceLRU_proof ----------------------------
(***************************************************************************)
(* Proofs about the LRU tracker, for any pieces of any sizes, any budget   *)
(* and any sequence of calls.                                              *)
(***************************************************************************)
EXTENDS PieceLRUCalls, FiniteSetTheorems, TLAPS

------------------------------------------------------------------------------
(* Induction over the natural numbers: a set of them has a least element.  *)

Less == {ss \in Nat \X Nat : ss[1] < ss[2]}

LEMMA LessWellFounded == IsWellFoundedOn(Less, Nat)
<1>1. OpToRel(<, Nat) = Less
  BY DEF OpToRel, Less
<1> QED BY <1>1, NatLessThanWellFounded

LEMMA LeastOf ==
    ASSUME NEW T \in SUBSET Nat, T # {}
    PROVE  \E n \in T : \A m \in T : n <= m
<1>1. PICK n \in T : \A m \in T : ~ (<<m, n>> \in Less)
  BY LessWellFounded, WFMin
<1>2. n \in Nat /\ \A m \in T : m \in Nat
  OBVIOUS
<1>3. \A m \in T : <<m, n>> \notin Less
  BY <1>1
<1>4. ASSUME NEW m \in T PROVE n <= m
  <2>1. ~ (m < n)
    BY <1>2, <1>3 DEF Less
  <2> QED BY <1>2, <2>1
<1> QED BY <1>4

LEMMA GreatestOf ==
    ASSUME NEW n \in Nat, NEW T \in SUBSET (1 .. n), T # {}
    PROVE  \E i \in T : \A j \in T : j <= i
<1> DEFINE gaps == {k \in Nat : n - k \in T}
<1>1. gaps \in SUBSET Nat
  OBVIOUS
<1>2. gaps # {}
  <2>1. PICK i \in T : TRUE
    OBVIOUS
  <2>2. i \in 1 .. n /\ n - i \in Nat /\ n - (n - i) = i
    OBVIOUS
  <2> QED BY <2>1, <2>2
<1>3. PICK k \in gaps : \A m \in gaps : k <= m
  BY <1>1, <1>2, LeastOf
<1>4. k \in Nat /\ n - k \in T
  OBVIOUS
<1>5. ASSUME NEW j \in T PROVE j <= n - k
  <2>1. j \in 1 .. n /\ n - j \in Nat /\ n - (n - j) = j
    OBVIOUS
  <2>2. k <= n - j
    BY <1>3, <2>1
  <2> QED BY <1>4, <2>1, <2>2
<1> QED BY <1>4, <1>5

------------------------------------------------------------------------------
(* Bytes of sets of pieces.                                                *)

LEMMA PieceSets ==
    ASSUME NEW S \in SUBSET Pieces
    PROVE  IsFiniteSet(S) /\ Cardinality(S) \in Nat
BY PiecesAssumption, FS_Subset, FS_CardinalityType

LEMMA BytesOfOne ==
    ASSUME NEW p \in Pieces
    PROVE  /\ IsFiniteSet({p} \X (1 .. Size[p]))
           /\ Cardinality({p} \X (1 .. Size[p])) = Size[p]
<1>1. Size[p] \in Nat /\ Size[p] > 0
  BY SizeAssumption
<1>2. IsFiniteSet({p}) /\ Cardinality({p}) = 1
  BY FS_Singleton
<1>3. IsFiniteSet(1 .. Size[p]) /\ Cardinality(1 .. Size[p]) = Size[p]
  <2>1. PICK n \in Nat : n = Size[p]
    BY <1>1
  <2>2. IsFiniteSet(1 .. n) /\ Cardinality(1 .. n) = IF 1 > n THEN 0 ELSE n - 1 + 1
    BY FS_Interval
  <2>3. Cardinality(1 .. n) = n
    BY <2>2
  <2> QED BY <2>1, <2>2, <2>3
<1>4. /\ IsFiniteSet({p} \X (1 .. Size[p]))
      /\ Cardinality({p} \X (1 .. Size[p])) =
            Cardinality({p}) * Cardinality(1 .. Size[p])
  BY <1>2, <1>3, FS_Product, Zenon
<1> QED BY <1>1, <1>2, <1>3, <1>4

LEMMA BytesFinite ==
    ASSUME NEW S \in SUBSET Pieces
    PROVE  IsFiniteSet(BytesOf(S)) /\ SumSize(S) \in Nat
<1> DEFINE f == [p \in S |-> {p} \X (1 .. Size[p])]
           T == {{p} \X (1 .. Size[p]) : p \in S}
<1>1. f \in Surjection(S, T)
  BY DEF Surjection
<1>2. IsFiniteSet(T)
  BY <1>1, PieceSets, FS_Surjection
<1>3. \A U \in T : IsFiniteSet(U)
  BY BytesOfOne
<1>4. IsFiniteSet(UNION T)
  BY <1>2, <1>3, FS_UNION
<1> QED BY <1>4, FS_CardinalityType DEF BytesOf, SumSize

LEMMA SumOfNone == SumSize({}) = 0
<1>1. BytesOf({}) = {}
  BY DEF BytesOf
<1> QED BY <1>1, FS_EmptySet DEF SumSize

LEMMA SumOfUnion ==
    ASSUME NEW S \in SUBSET Pieces, NEW T \in SUBSET Pieces, S \cap T = {}
    PROVE  SumSize(S \cup T) = SumSize(S) + SumSize(T)
<1>1. BytesOf(S \cup T) = BytesOf(S) \cup BytesOf(T)
  BY DEF BytesOf
<1>2. BytesOf(S) \cap BytesOf(T) = {}
  BY DEF BytesOf
<1>3. Cardinality({}) = 0
  BY FS_EmptySet
<1>4. /\ IsFiniteSet(BytesOf(S)) /\ IsFiniteSet(BytesOf(T))
      /\ Cardinality(BytesOf(S)) \in Nat /\ Cardinality(BytesOf(T)) \in Nat
  BY BytesFinite DEF SumSize
<1>5. Cardinality(BytesOf(S) \cup BytesOf(T)) =
        Cardinality(BytesOf(S)) + Cardinality(BytesOf(T))
          - Cardinality(BytesOf(S) \cap BytesOf(T))
  BY <1>4, FS_Union
<1>6. SumSize(S \cup T) = SumSize(S) + SumSize(T) - 0
  BY <1>1, <1>2, <1>3, <1>5 DEF SumSize
<1> QED BY <1>4, <1>6 DEF SumSize

LEMMA SumOfOne ==
    ASSUME NEW p \in Pieces
    PROVE  SumSize({p}) = Size[p]
<1>1. BytesOf({p}) = {p} \X (1 .. Size[p])
  BY DEF BytesOf
<1> QED BY <1>1, BytesOfOne DEF SumSize

LEMMA SumOfMore ==
    ASSUME NEW S \in SUBSET Pieces, NEW T \in SUBSET S
    PROVE  /\ SumSize(T) <= SumSize(S)
           /\ SumSize(S \ T) = SumSize(S) - SumSize(T)
<1>1. T \in SUBSET Pieces /\ S \ T \in SUBSET Pieces /\ T \cap (S \ T) = {}
  OBVIOUS
<1>2. SumSize(T \cup (S \ T)) = SumSize(T) + SumSize(S \ T)
  BY <1>1, SumOfUnion
<1>3. T \cup (S \ T) = S
  OBVIOUS
<1>4. SumSize(S) \in Nat /\ SumSize(T) \in Nat /\ SumSize(S \ T) \in Nat
  BY <1>1, BytesFinite
<1>5. SumSize(S) = SumSize(T) + SumSize(S \ T)
  BY <1>2, <1>3
<1> HIDE DEF SumSize
<1> QED BY <1>4, <1>5

LEMMA SumWithPiece ==
    ASSUME NEW S \in SUBSET Pieces, NEW p \in Pieces
    PROVE  /\ p \notin S => SumSize(S \cup {p}) = SumSize(S) + Size[p]
           /\ p \in S => SumSize(S \ {p}) = SumSize(S) - Size[p]
<1>1. {p} \in SUBSET Pieces
  OBVIOUS
<1>2. CASE p \notin S
  BY <1>1, <1>2, SumOfUnion, SumOfOne
<1>3. CASE p \in S
  BY <1>3, SumOfMore, SumOfOne
<1> QED BY <1>2, <1>3

------------------------------------------------------------------------------
(* Lists.                                                                  *)

Elems(list) == {list[i] : i \in DOMAIN list}

Distinct(list) == \A i, j \in DOMAIN list : list[i] = list[j] => i = j

LEMMA ElemsType ==
    ASSUME NEW list \in Seq(Pieces)
    PROVE  Elems(list) \in SUBSET Pieces /\ SumSize(Elems(list)) \in Nat
<1>1. Elems(list) \in SUBSET Pieces
  BY DEF Elems
<1> QED BY <1>1, BytesFinite

\* A list holds no piece twice if it is as long as the set of its pieces.
LEMMA DistinctLength ==
    ASSUME NEW S, NEW list \in Seq(S)
    PROVE  Distinct(list) <=> Len(list) = Cardinality(Elems(list))
<1>1. Len(list) \in Nat /\ DOMAIN list = 1 .. Len(list)
  OBVIOUS
<1>2. IsFiniteSet(1 .. Len(list)) /\ Cardinality(1 .. Len(list)) = Len(list)
  <2>1. PICK n \in Nat : n = Len(list)
    BY <1>1
  <2>2. /\ IsFiniteSet(1 .. n)
        /\ Cardinality(1 .. n) = IF 1 > n THEN 0 ELSE n - 1 + 1
    BY FS_Interval
  <2>3. Cardinality(1 .. n) = n
    BY <2>2
  <2> QED BY <2>1, <2>2, <2>3
<1>3. list \in Surjection(1 .. Len(list), Elems(list))
  BY <1>1 DEF Surjection, Elems
<1>4. Cardinality(Elems(list)) = Cardinality(1 .. Len(list))
        <=> list \in Injection(1 .. Len(list), Elems(list))
  BY <1>2, <1>3, FS_Surjection
<1>5. list \in Injection(1 .. Len(list), Elems(list)) <=> Distinct(list)
  BY <1>1, <1>3 DEF Injection, IsInjective, Distinct, Surjection
<1> QED BY <1>2, <1>4, <1>5

LEMMA Joined ==
    ASSUME NEW a \in Seq(Pieces), NEW b \in Seq(Pieces)
    PROVE  /\ a \o b \in Seq(Pieces)
           /\ Len(a \o b) = Len(a) + Len(b)
           /\ \A k \in 1 .. Len(a) : (a \o b)[k] = a[k]
           /\ \A k \in 1 .. Len(b) : (a \o b)[Len(a) + k] = b[k]
OBVIOUS

LEMMA WithoutType ==
    ASSUME NEW list \in Seq(Pieces), NEW i \in DOMAIN list
    PROVE  /\ Without(list, i) \in Seq(Pieces)
           /\ Len(Without(list, i)) = Len(list) - 1
           /\ \A k \in 1 .. Len(list) - 1 :
                 Without(list, i)[k] = IF k < i THEN list[k] ELSE list[k + 1]
<1> DEFINE front == SubSeq(list, 1, i - 1)
           back == SubSeq(list, i + 1, Len(list))
<1>1. /\ front \in Seq(Pieces) /\ Len(front) = i - 1
      /\ \A k \in 1 .. i - 1 : front[k] = list[k]
  OBVIOUS
<1>2. /\ back \in Seq(Pieces) /\ Len(back) = Len(list) - i
      /\ \A k \in 1 .. Len(list) - i : back[k] = list[i + k]
  OBVIOUS
<1>3. Len(list) \in Nat /\ i \in 1 .. Len(list)
  OBVIOUS
<1>4. Without(list, i) = front \o back
  BY DEF Without
<1> HIDE DEF front, back
<1> PICK short : short = Without(list, i)
  OBVIOUS
<1>5. /\ short \in Seq(Pieces)
      /\ Len(short) = Len(front) + Len(back)
      /\ \A k \in 1 .. Len(front) : short[k] = front[k]
      /\ \A k \in 1 .. Len(back) : short[Len(front) + k] = back[k]
  BY <1>1, <1>2, <1>4, Joined
<1>6. ASSUME NEW k \in 1 .. Len(list) - 1
      PROVE  short[k] = IF k < i THEN list[k] ELSE list[k + 1]
  <2>1. CASE k < i
    <3>1. k \in 1 .. i - 1 /\ k \in 1 .. Len(front)
      BY <1>1, <1>3, <2>1
    <3> QED BY <1>1, <1>5, <2>1, <3>1
  <2>2. CASE ~ (k < i)
    <3>1. PICK m \in 1 .. Len(list) - i : m = k - (i - 1)
      BY <1>3, <2>2
    <3>2. Len(front) + m = k /\ i + m = k + 1
      BY <1>1, <1>3, <3>1
    <3>3. m \in 1 .. Len(back) /\ back[m] = list[i + m]
      BY <1>2, <3>1
    <3>4. short[Len(front) + m] = back[m]
      BY <1>5, <3>3
    <3> QED BY <2>2, <3>2, <3>3, <3>4
  <2> QED BY <2>1, <2>2
<1>7. Len(short) = Len(list) - 1
  BY <1>1, <1>2, <1>3, <1>5
<1> QED BY <1>5, <1>6, <1>7

LEMMA WithoutElems ==
    ASSUME NEW list \in Seq(Pieces), NEW i \in DOMAIN list, Distinct(list)
    PROVE  /\ Distinct(Without(list, i))
           /\ Elems(Without(list, i)) = Elems(list) \ {list[i]}
<1> PICK short : short = Without(list, i)
  OBVIOUS
<1>1. /\ short \in Seq(Pieces) /\ Len(short) = Len(list) - 1
      /\ \A k \in 1 .. Len(list) - 1 :
            short[k] = IF k < i THEN list[k] ELSE list[k + 1]
  BY WithoutType
<1>2. /\ Len(list) \in Nat /\ i \in 1 .. Len(list) /\ DOMAIN list = 1 .. Len(list)
      /\ DOMAIN short = 1 .. Len(list) - 1
  BY <1>1
<1> DEFINE from(k) == IF k < i THEN k ELSE k + 1
           to(k) == IF k < i THEN k ELSE k - 1
<1>3. \A k \in DOMAIN short : from(k) \in DOMAIN list \ {i} /\ short[k] = list[from(k)]
  BY <1>1, <1>2
<1>4. \A k \in DOMAIN list \ {i} : to(k) \in DOMAIN short /\ from(to(k)) = k
  BY <1>2
<1>5. \A k, m \in DOMAIN short : from(k) = from(m) => k = m
  BY <1>2
<1> HIDE DEF from, to
<1>6. Distinct(short)
  BY <1>3, <1>5 DEF Distinct
<1>7. Elems(short) \subseteq Elems(list) \ {list[i]}
  BY <1>3 DEF Elems, Distinct
<1>8. Elems(list) \ {list[i]} \subseteq Elems(short)
  <2> SUFFICES ASSUME NEW k \in DOMAIN list, list[k] # list[i]
               PROVE  list[k] \in Elems(short)
    BY DEF Elems
  <2>1. to(k) \in DOMAIN short /\ short[to(k)] = list[k]
    BY <1>3, <1>4
  <2> QED BY <2>1 DEF Elems
<1> QED BY <1>6, <1>7, <1>8

LEMMA PushedFront ==
    ASSUME NEW list \in Seq(Pieces), NEW p \in Pieces
    PROVE  /\ <<p>> \o list \in Seq(Pieces)
           /\ Len(<<p>> \o list) = Len(list) + 1
           /\ Elems(<<p>> \o list) = Elems(list) \cup {p}
           /\ Distinct(list) /\ p \notin Elems(list) => Distinct(<<p>> \o list)
<1> PICK long : long = <<p>> \o list
  OBVIOUS
<1>1. /\ long \in Seq(Pieces) /\ Len(long) = Len(list) + 1
      /\ long[1] = p
      /\ \A k \in 1 .. Len(list) : long[k + 1] = list[k]
  OBVIOUS
<1>2. /\ Len(list) \in Nat /\ DOMAIN list = 1 .. Len(list)
      /\ DOMAIN long = 1 .. Len(list) + 1
  BY <1>1
<1>3. \A k \in DOMAIN long \ {1} : k - 1 \in DOMAIN list /\ long[k] = list[k - 1]
  BY <1>1, <1>2
<1>4. \A k \in DOMAIN list : k + 1 \in DOMAIN long /\ long[k + 1] = list[k]
  BY <1>1, <1>2
<1>5. 1 \in DOMAIN long
  BY <1>2
<1>6. Elems(long) = Elems(list) \cup {p}
  <2>1. Elems(long) \subseteq Elems(list) \cup {p}
    BY <1>1, <1>3 DEF Elems
  <2>2. Elems(list) \subseteq Elems(long) /\ p \in Elems(long)
    BY <1>1, <1>4, <1>5 DEF Elems
  <2> QED BY <2>1, <2>2
<1>7. ASSUME Distinct(list), p \notin Elems(list) PROVE Distinct(long)
  <2> SUFFICES ASSUME NEW i \in DOMAIN long, NEW j \in DOMAIN long,
                      long[i] = long[j]
               PROVE  i = j
    BY DEF Distinct
  <2>1. CASE i = 1 /\ j # 1
    BY <1>1, <1>3, <1>7, <2>1 DEF Elems
  <2>2. CASE i # 1 /\ j = 1
    BY <1>1, <1>3, <1>7, <2>2 DEF Elems
  <2>3. CASE i # 1 /\ j # 1
    <3>1. i - 1 = j - 1
      BY <1>3, <1>7, <2>3 DEF Distinct
    <3> QED BY <1>2, <3>1
  <2> QED BY <2>1, <2>2, <2>3
<1> QED BY <1>1, <1>6, <1>7

LEMMA PushedBack ==
    ASSUME NEW list \in Seq(Pieces), NEW s \in Seq(Pieces)
    PROVE  /\ list \o s \in Seq(Pieces)
           /\ Elems(list \o s) = Elems(list) \cup Elems(s)
           /\ Distinct(list) /\ Distinct(s) /\ Elems(list) \cap Elems(s) = {}
                => Distinct(list \o s)
<1> PICK long : long = list \o s
  OBVIOUS
<1> PICK n : n = Len(list)
  OBVIOUS
<1>1. /\ long \in Seq(Pieces) /\ Len(long) = n + Len(s)
      /\ \A k \in 1 .. n : long[k] = list[k]
      /\ \A k \in 1 .. Len(s) : long[n + k] = s[k]
  OBVIOUS
<1>2. /\ n \in Nat /\ DOMAIN list = 1 .. n
      /\ Len(s) \in Nat /\ DOMAIN s = 1 .. Len(s)
      /\ DOMAIN long = 1 .. n + Len(s)
  BY <1>1
<1>3. \A k \in DOMAIN list : k \in DOMAIN long /\ long[k] = list[k]
  BY <1>1, <1>2
<1>4. \A k \in DOMAIN long \ DOMAIN list :
         k - n \in DOMAIN s /\ long[k] = s[k - n]
  <2> SUFFICES ASSUME NEW k \in DOMAIN long, k \notin DOMAIN list
               PROVE  k - n \in DOMAIN s /\ long[k] = s[k - n]
    OBVIOUS
  <2>1. k - n \in 1 .. Len(s) /\ n + (k - n) = k
    BY <1>2
  <2> QED BY <1>1, <1>2, <2>1
<1>5. \A k \in DOMAIN s : n + k \in DOMAIN long /\ long[n + k] = s[k]
  BY <1>1, <1>2
<1>6. Elems(long) = Elems(list) \cup Elems(s)
  <2>1. Elems(long) \subseteq Elems(list) \cup Elems(s)
    BY <1>3, <1>4 DEF Elems
  <2>2. Elems(list) \subseteq Elems(long)
    BY <1>3 DEF Elems
  <2>3. Elems(s) \subseteq Elems(long)
    BY <1>5 DEF Elems
  <2> QED BY <2>1, <2>2, <2>3
<1>7. ASSUME Distinct(list), Distinct(s), Elems(list) \cap Elems(s) = {}
      PROVE  Distinct(long)
  <2> SUFFICES ASSUME NEW i \in DOMAIN long, NEW j \in DOMAIN long,
                      long[i] = long[j]
               PROVE  i = j
    BY DEF Distinct
  <2>1. CASE i \in DOMAIN list /\ j \in DOMAIN list
    BY <1>3, <1>7, <2>1 DEF Distinct
  <2>2. \A k \in DOMAIN list, m \in DOMAIN s : list[k] # s[m]
    BY <1>7 DEF Elems
  <2>3. i \in DOMAIN list <=> j \in DOMAIN list
    BY <1>3, <1>4, <2>2
  <2>4. CASE i \notin DOMAIN list /\ j \notin DOMAIN list
    <3>1. i - n = j - n
      BY <1>4, <1>7, <2>4 DEF Distinct
    <3> QED BY <1>2, <3>1
  <2> QED BY <2>1, <2>2, <2>3, <2>4
<1> QED BY <1>1, <1>6, <1>7

------------------------------------------------------------------------------
(* The lists that hold each element of a set once.                         *)

\* SeqExt has definitions of its own of the operators it extends.
LEMMA SameCardinality ==
    ASSUME NEW S
    PROVE  SeqExt!Cardinality(S) = Cardinality(S)
<1>1. SeqExt!IsFiniteSet(S) = IsFiniteSet(S)
  BY DEF SeqExt!IsFiniteSet, IsFiniteSet
<1> QED BY <1>1, Zenon DEF SeqExt!Cardinality, Cardinality

LEMMA SetToSeqsType ==
    ASSUME NEW S, IsFiniteSet(S), NEW s \in SeqExt!SetToSeqs(S)
    PROVE  s \in Seq(S) /\ Distinct(s) /\ Elems(s) = S
<1>1. Cardinality(S) \in Nat
  BY FS_CardinalityType
<1>2. /\ s \in [1 .. Cardinality(S) -> S]
      /\ \A i, j \in 1 .. Cardinality(S) : i # j => s[i] # s[j]
  BY SameCardinality DEF SeqExt!SetToSeqs
<1>3. s \in Seq(S) /\ Distinct(s)
  BY <1>1, <1>2 DEF Distinct
<1>4. s \in Injection(1 .. Cardinality(S), S)
  BY <1>2 DEF Injection, IsInjective
<1>5. Cardinality(1 .. Cardinality(S)) = Cardinality(S)
  <2>1. PICK n \in Nat : n = Cardinality(S)
    BY <1>1
  <2>2. Cardinality(1 .. n) = IF 1 > n THEN 0 ELSE n - 1 + 1
    BY FS_Interval
  <2>3. Cardinality(1 .. n) = n
    BY <2>2
  <2> QED BY <2>1, <2>3
<1>6. s \in Surjection(1 .. Cardinality(S), S)
  BY <1>4, <1>5, FS_Injection
<1>7. Elems(s) = S
  BY <1>2, <1>6 DEF Surjection, Elems
<1> QED BY <1>3, <1>7

------------------------------------------------------------------------------
(* The order of the evictions.                                             *)

LEMMA EvictionOrder ==
    ASSUME NEW list \in Seq(Pieces), NEW prot
    PROVE  /\ \A i \in DOMAIN list : ~ EvictedBefore(list, prot, i, i)
           /\ \A i, j \in DOMAIN list :
                 i = j \/ EvictedBefore(list, prot, i, j)
                       \/ EvictedBefore(list, prot, j, i)
           /\ \A i, j, k \in DOMAIN list :
                 EvictedBefore(list, prot, i, j) /\ EvictedBefore(list, prot, j, k)
                    => EvictedBefore(list, prot, i, k)
<1> DOMAIN list \subseteq Nat
  OBVIOUS
<1> QED BY DEF EvictedBefore

\* The first of several pieces to go.
LEMMA FirstToGo ==
    ASSUME NEW list \in Seq(Pieces), NEW prot,
           NEW T \in SUBSET (DOMAIN list), T # {}
    PROVE  \E j \in T : \A i \in T : i = j \/ EvictedBefore(list, prot, j, i)
<1> DEFINE open == {i \in T : list[i] \notin prot}
           first == IF open # {} THEN open ELSE T
<1>1. Len(list) \in Nat /\ first \in SUBSET (1 .. Len(list)) /\ first # {}
  OBVIOUS
<1>2. PICK j \in first : \A i \in first : i <= j
  BY <1>1, GreatestOf
<1>3. ASSUME NEW i \in T PROVE i = j \/ EvictedBefore(list, prot, j, i)
  <2>1. j \in T /\ i \in Nat /\ j \in Nat
    OBVIOUS
  <2>2. CASE i \in first
    BY <1>2, <2>1, <2>2 DEF EvictedBefore
  <2>3. CASE i \notin first
    BY <2>1, <2>3 DEF EvictedBefore
  <2> QED BY <2>2, <2>3
<1>4. j \in T
  OBVIOUS
<1> QED BY <1>3, <1>4

Before(list, prot, j) == {k \in DOMAIN list : EvictedBefore(list, prot, k, j)}

PiecesAt(list, I) == {list[i] : i \in I}

LEMMA PiecesAtType ==
    ASSUME NEW list \in Seq(Pieces), NEW I \in SUBSET (DOMAIN list), NEW J \in SUBSET I
    PROVE  /\ PiecesAt(list, I) \in SUBSET Elems(list)
           /\ PiecesAt(list, I) \in SUBSET Pieces
           /\ PiecesAt(list, J) \in SUBSET PiecesAt(list, I)
           /\ SumSize(PiecesAt(list, I)) \in Nat
           /\ SumSize(PiecesAt(list, J)) <= SumSize(PiecesAt(list, I))
<1>1. /\ PiecesAt(list, I) \in SUBSET Elems(list)
      /\ PiecesAt(list, I) \in SUBSET Pieces
      /\ PiecesAt(list, J) \in SUBSET PiecesAt(list, I)
  BY DEF PiecesAt, Elems
<1> QED BY <1>1, BytesFinite, SumOfMore

LEMMA MustGoIs ==
    ASSUME NEW list \in Seq(Pieces), NEW prot, NEW u, NEW j \in DOMAIN list
    PROVE  j \in MustGo(list, u, prot)
              <=> u - SumSize(PiecesAt(list, Before(list, prot, j))) > Budget
BY DEF MustGo, PiecesAt, Before

\* Whatever is evicted before a piece that must go must go too.
LEMMA GoFirst ==
    ASSUME NEW list \in Seq(Pieces), NEW prot, NEW u \in Int,
           NEW j \in MustGo(list, u, prot), NEW i \in Before(list, prot, j)
    PROVE  i \in MustGo(list, u, prot)
<1>1. j \in DOMAIN list /\ i \in DOMAIN list
  BY DEF MustGo, Before
<1>2. Before(list, prot, i) \in SUBSET Before(list, prot, j)
  BY <1>1, EvictionOrder DEF Before
<1>3. Before(list, prot, j) \in SUBSET (DOMAIN list)
  BY DEF Before
<1>4. /\ SumSize(PiecesAt(list, Before(list, prot, i)))
           <= SumSize(PiecesAt(list, Before(list, prot, j)))
      /\ SumSize(PiecesAt(list, Before(list, prot, i))) \in Nat
      /\ SumSize(PiecesAt(list, Before(list, prot, j))) \in Nat
  BY <1>2, <1>3, PiecesAtType
<1>5. u - SumSize(PiecesAt(list, Before(list, prot, j))) > Budget
  BY <1>1, MustGoIs
<1>6. u - SumSize(PiecesAt(list, Before(list, prot, i))) > Budget
  BY <1>4, <1>5, BudgetAssumption
<1> QED BY <1>1, <1>6, MustGoIs

\* Without the pieces that must go the rest fits the budget.
LEMMA MustGoFits ==
    ASSUME NEW list \in Seq(Pieces), NEW prot, NEW u \in Int,
           u = SumSize(Elems(list))
    PROVE  u - SumSize(PiecesAt(list, MustGo(list, u, prot))) <= Budget
<1> DEFINE go == MustGo(list, u, prot)
           rest == DOMAIN list \ go
<1>0. go \in SUBSET (DOMAIN list)
  BY DEF MustGo
<1>1. CASE rest = {}
  <2>1. PiecesAt(list, go) = Elems(list)
    BY <1>0, <1>1 DEF PiecesAt, Elems
  <2> QED BY <2>1, BudgetAssumption
<1>2. CASE rest # {}
  <2>1. PICK j \in rest : \A i \in rest : i = j \/ EvictedBefore(list, prot, j, i)
    BY <1>2, FirstToGo
  <2>2. Before(list, prot, j) \in SUBSET go
    BY <2>1, EvictionOrder DEF Before
  <2>3. /\ SumSize(PiecesAt(list, Before(list, prot, j)))
             <= SumSize(PiecesAt(list, go))
        /\ SumSize(PiecesAt(list, go)) \in Nat
    BY <1>0, <2>2, PiecesAtType
  <2>4. SumSize(PiecesAt(list, Before(list, prot, j))) \in Nat
    BY <1>0, <2>2, PiecesAtType
  <2>5. ~ (u - SumSize(PiecesAt(list, Before(list, prot, j))) > Budget)
    BY <2>1, MustGoIs
  <2> HIDE DEF go
  <2>6. u - SumSize(PiecesAt(list, go)) <= Budget
    BY <2>3, <2>4, <2>5, BudgetAssumption
  <2> QED BY <2>6 DEF go
<1> QED BY <1>1, <1>2

LEMMA MustGoFinite ==
    ASSUME NEW list \in Seq(Pieces), NEW prot, NEW u
    PROVE  MustGo(list, u, prot) \in SUBSET (DOMAIN list)
           /\ IsFiniteSet(MustGo(list, u, prot))
<1>1. MustGo(list, u, prot) \in SUBSET (DOMAIN list)
  BY DEF MustGo
<1>2. PICK n \in Nat : n = Len(list)
  OBVIOUS
<1>3. IsFiniteSet(1 .. n)
  BY FS_Interval
<1> QED BY <1>1, <1>2, <1>3, FS_Subset

\* How the evictions are listed: s numbers the places of the list that must go.
Lists(evictions, s, list, u, prot) ==
    /\ s \in Seq(DOMAIN list)
    /\ Distinct(s)
    /\ Elems(s) = MustGo(list, u, prot)
    /\ \A m, n \in DOMAIN s : m < n => EvictedBefore(list, prot, s[m], s[n])
    /\ evictions \in Seq(Pieces)
    /\ Len(evictions) = Len(s)
    /\ \A n \in DOMAIN s : evictions[n] = list[s[n]]

LEMMA EvictionsAre ==
    ASSUME NEW list \in Seq(Pieces), NEW prot, NEW u,
           NEW evictions \in computeEvictions(list, u, prot)
    PROVE  \/ (Budget = 0 \/ u <= Budget) /\ evictions = << >>
           \/ ~ (Budget = 0 \/ u <= Budget)
              /\ \E s : Lists(evictions, s, list, u, prot)
<1> DEFINE go == MustGo(list, u, prot)
<1>1. CASE Budget = 0 \/ u <= Budget
  BY <1>1 DEF computeEvictions
<1>2. CASE ~ (Budget = 0 \/ u <= Budget)
  <2>1. PICK s \in SeqExt!SetToSeqs(go) :
           /\ evictions = [n \in DOMAIN s |-> list[s[n]]]
           /\ \A m, n \in DOMAIN s : m < n => EvictedBefore(list, prot, s[m], s[n])
    BY <1>2, Zenon DEF computeEvictions
  <2>2. go \in SUBSET (DOMAIN list) /\ IsFiniteSet(go)
    BY MustGoFinite
  <2>3. s \in Seq(go) /\ Distinct(s) /\ Elems(s) = go
    BY <2>2, SetToSeqsType
  <2> HIDE DEF go
  <2>4. \A n \in DOMAIN s : s[n] \in DOMAIN list /\ list[s[n]] \in Pieces
    BY <2>2, <2>3
  <2>5. s \in Seq(DOMAIN list)
    BY <2>3, <2>4
  <2>6. evictions \in [1 .. Len(s) -> Pieces]
    BY <2>1, <2>3, <2>4
  <2>7. /\ evictions \in Seq(Pieces)
        /\ Len(evictions) = Len(s)
        /\ \A n \in DOMAIN s : evictions[n] = list[s[n]]
    BY <2>1, <2>3, <2>6
  <2> QED BY <1>2, <2>1, <2>3, <2>5, <2>7, Zenon DEF go, Lists
<1> QED BY <1>1, <1>2

LEMMA EvictionsType ==
    ASSUME NEW list \in Seq(Pieces), NEW prot, NEW u,
           NEW evictions \in computeEvictions(list, u, prot)
    PROVE  evictions \in Seq(Pieces) /\ Elems(evictions) \in SUBSET Elems(list)
<1>1. CASE evictions = << >>
  BY <1>1 DEF Elems
<1>2. ASSUME NEW s, Lists(evictions, s, list, u, prot)
      PROVE  evictions \in Seq(Pieces) /\ Elems(evictions) \in SUBSET Elems(list)
  <2>1. DOMAIN evictions = DOMAIN s /\ \A n \in DOMAIN s : s[n] \in DOMAIN list
    BY <1>2 DEF Lists
  <2> QED BY <1>2, <2>1 DEF Lists, Elems
<1> QED BY <1>1, <1>2, EvictionsAre

\* Once the pieces that computeEvictions returns are gone, the rest fits.
LEMMA EvictionsFit ==
    ASSUME NEW list \in Seq(Pieces), NEW prot, NEW u, u = SumSize(Elems(list)),
           Budget > 0,
           NEW evictions \in computeEvictions(list, u, prot)
    PROVE  u - SumSize(Elems(evictions)) <= Budget
<1>1. u \in Int
  BY ElemsType
<1>2. CASE u <= Budget /\ evictions = << >>
  <2>1. Elems(evictions) = {}
    BY <1>2 DEF Elems
  <2>2. SumSize(Elems(evictions)) = 0
    BY <2>1, SumOfNone
  <2> QED BY <1>1, <1>2, <2>2, BudgetAssumption
<1>3. ASSUME NEW s, Lists(evictions, s, list, u, prot)
      PROVE  u - SumSize(Elems(evictions)) <= Budget
  <2>1. DOMAIN evictions = DOMAIN s
    BY <1>3 DEF Lists
  <2>2. Elems(evictions) = PiecesAt(list, Elems(s))
    BY <1>3, <2>1 DEF Lists, Elems, PiecesAt
  <2>3. Elems(s) = MustGo(list, u, prot)
    BY <1>3 DEF Lists
  <2> QED BY <1>1, <2>2, <2>3, MustGoFits
<1> QED BY <1>2, <1>3, EvictionsAre, BudgetAssumption

\* The places that are listed before place n are those evicted before it.
LEMMA ListedBefore ==
    ASSUME NEW list \in Seq(Pieces), NEW prot, NEW u \in Int, NEW evictions, NEW s,
           Lists(evictions, s, list, u, prot), NEW n \in DOMAIN s
    PROVE  {evictions[i] : i \in 1 .. n - 1} = PiecesAt(list, Before(list, prot, s[n]))
<1> USE DEF Lists
<1>0. /\ DOMAIN s \subseteq Nat /\ DOMAIN s = 1 .. Len(s)
      /\ \A k \in DOMAIN s : s[k] \in DOMAIN list
  OBVIOUS
<1>1. ASSUME NEW i \in 1 .. n - 1
      PROVE  /\ i \in DOMAIN s /\ evictions[i] = list[s[i]]
             /\ s[i] \in Before(list, prot, s[n])
  <2>1. i \in DOMAIN s /\ i < n
    BY <1>0
  <2> QED BY <1>0, <2>1 DEF Before
<1>2. ASSUME NEW k \in Before(list, prot, s[n])
      PROVE  \E i \in 1 .. n - 1 : evictions[i] = list[k]
  <2>1. s[n] \in MustGo(list, u, prot)
    BY DEF Elems
  <2>2. k \in MustGo(list, u, prot)
    BY <2>1, GoFirst
  <2>3. PICK i \in DOMAIN s : s[i] = k
    BY <2>2 DEF Elems
  <2>4. k \in DOMAIN list /\ EvictedBefore(list, prot, k, s[n])
    BY DEF Before
  <2>5. ~ (n < i) /\ n # i
    BY <1>0, <2>3, <2>4, EvictionOrder
  <2>6. i \in 1 .. n - 1
    BY <1>0, <2>5
  <2> QED BY <2>3, <2>6
<1>3. {evictions[i] : i \in 1 .. n - 1} \subseteq PiecesAt(list, Before(list, prot, s[n]))
  BY <1>1 DEF PiecesAt
<1>4. PiecesAt(list, Before(list, prot, s[n])) \subseteq {evictions[i] : i \in 1 .. n - 1}
  BY <1>2 DEF PiecesAt
<1> QED BY <1>3, <1>4

\* What is returned before a piece does not free enough.
LEMMA EvictionsNeeded ==
    ASSUME NEW list \in Seq(Pieces), NEW prot, NEW u \in Int,
           NEW evictions \in computeEvictions(list, u, prot),
           NEW n \in DOMAIN evictions
    PROVE  u - SumSize({evictions[i] : i \in 1 .. n - 1}) > Budget
<1>1. PICK s : Lists(evictions, s, list, u, prot)
  BY EvictionsAre
<1>2. n \in DOMAIN s /\ s[n] \in DOMAIN list /\ s[n] \in MustGo(list, u, prot)
  BY <1>1 DEF Lists, Elems
<1>3. {evictions[i] : i \in 1 .. n - 1} = PiecesAt(list, Before(list, prot, s[n]))
  BY <1>1, <1>2, ListedBefore
<1>4. u - SumSize(PiecesAt(list, Before(list, prot, s[n]))) > Budget
  BY <1>2, MustGoIs
<1> QED BY <1>3, <1>4

FirstOf(list, n) == {list[i] : i \in 1 .. n}

\* A protected piece is returned after all that are not protected, which do not
\* free enough.
LEMMA EvictionsProtect ==
    ASSUME NEW list \in Seq(Pieces), NEW prot, NEW u, u = SumSize(Elems(list)),
           NEW evictions \in computeEvictions(list, u, prot),
           NEW n \in DOMAIN evictions, evictions[n] \in prot
    PROVE  /\ Elems(list) \ prot \subseteq FirstOf(evictions, n - 1)
           /\ SumSize(Elems(list) \cap prot) > Budget
<1>0. u \in Int /\ u \in Nat
  BY ElemsType
<1>1. PICK s : Lists(evictions, s, list, u, prot)
  BY EvictionsAre
<1>2. /\ n \in DOMAIN s /\ s[n] \in DOMAIN list
      /\ list[s[n]] \in prot
  BY <1>1 DEF Lists
<1>3. Elems(list) \ prot \subseteq PiecesAt(list, Before(list, prot, s[n]))
  BY <1>2 DEF Elems, PiecesAt, Before, EvictedBefore
<1>4. {evictions[i] : i \in 1 .. n - 1} = PiecesAt(list, Before(list, prot, s[n]))
  BY <1>0, <1>1, <1>2, ListedBefore
<1>5. u - SumSize(PiecesAt(list, Before(list, prot, s[n]))) > Budget
  BY <1>0, <1>4, EvictionsNeeded
<1>6. /\ PiecesAt(list, Before(list, prot, s[n])) \in SUBSET Pieces
      /\ SumSize(PiecesAt(list, Before(list, prot, s[n]))) \in Nat
  BY PiecesAtType DEF Before
<1>7. /\ SumSize(Elems(list) \ prot)
           <= SumSize(PiecesAt(list, Before(list, prot, s[n])))
      /\ SumSize(Elems(list) \ prot) \in Nat
  BY <1>3, <1>6, SumOfMore, BytesFinite
<1>8. SumSize(Elems(list) \cap prot) = u - SumSize(Elems(list) \ prot)
  <2>1. Elems(list) \cap prot = Elems(list) \ (Elems(list) \ prot)
    OBVIOUS
  <2> QED BY <2>1, ElemsType, SumOfMore
<1>9. SumSize(Elems(list) \cap prot) > Budget
  BY <1>0, <1>5, <1>6, <1>7, <1>8, BudgetAssumption
<1> QED BY <1>3, <1>4, <1>9 DEF FirstOf

------------------------------------------------------------------------------
(* The two loops of computeEvictions.                                      *)

\* The loop as a sequence of turns.
Turns(list, prot, places, start, k, after) ==
    /\ DOMAIN after = 0 .. k
    /\ after[0] = start
    /\ \A m \in 1 .. k : after[m] = Turn(list, prot, after[m - 1], places[m])

LEMMA TurnsExist ==
    ASSUME NEW list, NEW prot, NEW places, NEW start, NEW n \in Nat
    PROVE  \E after : Turns(list, prot, places, start, n, after)
<1> DEFINE T == {i \in Nat : ~ \E after : Turns(list, prot, places, start, i, after)}
<1>1. SUFFICES ASSUME T # {} PROVE FALSE
  OBVIOUS
<1>2. PICK i \in T : \A j \in T : i <= j
  <2>1. T \in SUBSET Nat
    OBVIOUS
  <2> HIDE DEF T
  <2> QED BY <1>1, <2>1, LeastOf
<1>3. CASE i = 0
  <2>1. Turns(list, prot, places, start, 0, [m \in 0 .. 0 |-> start])
    BY DEF Turns
  <2> QED BY <1>3, <2>1
<1>4. CASE i # 0
  <2>1. i \in Nat /\ i - 1 \in Nat /\ ~ (i <= i - 1)
    BY <1>4
  <2>2. PICK after : Turns(list, prot, places, start, i - 1, after)
    BY <1>2, <2>1
  <2> DEFINE next == Turn(list, prot, after[i - 1], places[i])
             more == [m \in 0 .. i |-> IF m = i THEN next ELSE after[m]]
  <2>3. \A m \in 1 .. i : /\ m - 1 \in 0 .. i /\ m - 1 # i /\ m \in 0 .. i
                          /\ m # i => m \in 1 .. i - 1
    BY <2>1
  <2>4. 0 \in 0 .. i /\ 0 # i
    BY <2>1, <1>4
  <2>5. more[0] = start
    BY <2>2, <2>4 DEF Turns
  <2>6. ASSUME NEW m \in 1 .. i
        PROVE  more[m] = Turn(list, prot, more[m - 1], places[m])
    <3>1. more[m - 1] = after[m - 1]
      BY <2>3
    <3>2. CASE m = i
      BY <2>3, <3>1, <3>2
    <3>3. CASE m # i
      BY <2>2, <2>3, <3>1, <3>3 DEF Turns
    <3> QED BY <3>2, <3>3
  <2>7. Turns(list, prot, places, start, i, more)
    BY <2>5, <2>6 DEF Turns
  <2> QED BY <2>7
<1> QED BY <1>3, <1>4

LEMMA LoopIs ==
    ASSUME NEW list, NEW prot, NEW S, NEW places \in Seq(S), NEW start
    PROVE  Turns(list, prot, places, start, Len(places), Loop(list, prot, places, start))
<1> DEFINE n == Len(places)
           Step(after) == [k \in 0 .. n |->
                              IF k = 0
                              THEN start
                              ELSE Turn(list, prot, after[k - 1], places[k])]
           loop == Loop(list, prot, places, start)
<1>1. n \in Nat
  OBVIOUS
<1>2. PICK after : Turns(list, prot, places, start, n, after)
  BY <1>1, TurnsExist
<1>3. \E g : g = Step(g)
  <2> DEFINE g == [k \in 0 .. n |-> after[k]]
  <2> HIDE DEF n
  <2>1. \A k \in 0 .. n : k # 0 => k \in 1 .. n /\ k - 1 \in 0 .. n
    BY <1>1
  <2>2. \A k \in 0 .. n : g[k] = IF k = 0 THEN start
                                 ELSE Turn(list, prot, g[k - 1], places[k])
    BY <1>2, <2>1 DEF Turns
  <2>3. g = Step(g)
    BY <2>2
  <2> HIDE DEF g
  <2> QED BY <2>3
<1>4. loop = CHOOSE g : g = Step(g)
  BY DEF Loop
<1>5. loop = Step(loop)
  BY <1>3, <1>4
<1> HIDE DEF loop
<1>6. DOMAIN loop = 0 .. n
  BY <1>5
<1>7. loop[0] = start
  BY <1>1, <1>5
<1>8. \A m \in 1 .. n : loop[m] = Turn(list, prot, loop[m - 1], places[m])
  BY <1>1, <1>5
<1> QED BY <1>6, <1>7, <1>8 DEF loop, Turns

\* Places of the list in the order of the evictions.
InOrder(list, prot, s) ==
    /\ s \in Seq(DOMAIN list)
    /\ \A m, n \in DOMAIN s : m < n => EvictedBefore(list, prot, s[m], s[n])

LEMMA InOrderOnce ==
    ASSUME NEW list \in Seq(Pieces), NEW prot, NEW s, InOrder(list, prot, s)
    PROVE  Distinct(s)
<1> SUFFICES ASSUME NEW m \in DOMAIN s, NEW n \in DOMAIN s, s[m] = s[n], m # n
             PROVE  FALSE
  BY DEF Distinct
<1>1. m \in Nat /\ n \in Nat /\ s[m] \in DOMAIN list
  BY DEF InOrder
<1>2. m < n \/ n < m
  BY <1>1
<1>3. EvictedBefore(list, prot, s[m], s[m])
  BY <1>2 DEF InOrder
<1> QED BY <1>1, <1>3, EvictionOrder

LEMMA SameFunction ==
    ASSUME NEW D, NEW S, NEW f \in [D -> S], NEW g \in [D -> S],
           \A x \in D : f[x] = g[x]
    PROVE  f = g
OBVIOUS

\* Under a name, which the provers take for what it is.
With(s, j) == Append(s, j)

LEMMA WithType ==
    ASSUME NEW S, NEW s \in Seq(S), NEW j \in S
    PROVE  With(s, j) \in Seq(S)
BY DEF With

LEMMA WithElems ==
    ASSUME NEW S, NEW s \in Seq(S), NEW j \in S
    PROVE  Elems(With(s, j)) = Elems(s) \cup {j}
<1>1. Len(s) \in Nat /\ DOMAIN s = 1 .. Len(s)
  OBVIOUS
<1> PICK t : t = With(s, j)
  OBVIOUS
<1> PICK n : n = Len(s)
  OBVIOUS
<1>2. /\ DOMAIN t = 1 .. n + 1 /\ t[n + 1] = j
      /\ \A k \in 1 .. n : t[k] = s[k]
  BY <1>1 DEF With
<1>3. \A k \in DOMAIN t : k = n + 1 \/ k \in DOMAIN s
  BY <1>1, <1>2
<1>4. \A k \in DOMAIN s : k \in DOMAIN t /\ t[k] = s[k]
  BY <1>1, <1>2
<1>5. n + 1 \in DOMAIN t
  BY <1>1, <1>2
<1>6. Elems(t) \subseteq Elems(s) \cup {j}
  BY <1>2, <1>3, <1>4 DEF Elems
<1>7. Elems(s) \subseteq Elems(t) /\ j \in Elems(t)
  BY <1>2, <1>4, <1>5 DEF Elems
<1> QED BY <1>6, <1>7

\* One more place behind all the others.
LEMMA Appended ==
    ASSUME NEW list \in Seq(Pieces), NEW prot, NEW s, InOrder(list, prot, s),
           NEW j \in DOMAIN list,
           \A i \in Elems(s) : EvictedBefore(list, prot, i, j)
    PROVE  /\ InOrder(list, prot, With(s, j))
           /\ Elems(With(s, j)) = Elems(s) \cup {j}
<1> DEFINE n == Len(s)
<1>1. s \in Seq(DOMAIN list) /\ n \in Nat /\ DOMAIN s = 1 .. n
  BY DEF InOrder
<1> PICK t : t = With(s, j)
  OBVIOUS
<1>2. /\ t \in Seq(DOMAIN list) /\ DOMAIN t = 1 .. n + 1
      /\ t[n + 1] = j
      /\ \A k \in 1 .. n : t[k] = s[k]
  BY <1>1 DEF With
<1> HIDE DEF n
<1>3. \A k \in DOMAIN t : k = n + 1 \/ k \in DOMAIN s
  BY <1>1, <1>2
<1>4. \A k \in DOMAIN s : k \in DOMAIN t /\ t[k] = s[k] /\ s[k] \in Elems(s)
  BY <1>1, <1>2 DEF Elems
<1>5. ASSUME NEW k \in DOMAIN t, NEW m \in DOMAIN t, k < m
      PROVE  EvictedBefore(list, prot, t[k], t[m])
  <2>1. k \in DOMAIN s
    BY <1>1, <1>2, <1>5
  <2>2. CASE m = n + 1
    BY <1>2, <1>4, <2>1, <2>2
  <2>3. CASE m \in DOMAIN s
    BY <1>4, <1>5, <2>1, <2>3 DEF InOrder
  <2> QED BY <1>3, <2>2, <2>3
<1>6. Elems(t) = Elems(s) \cup {j}
  BY <1>1, WithElems
<1> QED BY <1>2, <1>5, <1>6 DEF InOrder

\* There is one way to list places in the order of the evictions.
LEMMA OneOrder ==
    ASSUME NEW list \in Seq(Pieces), NEW prot, NEW s, NEW t,
           InOrder(list, prot, s), InOrder(list, prot, t), Elems(s) = Elems(t)
    PROVE  s = t
<1>1. /\ s \in Seq(DOMAIN list) /\ t \in Seq(DOMAIN list)
      /\ Distinct(s) /\ Distinct(t)
  BY InOrderOnce DEF InOrder
<1>2. Len(s) = Len(t)
  BY <1>1, DistinctLength
<1>3. Len(s) \in Nat /\ DOMAIN s = 1 .. Len(s) /\ DOMAIN t = 1 .. Len(s)
  BY <1>1, <1>2
<1> DEFINE T == {i \in 1 .. Len(s) : s[i] # t[i]}
<1>4. SUFFICES ASSUME T # {} PROVE FALSE
  <2>1. s \in [1 .. Len(s) -> DOMAIN list] /\ t \in [1 .. Len(s) -> DOMAIN list]
    BY <1>1, <1>3
  <2>2. ASSUME T = {} PROVE s = t
    <3>1. \A i \in 1 .. Len(s) : s[i] = t[i]
      BY <2>2
    <3> QED BY <2>1, <3>1, SameFunction
  <2> QED BY <2>2
<1>5. PICK i \in T : \A j \in T : i <= j
  <2>1. T \in SUBSET Nat
    BY <1>3
  <2> HIDE DEF T
  <2> QED BY <1>4, <2>1, LeastOf
<1>6. /\ i \in 1 .. Len(s) /\ s[i] # t[i]
      /\ s[i] \in DOMAIN list /\ t[i] \in DOMAIN list
  BY <1>1, <1>3
<1>7. \A m \in 1 .. Len(s) : m < i => s[m] = t[m]
  BY <1>3, <1>5, <1>6
<1>8. EvictedBefore(list, prot, t[i], s[i])
  <2>1. s[i] \in Elems(t)
    BY <1>3, <1>6 DEF Elems
  <2>2. PICK m \in DOMAIN t : t[m] = s[i]
    BY <2>1 DEF Elems
  <2>3. m # i /\ ~ (m < i)
    BY <1>1, <1>3, <1>6, <1>7, <2>2 DEF Distinct
  <2>4. i < m
    BY <1>3, <1>6, <2>3
  <2> QED BY <1>3, <1>6, <2>2, <2>4 DEF InOrder
<1>9. EvictedBefore(list, prot, s[i], t[i])
  <2>1. t[i] \in Elems(s)
    BY <1>3, <1>6 DEF Elems
  <2>2. PICK m \in DOMAIN s : s[m] = t[i]
    BY <2>1 DEF Elems
  <2>3. m # i /\ ~ (m < i)
    BY <1>1, <1>3, <1>6, <1>7, <2>2 DEF Distinct
  <2>4. i < m
    BY <1>3, <1>6, <2>3
  <2> QED BY <1>3, <1>6, <2>2, <2>4 DEF InOrder
<1> QED BY <1>6, <1>8, <1>9, EvictionOrder

\* What the loops have found so far: the first places in the order of the
\* evictions, all of which must go.
Greedy(list, u, prot, r) ==
    /\ InOrder(list, prot, r.go)
    /\ Elems(r.go) \subseteq MustGo(list, u, prot)
    /\ \A i \in Elems(r.go), j \in DOMAIN list :
          j \in Elems(r.go) \/ EvictedBefore(list, prot, i, j)
    /\ r.sim = u - SumSize(PiecesAt(list, Elems(r.go)))

\* Of the places that r has not found, j is evicted first.
NextToGo(list, prot, r, j) ==
    /\ j \notin Elems(r.go)
    /\ \A i \in DOMAIN list :
          i = j \/ i \in Elems(r.go) \/ EvictedBefore(list, prot, j, i)

Takes(list, r, j, q) ==
    q.go = With(r.go, j) /\ q.sim = r.sim - Size[list[j]]

LEMMA GreedyTakes ==
    ASSUME NEW list \in Seq(Pieces), Distinct(list), NEW u \in Int, NEW prot,
           NEW r, Greedy(list, u, prot, r), r.sim > Budget,
           NEW j \in DOMAIN list, NextToGo(list, prot, r, j),
           NEW q, Takes(list, r, j, q)
    PROVE  /\ Greedy(list, u, prot, q)
           /\ Elems(q.go) = Elems(r.go) \cup {j}
<1> USE DEF NextToGo, Takes
<1> DEFINE gone == Elems(r.go)
<1>1. gone \in SUBSET (DOMAIN list)
  BY DEF Greedy, InOrder, Elems
<1>2. \A i \in gone : EvictedBefore(list, prot, i, j)
  BY DEF Greedy
<1>3. InOrder(list, prot, q.go) /\ Elems(q.go) = gone \cup {j}
  BY <1>2, Appended DEF Greedy
<1>4. Before(list, prot, j) = gone
  BY <1>1, <1>2, EvictionOrder DEF Before
<1>5. j \in MustGo(list, u, prot)
  BY <1>4, MustGoIs DEF Greedy
<1>6. \A i \in Elems(q.go), k \in DOMAIN list :
         k \in Elems(q.go) \/ EvictedBefore(list, prot, i, k)
  BY <1>3 DEF Greedy
<1>7. PiecesAt(list, gone) \in SUBSET Pieces /\ SumSize(PiecesAt(list, gone)) \in Nat
  BY <1>1, PiecesAtType
<1>8. /\ PiecesAt(list, gone \cup {j}) = PiecesAt(list, gone) \cup {list[j]}
      /\ list[j] \notin PiecesAt(list, gone)
      /\ list[j] \in Pieces
  BY <1>1 DEF PiecesAt, Distinct
<1>9. SumSize(PiecesAt(list, gone \cup {j}))
         = SumSize(PiecesAt(list, gone)) + Size[list[j]]
  BY <1>7, <1>8, SumWithPiece
<1>10. Size[list[j]] \in Nat
  BY <1>8, SizeAssumption
<1>11. q.sim = u - SumSize(PiecesAt(list, Elems(q.go)))
  BY <1>3, <1>7, <1>9, <1>10 DEF Greedy
<1>12. Elems(q.go) \subseteq MustGo(list, u, prot)
  BY <1>3, <1>5 DEF Greedy
<1> QED BY <1>3, <1>6, <1>11, <1>12 DEF Greedy

\* When the loops are done, these are all that must go.
LEMMA GreedyIsAll ==
    ASSUME NEW list \in Seq(Pieces), NEW u \in Int, NEW prot,
           NEW r, Greedy(list, u, prot, r),
           r.sim <= Budget \/ Elems(r.go) = DOMAIN list
    PROVE  Elems(r.go) = MustGo(list, u, prot)
<1> DEFINE gone == Elems(r.go)
<1>1. gone \in SUBSET (DOMAIN list) /\ MustGo(list, u, prot) \in SUBSET (DOMAIN list)
  BY DEF Greedy, InOrder, Elems, MustGo
<1> SUFFICES ASSUME NEW j \in MustGo(list, u, prot), j \notin gone
             PROVE  FALSE
  BY DEF Greedy
<1>2. j \in DOMAIN list /\ r.sim <= Budget
  BY <1>1
<1>3. gone \in SUBSET Before(list, prot, j)
  BY <1>1, <1>2 DEF Greedy, Before
<1>4. Before(list, prot, j) \in SUBSET (DOMAIN list)
  BY DEF Before
<1>5. /\ SumSize(PiecesAt(list, gone)) <= SumSize(PiecesAt(list, Before(list, prot, j)))
      /\ SumSize(PiecesAt(list, gone)) \in Nat
      /\ SumSize(PiecesAt(list, Before(list, prot, j))) \in Nat
  BY <1>1, <1>3, <1>4, PiecesAtType
<1>6. u - SumSize(PiecesAt(list, Before(list, prot, j))) > Budget
  BY <1>2, MustGoIs
<1>7. u - SumSize(PiecesAt(list, gone)) <= Budget
  BY <1>2 DEF Greedy
<1> HIDE DEF gone
<1> QED BY <1>5, <1>6, <1>7, BudgetAssumption

Passes(list) == [go : Seq(DOMAIN list), aside : Seq(DOMAIN list), sim : Int]

LEMMA TurnStops ==
    ASSUME NEW list, NEW prot, NEW r, NEW i, r.sim <= Budget
    PROVE  Turn(list, prot, r, i) = r
BY DEF Turn

LEMMA TurnPutsAside ==
    ASSUME NEW list \in Seq(Pieces), NEW prot, NEW r \in Passes(list),
           NEW i \in DOMAIN list, ~ (r.sim <= Budget), list[i] \in prot
    PROVE  /\ Turn(list, prot, r, i) \in Passes(list)
           /\ Turn(list, prot, r, i).go = r.go
           /\ Turn(list, prot, r, i).aside = With(r.aside, i)
           /\ Turn(list, prot, r, i).sim = r.sim
<1>1. Turn(list, prot, r, i) = [r EXCEPT !.aside = With(@, i)]
  BY DEF Turn, With
<1>2. r.aside \in Seq(DOMAIN list)
  BY DEF Passes
<1>3. With(r.aside, i) \in Seq(DOMAIN list)
  BY <1>2, WithType
<1> QED BY <1>1, <1>3 DEF Passes

LEMMA TurnTakes ==
    ASSUME NEW list \in Seq(Pieces), NEW prot, NEW r \in Passes(list),
           NEW i \in DOMAIN list, ~ (r.sim <= Budget), list[i] \notin prot
    PROVE  /\ Turn(list, prot, r, i) \in Passes(list)
           /\ Turn(list, prot, r, i).go = With(r.go, i)
           /\ Turn(list, prot, r, i).aside = r.aside
           /\ Turn(list, prot, r, i).sim = r.sim - Size[list[i]]
<1>1. Turn(list, prot, r, i) = [r EXCEPT !.go = With(@, i), !.sim = @ - Size[list[i]]]
  BY DEF Turn, With
<1>2. /\ r.go \in Seq(DOMAIN list) /\ r.sim \in Int
      /\ list[i] \in Pieces /\ Size[list[i]] \in Nat
  BY SizeAssumption DEF Passes
<1>3. With(r.go, i) \in Seq(DOMAIN list)
  BY <1>2, WithType
<1>4. r.sim - Size[list[i]] \in Int
  BY <1>2
<1> QED BY <1>1, <1>3, <1>4 DEF Passes

\* After k turns of the first loop the last k entries have been met: as long as
\* the bytes left do not fit, those that are not protected go and the others are
\* put aside.
FirstInv(list, u, prot, k, r) ==
    LET met == {i \in DOMAIN list : i > Len(list) - k}
    IN  /\ r \in Passes(list)
        /\ Greedy(list, u, prot, r)
        /\ InOrder(list, prot, r.aside)
        /\ r.sim > Budget =>
             /\ Elems(r.go) = {i \in met : list[i] \notin prot}
             /\ Elems(r.aside) = {i \in met : list[i] \in prot}

\* After k turns of the second the first k of the places put aside go, too.
SecondInv(list, u, prot, aside, k, r) ==
    /\ r \in Passes(list)
    /\ Greedy(list, u, prot, r)
    /\ r.sim > Budget =>
         /\ Elems(aside) = {i \in DOMAIN list : list[i] \in prot}
         /\ Elems(r.go) = {i \in DOMAIN list : list[i] \notin prot}
                            \cup {aside[m] : m \in 1 .. k}

LEMMA FirstStarts ==
    ASSUME NEW list \in Seq(Pieces), NEW u \in Int, NEW prot
    PROVE  FirstInv(list, u, prot, 0, [go |-> << >>, aside |-> << >>, sim |-> u])
<1> DEFINE r == [go |-> << >>, aside |-> << >>, sim |-> u]
<1>1. r \in Passes(list)
  BY DEF Passes
<1>2. InOrder(list, prot, << >>) /\ Elems(<< >>) = {}
  BY DEF InOrder, Elems
<1>3. PiecesAt(list, {}) = {}
  BY DEF PiecesAt
<1>4. Greedy(list, u, prot, r)
  <2>1. r.go = << >> /\ r.sim = u
    OBVIOUS
  <2> HIDE DEF r
  <2>2. SumSize(PiecesAt(list, Elems(r.go))) = 0
    BY <1>2, <1>3, <2>1, SumOfNone, Zenon
  <2> QED BY <1>2, <2>1, <2>2 DEF Greedy
<1>5. {i \in DOMAIN list : i > Len(list) - 0} = {}
  OBVIOUS
<1> QED BY <1>1, <1>2, <1>4, <1>5 DEF FirstInv

LEMMA FirstTurns ==
    ASSUME NEW list \in Seq(Pieces), Distinct(list), NEW u \in Int, NEW prot,
           NEW k \in 1 .. Len(list), NEW r, FirstInv(list, u, prot, k - 1, r),
           NEW q, q = Turn(list, prot, r, Len(list) + 1 - k)
    PROVE  FirstInv(list, u, prot, k, q)
<1> DEFINE n == Len(list)
           j == n + 1 - k
           met == {i \in DOMAIN list : i > n - (k - 1)}
           now == {i \in DOMAIN list : i > n - k}
<1>1. /\ n \in Nat /\ DOMAIN list = 1 .. n /\ k \in 1 .. n
      /\ j \in DOMAIN list /\ list[j] \in Pieces
  OBVIOUS
<1>2. now = met \cup {j} /\ j \notin met
  BY <1>1
<1>3. \A i \in met : i > j
  BY <1>1
<1>4. \A i \in DOMAIN list : i = j \/ i \in met \/ i < j
  BY <1>1
<1>5. /\ r \in Passes(list) /\ Greedy(list, u, prot, r) /\ InOrder(list, prot, r.aside)
      /\ r.sim > Budget =>
           /\ Elems(r.go) = {i \in met : list[i] \notin prot}
           /\ Elems(r.aside) = {i \in met : list[i] \in prot}
  BY DEF FirstInv
<1>6. SUFFICES /\ q \in Passes(list) /\ Greedy(list, u, prot, q)
               /\ InOrder(list, prot, q.aside)
               /\ q.sim > Budget =>
                    /\ Elems(q.go) = {i \in now : list[i] \notin prot}
                    /\ Elems(q.aside) = {i \in now : list[i] \in prot}
  BY DEF FirstInv
<1>7. /\ r.sim \in Int /\ r.go \in Seq(DOMAIN list) /\ r.aside \in Seq(DOMAIN list)
      /\ Size[list[j]] \in Nat
  BY <1>1, <1>5, SizeAssumption DEF Passes
<1>11. q = Turn(list, prot, r, j)
  OBVIOUS
<1> HIDE DEF n, j
<1>8. CASE r.sim <= Budget
  <2>1. q = r
    BY <1>8, <1>11, TurnStops
  <2> QED BY <1>5, <1>7, <1>8, <2>1, BudgetAssumption
<1>9. CASE ~ (r.sim <= Budget) /\ list[j] \in prot
  <2>1. /\ q \in Passes(list)
        /\ q.go = r.go /\ q.aside = With(r.aside, j) /\ q.sim = r.sim
    BY <1>1, <1>5, <1>9, <1>11, TurnPutsAside
  <2>2. q.go = r.go /\ q.aside = With(r.aside, j) /\ q.sim = r.sim
    BY <2>1
  <2>3. q \in Passes(list)
    BY <2>1
  <2>4. Greedy(list, u, prot, q)
    BY <1>5, <2>2 DEF Greedy
  <2>5. r.sim > Budget
    BY <1>7, <1>9, BudgetAssumption
  <2>6. \A i \in Elems(r.aside) : EvictedBefore(list, prot, i, j)
    BY <1>3, <1>5, <1>9, <2>5 DEF EvictedBefore
  <2>7. InOrder(list, prot, q.aside) /\ Elems(q.aside) = Elems(r.aside) \cup {j}
    <3> PICK a : a = r.aside
      OBVIOUS
    <3>1. InOrder(list, prot, a) /\ \A i \in Elems(a) : EvictedBefore(list, prot, i, j)
      BY <1>5, <2>6
    <3>2. InOrder(list, prot, With(a, j)) /\ Elems(With(a, j)) = Elems(a) \cup {j}
      BY <1>1, <3>1, Appended
    <3> QED BY <2>2, <3>2
  <2>8. /\ Elems(q.go) = {i \in now : list[i] \notin prot}
        /\ Elems(q.aside) = {i \in now : list[i] \in prot}
    BY <1>2, <1>5, <1>9, <2>2, <2>5, <2>7
  <2> QED BY <2>3, <2>4, <2>7, <2>8
<1>10. CASE ~ (r.sim <= Budget) /\ list[j] \notin prot
  <2>1. /\ q \in Passes(list)
        /\ q.go = With(r.go, j) /\ q.aside = r.aside
        /\ q.sim = r.sim - Size[list[j]]
    BY <1>1, <1>5, <1>10, <1>11, TurnTakes
  <2>2. q.go = With(r.go, j) /\ q.aside = r.aside /\ q.sim = r.sim - Size[list[j]]
    BY <2>1
  <2>3. q \in Passes(list)
    BY <2>1
  <2>4. r.sim > Budget
    BY <1>7, <1>10, BudgetAssumption
  <2>5. j \notin Elems(r.go)
    BY <1>2, <1>5, <2>4
  <2>6. ASSUME NEW i \in DOMAIN list
        PROVE  i = j \/ i \in Elems(r.go) \/ EvictedBefore(list, prot, j, i)
    <3>1. CASE list[i] \in prot
      BY <1>10, <3>1 DEF EvictedBefore
    <3>2. CASE list[i] \notin prot
      <4>1. i = j \/ i \in Elems(r.go) \/ i < j
        BY <1>4, <1>5, <2>4, <3>2
      <4> QED BY <1>1, <1>10, <3>2, <4>1 DEF EvictedBefore
    <3> QED BY <3>1, <3>2
  <2>7. Greedy(list, u, prot, q) /\ Elems(q.go) = Elems(r.go) \cup {j}
    <3>1. NextToGo(list, prot, r, j) /\ Takes(list, r, j, q)
      BY <2>2, <2>5, <2>6 DEF NextToGo, Takes
    <3> QED BY <1>1, <1>5, <2>4, <3>1, GreedyTakes
  <2>8. /\ Elems(q.go) = {i \in now : list[i] \notin prot}
        /\ Elems(q.aside) = {i \in now : list[i] \in prot}
    BY <1>2, <1>5, <1>10, <2>2, <2>4, <2>7
  <2> QED BY <1>5, <2>2, <2>3, <2>7, <2>8
<1> QED BY <1>8, <1>9, <1>10

LEMMA FirstPassInv ==
    ASSUME NEW list \in Seq(Pieces), Distinct(list), NEW u \in Int, NEW prot
    PROVE  FirstInv(list, u, prot, Len(list), FirstPass(list, u, prot))
<1> DEFINE n == Len(list)
           start == [go |-> << >>, aside |-> << >>, sim |-> u]
           after == Loop(list, prot, FromTheBack(list), start)
           T == {k \in 0 .. n : ~ FirstInv(list, u, prot, k, after[k])}
<1>1. /\ n \in Nat /\ FromTheBack(list) \in Seq(Nat) /\ Len(FromTheBack(list)) = n
      /\ \A k \in 1 .. n : FromTheBack(list)[k] = n + 1 - k
  <2>1. FromTheBack(list) \in [1 .. n -> Nat] /\ n \in Nat
    BY DEF FromTheBack
  <2> QED BY <2>1 DEF FromTheBack
<1>2. Turns(list, prot, FromTheBack(list), start, n, after)
  BY <1>1, LoopIs
<1> HIDE DEF after
<1>3. T = {}
  <2>1. SUFFICES ASSUME T # {} PROVE FALSE
    OBVIOUS
  <2>2. PICK k \in T : \A m \in T : k <= m
    <3>1. T \in SUBSET Nat
      BY <1>1
    <3> HIDE DEF T
    <3> QED BY <2>1, <3>1, LeastOf
  <2>3. CASE k = 0
    <3>1. after[0] = start
      BY <1>2 DEF Turns
    <3> QED BY <2>3, <3>1, FirstStarts
  <2>4. CASE k # 0
    <3>1. k \in 1 .. n /\ k - 1 \in 0 .. n /\ ~ (k <= k - 1)
      BY <1>1, <2>4
    <3>2. FirstInv(list, u, prot, k - 1, after[k - 1])
      BY <2>2, <3>1
    <3>3. after[k] = Turn(list, prot, after[k - 1], n + 1 - k)
      BY <1>1, <1>2, <3>1 DEF Turns
    <3>4. FirstInv(list, u, prot, k, after[k])
      BY <3>1, <3>2, <3>3, FirstTurns
    <3> QED BY <3>4
  <2> QED BY <2>3, <2>4
<1>4. FirstInv(list, u, prot, n, after[n])
  BY <1>1, <1>3
<1> QED BY <1>4 DEF after, FirstPass

LEMMA SecondStarts ==
    ASSUME NEW list \in Seq(Pieces), NEW u \in Int, NEW prot,
           NEW r, FirstInv(list, u, prot, Len(list), r)
    PROVE  SecondInv(list, u, prot, r.aside, 0, r)
<1>1. {i \in DOMAIN list : i > Len(list) - Len(list)} = DOMAIN list
  <2>1. \A i \in DOMAIN list : i > Len(list) - Len(list)
    OBVIOUS
  <2> QED BY <2>1
<1>2. {r.aside[m] : m \in 1 .. 0} = {}
  OBVIOUS
<1> QED BY <1>1, <1>2 DEF FirstInv, SecondInv

LEMMA SecondTurns ==
    ASSUME NEW list \in Seq(Pieces), Distinct(list), NEW u \in Int, NEW prot,
           NEW aside, InOrder(list, prot, aside),
           NEW k \in 1 .. Len(aside), NEW r, SecondInv(list, u, prot, aside, k - 1, r),
           NEW q, q = Turn(list, {}, r, aside[k])
    PROVE  SecondInv(list, u, prot, aside, k, q)
<1>1. /\ aside \in Seq(DOMAIN list) /\ Distinct(aside)
      /\ Len(aside) \in Nat /\ DOMAIN aside = 1 .. Len(aside) /\ k \in DOMAIN aside
  <2>1. aside \in Seq(DOMAIN list)
    BY DEF InOrder
  <2>2. Distinct(aside)
    BY InOrderOnce
  <2> QED BY <2>1, <2>2
<1> PICK j \in DOMAIN list : j = aside[k]
  BY <1>1
<1>2. /\ r \in Passes(list) /\ Greedy(list, u, prot, r)
      /\ r.sim > Budget =>
           /\ Elems(aside) = {i \in DOMAIN list : list[i] \in prot}
           /\ Elems(r.go) = {i \in DOMAIN list : list[i] \notin prot}
                              \cup {aside[m] : m \in 1 .. k - 1}
  BY DEF SecondInv
<1>3. r.sim \in Int
  BY <1>2 DEF Passes
<1>4. q = Turn(list, {}, r, j)
  OBVIOUS
<1>5. CASE r.sim <= Budget
  <2>1. q = r
    BY <1>4, <1>5, TurnStops
  <2>2. ~ (q.sim > Budget)
    BY <1>3, <1>5, <2>1, BudgetAssumption
  <2> QED BY <1>2, <2>1, <2>2 DEF SecondInv
<1>6. CASE ~ (r.sim <= Budget)
  <2>1. /\ q \in Passes(list)
        /\ q.go = With(r.go, j) /\ q.sim = r.sim - Size[list[j]]
    BY <1>2, <1>4, <1>6, TurnTakes
  <2>2. r.sim > Budget
    BY <1>3, <1>6, BudgetAssumption
  <2>3. /\ Elems(aside) = {i \in DOMAIN list : list[i] \in prot}
        /\ Elems(r.go) = {i \in DOMAIN list : list[i] \notin prot}
                           \cup {aside[m] : m \in 1 .. k - 1}
    BY <1>2, <2>2
  <2>4. list[j] \in prot
    BY <1>1, <2>3 DEF Elems
  <2>5. j \notin {aside[m] : m \in 1 .. k - 1}
    <3> SUFFICES ASSUME NEW m \in 1 .. k - 1, aside[m] = aside[k] PROVE FALSE
      OBVIOUS
    <3>1. m \in DOMAIN aside /\ m # k
      BY <1>1
    <3> QED BY <1>1, <3>1 DEF Distinct
  <2>6. j \notin Elems(r.go)
    BY <2>3, <2>4, <2>5
  <2>7. ASSUME NEW i \in DOMAIN list, i # j, i \notin Elems(r.go)
        PROVE  EvictedBefore(list, prot, j, i)
    <3>1. i \in Elems(aside) /\ i \notin {aside[m] : m \in 1 .. k - 1}
      BY <2>3, <2>7
    <3>2. PICK m \in DOMAIN aside : aside[m] = i
      BY <3>1 DEF Elems
    <3>3. m \notin 1 .. k - 1 /\ m # k
      BY <2>7, <3>1, <3>2
    <3>4. k < m
      BY <1>1, <3>2, <3>3
    <3> QED BY <1>1, <3>2, <3>4 DEF InOrder
  <2>8. NextToGo(list, prot, r, j) /\ Takes(list, r, j, q)
    BY <2>1, <2>6, <2>7 DEF NextToGo, Takes
  <2>9. Greedy(list, u, prot, q) /\ Elems(q.go) = Elems(r.go) \cup {j}
    <3>1. Greedy(list, u, prot, r)
      BY <1>2
    <3>2. Greedy(list, u, prot, q)
      BY <2>2, <2>8, <3>1, GreedyTakes
    <3>3. r.go \in Seq(DOMAIN list)
      BY <1>2 DEF Passes
    <3>4. Elems(q.go) = Elems(r.go) \cup {j}
      BY <2>1, <3>3, WithElems
    <3> QED BY <3>2, <3>4
  <2>10. {aside[m] : m \in 1 .. k} = {aside[m] : m \in 1 .. k - 1} \cup {j}
    <3>1. \A m \in 1 .. k : m = k \/ m \in 1 .. k - 1
      BY <1>1
    <3>2. k \in 1 .. k /\ \A m \in 1 .. k - 1 : m \in 1 .. k
      BY <1>1
    <3> QED BY <3>1, <3>2
  <2> QED BY <2>1, <2>3, <2>9, <2>10 DEF SecondInv
<1> QED BY <1>5, <1>6

LEMMA SecondPassInv ==
    ASSUME NEW list \in Seq(Pieces), Distinct(list), NEW u \in Int, NEW prot,
           NEW r, FirstInv(list, u, prot, Len(list), r)
    PROVE  SecondInv(list, u, prot, r.aside, Len(r.aside), SecondPass(list, r))
<1> PICK aside : aside = r.aside
  OBVIOUS
<1>1. InOrder(list, prot, aside) /\ aside \in Seq(DOMAIN list) /\ Len(aside) \in Nat
  BY DEF FirstInv, InOrder
<1> DEFINE n == Len(aside)
           after == Loop(list, {}, aside, r)
           T == {k \in 0 .. n : ~ SecondInv(list, u, prot, aside, k, after[k])}
<1>2. Turns(list, {}, aside, r, n, after)
  BY <1>1, LoopIs
<1> HIDE DEF after
<1>3. T = {}
  <2>1. SUFFICES ASSUME T # {} PROVE FALSE
    OBVIOUS
  <2>2. PICK k \in T : \A m \in T : k <= m
    <3>1. T \in SUBSET Nat
      BY <1>1
    <3> HIDE DEF T
    <3> QED BY <2>1, <3>1, LeastOf
  <2>3. CASE k = 0
    <3>1. after[0] = r
      BY <1>2 DEF Turns
    <3>2. SecondInv(list, u, prot, aside, 0, r)
      BY SecondStarts
    <3> QED BY <2>3, <3>1, <3>2
  <2>4. CASE k # 0
    <3>1. k \in 1 .. n /\ k - 1 \in 0 .. n /\ ~ (k <= k - 1)
      BY <1>1, <2>4
    <3>2. SecondInv(list, u, prot, aside, k - 1, after[k - 1])
      BY <2>2, <3>1
    <3>3. after[k] = Turn(list, {}, after[k - 1], aside[k])
      BY <1>2, <3>1 DEF Turns
    <3>4. SecondInv(list, u, prot, aside, k, after[k])
      BY <1>1, <3>1, <3>2, <3>3, SecondTurns
    <3> QED BY <3>4
  <2> QED BY <2>3, <2>4
<1>4. SecondInv(list, u, prot, aside, n, after[n])
  BY <1>1, <1>3
<1> QED BY <1>4 DEF after, SecondPass

\* The second pass ends with all that must go, in order.
LEMMA SecondPassIs ==
    ASSUME NEW list \in Seq(Pieces), Distinct(list), NEW u \in Int, NEW prot,
           NEW r, r = SecondPass(list, FirstPass(list, u, prot))
    PROVE  InOrder(list, prot, r.go) /\ Elems(r.go) = MustGo(list, u, prot)
<1> PICK f : f = FirstPass(list, u, prot)
  OBVIOUS
<1> PICK aside : aside = f.aside
  OBVIOUS
<1>1. FirstInv(list, u, prot, Len(list), f)
  BY FirstPassInv
<1>2. SecondInv(list, u, prot, aside, Len(aside), r)
  BY <1>1, SecondPassInv
<1>3. aside \in Seq(DOMAIN list)
  BY <1>1 DEF FirstInv, InOrder
<1>4. {aside[m] : m \in 1 .. Len(aside)} = Elems(aside)
  BY <1>3 DEF Elems
<1>5. r.sim > Budget => Elems(r.go) = DOMAIN list
  BY <1>2, <1>4 DEF SecondInv
<1>6. r.sim \in Int /\ Greedy(list, u, prot, r)
  BY <1>2 DEF SecondInv, Passes
<1>7. r.sim <= Budget \/ r.sim > Budget
  BY <1>6, BudgetAssumption
<1>8. Elems(r.go) = MustGo(list, u, prot)
  BY <1>5, <1>6, <1>7, GreedyIsAll
<1> QED BY <1>6, <1>8 DEF Greedy

\* A list of places in order is one of those that computeEvictions picks from.
LEMMA InOrderIsSeq ==
    ASSUME NEW list \in Seq(Pieces), NEW prot, NEW s, InOrder(list, prot, s)
    PROVE  s \in SeqExt!SetToSeqs(Elems(s))
<1>1. s \in Seq(DOMAIN list) /\ Distinct(s)
  BY InOrderOnce DEF InOrder
<1>2. Len(s) = Cardinality(Elems(s))
  BY <1>1, DistinctLength
<1> DEFINE S == Elems(s)
<1>3. /\ Len(s) \in Nat /\ DOMAIN s = 1 .. Cardinality(S)
      /\ s \in [1 .. Cardinality(S) -> S]
  <2>1. Len(s) \in Nat /\ DOMAIN s = 1 .. Len(s) /\ s = [i \in DOMAIN s |-> s[i]]
    BY <1>1
  <2>2. \A i \in DOMAIN s : s[i] \in S
    BY DEF Elems
  <2> HIDE DEF S
  <2>3. s \in [DOMAIN s -> S]
    BY <2>1, <2>2
  <2>4. Len(s) = Cardinality(S)
    BY <1>2 DEF S
  <2> QED BY <2>1, <2>3, <2>4
<1>4. \A i, j \in 1 .. Cardinality(S) : i # j => s[i] # s[j]
  BY <1>1, <1>3 DEF Distinct
<1> HIDE DEF S
<1>5. s \in SeqExt!SetToSeqs(S)
  BY <1>3, <1>4, SameCardinality DEF SeqExt!SetToSeqs
<1> QED BY <1>5 DEF S

\* computeEvictions returns what its loops find, and nothing else.
LEMMA TwoPassesAre ==
    ASSUME NEW list \in Seq(Pieces), Distinct(list), NEW u \in Int, NEW prot
    PROVE  computeEvictions(list, u, prot) = {TwoPasses(list, u, prot)}
<1>1. CASE Budget = 0 \/ u <= Budget
  BY <1>1 DEF computeEvictions, TwoPasses
<1>2. CASE ~ (Budget = 0 \/ u <= Budget)
  <2> DEFINE go == MustGo(list, u, prot)
             r == SecondPass(list, FirstPass(list, u, prot))
             inOrder == {t \in SeqExt!SetToSeqs(go) :
                           \A m, n \in DOMAIN t :
                              m < n => EvictedBefore(list, prot, t[m], t[n])}
  <2>1. InOrder(list, prot, r.go) /\ Elems(r.go) = go
    BY SecondPassIs
  <2>2. r.go \in inOrder
    BY <2>1, InOrderIsSeq DEF InOrder
  <2>3. ASSUME NEW t \in inOrder PROVE t = r.go
    <3>1. go \in SUBSET (DOMAIN list) /\ IsFiniteSet(go)
      BY MustGoFinite
    <3>2. t \in Seq(go) /\ Elems(t) = go
      BY <3>1, SetToSeqsType
    <3>3. t \in Seq(DOMAIN list)
      BY <3>1, <3>2
    <3>4. InOrder(list, prot, t)
      BY <3>3 DEF InOrder
    <3> QED BY <2>1, <3>2, <3>4, OneOrder
  <2>4. computeEvictions(list, u, prot) = {[n \in DOMAIN s |-> list[s[n]]] : s \in inOrder}
    BY <1>2 DEF computeEvictions
  <2>5. TwoPasses(list, u, prot) = [m \in DOMAIN r.go |-> list[r.go[m]]]
    BY <1>2, BudgetAssumption DEF TwoPasses
  <2>6. inOrder = {r.go}
    BY <2>2, <2>3
  <2> HIDE DEF inOrder, r
  <2> QED BY <2>4, <2>5, <2>6
<1> QED BY <1>1, <1>2

------------------------------------------------------------------------------
(* The operations of the tracker.                                          *)

LEMMA PositionType ==
    ASSUME NEW p \in entries
    PROVE  Position(p) \in DOMAIN lruList /\ lruList[Position(p)] = p
BY DEF entries, Position

LEMMA AddType ==
    ASSUME LRUTypeOK, NEW p \in Pieces, Add(p) \/ Touch(p)
    PROVE  LRUTypeOK'
<1>1. ASSUME p \in entries PROVE MovedToFront(p) \in Seq(Pieces)
  <2>1. Without(lruList, Position(p)) \in Seq(Pieces)
    BY <1>1, PositionType, WithoutType DEF LRUTypeOK
  <2> QED BY <2>1 DEF MovedToFront
<1>2. <<p>> \o lruList \in Seq(Pieces)
  BY DEF LRUTypeOK
<1> QED BY <1>1, <1>2 DEF LRUTypeOK, Add, Touch

LEMMA RemoveType ==
    ASSUME LRUTypeOK, NEW p \in Pieces, Remove(p)
    PROVE  LRUTypeOK'
BY PositionType, WithoutType DEF LRUTypeOK, Remove, lruVars

LEMMA MovedLength ==
    ASSUME LRUTypeOK, NEW p \in entries
    PROVE  Len(MovedToFront(p)) = Len(lruList)
<1>1. /\ Without(lruList, Position(p)) \in Seq(Pieces)
      /\ Len(Without(lruList, Position(p))) = Len(lruList) - 1
  BY PositionType, WithoutType DEF LRUTypeOK
<1>2. p \in Pieces
  BY DEF LRUTypeOK, entries
<1>3. Len(MovedToFront(p)) = Len(lruList) - 1 + 1
  BY <1>1, <1>2, PushedFront DEF MovedToFront
<1> QED BY <1>3 DEF LRUTypeOK

\* What the tracker promises, in terms of its list.
LEMMA UsedCountsIs ==
    ASSUME LRUTypeOK
    PROVE  /\ entries = Elems(lruList)
           /\ entries \in SUBSET Pieces
           /\ TrackedOnce <=> Distinct(lruList)
           /\ UsedCountsTrackedPieces <=> Distinct(lruList) /\ used = SumSize(entries)
<1>1. entries = Elems(lruList)
  BY DEF entries, Elems
<1>2. TrackedOnce <=> Distinct(lruList)
  BY <1>1, DistinctLength DEF TrackedOnce, LRUTypeOK
<1>3. Elems(lruList) \in SUBSET Pieces
  BY ElemsType DEF LRUTypeOK
<1> QED BY <1>1, <1>2, <1>3 DEF UsedCountsTrackedPieces

LEMMA UsedCountsNext ==
    ASSUME LRUTypeOK',
           Distinct(lruList'), used' = SumSize(Elems(lruList'))
    PROVE  UsedCountsTrackedPieces'
<1>1. entries' = Elems(lruList')
  BY DEF entries, Elems
<1>2. TrackedOnce'
  BY <1>1, DistinctLength DEF TrackedOnce, LRUTypeOK
<1> QED BY <1>1, <1>2 DEF UsedCountsTrackedPieces

LEMMA TouchEffect ==
    ASSUME LRUTypeOK, UsedCountsTrackedPieces, NEW p \in Pieces, Touch(p)
    PROVE  /\ LRUTypeOK' /\ UsedCountsTrackedPieces'
           /\ entries' = entries /\ used' = used
<1>1. LRUTypeOK' /\ used' = used
  BY AddType DEF Touch
<1>2. CASE p \notin entries
  BY <1>1, <1>2 DEF Touch, UsedCountsTrackedPieces, TrackedOnce, entries
<1>3. CASE p \in entries
  <2>1. /\ Distinct(lruList) /\ used = SumSize(entries)
        /\ entries = Elems(lruList)
    BY UsedCountsIs
  <2> PICK i \in DOMAIN lruList : i = Position(p) /\ lruList[i] = p
    BY <1>3, PositionType
  <2> DEFINE short == Without(lruList, i)
  <2>2. /\ short \in Seq(Pieces) /\ Distinct(short)
        /\ Elems(short) = entries \ {p}
    BY <2>1, WithoutType, WithoutElems DEF LRUTypeOK
  <2>3. lruList' = <<p>> \o short
    BY <1>3 DEF Touch, MovedToFront
  <2> HIDE DEF short
  <2>4. Distinct(lruList') /\ Elems(lruList') = Elems(short) \cup {p}
    BY <2>2, <2>3, PushedFront
  <2>5. Elems(lruList') = entries
    BY <1>3, <2>2, <2>4
  <2>6. entries' = Elems(lruList')
    BY DEF entries, Elems
  <2> QED BY <1>1, <2>1, <2>4, <2>5, <2>6, UsedCountsNext
<1> QED BY <1>2, <1>3

LEMMA AddEffect ==
    ASSUME LRUTypeOK, UsedCountsTrackedPieces, NEW p \in Pieces, Add(p)
    PROVE  /\ LRUTypeOK' /\ UsedCountsTrackedPieces'
           /\ entries' = entries \cup {p}
<1>1. LRUTypeOK'
  BY AddType
<1>2. CASE p \in entries
  BY <1>2, TouchEffect DEF Add
<1>3. CASE p \notin entries
  <2>1. /\ Distinct(lruList) /\ used = SumSize(entries)
        /\ entries = Elems(lruList) /\ entries \in SUBSET Pieces
    BY UsedCountsIs
  <2>2. lruList' = <<p>> \o lruList /\ used' = used + Size[p]
    BY <1>3 DEF Add
  <2>3. Distinct(lruList') /\ Elems(lruList') = entries \cup {p}
    BY <1>3, <2>1, <2>2, PushedFront DEF LRUTypeOK
  <2>4. used' = SumSize(entries \cup {p})
    BY <1>3, <2>1, <2>2, SumWithPiece
  <2>5. entries' = Elems(lruList')
    BY DEF entries, Elems
  <2> QED BY <1>1, <2>3, <2>4, <2>5, UsedCountsNext
<1> QED BY <1>2, <1>3

LEMMA RemoveEffect ==
    ASSUME LRUTypeOK, UsedCountsTrackedPieces, NEW p \in Pieces, Remove(p)
    PROVE  /\ LRUTypeOK' /\ UsedCountsTrackedPieces'
           /\ entries' = entries \ {p}
<1>1. LRUTypeOK'
  BY RemoveType
<1>2. CASE p \notin entries
  BY <1>1, <1>2 DEF Remove, lruVars, UsedCountsTrackedPieces, TrackedOnce, entries
<1>3. CASE p \in entries
  <2>1. /\ Distinct(lruList) /\ used = SumSize(entries)
        /\ entries = Elems(lruList) /\ entries \in SUBSET Pieces
    BY UsedCountsIs
  <2>2. Position(p) \in DOMAIN lruList /\ lruList[Position(p)] = p
    BY <1>3, PositionType
  <2>3. lruList' = Without(lruList, Position(p)) /\ used' = used - Size[p]
    BY <1>3 DEF Remove
  <2>4. Distinct(lruList') /\ Elems(lruList') = entries \ {p}
    BY <2>1, <2>2, <2>3, WithoutElems DEF LRUTypeOK
  <2>5. used' = SumSize(entries \ {p})
    BY <1>3, <2>1, <2>3, SumWithPiece
  <2>6. entries' = Elems(lruList')
    BY DEF entries, Elems
  <2> QED BY <1>1, <2>4, <2>5, <2>6, UsedCountsNext
<1> QED BY <1>2, <1>3

\* A tracker that starts with the pieces found.
LEMMA RecoveredEffect ==
    ASSUME NEW found \in SUBSET Pieces,
           lruList' \in SeqExt!SetToSeqs(found), used' = SumSize(found)
    PROVE  /\ LRUTypeOK' /\ UsedCountsTrackedPieces'
           /\ entries' = found
<1>1. lruList' \in Seq(found) /\ Distinct(lruList') /\ Elems(lruList') = found
  BY PieceSets, SetToSeqsType
<1>2. LRUTypeOK'
  BY <1>1 DEF LRUTypeOK
<1>3. entries' = Elems(lruList')
  BY DEF entries, Elems
<1> QED BY <1>1, <1>2, <1>3, UsedCountsNext

LEMMA RecoverEffect ==
    ASSUME LRUTypeOK, UsedCountsTrackedPieces, NEW found \in SUBSET Pieces,
           Recover(found)
    PROVE  /\ LRUTypeOK' /\ UsedCountsTrackedPieces'
           /\ entries' = entries \cup found
<1> DEFINE new == found \ entries
<1>1. PICK s \in SeqExt!SetToSeqs(new) :
         lruList' = lruList \o s /\ used' = used + SumSize(new)
  BY DEF Recover
<1>2. new \in SUBSET Pieces
  OBVIOUS
<1>3. s \in Seq(Pieces) /\ Distinct(s) /\ Elems(s) = new
  <2>1. s \in Seq(new) /\ Distinct(s) /\ Elems(s) = new
    BY <1>1, <1>2, PieceSets, SetToSeqsType
  <2> QED BY <1>2, <2>1
<1>4. /\ Distinct(lruList) /\ used = SumSize(entries)
      /\ entries = Elems(lruList) /\ entries \in SUBSET Pieces
  BY UsedCountsIs
<1>5. entries \cap new = {} /\ entries \cup new = entries \cup found
  OBVIOUS
<1> HIDE DEF new
<1>6. /\ LRUTypeOK' /\ Distinct(lruList')
      /\ Elems(lruList') = entries \cup new
  BY <1>1, <1>3, <1>4, <1>5, PushedBack DEF LRUTypeOK
<1>7. used' = SumSize(entries \cup new)
  BY <1>1, <1>2, <1>4, <1>5, SumOfUnion
<1>8. entries' = Elems(lruList')
  BY DEF entries, Elems
<1> QED BY <1>5, <1>6, <1>7, <1>8, UsedCountsNext

------------------------------------------------------------------------------
(* The calls of the tracker.                                               *)

CallsInv ==
    /\ CallsTypeOK
    /\ UsedCountsTrackedPieces
    /\ ProtectedGoLast

LEMMA CallsInitInv == CallsInit => CallsInv
<1> SUFFICES ASSUME CallsInit PROVE CallsInv
  OBVIOUS
<1>1. lruList = << >> /\ used = 0 /\ returned = << >> /\ isProtected = {}
  BY DEF CallsInit, LRUInit
<1>2. LRUTypeOK /\ returned \in Seq(Pieces)
  BY <1>1 DEF LRUTypeOK
<1>3. entries = {} /\ Distinct(lruList)
  BY <1>1 DEF entries, Distinct
<1>4. UsedCountsTrackedPieces
  BY <1>1, <1>2, <1>3, UsedCountsIs, SumOfNone
<1>5. ProtectedGoLast
  BY <1>1 DEF ProtectedGoLast
<1> QED
  BY <1>1, <1>2, <1>4, <1>5 DEF CallsInv, CallsTypeOK, UsedCountsTrackedPieces

\* A call that returns the evictions computed from the list it leaves behind.
LEMMA EvictionsReturned ==
    ASSUME CallsInv, NEW p \in Pieces,
           (AddCall(p) /\ p \notin entries) \/ EvictionsCall
    PROVE  /\ returned' \in computeEvictions(lruList', used', isProtected)
           /\ LRUTypeOK' /\ UsedCountsTrackedPieces'
           /\ isProtected' = isProtected
<1>1. CASE AddCall(p) /\ p \notin entries
  <2>1. LRUTypeOK' /\ UsedCountsTrackedPieces'
    BY <1>1, AddEffect DEF AddCall, CallsInv, CallsTypeOK
  <2> QED BY <1>1, <2>1 DEF AddCall, Add, AddReturns
<1>2. CASE EvictionsCall
  BY <1>2 DEF EvictionsCall, CallsInv, CallsTypeOK, LRUTypeOK,
              UsedCountsTrackedPieces, TrackedOnce, entries
<1> QED BY <1>1, <1>2

LEMMA CallsNextInv == CallsInv /\ [CallsNext]_callsVars => CallsInv'
<1> SUFFICES ASSUME CallsInv, [CallsNext]_callsVars PROVE CallsInv'
  OBVIOUS
<1> USE DEF CallsInv, CallsTypeOK
<1>1. ASSUME NEW p \in Pieces, (AddCall(p) /\ p \notin entries) \/ EvictionsCall
      PROVE  CallsInv'
  <2>1. /\ returned' \in computeEvictions(lruList', used', isProtected)
        /\ LRUTypeOK' /\ UsedCountsTrackedPieces'
        /\ isProtected' = isProtected
    BY <1>1, EvictionsReturned
  <2> PICK list \in Seq(Pieces) : list = lruList'
    BY <2>1 DEF LRUTypeOK
  <2>2. used' = SumSize(Elems(list)) /\ entries' = Elems(list)
    BY <2>1 DEF UsedCountsTrackedPieces, entries, Elems
  <2>3. returned' \in Seq(Pieces)
    BY <2>1, EvictionsType
  <2>4. ASSUME NEW n \in DOMAIN returned', returned'[n] \in isProtected
        PROVE  /\ Elems(list) \ isProtected
                     \subseteq {returned'[i] : i \in 1 .. n - 1}
               /\ SumSize(Elems(list) \cap isProtected) > Budget
    <3> PICK u : u = used'
      OBVIOUS
    <3> PICK evictions : evictions = returned'
      OBVIOUS
    <3>1. u = SumSize(Elems(list)) /\ evictions \in computeEvictions(list, u, isProtected)
      BY <2>1, <2>2
    <3>2. n \in DOMAIN evictions /\ evictions[n] \in isProtected
      BY <2>4
    <3>3. /\ Elems(list) \ isProtected \subseteq FirstOf(evictions, n - 1)
          /\ SumSize(Elems(list) \cap isProtected) > Budget
      BY <3>1, <3>2, EvictionsProtect
    <3> QED BY <3>3 DEF FirstOf
  <2>5. ProtectedGoLast'
    BY <2>1, <2>2, <2>4 DEF ProtectedGoLast
  <2> QED BY <2>1, <2>3, <2>5 DEF UsedCountsTrackedPieces
<1>2. ASSUME returned' = << >>, LRUTypeOK', UsedCountsTrackedPieces',
             isProtected' \subseteq Pieces
      PROVE  CallsInv'
  <2>1. DOMAIN returned' = {} /\ returned' \in Seq(Pieces)
    BY <1>2
  <2>2. ProtectedGoLast'
    BY <2>1 DEF ProtectedGoLast
  <2> QED BY <1>2, <2>1, <2>2 DEF UsedCountsTrackedPieces
<1>3. ASSUME NEW p \in Pieces, AddCall(p), p \in entries PROVE CallsInv'
  BY <1>2, <1>3, AddEffect DEF AddCall, AddReturns
<1>4. ASSUME NEW p \in Pieces, TouchCall(p) PROVE CallsInv'
  BY <1>2, <1>4, TouchEffect DEF TouchCall
<1>5. ASSUME NEW p \in Pieces, RemoveCall(p) PROVE CallsInv'
  BY <1>2, <1>5, RemoveEffect DEF RemoveCall
<1>6. CASE RecoverCall
  BY <1>2, <1>6, RecoverEffect DEF RecoverCall
<1>7. CASE Protect
  <2>1. LRUTypeOK' /\ UsedCountsTrackedPieces'
    BY <1>7 DEF Protect, lruVars, LRUTypeOK, UsedCountsTrackedPieces, TrackedOnce,
                entries
  <2> QED BY <1>2, <1>7, <2>1 DEF Protect
<1>8. CASE UNCHANGED callsVars
  BY <1>8 DEF callsVars, LRUTypeOK, UsedCountsTrackedPieces, TrackedOnce, entries,
              ProtectedGoLast
<1>9. CASE EvictionsCall
  <2>1. CASE Pieces = {}
    <3>1. lruList = << >> /\ used = 0
      <4>1. entries = {}
        BY <2>1, UsedCountsIs
      <4>2. lruList \in Seq(Pieces) /\ DOMAIN lruList = {}
        BY <4>1 DEF entries, LRUTypeOK
      <4> QED BY <4>1, <4>2, SumOfNone DEF UsedCountsTrackedPieces
    <3>2. returned' = << >>
      BY <1>9, <3>1, BudgetAssumption DEF EvictionsCall, computeEvictions
    <3>3. LRUTypeOK' /\ UsedCountsTrackedPieces'
      BY <1>9 DEF EvictionsCall, LRUTypeOK, UsedCountsTrackedPieces, TrackedOnce,
                  entries
    <3> QED BY <1>2, <1>9, <3>2, <3>3 DEF EvictionsCall
  <2> QED BY <1>1, <1>9, <2>1
<1> QED BY <1>1, <1>3, <1>4, <1>5, <1>6, <1>7, <1>8, <1>9 DEF CallsNext

LEMMA CallsInvariant == CallsSpec => []CallsInv
BY CallsInitInv, CallsNextInv, PTL DEF CallsSpec

\* The tracker's list holds pieces and no piece twice, whatever calls are made in
\* whatever order: its map of elements (piece_lru.go:19) is one to one.
THEOREM CallsTypeInvariant == CallsSpec => []CallsTypeOK
<1>1. CallsInv => CallsTypeOK
  BY DEF CallsInv
<1> QED BY <1>1, CallsInvariant, PTL

\* PieceLRU.used (piece_lru.go:18) is the number of bytes of the tracked pieces
\* after any calls, also of pieces added twice, removed twice or recovered after
\* they were added.
THEOREM CallsCountBytes == CallsSpec => []UsedCountsTrackedPieces
<1>1. CallsInv => UsedCountsTrackedPieces
  BY DEF CallsInv
<1> QED BY <1>1, CallsInvariant, PTL

\* A piece for which isProtected holds is among the evictions only behind every
\* tracked piece for which it does not, and only if the protected pieces alone
\* are over budget (the second pass of computeEvictions, piece_lru.go:179).
THEOREM ProtectedAlwaysLast == CallsSpec => []ProtectedGoLast
<1>1. CallsInv => ProtectedGoLast
  BY DEF CallsInv
<1> QED BY <1>1, CallsInvariant, PTL

\* Whatever calls came before, the evictions computed by Add and by the sweep
\* bring the tracker within its budget, and without the last of them it would
\* stay over it: both passes of computeEvictions (piece_lru.go:149) stop neither
\* too early nor too late, for any sizes of the pieces.
THEOREM EvictionsAlwaysJustEnough == CallsSpec => EvictionsJustEnough
<1>1. ASSUME CallsInv, NEW p \in Pieces,
             (AddCall(p) /\ p \notin entries) \/ EvictionsCall, Budget > 0
      PROVE  /\ used' - SumSize(returnedSet') <= Budget
             /\ returned' # << >> =>
                  used' - SumSize({returned'[i] : i \in 1 .. Len(returned') - 1})
                    > Budget
  <2>1. /\ returned' \in computeEvictions(lruList', used', isProtected)
        /\ LRUTypeOK' /\ UsedCountsTrackedPieces'
    BY <1>1, EvictionsReturned
  <2> PICK list \in Seq(Pieces) : list = lruList'
    BY <2>1 DEF LRUTypeOK
  <2>2. used' = SumSize(Elems(list))
    BY <2>1 DEF UsedCountsTrackedPieces, entries, Elems
  <2>3. used' \in Int
    BY <2>2, ElemsType
  <2>4. returned' \in Seq(Pieces)
    BY <2>1, EvictionsType
  <2>5. returnedSet' = Elems(returned')
    BY DEF returnedSet, Elems
  <2>6. used' - SumSize(returnedSet') <= Budget
    BY <1>1, <2>1, <2>2, <2>5, EvictionsFit
  <2>7. returned' # << >> => Len(returned') \in DOMAIN returned'
    BY <2>4
  <2> QED BY <2>1, <2>3, <2>6, <2>7, EvictionsNeeded
<1> DEFINE JustEnough ==
      \A p \in Pieces :
         ((AddCall(p) /\ p \notin entries) \/ EvictionsCall) /\ Budget > 0 =>
             /\ used' - SumSize(returnedSet') <= Budget
             /\ returned' # << >> =>
                  used' - SumSize({returned'[i] : i \in 1 .. Len(returned') - 1})
                    > Budget
<1>2. CallsInv /\ [CallsNext]_callsVars => [JustEnough]_callsVars
  BY <1>1
<1> QED BY <1>2, CallsInvariant, PTL DEF CallsSpec, EvictionsJustEnough

\* The places that computeEvictions lists are those that its two loops
\* (piece_lru.go:168) come to one after the other, whatever calls came before: the
\* order and the condition by which the model states them leave one answer, that
\* of the loops, for lists of any length.
THEOREM EvictionsAlwaysTwoPasses == CallsSpec => []EvictionsAreTwoPasses
<1>1. CallsInv => EvictionsAreTwoPasses
  <2> SUFFICES ASSUME CallsInv PROVE EvictionsAreTwoPasses
    OBVIOUS
  <2>1. LRUTypeOK /\ UsedCountsTrackedPieces
    BY DEF CallsInv, CallsTypeOK
  <2>2. Distinct(lruList) /\ used = SumSize(Elems(lruList)) /\ lruList \in Seq(Pieces)
    BY <2>1, UsedCountsIs DEF LRUTypeOK
  <2>3. used \in Int
    BY <2>2, ElemsType
  <2> QED BY <2>2, <2>3, TwoPassesAre DEF EvictionsAreTwoPasses
<1> QED BY <1>1, CallsInvariant, PTL
=============================================================================
