---------------------------- MODULE RefHeapProofs ----------------------------
(***************************************************************************)
(* Proofs about RefHeap, for every number of cells and of references: every*)
(* count is the number of references there are, what is alive is what can  *)
(* be reached, and no release takes apart what is still reached.           *)
(*                                                                         *)
(* The loops of the model are recursive functions.  What they compute is   *)
(* shown by induction over their turns, and the induction is that of       *)
(* NatSetInduction: a set of numbers, not an operator.                     *)
(***************************************************************************)
EXTENDS RefHeap, SequenceTheorems, FunctionTheorems, FiniteSetTheorems, WellFoundedInduction, TLAPS

\* A set that contains 0 and what follows each of its members has every number.
LEMMA NatSetInduction ==
    ASSUME NEW T, 0 \in T, \A n \in Nat : n \in T => n + 1 \in T
    PROVE  Nat \subseteq T
<1> DEFINE F == Nat \ T
           R == OpToRel(<, Nat)
<1> SUFFICES ASSUME F # {} PROVE FALSE
    OBVIOUS
<1>1. PICK x \in F : \A y \in F : <<y, x>> \notin R
  <2> HIDE DEF R
  <2>1. IsWellFoundedOn(R, Nat)
    BY NatLessThanWellFounded DEF R
  <2> QED BY <2>1, WFMin
<1>2. x \in Nat /\ x # 0 /\ x - 1 \in Nat
    OBVIOUS
<1>3. x - 1 \in F
    BY <1>2
<1>4. <<x - 1, x>> \in R
    BY <1>2 DEF OpToRel
<1> QED BY <1>1, <1>3, <1>4

-----------------------------------------------------------------------------
(***************************************************************************)
(* How often an element occurs in a sequence.                              *)
(***************************************************************************)
Same(a, x) == IF a = x THEN 1 ELSE 0

Positions(s, x) == {k \in 1..Len(s) : s[k] = x}

\* A number of occurrences is a natural number.
LEMMA TimesPositions ==
    ASSUME NEW s \in Seq(Nat), NEW x
    PROVE  /\ Times(s, x) = Cardinality(Positions(s, x))
           /\ IsFiniteSet(Positions(s, x))
           /\ Times(s, x) \in Nat
<1>1. DOMAIN s = 1..Len(s) /\ Len(s) \in Nat
    BY LenProperties
<1>2. IsFiniteSet(1..Len(s))
    BY <1>1, FS_Interval
<1>3. IsFiniteSet(Positions(s, x))
    BY <1>2, FS_Subset DEF Positions
<1> QED BY <1>1, <1>3, FS_CardinalityType DEF Times, Positions

\* An element occurs at a place exactly if it occurs at least once.
LEMMA TimesOccurs ==
    ASSUME NEW s \in Seq(Nat), NEW x
    PROVE  Times(s, x) > 0 <=> \E k \in 1..Len(s) : s[k] = x
<1>1. Times(s, x) = 0 <=> Positions(s, x) = {}
    BY TimesPositions, FS_EmptySet
<1>2. Times(s, x) \in Nat
    BY TimesPositions
<1>3. Positions(s, x) # {} <=> \E k \in 1..Len(s) : s[k] = x
    BY DEF Positions
<1> QED BY <1>1, <1>2, <1>3

\* Nothing occurs in the empty sequence.
LEMMA TimesEmpty == \A x : Times(<<>>, x) = 0
<1> TAKE x
<1>1. {k \in DOMAIN <<>> : <<>>[k] = x} = {}
    OBVIOUS
<1> QED BY <1>1, FS_EmptySet DEF Times

\* An element appended occurs once more, any other as often as before.
LEMMA TimesAppend ==
    ASSUME NEW s \in Seq(Nat), NEW a \in Nat, NEW x
    PROVE  Times(Append(s, a), x) = Times(s, x) + Same(a, x)
<1>1. /\ Append(s, a) \in Seq(Nat) /\ Len(s) \in Nat
      /\ Len(Append(s, a)) = Len(s) + 1
      /\ \A i \in 1..Len(s) : Append(s, a)[i] = s[i]
      /\ Append(s, a)[Len(s) + 1] = a
    BY AppendProperties, LenProperties
<1>2. Len(s) + 1 \notin Positions(s, x)
    BY <1>1 DEF Positions
<1>3. CASE a = x
  <2>1. Positions(Append(s, a), x) = Positions(s, x) \cup {Len(s) + 1}
    BY <1>1, <1>3 DEF Positions
  <2>2. IsFiniteSet(Positions(s, x)) /\ Times(s, x) = Cardinality(Positions(s, x))
    BY TimesPositions
  <2>3. Cardinality(Positions(Append(s, a), x)) = Cardinality(Positions(s, x)) + 1
    BY <2>1, <2>2, <1>2, FS_AddElement
  <2>4. Times(Append(s, a), x) = Cardinality(Positions(Append(s, a), x))
    BY <1>1, TimesPositions
  <2> QED BY <2>2, <2>3, <2>4, <1>3 DEF Same
<1>4. CASE a # x
  <2>1. Positions(Append(s, a), x) = Positions(s, x)
    BY <1>1, <1>4 DEF Positions
  <2>2. Times(s, x) = Cardinality(Positions(s, x)) /\ Times(s, x) \in Nat
    BY TimesPositions
  <2>3. Times(Append(s, a), x) = Cardinality(Positions(Append(s, a), x))
    BY <1>1, TimesPositions
  <2> QED BY <2>1, <2>2, <2>3, <1>4 DEF Same
<1> QED BY <1>3, <1>4

\* Occurrences add up.
LEMMA TimesConcat ==
    ASSUME NEW s \in Seq(Nat), NEW t \in Seq(Nat), NEW x
    PROVE  Times(s \o t, x) = Times(s, x) + Times(t, x)
<1> DEFINE m == Len(s)
           S == Positions(s, x)
           T == Positions(t, x)
           U == {m + j : j \in T}
           f == [j \in T |-> m + j]
<1>1. /\ s \o t \in Seq(Nat) /\ m \in Nat /\ Len(t) \in Nat
      /\ Len(s \o t) = m + Len(t)
      /\ \A i \in 1..m + Len(t) : (s \o t)[i] = IF i <= m THEN s[i] ELSE t[i - m]
    BY ConcatProperties, LenProperties
<1>2. f \in Bijection(T, U)
  <2>1. f \in [T -> U]
    OBVIOUS
  <2>2. \A i, j \in T : f[i] = f[j] => i = j
    BY <1>1 DEF Positions
  <2>3. \A u \in U : \E j \in T : f[j] = u
    OBVIOUS
  <2> QED BY <2>1, <2>2, <2>3, Fun_IsBij
<1>3. IsFiniteSet(U) /\ Cardinality(U) = Cardinality(T)
    BY <1>2, TimesPositions, FS_Bijection DEF ExistsBijection
<1>4. Positions(s \o t, x) = S \cup U
    BY <1>1 DEF Positions
<1>5. S \cap U = {}
    BY <1>1 DEF Positions
<1>6. Cardinality(S \cup U) = Cardinality(S) + Cardinality(U)
  <2>1. IsFiniteSet(S) /\ Cardinality(S) \in Nat /\ Cardinality(U) \in Nat
    BY <1>3, TimesPositions, FS_CardinalityType
  <2>2. Cardinality(S \cap U) = 0
    BY <1>5, FS_EmptySet
  <2>3. Cardinality(S \cup U) = Cardinality(S) + Cardinality(U) - Cardinality(S \cap U)
    BY <1>3, <2>1, FS_Union
  <2> QED BY <2>1, <2>2, <2>3
<1> QED BY <1>1, <1>3, <1>4, <1>6, TimesPositions

\* Occurrences in a list of one.
LEMMA TimesSingle ==
    ASSUME NEW a \in Nat, NEW x
    PROVE  Times(<<a>>, x) = Same(a, x)
<1>1. Append(<<>>, a) = <<a>> /\ <<>> \in Seq(Nat)
    OBVIOUS
<1>2. Times(Append(<<>>, a), x) = Times(<<>>, x) + Same(a, x)
    BY <1>1, TimesAppend
<1> QED BY <1>1, <1>2, TimesEmpty DEF Same

\* An element between two sequences is one occurrence more.
LEMMA TimesMiddle ==
    ASSUME NEW A \in Seq(Nat), NEW B \in Seq(Nat), NEW a \in Nat, NEW x
    PROVE  Times((A \o <<a>>) \o B, x) = Times(A \o B, x) + Same(a, x)
<1>1. <<a>> \in Seq(Nat)
    OBVIOUS
<1>2. A \o <<a>> \in Seq(Nat)
    BY <1>1, ConcatProperties
<1>3. Times((A \o <<a>>) \o B, x) = Times(A \o <<a>>, x) + Times(B, x)
    BY <1>2, TimesConcat
<1>4. Times(A \o <<a>>, x) = Times(A, x) + Times(<<a>>, x)
    BY <1>1, TimesConcat, ZenonT(40)
<1>5. Times(<<a>>, x) = Same(a, x)
    BY TimesSingle
<1>6. Times(A \o B, x) = Times(A, x) + Times(B, x)
    BY TimesConcat
<1>7. Times(A, x) \in Nat /\ Times(B, x) \in Nat
    BY TimesPositions
<1> HIDE DEF Times
<1> QED BY <1>3, <1>4, <1>5, <1>6, <1>7 DEF Same

\* Taking one occurrence out leaves one less of that element and brings in no other.
LEMMA TimesWithout ==
    ASSUME NEW s \in Seq(Nat), NEW a \in Nat, Times(s, a) > 0, NEW x
    PROVE  /\ Without(s, a) \in Seq(Nat)
           /\ Times(s, x) = Times(Without(s, a), x) + Same(a, x)
           /\ \A k \in DOMAIN Without(s, a) : Times(s, Without(s, a)[k]) > 0
<1> DEFINE k == CHOOSE j \in DOMAIN s : s[j] = a
           A == SubSeq(s, 1, k - 1)
           B == SubSeq(s, k + 1, Len(s))
<1>1. Len(s) \in Nat /\ DOMAIN s = 1..Len(s)
    BY LenProperties
<1>2. k \in 1..Len(s) /\ s[k] = a
    BY <1>1, TimesOccurs
<1> HIDE DEF k
<1>3. A \in Seq(Nat) /\ B \in Seq(Nat) /\ <<a>> \in Seq(Nat)
    BY <1>1, <1>2, SubSeqProperties, ElementOfSeq
<1>4. SubSeq(s, 1, k) = A \o <<a>>
    BY <1>1, <1>2, SubSeqRecursiveSecond
<1>5. s = SubSeq(s, 1, k) \o B
  <2>1. SubSeq(s, 1, Len(s)) = s
    BY SubSeqFull
  <2>2. SubSeq(s, 1, k) \o SubSeq(s, k + 1, Len(s)) = SubSeq(s, 1, Len(s))
    <3>1. 1 \in 1..Len(s)+1 /\ k \in 1-1..Len(s) /\ Len(s) \in k..Len(s)
        BY <1>1, <1>2
    <3> QED BY <3>1, ConcatAdjacentSubSeq
  <2> QED BY <2>1, <2>2
<1>6. Without(s, a) = A \o B
    BY DEF Without, k
<1>7. Without(s, a) \in Seq(Nat)
    BY <1>3, <1>6, ConcatProperties
<1> HIDE DEF A, B
<1>8. \A z : Times(s, z) = Times(Without(s, a), z) + Same(a, z)
  <2> TAKE z
  <2>1. Times((A \o <<a>>) \o B, z) = Times(A \o B, z) + Same(a, z)
    BY <1>3, TimesMiddle
  <2> QED BY <2>1, <1>4, <1>5, <1>6
<1>9. ASSUME NEW j \in DOMAIN Without(s, a) PROVE Times(s, Without(s, a)[j]) > 0
  <2> DEFINE z == Without(s, a)[j]
  <2>1. Times(Without(s, a), z) > 0 /\ Times(Without(s, a), z) \in Nat
    BY <1>7, TimesOccurs, TimesPositions, LenProperties
  <2> QED BY <2>1, <1>8 DEF Same
<1> QED BY <1>7, <1>8, <1>9

-----------------------------------------------------------------------------
(***************************************************************************)
(* The references from the cells of a heap, split at one cell.             *)
(***************************************************************************)
CellType == [rc : Int, kind : {"atom", "cons"}, n : Nat, kids : Seq(Nat)]
Heap     == Seq(CellType)

\* The cells of a heap, and what they refer to, are of their types.
LEMMA HeapCells ==
    ASSUME NEW h \in Heap
    PROVE  /\ Len(h) \in Nat /\ DOMAIN h = 1..Len(h)
           /\ \A c \in 1..Len(h) : /\ h[c] \in CellType /\ h[c].kids \in Seq(Nat) /\ h[c].rc \in Int
                                    /\ Len(h[c].kids) \in Nat
                                    /\ DOMAIN h[c].kids = 1..Len(h[c].kids)
<1>1. Len(h) \in Nat /\ DOMAIN h = 1..Len(h)
    BY LenProperties DEF Heap
<1>2. ASSUME NEW c \in 1..Len(h) PROVE h[c] \in CellType
    BY ElementOfSeq DEF Heap
<1>3. ASSUME NEW c \in 1..Len(h)
      PROVE  h[c].kids \in Seq(Nat) /\ h[c].rc \in Int
    BY <1>2 DEF CellType
<1> QED BY <1>1, <1>2, <1>3, LenProperties

Refs(h, x)       == {s \in Slots(h) : h[s[1]].kids[s[2]] = x}
RefsIn(h, c, x)  == {<<c, k>> : k \in Positions(h[c].kids, x)}
RefsOut(h, c, x) == {s \in Refs(h, x) : s[1] # c}

\* The references to an element, cell by cell.
LEMMA RefsDef ==
    ASSUME NEW h \in Heap, NEW x
    PROVE  Refs(h, x) = UNION {RefsIn(h, c, x) : c \in 1..Len(h)}
<1>1. ASSUME NEW s \in Refs(h, x) PROVE \E c \in 1..Len(h) : s \in RefsIn(h, c, x)
    BY HeapCells DEF Refs, RefsIn, Slots, Positions
<1>2. ASSUME NEW c \in 1..Len(h), NEW s \in RefsIn(h, c, x) PROVE s \in Refs(h, x)
  <2>1. PICK k \in Positions(h[c].kids, x) : s = <<c, k>>
    BY <1>2 DEF RefsIn
  <2>2. s[1] = c /\ s[2] = k
    BY <2>1
  <2>3. k \in DOMAIN h[c].kids /\ h[c].kids[k] = x
    BY <2>1, HeapCells DEF Positions
  <2>4. s \in Slots(h)
    BY <2>1, <2>3, HeapCells DEF Slots
  <2> QED BY <2>2, <2>3, <2>4 DEF Refs
<1> QED BY <1>1, <1>2

\* The references from one cell are the occurrences among its children.
LEMMA RefsInCount ==
    ASSUME NEW h \in Heap, NEW c \in 1..Len(h), NEW x
    PROVE  IsFiniteSet(RefsIn(h, c, x)) /\ Cardinality(RefsIn(h, c, x)) = Times(h[c].kids, x)
<1> DEFINE P == Positions(h[c].kids, x)
           f == [k \in P |-> <<c, k>>]
<1>1. IsFiniteSet(P) /\ Times(h[c].kids, x) = Cardinality(P)
    BY HeapCells, TimesPositions
<1>2. f \in Bijection(P, RefsIn(h, c, x))
  <2>1. f \in [P -> RefsIn(h, c, x)]
    BY DEF RefsIn
  <2>2. \A i, j \in P : f[i] = f[j] => i = j
    OBVIOUS
  <2>3. \A u \in RefsIn(h, c, x) : \E j \in P : f[j] = u
    BY DEF RefsIn
  <2> QED BY <2>1, <2>2, <2>3, Fun_IsBij
<1>3. ExistsBijection(P, RefsIn(h, c, x))
    BY <1>2 DEF ExistsBijection
<1> QED BY <1>1, <1>3, FS_Bijection

\* The references to an element are finitely many.
LEMMA RefsFinite ==
    ASSUME NEW h \in Heap, NEW x
    PROVE  IsFiniteSet(Refs(h, x)) /\ FromCells(h, x) = Cardinality(Refs(h, x))
           /\ FromCells(h, x) \in Nat
<1> DEFINE C == 1..Len(h)
           W == {RefsIn(h, c, x) : c \in C}
           f == [c \in C |-> RefsIn(h, c, x)]
<1>1. IsFiniteSet(C)
    BY HeapCells, FS_Interval
<1>2. f \in Surjection(C, W)
    BY Fun_IsSurj
<1>3. IsFiniteSet(W)
    BY <1>1, <1>2, FS_Surjection
<1>4. \A w \in W : IsFiniteSet(w)
    BY RefsInCount
<1>5. IsFiniteSet(UNION W)
    BY <1>3, <1>4, FS_UNION
<1>6. IsFiniteSet(Refs(h, x))
    BY <1>5, RefsDef
<1>7. FromCells(h, x) = Cardinality(Refs(h, x))
    BY DEF FromCells, Refs
<1> QED BY <1>6, <1>7, FS_CardinalityType

\* The references to an element are those from one cell and those from the others.
LEMMA RefsSplit ==
    ASSUME NEW h \in Heap, NEW c \in 1..Len(h), NEW x
    PROVE  /\ FromCells(h, x) = Cardinality(RefsOut(h, c, x)) + Times(h[c].kids, x)
           /\ Cardinality(RefsOut(h, c, x)) \in Nat
<1> DEFINE O == RefsOut(h, c, x)
           I == RefsIn(h, c, x)
<1>1. Refs(h, x) = O \cup I
  <2>1. I \subseteq Refs(h, x)
    BY RefsDef
  <2>2. ASSUME NEW s \in Refs(h, x), s[1] = c PROVE s \in I
    <3>1. PICK d \in 1..Len(h) : s \in RefsIn(h, d, x)
        BY RefsDef
    <3>2. s[1] = d
        BY <3>1 DEF RefsIn
    <3> QED BY <2>2, <3>1, <3>2
  <2> QED BY <2>1, <2>2 DEF RefsOut
<1>2. O \cap I = {}
    BY DEF RefsOut, RefsIn
<1>3. IsFiniteSet(O) /\ IsFiniteSet(I)
  <2>1. IsFiniteSet(Refs(h, x))
    BY RefsFinite
  <2>2. O \in SUBSET Refs(h, x) /\ I \in SUBSET Refs(h, x)
    BY <1>1
  <2> QED BY <2>1, <2>2, FS_Subset
<1>4. Cardinality(O \cup I) = Cardinality(O) + Cardinality(I) - Cardinality(O \cap I)
    BY <1>3, FS_Union
<1>5. Cardinality(O \cap I) = 0
    BY <1>2, FS_EmptySet
<1>6. Cardinality(O) \in Nat /\ Cardinality(I) \in Nat
    BY <1>3, FS_CardinalityType
<1>7. Cardinality(I) = Times(h[c].kids, x)
    BY RefsInCount
<1>8. FromCells(h, x) = Cardinality(Refs(h, x))
    BY RefsFinite
<1> HIDE DEF O, I
<1> QED BY <1>1, <1>4, <1>5, <1>6, <1>7, <1>8 DEF O

\* A reference from a cell shows in the count, and a count shows a reference.
LEMMA FromCellsOccurs ==
    ASSUME NEW h \in Heap, NEW x
    PROVE  FromCells(h, x) > 0 <=> \E c \in 1..Len(h) : \E k \in 1..Len(h[c].kids) : h[c].kids[k] = x
<1>1. FromCells(h, x) = 0 <=> Refs(h, x) = {}
    BY RefsFinite, FS_EmptySet
<1>2. FromCells(h, x) \in Nat
    BY RefsFinite
<1>3. Refs(h, x) # {} <=> \E c \in 1..Len(h) : RefsIn(h, c, x) # {}
    BY RefsDef
<1>4. \A c \in 1..Len(h) : RefsIn(h, c, x) # {} <=> \E k \in 1..Len(h[c].kids) : h[c].kids[k] = x
    BY DEF RefsIn, Positions
<1> QED BY <1>1, <1>2, <1>3, <1>4

\* Two heaps that differ in what one cell refers to.
LEMMA FromCellsExcept ==
    ASSUME NEW h \in Heap, NEW g \in Heap, Len(g) = Len(h), NEW c \in 1..Len(h),
           \A d \in 1..Len(h) : d # c => g[d].kids = h[d].kids,
           NEW x
    PROVE  FromCells(g, x) - Times(g[c].kids, x) = FromCells(h, x) - Times(h[c].kids, x)
<1>1. RefsOut(g, c, x) = RefsOut(h, c, x)
  <2>1. ASSUME NEW s \in RefsOut(g, c, x) PROVE s \in RefsOut(h, c, x)
    <3>1. PICK d \in 1..Len(g) : s \in RefsIn(g, d, x)
        BY RefsDef DEF RefsOut
    <3>2. s[1] = d /\ d # c
        BY <3>1 DEF RefsIn, RefsOut
    <3>3. s \in RefsIn(h, d, x)
        BY <3>1, <3>2 DEF RefsIn
    <3> QED BY <3>2, <3>3, RefsDef DEF RefsOut
  <2>2. ASSUME NEW s \in RefsOut(h, c, x) PROVE s \in RefsOut(g, c, x)
    <3>1. PICK d \in 1..Len(h) : s \in RefsIn(h, d, x)
        BY RefsDef DEF RefsOut
    <3>2. s[1] = d /\ d # c
        BY <3>1 DEF RefsIn, RefsOut
    <3>3. s \in RefsIn(g, d, x)
        BY <3>1, <3>2 DEF RefsIn
    <3> QED BY <3>2, <3>3, RefsDef DEF RefsOut
  <2> QED BY <2>1, <2>2
<1>2. /\ FromCells(g, x) = Cardinality(RefsOut(g, c, x)) + Times(g[c].kids, x)
      /\ FromCells(h, x) = Cardinality(RefsOut(h, c, x)) + Times(h[c].kids, x)
      /\ Cardinality(RefsOut(h, c, x)) \in Nat
    BY RefsSplit
<1>3. Times(g[c].kids, x) \in Nat /\ Times(h[c].kids, x) \in Nat
    BY HeapCells, TimesPositions
<1> QED BY <1>1, <1>2, <1>3

\* Counts have nothing to do with what is referred to.
LEMMA FromCellsSame ==
    ASSUME NEW h \in Heap, NEW g \in Heap, Len(g) = Len(h),
           \A d \in 1..Len(h) : g[d].kids = h[d].kids,
           NEW x
    PROVE  FromCells(g, x) = FromCells(h, x)
<1>1. \A d \in 1..Len(h) : RefsIn(g, d, x) = RefsIn(h, d, x)
    BY DEF RefsIn
<1>2. {RefsIn(g, d, x) : d \in 1..Len(h)} = {RefsIn(h, d, x) : d \in 1..Len(h)}
    BY <1>1
<1>3. /\ Refs(g, x) = UNION {RefsIn(g, d, x) : d \in 1..Len(h)}
      /\ Refs(h, x) = UNION {RefsIn(h, d, x) : d \in 1..Len(h)}
    BY RefsDef
<1>4. Refs(g, x) = Refs(h, x)
    BY <1>2, <1>3
<1> QED BY <1>4, RefsFinite

\* A cell more.
LEMMA FromCellsAppend ==
    ASSUME NEW h \in Heap, NEW cell \in CellType, NEW x
    PROVE  /\ Append(h, cell) \in Heap /\ Len(Append(h, cell)) = Len(h) + 1
           /\ Append(h, cell)[Len(h) + 1] = cell
           /\ \A d \in 1..Len(h) : Append(h, cell)[d] = h[d]
           /\ FromCells(Append(h, cell), x) = FromCells(h, x) + Times(cell.kids, x)
<1> DEFINE g == Append(h, cell)
           n == Len(h) + 1
<1>1. /\ g \in Heap /\ Len(g) = n /\ Len(h) \in Nat /\ g[n] = cell
      /\ \A d \in 1..Len(h) : g[d] = h[d]
    BY AppendProperties, LenProperties DEF Heap
<1> HIDE DEF g
<1>2. RefsOut(g, n, x) = Refs(h, x)
  <2>1. ASSUME NEW s \in RefsOut(g, n, x) PROVE s \in Refs(h, x)
    <3>1. PICK d \in 1..Len(g) : s \in RefsIn(g, d, x)
        BY RefsDef, <1>1 DEF RefsOut
    <3>2. s[1] = d /\ d # n
        BY <3>1 DEF RefsIn, RefsOut
    <3>3. d \in 1..Len(h)
        BY <3>2, <1>1
    <3>4. s \in RefsIn(h, d, x)
        BY <3>1, <3>3, <1>1 DEF RefsIn
    <3> QED BY <3>3, <3>4, RefsDef
  <2>2. ASSUME NEW s \in Refs(h, x) PROVE s \in RefsOut(g, n, x)
    <3>1. PICK d \in 1..Len(h) : s \in RefsIn(h, d, x)
        BY RefsDef
    <3>2. s[1] = d /\ d # n /\ d \in 1..Len(g)
        BY <3>1, <1>1 DEF RefsIn
    <3>3. s \in RefsIn(g, d, x)
        BY <3>1, <1>1 DEF RefsIn
    <3>4. s \in Refs(g, x)
        BY <3>2, <3>3, <1>1, RefsDef
    <3> QED BY <3>2, <3>4 DEF RefsOut
  <2> QED BY <2>1, <2>2
<1>3. n \in 1..Len(g)
    BY <1>1
<1>4. FromCells(g, x) = Cardinality(RefsOut(g, n, x)) + Times(g[n].kids, x)
    BY <1>1, <1>3, RefsSplit
<1>5. FromCells(h, x) = Cardinality(Refs(h, x))
    BY RefsFinite
<1>6. FromCells(g, x) = FromCells(h, x) + Times(cell.kids, x)
    BY <1>1, <1>2, <1>4, <1>5
<1> QED BY <1>1, <1>6 DEF g

-----------------------------------------------------------------------------
(***************************************************************************)
(* Sharing: bumpref.                                                       *)
(***************************************************************************)
\* What is kept by everything that only counts.
SameShape(h, g) ==
    /\ g \in Heap /\ Len(g) = Len(h)
    /\ \A c \in 1..Len(h) : g[c].kids = h[c].kids /\ g[c].kind = h[c].kind

\* One count changed.
Recount(h, el, r) == [h EXCEPT ![el].rc = r]

\* It changes that count and nothing else.
LEMMA Recounted ==
    ASSUME NEW h \in Heap, NEW el \in 1..Len(h), NEW r \in Int
    PROVE  /\ SameShape(h, Recount(h, el, r))
           /\ \A c \in 1..Len(h) : Recount(h, el, r)[c].rc = IF c = el THEN r ELSE h[c].rc
<1> DEFINE new == [h[el] EXCEPT !.rc = r]
           g == [h EXCEPT ![el] = new]
<1>1. h[el] \in CellType
  BY HeapCells
<1>2. /\ new \in CellType /\ new.rc = r /\ new.kids = h[el].kids /\ new.kind = h[el].kind
  BY <1>1 DEF CellType
<1>3. Recount(h, el, r) = g
  BY DEF Recount
<1> HIDE DEF new
<1>4. /\ g \in Heap /\ Len(g) = Len(h)
      /\ \A j \in 1..Len(h) : g[j] = IF j = el THEN new ELSE h[j]
  BY <1>2, ExceptSeq DEF Heap
<1> HIDE DEF g
<1> QED BY <1>2, <1>3, <1>4 DEF SameShape

\* The first k of some elements.
Prefix(els, k) == SubSeq(els, 1, k)

\* One element more in the prefix is one occurrence more of it, at most as many as there are.
LEMMA PrefixStep ==
    ASSUME NEW els \in Seq(Nat), NEW k \in 0..Len(els)-1, NEW x
    PROVE  /\ Prefix(els, k) \in Seq(Nat) /\ Prefix(els, k + 1) \in Seq(Nat)
           /\ Times(Prefix(els, k + 1), x) = Times(Prefix(els, k), x) + Same(els[k + 1], x)
           /\ Times(Prefix(els, k + 1), x) <= Times(els, x)
<1>1. Len(els) \in Nat /\ \A i \in 1..Len(els) : els[i] \in Nat
    BY LenProperties, ElementOfSeq
<1>2. k \in Nat /\ k + 1 \in 1..Len(els)
    BY <1>1
<1>3. Prefix(els, k) \in Seq(Nat) /\ Prefix(els, k + 1) \in Seq(Nat)
    BY <1>1, <1>2, SubSeqProperties DEF Prefix
<1>4. Prefix(els, k + 1) = Prefix(els, k) \o <<els[k + 1]>>
  <2>1. 1 \in 1..Len(els) /\ k + 1 \in 1..Len(els)
    BY <1>1, <1>2
  <2>2. SubSeq(els, 1, k + 1) = SubSeq(els, 1, (k + 1) - 1) \o <<els[k + 1]>>
    BY <2>1, SubSeqRecursiveSecond
  <2> QED BY <2>2, <1>2 DEF Prefix
<1>5. Times(Prefix(els, k + 1), x) = Times(Prefix(els, k), x) + Same(els[k + 1], x)
  <2>1. els[k + 1] \in Nat /\ <<els[k + 1]>> \in Seq(Nat)
    BY <1>1, <1>2
  <2>2. Times(Prefix(els, k) \o <<els[k + 1]>>, x) = Times(Prefix(els, k), x) + Times(<<els[k + 1]>>, x)
    BY <2>1, <1>3, TimesConcat, ZenonT(40)
  <2>3. Times(<<els[k + 1]>>, x) = Same(els[k + 1], x)
    BY <2>1, TimesSingle
  <2> QED BY <2>2, <2>3, <1>4
<1>6. Times(Prefix(els, k + 1), x) <= Times(els, x)
  <2> DEFINE A == SubSeq(els, 1, k + 1)
             B == SubSeq(els, k + 2, Len(els))
  <2>1. B \in Seq(Nat)
    BY <1>1, <1>2, SubSeqProperties
  <2>2. els = A \o B
    <3>1. 1 \in 1..Len(els)+1 /\ k + 1 \in 1-1..Len(els) /\ Len(els) \in k+1..Len(els)
        BY <1>1, <1>2
    <3>2. SubSeq(els, 1, k + 1) \o SubSeq(els, (k + 1) + 1, Len(els)) = SubSeq(els, 1, Len(els))
        BY <3>1, ConcatAdjacentSubSeq
    <3>3. (k + 1) + 1 = k + 2
        BY <1>2
    <3> QED BY <3>2, <3>3, SubSeqFull
  <2>3. A \in Seq(Nat) /\ A = Prefix(els, k + 1)
    BY <1>3 DEF Prefix
  <2> HIDE DEF A, B
  <2>4. Times(els, x) = Times(A, x) + Times(B, x)
    BY <2>1, <2>2, <2>3, TimesConcat
  <2>5. Times(A, x) \in Nat /\ Times(B, x) \in Nat
    BY <2>1, <2>3, TimesPositions
  <2> QED BY <2>3, <2>4, <2>5
<1> QED BY <1>3, <1>5, <1>6

\* The shortest and the longest prefix.
LEMMA PrefixWhole ==
    ASSUME NEW els \in Seq(Nat)
    PROVE  Prefix(els, 0) = <<>> /\ Prefix(els, Len(els)) = els
<1>1. SubSeq(els, 1, 0) = <<>>
    BY SubSeqEmpty
<1> QED BY <1>1, SubSeqFull DEF Prefix

\* One turn of the loop of bumpref, given the turns before it.
BumpTurn(h, els, g, k) == IF k = 0 THEN h ELSE [g[k-1] EXCEPT ![els[k]].rc = @ + 1]
BumpTurns(h, els, n, g) == g = [k \in 0..n |-> BumpTurn(h, els, g, k)]

\* The loop of bumpref has its turns.
LEMMA BumpTurnsExist ==
    ASSUME NEW h, NEW els
    PROVE  \A n \in Nat : \E g : BumpTurns(h, els, n, g)
<1> DEFINE T == {n \in Nat : \E g : BumpTurns(h, els, n, g)}
<1>1. 0 \in T
  <2>1. BumpTurns(h, els, 0, [k \in 0..0 |-> h])
    BY DEF BumpTurns, BumpTurn
  <2> QED BY <2>1
<1>2. ASSUME NEW n \in Nat, n \in T PROVE n + 1 \in T
  <2>1. PICK g : BumpTurns(h, els, n, g)
    BY <1>2
  <2> DEFINE f == [k \in 0..n+1 |-> IF k = n + 1 THEN BumpTurn(h, els, g, k) ELSE g[k]]
  <2>2. \A k \in 0..n+1 : f[k] = BumpTurn(h, els, g, k)
    BY <2>1 DEF BumpTurns
  <2>3. \A k \in 0..n : f[k] = g[k]
    OBVIOUS
  <2>4. \A k \in 1..n+1 : k - 1 \in 0..n
    OBVIOUS
  <2> HIDE DEF f
  <2>5. \A k \in 0..n+1 : BumpTurn(h, els, f, k) = BumpTurn(h, els, g, k)
    BY <2>3, <2>4 DEF BumpTurn
  <2>6. f = [k \in 0..n+1 |-> f[k]]
    BY DEF f
  <2>7. BumpTurns(h, els, n + 1, f)
    BY <2>2, <2>5, <2>6 DEF BumpTurns
  <2> QED BY <2>7
<1> HIDE DEF T
<1>3. Nat \subseteq T
  BY <1>1, <1>2, NatSetInduction
<1> QED BY <1>3 DEF T

\* Every element shared gains a reference each time it is in the list.
LEMMA Bumped ==
    ASSUME NEW h \in Heap, NEW els \in Seq(Nat), \A k \in 1..Len(els) : els[k] \in 1..Len(h)
    PROVE  /\ SameShape(h, bumpref(h, els))
           /\ \A c \in 1..Len(h) : bumpref(h, els)[c].rc = h[c].rc + Times(els, c)
<1> DEFINE N == Len(els)
           g == CHOOSE f : BumpTurns(h, els, N, f)
           Holds(n) == /\ SameShape(h, g[n])
                       /\ \A c \in 1..Len(h) : g[n][c].rc = h[c].rc + Times(Prefix(els, n), c)
           T == {n \in Nat : n \in 0..N => Holds(n)}
<1>1. N \in Nat /\ DOMAIN els = 1..N
  BY LenProperties
<1>2. BumpTurns(h, els, N, g)
  BY <1>1, BumpTurnsExist
<1>3. bumpref(h, els) = g[N]
  BY DEF bumpref, BumpTurns, BumpTurn
<1> HIDE DEF g
<1>4. g[0] = h /\ \A n \in 0..N-1 : g[n + 1] = [g[n] EXCEPT ![els[n + 1]].rc = @ + 1]
  <2>1. \A k \in 0..N : g[k] = BumpTurn(h, els, g, k)
    BY <1>2 DEF BumpTurns
  <2>2. g[0] = h
    <3>1. 0 \in 0..N
      BY <1>1
    <3>2. g[0] = BumpTurn(h, els, g, 0)
      BY <2>1, <3>1
    <3> QED BY <3>2 DEF BumpTurn
  <2>3. ASSUME NEW n \in 0..N-1 PROVE g[n + 1] = [g[n] EXCEPT ![els[n + 1]].rc = @ + 1]
    <3>1. n + 1 \in 0..N /\ n + 1 # 0 /\ (n + 1) - 1 = n
      BY <1>1
    <3>2. g[n + 1] = BumpTurn(h, els, g, n + 1)
      BY <2>1, <3>1
    <3> QED BY <3>1, <3>2 DEF BumpTurn
  <2> QED BY <2>2, <2>3
<1>5. \A c \in 1..Len(h) : h[c].rc \in Int
  BY HeapCells
<1>6. 0 \in T
  <2>1. SameShape(h, h)
    BY DEF SameShape
  <2>2. \A c : Times(Prefix(els, 0), c) = 0
    BY PrefixWhole, TimesEmpty
  <2> QED BY <1>4, <1>5, <2>1, <2>2
<1>7. ASSUME NEW n \in Nat, n \in T PROVE n + 1 \in T
  <2> SUFFICES ASSUME n + 1 \in 0..N PROVE Holds(n + 1)
    OBVIOUS
  <2>1. n \in 0..N-1 /\ n \in 0..N /\ n + 1 \in 1..N
    BY <1>1
  <2>2. SameShape(h, g[n]) /\ \A c \in 1..Len(h) : g[n][c].rc = h[c].rc + Times(Prefix(els, n), c)
    BY <1>7, <2>1
  <2> DEFINE el == els[n + 1]
             r == g[n][el].rc + 1
  <2>3. el \in 1..Len(h) /\ g[n] \in Heap /\ Len(g[n]) = Len(h)
    BY <2>1, <2>2 DEF SameShape
  <2>4. r \in Int
    BY <2>3, HeapCells
  <2>5. g[n + 1] = Recount(g[n], el, r)
    BY <1>4, <2>1 DEF Recount
  <2> HIDE DEF r, el
  <2>6. /\ SameShape(g[n], g[n + 1])
        /\ \A c \in 1..Len(h) : g[n + 1][c].rc = IF c = el THEN r ELSE g[n][c].rc
    <3>1. el \in 1..Len(g[n])
      BY <2>3
    <3> DEFINE u == g[n]
    <3>2. u \in Heap /\ el \in 1..Len(u)
      BY <2>3, <3>1
    <3> HIDE DEF u
    <3>3. SameShape(u, Recount(u, el, r))
      BY <2>4, <3>2, Recounted
    <3>4. \A c \in 1..Len(u) : Recount(u, el, r)[c].rc = IF c = el THEN r ELSE u[c].rc
      BY <2>4, <3>2, Recounted
    <3> QED BY <2>3, <2>5, <3>3, <3>4 DEF u
  <2>7. SameShape(h, g[n + 1])
    BY <2>2, <2>6 DEF SameShape
  <2>8. ASSUME NEW c \in 1..Len(h)
        PROVE  g[n + 1][c].rc = h[c].rc + Times(Prefix(els, n + 1), c)
    <3>1. Times(Prefix(els, n + 1), c) = Times(Prefix(els, n), c) + Same(el, c)
      BY <2>1, PrefixStep DEF el
    <3>2. Prefix(els, n) \in Seq(Nat)
      BY <2>1, PrefixStep
    <3>3. Times(Prefix(els, n), c) \in Nat
      BY <3>2, TimesPositions
    <3>4. g[n][c].rc = h[c].rc + Times(Prefix(els, n), c)
      BY <2>2
    <3>5. g[n + 1][c].rc = g[n][c].rc + Same(el, c)
      <4>1. g[n + 1][c].rc = IF c = el THEN r ELSE g[n][c].rc
        BY <2>6
      <4>2. g[n][c].rc \in Int
        BY <1>5, <3>3, <3>4
      <4> QED BY <4>1, <4>2 DEF Same, r
    <3>6. h[c].rc \in Int /\ Same(el, c) \in Int
      BY <1>5 DEF Same
    <3> QED BY <3>1, <3>3, <3>4, <3>5, <3>6, SMTT(30)
  <2> QED BY <2>7, <2>8
<1> HIDE DEF T
<1>8. Nat \subseteq T
  BY <1>6, <1>7, NatSetInduction
<1>9. N \in T /\ N \in 0..N
  BY <1>1, <1>8
<1> QED BY <1>3, <1>9, PrefixWhole DEF T

-----------------------------------------------------------------------------
(***************************************************************************)
(* Giving references up: deref_add_to_stack.                               *)
(***************************************************************************)
\* A release under way: a heap, and what is on the stack.
Releases(h, s) ==
    /\ s \in [heap : Heap, stk : Seq(Nat)]
    /\ SameShape(h, s.heap)
    /\ \A k \in 1..Len(s.stk) : s.stk[k] \in 1..Len(h) /\ s.heap[s.stk[k]].rc = 1

\* What a count says beyond the stack.
Beyond(s, x) == s.heap[x].rc - Times(s.stk, x)

\* No count becomes 0 by being given up, and none that is 0 changes.
SameLife(h, g) == \A x \in 1..Len(h) : g[x].rc > 0 <=> h[x].rc > 0

\* One reference given up shows in the balance of that element and nowhere else.
LEMMA AddedToStack ==
    ASSUME NEW h \in Heap, NEW s, Releases(h, s), NEW el \in 1..Len(h), Beyond(s, el) > 0
    PROVE  /\ Releases(h, AddToStack(s, el))
           /\ \A x \in 1..Len(h) : Beyond(AddToStack(s, el), x) = Beyond(s, x) - Same(el, x)
           /\ SameLife(s.heap, AddToStack(s, el).heap)
<1> DEFINE t == AddToStack(s, el)
<1>1. /\ s \in [heap : Heap, stk : Seq(Nat)] /\ s.heap \in Heap /\ s.stk \in Seq(Nat)
      /\ Len(s.heap) = Len(h) /\ el \in Nat /\ Len(h) \in Nat
  BY HeapCells DEF Releases, SameShape
<1>2. \A x \in 1..Len(h) : s.heap[x].rc \in Int /\ Times(s.stk, x) \in Nat
  BY <1>1, HeapCells, TimesPositions
<1>3. CASE s.heap[el].rc = 1
  <2> DEFINE st == Append(s.stk, el)
  <2>1. t = [s EXCEPT !.stk = st]
    BY <1>3 DEF AddToStack
  <2>2. /\ st \in Seq(Nat) /\ Len(st) = Len(s.stk) + 1 /\ Len(s.stk) \in Nat
        /\ \A i \in 1..Len(s.stk) : st[i] = s.stk[i]
        /\ st[Len(s.stk) + 1] = el
    BY <1>1, AppendProperties, LenProperties
  <2>3. \A x : Times(st, x) = Times(s.stk, x) + Same(el, x)
    BY <1>1, TimesAppend
  <2> HIDE DEF st
  <2>4. t \in [heap : Heap, stk : Seq(Nat)] /\ t.heap = s.heap /\ t.stk = st
    BY <1>1, <2>1, <2>2
  <2> HIDE DEF t
  <2>5. Releases(h, t)
    <3>1. ASSUME NEW k \in 1..Len(st) PROVE st[k] \in 1..Len(h) /\ s.heap[st[k]].rc = 1
      <4>1. CASE k = Len(s.stk) + 1
        BY <1>3, <2>2, <4>1
      <4>2. CASE k \in 1..Len(s.stk)
        BY <2>2, <4>2 DEF Releases
      <4> QED BY <2>2, <4>1, <4>2, SMTT(30)
    <3>2. SameShape(h, s.heap)
      BY DEF Releases
    <3> QED BY <2>4, <3>1, <3>2 DEF Releases
  <2>6. ASSUME NEW x \in 1..Len(h) PROVE Beyond(t, x) = Beyond(s, x) - Same(el, x)
    <3>1. Beyond(t, x) = s.heap[x].rc - (Times(s.stk, x) + Same(el, x))
      BY <2>3, <2>4 DEF Beyond
    <3>2. Same(el, x) \in Int
      BY DEF Same
    <3> QED BY <1>2, <3>1, <3>2 DEF Beyond
  <2>7. SameLife(s.heap, t.heap)
    BY <2>4 DEF SameLife
  <2> QED BY <2>5, <2>6, <2>7 DEF t
<1>4. CASE s.heap[el].rc # 1
  <2> DEFINE r == s.heap[el].rc - 1
             g == Recount(s.heap, el, r)
  <2>1. t = [s EXCEPT !.heap = g]
    BY <1>1, <1>4 DEF AddToStack, Recount
  <2>2. r \in Int /\ el \in 1..Len(s.heap)
    BY <1>1, <1>2
  <2>3. r > 0
    BY <1>2, <1>4 DEF Beyond
  <2>4. r = s.heap[el].rc - 1
    OBVIOUS
  <2> HIDE DEF r
  <2>5. SameShape(s.heap, g)
    BY <1>1, <2>2, Recounted
  <2>6. \A c \in 1..Len(h) : g[c].rc = IF c = el THEN r ELSE s.heap[c].rc
    BY <1>1, <2>2, Recounted
  <2> HIDE DEF g
  <2>7. t \in [heap : Heap, stk : Seq(Nat)] /\ t.heap = g /\ t.stk = s.stk
    BY <1>1, <2>1, <2>5 DEF SameShape
  <2> HIDE DEF t
  <2>8. SameShape(h, g)
    BY <2>5 DEF Releases, SameShape
  <2>9. Releases(h, t)
    <3>1. ASSUME NEW k \in 1..Len(s.stk) PROVE s.stk[k] \in 1..Len(h) /\ g[s.stk[k]].rc = 1
      <4>1. s.stk[k] \in 1..Len(h) /\ s.heap[s.stk[k]].rc = 1
        BY DEF Releases
      <4> QED BY <4>1, <1>4, <2>6
    <3> QED BY <2>7, <2>8, <3>1 DEF Releases
  <2>10. ASSUME NEW x \in 1..Len(h) PROVE Beyond(t, x) = Beyond(s, x) - Same(el, x)
    <3>1. g[x].rc = IF x = el THEN r ELSE s.heap[x].rc
      BY <2>6
    <3>2. g[x].rc = s.heap[x].rc - Same(el, x)
      BY <3>1, <2>4, <1>2 DEF Same
    <3>3. Same(el, x) \in Int
      BY DEF Same
    <3> QED BY <1>2, <2>7, <3>2, <3>3 DEF Beyond
  <2>11. SameLife(s.heap, t.heap)
    BY <1>1, <1>2, <2>3, <2>4, <2>6, <2>7, SMTT(30) DEF SameLife
  <2> QED BY <2>9, <2>10, <2>11 DEF t
<1> QED BY <1>3, <1>4

\* One turn of the loop, given the turns before it.
DropTurn(h, stk, els, f, k) ==
    IF k = 0 THEN [heap |-> h, stk |-> stk] ELSE AddToStack(f[k-1], els[k])
DropTurns(h, stk, els, n, f) == f = [k \in 0..n |-> DropTurn(h, stk, els, f, k)]

\* The loop of deref_add_to_stack has its turns.
LEMMA DropTurnsExist ==
    ASSUME NEW h, NEW stk, NEW els
    PROVE  \A n \in Nat : \E f : DropTurns(h, stk, els, n, f)
<1> DEFINE T == {n \in Nat : \E f : DropTurns(h, stk, els, n, f)}
<1>1. 0 \in T
  <2>1. DropTurns(h, stk, els, 0, [k \in 0..0 |-> [heap |-> h, stk |-> stk]])
    BY DEF DropTurns, DropTurn
  <2> QED BY <2>1
<1>2. ASSUME NEW n \in Nat, n \in T PROVE n + 1 \in T
  <2>1. PICK g : DropTurns(h, stk, els, n, g)
    BY <1>2
  <2> DEFINE f == [k \in 0..n+1 |-> IF k = n + 1 THEN DropTurn(h, stk, els, g, k) ELSE g[k]]
  <2>2. \A k \in 0..n+1 : f[k] = DropTurn(h, stk, els, g, k)
    BY <2>1 DEF DropTurns
  <2>3. \A k \in 0..n : f[k] = g[k]
    OBVIOUS
  <2>4. \A k \in 1..n+1 : k - 1 \in 0..n
    OBVIOUS
  <2> HIDE DEF f
  <2>5. \A k \in 0..n+1 : DropTurn(h, stk, els, f, k) = DropTurn(h, stk, els, g, k)
    BY <2>3, <2>4 DEF DropTurn
  <2>6. f = [k \in 0..n+1 |-> f[k]]
    BY DEF f
  <2>7. DropTurns(h, stk, els, n + 1, f)
    BY <2>2, <2>5, <2>6 DEF DropTurns
  <2> QED BY <2>7
<1> HIDE DEF T
<1>3. Nat \subseteq T
  BY <1>1, <1>2, NatSetInduction
<1> QED BY <1>3 DEF T

\* What giving up some references does to the counts and to the stack.
LEMMA Dropped ==
    ASSUME NEW h \in Heap, NEW stk \in Seq(Nat), NEW els \in Seq(Nat),
           Releases(h, [heap |-> h, stk |-> stk]),
           \A k \in 1..Len(els) : els[k] \in 1..Len(h),
           \A x \in 1..Len(h) : h[x].rc >= Times(stk, x) + Times(els, x)
    PROVE  LET s == deref_add_to_stack(h, stk, els)
           IN  /\ Releases(h, s)
               /\ \A x \in 1..Len(h) : Beyond(s, x) = h[x].rc - Times(stk, x) - Times(els, x)
               /\ SameLife(h, s.heap)
<1> DEFINE N == Len(els)
           g == CHOOSE f : DropTurns(h, stk, els, N, f)
           Holds(n) ==
               /\ Releases(h, g[n])
               /\ \A x \in 1..Len(h) : Beyond(g[n], x) = h[x].rc - Times(stk, x) - Times(Prefix(els, n), x)
               /\ SameLife(h, g[n].heap)
           T == {n \in Nat : n \in 0..N => Holds(n)}
<1>1. N \in Nat /\ DOMAIN els = 1..N
  BY LenProperties
<1>2. DropTurns(h, stk, els, N, g)
  BY <1>1, DropTurnsExist
<1>3. deref_add_to_stack(h, stk, els) = g[N]
  BY DEF deref_add_to_stack, DropTurns, DropTurn
<1> HIDE DEF g
<1>4. g[0] = [heap |-> h, stk |-> stk] /\ \A n \in 0..N-1 : g[n + 1] = AddToStack(g[n], els[n + 1])
  <2>1. \A k \in 0..N : g[k] = DropTurn(h, stk, els, g, k)
    BY <1>2 DEF DropTurns
  <2>2. g[0] = [heap |-> h, stk |-> stk]
    <3>1. 0 \in 0..N
      BY <1>1
    <3>2. g[0] = DropTurn(h, stk, els, g, 0)
      BY <2>1, <3>1
    <3> QED BY <3>2 DEF DropTurn
  <2>3. ASSUME NEW n \in 0..N-1 PROVE g[n + 1] = AddToStack(g[n], els[n + 1])
    <3>1. n + 1 \in 0..N /\ n + 1 # 0 /\ (n + 1) - 1 = n
      BY <1>1
    <3>2. g[n + 1] = DropTurn(h, stk, els, g, n + 1)
      BY <2>1, <3>1
    <3> QED BY <3>1, <3>2 DEF DropTurn
  <2> QED BY <2>2, <2>3
<1>5. \A x \in 1..Len(h) : h[x].rc \in Int /\ Times(stk, x) \in Nat /\ Times(els, x) \in Nat
  BY HeapCells, TimesPositions
<1>6. 0 \in T
  <2>1. \A x : Times(Prefix(els, 0), x) = 0
    BY PrefixWhole, TimesEmpty
  <2>2. \A x \in 1..Len(h) : Beyond([heap |-> h, stk |-> stk], x) = h[x].rc - Times(stk, x)
    BY DEF Beyond
  <2>3. SameLife(h, h)
    BY DEF SameLife
  <2> QED BY <1>4, <1>5, <2>1, <2>2, <2>3
<1>7. ASSUME NEW n \in Nat, n \in T PROVE n + 1 \in T
  <2> SUFFICES ASSUME n + 1 \in 0..N PROVE Holds(n + 1)
    OBVIOUS
  <2>1. n \in 0..N-1 /\ n \in 0..N /\ n + 1 \in 1..N
    BY <1>1
  <2>2. Holds(n)
    BY <1>7, <2>1
  <2> DEFINE el == els[n + 1]
             u == g[n]
  <2>3. el \in 1..Len(h) /\ g[n + 1] = AddToStack(u, el)
    BY <1>4, <2>1
  <2>4. ASSUME NEW x \in 1..Len(h)
        PROVE  /\ Times(Prefix(els, n + 1), x) = Times(Prefix(els, n), x) + Same(el, x)
               /\ Times(Prefix(els, n + 1), x) <= Times(els, x)
               /\ Times(Prefix(els, n), x) \in Nat
    <3>1. Prefix(els, n) \in Seq(Nat)
      BY <2>1, PrefixStep
    <3> QED BY <2>1, <3>1, PrefixStep, TimesPositions
  <2>5. \A x \in 1..Len(h) : Beyond(u, x) = h[x].rc - Times(stk, x) - Times(Prefix(els, n), x)
    BY <2>2
  <2>6. Releases(h, u) /\ SameLife(h, u.heap)
    BY <2>2
  <2> HIDE DEF u, el, Holds
  <2>7. Beyond(u, el) > 0
    <3>1. Same(el, el) = 1
      BY DEF Same
    <3>2. /\ Times(Prefix(els, n + 1), el) = Times(Prefix(els, n), el) + 1
          /\ Times(Prefix(els, n + 1), el) <= Times(els, el)
          /\ Times(Prefix(els, n), el) \in Nat
      BY <2>3, <2>4, <3>1
    <3>3. Beyond(u, el) = h[el].rc - Times(stk, el) - Times(Prefix(els, n), el)
      BY <2>3, <2>5
    <3>4. /\ h[el].rc >= Times(stk, el) + Times(els, el)
          /\ h[el].rc \in Int /\ Times(stk, el) \in Nat /\ Times(els, el) \in Nat
      BY <1>5, <2>3
    <3> QED BY <3>2, <3>3, <3>4, SMTT(30)
  <2>8. Releases(h, AddToStack(u, el))
    BY <2>3, <2>6, <2>7, AddedToStack
  <2>9. \A x \in 1..Len(h) : Beyond(AddToStack(u, el), x) = Beyond(u, x) - Same(el, x)
    BY <2>3, <2>6, <2>7, AddedToStack
  <2>10. SameLife(u.heap, AddToStack(u, el).heap)
    BY <2>3, <2>6, <2>7, AddedToStack
  <2>11. ASSUME NEW x \in 1..Len(h)
         PROVE  Beyond(g[n + 1], x) = h[x].rc - Times(stk, x) - Times(Prefix(els, n + 1), x)
    <3>1. Same(el, x) \in Int
      BY DEF Same
    <3>2. Beyond(g[n + 1], x) = (h[x].rc - Times(stk, x) - Times(Prefix(els, n), x)) - Same(el, x)
      BY <2>3, <2>5, <2>9
    <3>3. Times(Prefix(els, n + 1), x) = Times(Prefix(els, n), x) + Same(el, x)
      BY <2>4
    <3>4. h[x].rc \in Int /\ Times(stk, x) \in Int /\ Times(Prefix(els, n), x) \in Int
      BY <1>5, <2>4
    <3> QED BY <3>1, <3>2, <3>3, <3>4, SMTT(30)
  <2>12. Len(u.heap) = Len(h)
    BY <2>6 DEF Releases, SameShape
  <2>13. SameLife(h, g[n + 1].heap)
    BY <2>3, <2>6, <2>10, <2>12 DEF SameLife
  <2> QED BY <2>3, <2>8, <2>11, <2>13 DEF Holds
<1> HIDE DEF T
<1>8. Nat \subseteq T
  BY <1>6, <1>7, NatSetInduction
<1>9. N \in T /\ N \in 0..N
  BY <1>1, <1>8
<1> QED BY <1>3, <1>9, PrefixWhole DEF T

-----------------------------------------------------------------------------
(***************************************************************************)
(* The inductive invariant, said of a heap, the references held and the    *)
(* stack of what waits to be released, and what each operation does to it. *)
(***************************************************************************)
Within(s, n) == \A k \in 1..Len(s) : s[k] \in 1..n

\* What an element refers to came before it.
Ordered(h) == \A el \in 1..Len(h) : \A k \in 1..Len(h[el].kids) : h[el].kids[k] \in 1..el-1

Balance(h, H, S, x) == FromCells(h, x) + FromClass(x) + Times(H, x) + Times(S, x)

HeapOK(h, H, S) ==
    /\ h \in Heap /\ H \in Seq(Nat) /\ S \in Seq(Nat)
    /\ Len(h) >= 2
    /\ Ordered(h)
    /\ Within(H, Len(h))
    /\ Within(S, Len(h))
    /\ \A k \in 1..Len(S) : h[S[k]].rc = 1
    /\ \A x \in 1..Len(h) : h[x].rc = Balance(h, H, S, x)
    /\ \A x \in 1..Len(h) : h[x].rc = 0 => h[x].kids = <<>>

\* Elements of a range, said of places and of occurrences.
LEMMA WithinTimes ==
    ASSUME NEW s \in Seq(Nat), NEW n \in Nat
    PROVE  Within(s, n) <=> \A x \in Nat : Times(s, x) > 0 => x \in 1..n
<1>1. \A k \in 1..Len(s) : s[k] \in Nat
  BY ElementOfSeq
<1>2. ASSUME Within(s, n), NEW x \in Nat, Times(s, x) > 0 PROVE x \in 1..n
  BY <1>2, TimesOccurs DEF Within
<1>3. ASSUME \A x \in Nat : Times(s, x) > 0 => x \in 1..n, NEW k \in 1..Len(s) PROVE s[k] \in 1..n
  <2>1. Times(s, s[k]) > 0
    BY TimesOccurs
  <2> QED BY <1>1, <1>3, <2>1
<1> QED BY <1>2, <1>3 DEF Within

\* The terms of the balance are natural numbers, and so are the counts.
LEMMA BalanceNat ==
    ASSUME NEW h \in Heap, NEW H \in Seq(Nat), NEW S \in Seq(Nat), NEW x
    PROVE  /\ FromCells(h, x) \in Nat /\ FromClass(x) \in Nat /\ Times(H, x) \in Nat /\ Times(S, x) \in Nat
           /\ Balance(h, H, S, x) \in Nat
<1>1. FromClass(x) \in Nat
  BY DEF FromClass
<1> QED BY <1>1, RefsFinite, TimesPositions DEF Balance

\* No cell refers to one that does not exist yet.
LEMMA NothingFresh ==
    ASSUME NEW h, NEW H, NEW S, HeapOK(h, H, S), NEW n \in Nat, n > Len(h)
    PROVE  FromCells(h, n) = 0 /\ FromClass(n) = 0 /\ Times(H, n) = 0 /\ Times(S, n) = 0
<1>1. h \in Heap /\ H \in Seq(Nat) /\ S \in Seq(Nat) /\ Len(h) \in Nat /\ n \notin 1..Len(h)
  BY HeapCells DEF HeapOK
<1>2. Times(H, n) = 0 /\ Times(S, n) = 0
  <2>1. ~(Times(H, n) > 0) /\ ~(Times(S, n) > 0)
    BY <1>1, WithinTimes DEF HeapOK
  <2> QED BY <1>1, <2>1, TimesPositions
<1>3. FromCells(h, n) = 0
  <2>1. ASSUME NEW c \in 1..Len(h), NEW k \in 1..Len(h[c].kids) PROVE h[c].kids[k] # n
    <3>1. h[c].kids[k] \in 1..c-1
      BY DEF HeapOK, Ordered
    <3>2. n \notin 1..c-1
      BY <1>1
    <3> QED BY <3>1, <3>2
  <2>2. ASSUME FromCells(h, n) > 0 PROVE FALSE
    <3>1. \E c \in 1..Len(h) : \E k \in 1..Len(h[c].kids) : h[c].kids[k] = n
      BY <1>1, <2>2, FromCellsOccurs
    <3> QED BY <2>1, <3>1
  <2> QED BY <1>1, <2>2, RefsFinite
<1>4. FromClass(n) = 0
  BY <1>1 DEF HeapOK, FromClass, Nil, One
<1> QED BY <1>2, <1>3, <1>4

\* One more reference to what exists.
LEMMA SharedOK ==
    ASSUME NEW h, NEW H, NEW S, HeapOK(h, H, S), S = <<>>, NEW el \in 1..Len(h)
    PROVE  HeapOK(bumpref(h, <<el>>), Append(H, el), S)
<1> DEFINE g == bumpref(h, <<el>>)
           I == Append(H, el)
<1>1. /\ h \in Heap /\ H \in Seq(Nat) /\ S \in Seq(Nat) /\ Len(h) \in Nat
      /\ el \in Nat /\ <<el>> \in Seq(Nat) /\ Len(<<el>>) = 1 /\ <<el>>[1] = el
  BY HeapCells DEF HeapOK
<1>2. SameShape(h, g) /\ \A c \in 1..Len(h) : g[c].rc = h[c].rc + Times(<<el>>, c)
  <2>1. \A k \in 1..Len(<<el>>) : <<el>>[k] \in 1..Len(h)
    BY <1>1
  <2> QED BY <1>1, <2>1, Bumped
<1>3. I \in Seq(Nat) /\ \A x : Times(I, x) = Times(H, x) + Same(el, x)
  BY <1>1, AppendProperties, TimesAppend
<1> HIDE DEF g, I
<1>4. g \in Heap /\ Len(g) = Len(h) /\ \A c \in 1..Len(h) : g[c].kids = h[c].kids
  BY <1>2 DEF SameShape
<1>5. ASSUME NEW x \in 1..Len(h)
      PROVE  g[x].rc = Balance(g, I, S, x) /\ g[x].rc >= h[x].rc /\ h[x].rc \in Nat
  <2>1. g[x].rc = h[x].rc + Same(el, x)
    BY <1>1, <1>2, TimesSingle
  <2>2. FromCells(g, x) = FromCells(h, x)
    BY <1>1, <1>4, FromCellsSame
  <2>3. h[x].rc = Balance(h, H, S, x) /\ Balance(h, H, S, x) \in Nat
    BY <1>1, BalanceNat DEF HeapOK
  <2>4. Same(el, x) \in Nat
    BY DEF Same
  <2>5. /\ FromCells(h, x) \in Nat /\ FromClass(x) \in Nat /\ Times(H, x) \in Nat /\ Times(S, x) \in Nat
    BY <1>1, BalanceNat
  <2> QED BY <1>3, <2>1, <2>2, <2>3, <2>4, <2>5, SMTT(30) DEF Balance
<1>6. Within(I, Len(g))
  <2>1. ASSUME NEW x \in Nat, Times(I, x) > 0 PROVE x \in 1..Len(g)
    <3>1. Times(H, x) > 0 \/ x = el
      BY <1>1, <1>3, <2>1, TimesPositions DEF Same
    <3> QED BY <1>1, <1>4, <3>1, WithinTimes DEF HeapOK
  <2> QED BY <1>1, <1>3, <1>4, <2>1, WithinTimes
<1>7. \A x \in 1..Len(g) : g[x].rc = 0 => g[x].kids = <<>>
  <2> SUFFICES ASSUME NEW x \in 1..Len(g), g[x].rc = 0 PROVE g[x].kids = <<>>
    OBVIOUS
  <2>1. x \in 1..Len(h)
    BY <1>4
  <2>2. h[x].rc = 0
    BY <1>5, <2>1
  <2> QED BY <1>4, <2>1, <2>2 DEF HeapOK
<1>8. Ordered(g)
  BY <1>1, <1>4 DEF HeapOK, Ordered
<1>9. Len(S) = 0
  OBVIOUS
<1>10. Within(S, Len(g)) /\ \A k \in 1..Len(S) : g[S[k]].rc = 1
  BY <1>9 DEF Within
<1>11. \A x \in 1..Len(g) : g[x].rc = Balance(g, I, S, x)
  BY <1>4, <1>5
<1>12. HeapOK(g, I, S)
  BY <1>1, <1>3, <1>4, <1>6, <1>7, <1>8, <1>10, <1>11 DEF HeapOK
<1> QED BY <1>12 DEF g, I

\* A new cell, held, that takes over references the client held.
LEMMA MadeOK ==
    ASSUME NEW h, NEW H, NEW S, HeapOK(h, H, S), S = <<>>,
           NEW cell \in CellType, cell.rc = 1,
           NEW J \in Seq(Nat), \A x : Times(H, x) = Times(J, x) + Times(cell.kids, x)
    PROVE  HeapOK(alloc(h, cell), Append(J, Len(h) + 1), S)
<1> DEFINE g == Append(h, cell)
           n == Len(h) + 1
           I == Append(J, n)
<1>1. /\ h \in Heap /\ H \in Seq(Nat) /\ S \in Seq(Nat) /\ Len(h) \in Nat
      /\ n \in Nat /\ cell.kids \in Seq(Nat)
  BY HeapCells DEF HeapOK, CellType
<1>2. /\ g \in Heap /\ Len(g) = n /\ g[n] = cell /\ \A d \in 1..Len(h) : g[d] = h[d]
      /\ \A x : FromCells(g, x) = FromCells(h, x) + Times(cell.kids, x)
  BY <1>1, FromCellsAppend, ZenonT(40)
<1>3. I \in Seq(Nat) /\ \A x : Times(I, x) = Times(J, x) + Same(n, x)
  <2>1. I \in Seq(Nat)
    BY <1>1, AppendProperties
  <2>2. ASSUME NEW x PROVE Times(I, x) = Times(J, x) + Same(n, x)
    BY <1>1, TimesAppend
  <2> QED BY <2>1, <2>2
<1>4. \A x : /\ Times(H, x) \in Nat /\ Times(J, x) \in Nat /\ Times(cell.kids, x) \in Nat
              /\ Times(S, x) \in Nat /\ FromCells(h, x) \in Nat /\ FromClass(x) \in Nat
  BY <1>1, BalanceNat, TimesPositions
<1>5. FromCells(h, n) = 0 /\ FromClass(n) = 0 /\ Times(H, n) = 0 /\ Times(S, n) = 0
  BY <1>1, NothingFresh
<1> HIDE DEF g, I
<1>6. ASSUME NEW x \in 1..Len(g) PROVE g[x].rc = Balance(g, I, S, x)
  <2>1. CASE x = n
    <3>1. Times(J, n) = 0 /\ Times(cell.kids, n) = 0
      BY <1>1, <1>4, <1>5
    <3>2. Same(n, n) = 1
      BY DEF Same
    <3> QED BY <1>1, <1>2, <1>3, <1>5, <2>1, <3>1, <3>2 DEF Balance
  <2>2. CASE x # n
    <3>1. x \in 1..Len(h) /\ x \in Nat
      BY <1>1, <1>2, <2>2
    <3>2. h[x].rc = Balance(h, H, S, x)
      BY <3>1 DEF HeapOK
    <3>3. Same(n, x) = 0
      BY <2>2 DEF Same
    <3>4. g[x] = h[x] /\ Times(H, x) = Times(J, x) + Times(cell.kids, x)
      BY <1>2, <3>1
    <3>5. FromCells(g, x) = FromCells(h, x) + Times(cell.kids, x) /\ Times(I, x) = Times(J, x)
      BY <1>2, <1>3, <1>4, <3>1, <3>3
    <3> QED BY <1>4, <3>1, <3>2, <3>4, <3>5 DEF Balance
  <2> QED BY <2>1, <2>2
<1>7. Within(I, Len(g))
  <2>1. ASSUME NEW x \in Nat, Times(I, x) > 0 PROVE x \in 1..Len(g)
    <3>1. Times(J, x) > 0 \/ x = n
      BY <1>3, <1>4, <2>1 DEF Same
    <3>2. Times(J, x) > 0 => Times(H, x) > 0
      BY <1>4
    <3>3. Times(H, x) > 0 => x \in 1..Len(h)
      BY <1>1, WithinTimes DEF HeapOK
    <3> QED BY <1>1, <1>2, <3>1, <3>2, <3>3
  <2> QED BY <1>1, <1>2, <1>3, <2>1, WithinTimes
<1>8. Ordered(g)
  <2>1. ASSUME NEW k \in 1..Len(cell.kids) PROVE cell.kids[k] \in 1..n-1
    <3>1. cell.kids[k] \in Nat
      BY <1>1, ElementOfSeq
    <3>2. Times(cell.kids, cell.kids[k]) > 0
      BY <1>1, TimesOccurs
    <3>3. Times(H, cell.kids[k]) > 0
      BY <1>4, <3>1, <3>2
    <3> QED BY <1>1, <3>1, <3>3, WithinTimes, SMTT(30) DEF HeapOK
  <2>2. ASSUME NEW x \in 1..Len(g), NEW k \in 1..Len(g[x].kids) PROVE g[x].kids[k] \in 1..x-1
    <3>1. CASE x = n
      BY <1>2, <2>1, <2>2, <3>1
    <3>2. CASE x \in 1..Len(h)
      BY <1>2, <2>2, <3>2 DEF HeapOK, Ordered
    <3> QED BY <1>1, <1>2, <3>1, <3>2
  <2> QED BY <2>2 DEF Ordered
<1>9. ASSUME NEW x \in 1..Len(g), g[x].rc = 0 PROVE g[x].kids = <<>>
  <2>1. x # n
    BY <1>2, <1>9
  <2>2. x \in 1..Len(h)
    BY <1>1, <1>2, <2>1
  <2> QED BY <1>2, <1>9, <2>2 DEF HeapOK
<1>10. Len(S) = 0
  OBVIOUS
<1>11. Len(g) >= 2
  BY <1>1, <1>2 DEF HeapOK
<1>12. HeapOK(g, I, S)
  BY <1>1, <1>2, <1>3, <1>6, <1>7, <1>8, <1>9, <1>10, <1>11 DEF HeapOK, Within
<1> QED BY <1>12 DEF alloc, g, I

\* References that nobody has any more are given up, and all is balanced again.
LEMMA GivenUpOK ==
    ASSUME NEW h \in Heap, NEW J \in Seq(Nat), NEW els \in Seq(Nat),
           Len(h) >= 2, Ordered(h), Within(J, Len(h)), Within(els, Len(h)),
           \A x \in 1..Len(h) : h[x].rc = Balance(h, J, <<>>, x) + Times(els, x),
           \A x \in 1..Len(h) : h[x].rc = 0 => h[x].kids = <<>>
    PROVE  LET s == deref_add_to_stack(h, <<>>, els)
           IN  HeapOK(s.heap, J, s.stk) /\ SameShape(h, s.heap)
<1> DEFINE s == deref_add_to_stack(h, <<>>, els)
           g == s.heap
           S == s.stk
<1>1. /\ <<>> \in Seq(Nat) /\ Len(<<>>) = 0 /\ Len(h) \in Nat
      /\ \A x : Times(<<>>, x) = 0
  BY HeapCells, TimesEmpty
<1>2. \A x \in 1..Len(h) : /\ h[x].rc \in Int /\ FromCells(h, x) \in Nat /\ FromClass(x) \in Nat
                           /\ Times(J, x) \in Nat /\ Times(els, x) \in Nat
                           /\ Balance(h, J, <<>>, x) \in Nat
  BY <1>1, HeapCells, BalanceNat, TimesPositions
<1>3. ASSUME NEW x \in 1..Len(h)
      PROVE  h[x].rc = FromCells(h, x) + FromClass(x) + Times(J, x) + Times(els, x)
  <2>1. h[x].rc = (FromCells(h, x) + FromClass(x) + Times(J, x) + Times(<<>>, x)) + Times(els, x)
    BY DEF Balance
  <2>2. FromCells(h, x) \in Nat /\ FromClass(x) \in Nat /\ Times(J, x) \in Nat
    BY <1>2
  <2>3. Times(<<>>, x) = 0
    BY <1>1
  <2> QED BY <2>1, <2>2, <2>3
<1>4. Releases(h, [heap |-> h, stk |-> <<>>])
  <2>1. SameShape(h, h)
    BY DEF SameShape
  <2> QED BY <1>1, <2>1 DEF Releases
<1>5. ASSUME NEW x \in 1..Len(h) PROVE h[x].rc >= Times(<<>>, x) + Times(els, x)
  <2>1. /\ FromCells(h, x) \in Nat /\ FromClass(x) \in Nat
        /\ Times(J, x) \in Nat /\ Times(els, x) \in Nat
    BY <1>2
  <2>2. Times(<<>>, x) = 0
    BY <1>1
  <2> QED BY <1>3, <2>1, <2>2
<1>6. \A k \in 1..Len(els) : els[k] \in 1..Len(h)
  BY DEF Within
<1>7. /\ Releases(h, s)
      /\ \A x \in 1..Len(h) : Beyond(s, x) = h[x].rc - Times(<<>>, x) - Times(els, x)
      /\ SameLife(h, s.heap)
  BY <1>1, <1>4, <1>5, <1>6, Dropped
<1> HIDE DEF s
<1>8. /\ g \in Heap /\ S \in Seq(Nat) /\ Len(g) = Len(h) /\ SameShape(h, g)
      /\ \A c \in 1..Len(h) : g[c].kids = h[c].kids
  BY <1>7 DEF Releases, SameShape
<1>9. ASSUME NEW x \in 1..Len(g) PROVE g[x].rc = Balance(g, J, S, x)
  <2>1. x \in 1..Len(h)
    BY <1>8
  <2>2. FromCells(g, x) = FromCells(h, x)
    BY <1>8, FromCellsSame
  <2>3. g[x].rc - Times(S, x) = h[x].rc - 0 - Times(els, x)
    BY <1>1, <1>7, <2>1 DEF Beyond
  <2>4. g[x].rc \in Int /\ Times(S, x) \in Nat
    BY <1>8, HeapCells, TimesPositions
  <2>5. h[x].rc = FromCells(h, x) + FromClass(x) + Times(J, x) + Times(els, x)
    BY <1>3, <2>1
  <2>6. /\ FromCells(h, x) \in Nat /\ FromClass(x) \in Nat /\ Times(J, x) \in Nat
        /\ Times(els, x) \in Nat
    BY <1>2, <2>1
  <2>7. Balance(g, J, S, x) = FromCells(h, x) + FromClass(x) + Times(J, x) + Times(S, x)
    BY <2>2 DEF Balance
  <2>8. h[x].rc \in Int
    BY <1>2, <2>1
  <2> HIDE DEF g, S
  <2>9. g[x].rc = (h[x].rc - Times(els, x)) + Times(S, x)
    <3> DEFINE a == g[x].rc
               b == h[x].rc
               c == Times(S, x)
               d == Times(els, x)
    <3>1. a \in Int /\ c \in Nat
      BY <2>4
    <3>2. b \in Int
      BY <2>8
    <3>3. d \in Nat
      BY <2>6
    <3>4. a - c = b - 0 - d
      BY <2>3
    <3> HIDE DEF a, b, c, d
    <3>5. a = (b - d) + c
      BY <3>1, <3>2, <3>3, <3>4
    <3> QED BY <3>5 DEF a, b, c, d
  <2>10. h[x].rc - Times(els, x) = FromCells(h, x) + FromClass(x) + Times(J, x)
    BY <2>5, <2>6
  <2> QED BY <2>7, <2>9, <2>10
<1>10. Ordered(g)
  BY <1>8 DEF Ordered
<1>11. Within(S, Len(g)) /\ \A k \in 1..Len(S) : g[S[k]].rc = 1
  BY <1>7, <1>8 DEF Releases, Within
<1>12. ASSUME NEW x \in 1..Len(g), g[x].rc = 0 PROVE g[x].kids = <<>>
  <2>1. x \in 1..Len(h)
    BY <1>8
  <2>2. ~(h[x].rc > 0)
    BY <1>7, <1>12, <2>1 DEF SameLife
  <2>3. h[x].rc \in Nat
    <3>1. /\ FromCells(h, x) \in Nat /\ FromClass(x) \in Nat /\ Times(J, x) \in Nat
          /\ Times(els, x) \in Nat
      BY <1>2, <2>1
    <3>2. h[x].rc = FromCells(h, x) + FromClass(x) + Times(J, x) + Times(els, x)
      BY <1>3, <2>1
    <3> QED BY <3>1, <3>2, SMTT(30)
  <2> QED BY <1>8, <2>1, <2>2, <2>3, SMTT(30)
<1>13. HeapOK(g, J, S)
  BY <1>8, <1>9, <1>10, <1>11, <1>12 DEF HeapOK
<1> QED BY <1>8, <1>13 DEF s

\* The client gives one of its references up (Element.deref).
LEMMA DerefOK ==
    ASSUME NEW h, NEW H, NEW S, HeapOK(h, H, S), S = <<>>, NEW el \in 1..Len(h), Times(H, el) > 0
    PROVE  LET s == deref_add_to_stack(h, <<>>, <<el>>)
           IN  HeapOK(s.heap, Without(H, el), s.stk) /\ SameShape(h, s.heap)
<1> DEFINE J == Without(H, el)
           els == <<el>>
<1>1. /\ h \in Heap /\ H \in Seq(Nat) /\ Len(h) \in Nat /\ el \in Nat /\ S \in Seq(Nat)
      /\ els \in Seq(Nat) /\ \A k \in 1..Len(els) : els[k] = el
  BY HeapCells DEF HeapOK
<1>2. J \in Seq(Nat) /\ \A x : Times(H, x) = Times(J, x) + Same(el, x)
  BY <1>1, TimesWithout
<1>3. \A x : Times(els, x) = Same(el, x)
  BY <1>1, TimesSingle
<1> HIDE DEF J, els
<1>4. Within(els, Len(h))
  BY <1>1 DEF Within
<1>5. Within(J, Len(h))
  <2>1. ASSUME NEW x \in Nat, Times(J, x) > 0 PROVE x \in 1..Len(h)
    <3>1. Times(J, x) \in Nat /\ Same(el, x) \in Nat
      BY <1>2, TimesPositions DEF Same
    <3>2. Times(H, x) > 0
      BY <1>2, <2>1, <3>1
    <3> QED BY <1>1, <3>2, WithinTimes DEF HeapOK
  <2> QED BY <1>1, <1>2, <2>1, WithinTimes
<1>6. ASSUME NEW x \in 1..Len(h) PROVE h[x].rc = Balance(h, J, <<>>, x) + Times(els, x)
  <2>1. h[x].rc = Balance(h, H, S, x)
    BY DEF HeapOK
  <2>2. /\ FromCells(h, x) \in Nat /\ FromClass(x) \in Nat /\ Times(J, x) \in Nat
        /\ Times(S, x) \in Nat /\ Same(el, x) \in Nat
    BY <1>1, <1>2, BalanceNat, TimesPositions DEF Same
  <2> QED BY <1>2, <1>3, <2>1, <2>2 DEF Balance
<1>7. Len(h) >= 2 /\ Ordered(h) /\ \A x \in 1..Len(h) : h[x].rc = 0 => h[x].kids = <<>>
  BY DEF HeapOK
<1>8. LET s == deref_add_to_stack(h, <<>>, els) IN HeapOK(s.heap, J, s.stk) /\ SameShape(h, s.heap)
  BY <1>1, <1>2, <1>4, <1>5, <1>6, <1>7, GivenUpOK
<1> QED BY <1>8 DEF J, els

\* The client takes a pair apart (steal_children).
LEMMA StolenOK ==
    ASSUME NEW h, NEW H, NEW S, HeapOK(h, H, S), S = <<>>, NEW el \in 1..Len(h), Times(H, el) > 0
    PROVE  LET s == deref_add_to_stack(Stolen(h, el), <<>>, <<el>>)
           IN  HeapOK(s.heap, Without(H, el) \o h[el].kids, s.stk) /\ SameShape(h, s.heap)
<1> DEFINE g == Stolen(h, el)
           kids == h[el].kids
           W == Without(H, el)
           J == W \o kids
           els == <<el>>
<1>1. /\ h \in Heap /\ H \in Seq(Nat) /\ Len(h) \in Nat /\ el \in Nat /\ S \in Seq(Nat)
      /\ els \in Seq(Nat) /\ \A k \in 1..Len(els) : els[k] = el
      /\ kids \in Seq(Nat)
  BY HeapCells DEF HeapOK
<1>2. \A k \in 1..Len(kids) : kids[k] \in 1..Len(h)
  <2> SUFFICES ASSUME NEW k \in 1..Len(kids) PROVE kids[k] \in 1..Len(h)
    OBVIOUS
  <2>1. kids[k] \in 1..el-1
    BY DEF HeapOK, Ordered
  <2> QED BY <1>1, <2>1
<1>3. SameShape(h, g) /\ \A c \in 1..Len(h) : g[c].rc = h[c].rc + Times(kids, c)
  BY <1>1, <1>2, Bumped DEF Stolen
<1>4. W \in Seq(Nat) /\ \A x : Times(H, x) = Times(W, x) + Same(el, x)
  BY <1>1, TimesWithout
<1>5. \A x : Times(els, x) = Same(el, x)
  BY <1>1, TimesSingle
<1>6. J \in Seq(Nat) /\ \A x : Times(J, x) = Times(W, x) + Times(kids, x)
  BY <1>1, <1>4, TimesConcat, ConcatProperties
<1> HIDE DEF g, J, els, W, kids
<1>7. g \in Heap /\ Len(g) = Len(h) /\ \A c \in 1..Len(h) : g[c].kids = h[c].kids
  BY <1>3 DEF SameShape
<1>8. \A x : Times(W, x) \in Nat /\ Times(kids, x) \in Nat /\ Same(el, x) \in Nat
  BY <1>1, <1>4, TimesPositions DEF Same
<1>9. Within(els, Len(g))
  BY <1>1, <1>7 DEF Within
<1>10. Within(J, Len(g))
  <2>1. ASSUME NEW x \in Nat, Times(J, x) > 0 PROVE x \in 1..Len(h)
    <3>1. Times(W, x) > 0 \/ Times(kids, x) > 0
      BY <1>6, <1>8, <2>1
    <3>2. CASE Times(W, x) > 0
      <4>1. Times(H, x) > 0
        BY <1>4, <1>8, <3>2
      <4> QED BY <1>1, <4>1, WithinTimes DEF HeapOK
    <3>3. CASE Times(kids, x) > 0
      <4>1. Within(kids, Len(h))
        BY <1>2 DEF Within
      <4> QED BY <1>1, <3>3, <4>1, WithinTimes
    <3> QED BY <3>1, <3>2, <3>3
  <2> QED BY <1>1, <1>6, <1>7, <2>1, WithinTimes
<1>11. ASSUME NEW x \in 1..Len(h)
       PROVE  /\ g[x].rc = Balance(g, J, <<>>, x) + Times(els, x)
              /\ g[x].rc = 0 => h[x].rc = 0
  <2>1. h[x].rc = Balance(h, H, S, x)
    BY DEF HeapOK
  <2>2. FromCells(g, x) = FromCells(h, x)
    BY <1>1, <1>7, FromCellsSame
  <2>3. FromCells(h, x) \in Nat /\ FromClass(x) \in Nat /\ Times(S, x) \in Nat /\ Times(S, x) = 0
    BY <1>1, BalanceNat, TimesEmpty
  <2>4. g[x].rc = h[x].rc + Times(kids, x)
    BY <1>3
  <2>5. h[x].rc = FromCells(h, x) + FromClass(x) + Times(W, x) + Same(el, x)
    BY <1>4, <1>8, <2>1, <2>3, SMTT(30) DEF Balance
  <2>6. g[x].rc = 0 => h[x].rc = 0
    BY <1>8, <2>3, <2>4, <2>5
  <2>7. Times(<<>>, x) = 0
    BY TimesEmpty
  <2>8. Balance(g, J, <<>>, x) = FromCells(h, x) + FromClass(x) + (Times(W, x) + Times(kids, x))
    BY <1>6, <1>8, <2>2, <2>3, <2>7 DEF Balance
  <2> QED BY <1>5, <1>8, <2>3, <2>4, <2>5, <2>6, <2>8
<1>12. Len(g) >= 2 /\ Ordered(g)
  BY <1>7 DEF HeapOK, Ordered
<1>13. \A x \in 1..Len(g) : g[x].rc = 0 => g[x].kids = <<>>
  BY <1>7, <1>11 DEF HeapOK
<1>14. \A x \in 1..Len(g) : g[x].rc = Balance(g, J, <<>>, x) + Times(els, x)
  BY <1>7, <1>11
<1>15. LET s == deref_add_to_stack(g, <<>>, els) IN HeapOK(s.heap, J, s.stk) /\ SameShape(g, s.heap)
  BY <1>1, <1>6, <1>7, <1>9, <1>10, <1>12, <1>13, <1>14, GivenUpOK
<1>16. ASSUME NEW f, SameShape(g, f) PROVE SameShape(h, f)
  BY <1>3, <1>7, <1>16 DEF SameShape
<1> QED BY <1>15, <1>16 DEF g, J, els, W, kids

\* The cell of an element released: nothing refers to it, and it refers to nothing.
Emptied(h, el, r) == [h EXCEPT ![el] = [h[el] EXCEPT !.rc = r, !.kids = <<>>]]

\* Only that cell changes.
LEMMA EmptiedCell ==
    ASSUME NEW h \in Heap, NEW el \in 1..Len(h), NEW r \in Int
    PROVE  /\ Emptied(h, el, r) \in Heap /\ Len(Emptied(h, el, r)) = Len(h)
           /\ Emptied(h, el, r)[el].rc = r /\ Emptied(h, el, r)[el].kids = <<>>
           /\ \A c \in 1..Len(h) : c # el => Emptied(h, el, r)[c] = h[c]
<1> DEFINE new == [h[el] EXCEPT !.rc = r, !.kids = <<>>]
           g == [h EXCEPT ![el] = new]
<1>1. h[el] \in CellType
  BY HeapCells
<1>2. new \in CellType /\ new.rc = r /\ new.kids = <<>>
  <2> DEFINE c == h[el]
             a == [c EXCEPT !.rc = r]
  <2>1. c \in CellType
    BY <1>1
  <2> HIDE DEF c
  <2>2. a \in CellType /\ a.rc = r
    BY <2>1 DEF CellType
  <2>3. new = [a EXCEPT !.kids = <<>>]
    BY DEF c
  <2>4. <<>> \in Seq(Nat)
    OBVIOUS
  <2> HIDE DEF a, new
  <2> QED BY <2>2, <2>3, <2>4 DEF CellType
<1>3. Emptied(h, el, r) = g
  BY DEF Emptied
<1> HIDE DEF new
<1>4. /\ g \in Heap /\ Len(g) = Len(h)
      /\ \A j \in 1..Len(h) : g[j] = IF j = el THEN new ELSE h[j]
  BY <1>2, ExceptSeq DEF Heap
<1> HIDE DEF g
<1> QED BY <1>2, <1>3, <1>4

\* One turn of deref_stack: the element on top has no reference left, and is released.
LEMMA FreedOK ==
    ASSUME NEW h, NEW H, NEW S, HeapOK(h, H, S), S # <<>>
    PROVE  LET s == FreeTop([heap |-> h, stk |-> S])
               el == S[Len(S)]
           IN  /\ HeapOK(s.heap, H, s.stk)
               /\ el \in 1..Len(h) /\ FromCells(h, el) = 0 /\ Times(H, el) = 0
               /\ Len(s.heap) = Len(h)
               /\ \A d \in 1..Len(h) : d # el => s.heap[d].kids = h[d].kids
<1> DEFINE n == Len(S)
           el == S[n]
           kids == h[el].kids
           F == SubSeq(S, 1, n - 1)
           s1 == deref_add_to_stack(h, F, kids)
           s == FreeTop([heap |-> h, stk |-> S])
<1>1. h \in Heap /\ H \in Seq(Nat) /\ S \in Seq(Nat) /\ Len(h) \in Nat /\ n \in Nat
  BY HeapCells, LenProperties DEF HeapOK
<1>2. n # 0
  BY <1>1, EmptySeq
<1>3. el \in 1..Len(h) /\ h[el].rc = 1 /\ el \in Nat
  BY <1>1, <1>2 DEF HeapOK, Within
<1>4. kids \in Seq(Nat)
  BY <1>1, <1>3, HeapCells, SMTT(30)
<1>5. F \in Seq(Nat) /\ S = F \o <<el>>
  <2>1. 1 \in 1..n /\ n \in 1..n
    BY <1>1, <1>2
  <2>2. SubSeq(S, 1, n) = SubSeq(S, 1, n - 1) \o <<S[n]>>
    BY <1>1, <2>1, SubSeqRecursiveSecond
  <2>3. SubSeq(S, 1, n) = S
    BY <1>1, SubSeqFull
  <2>4. F \in Seq(Nat)
    BY <1>1, <1>2, SubSeqProperties
  <2> QED BY <2>2, <2>3, <2>4
<1>6. s = [s1 EXCEPT !.heap[el].rc = @ - 1, !.heap[el].kids = <<>>]
  BY DEF FreeTop
<1> HIDE DEF F
<1>7. \A x : Times(S, x) = Times(F, x) + Same(el, x)
  <2> TAKE x
  <2>1. <<el>> \in Seq(Nat)
    BY <1>3
  <2>2. Times(F \o <<el>>, x) = Times(F, x) + Times(<<el>>, x)
    BY <1>5, <2>1, TimesConcat
  <2>3. Times(<<el>>, x) = Same(el, x)
    BY <1>3, TimesSingle
  <2> QED BY <1>5, <2>2, <2>3
<1> HIDE DEF n, el, kids, s1, s
<1>8. \A x : /\ FromCells(h, x) \in Nat /\ FromClass(x) \in Nat /\ Times(H, x) \in Nat
             /\ Times(F, x) \in Nat /\ Times(kids, x) \in Nat /\ Same(el, x) \in Nat
  BY <1>1, <1>4, <1>5, BalanceNat, TimesPositions DEF Same
<1>9. \A x \in 1..Len(h) : h[x].rc = FromCells(h, x) + FromClass(x) + Times(H, x) + (Times(F, x) + Same(el, x))
  BY <1>7 DEF HeapOK, Balance
<1>10. \A x : FromCells(h, x) >= Times(kids, x)
  <2> TAKE x
  <2>1. /\ FromCells(h, x) = Cardinality(RefsOut(h, el, x)) + Times(h[el].kids, x)
        /\ Cardinality(RefsOut(h, el, x)) \in Nat
    BY <1>1, <1>3, RefsSplit
  <2> QED BY <1>8, <2>1 DEF kids
<1>11. /\ FromCells(h, el) = 0 /\ FromClass(el) = 0 /\ Times(H, el) = 0 /\ Times(F, el) = 0
       /\ Times(kids, el) = 0
  <2>1. Same(el, el) = 1
    BY DEF Same
  <2>2. 1 = FromCells(h, el) + FromClass(el) + Times(H, el) + (Times(F, el) + 1)
    BY <1>3, <1>9, <2>1
  <2>3. FromCells(h, el) >= Times(kids, el)
    BY <1>10
  <2> QED BY <1>8, <2>2, <2>3
<1>12. /\ Releases(h, s1)
       /\ \A x \in 1..Len(h) : Beyond(s1, x) = h[x].rc - Times(F, x) - Times(kids, x)
       /\ SameLife(h, s1.heap)
  <2>1. Releases(h, [heap |-> h, stk |-> F])
    <3>1. SameShape(h, h)
      BY <1>1 DEF SameShape
    <3>2. ASSUME NEW k \in 1..Len(F) PROVE F[k] \in 1..Len(h) /\ h[F[k]].rc = 1
      <4>1. Times(F, F[k]) > 0
        BY <1>5, TimesOccurs
      <4>2. Times(S, F[k]) > 0
        BY <1>7, <1>8, <4>1
      <4>3. PICK j \in 1..Len(S) : S[j] = F[k]
        BY <1>1, <4>2, TimesOccurs
      <4> QED BY <4>3 DEF HeapOK, Within
    <3> QED BY <1>1, <1>5, <3>1, <3>2 DEF Releases
  <2>2. ASSUME NEW k \in 1..Len(kids) PROVE kids[k] \in 1..Len(h)
    <3>1. kids[k] \in 1..el-1
      BY <1>3 DEF HeapOK, Ordered, kids
    <3> QED BY <1>1, <1>3, <3>1
  <2>3. ASSUME NEW x \in 1..Len(h) PROVE h[x].rc >= Times(F, x) + Times(kids, x)
    <3>1. h[x].rc = FromCells(h, x) + FromClass(x) + Times(H, x) + (Times(F, x) + Same(el, x))
      BY <1>9
    <3>2. FromCells(h, x) >= Times(kids, x)
      BY <1>10
    <3> QED BY <1>8, <3>1, <3>2
  <2> QED BY <1>1, <1>4, <1>5, <2>1, <2>2, <2>3, Dropped DEF s1
<1> DEFINE u == s1.heap
           T == s1.stk
<1>13. /\ s1 \in [heap : Heap, stk : Seq(Nat)] /\ u \in Heap /\ T \in Seq(Nat) /\ Len(u) = Len(h)
       /\ \A c \in 1..Len(h) : u[c].kids = h[c].kids
       /\ \A k \in 1..Len(T) : T[k] \in 1..Len(h) /\ u[T[k]].rc = 1
  BY <1>12 DEF Releases, SameShape
<1>14. \A x \in 1..Len(h) : u[x].rc \in Int /\ Times(T, x) \in Nat
  BY <1>13, HeapCells, TimesPositions
<1>15. \A x \in 1..Len(h) : u[x].rc - Times(T, x) = h[x].rc - Times(F, x) - Times(kids, x)
  BY <1>12 DEF Beyond
<1>16. u[el].rc = 1 /\ Times(T, el) = 0
  <2>1. u[el].rc - Times(T, el) = 1
    BY <1>3, <1>11, <1>15
  <2>2. Times(T, el) > 0 => u[el].rc = 1
    BY <1>13, TimesOccurs
  <2> QED BY <1>3, <1>14, <2>1, <2>2
<1> DEFINE g == Emptied(u, el, 0)
<1>17. s.heap = g /\ s.stk = T
  <2>1. s.stk = T
    BY <1>6, <1>13
  <2>2. s.heap = [u EXCEPT ![el] = [u[el] EXCEPT !.rc = u[el].rc - 1, !.kids = <<>>]]
    <3>1. u[el] \in CellType /\ DOMAIN u = 1..Len(u) /\ el \in 1..Len(u)
      BY <1>3, <1>13, HeapCells
    <3> QED BY <1>6, <1>13, <3>1 DEF CellType
  <2>3. u[el].rc - 1 = 0
    BY <1>16
  <2> QED BY <2>1, <2>2, <2>3 DEF Emptied
<1>18. /\ g \in Heap /\ Len(g) = Len(h) /\ g[el].rc = 0 /\ g[el].kids = <<>>
       /\ \A c \in 1..Len(h) : c # el => g[c] = u[c]
  BY <1>3, <1>13, EmptiedCell
<1> HIDE DEF g, u, T
<1>19. \A d \in 1..Len(h) : d # el => g[d].kids = h[d].kids
  BY <1>13, <1>18
<1>20. \A x : FromCells(g, x) = FromCells(h, x) - Times(kids, x)
  <2> TAKE x
  <2>1. FromCells(g, x) - Times(g[el].kids, x) = FromCells(h, x) - Times(h[el].kids, x)
    BY <1>1, <1>3, <1>18, <1>19, FromCellsExcept
  <2>2. Times(g[el].kids, x) = 0
    BY <1>18, TimesEmpty
  <2>3. FromCells(g, x) \in Nat
    BY <1>18, RefsFinite
  <2> QED BY <2>1, <2>2, <2>3 DEF kids
<1>21. ASSUME NEW x \in 1..Len(g) PROVE g[x].rc = Balance(g, H, T, x)
  <2>0. x \in 1..Len(h)
    BY <1>18
  <2>1. CASE x = el
    <3>1. FromCells(g, el) = 0
      BY <1>11, <1>20
    <3> QED BY <1>11, <1>16, <1>18, <2>1, <3>1 DEF Balance
  <2>2. CASE x # el
    <3>1. Same(el, x) = 0
      BY <2>2 DEF Same
    <3>2. h[x].rc = FromCells(h, x) + FromClass(x) + Times(H, x) + Times(F, x)
      BY <1>8, <1>9, <2>0, <3>1
    <3>3. u[x].rc - Times(T, x) = h[x].rc - Times(F, x) - Times(kids, x)
      BY <1>15, <2>0
    <3>4. u[x].rc \in Int /\ Times(T, x) \in Nat /\ g[x].rc = u[x].rc
      BY <1>14, <1>18, <2>0, <2>2
    <3>5. FromCells(g, x) = FromCells(h, x) - Times(kids, x)
      BY <1>20
    <3> DEFINE a == u[x].rc
               b == Times(T, x)
               c == FromCells(h, x)
               d == Times(kids, x)
               e == FromClass(x)
               f == Times(H, x)
               i == Times(F, x)
    <3>6. a \in Int /\ b \in Nat /\ c \in Nat /\ d \in Nat /\ e \in Nat /\ f \in Nat /\ i \in Nat
      BY <1>8, <3>4
    <3>7. a - b = (c + e + f + i) - i - d
      BY <3>2, <3>3
    <3>8. g[x].rc = a /\ Balance(g, H, T, x) = (c - d) + e + f + b
      BY <3>4, <3>5 DEF Balance
    <3> HIDE DEF a, b, c, d, e, f, i
    <3> QED BY <3>6, <3>7, <3>8
  <2> QED BY <2>1, <2>2
<1>22. \A k \in 1..Len(T) : T[k] \in 1..Len(h) /\ g[T[k]].rc = 1
  <2> SUFFICES ASSUME NEW k \in 1..Len(T) PROVE T[k] \in 1..Len(h) /\ g[T[k]].rc = 1
    OBVIOUS
  <2>1. T[k] \in 1..Len(h) /\ u[T[k]].rc = 1
    BY <1>13 DEF u, T
  <2>2. T[k] # el
    <3>1. T \in Seq(Nat)
      BY <1>13 DEF T
    <3>2. Times(T, T[k]) > 0
      BY <3>1, TimesOccurs
    <3> QED BY <1>16, <3>2
  <2> QED BY <1>18, <2>1, <2>2
<1>23. Ordered(g)
  <2> SUFFICES ASSUME NEW x \in 1..Len(g), NEW k \in 1..Len(g[x].kids) PROVE g[x].kids[k] \in 1..x-1
    BY DEF Ordered
  <2>1. x # el
    BY <1>18
  <2> QED BY <1>18, <1>19, <2>1 DEF HeapOK, Ordered
<1>24. ASSUME NEW x \in 1..Len(g), g[x].rc = 0 PROVE g[x].kids = <<>>
  <2>1. CASE x = el
    BY <1>18, <2>1
  <2>2. CASE x # el
    <3>1. x \in 1..Len(h) /\ u[x].rc = 0
      BY <1>18, <1>24, <2>2
    <3>2. ~(h[x].rc > 0)
      BY <1>12, <3>1 DEF SameLife, u
    <3>3. h[x].rc \in Nat
      BY <1>8, <1>9, <3>1
    <3>4. h[x].rc = 0
      BY <3>2, <3>3
    <3> QED BY <1>19, <2>2, <3>1, <3>4 DEF HeapOK
  <2> QED BY <2>1, <2>2
<1>25. T \in Seq(Nat) /\ Within(T, Len(g)) /\ \A k \in 1..Len(T) : g[T[k]].rc = 1
  BY <1>13, <1>18, <1>22 DEF Within, T
<1>26. HeapOK(g, H, T)
  BY <1>1, <1>18, <1>21, <1>23, <1>24, <1>25 DEF HeapOK
<1>27. HeapOK(s.heap, H, s.stk) /\ Len(s.heap) = Len(h) /\ \A d \in 1..Len(h) : d # el => s.heap[d].kids = h[d].kids
  BY <1>17, <1>18, <1>19, <1>26
<1> QED BY <1>3, <1>11, <1>27 DEF s, el, n

-----------------------------------------------------------------------------
(***************************************************************************)
(* What can be reached.                                                    *)
(***************************************************************************)
Children(h, el) == {h[el].kids[i] : i \in DOMAIN h[el].kids}
Wider(h, els)   == els \cup UNION {Children(h, el) : el \in els}

ReachTurn(h, roots, f, k) ==
    IF k = 0 THEN roots
    ELSE f[k-1] \cup UNION {{h[el].kids[i] : i \in DOMAIN h[el].kids} : el \in f[k-1]}
ReachTurns(h, roots, n, f) == f = [k \in 0..n |-> ReachTurn(h, roots, f, k)]

\* The layers of what is reached exist.
LEMMA ReachTurnsExist ==
    ASSUME NEW h, NEW roots
    PROVE  \A n \in Nat : \E f : ReachTurns(h, roots, n, f)
<1> DEFINE T == {n \in Nat : \E f : ReachTurns(h, roots, n, f)}
<1>1. 0 \in T
  <2>1. ReachTurns(h, roots, 0, [k \in 0..0 |-> roots])
    BY DEF ReachTurns, ReachTurn
  <2> QED BY <2>1
<1>2. ASSUME NEW n \in Nat, n \in T PROVE n + 1 \in T
  <2>1. PICK g : ReachTurns(h, roots, n, g)
    BY <1>2
  <2> DEFINE f == [k \in 0..n+1 |-> IF k = n + 1 THEN ReachTurn(h, roots, g, k) ELSE g[k]]
  <2>2. \A k \in 0..n+1 : f[k] = ReachTurn(h, roots, g, k)
    BY <2>1 DEF ReachTurns
  <2>3. \A k \in 0..n : f[k] = g[k]
    OBVIOUS
  <2>4. \A k \in 1..n+1 : k - 1 \in 0..n
    OBVIOUS
  <2> HIDE DEF f
  <2>5. \A k \in 0..n+1 : ReachTurn(h, roots, f, k) = ReachTurn(h, roots, g, k)
    <3> SUFFICES ASSUME NEW k \in 0..n+1 PROVE ReachTurn(h, roots, f, k) = ReachTurn(h, roots, g, k)
      OBVIOUS
    <3>1. CASE k = 0
      BY <3>1 DEF ReachTurn
    <3>2. CASE k # 0
      <4>1. f[k-1] = g[k-1]
        BY <2>3, <2>4, <3>2
      <4> QED BY <4>1, <3>2 DEF ReachTurn
    <3> QED BY <3>1, <3>2
  <2>6. f = [k \in 0..n+1 |-> f[k]]
    BY DEF f
  <2>7. ReachTurns(h, roots, n + 1, f)
    BY <2>2, <2>5, <2>6 DEF ReachTurns
  <2> QED BY <2>7
<1> HIDE DEF T
<1>3. Nat \subseteq T
  BY <1>1, <1>2, NatSetInduction
<1> QED BY <1>3 DEF T

\* The sets of what is reached in at most so many steps.
Layers(h, roots) == CHOOSE f : ReachTurns(h, roots, Len(h), f)

\* Each layer adds the children of the one before.
LEMMA LayersStep ==
    ASSUME NEW h \in Heap, NEW roots
    PROVE  /\ Reached(h, roots) = Layers(h, roots)[Len(h)]
           /\ Layers(h, roots)[0] = roots
           /\ \A n \in 0..Len(h)-1 :
                 Layers(h, roots)[n + 1] = Wider(h, Layers(h, roots)[n])
<1> DEFINE f == Layers(h, roots)
<1>1. Len(h) \in Nat
  BY HeapCells
<1>2. ReachTurns(h, roots, Len(h), f)
  BY <1>1, ReachTurnsExist DEF Layers
<1>3. Reached(h, roots) = f[Len(h)]
  BY DEF Reached, Layers, ReachTurns, ReachTurn
<1> HIDE DEF f
<1>4. \A k \in 0..Len(h) : f[k] = ReachTurn(h, roots, f, k)
  BY <1>2 DEF ReachTurns
<1>5. f[0] = roots
  <2>1. f[0] = ReachTurn(h, roots, f, 0)
    BY <1>1, <1>4
  <2> QED BY <2>1 DEF ReachTurn
<1>6. ASSUME NEW n \in 0..Len(h)-1 PROVE f[n + 1] = Wider(h, f[n])
  <2>1. n + 1 \in 0..Len(h) /\ n + 1 # 0 /\ (n + 1) - 1 = n
    BY <1>1
  <2>2. f[n + 1] = ReachTurn(h, roots, f, n + 1)
    BY <1>4, <2>1
  <2> QED BY <2>1, <2>2 DEF ReachTurn, Children, Wider
<1> QED BY <1>3, <1>5, <1>6 DEF f

\* Whatever contains the roots and what its own members refer to contains all that is reached.
LEMMA ReachedWithin ==
    ASSUME NEW h \in Heap, NEW roots, NEW P, P \subseteq 1..Len(h), roots \subseteq P,
           \A el \in P : \A k \in 1..Len(h[el].kids) : h[el].kids[k] \in P
    PROVE  Reached(h, roots) \subseteq P
<1> DEFINE f == Layers(h, roots)
           T == {n \in Nat : n \in 0..Len(h) => f[n] \subseteq P}
<1>1. Len(h) \in Nat
  BY HeapCells
<1>2. \A el \in P : Children(h, el) \subseteq P
  BY HeapCells DEF Children
<1>3. /\ Reached(h, roots) = f[Len(h)] /\ f[0] = roots
      /\ \A n \in 0..Len(h)-1 : f[n + 1] = Wider(h, f[n])
  BY LayersStep, ZenonT(40)
<1> HIDE DEF f
<1>4. 0 \in T
  BY <1>3
<1>5. ASSUME NEW n \in Nat, n \in T PROVE n + 1 \in T
  <2> SUFFICES ASSUME n + 1 \in 0..Len(h) PROVE f[n + 1] \subseteq P
    OBVIOUS
  <2>1. n \in 0..Len(h)-1 /\ n \in 0..Len(h)
    BY <1>1
  <2>2. f[n] \subseteq P
    BY <1>5, <2>1
  <2>3. f[n + 1] = Wider(h, f[n])
    BY <1>3, <2>1
  <2> QED BY <1>2, <2>2, <2>3 DEF Wider
<1> HIDE DEF T
<1>6. Nat \subseteq T
  BY <1>4, <1>5, NatSetInduction
<1>7. Len(h) \in T /\ Len(h) \in 0..Len(h)
  BY <1>1, <1>6
<1> QED BY <1>3, <1>7 DEF T

\* Between two operations, whatever is alive is interned or reached from what is held.
LEMMA LiveReached ==
    ASSUME NEW h, NEW H, NEW S, HeapOK(h, H, S), S = <<>>,
           NEW x \in 1..Len(h), h[x].rc > 0, x \notin {Nil, One}
    PROVE  x \in Reached(h, {H[k] : k \in DOMAIN H})
<1> DEFINE roots == {H[k] : k \in DOMAIN H}
           f == Layers(h, roots)
           Found(n) == /\ roots \subseteq f[n]
                       /\ \A y \in 1..Len(h) :
                             h[y].rc > 0 /\ y \notin {Nil, One} /\ Len(h) - y <= n => y \in f[n]
           T == {n \in Nat : n \in 0..Len(h) => Found(n)}
<1>1. h \in Heap /\ H \in Seq(Nat) /\ S \in Seq(Nat) /\ Len(h) \in Nat
  BY HeapCells DEF HeapOK
<1>2. /\ Reached(h, roots) = f[Len(h)] /\ f[0] = roots
      /\ \A n \in 0..Len(h)-1 : f[n + 1] = Wider(h, f[n])
  BY <1>1, LayersStep
<1> HIDE DEF f
<1>3. ASSUME NEW y \in 1..Len(h), h[y].rc > 0, y \notin {Nil, One}
      PROVE  y \in roots \/ \E c \in 1..Len(h) : c > y /\ c \notin {Nil, One} /\ h[c].rc > 0 /\ y \in Children(h, c)
  <2>1. h[y].rc = FromCells(h, y) + FromClass(y) + Times(H, y) + Times(S, y)
    BY DEF HeapOK, Balance
  <2>2. FromClass(y) = 0 /\ Times(S, y) = 0 /\ FromCells(h, y) \in Nat /\ Times(H, y) \in Nat
    BY <1>1, <1>3, BalanceNat, TimesEmpty DEF FromClass
  <2>3. FromCells(h, y) > 0 \/ Times(H, y) > 0
    BY <1>3, <2>1, <2>2
  <2>4. CASE Times(H, y) > 0
    <3>1. PICK k \in 1..Len(H) : H[k] = y
      BY <1>1, <2>4, TimesOccurs
    <3> QED BY <1>1, <3>1, LenProperties
  <2>5. CASE FromCells(h, y) > 0
    <3>1. PICK c \in 1..Len(h) : \E k \in 1..Len(h[c].kids) : h[c].kids[k] = y
      BY <1>1, <2>5, FromCellsOccurs
    <3>2. PICK k \in 1..Len(h[c].kids) : h[c].kids[k] = y
      BY <3>1
    <3>3. y \in 1..c-1
      BY <3>2 DEF HeapOK, Ordered
    <3>4. c > y /\ c \notin {Nil, One}
      BY <1>3, <3>3 DEF Nil, One
    <3>5. h[c].kids # <<>>
      BY <3>2
    <3>6. h[c].rc > 0
      <4>1. h[c].rc # 0
        BY <3>5 DEF HeapOK
      <4>2. h[c].rc = Balance(h, H, S, c)
        BY DEF HeapOK
      <4>3. h[c].rc \in Nat
        BY <1>1, <4>2, BalanceNat
      <4> QED BY <4>1, <4>3
    <3>7. y \in Children(h, c)
      BY <1>1, <3>2, HeapCells DEF Children
    <3> QED BY <3>4, <3>6, <3>7
  <2> QED BY <2>3, <2>4, <2>5
<1>4. 0 \in T
  <2> SUFFICES Found(0)
    OBVIOUS
  <2>1. ASSUME NEW y \in 1..Len(h), h[y].rc > 0, y \notin {Nil, One}, Len(h) - y <= 0 PROVE y \in f[0]
    <3>1. ~ \E c \in 1..Len(h) : c > y
      BY <1>1, <2>1
    <3> QED BY <1>2, <1>3, <2>1, <3>1
  <2> QED BY <1>2, <2>1
<1>5. ASSUME NEW n \in Nat, n \in T PROVE n + 1 \in T
  <2> SUFFICES ASSUME n + 1 \in 0..Len(h) PROVE Found(n + 1)
    OBVIOUS
  <2>1. n \in 0..Len(h)-1 /\ n \in 0..Len(h)
    BY <1>1
  <2>2. Found(n)
    BY <1>5, <2>1
  <2>3. f[n + 1] = Wider(h, f[n])
    BY <1>2, <2>1
  <2>4. ASSUME NEW y \in 1..Len(h), h[y].rc > 0, y \notin {Nil, One}, Len(h) - y <= n + 1
        PROVE  y \in f[n + 1]
    <3>1. CASE y \in roots
      BY <2>2, <2>3, <3>1 DEF Wider
    <3>2. CASE y \notin roots
      <4>1. PICK c \in 1..Len(h) : c > y /\ c \notin {Nil, One} /\ h[c].rc > 0 /\ y \in Children(h, c)
        BY <1>3, <2>4, <3>2
      <4>2. Len(h) - c <= n
        BY <1>1, <2>4, <4>1
      <4>3. c \in f[n]
        BY <2>2, <4>1, <4>2
      <4> QED BY <2>3, <4>1, <4>3 DEF Wider
    <3> QED BY <3>1, <3>2
  <2>5. roots \subseteq f[n + 1]
    BY <2>2, <2>3 DEF Wider
  <2> QED BY <2>4, <2>5
<1> HIDE DEF T
<1>6. Nat \subseteq T
  BY <1>4, <1>5, NatSetInduction
<1>7. Len(h) \in T /\ Len(h) \in 0..Len(h)
  BY <1>1, <1>6
<1>8. Found(Len(h))
  BY <1>7 DEF T
<1>9. Len(h) - x <= Len(h)
  BY <1>1
<1> QED BY <1>2, <1>8, <1>9

-----------------------------------------------------------------------------
(***************************************************************************)
(* The specification.                                                      *)
(***************************************************************************)
HeapInv == HeapOK(cells, held, releasing)

\* A cell that is made has a count of 1.
LEMMA MadeCell ==
    ASSUME NEW kind \in {"atom", "cons"}, NEW n \in Nat, NEW kids \in Seq(Nat)
    PROVE  /\ Cell(kind, n, kids) \in CellType
           /\ Cell(kind, n, kids).rc = 1 /\ Cell(kind, n, kids).kids = kids
BY DEF Cell, CellType

\* The two interned atoms are held by their classes.
LEMMA HeapInitOK == HeapInit => HeapInv
<1> SUFFICES ASSUME HeapInit PROVE HeapOK(cells, held, releasing)
  BY DEF HeapInv
<1>1. cells = <<Atom(0), Atom(1)>> /\ held = <<>> /\ releasing = <<>>
  BY DEF HeapInit, Interned
<1>2. \A n \in Nat : Atom(n) \in CellType /\ Atom(n).rc = 1 /\ Atom(n).kids = <<>>
  <2>1. "atom" \in {"atom", "cons"} /\ <<>> \in Seq(Nat)
    OBVIOUS
  <2> QED BY <2>1, MadeCell DEF Atom
<1>3. /\ cells \in Heap /\ Len(cells) = 2
      /\ \A x \in 1..Len(cells) : cells[x].rc = 1 /\ cells[x].kids = <<>>
  <2>1. Atom(0) \in CellType /\ Atom(1) \in CellType
    BY <1>2
  <2> QED BY <1>1, <1>2, <2>1 DEF Heap
<1>4. ASSUME NEW x \in 1..Len(cells) PROVE cells[x].rc = Balance(cells, held, releasing, x)
  <2>1. FromCells(cells, x) = 0
    <3>1. \A c \in 1..Len(cells) : Len(cells[c].kids) = 0
      BY <1>3
    <3>2. ASSUME FromCells(cells, x) > 0 PROVE FALSE
      <4>1. PICK c \in 1..Len(cells) : \E k \in 1..Len(cells[c].kids) : cells[c].kids[k] = x
        BY <1>3, <3>2, FromCellsOccurs
      <4> QED BY <3>1, <4>1
    <3>3. FromCells(cells, x) \in Nat
      BY <1>3, RefsFinite
    <3> QED BY <3>2, <3>3
  <2>2. FromClass(x) = 1
    BY <1>3 DEF FromClass, Nil, One
  <2>3. Times(held, x) = 0 /\ Times(releasing, x) = 0
    BY <1>1, TimesEmpty
  <2> QED BY <1>3, <2>1, <2>2, <2>3 DEF Balance
<1>5. <<>> \in Seq(Nat) /\ Len(<<>>) = 0
  OBVIOUS
<1>6. Ordered(cells)
  BY <1>3 DEF Ordered
<1>7. \A x \in 1..Len(cells) : cells[x].rc = 0 => cells[x].kids = <<>>
  BY <1>3
<1> QED BY <1>1, <1>3, <1>4, <1>5, <1>6, <1>7 DEF HeapOK, Within

\* What the invariant says of the three variables.
LEMMA HeapInvTypes ==
    ASSUME HeapInv
    PROVE  /\ cells \in Heap /\ held \in Seq(Nat) /\ releasing \in Seq(Nat)
           /\ Len(cells) \in Nat /\ Len(cells) >= 2
           /\ DOMAIN cells = 1..Len(cells) /\ DOMAIN held = 1..Len(held)
           /\ DOMAIN releasing = 1..Len(releasing)
           /\ \A el \in Owned : el \in 1..Len(cells) /\ Times(held, el) > 0
           /\ \A el \in 1..Len(cells) : \A k \in DOMAIN cells[el].kids : cells[el].kids[k] \in 1..el-1
<1>1. cells \in Heap /\ held \in Seq(Nat) /\ releasing \in Seq(Nat)
  BY DEF HeapInv, HeapOK
<1>2. Len(cells) \in Nat /\ Len(cells) >= 2 /\ DOMAIN cells = 1..Len(cells)
  BY <1>1, HeapCells DEF HeapInv, HeapOK
<1>3. DOMAIN held = 1..Len(held) /\ DOMAIN releasing = 1..Len(releasing)
  BY <1>1, LenProperties
<1>4. \A el \in Owned : el \in 1..Len(cells) /\ Times(held, el) > 0
  BY <1>1, <1>3, TimesOccurs DEF Owned, HeapInv, HeapOK, Within
<1>5. \A el \in 1..Len(cells) : \A k \in DOMAIN cells[el].kids : cells[el].kids[k] \in 1..el-1
  BY <1>1, HeapCells DEF HeapInv, HeapOK, Ordered
<1> QED BY <1>1, <1>2, <1>3, <1>4, <1>5

\* What every step does to what is referred to: only deref_stack takes a cell
\* apart, and nothing refers to that one.
Undisturbed(h, H, g) ==
    \A d \in 1..Len(h) :
        \/ g[d].kids = h[d].kids
        \/ FromCells(h, d) = 0 /\ Times(H, d) = 0

\* Every step preserves the invariant and takes apart at most what nothing refers to.
LEMMA HeapStep ==
    ASSUME HeapInv, [HeapNext]_heapVars
    PROVE  HeapInv' /\ Len(cells') >= Len(cells) /\ Undisturbed(cells, held, cells')
<1> DEFINE Goal == HeapOK(cells', held', releasing') /\ Len(cells') >= Len(cells) /\ Undisturbed(cells, held, cells')
<1> SUFFICES Goal
  BY DEF HeapInv
<1>0. HeapOK(cells, held, releasing)
  BY DEF HeapInv
<1>1. /\ cells \in Heap /\ held \in Seq(Nat) /\ releasing \in Seq(Nat)
      /\ Len(cells) \in Nat /\ Len(cells) >= 2
      /\ DOMAIN cells = 1..Len(cells) /\ DOMAIN held = 1..Len(held)
      /\ \A el \in Owned : el \in 1..Len(cells) /\ Times(held, el) > 0
      /\ \A el \in 1..Len(cells) : \A k \in DOMAIN cells[el].kids : cells[el].kids[k] \in 1..el-1
  BY HeapInvTypes
<1>2. \A g : SameShape(cells, g) => Len(g) >= Len(cells) /\ Undisturbed(cells, held, g)
  BY <1>1 DEF SameShape, Undisturbed
<1>3. ASSUME NEW el \in 1..Len(cells), Idle, cells' = bumpref(cells, <<el>>), held' = Append(held, el),
             releasing' = releasing
      PROVE  Goal
  <2>1. HeapOK(cells', held', releasing')
    BY <1>0, <1>3, SharedOK DEF Idle
  <2>2. SameShape(cells, cells')
    <3>1. <<el>> \in Seq(Nat) /\ \A k \in 1..Len(<<el>>) : <<el>>[k] \in 1..Len(cells)
      BY <1>1
    <3> QED BY <1>1, <1>3, <3>1, Bumped
  <2> QED BY <1>2, <2>1, <2>2
<1>4. ASSUME NEW cell \in CellType, cell.rc = 1, NEW J \in Seq(Nat), Idle,
             \A x : Times(held, x) = Times(J, x) + Times(cell.kids, x),
             cells' = alloc(cells, cell), held' = Append(J, Len(cells) + 1), releasing' = releasing
      PROVE  Goal
  <2>1. HeapOK(cells', held', releasing')
    BY <1>0, <1>4, MadeOK DEF Idle
  <2>2. cells' = Append(cells, cell)
    BY <1>4 DEF alloc
  <2>3. Len(cells') = Len(cells) + 1 /\ \A d \in 1..Len(cells) : cells'[d] = cells[d]
    BY <1>1, <2>2, FromCellsAppend
  <2> QED BY <1>1, <2>1, <2>3 DEF Undisturbed
<1>5. CASE Idle /\ MakeAtom
  <2>1. ASSUME NEW el \in {Nil, One}, cells' = bumpref(cells, <<el>>), held' = Append(held, el)
        PROVE  Goal
    <3>1. el \in 1..Len(cells)
      BY <1>1 DEF Nil, One
    <3> QED BY <1>3, <1>5, <2>1, <3>1 DEF MakeAtom
  <2>2. ASSUME cells' = alloc(cells, Atom(2)), held' = Append(held, Len(cells) + 1)
        PROVE  Goal
    <3>1. Atom(2) \in CellType /\ Atom(2).rc = 1 /\ Atom(2).kids = <<>>
      <4>1. "atom" \in {"atom", "cons"} /\ <<>> \in Seq(Nat) /\ 2 \in Nat
        OBVIOUS
      <4> QED BY <4>1, MadeCell DEF Atom
    <3>2. \A x : Times(held, x) = Times(held, x) + Times(Atom(2).kids, x)
      BY <1>1, <3>1, TimesEmpty, TimesPositions
    <3> QED BY <1>1, <1>4, <1>5, <2>2, <3>1, <3>2 DEF MakeAtom
  <2> QED BY <1>5, <2>1, <2>2 DEF MakeAtom
<1>6. CASE Idle /\ MakeCons
  <2>1. PICK i, j \in DOMAIN held :
            /\ i # j
            /\ cells' = alloc(cells, Cons(held[i], held[j]))
            /\ held' = Append(Without(Without(held, held[i]), held[j]), Len(cells) + 1)
    BY <1>6 DEF MakeCons
  <2> DEFINE a == held[i]
             b == held[j]
             W == Without(held, a)
             J == Without(W, b)
             cell == Cons(a, b)
  <2>2. a \in Nat /\ b \in Nat /\ Times(held, a) > 0 /\ Times(held, b) > 0
    BY <1>1, ElementOfSeq, TimesOccurs
  <2>3. W \in Seq(Nat) /\ \A x : Times(held, x) = Times(W, x) + Same(a, x)
    BY <1>1, <2>2, TimesWithout
  <2>4. Times(W, b) > 0
    <3>1. Times(W, b) \in Nat /\ Times(held, b) = Times(W, b) + Same(a, b)
      BY <2>3, TimesPositions
    <3>2. CASE a # b
      BY <2>2, <3>1, <3>2 DEF Same
    <3>3. CASE a = b
      <4>1. i \in Positions(held, b) /\ j \in Positions(held, b)
        BY <1>1, <3>3 DEF Positions
      <4>2. Times(held, b) # 1
        <5>1. IsFiniteSet(Positions(held, b)) /\ Times(held, b) = Cardinality(Positions(held, b))
          BY <1>1, TimesPositions
        <5>2. ASSUME Cardinality(Positions(held, b)) = 1 PROVE FALSE
          <6>1. \E p : Positions(held, b) = {p}
            BY <5>1, <5>2, FS_Singleton
          <6> QED BY <2>1, <4>1, <6>1
        <5> QED BY <5>1, <5>2
      <4> QED BY <2>2, <3>1, <3>3, <4>2 DEF Same
    <3> QED BY <3>2, <3>3
  <2>5. J \in Seq(Nat) /\ \A x : Times(W, x) = Times(J, x) + Same(b, x)
    BY <2>2, <2>3, <2>4, TimesWithout
  <2>6. cell \in CellType /\ cell.rc = 1 /\ cell.kids = <<a, b>>
    <3>1. "cons" \in {"atom", "cons"} /\ <<a, b>> \in Seq(Nat) /\ 0 \in Nat
      BY <2>2
    <3> QED BY <3>1, MadeCell DEF Cons
  <2>7. \A x : Times(cell.kids, x) = Same(a, x) + Same(b, x)
    <3> TAKE x
    <3>1. <<a, b>> = <<a>> \o <<b>> /\ <<a>> \in Seq(Nat) /\ <<b>> \in Seq(Nat)
      BY <2>2
    <3>2. Times(<<a>> \o <<b>>, x) = Times(<<a>>, x) + Times(<<b>>, x)
      BY <3>1, TimesConcat
    <3>3. Times(<<a>>, x) = Same(a, x) /\ Times(<<b>>, x) = Same(b, x)
      BY <2>2, TimesSingle
    <3> QED BY <2>6, <3>1, <3>2, <3>3
  <2>8. cells' = alloc(cells, cell) /\ held' = Append(J, Len(cells) + 1) /\ releasing' = releasing /\ Idle
    BY <1>6, <2>1 DEF MakeCons
  <2> HIDE DEF a, b, W, J, cell
  <2>9. \A x : Times(held, x) = Times(J, x) + Times(cell.kids, x)
    <3> TAKE x
    <3>1. Times(J, x) \in Nat /\ Same(a, x) \in Nat /\ Same(b, x) \in Nat
      BY <2>5, TimesPositions DEF Same
    <3>2. Times(held, x) = Times(W, x) + Same(a, x) /\ Times(W, x) = Times(J, x) + Same(b, x)
      BY <2>3, <2>5
    <3>3. Times(cell.kids, x) = Same(a, x) + Same(b, x)
      BY <2>7
    <3> QED BY <3>1, <3>2, <3>3
  <2> QED BY <1>4, <2>5, <2>6, <2>8, <2>9
<1>7. CASE Idle /\ Share
  <2>1. PICK el \in Owned \cup UNION {{cells[o].kids[k] : k \in DOMAIN cells[o].kids} : o \in Owned} :
            cells' = bumpref(cells, <<el>>) /\ held' = Append(held, el)
    BY <1>7 DEF Share
  <2>2. el \in 1..Len(cells)
    <3>1. CASE el \in Owned
      BY <1>1, <3>1
    <3>2. ASSUME NEW o \in Owned, NEW k \in DOMAIN cells[o].kids, el = cells[o].kids[k]
          PROVE  el \in 1..Len(cells)
      <4>1. o \in 1..Len(cells)
        BY <1>1
      <4>2. el \in 1..o-1
        BY <1>1, <3>2, <4>1
      <4> QED BY <1>1, <4>1, <4>2
    <3> QED BY <2>1, <3>1, <3>2
  <2> QED BY <1>3, <1>7, <2>1, <2>2 DEF Share
<1>8. CASE Idle /\ Deref
  <2>1. PICK el \in Owned : Releasing(cells, <<el>>) /\ held' = Without(held, el)
    BY <1>8 DEF Deref
  <2>2. el \in 1..Len(cells) /\ Times(held, el) > 0
    BY <1>1
  <2>3. LET s == deref_add_to_stack(cells, <<>>, <<el>>)
        IN  HeapOK(s.heap, Without(held, el), s.stk) /\ SameShape(cells, s.heap)
    BY <1>0, <1>8, <2>2, DerefOK DEF Idle
  <2> QED BY <1>2, <2>1, <2>3 DEF Releasing
<1>9. CASE Idle /\ StealChildren
  <2>1. PICK el \in Owned : /\ Releasing(Stolen(cells, el), <<el>>)
                            /\ held' = Without(held, el) \o cells[el].kids
    BY <1>9 DEF StealChildren
  <2>2. el \in 1..Len(cells) /\ Times(held, el) > 0
    BY <1>1
  <2>3. LET s == deref_add_to_stack(Stolen(cells, el), <<>>, <<el>>)
        IN  HeapOK(s.heap, Without(held, el) \o cells[el].kids, s.stk) /\ SameShape(cells, s.heap)
    BY <1>0, <1>9, <2>2, StolenOK DEF Idle
  <2> QED BY <1>2, <2>1, <2>3 DEF Releasing
<1>10. CASE DerefStack
  <2> DEFINE s == FreeTop([heap |-> cells, stk |-> releasing])
             el == releasing[Len(releasing)]
  <2>1. cells' = s.heap /\ releasing' = s.stk /\ held' = held /\ releasing # <<>>
    BY <1>10 DEF DerefStack, Idle
  <2>2. /\ HeapOK(s.heap, held, s.stk)
        /\ FromCells(cells, el) = 0 /\ Times(held, el) = 0
        /\ Len(s.heap) = Len(cells)
        /\ \A d \in 1..Len(cells) : d # el => s.heap[d].kids = cells[d].kids
    BY <1>0, <2>1, FreedOK
  <2> HIDE DEF s, el
  <2> QED BY <1>1, <2>1, <2>2 DEF Undisturbed
<1>11. CASE UNCHANGED heapVars
  BY <1>0, <1>1, <1>11 DEF heapVars, Undisturbed
<1> QED BY <1>5, <1>6, <1>7, <1>8, <1>9, <1>10, <1>11 DEF HeapNext

\* In every state of the client and of its releases the invariant holds.
THEOREM HeapInvariant == HeapSpec => []HeapInv
<1>1. HeapInit => HeapInv
  BY HeapInitOK
<1>2. HeapInv /\ [HeapNext]_heapVars => HeapInv'
  BY HeapStep
<1> QED BY <1>1, <1>2, PTL DEF HeapSpec

\* Counts are natural numbers: no assertion of the code ever stops a release;
\* elements refer only to elements made before them.
THEOREM HeapTyped == HeapSpec => []HeapTypeOK
<1>1. HeapInv => HeapTypeOK
  <2> SUFFICES ASSUME HeapInv PROVE HeapTypeOK
    OBVIOUS
  <2>1. ASSUME NEW el \in 1..Len(cells) PROVE cells[el].rc \in Nat
    <3>1. cells[el].rc = Balance(cells, held, releasing, el)
      BY DEF HeapInv, HeapOK
    <3> QED BY <3>1, HeapInvTypes, BalanceNat
  <2> QED BY <2>1, HeapInvTypes DEF HeapTypeOK, HeapInv, HeapOK, Within
<1> QED BY <1>1, HeapInvariant, PTL

\* Every count is exactly the number of references there are, in every state
\* of every release, however many cells and references there are.
THEOREM CountsAreExact == HeapSpec => []Counted
<1>1. HeapInv => Counted
  BY HeapInvTypes DEF HeapInv, HeapOK, Balance, Counted
<1> QED BY <1>1, HeapInvariant, PTL

\* What is allocated between two operations is exactly what is interned or can
\* be reached: releasing is never too early and never forgotten.
THEOREM OnlyReachableLive == HeapSpec => []LiveIsReachable
<1>1. HeapInv => LiveIsReachable
  <2> SUFFICES ASSUME HeapInv, Idle
               PROVE  {el \in DOMAIN cells : cells[el].rc > 0} = Reached(cells, Owned) \cup {Nil, One}
    BY DEF LiveIsReachable
  <2> DEFINE Live == {el \in DOMAIN cells : cells[el].rc > 0}
             R == Reached(cells, Owned)
  <2>1. HeapOK(cells, held, releasing) /\ releasing = <<>>
    BY DEF HeapInv, Idle
  <2>2. /\ cells \in Heap /\ held \in Seq(Nat) /\ releasing \in Seq(Nat)
        /\ Len(cells) \in Nat /\ Len(cells) >= 2 /\ DOMAIN cells = 1..Len(cells)
        /\ \A el \in Owned : el \in 1..Len(cells) /\ Times(held, el) > 0
    BY HeapInvTypes
  <2>3. ASSUME NEW x \in 1..Len(cells),
               FromCells(cells, x) > 0 \/ FromClass(x) > 0 \/ Times(held, x) > 0
        PROVE  x \in Live
    <3>1. cells[x].rc = Balance(cells, held, releasing, x)
      BY <2>1 DEF HeapOK
    <3>2. /\ FromCells(cells, x) \in Nat /\ FromClass(x) \in Nat
          /\ Times(held, x) \in Nat /\ Times(releasing, x) \in Nat
      BY <2>2, BalanceNat
    <3>3. cells[x].rc > 0
      BY <2>3, <3>1, <3>2 DEF Balance
    <3> QED BY <2>2, <3>3
  <2>4. Nil \in Live /\ One \in Live
    BY <2>2, <2>3 DEF FromClass, Nil, One
  <2>5. R \subseteq Live
    <3>1. Live \subseteq 1..Len(cells)
      BY <2>2
    <3>2. Owned \subseteq Live
      BY <2>2, <2>3
    <3>3. ASSUME NEW el \in Live, NEW k \in 1..Len(cells[el].kids) PROVE cells[el].kids[k] \in Live
      <4>1. el \in 1..Len(cells) /\ cells[el].kids[k] \in 1..el-1
        BY <2>1, <2>2 DEF HeapOK, Ordered
      <4>2. cells[el].kids[k] \in 1..Len(cells)
        BY <2>2, <4>1
      <4>3. FromCells(cells, cells[el].kids[k]) > 0
        BY <2>2, <4>1, FromCellsOccurs
      <4> QED BY <2>3, <4>2, <4>3
    <3> HIDE DEF Live
    <3> QED BY <2>2, <3>1, <3>2, <3>3, ReachedWithin
  <2>6. Live \subseteq R \cup {Nil, One}
    <3>1. ASSUME NEW x \in Live, x \notin {Nil, One} PROVE x \in R
      BY <2>1, <2>2, <3>1, LiveReached DEF Owned
    <3> QED BY <3>1
  <2> QED BY <2>4, <2>5, <2>6
<1> QED BY <1>1, HeapInvariant, PTL

\* No step of a release, of a client or of the building of a pair changes what
\* an element that is reached, before and after it, refers to.
THEOREM ReachableStays == HeapSpec => ReachableKept
<1>1. HeapInv /\ [HeapNext]_heapVars => [KeepsReachable]_heapVars
  <2> SUFFICES ASSUME HeapInv, [HeapNext]_heapVars PROVE KeepsReachable
    OBVIOUS
  <2>1. Undisturbed(cells, held, cells')
    BY HeapStep
  <2>2. /\ cells \in Heap /\ held \in Seq(Nat) /\ Len(cells) \in Nat
        /\ DOMAIN cells = 1..Len(cells)
        /\ \A el \in Owned : el \in 1..Len(cells) /\ Times(held, el) > 0
        /\ \A el \in 1..Len(cells) : \A k \in DOMAIN cells[el].kids : cells[el].kids[k] \in 1..el-1
    BY HeapInvTypes
  <2> DEFINE Kept == {d \in 1..Len(cells) : FromCells(cells, d) > 0 \/ Times(held, d) > 0}
  <2>3. Reached(cells, Owned) \subseteq Kept
    <3>1. ASSUME NEW el \in Kept, NEW k \in 1..Len(cells[el].kids) PROVE cells[el].kids[k] \in Kept
      <4>1. cells[el].kids[k] \in 1..el-1
        BY <2>2, HeapCells
      <4>2. cells[el].kids[k] \in 1..Len(cells)
        BY <2>2, <4>1
      <4>3. FromCells(cells, cells[el].kids[k]) > 0
        BY <2>2, FromCellsOccurs
      <4> QED BY <4>2, <4>3
    <3>2. Kept \subseteq 1..Len(cells) /\ Owned \subseteq Kept
      BY <2>2
    <3> HIDE DEF Kept
    <3> QED BY <2>2, <3>1, <3>2, ReachedWithin
  <2>4. ASSUME NEW el \in Kept PROVE cells'[el].kids = cells[el].kids
    BY <2>1 DEF Undisturbed
  <2> QED BY <2>3, <2>4 DEF KeepsReachable
<1> QED BY <1>1, HeapInvariant, PTL DEF HeapSpec, ReachableKept
=============================================================================
