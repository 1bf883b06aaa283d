--------------------------- MODULE OperatorProofs ---------------------------
(***************************************************************************)
(* Proofs about the operators of BllOpcodes: what an element is, which     *)
(* shapes the state of each operator takes, and that every call charges a  *)
(* natural number, builds no more than it charges for and leaves an error, *)
(* or a state of the same operator.                                        *)
(*                                                                         *)
(* An element is a member of a set that is closed under taking elements    *)
(* apart, so nothing here needs induction over the depth of a tree.  The   *)
(* loops are recursive functions: first that they have all their turns,    *)
(* then what every turn keeps, by induction over a set of numbers.         *)
(***************************************************************************)
EXTENDS BllOpcodes, SequenceTheorems, FiniteSetTheorems, WellFoundedInduction, TLAPS

\* A set that holds 0 and what follows each of its members up to n holds them all.
LEMMA Climb ==
    ASSUME NEW n \in Nat, NEW T, 0 \in T,
           \A k \in 0..n : k # n /\ k \in T => k + 1 \in T
    PROVE  \A k \in 0..n : k \in T
<1> DEFINE F == (0..n) \ T
           R == OpToRel(<, Nat)
<1> SUFFICES ASSUME F # {} PROVE FALSE
  OBVIOUS
<1>1. PICK x \in F : \A y \in F : <<y, x>> \notin R
  <2> HIDE DEF R
  <2>1. IsWellFoundedOn(R, Nat)
    BY NatLessThanWellFounded DEF R
  <2>2. F \subseteq Nat
    OBVIOUS
  <2> QED
    BY <2>1, <2>2, WFMin
<1>2. x \in Nat /\ x # 0 /\ x - 1 \in 0..n /\ x - 1 # n
  OBVIOUS
<1>3. x - 1 \in F
  BY <1>2
<1>4. <<x - 1, x>> \in R
  BY <1>2 DEF OpToRel
<1> QED
  BY <1>1, <1>3, <1>4

\* The powers the conversions use.
LEMMA Powers ==
    /\ 256^0 = 1 /\ 256^1 = 256 /\ 256^2 = 65536 /\ 256^3 = 16777216 /\ 256^4 = 4294967296
    /\ 2^0 = 1 /\ 2^1 = 2 /\ 2^2 = 4 /\ 2^3 = 8 /\ 2^4 = 16 /\ 2^5 = 32 /\ 2^6 = 64
    /\ 2^7 = 128
<1>1. 256^0 = 1 /\ 256^1 = 256 /\ 256^2 = 65536 /\ 256^3 = 16777216 /\ 256^4 = 4294967296
  OBVIOUS
<1>2. 2^0 = 1 /\ 2^1 = 2 /\ 2^2 = 4 /\ 2^3 = 8 /\ 2^4 = 16 /\ 2^5 = 32 /\ 2^6 = 64 /\ 2^7 = 128
  OBVIOUS
<1> QED
  BY <1>1, <1>2

\* A byte of a number is a byte.
LEMMA BytesOfNumbers ==
    ASSUME NEW n \in Int, NEW k \in Nat \ {0}
    PROVE  ByteOf(n, k) \in 0..255
<1>1. CASE k > 4
  BY <1>1 DEF ByteOf, MaxIntBytes
<1>2. CASE k = 1
  <2>1. ByteOf(n, k) = (n \div 1) % 256
    BY <1>2, Powers DEF ByteOf, MaxIntBytes
  <2> QED
    BY <2>1
<1>3. CASE k = 2
  <2>1. ByteOf(n, k) = (n \div 256) % 256
    BY <1>3, Powers DEF ByteOf, MaxIntBytes
  <2> QED
    BY <2>1
<1>4. CASE k = 3
  <2>1. ByteOf(n, k) = (n \div 65536) % 256
    BY <1>4, Powers DEF ByteOf, MaxIntBytes
  <2> QED
    BY <2>1
<1>5. CASE k = 4
  <2>1. ByteOf(n, k) = (n \div 16777216) % 256
    BY <1>5, Powers DEF ByteOf, MaxIntBytes
  <2> QED
    BY <2>1
<1> QED
  BY <1>1, <1>2, <1>3, <1>4, <1>5

-----------------------------------------------------------------------------
(***************************************************************************)
(* Atoms.                                                                  *)
(***************************************************************************)
\* An atom and its bytes; they are numbers.
IsWhole(a) == a.bytes \in Seq(Nat) /\ a = FromBytes(a.bytes)

\* An atom made of bytes.
LEMMA WholeBytes ==
    ASSUME NEW b \in Seq(Nat)
    PROVE  /\ IsWhole(FromBytes(b)) /\ IsAtom(FromBytes(b))
           /\ FromBytes(b).bytes = b /\ FromBytes(b).width = Len(b)
BY DEF IsWhole, FromBytes, IsAtom

\* What an atom is.
LEMMA WholeAtom ==
    ASSUME NEW a, IsWhole(a)
    PROVE  /\ IsAtom(a) /\ ~IsCons(a) /\ ~IsFunc(a) /\ ~IsError(a)
           /\ a.bytes \in Seq(Nat) /\ a.width = Len(a.bytes) /\ a.width \in Nat
           /\ \A k \in 1..a.width : a.bytes[k] \in Nat
<1>1. a = [kind |-> "atom", bytes |-> a.bytes, width |-> Len(a.bytes)] /\ a.bytes \in Seq(Nat)
  BY DEF IsWhole, FromBytes
<1>2. a.kind = "atom" /\ a.width = Len(a.bytes)
  BY <1>1
<1>3. Len(a.bytes) \in Nat /\ \A k \in 1..Len(a.bytes) : a.bytes[k] \in Nat
  BY <1>1
<1> QED
  BY <1>1, <1>2, <1>3 DEF IsAtom, IsCons, IsFunc, IsError

\* The atom that holds a number in so many bytes.
LEMMA NumberAtom ==
    ASSUME NEW n \in Int, NEW w \in Nat
    PROVE  /\ IsWhole(Atom(n, w)) /\ Atom(n, w).width = w
           /\ \A k \in 1..w : Atom(n, w).bytes[k] = ByteOf(n, k)
<1> DEFINE b == [k \in 1..w |-> ByteOf(n, k)]
<1>1. \A k \in 1..w : ByteOf(n, k) \in Nat
  <2>1. \A k \in 1..w : k \in Nat \ {0}
    OBVIOUS
  <2>2. \A k \in Nat \ {0} : ByteOf(n, k) \in 0..255
    BY BytesOfNumbers
  <2> QED
    BY <2>1, <2>2
<1>2. b \in Seq(Nat) /\ Len(b) = w
  <2>1. b \in [1..w -> Nat]
    BY <1>1
  <2> QED
    BY <2>1
<1>3. Atom(n, w) = FromBytes(b)
  BY DEF Atom
<1> HIDE DEF b
<1>4. Atom(n, w).bytes = b
  BY <1>2, <1>3, WholeBytes
<1> QED
  BY <1>2, <1>3, <1>4, WholeBytes DEF b

\* The two interned atoms.
LEMMA Interned ==
    /\ IsWhole(Nil) /\ Nil.width = 0 /\ IsAtom(Nil) /\ IsNil(Nil)
    /\ IsWhole(One) /\ One.width = 1 /\ IsAtom(One) /\ ~IsNil(One)
<1>1. /\ IsWhole(Nil) /\ Nil.width = 0 /\ IsWhole(One) /\ One.width = 1
  BY NumberAtom DEF Nil, One
<1> QED
  BY <1>1, WholeAtom DEF IsNil

\* How many numbers there are from 0 on.
LEMMA SpanSize ==
    ASSUME NEW i \in Int
    PROVE  IsFiniteSet(0..i) /\ Cardinality(0..i) = IF 0 > i THEN 0 ELSE i - 0 + 1
<1>1. \A a, b \in Int : IsFiniteSet(a..b) /\ Cardinality(a..b) = IF a > b THEN 0 ELSE b - a + 1
  BY FS_Interval
<1>2. 0 \in Int
  OBVIOUS
<1> QED
  BY <1>1, <1>2, Zenon

\* The minimal encoding of an integer has at most five bytes.
LEMMA EncodedWidth ==
    ASSUME NEW n
    PROVE  IntWidth(n) \in 0..5 /\ (n # 0 => IntWidth(n) # 0)
<1> DEFINE S == {k \in 0..MaxIntBytes-1 : Abs(n) \div 128 >= 256^k}
<1>1. S \subseteq 0..3 /\ IsFiniteSet(0..3) /\ Cardinality(0..3) = 4
  <2>1. 3 \in Int
    OBVIOUS
  <2>2. IsFiniteSet(0..3) /\ Cardinality(0..3) = IF 0 > 3 THEN 0 ELSE 3 - 0 + 1
    BY <2>1, SpanSize, Zenon
  <2>3. S \subseteq 0..3
    BY DEF MaxIntBytes
  <2> QED
    BY <2>2, <2>3
<1>2. Cardinality(S) \in 0..4
  <2>1. IsFiniteSet(S) /\ Cardinality(S) <= Cardinality(0..3)
    BY <1>1, FS_Subset
  <2>2. Cardinality(S) \in Nat
    BY <2>1, FS_CardinalityType
  <2> QED
    BY <1>1, <2>1, <2>2
<1>3. IntWidth(n) = IF n = 0 THEN 0 ELSE 1 + Cardinality(S)
  BY DEF IntWidth
<1> HIDE DEF S
<1> QED
  BY <1>2, <1>3

\* The atom of an integer.
LEMMA IntegerAtom ==
    ASSUME NEW n \in Int
    PROVE  IsWhole(IntAtom(n)) /\ IntAtom(n).width \in 0..5
<1> DEFINE w == IntWidth(n)
           m == IF n < 0 THEN Abs(n) + 128 * 256^(w - 1) ELSE n
<1>1. w \in 0..5 /\ (n # 0 => w # 0)
  BY EncodedWidth
<1>2. m \in Int
  <2>1. CASE n < 0
    <3>1. w - 1 \in {0, 1, 2, 3, 4}
      BY <1>1, <2>1
    <3> HIDE DEF w
    <3>2. 256^(w - 1) \in Int
      BY <3>1, Powers
    <3> QED
      BY <2>1, <3>2 DEF Abs
  <2> QED
    BY <2>1
<1>3. IntAtom(n) = Atom(m, w)
  BY DEF IntAtom
<1> HIDE DEF w, m
<1> QED
  BY <1>1, <1>2, <1>3, NumberAtom

\* The sum of Magnitude, from the highest byte down.
MagnitudeTurn(b, k, g, i) == IF i = 0 THEN 0 ELSE b[k - i + 1] + 256 * g[i-1]
MagnitudeTurns(b, k, n, g) == g = [i \in 0..n |-> MagnitudeTurn(b, k, g, i)]

\* The loop of Magnitude has its turns.
LEMMA MagnitudeTurnsExist ==
    ASSUME NEW b, NEW k, NEW n \in Nat
    PROVE  \E g : MagnitudeTurns(b, k, n, g)
<1> DEFINE T == {m \in 0..n : \E g : MagnitudeTurns(b, k, m, g)}
<1>1. 0 \in T
  <2>1. MagnitudeTurns(b, k, 0, [i \in 0..0 |-> 0])
    BY DEF MagnitudeTurns, MagnitudeTurn
  <2> QED
    BY <2>1
<1>2. ASSUME NEW m \in 0..n, m # n, m \in T
      PROVE  m + 1 \in T
  <2>1. PICK g : MagnitudeTurns(b, k, m, g)
    BY <1>2
  <2> DEFINE f == [i \in 0..m+1 |-> IF i = m + 1 THEN MagnitudeTurn(b, k, g, i) ELSE g[i]]
  <2>2. \A i \in 0..m+1 : f[i] = MagnitudeTurn(b, k, g, i)
    BY <2>1 DEF MagnitudeTurns
  <2>3. \A i \in 0..m : f[i] = g[i]
    OBVIOUS
  <2>4. \A i \in 0..m+1 : i # 0 => i - 1 \in 0..m
    OBVIOUS
  <2> HIDE DEF f
  <2>5. \A i \in 0..m+1 : MagnitudeTurn(b, k, f, i) = MagnitudeTurn(b, k, g, i)
    BY <2>3, <2>4 DEF MagnitudeTurn
  <2>6. f = [i \in 0..m+1 |-> f[i]]
    BY DEF f
  <2>7. MagnitudeTurns(b, k, m + 1, f)
    BY <2>2, <2>5, <2>6 DEF MagnitudeTurns
  <2> QED
    BY <1>2, <2>7
<1> HIDE DEF T
<1>3. n \in T
  BY <1>1, <1>2, Climb
<1> QED
  BY <1>3 DEF T

\* What Magnitude sums: a natural number, whose lowest byte is the first.
LEMMA MagnitudeSum ==
    ASSUME NEW b, NEW k \in Nat, \A i \in 1..k : b[i] \in Nat
    PROVE  /\ Magnitude(b, k) \in Nat
           /\ k # 0 => \E m \in Nat : Magnitude(b, k) = b[1] + 256 * m
           /\ k = 1 => Magnitude(b, k) = b[1]
           /\ k = 0 => Magnitude(b, k) = 0
<1> DEFINE g == CHOOSE f : MagnitudeTurns(b, k, k, f)
           T == {i \in 0..k : g[i] \in Nat}
<1>1. MagnitudeTurns(b, k, k, g)
  BY MagnitudeTurnsExist
<1>2. Magnitude(b, k) = g[k]
  BY DEF Magnitude, MagnitudeTurns, MagnitudeTurn
<1> HIDE DEF g
<1>3. g[0] = 0 /\ \A i \in 1..k : g[i] = b[k - i + 1] + 256 * g[i-1]
  BY <1>1 DEF MagnitudeTurns, MagnitudeTurn
<1>4. \A i \in 0..k : i \in T
  <2>1. 0 \in T
    BY <1>3
  <2>2. ASSUME NEW i \in 0..k, i # k, i \in T
        PROVE  i + 1 \in T
    <3>1. i + 1 \in 1..k /\ k - (i + 1) + 1 \in 1..k /\ (i + 1) - 1 = i
      BY <2>2
    <3>2. g[i + 1] = b[k - (i + 1) + 1] + 256 * g[i]
      BY <1>3, <3>1
    <3> QED
      BY <2>2, <3>1, <3>2
  <2> HIDE DEF T
  <2> QED
    BY <2>1, <2>2, Climb
<1>5. g[k] \in Nat
  BY <1>4
<1>6. k # 0 => g[k - 1] \in Nat /\ g[k] = b[1] + 256 * g[k - 1]
  BY <1>3, <1>4
<1>7. k = 1 => g[k] = b[1]
  BY <1>3, <1>6
<1> QED
  BY <1>2, <1>3, <1>5, <1>6, <1>7

\* The integer an atom holds; reading back what IntAtom wrote is shown where the
\* model counts with it.
LEMMA IntegerOf ==
    ASSUME NEW a, IsWhole(a)
    PROVE  /\ AsInt(a) \in Int
           /\ a.width = 0 => AsInt(a) = 0
           /\ a.width # 0 /\ a.bytes[a.width] < 128 => AsInt(a) = Magnitude(a.bytes, a.width)
<1> DEFINE w == a.width
           top == a.bytes[w]
           low == [a.bytes EXCEPT ![w] = top - 128]
<1>1. a.bytes \in Seq(Nat) /\ w = Len(a.bytes) /\ w \in Nat /\ \A k \in 1..w : a.bytes[k] \in Nat
  BY WholeAtom
<1>2. AsInt(a) = IF w = 0 THEN 0 ELSE IF top < 128 THEN Magnitude(a.bytes, w)
                 ELSE -Magnitude(low, w)
  BY DEF AsInt
<1>3. Magnitude(a.bytes, w) \in Nat
  BY <1>1, MagnitudeSum
<1>4. w # 0 /\ ~(top < 128) => Magnitude(low, w) \in Nat
  <2> SUFFICES ASSUME w # 0, ~(top < 128) PROVE Magnitude(low, w) \in Nat
    OBVIOUS
  <2>1. top - 128 \in Nat
    BY <1>1
  <2>2. \A i \in 1..w : low[i] = IF i = w THEN top - 128 ELSE a.bytes[i]
    BY <1>1
  <2>3. \A i \in 1..w : low[i] \in Nat
    BY <1>1, <2>1, <2>2
  <2> HIDE DEF low, w
  <2> QED
    BY <1>1, <2>3, MagnitudeSum
<1> HIDE DEF w, top, low
<1> QED
  BY <1>2, <1>3, <1>4 DEF w, top

\* The powers of 256 that are thresholds.
Place(k) == 256^k

\* The first four powers of 256.
LEMMA PlaceValues ==
    ASSUME NEW k \in 0..3
    PROVE  Place(k) = IF k = 0 THEN 1 ELSE IF k = 1 THEN 256
                   ELSE IF k = 2 THEN 65536 ELSE 16777216
<1>1. CASE k = 0
  BY <1>1, Powers DEF Place
<1>2. CASE k = 1
  BY <1>2, Powers DEF Place
<1>3. CASE k = 2
  BY <1>3, Powers DEF Place
<1>4. CASE k = 3
  BY <1>4, Powers DEF Place
<1> QED
  BY <1>1, <1>2, <1>3, <1>4

\* The width of the encoding of a natural number, threshold by threshold, and
\* its highest byte, which leaves the sign bit clear.
LEMMA CountedWidth ==
    ASSUME NEW n \in Nat \ {0}, NEW j \in 0..4,
           j = 0 => n \div 128 < 1,
           j = 1 => n \div 128 >= 1 /\ n \div 128 < 256,
           j = 2 => n \div 128 >= 256 /\ n \div 128 < 65536,
           j = 3 => n \div 128 >= 65536 /\ n \div 128 < 16777216,
           j = 4 => n \div 128 >= 16777216
    PROVE  IntWidth(n) = j + 1 /\ ByteOf(n, j + 1) < 128
<1> DEFINE q == n \div 128
           S == {k \in 0..MaxIntBytes-1 : Abs(n) \div 128 >= 256^k}
<1>1. q \in Nat /\ Abs(n) = n
  BY DEF Abs
<1>2. S = {k \in 0..3 : q >= Place(k)}
  BY <1>1, SMT DEF MaxIntBytes, Place
<1>3. \A k \in 0..3 : q >= Place(k) <=> k < j
  <2> TAKE k \in 0..3
  <2>1. Place(k) = IF k = 0 THEN 1 ELSE IF k = 1 THEN 256 ELSE IF k = 2 THEN 65536 ELSE 16777216
    BY PlaceValues, SMT
  <2> QED
    BY <1>1, <2>1, SMT
<1>4. S = 0..j-1
  <2>1. \A k : k \in 0..3 /\ k < j <=> k \in 0..j-1
    OBVIOUS
  <2>2. S = {k \in 0..3 : k < j}
    BY <1>2, <1>3, SMT
  <2> HIDE DEF S, q
  <2> QED
    BY <2>1, <2>2, SMT
<1>5. Cardinality(S) = j
  <2>1. j - 1 \in Int
    OBVIOUS
  <2>2. Cardinality(0..j-1) = IF 0 > j - 1 THEN 0 ELSE j - 1 - 0 + 1
    BY <2>1, SpanSize, SMT
  <2> HIDE DEF S
  <2> QED
    BY <1>4, <2>2, SMT
<1>6. IntWidth(n) = IF n = 0 THEN 0 ELSE 1 + Cardinality(S)
  BY DEF IntWidth
<1>7. ByteOf(n, j + 1) < 128
  <2>1. CASE j = 0
    <3>1. ByteOf(n, 1) = (n \div 1) % 256
      BY Powers DEF ByteOf, MaxIntBytes
    <3> QED
      BY <2>1, <3>1
  <2>2. CASE j = 1
    <3>1. ByteOf(n, 2) = (n \div 256) % 256
      BY Powers DEF ByteOf, MaxIntBytes
    <3> QED
      BY <2>2, <3>1
  <2>3. CASE j = 2
    <3>1. ByteOf(n, 3) = (n \div 65536) % 256
      BY Powers DEF ByteOf, MaxIntBytes
    <3> QED
      BY <2>3, <3>1
  <2>4. CASE j = 3
    <3>1. ByteOf(n, 4) = (n \div 16777216) % 256
      BY Powers DEF ByteOf, MaxIntBytes
    <3> QED
      BY <2>4, <3>1
  <2>5. CASE j = 4
    BY <2>5 DEF ByteOf, MaxIntBytes
  <2> QED
    BY <2>1, <2>2, <2>3, <2>4, <2>5
<1> HIDE DEF S
<1> QED
  BY <1>5, <1>6, <1>7

\* Every natural number has its place among the thresholds.
LEMMA ClearTop ==
    ASSUME NEW n \in Nat \ {0}
    PROVE  /\ IntWidth(n) \in 1..5 /\ ByteOf(n, IntWidth(n)) < 128
           /\ n < 128 => IntWidth(n) = 1
<1>1. PICK j \in 0..4 : /\ j = 0 => n \div 128 < 1
                        /\ j = 1 => n \div 128 >= 1 /\ n \div 128 < 256
                        /\ j = 2 => n \div 128 >= 256 /\ n \div 128 < 65536
                        /\ j = 3 => n \div 128 >= 65536 /\ n \div 128 < 16777216
                        /\ j = 4 => n \div 128 >= 16777216
  <2> DEFINE q == n \div 128
  <2>1. q \in Nat
    OBVIOUS
  <2> HIDE DEF q
  <2>2. \/ q < 1
        \/ q >= 1 /\ q < 256
        \/ q >= 256 /\ q < 65536
        \/ q >= 65536 /\ q < 16777216
        \/ q >= 16777216
    BY <2>1, SMT
  <2>3. CASE q < 1
    BY <2>3, SMT DEF q
  <2>4. CASE q >= 1 /\ q < 256
    BY <2>4, SMT DEF q
  <2>5. CASE q >= 256 /\ q < 65536
    BY <2>5, SMT DEF q
  <2>6. CASE q >= 65536 /\ q < 16777216
    BY <2>6, SMT DEF q
  <2>7. CASE q >= 16777216
    BY <2>7, SMT DEF q
  <2> QED
    BY <2>2, <2>3, <2>4, <2>5, <2>6, <2>7, SMT
<1>2. IntWidth(n) = j + 1 /\ ByteOf(n, j + 1) < 128
  BY <1>1, CountedWidth
<1>3. n < 128 => j = 0
  BY <1>1
<1> QED
  BY <1>2, <1>3

\* What a count written with IntAtom reads back as: a natural number with the
\* same low bits, and the same number if it is small.
LEMMA ReadBack ==
    ASSUME NEW n \in Nat
    PROVE  /\ AsInt(IntAtom(n)) \in Nat
           /\ AsInt(IntAtom(n)) % 32 = n % 32
           /\ n < 128 => AsInt(IntAtom(n)) = n
<1> DEFINE a == IntAtom(n)
           w == IntWidth(n)
<1>1. CASE n = 0
  <2>1. IntAtom(n) = Nil
    BY <1>1 DEF IntAtom, IntWidth, Nil
  <2> QED
    BY <1>1, <2>1, Interned, IntegerOf
<1>2. CASE n # 0
  <2>1. w \in 1..5 /\ ByteOf(n, w) < 128 /\ a = Atom(n, w)
    BY <1>2, ClearTop DEF IntAtom
  <2>2. IsWhole(a) /\ a.width = w /\ \A k \in 1..w : a.bytes[k] = ByteOf(n, k)
    BY <2>1, NumberAtom
  <2>3. \A k \in 1..w : a.bytes[k] \in Nat
    BY <2>2, WholeAtom
  <2>4. a.bytes[1] = n % 256
    <3>1. ByteOf(n, 1) = (n \div 1) % 256
      BY Powers DEF ByteOf, MaxIntBytes
    <3>2. a.bytes[1] = ByteOf(n, 1)
      BY <2>1, <2>2
    <3> HIDE DEF a
    <3> QED
      BY <3>1, <3>2
  <2>5. n < 128 => w = 1
    BY <1>2, ClearTop
  <2> HIDE DEF a, w
  <2>6. AsInt(a) = Magnitude(a.bytes, w)
    BY <2>1, <2>2, IntegerOf
  <2>7. Magnitude(a.bytes, w) \in Nat /\ \E m \in Nat : Magnitude(a.bytes, w) = a.bytes[1] + 256 * m
    BY <2>1, <2>3, MagnitudeSum
  <2>8. w = 1 => Magnitude(a.bytes, w) = a.bytes[1]
    BY <2>3, MagnitudeSum
  <2> QED
    BY <2>4, <2>5, <2>6, <2>7, <2>8 DEF a
<1> QED
  BY <1>1, <1>2

-----------------------------------------------------------------------------
(***************************************************************************)
(* Elements, and what each operator keeps in its state.                    *)
(***************************************************************************)
\* The operators whose running state is one atom, and those whose state is an
\* atom or a pair that ends in one.
AtomStates == {"+", "*", "strlen", "cat", "|", "^", "&", "~"}
PairStates == {"-", "<", "<s"}
FreeStates == {"=", "rc", "notall", "all", "any", "secp256k1_muladd", "tx"}

FixNames  == {"x", "i", "h", "t", "l", "shift", "substr", "rd", "wr",
              "bip340_verify", "ecdsa_verify", "bip342_txmsg", "%"}
HashNames == {"sha256", "ripemd160", "hash160", "hash256"}
Operators == FixNames \cup HashNames \cup AtomStates \cup PairStates \cup FreeStates
                \cup {"===", "b", "unknown"}

\* The list has at least n links (n is at most five).
Links(l, n) ==
    /\ n >= 1 => IsCons(l)
    /\ n >= 2 => IsCons(l.val2)
    /\ n >= 3 => IsCons(l.val2.val2)
    /\ n >= 4 => IsCons(l.val2.val2.val2)
    /\ n >= 5 => IsCons(l.val2.val2.val2.val2)

\* The ones among the low five bits of a count, from bit k on.
Ones(n, k) == (IF k <= 0 THEN n % 2 ELSE 0) + (IF k <= 1 THEN (n \div 2) % 2 ELSE 0)
                + (IF k <= 2 THEN (n \div 4) % 2 ELSE 0) + (IF k <= 3 THEN (n \div 8) % 2 ELSE 0)
                + (IF k <= 4 THEN (n \div 16) % 2 ELSE 0)

\* A counted list of arguments: as many links as it says, and no more than the
\* operator takes.
FixHeld(op, st) ==
    \/ IsNil(st)
    \/ /\ IsCons(st) /\ IsAtom(st.val2)
       /\ AsInt(st.val2) \in 0..MaxArgs[op]
       /\ Links(st.val1, AsInt(st.val2))

\* The binary counter of b: a pending tree for each one of the count, at least,
\* so that every carry finds the tree it merges with.
CounterHeld(st) ==
    \/ IsNil(st)
    \/ /\ IsCons(st) /\ IsCons(st.val1) /\ IsAtom(st.val2)
       /\ AsInt(st.val2) \in Nat
       /\ Links(st.val1, Ones(AsInt(st.val2), 0))

UnknownStates == [selector : 0..3, multiplier : Nat, count : Nat, bytes : Nat, work : Nat]

\* What the operator's internal state and its state element are.
Held(op, ist, st) ==
    /\ op \in AtomStates => IsAtom(st)
    /\ op \in PairStates => IsAtom(st) \/ (IsCons(st) /\ IsAtom(st.val2))
    /\ op = "==="        => IsAtom(st) \/ IsCons(st)
    /\ op = "b"          => CounterHeld(st)
    /\ op \in FixNames   => FixHeld(op, st)
    /\ op \in HashNames  => ist \in Seq(Nat)
    /\ op = "unknown"    => ist \in UnknownStates

\* A pair and a function object, of members of S.
PairIn(x, S) == x = Cons(x.val1, x.val2) /\ x.val1 \in S /\ x.val2 \in S
FuncIn(x, S) == /\ x = Func(x.fn, x.op, x.ist, x.state) /\ x.fn \in {"op", "partial"}
                /\ x.op \in Operators /\ x.state \in S /\ Held(x.op, x.ist, x.state)

\* An element, and what may be delivered: an element or an error.
ClosedSet(S) == \A x \in S : IsWhole(x) \/ PairIn(x, S) \/ FuncIn(x, S)
IsElement(e) == \E S : ClosedSet(S) /\ e \in S
IsErr(v)     == v = Error(v.msg)
Deliverable(v) == IsElement(v) \/ IsErr(v)

\* A pair has a kind of its own.
LEMMA PairKind ==
    ASSUME NEW l, NEW r
    PROVE  /\ IsCons(Cons(l, r)) /\ ~IsAtom(Cons(l, r)) /\ ~IsFunc(Cons(l, r))
           /\ ~IsError(Cons(l, r)) /\ Cons(l, r).val1 = l /\ Cons(l, r).val2 = r
BY DEF Cons, IsCons, IsAtom, IsFunc, IsError

\* So has a function object.
LEMMA FuncKind ==
    ASSUME NEW fn, NEW op, NEW ist, NEW st
    PROVE  LET x == Func(fn, op, ist, st)
           IN  /\ IsFunc(x) /\ ~IsAtom(x) /\ ~IsCons(x) /\ ~IsError(x)
               /\ x.fn = fn /\ x.op = op /\ x.ist = ist /\ x.state = st
BY DEF Func, IsCons, IsAtom, IsFunc, IsError

\* So has an error.
LEMMA ErrKind ==
    ASSUME NEW v, IsErr(v)
    PROVE  IsError(v) /\ ~IsAtom(v) /\ ~IsCons(v) /\ ~IsFunc(v)
<1>1. v.kind = "error"
  BY DEF IsErr, Error
<1> QED
  BY <1>1 DEF IsError, IsAtom, IsCons, IsFunc

\* An error is delivered as one.
LEMMA ErrorIsErr ==
    ASSUME NEW msg
    PROVE  IsErr(Error(msg)) /\ IsError(Error(msg)) /\ Deliverable(Error(msg))
BY DEF IsErr, Error, IsError, Deliverable

\* Taking an element apart.
LEMMA ElementKinds ==
    ASSUME NEW e, IsElement(e)
    PROVE  /\ ~IsError(e)
           /\ \/ IsAtom(e) /\ ~IsCons(e) /\ ~IsFunc(e)
              \/ ~IsAtom(e) /\ IsCons(e) /\ ~IsFunc(e)
              \/ ~IsAtom(e) /\ ~IsCons(e) /\ IsFunc(e)
           /\ IsNil(e) => IsAtom(e)
           /\ IsAtom(e) => IsWhole(e)
           /\ IsCons(e) => IsElement(e.val1) /\ IsElement(e.val2) /\ e = Cons(e.val1, e.val2)
           /\ IsFunc(e) => /\ e = Func(e.fn, e.op, e.ist, e.state) /\ e.fn \in {"op", "partial"}
                           /\ e.op \in Operators /\ IsElement(e.state)
                           /\ Held(e.op, e.ist, e.state)
<1>1. PICK S : ClosedSet(S) /\ e \in S
  BY DEF IsElement
<1>2. IsNil(e) => IsAtom(e)
  BY Interned DEF IsNil
<1>3. CASE IsWhole(e)
  BY <1>2, <1>3, WholeAtom
<1>4. CASE PairIn(e, S)
  <2>1. IsCons(e) /\ ~IsAtom(e) /\ ~IsFunc(e) /\ ~IsError(e)
    BY <1>4, PairKind DEF PairIn
  <2>2. IsElement(e.val1) /\ IsElement(e.val2)
    BY <1>1, <1>4 DEF PairIn, IsElement
  <2> QED
    BY <1>2, <1>4, <2>1, <2>2 DEF PairIn
<1>5. CASE FuncIn(e, S)
  <2>1. IsFunc(e) /\ ~IsAtom(e) /\ ~IsCons(e) /\ ~IsError(e)
    BY <1>5, FuncKind DEF FuncIn
  <2>2. IsElement(e.state)
    BY <1>1, <1>5 DEF FuncIn, IsElement
  <2> QED
    BY <1>2, <1>5, <2>1, <2>2 DEF FuncIn
<1> QED
  BY <1>1, <1>3, <1>4, <1>5 DEF ClosedSet

\* Putting one together.
LEMMA ElementAtom ==
    ASSUME NEW a, IsWhole(a)
    PROVE  IsElement(a)
<1>1. ClosedSet({a}) /\ a \in {a}
  BY DEF ClosedSet
<1> QED
  BY <1>1 DEF IsElement

\* A pair of elements is an element.
LEMMA ElementPair ==
    ASSUME NEW l, NEW r, IsElement(l), IsElement(r)
    PROVE  IsElement(Cons(l, r))
<1>1. PICK S : ClosedSet(S) /\ l \in S
  BY DEF IsElement
<1>2. PICK T : ClosedSet(T) /\ r \in T
  BY DEF IsElement
<1> DEFINE U == S \cup T \cup {Cons(l, r)}
<1>3. PairIn(Cons(l, r), U)
  BY <1>1, <1>2, PairKind DEF PairIn
<1>4. S \subseteq U /\ T \subseteq U /\ Cons(l, r) \in U
  OBVIOUS
<1>5. ClosedSet(U)
  <2> SUFFICES ASSUME NEW x \in U PROVE IsWhole(x) \/ PairIn(x, U) \/ FuncIn(x, U)
    BY DEF ClosedSet
  <2>1. CASE x \in S
    BY <1>1, <1>4, <2>1 DEF ClosedSet, PairIn, FuncIn
  <2>2. CASE x \in T
    BY <1>2, <1>4, <2>2 DEF ClosedSet, PairIn, FuncIn
  <2>3. CASE x = Cons(l, r)
    BY <1>3, <2>3
  <2> QED
    BY <2>1, <2>2, <2>3
<1> HIDE DEF U
<1> QED
  BY <1>4, <1>5 DEF IsElement

\* So is the function object of an operator that holds what it may.
LEMMA ElementFunc ==
    ASSUME NEW fn \in {"op", "partial"}, NEW op \in Operators, NEW ist,
           NEW st, IsElement(st), Held(op, ist, st)
    PROVE  IsElement(Func(fn, op, ist, st))
<1>1. PICK S : ClosedSet(S) /\ st \in S
  BY DEF IsElement
<1> DEFINE x == Func(fn, op, ist, st)
           U == S \cup {x}
<1>2. FuncIn(x, U)
  BY <1>1, FuncKind DEF FuncIn
<1>3. S \subseteq U /\ x \in U
  OBVIOUS
<1> HIDE DEF x
<1>4. ClosedSet(U)
  <2> SUFFICES ASSUME NEW y \in U PROVE IsWhole(y) \/ PairIn(y, U) \/ FuncIn(y, U)
    BY DEF ClosedSet
  <2>1. CASE y \in S
    BY <1>1, <1>3, <2>1 DEF ClosedSet, PairIn, FuncIn
  <2>2. CASE y = x
    BY <1>2, <2>2
  <2> QED
    BY <2>1, <2>2
<1> HIDE DEF U
<1> QED
  BY <1>3, <1>4 DEF IsElement, x

-----------------------------------------------------------------------------
(***************************************************************************)
(* Paths: what a call may charge, build and leave.                         *)
(***************************************************************************)
\* A fold of op: it builds no more than its charge and the two charges of the
\* iteration pay for (less the frame it pushes), at half a STEP each; b builds
\* the most, its carries with two pairs and a count.
FoldsTo(op, r) ==
    /\ r.cost \in Nat /\ r.built \in Nat /\ r.built <= 8 /\ 12 * r.built <= r.cost + 36
    /\ IsErr(r.val) \/ (IsElement(r.val) /\ Held(op, r.ist, r.val))

\* The legs of a path, and what is left of their charges after each of them.
LegSet == [cost : Nat, built : Nat]
Runs(legs, p) ==
    /\ legs \in Seq(LegSet) /\ p \in [0..Len(legs) -> Nat] /\ p[0] = 0
    /\ \A k \in 1..Len(legs) : p[k] = p[k-1] + legs[k].cost - 12 * legs[k].built

\* No leg builds more than so much.
Thin(most, legs) == \A k \in 1..Len(legs) : legs[k].built <= most

\* An operator's end: what it delivers is paid for, up to the charge of the
\* iteration (less the frame it pushes), and so is every leg on the way; between
\* two charges it builds at most so much.
EndsWell(most, r) ==
    /\ r.cost \in Nat /\ r.built \in Nat /\ Deliverable(r.val)
    /\ r.built <= most /\ Thin(most, r.legs)
    /\ \E p : Runs(r.legs, p) /\ 12 * r.built <= r.cost + 12 + p[Len(r.legs)]

\* The parts of a path that charges once.
LEMMA PathFields ==
    ASSUME NEW c, NEW b, NEW v
    PROVE  /\ Path(c, b, v).cost = c /\ Path(c, b, v).built = b /\ Path(c, b, v).val = v
           /\ Path(c, b, v).ist = <<>> /\ Path(c, b, v).legs = <<>>
BY DEF Path

\* Without legs nothing is charged leg by leg.
LEMMA NoLegs ==
    \E p : Runs(<<>>, p) /\ p[Len(<<>>)] = 0
<1> DEFINE p == [k \in 0..0 |-> 0]
<1>1. Runs(<<>>, p) /\ p[Len(<<>>)] = 0
  BY DEF Runs
<1> QED
  BY <1>1

\* An atom is one construction or, interned, none.
LEMMA FreshCount ==
    ASSUME NEW a
    PROVE  Fresh(a) \in 0..1
BY DEF Fresh

\* A fold along a path of its own.
LEMMA PathFolds ==
    ASSUME NEW op, NEW cost \in Nat, NEW built \in Nat, built <= 8,
           12 * built <= cost + 36, NEW v, IsElement(v), Held(op, <<>>, v)
    PROVE  FoldsTo(op, Path(cost, built, v))
BY PathFields DEF FoldsTo

\* A fold that builds nothing.
LEMMA BorrowsFolds ==
    ASSUME NEW op, NEW cost \in Nat, NEW v, IsElement(v), Held(op, <<>>, v)
    PROVE  FoldsTo(op, Borrows(cost, v))
BY PathFolds DEF Borrows

\* A fold that fails.
LEMMA FailsFolds ==
    ASSUME NEW op, NEW cost \in Nat, NEW msg
    PROVE  FoldsTo(op, Fails(cost, msg))
BY PathFields, ErrorIsErr DEF FoldsTo, Fails

\* A fold that builds one element.
LEMMA BuildsFolds ==
    ASSUME NEW op, NEW cost \in Nat, NEW a, IsWhole(a), Held(op, <<>>, a)
    PROVE  FoldsTo(op, Builds(cost, a))
BY PathFields, FreshCount, ElementAtom DEF FoldsTo, Builds

\* An end along a path of its own.
LEMMA PathEnds ==
    ASSUME NEW cost \in Nat, NEW built \in 0..1, NEW v, Deliverable(v)
    PROVE  EndsWell(1, Path(cost, built, v))
BY PathFields, NoLegs DEF EndsWell, Thin

\* A result that is borrowed, not built.
LEMMA BorrowsEnds ==
    ASSUME NEW cost \in Nat, NEW v, Deliverable(v)
    PROVE  EndsWell(1, Borrows(cost, v))
BY PathEnds DEF Borrows

\* A failure as the result.
LEMMA FailsEnds ==
    ASSUME NEW cost \in Nat, NEW msg
    PROVE  EndsWell(1, Fails(cost, msg))
BY PathEnds, ErrorIsErr DEF Fails

\* A result that is built.
LEMMA BuildsEnds ==
    ASSUME NEW cost \in Nat, NEW a, IsWhole(a)
    PROVE  EndsWell(1, Builds(cost, a))
BY PathEnds, FreshCount, ElementAtom DEF Builds, Deliverable

\* What is charged for widths.
LEMMA Prices ==
    ASSUME NEW l \in Nat, NEW r \in Nat
    PROVE  /\ Wider(l, r) \in Nat /\ Wider(l, r) >= l /\ Wider(l, r) >= r
           /\ atom_scan(l) \in Nat /\ l * r \in Nat
           /\ (l * r) \div 8 \in Nat /\ mul_fold_work(l, r) \in Nat
<1>1. l * r \in Nat
  OBVIOUS
<1>2. Wider(l, r) \in Nat /\ Wider(l, r) >= l /\ Wider(l, r) >= r /\ atom_scan(l) \in Nat
  BY DEF Wider, atom_scan
<1> DEFINE p == l * r
<1>3. p \in Nat
  BY <1>1
<1> HIDE DEF p
<1>4. p \div 8 \in Nat
  BY <1>3
<1>5. mul_fold_work(l, r) = 4 * (l + r) + 6 * Wider(l, r) + p \div 8
  BY DEF mul_fold_work, ARITH_PER_BYTE, MULDIV_LIMB_PER_BYTE, MUL_PRODUCT_DIV, p
<1> QED
  BY <1>1, <1>2, <1>4, <1>5 DEF p

-----------------------------------------------------------------------------
(***************************************************************************)
(* Folds on integers, flags and comparisons.                               *)
(***************************************************************************)
\* The new state is an atom, or one of the pairs.
LEMMA HeldAtom ==
    ASSUME NEW op \in AtomStates \cup PairStates \cup FreeStates \cup {"==="}, NEW a, IsAtom(a)
    PROVE  Held(op, <<>>, a)
BY DEF Held, AtomStates, PairStates, FreeStates, FixNames, HashNames

\* A pair is a fit state of the operators that hold one.
LEMMA HeldPair ==
    ASSUME NEW op \in PairStates \cup FreeStates \cup {"==="}, NEW l, NEW r, IsAtom(r)
    PROVE  Held(op, <<>>, Cons(l, r))
BY PairKind DEF Held, AtomStates, PairStates, FreeStates, FixNames, HashNames

\* Any element is a fit state of the operators that ask nothing of it.
LEMMA HeldFree ==
    ASSUME NEW op \in FreeStates, NEW e
    PROVE  Held(op, <<>>, e)
BY DEF Held, AtomStates, PairStates, FreeStates, FixNames, HashNames

\* op_add and op_mul, one argument.
LEMMA FoldAdd ==
    ASSUME NEW left, IsElement(left), IsAtom(left), NEW right, IsElement(right)
    PROVE  FoldsTo("+", op_add(left, right)) /\ FoldsTo("*", op_mul(left, right))
<1> DEFINE sum == IntAtom(AsInt(left) + AsInt(right))
           product == IntAtom(AsInt(left) * AsInt(right))
<1>1. CASE ~IsAtom(right)
  BY <1>1, FailsFolds, ZenonT(40) DEF op_add, op_mul, ARITH_ARG
<1>2. CASE IsAtom(right)
  <2>1. IsWhole(left) /\ IsWhole(right)
    BY <1>2, ElementKinds
  <2>2. left.width \in Nat /\ right.width \in Nat /\ AsInt(left) \in Int /\ AsInt(right) \in Int
    BY <2>1, WholeAtom, IntegerOf
  <2>3. AsInt(left) + AsInt(right) \in Int /\ AsInt(left) * AsInt(right) \in Int
    BY <2>2
  <2>4. IsWhole(sum) /\ sum.width \in 0..5 /\ IsWhole(product) /\ product.width \in 0..5
    BY <2>3, IntegerAtom
  <2> HIDE DEF sum, product
  <2>5. Held("+", <<>>, sum) /\ Held("*", <<>>, product)
    BY <2>4, WholeAtom, HeldAtom DEF AtomStates
  <2> DEFINE c == ARITH_ARG + ARITH_PER_BYTE * (left.width + right.width) + MALLOC_PER_BYTE * sum.width
             d == ARITH_ARG + mul_fold_work(left.width, right.width) + MALLOC_PER_BYTE * product.width
  <2>6. c \in Nat /\ d \in Nat
    <3>1. mul_fold_work(left.width, right.width) \in Nat
      BY <2>2, Prices
    <3> QED
      BY <2>2, <2>4, <3>1 DEF ARITH_ARG, ARITH_PER_BYTE, MALLOC_PER_BYTE
  <2>7. op_add(left, right) = Builds(c, sum) /\ op_mul(left, right) = Builds(d, product)
    BY <1>2 DEF op_add, op_mul, sum, product
  <2> HIDE DEF c, d
  <2> QED
    BY <2>4, <2>5, <2>6, <2>7, BuildsFolds
<1> QED
  BY <1>1, <1>2

\* The minuend is the state, or what its pair holds.
LEMMA FoldSub ==
    ASSUME NEW left, IsElement(left), Held("-", <<>>, left), NEW right, IsElement(right)
    PROVE  FoldsTo("-", op_sub(left, right))
<1> DEFINE m == IF IsCons(left) THEN left.val2 ELSE left
           enc == IntAtom(AsInt(m) - AsInt(right))
<1>1. IsWhole(m)
  <2>1. IsAtom(left) \/ (IsCons(left) /\ IsAtom(left.val2))
    BY DEF Held, PairStates
  <2>2. CASE IsAtom(left)
    BY <2>2, ElementKinds
  <2>3. CASE IsCons(left) /\ IsAtom(left.val2)
    <3>1. IsElement(left.val2)
      BY <2>3, ElementKinds
    <3> QED
      BY <2>3, <3>1, ElementKinds
  <2> QED
    BY <2>1, <2>2, <2>3
<1>2. CASE ~IsAtom(right)
  BY <1>2, FailsFolds, ZenonT(40) DEF op_sub, ARITH_ARG
<1>3. CASE IsAtom(right) /\ IsCons(left) /\ IsNil(left.val1)
  <2>1. op_sub(left, right) = Path(160, 1, Cons(One, right))
    BY <1>3 DEF op_sub, ARITH_ARG
  <2>2. IsElement(Cons(One, right)) /\ Held("-", <<>>, Cons(One, right))
    BY <1>3, Interned, ElementAtom, ElementPair, HeldPair DEF PairStates
  <2> QED
    BY <2>1, <2>2, PathFolds
<1>4. CASE IsAtom(right) /\ ~(IsCons(left) /\ IsNil(left.val1))
  <2>1. IsWhole(right)
    BY <1>4, ElementKinds
  <2> HIDE DEF m
  <2>2. m.width \in Nat /\ right.width \in Nat /\ AsInt(m) \in Int /\ AsInt(right) \in Int
    BY <1>1, <2>1, WholeAtom, IntegerOf
  <2>3. IsWhole(enc) /\ enc.width \in 0..5
    BY <2>2, IntegerAtom
  <2> DEFINE c == ARITH_ARG + ARITH_PER_BYTE * (m.width + right.width) + MALLOC_PER_BYTE * enc.width
  <2>4. op_sub(left, right) = Builds(c, enc)
    BY <1>4 DEF op_sub, m
  <2> HIDE DEF enc
  <2>5. c \in Nat
    <3>1. m.width \in Nat /\ right.width \in Nat /\ enc.width \in Nat
      BY <2>2, <2>3
    <3>2. ARITH_PER_BYTE * (m.width + right.width) \in Nat
      BY <3>1 DEF ARITH_PER_BYTE
    <3>3. MALLOC_PER_BYTE * enc.width \in Nat
      BY <3>1 DEF MALLOC_PER_BYTE
    <3> QED
      BY <3>2, <3>3 DEF ARITH_ARG
  <2>6. Held("-", <<>>, enc)
    BY <2>3, WholeAtom, HeldAtom DEF PairStates
  <2> QED
    BY <2>3, <2>4, <2>5, <2>6, BuildsFolds
<1> QED
  BY <1>2, <1>3, <1>4

\* < and <s keep the last argument in a pair with 1.
LEMMA FoldLess ==
    ASSUME NEW left, IsElement(left), Held("<", <<>>, left), NEW right, IsElement(right)
    PROVE  FoldsTo("<", op_lt_num(left, right)) /\ FoldsTo("<s", op_lt_str(left, right))
<1>1. CASE IsFunc(right)
  BY <1>1, FailsFolds DEF op_lt_num, op_lt_str, COMPARE_ARG
<1>2. CASE ~IsFunc(right) /\ (IsNil(left) \/ ~IsAtom(right))
  <2>1. op_lt_num(left, right) = Borrows(64, Nil) /\ op_lt_str(left, right) = Borrows(64, Nil)
    BY <1>2 DEF op_lt_num, op_lt_str, COMPARE_ARG
  <2>2. Held("<", <<>>, Nil) /\ Held("<s", <<>>, Nil) /\ IsElement(Nil)
    BY Interned, ElementAtom, HeldAtom DEF PairStates
  <2> QED
    BY <2>1, <2>2, BorrowsFolds
<1>3. CASE ~IsFunc(right) /\ ~IsNil(left) /\ IsAtom(right)
  <2>1. IsWhole(right) /\ right.width \in Nat
    BY <1>3, ElementKinds, WholeAtom
  <2>2. IsCons(left) => left.val2.width \in Nat
    <3> SUFFICES ASSUME IsCons(left) PROVE left.val2.width \in Nat
      OBVIOUS
    <3>1. ~IsAtom(left) /\ IsElement(left.val2)
      BY ElementKinds
    <3>2. IsAtom(left.val2)
      BY <3>1 DEF Held, PairStates
    <3> QED
      BY <3>1, <3>2, ElementKinds, WholeAtom
  <2> DEFINE pair == Cons(One, right)
  <2>3. IsElement(pair) /\ Held("<", <<>>, pair) /\ Held("<s", <<>>, pair)
    BY <1>3, Interned, ElementAtom, ElementPair, HeldPair DEF PairStates
  <2>4. IsElement(Nil) /\ Held("<", <<>>, Nil) /\ Held("<s", <<>>, Nil)
    BY Interned, ElementAtom, HeldAtom DEF PairStates
  <2> HIDE DEF pair
  <2>5. \E c \in Nat : c >= 64 /\ op_lt_num(left, right) \in {Borrows(c, Nil), Path(c, 1, pair)}
    <3> DEFINE scan == LT_NUM_PER_BYTE * (left.val2.width + right.width)
    <3>1. IsCons(left) => COMPARE_ARG + scan \in Nat /\ COMPARE_ARG + scan >= 64
      BY <2>1, <2>2, SMTT(30) DEF LT_NUM_PER_BYTE, COMPARE_ARG
    <3>2. [Path(COMPARE_ARG, 1, pair) EXCEPT !.cost = @ + scan] = Path(COMPARE_ARG + scan, 1, pair)
      BY DEF Path
    <3> HIDE DEF scan
    <3>3. CASE ~IsCons(left)
      BY <1>3, <3>3 DEF op_lt_num, COMPARE_ARG, pair
    <3>4. CASE IsCons(left)
      <4>1. op_lt_num(left, right) \in {Borrows(COMPARE_ARG + scan, Nil), Path(COMPARE_ARG + scan, 1, pair)}
        BY <1>3, <3>2, <3>4 DEF op_lt_num, scan, pair
      <4> QED
        BY <3>1, <3>4, <4>1
    <3> QED
      BY <3>3, <3>4
  <2>6. \E c \in Nat : c >= 64 /\ op_lt_str(left, right) \in {Borrows(c, Nil), Path(c, 1, pair)}
    <3> DEFINE scan == IF IsCons(left) THEN COMPARE_PER_BYTE * right.width ELSE 0
    <3>1. COMPARE_ARG + scan \in Nat /\ COMPARE_ARG + scan >= 64
      BY <2>1 DEF COMPARE_PER_BYTE, COMPARE_ARG
    <3>2. op_lt_str(left, right) \in {Borrows(COMPARE_ARG + scan, Nil), Path(COMPARE_ARG + scan, 1, pair)}
      BY <1>3 DEF op_lt_str, pair
    <3> QED
      BY <3>1, <3>2
  <2>7. \A c \in Nat : c >= 64 => /\ FoldsTo("<", Borrows(c, Nil)) /\ FoldsTo("<s", Borrows(c, Nil))
                                 /\ FoldsTo("<", Path(c, 1, pair)) /\ FoldsTo("<s", Path(c, 1, pair))
    BY <2>3, <2>4, PathFolds, BorrowsFolds
  <2> QED
    BY <2>5, <2>6, <2>7
<1> QED
  BY <1>1, <1>2, <1>3

\* The folds whose state may be any element.
LEMMA FoldFree ==
    ASSUME NEW left, IsElement(left), NEW right, IsElement(right)
    PROVE  /\ FoldsTo("=", op_eq(left, right)) /\ FoldsTo("rc", op_rc(left, right))
           /\ FoldsTo("notall", op_nand(left, right)) /\ FoldsTo("all", op_and(left, right))
           /\ FoldsTo("any", op_or(left, right))
           /\ FoldsTo("secp256k1_muladd", op_secp256k1_muladd(left, right))
<1>1. IsElement(Nil) /\ IsElement(One)
  BY Interned, ElementAtom
<1>2. IsElement(Cons(left, right)) /\ IsElement(Cons(right, left))
  BY ElementPair
<1>3. FoldsTo("=", op_eq(left, right))
  <2>1. IsAtom(right) => COMPARE_ARG + COMPARE_PER_BYTE * right.width \in Nat
    BY ElementKinds, WholeAtom DEF COMPARE_ARG, COMPARE_PER_BYTE
  <2>2. \A msg : FoldsTo("=", Fails(64, msg))
    BY FailsFolds
  <2>3. \A c \in Nat : FoldsTo("=", Borrows(c, Nil)) /\ FoldsTo("=", Borrows(c, left))
    BY <1>1, BorrowsFolds, HeldFree DEF FreeStates
  <2>4. FoldsTo("=", Path(64, 1, Cons(right, left)))
    BY <1>2, PathFolds, HeldFree DEF FreeStates
  <2>5. CASE IsAtom(right) /\ ~IsFunc(right) /\ ~IsNil(left) /\ ~IsAtom(left)
    BY <2>1, <2>3, <2>5 DEF op_eq
  <2>6. CASE ~(IsAtom(right) /\ ~IsFunc(right) /\ ~IsNil(left) /\ ~IsAtom(left))
    BY <2>2, <2>3, <2>4, <2>6 DEF op_eq, COMPARE_ARG
  <2> QED
    BY <2>5, <2>6
<1>4. FoldsTo("rc", op_rc(left, right))
  <2>1. CASE IsCons(left)
    <3>1. IsElement(left.val1) /\ IsElement(left.val2)
      BY <2>1, ElementKinds
    <3>2. IsElement(Cons(left.val1, Cons(right, left.val2)))
      BY <3>1, ElementPair
    <3>3. op_rc(left, right) = Path(384, 2, Cons(left.val1, Cons(right, left.val2)))
      BY <2>1 DEF op_rc, RC_ARG, ELEMENT_ALLOC
    <3> QED
      BY <3>2, <3>3, PathFolds, HeldFree DEF FreeStates
  <2>2. CASE ~IsCons(left)
    <3>1. op_rc(left, right) = Path(384, 1, Cons(left, right))
      BY <2>2 DEF op_rc, RC_ARG, ELEMENT_ALLOC
    <3> QED
      BY <1>2, <3>1, PathFolds, HeldFree DEF FreeStates
  <2> QED
    BY <2>1, <2>2
<1>5. \A op \in FreeStates : /\ \A msg : FoldsTo(op, Fails(10, msg))
                             /\ FoldsTo(op, Borrows(10, Nil)) /\ FoldsTo(op, Borrows(10, One))
                             /\ FoldsTo(op, Borrows(10, left))
  BY <1>1, FailsFolds, BorrowsFolds, HeldFree
<1>6. /\ FoldsTo("notall", op_nand(left, right)) /\ FoldsTo("all", op_and(left, right))
      /\ FoldsTo("any", op_or(left, right))
  BY <1>5 DEF op_nand, op_and, op_or, Flag, LOGIC_ARG, FreeStates
<1>7. FoldsTo("secp256k1_muladd", op_secp256k1_muladd(left, right))
  <2>1. \/ \E msg : op_secp256k1_muladd(left, right) = Fails(MULADD_ARG, msg)
        \/ op_secp256k1_muladd(left, right) = Path(MULADD_ARG, 1, Cons(right, left))
    BY DEF op_secp256k1_muladd
  <2>2. MULADD_ARG \in Nat /\ 12 * 1 <= MULADD_ARG + 36
    BY DEF MULADD_ARG, ELEMENT_ALLOC
  <2> QED
    BY <1>2, <2>1, <2>2, PathFolds, FailsFolds, HeldFree DEF FreeStates
<1> QED
  BY <1>3, <1>4, <1>6, <1>7

\* What a selector of tx answers: an atom, a pair of atoms or an error.
LEMMA InfoAnswers ==
    ASSUME NEW view, Answers(view), NEW code, NEW which
    PROVE  LET e == get_tx_info(view, code, which)
           IN  \/ IsErr(e)
               \/ IsWhole(e)
               \/ IsCons(e) /\ IsWhole(e.val1) /\ IsWhole(e.val2) /\ e = Cons(e.val1, e.val2)
<1> DEFINE e == get_tx_info(view, code, which)
           at == IF which = <<>> THEN view.index ELSE which
           pair(x) == IsCons(x) /\ IsWhole(x.val1) /\ IsWhole(x.val2) /\ x = Cons(x.val1, x.val2)
<1>1. \A msg : IsErr(Error(msg))
  BY ErrorIsErr
<1>2. IsErr(Raises) /\ \A x : Answered(x) => IsErr(x) \/ IsWhole(x)
  BY <1>1 DEF Raises, Answered, Bytes, IsWhole
<1>3. CASE code \in 0..8
  <2>1. IsErr(view.global[code]) \/ IsWhole(view.global[code])
    BY <1>2, <1>3 DEF Answers
  <2>2. code \in 0..9
    BY <1>3
  <2>3. e = IF which # <<>> THEN Error("tx: should be an atom not a pair") ELSE view.global[code]
    BY <2>2 DEF get_tx_info
  <2> QED
    BY <1>1, <2>1, <2>3
<1>4. CASE code = 9
  <2>1. IsErr(view.global[9]) \/ pair(view.global[9])
    BY <1>2 DEF Answers, Bytes, IsWhole
  <2>2. code \in 0..9
    BY <1>4
  <2>3. e = IF which # <<>> THEN Error("tx: should be an atom not a pair") ELSE view.global[9]
    BY <1>4, <2>2 DEF get_tx_info
  <2> QED
    BY <1>1, <2>1, <2>3
<1>5. CASE code \notin 0..9
  <2>1. e = IF code \notin 10..29 THEN Error("tx: out of range")
            ELSE IF at = <<>> THEN Raises
            ELSE IF at[1] < 0 THEN Error("tx: invalid index")
            ELSE IF ~view.tx THEN Raises
            ELSE IF at[1] + 1 \notin DOMAIN view.field[code] THEN Error("tx: invalid index")
            ELSE view.field[code][at[1] + 1]
    BY <1>5 DEF get_tx_info
  <2> HIDE DEF e, at
  <2>2. code \in 10..29 => \A k \in DOMAIN view.field[code] : Answered(view.field[code][k])
    BY DEF Answers
  <2> QED
    BY <1>1, <1>2, <2>1, <2>2 DEF e
<1>6. code \in 0..9 => code \in 0..8 \/ code = 9
  OBVIOUS
<1> QED
  BY <1>3, <1>4, <1>5, <1>6

\* One argument of tx: an atom extends the state, a pair replaces it.
LEMMA FoldTx ==
    ASSUME NEW view, Answers(view), NEW left, IsElement(left), NEW right, IsElement(right)
    PROVE  FoldsTo("tx", op_tx(view, left, right))
<1>1. \A e : Held("tx", <<>>, e)
  BY HeldFree DEF FreeStates
<1>2. \A c \in Nat : FoldsTo("tx", Borrows(c, Raises)) /\ \A msg : FoldsTo("tx", Fails(c, msg))
  <2>1. \A c \in Nat : \A msg : FoldsTo("tx", Fails(c, msg))
    BY FailsFolds
  <2>2. \A c : Borrows(c, Raises) = Path(c, 0, Raises)
    BY DEF Borrows
  <2>3. \A c \in Nat : FoldsTo("tx", Path(c, 0, Raises))
    BY PathFields, ErrorIsErr DEF FoldsTo, Raises
  <2> QED
    BY <2>1, <2>2, <2>3
<1>3. TX_ARG = 176
  BY DEF TX_ARG
<1>4. CASE ~IsAtom(left)
  <2>1. op_tx(view, left, right) = Borrows(176, Raises)
    BY <1>3, <1>4 DEF op_tx
  <2> QED
    BY <1>2, <2>1
<1> DEFINE pair  == ~IsAtom(right)
           code  == AsInt(IF pair THEN right.val1 ELSE right)
           which == IF pair THEN <<AsInt(right.val2)>> ELSE <<>>
           scans == IF pair THEN atom_scan(right.val1.width) + atom_scan(right.val2.width)
                    ELSE atom_scan(right.width)
           asked == TX_ARG + scans + IF code = 9 /\ ~pair THEN 3 * ELEMENT_ALLOC ELSE 0
           bad   == pair /\ (~IsCons(right) \/ ~IsAtom(right.val1) \/ ~IsAtom(right.val2))
           e     == get_tx_info(view, code, which)
<1>5. CASE IsAtom(left) /\ bad
  <2>1. op_tx(view, left, right) = Fails(176, "tx: bad argument")
    BY <1>3, <1>5 DEF op_tx
  <2> QED
    BY <1>2, <2>1
<1>6. CASE IsAtom(left) /\ ~bad
  <2>1. op_tx(view, left, right) = Extended(left, e, asked)
    BY <1>6 DEF op_tx
  <2>2. scans \in Nat
    <3>1. CASE pair
      <4>1. IsWhole(right.val1) /\ IsWhole(right.val2)
        BY <1>6, <3>1, ElementKinds
      <4>2. right.val1.width \in Nat /\ right.val2.width \in Nat
        BY <4>1, WholeAtom
      <4>3. atom_scan(right.val1.width) \in Nat /\ atom_scan(right.val2.width) \in Nat
        BY <4>2, Prices
      <4> QED
        BY <3>1, <4>3
    <3>2. CASE ~pair
      <4>1. IsWhole(right)
        BY <3>2, ElementKinds
      <4>2. right.width \in Nat
        BY <4>1, WholeAtom
      <4> QED
        BY <3>2, <4>2, Prices
    <3> QED
      BY <3>1, <3>2
  <2>3. asked \in Nat /\ asked >= 176
    <3> HIDE DEF scans
    <3>1. \A b \in {0, 960} : 176 + scans + b \in Nat /\ 176 + scans + b >= 176
      BY <2>2
    <3>2. asked \in {176 + scans + 0, 176 + scans + 960}
      BY <1>3 DEF ELEMENT_ALLOC
    <3> QED
      BY <3>1, <3>2
  <2>4. IsErr(e) \/ IsWhole(e) \/ (IsCons(e) /\ IsWhole(e.val1) /\ IsWhole(e.val2) /\ e = Cons(e.val1, e.val2))
    BY InfoAnswers
  <2> HIDE DEF asked, e, bad, scans, code, which, pair
  <2>5. CASE e = Raises
    BY <1>2, <2>1, <2>3, <2>5 DEF Extended
  <2>6. CASE IsWhole(e)
    <3>1. IsAtom(e) /\ e.width \in Nat /\ e.bytes \in Seq(Nat) /\ ~IsError(e)
      BY <2>6, WholeAtom
    <3>2. e # Raises
      BY <3>1, ErrorIsErr DEF Raises
    <3>3. IsWhole(left)
      BY <1>6, ElementKinds
    <3>4. left.width \in Nat /\ left.bytes \in Seq(Nat)
      BY <3>3, WholeAtom
    <3>5. left.bytes \o e.bytes \in Seq(Nat)
      BY <3>1, <3>4
    <3>6. IsWhole(Concat(left, e))
      BY <3>5, WholeBytes DEF Concat
    <3> DEFINE c == asked + CopyRate * (left.width + e.width)
    <3>7. c \in Nat
      <4>1. CopyRate = 11
        BY DEF CopyRate, COPY_PER_BYTE, MALLOC_PER_BYTE
      <4>2. 11 * (left.width + e.width) \in Nat
        BY <3>1, <3>4
      <4> QED
        BY <2>3, <4>1, <4>2
    <3>8. op_tx(view, left, right) = Builds(c, Concat(left, e))
      BY <2>1, <3>1, <3>2 DEF Extended
    <3> HIDE DEF c
    <3> QED
      BY <1>1, <3>6, <3>7, <3>8, BuildsFolds
  <2>7. CASE IsErr(e) /\ e # Raises
    <3>1. ~IsAtom(e) /\ ~IsCons(e)
      BY <2>7, ErrKind
    <3>2. op_tx(view, left, right) = Path(asked, 1, e)
      BY <2>1, <2>7, <3>1 DEF Extended
    <3> QED
      BY <2>3, <2>7, <3>2, PathFields DEF FoldsTo
  <2>8. CASE IsCons(e) /\ IsWhole(e.val1) /\ IsWhole(e.val2) /\ e = Cons(e.val1, e.val2)
    <3>1. ~IsAtom(e) /\ ~IsError(e)
      BY <2>8, PairKind
    <3>2. e # Raises
      BY <3>1, ErrorIsErr DEF Raises
    <3>3. IsElement(e)
      BY <2>8, ElementAtom, ElementPair
    <3> DEFINE b == 1 + Fresh(e.val1) + Fresh(e.val2)
    <3>4. b \in 1..3
      <4>1. Fresh(e.val1) \in 0..1 /\ Fresh(e.val2) \in 0..1
        BY FreshCount
      <4> QED
        BY <4>1
    <3>5. op_tx(view, left, right) = Path(asked, b, e)
      BY <2>1, <2>8, <3>1, <3>2 DEF Extended
    <3> HIDE DEF b
    <3>6. b \in Nat /\ b <= 8 /\ 12 * b <= asked + 36
      BY <2>3, <3>4
    <3> QED
      BY <1>1, <2>3, <3>3, <3>5, <3>6, PathFolds
  <2> QED
    BY <2>4, <2>5, <2>6, <2>7, <2>8
<1> QED
  BY <1>4, <1>5, <1>6

-----------------------------------------------------------------------------
(***************************************************************************)
(* Folds on byte strings.                                                  *)
(***************************************************************************)
LEMMA FoldLengths ==
    ASSUME NEW left, IsElement(left), IsAtom(left), NEW right, IsElement(right)
    PROVE  FoldsTo("strlen", op_strlen(left, right)) /\ FoldsTo("cat", op_cat(left, right))
<1>1. CASE ~IsAtom(right)
  BY <1>1, FailsFolds, ZenonT(40) DEF op_strlen, op_cat, STRLEN_ARG, CAT_ARG
<1>2. CASE IsAtom(right)
  <2>1. IsWhole(left) /\ IsWhole(right)
    BY <1>2, ElementKinds
  <2>2. left.width \in Nat /\ right.width \in Nat /\ AsInt(left) \in Int
        /\ left.bytes \in Seq(Nat) /\ right.bytes \in Seq(Nat)
    BY <2>1, WholeAtom, IntegerOf
  <2> DEFINE len == IntAtom(AsInt(left) + right.width)
  <2>3. IsWhole(len) /\ IsWhole(Concat(left, right))
    <3>1. AsInt(left) + right.width \in Int
      BY <2>2
    <3>2. left.bytes \o right.bytes \in Seq(Nat)
      BY <2>2
    <3> QED
      BY <3>1, <3>2, IntegerAtom, WholeBytes DEF Concat
  <2>4. Held("strlen", <<>>, len) /\ Held("cat", <<>>, Concat(left, right))
    BY <2>3, WholeAtom, HeldAtom DEF AtomStates
  <2> DEFINE c == CAT_ARG + (COPY_PER_BYTE + MALLOC_PER_BYTE) * (left.width + right.width)
  <2>5. c \in Nat
    <3>1. (1 + 10) * (left.width + right.width) \in Nat
      BY <2>2
    <3> QED
      BY <3>1 DEF CAT_ARG, COPY_PER_BYTE, MALLOC_PER_BYTE
  <2>6. op_strlen(left, right) = Builds(128, len) /\ op_cat(left, right) = Builds(c, Concat(left, right))
    BY <1>2 DEF op_strlen, op_cat, STRLEN_ARG
  <2> HIDE DEF len, c
  <2> QED
    BY <2>3, <2>4, <2>5, <2>6, BuildsFolds
<1> QED
  BY <1>1, <1>2

\* A sum of natural numbers, term by term.
SumTurn(terms, g, i) == IF i = 0 THEN 0 ELSE g[i-1] + terms[i]
SumTurns(terms, n, g) == g = [i \in 0..n |-> SumTurn(terms, g, i)]

\* A sum has its turns.
LEMMA SumTurnsExist ==
    ASSUME NEW terms, NEW n \in Nat
    PROVE  \E g : SumTurns(terms, n, g)
<1> DEFINE T == {m \in 0..n : \E g : SumTurns(terms, m, g)}
<1>1. 0 \in T
  <2>1. SumTurns(terms, 0, [i \in 0..0 |-> 0])
    BY DEF SumTurns, SumTurn
  <2> QED
    BY <2>1
<1>2. ASSUME NEW m \in 0..n, m # n, m \in T
      PROVE  m + 1 \in T
  <2>1. PICK g : SumTurns(terms, m, g)
    BY <1>2
  <2> DEFINE f == [i \in 0..m+1 |-> IF i = m + 1 THEN SumTurn(terms, g, i) ELSE g[i]]
  <2>2. \A i \in 0..m+1 : f[i] = SumTurn(terms, g, i)
    BY <2>1 DEF SumTurns
  <2>3. \A i \in 0..m : f[i] = g[i]
    OBVIOUS
  <2>4. \A i \in 0..m+1 : i # 0 => i - 1 \in 0..m
    OBVIOUS
  <2> HIDE DEF f
  <2>5. \A i \in 0..m+1 : SumTurn(terms, f, i) = SumTurn(terms, g, i)
    BY <2>3, <2>4 DEF SumTurn
  <2>6. f = [i \in 0..m+1 |-> f[i]]
    BY DEF f
  <2>7. SumTurns(terms, m + 1, f)
    BY <2>2, <2>5, <2>6 DEF SumTurns
  <2> QED
    BY <1>2, <2>7
<1> HIDE DEF T
<1>3. n \in T
  BY <1>1, <1>2, Climb
<1> QED
  BY <1>3 DEF T

\* A running sum of naturals is natural.
LEMMA SumNatural ==
    ASSUME NEW n \in Nat, NEW f, \A i \in 1..n : f[i] \in Nat, NEW g, SumTurns(f, n, g)
    PROVE  g[n] \in Nat
<1> DEFINE T == {i \in 0..n : g[i] \in Nat}
<1>1. g[0] = 0 /\ \A i \in 1..n : g[i] = g[i-1] + f[i]
  BY DEF SumTurns, SumTurn
<1>2. \A i \in 0..n : i \in T
  <2>1. 0 \in T
    BY <1>1
  <2>2. ASSUME NEW i \in 0..n, i # n, i \in T
        PROVE  i + 1 \in T
    <3>1. i + 1 \in 1..n /\ (i + 1) - 1 = i
      BY <2>2
    <3>2. g[i + 1] = g[i] + f[i + 1]
      BY <1>1, <3>1
    <3> QED
      BY <2>2, <3>1, <3>2
  <2> HIDE DEF T
  <2> QED
    BY <2>1, <2>2, Climb
<1> QED
  BY <1>2

\* The bits of a number, and what a bit counts for.
LEMMA BitsAndPlaces ==
    ASSUME NEW k \in 0..7
    PROVE  2^k \in Nat \ {0} /\ \A x \in Nat : BitAt(x, k) \in 0..1
<1>1. 2^k \in Nat \ {0}
  <2>1. CASE k = 0
    BY <2>1, Powers
  <2>2. CASE k = 1
    BY <2>2, Powers
  <2>3. CASE k = 2
    BY <2>3, Powers
  <2>4. CASE k = 3
    BY <2>4, Powers
  <2>5. CASE k = 4
    BY <2>5, Powers
  <2>6. CASE k = 5
    BY <2>6, Powers
  <2>7. CASE k = 6
    BY <2>7, Powers
  <2>8. CASE k = 7
    BY <2>8, Powers
  <2> QED
    BY <2>1, <2>2, <2>3, <2>4, <2>5, <2>6, <2>7, <2>8
<1> QED
  BY <1>1 DEF BitAt

\* or, on a byte.
LEMMA BitOrByte ==
    ASSUME NEW x \in Nat, NEW y \in Nat
    PROVE  OnBytes(BitOr, x, y) \in Nat
<1> DEFINE f == [i \in 1..8 |-> BitOr(BitAt(x, i-1), BitAt(y, i-1)) * 2^(i-1)]
           Sums(g) == g = [i \in 0..8 |-> IF i = 0 THEN 0
                             ELSE g[i-1] + BitOr(BitAt(x, i-1), BitAt(y, i-1)) * 2^(i-1)]
<1>1. \A i \in 1..8 : f[i] \in Nat
  <2> TAKE i \in 1..8
  <2>1. i - 1 \in 0..7
    OBVIOUS
  <2>2. 2^(i-1) \in Nat /\ BitAt(x, i-1) \in 0..1 /\ BitAt(y, i-1) \in 0..1
    BY <2>1, BitsAndPlaces
  <2>3. BitOr(BitAt(x, i-1), BitAt(y, i-1)) \in Nat
    BY <2>2 DEF BitOr, Wider
  <2> QED
    BY <2>2, <2>3
<1>2. \A g : Sums(g) <=> SumTurns(f, 8, g)
  BY DEF SumTurns, SumTurn
<1>3. OnBytes(BitOr, x, y) = (CHOOSE g : Sums(g))[8]
  BY DEF OnBytes
<1> HIDE DEF f, Sums
<1>4. \E g : Sums(g)
  BY <1>2, SumTurnsExist
<1>5. SumTurns(f, 8, CHOOSE g : Sums(g))
  BY <1>2, <1>4
<1> QED
  BY <1>1, <1>3, <1>5, SumNatural

\* xor, on a byte.
LEMMA BitXorByte ==
    ASSUME NEW x \in Nat, NEW y \in Nat
    PROVE  OnBytes(BitXor, x, y) \in Nat
<1> DEFINE f == [i \in 1..8 |-> BitXor(BitAt(x, i-1), BitAt(y, i-1)) * 2^(i-1)]
           Sums(g) == g = [i \in 0..8 |-> IF i = 0 THEN 0
                             ELSE g[i-1] + BitXor(BitAt(x, i-1), BitAt(y, i-1)) * 2^(i-1)]
<1>1. \A i \in 1..8 : f[i] \in Nat
  <2> TAKE i \in 1..8
  <2>1. i - 1 \in 0..7
    OBVIOUS
  <2>2. 2^(i-1) \in Nat /\ BitAt(x, i-1) \in 0..1 /\ BitAt(y, i-1) \in 0..1
    BY <2>1, BitsAndPlaces
  <2>3. BitXor(BitAt(x, i-1), BitAt(y, i-1)) \in Nat
    BY <2>2 DEF BitXor, Wider
  <2> QED
    BY <2>2, <2>3
<1>2. \A g : Sums(g) <=> SumTurns(f, 8, g)
  BY DEF SumTurns, SumTurn
<1>3. OnBytes(BitXor, x, y) = (CHOOSE g : Sums(g))[8]
  BY DEF OnBytes
<1> HIDE DEF f, Sums
<1>4. \E g : Sums(g)
  BY <1>2, SumTurnsExist
<1>5. SumTurns(f, 8, CHOOSE g : Sums(g))
  BY <1>2, <1>4
<1> QED
  BY <1>1, <1>3, <1>5, SumNatural

\* and, on a byte.
LEMMA BitAndByte ==
    ASSUME NEW x \in Nat, NEW y \in Nat
    PROVE  OnBytes(BitAnd, x, y) \in Nat
<1> DEFINE f == [i \in 1..8 |-> BitAnd(BitAt(x, i-1), BitAt(y, i-1)) * 2^(i-1)]
           Sums(g) == g = [i \in 0..8 |-> IF i = 0 THEN 0
                             ELSE g[i-1] + BitAnd(BitAt(x, i-1), BitAt(y, i-1)) * 2^(i-1)]
<1>1. \A i \in 1..8 : f[i] \in Nat
  <2> TAKE i \in 1..8
  <2>1. i - 1 \in 0..7
    OBVIOUS
  <2>2. 2^(i-1) \in Nat /\ BitAt(x, i-1) \in 0..1 /\ BitAt(y, i-1) \in 0..1
    BY <2>1, BitsAndPlaces
  <2>3. BitAnd(BitAt(x, i-1), BitAt(y, i-1)) \in Nat
    BY <2>2 DEF BitAnd, Wider
  <2> QED
    BY <2>2, <2>3
<1>2. \A g : Sums(g) <=> SumTurns(f, 8, g)
  BY DEF SumTurns, SumTurn
<1>3. OnBytes(BitAnd, x, y) = (CHOOSE g : Sums(g))[8]
  BY DEF OnBytes
<1> HIDE DEF f, Sums
<1>4. \E g : Sums(g)
  BY <1>2, SumTurnsExist
<1>5. SumTurns(f, 8, CHOOSE g : Sums(g))
  BY <1>2, <1>4
<1> QED
  BY <1>1, <1>3, <1>5, SumNatural

\* or with the complement, on a byte.
LEMMA BitOrNotByte ==
    ASSUME NEW x \in Nat, NEW y \in Nat
    PROVE  OnBytes(BitOrNot, x, y) \in Nat
<1> DEFINE f == [i \in 1..8 |-> BitOrNot(BitAt(x, i-1), BitAt(y, i-1)) * 2^(i-1)]
           Sums(g) == g = [i \in 0..8 |-> IF i = 0 THEN 0
                             ELSE g[i-1] + BitOrNot(BitAt(x, i-1), BitAt(y, i-1)) * 2^(i-1)]
<1>1. \A i \in 1..8 : f[i] \in Nat
  <2> TAKE i \in 1..8
  <2>1. i - 1 \in 0..7
    OBVIOUS
  <2>2. 2^(i-1) \in Nat /\ BitAt(x, i-1) \in 0..1 /\ BitAt(y, i-1) \in 0..1
    BY <2>1, BitsAndPlaces
  <2>3. BitOrNot(BitAt(x, i-1), BitAt(y, i-1)) \in Nat
    BY <2>2 DEF BitOrNot, Wider
  <2> QED
    BY <2>2, <2>3
<1>2. \A g : Sums(g) <=> SumTurns(f, 8, g)
  BY DEF SumTurns, SumTurn
<1>3. OnBytes(BitOrNot, x, y) = (CHOOSE g : Sums(g))[8]
  BY DEF OnBytes
<1> HIDE DEF f, Sums
<1>4. \E g : Sums(g)
  BY <1>2, SumTurnsExist
<1>5. SumTurns(f, 8, CHOOSE g : Sums(g))
  BY <1>2, <1>4
<1> QED
  BY <1>1, <1>3, <1>5, SumNatural

\* The bytes of two atoms combined, out to the wider one.
LEMMA CombinedAtoms ==
    ASSUME NEW l, IsWhole(l), NEW r, IsWhole(r)
    PROVE  /\ IsWhole(Combined(BitOr, l, r, 0)) /\ IsWhole(Combined(BitXor, l, r, 0))
           /\ IsWhole(Combined(BitAnd, l, r, 0)) /\ IsWhole(Combined(BitOrNot, l, r, 255))
<1> DEFINE w == Wider(l.width, r.width)
<1>1. w \in Nat
  BY WholeAtom, Prices
<1>2. \A k \in 1..w, pad \in {0, 255} : Padded(l, k, pad) \in Nat /\ Padded(r, k, pad) \in Nat
  BY WholeAtom DEF Padded
<1>3. \A k \in 1..w : /\ OnBytes(BitOr, Padded(l, k, 0), Padded(r, k, 0)) \in Nat
                       /\ OnBytes(BitXor, Padded(l, k, 0), Padded(r, k, 0)) \in Nat
                       /\ OnBytes(BitAnd, Padded(l, k, 0), Padded(r, k, 0)) \in Nat
                       /\ OnBytes(BitOrNot, Padded(l, k, 0), Padded(r, k, 255)) \in Nat
  BY <1>2, BitOrByte, BitXorByte, BitAndByte, BitOrNotByte
<1>4. /\ [k \in 1..w |-> OnBytes(BitOr, Padded(l, k, 0), Padded(r, k, 0))] \in [1..w -> Nat]
      /\ [k \in 1..w |-> OnBytes(BitXor, Padded(l, k, 0), Padded(r, k, 0))] \in [1..w -> Nat]
      /\ [k \in 1..w |-> OnBytes(BitAnd, Padded(l, k, 0), Padded(r, k, 0))] \in [1..w -> Nat]
      /\ [k \in 1..w |-> OnBytes(BitOrNot, Padded(l, k, 0), Padded(r, k, 255))] \in [1..w -> Nat]
  BY <1>3
<1>5. \A b \in [1..w -> Nat] : b \in Seq(Nat)
  BY <1>1
<1> QED
  BY <1>4, <1>5, WholeBytes DEF Combined

\* The bitwise folds charge for the wider operand before they build it.
LEMMA FoldBits ==
    ASSUME NEW left, IsElement(left), IsAtom(left), NEW right, IsElement(right)
    PROVE  /\ FoldsTo("|", op_or_bytes(left, right)) /\ FoldsTo("^", op_xor_bytes(left, right))
           /\ FoldsTo("&", op_and_bytes(left, right)) /\ FoldsTo("~", op_nand_bytes(left, right))
<1>1. ASSUME NEW op \in AtomStates, NEW msg, NEW out, IsAtom(right) => IsWhole(out)
      PROVE  FoldsTo(op, BytesFold(msg, left, right, out))
  <2>1. CASE ~IsAtom(right)
    BY <2>1, FailsFolds DEF BytesFold, BITWISE_ARG
  <2>2. CASE IsAtom(right)
    <3>1. Wider(left.width, right.width) \in Nat
      BY <2>2, ElementKinds, WholeAtom, Prices
    <3>2. BITWISE_ARG + CopyRate * Wider(left.width, right.width) \in Nat
      BY <3>1 DEF BITWISE_ARG, CopyRate, COPY_PER_BYTE, MALLOC_PER_BYTE
    <3>3. Held(op, <<>>, out)
      BY <1>1, <2>2, WholeAtom, HeldAtom
    <3> QED
      BY <1>1, <2>2, <3>2, <3>3, BuildsFolds DEF BytesFold
  <2> QED
    BY <2>1, <2>2
<1>2. IsAtom(right) => /\ IsWhole(Combined(BitOr, left, right, 0)) /\ IsWhole(Combined(BitXor, left, right, 0))
                       /\ IsWhole(Combined(BitAnd, left, right, 0)) /\ IsWhole(Combined(BitOrNot, left, right, 255))
  BY ElementKinds, CombinedAtoms
<1>3. IsAtom(right) => FoldsTo("&", Borrows(BITWISE_ARG, right))
  BY HeldAtom, BorrowsFolds DEF BITWISE_ARG, AtomStates
<1>4. FoldsTo("|", op_or_bytes(left, right))
  BY <1>1, <1>2 DEF op_or_bytes, AtomStates
<1>5. FoldsTo("^", op_xor_bytes(left, right))
  BY <1>1, <1>2 DEF op_xor_bytes, AtomStates
<1>6. FoldsTo("&", op_and_bytes(left, right))
  BY <1>1, <1>2, <1>3 DEF op_and_bytes, AtomStates
<1>7. FoldsTo("~", op_nand_bytes(left, right))
  <2> DEFINE out == Combined(BitOrNot, left, right, 255)
             msg == "nand_bytes: argument must be atom"
  <2>1. IsAtom(right) => IsWhole(out)
    BY <1>2
  <2>2. "~" \in AtomStates
    BY DEF AtomStates
  <2>3. op_nand_bytes(left, right) = BytesFold(msg, left, right, out)
    BY DEF op_nand_bytes
  <2> HIDE DEF out, msg
  <2> QED
    BY <1>1, <2>1, <2>2, <2>3
<1> QED
  BY <1>4, <1>5, <1>6, <1>7

-----------------------------------------------------------------------------
(***************************************************************************)
(* Counted lists, hashes and unknown operators.                            *)
(***************************************************************************)
\* The operators of fixed arity and how many arguments they take.
LEMMA FixTable ==
    /\ FixOpcodes = FixNames /\ HashOpcodes = HashNames
    /\ \A op \in FixNames : MaxArgs[op] \in 1..10 /\ MinArgs[op] \in 0..3
    /\ \A op \in FixNames \ {"x"} : MaxArgs[op] \in 1..3
    /\ \A op \in {"i", "h", "t", "l", "rd", "wr"} : MinArgs[op] = 1
    /\ \A op \in {"%", "shift"} : MinArgs[op] = 2
    /\ \A op \in {"bip340_verify", "ecdsa_verify"} : MinArgs[op] = 3
    /\ MaxArgs["rd"] = 1
<1>1. FixOpcodes = FixNames
  BY DEF FixOpcodes, FixNames
<1>2. HashOpcodes = HashNames
  BY DEF HashOpcodes, DigestSize, HashNames
<1>3. \A op \in FixNames : MaxArgs[op] \in 1..10 /\ (op # "x" => MaxArgs[op] \in 1..3)
  BY DEF FixNames, FixOpcodes, MaxArgs
<1>4. \A op \in FixNames : MinArgs[op] \in 0..3
  BY DEF FixNames, FixOpcodes, MinArgs
<1>5. /\ \A op \in {"i", "h", "t", "l", "rd", "wr"} : MinArgs[op] = 1
      /\ \A op \in {"%", "shift"} : MinArgs[op] = 2
      /\ \A op \in {"bip340_verify", "ecdsa_verify"} : MinArgs[op] = 3
  BY DEF FixOpcodes, MinArgs
<1>6. MaxArgs["rd"] = 1
  BY DEF FixOpcodes, MaxArgs
<1> QED
  BY <1>1, <1>2, <1>3, <1>4, <1>5, <1>6

\* One more link.
LEMMA LinksGrow ==
    ASSUME NEW l, NEW e, NEW n \in Nat, Links(l, n)
    PROVE  Links(Cons(e, l), n + 1)
<1>1. IsCons(Cons(e, l)) /\ Cons(e, l).val2 = l
  BY PairKind
<1> DEFINE m == Cons(e, l)
<1> HIDE DEF m
<1>2. IsCons(m) /\ m.val2 = l
  BY <1>1 DEF m
<1>3. Links(m, n + 1)
  BY <1>2 DEF Links
<1> QED
  BY <1>3 DEF m

\* The next argument of a counted list; the count is at most ten, and is read
\* back as it was written.
LEMMA FoldFix ==
    ASSUME NEW op \in FixNames, NEW left, IsElement(left), Held(op, <<>>, left),
           NEW right, IsElement(right)
    PROVE  FoldsTo(op, FixArgument(op, left, right))
<1> DEFINE n == Collected(left)
           rest == IF IsNil(left) THEN left ELSE left.val1
           count == IntAtom(n + 1)
           new == Cons(Cons(right, rest), count)
<1>1. FixHeld(op, left)
  BY DEF Held
<1>2. n \in 0..MaxArgs[op] /\ IsElement(rest) /\ Links(rest, n)
  <2>1. CASE IsNil(left)
    BY <2>1, FixTable DEF Collected, Links
  <2>2. CASE ~IsNil(left)
    <3>1. IsCons(left) /\ AsInt(left.val2) \in 0..MaxArgs[op] /\ Links(left.val1, AsInt(left.val2))
      BY <1>1, <2>2 DEF FixHeld
    <3> QED
      BY <2>2, <3>1, ElementKinds DEF Collected
  <2> QED
    BY <2>1, <2>2
<1>3. MaxArgs[op] \in 1..10
  BY FixTable
<1> HIDE DEF rest
<1>4. FixArgument(op, left, right) = IF n >= MaxArgs[op] THEN Fails(152, "too many arguments")
                                     ELSE Path(152, 2 + Fresh(count), new)
  <2>1. FIX_COLLECT = 152 /\ FIX_COLLECT + 0 = 152
    BY DEF FIX_COLLECT
  <2> QED
    BY <2>1 DEF FixArgument, rest
<1>5. CASE n >= MaxArgs[op]
  BY <1>4, <1>5, FailsFolds, ZenonT(40)
<1>6. CASE ~(n >= MaxArgs[op])
  <2>1. n + 1 \in 1..MaxArgs[op] /\ n \in Nat /\ n + 1 \in Nat /\ n + 1 < 128
    BY <1>2, <1>3, <1>6
  <2> HIDE DEF n
  <2>2. IsWhole(count) /\ AsInt(count) = n + 1
    BY <2>1, IntegerAtom, ReadBack
  <2>3. IsElement(new)
    BY <1>2, <2>2, ElementAtom, ElementPair
  <2>4. Links(Cons(right, rest), n + 1)
    BY <1>2, <2>1, LinksGrow
  <2> HIDE DEF count
  <2>5. IsCons(new) /\ new.val1 = Cons(right, rest) /\ new.val2 = count
    BY PairKind
  <2> HIDE DEF new
  <2>6. AsInt(new.val2) \in 0..MaxArgs[op]
    BY <1>3, <2>1, <2>2, <2>5
  <2>7. FixHeld(op, new)
    BY <2>2, <2>4, <2>5, <2>6, WholeAtom DEF FixHeld
  <2>8. Held(op, <<>>, new)
    BY <2>7 DEF Held, FixNames, AtomStates, PairStates, HashNames
  <2>9. 2 + Fresh(count) \in Nat /\ 2 + Fresh(count) <= 8 /\ 12 * (2 + Fresh(count)) <= 152 + 36
    <3>1. Fresh(count) \in 0..1
      BY FreshCount
    <3> QED
      BY <3>1
  <2> QED
    BY <1>4, <1>6, <2>3, <2>8, <2>9, PathFolds, ZenonT(40)
<1> QED
  BY <1>5, <1>6

\* A hash takes the bytes of one more atom.
LEMMA FoldHash ==
    ASSUME NEW op \in HashNames, NEW ist \in Seq(Nat), NEW right, IsElement(right)
    PROVE  FoldsTo(op, HashArgument(ist, right))
<1>1. CASE ~IsAtom(right)
  BY <1>1, FailsFolds, ZenonT(40) DEF HashArgument, HASH_ARG
<1>2. CASE IsAtom(right)
  <2>1. IsWhole(right)
    BY <1>2, ElementKinds
  <2>2. right.width \in Nat /\ right.bytes \in Seq(Nat)
    BY <2>1, WholeAtom
  <2> DEFINE cost == HASH_ARG + HASH_PER_BYTE * right.width
             more == ist \o right.bytes
             r == HashArgument(ist, right)
  <2>3. cost \in Nat
    BY <2>2 DEF HASH_ARG, HASH_PER_BYTE
  <2>4. more \in Seq(Nat)
    BY <2>2
  <2>5. r = IntState(cost, more)
    BY <1>2 DEF HashArgument
  <2> HIDE DEF cost, more, r
  <2>6. r.cost = cost /\ r.built = 0 /\ r.val = Nil /\ r.ist = more
    BY <2>5 DEF IntState, Borrows, Path
  <2>7. Held(op, more, Nil)
    BY <2>4 DEF Held, FixNames, AtomStates, PairStates, HashNames
  <2>8. IsElement(Nil)
    BY Interned, ElementAtom
  <2>9. FoldsTo(op, r)
    BY <2>3, <2>6, <2>7, <2>8 DEF FoldsTo
  <2> QED
    BY <2>9 DEF r
<1> QED
  BY <1>1, <1>2

\* An unknown operator counts its arguments and sums up a price.
LEMMA FoldUnknown ==
    ASSUME NEW ist \in UnknownStates, NEW right, IsElement(right)
    PROVE  FoldsTo("unknown", UnknownArgument(ist, right))
<1>1. /\ ist.selector \in 0..3 /\ ist.multiplier \in Nat /\ ist.count \in Nat
      /\ ist.bytes \in Nat /\ ist.work \in Nat
  BY DEF UnknownStates
<1>2. ASSUME NEW new \in UnknownStates
      PROVE  FoldsTo("unknown", IntState(0, new))
  <2> DEFINE r == IntState(0, new)
  <2>1. r.cost = 0 /\ r.built = 0 /\ r.val = Nil /\ r.ist = new
    BY DEF IntState, Borrows, Path
  <2>2. Held("unknown", new, Nil)
    BY DEF Held, FixNames, AtomStates, PairStates, HashNames
  <2>3. IsElement(Nil)
    BY Interned, ElementAtom
  <2> HIDE DEF r
  <2>4. FoldsTo("unknown", r)
    BY <2>1, <2>2, <2>3 DEF FoldsTo
  <2> QED
    BY <2>4 DEF r
<1>3. CASE ist.selector = 0
  BY <1>2, <1>3 DEF UnknownArgument
<1>4. CASE ist.selector # 0 /\ ~IsAtom(right)
  BY <1>4, FailsFolds DEF UnknownArgument
<1>5. CASE ist.selector # 0 /\ IsAtom(right)
  <2> DEFINE w == right.width
             folded == IF ist.selector = 2 /\ ist.count > 0
                       THEN ist.work + ARITH_ARG + mul_fold_work(ist.bytes, w) ELSE ist.work
             new == [ist EXCEPT !.count = @ + 1, !.bytes = @ + w, !.work = folded]
  <2>1. w \in Nat
    BY <1>5, ElementKinds, WholeAtom
  <2>2. folded \in Nat
    <3>1. mul_fold_work(ist.bytes, w) \in Nat
      BY <1>1, <2>1, Prices
    <3> QED
      BY <1>1, <3>1 DEF ARITH_ARG
  <2>3. UnknownArgument(ist, right) = IntState(0, new)
    BY <1>5 DEF UnknownArgument
  <2> HIDE DEF folded, w
  <2>4. new \in UnknownStates
    <3>1. ist.count + 1 \in Nat /\ ist.bytes + w \in Nat
      BY <1>1, <2>1
    <3>2. new = [ist EXCEPT !.count = ist.count + 1, !.bytes = ist.bytes + w, !.work = folded]
      OBVIOUS
    <3> QED
      BY <2>2, <3>1, <3>2 DEF UnknownStates
  <2> HIDE DEF new
  <2> QED
    BY <1>2, <2>3, <2>4
<1> QED
  BY <1>3, <1>4, <1>5

-----------------------------------------------------------------------------
(***************************************************************************)
(* The binary counter of b.                                                *)
(***************************************************************************)
\* The low five bits of a count.
LEMMA BitValues ==
    ASSUME NEW n \in Nat
    PROVE  /\ BitAt(n, 0) = n % 2 /\ BitAt(n, 1) = (n \div 2) % 2 /\ BitAt(n, 2) = (n \div 4) % 2
           /\ BitAt(n, 3) = (n \div 8) % 2 /\ BitAt(n, 4) = (n \div 16) % 2
<1>1. BitAt(n, 0) = (n \div 1) % 2 /\ n \div 1 = n
  BY Powers DEF BitAt
<1>2. BitAt(n, 1) = (n \div 2) % 2 /\ BitAt(n, 2) = (n \div 4) % 2
  BY Powers DEF BitAt
<1>3. BitAt(n, 3) = (n \div 8) % 2 /\ BitAt(n, 4) = (n \div 16) % 2
  BY Powers DEF BitAt
<1> QED
  BY <1>1, <1>2, <1>3

\* They are those of its remainder by 32.
LEMMA LowBits ==
    ASSUME NEW n \in Nat
    PROVE  /\ n % 32 \in 0..31 /\ n % 2 = (n % 32) % 2
           /\ (n \div 2) % 2 = ((n % 32) \div 2) % 2 /\ (n \div 4) % 2 = ((n % 32) \div 4) % 2
           /\ (n \div 8) % 2 = ((n % 32) \div 8) % 2 /\ (n \div 16) % 2 = ((n % 32) \div 16) % 2
<1>1. n % 32 \in 0..31
  OBVIOUS
<1>2. n % 2 = (n % 32) % 2
  OBVIOUS
<1>3. (n \div 2) % 2 = ((n % 32) \div 2) % 2
  OBVIOUS
<1>4. (n \div 4) % 2 = ((n % 32) \div 4) % 2
  OBVIOUS
<1>5. (n \div 8) % 2 = ((n % 32) \div 8) % 2
  OBVIOUS
<1>6. (n \div 16) % 2 = ((n % 32) \div 16) % 2
  OBVIOUS
<1> QED
  BY <1>1, <1>2, <1>3, <1>4, <1>5, <1>6

\* Adding one clears the trailing ones and sets the bit above them.
LEMMA CountOn ==
    ASSUME NEW n \in Nat, NEW next \in Nat, next % 32 = (n + 1) % 32, NEW b \in 0..5,
           b >= 1 => n % 2 = 1, b >= 2 => (n \div 2) % 2 = 1, b >= 3 => (n \div 4) % 2 = 1,
           b >= 4 => (n \div 8) % 2 = 1, b >= 5 => (n \div 16) % 2 = 1,
           b = 0 => n % 2 = 0, b = 1 => (n \div 2) % 2 = 0, b = 2 => (n \div 4) % 2 = 0,
           b = 3 => (n \div 8) % 2 = 0, b = 4 => (n \div 16) % 2 = 0
    PROVE  Ones(next, 0) \in Nat /\ Ones(n, b) \in Nat /\ Ones(next, 0) <= 1 + Ones(n, b)
<1> DEFINE r == n % 32
           s == next % 32
<1>1. r \in 0..31 /\ s = IF r = 31 THEN 0 ELSE r + 1
  OBVIOUS
<1>2. /\ n % 2 = r % 2 /\ (n \div 2) % 2 = (r \div 2) % 2 /\ (n \div 4) % 2 = (r \div 4) % 2
      /\ (n \div 8) % 2 = (r \div 8) % 2 /\ (n \div 16) % 2 = (r \div 16) % 2
  BY LowBits
<1>3. /\ next % 2 = s % 2 /\ (next \div 2) % 2 = (s \div 2) % 2
      /\ (next \div 4) % 2 = (s \div 4) % 2 /\ (next \div 8) % 2 = (s \div 8) % 2
      /\ (next \div 16) % 2 = (s \div 16) % 2
  BY LowBits
<1>4. Ones(next, 0) = (s % 2) + ((s \div 2) % 2) + ((s \div 4) % 2) + ((s \div 8) % 2) + ((s \div 16) % 2)
  BY <1>3 DEF Ones
<1>5. Ones(n, b) = (IF b <= 0 THEN r % 2 ELSE 0) + (IF b <= 1 THEN (r \div 2) % 2 ELSE 0)
                + (IF b <= 2 THEN (r \div 4) % 2 ELSE 0) + (IF b <= 3 THEN (r \div 8) % 2 ELSE 0)
                + (IF b <= 4 THEN (r \div 16) % 2 ELSE 0)
  BY <1>2 DEF Ones
<1> HIDE DEF r, s
<1>6. Ones(next, 0) \in Nat /\ Ones(n, b) \in Nat
  BY <1>1, <1>4, <1>5
<1>7. Ones(next, 0) <= 1 + Ones(n, b)
  <2>1. CASE b = 0
    BY <1>1, <1>2, <1>4, <1>5, <2>1
  <2>2. CASE b = 1
    BY <1>1, <1>2, <1>4, <1>5, <2>2
  <2>3. CASE b = 2
    BY <1>1, <1>2, <1>4, <1>5, <2>3
  <2>4. CASE b = 3
    BY <1>1, <1>2, <1>4, <1>5, <2>4
  <2>5. CASE b = 4
    BY <1>1, <1>2, <1>4, <1>5, <2>5
  <2>6. CASE b = 5
    BY <1>1, <1>2, <1>4, <1>5, <2>6
  <2> QED
    BY <2>1, <2>2, <2>3, <2>4, <2>5, <2>6
<1> QED
  BY <1>6, <1>7

\* A set bit is one of the ones from it on.
LEMMA OnesAbove ==
    ASSUME NEW n \in Nat, NEW b \in 0..4, BitAt(n, b) # 0
    PROVE  BitAt(n, b) = 1 /\ Ones(n, b) = 1 + Ones(n, b + 1) /\ Ones(n, b + 1) \in 0..4
<1> DEFINE b0 == n % 2
           b1 == (n \div 2) % 2
           b2 == (n \div 4) % 2
           b3 == (n \div 8) % 2
           b4 == (n \div 16) % 2
<1>1. b0 \in 0..1 /\ b1 \in 0..1 /\ b2 \in 0..1 /\ b3 \in 0..1 /\ b4 \in 0..1
  OBVIOUS
<1>2. /\ BitAt(n, 0) = b0 /\ BitAt(n, 1) = b1 /\ BitAt(n, 2) = b2 /\ BitAt(n, 3) = b3
      /\ BitAt(n, 4) = b4
  BY BitValues
<1>3. \A k : Ones(n, k) = (IF k <= 0 THEN b0 ELSE 0) + (IF k <= 1 THEN b1 ELSE 0)
            + (IF k <= 2 THEN b2 ELSE 0) + (IF k <= 3 THEN b3 ELSE 0) + (IF k <= 4 THEN b4 ELSE 0)
  BY DEF Ones
<1> HIDE DEF b0, b1, b2, b3, b4
<1>4. b = 0 \/ b = 1 \/ b = 2 \/ b = 3 \/ b = 4
  OBVIOUS
<1> QED
  BY <1>1, <1>2, <1>3, <1>4

\* The turns of the carry.
CarryTurn(v, l, c, g, i) ==
    IF i = 0 THEN [v |-> v, m |-> l, built |-> 0]
    ELSE IF g[i-1].built < i - 1 \/ BitAt(c, i - 1) = 0 THEN g[i-1]
    ELSE [v |-> Cons(g[i-1].m.val1, g[i-1].v), m |-> g[i-1].m.val2, built |-> i]
CarryTurns(v, l, c, n, g) == g = [i \in 0..n |-> CarryTurn(v, l, c, g, i)]

\* The carry has its turns.
LEMMA CarryTurnsExist ==
    ASSUME NEW v, NEW l, NEW c, NEW n \in Nat
    PROVE  \E g : CarryTurns(v, l, c, n, g)
<1> DEFINE T == {m \in 0..n : \E g : CarryTurns(v, l, c, m, g)}
<1>1. 0 \in T
  <2>1. CarryTurns(v, l, c, 0, [i \in 0..0 |-> [v |-> v, m |-> l, built |-> 0]])
    BY DEF CarryTurns, CarryTurn
  <2> QED
    BY <2>1
<1>2. ASSUME NEW m \in 0..n, m # n, m \in T
      PROVE  m + 1 \in T
  <2>1. PICK g : CarryTurns(v, l, c, m, g)
    BY <1>2
  <2> DEFINE f == [i \in 0..m+1 |-> IF i = m + 1 THEN CarryTurn(v, l, c, g, i) ELSE g[i]]
  <2>2. \A i \in 0..m+1 : f[i] = CarryTurn(v, l, c, g, i)
    BY <2>1 DEF CarryTurns
  <2>3. \A i \in 0..m : f[i] = g[i]
    OBVIOUS
  <2>4. \A i \in 0..m+1 : i # 0 => i - 1 \in 0..m
    OBVIOUS
  <2> HIDE DEF f
  <2>5. \A i \in 0..m+1 : CarryTurn(v, l, c, f, i) = CarryTurn(v, l, c, g, i)
    BY <2>3, <2>4 DEF CarryTurn
  <2>6. f = [i \in 0..m+1 |-> f[i]]
    BY DEF f
  <2>7. CarryTurns(v, l, c, m + 1, f)
    BY <2>2, <2>5, <2>6 DEF CarryTurns
  <2> QED
    BY <1>2, <2>7
<1> HIDE DEF T
<1>3. n \in T
  BY <1>1, <1>2, Climb
<1> QED
  BY <1>3 DEF T

\* Before each bit the counter still owes a tree for every one from there on, so
\* a carry always finds the tree it merges with.
LEMMA CarryKeeps ==
    ASSUME NEW v, IsElement(v), NEW l, IsElement(l), NEW c \in Nat, Links(l, Ones(c, 0)),
           NEW next \in Nat, next % 32 = (c + 1) % 32
    PROVE  LET x == Carry(v, l, c)
           IN  /\ IsElement(x.v) /\ IsElement(x.m) /\ x.built \in 0..5
               /\ Links(Cons(x.v, x.m), Ones(next, 0))
<1> DEFINE g == CHOOSE f : CarryTurns(v, l, c, 5, f)
           Good(x, k) == /\ IsElement(x.v) /\ IsElement(x.m) /\ x.built \in 0..k
                         /\ Links(x.m, Ones(c, x.built))
                         /\ \A j \in 0..x.built-1 : BitAt(c, j) = 1
                         /\ x.built < k => BitAt(c, x.built) = 0
           T == {k \in 0..5 : Good(g[k], k)}
<1>1. CarryTurns(v, l, c, 5, g)
  BY CarryTurnsExist
<1>2. Carry(v, l, c) = g[5]
  BY DEF Carry, CarryTurns, CarryTurn, CounterBits
<1> HIDE DEF g
<1>3. g[0] = [v |-> v, m |-> l, built |-> 0]
  BY <1>1 DEF CarryTurns, CarryTurn
<1>4. \A k \in 0..4 : g[k+1] = IF g[k].built < k \/ BitAt(c, k) = 0 THEN g[k]
                               ELSE [v |-> Cons(g[k].m.val1, g[k].v), m |-> g[k].m.val2, built |-> k + 1]
  <2> TAKE k \in 0..4
  <2>1. k + 1 \in 0..5 /\ k + 1 # 0 /\ (k + 1) - 1 = k
    OBVIOUS
  <2>2. g[k+1] = CarryTurn(v, l, c, g, k + 1)
    BY <1>1, <2>1 DEF CarryTurns
  <2> QED
    BY <2>1, <2>2 DEF CarryTurn
<1>5. \A k \in 0..5 : k \in T
  <2>1. 0 \in T
    <3>1. Good(g[0], 0)
      BY <1>3
    <3> QED
      BY <3>1
  <2>2. ASSUME NEW k \in 0..5, k # 5, k \in T
        PROVE  k + 1 \in T
    <3> DEFINE x == g[k]
               y == g[k+1]
    <3>1. k \in 0..4 /\ Good(x, k)
      BY <2>2
    <3>2. y = IF x.built < k \/ BitAt(c, k) = 0 THEN x
              ELSE [v |-> Cons(x.m.val1, x.v), m |-> x.m.val2, built |-> k + 1]
      BY <1>4, <3>1
    <3> HIDE DEF x, y
    <3>3. CASE x.built < k \/ BitAt(c, k) = 0
      <4>1. y = x
        BY <3>2, <3>3
      <4>2. Good(x, k + 1)
        BY <3>1, <3>3
      <4>3. Good(y, k + 1)
        BY <4>1, <4>2
      <4> QED
        BY <2>2, <4>3 DEF y
    <3>4. CASE ~(x.built < k \/ BitAt(c, k) = 0)
      <4>1. x.built = k
        BY <3>1, <3>4
      <4>2. BitAt(c, k) = 1 /\ Ones(c, k) = 1 + Ones(c, k + 1) /\ Ones(c, k + 1) \in 0..4
        BY <3>1, <3>4, OnesAbove
      <4>3. Links(x.m, Ones(c, k))
        BY <3>1, <4>1
      <4>4. IsCons(x.m) /\ Links(x.m.val2, Ones(c, k + 1))
        BY <4>2, <4>3 DEF Links
      <4>5. IsElement(x.m.val1) /\ IsElement(x.m.val2)
        BY <3>1, <4>4, ElementKinds
      <4>6. IsElement(Cons(x.m.val1, x.v))
        BY <3>1, <4>5, ElementPair
      <4>7. y.v = Cons(x.m.val1, x.v) /\ y.m = x.m.val2 /\ y.built = k + 1
        BY <3>2, <3>4
      <4>8. \A j \in 0..k : BitAt(c, j) = 1
        <5> TAKE j \in 0..k
        <5>1. CASE j = k
          BY <4>2, <5>1
        <5>2. CASE j # k
          <6>1. j \in 0..x.built-1
            BY <4>1, <5>2, <3>1
          <6> QED
            BY <3>1, <6>1
        <5> QED
          BY <5>1, <5>2
      <4>9. 0..y.built-1 = 0..k /\ y.built \in 0..k+1 /\ ~(y.built < k + 1)
        BY <3>1, <4>7
      <4>10. Good(y, k + 1)
        BY <4>4, <4>5, <4>6, <4>7, <4>8, <4>9
      <4> QED
        BY <2>2, <4>10 DEF y
    <3> QED
      BY <3>3, <3>4
  <2> HIDE DEF T
  <2>3. 5 \in Nat
    OBVIOUS
  <2> QED
    BY <2>1, <2>2, <2>3, Climb
<1> DEFINE x == g[5]
           b == x.built
<1>6. Good(x, 5)
  BY <1>5
<1> HIDE DEF x
<1>7. b \in 0..5
  BY <1>6
<1>8. Links(Cons(x.v, x.m), 1 + Ones(c, b))
  <2>1. Ones(c, b) \in Nat
    BY <1>7 DEF Ones
  <2> QED
    BY <1>6, <2>1, LinksGrow
<1>9. Ones(next, 0) \in Nat /\ Ones(c, b) \in Nat /\ Ones(next, 0) <= 1 + Ones(c, b)
  <2>1. /\ BitAt(c, 0) = c % 2 /\ BitAt(c, 1) = (c \div 2) % 2 /\ BitAt(c, 2) = (c \div 4) % 2
        /\ BitAt(c, 3) = (c \div 8) % 2 /\ BitAt(c, 4) = (c \div 16) % 2
    BY BitValues
  <2>2. /\ b >= 1 => BitAt(c, 0) = 1
        /\ b >= 2 => BitAt(c, 1) = 1
        /\ b >= 3 => BitAt(c, 2) = 1
        /\ b >= 4 => BitAt(c, 3) = 1
        /\ b >= 5 => BitAt(c, 4) = 1
    BY <1>6, <1>7
  <2>3. b < 5 => BitAt(c, b) = 0
    BY <1>6
  <2>4. /\ b = 0 => BitAt(c, 0) = 0
        /\ b = 1 => BitAt(c, 1) = 0
        /\ b = 2 => BitAt(c, 2) = 0
        /\ b = 3 => BitAt(c, 3) = 0
        /\ b = 4 => BitAt(c, 4) = 0
    BY <2>3
  <2>5. /\ b >= 1 => c % 2 = 1
        /\ b >= 2 => (c \div 2) % 2 = 1
        /\ b >= 3 => (c \div 4) % 2 = 1
        /\ b >= 4 => (c \div 8) % 2 = 1
        /\ b >= 5 => (c \div 16) % 2 = 1
    BY <2>1, <2>2
  <2>6. /\ b = 0 => c % 2 = 0
        /\ b = 1 => (c \div 2) % 2 = 0
        /\ b = 2 => (c \div 4) % 2 = 0
        /\ b = 3 => (c \div 8) % 2 = 0
        /\ b = 4 => (c \div 16) % 2 = 0
    BY <2>1, <2>4
  <2> HIDE DEF b
  <2> QED
    BY <1>7, <2>5, <2>6, CountOn, Zenon
<1>10. Links(Cons(x.v, x.m), Ones(next, 0))
  BY <1>8, <1>9 DEF Links
<1> QED
  BY <1>2, <1>6, <1>10 DEF x

\* b merges and counts.
LEMMA FoldB ==
    ASSUME NEW left, IsElement(left), Held("b", <<>>, left), NEW right, IsElement(right)
    PROVE  FoldsTo("b", op_b(left, right))
<1>0. IsElement(Nil) /\ IsElement(One) /\ IsWhole(One)
  BY Interned, ElementAtom
<1>1. ASSUME NEW st, CounterHeld(st)
      PROVE  Held("b", <<>>, st)
  BY <1>1 DEF Held, FixNames, AtomStates, PairStates, HashNames
<1>2. CASE IsNil(left)
  <2> DEFINE st == Cons(Cons(right, Nil), One)
  <2>1. op_b(left, right) = Path(512, 2, st)
    BY <1>2 DEF op_b, B_ARG, ELEMENT_ALLOC
  <2>2. IsElement(st)
    BY <1>0, ElementPair
  <2>3. AsInt(One) = 1
    <3>1. IntAtom(1) = One
      <4>1. IntWidth(1) = 1
        <5>1. 1 \in Nat \ {0} /\ 1 < 128
          OBVIOUS
        <5> QED
          BY <5>1, ClearTop
      <4> QED
        BY <4>1 DEF IntAtom, One
    <3>2. 1 \in Nat /\ 1 < 128
      OBVIOUS
    <3> QED
      BY <3>1, <3>2, ReadBack
  <2>4. IsCons(st) /\ st.val1 = Cons(right, Nil) /\ IsCons(st.val1) /\ st.val2 = One
    BY PairKind
  <2> HIDE DEF st
  <2>5. Ones(1, 0) = 1
    BY DEF Ones
  <2>6. Links(st.val1, 1)
    BY <2>4 DEF Links
  <2>7. CounterHeld(st)
    BY <2>3, <2>4, <2>5, <2>6, Interned DEF CounterHeld
  <2> QED
    BY <1>1, <2>1, <2>2, <2>7, PathFolds
<1>3. CASE ~IsNil(left)
  <2> DEFINE n == AsInt(left.val2)
             c == Carry(right, left.val1, n)
             count == IntAtom(n + 1)
             trees == Cons(c.v, c.m)
             st == Cons(trees, count)
             built == c.built + 2 + Fresh(count)
  <2>1. /\ IsCons(left) /\ IsCons(left.val1) /\ IsAtom(left.val2) /\ n \in Nat
        /\ Links(left.val1, Ones(n, 0))
    BY <1>3 DEF Held, CounterHeld
  <2>2. IsElement(left.val1)
    BY <2>1, ElementKinds
  <2>3. op_b(left, right) = Path(B_ARG, built, st)
    BY <1>3 DEF op_b
  <2> HIDE DEF n
  <2>4. n + 1 \in Nat /\ n + 1 \in Int
    BY <2>1
  <2>5. IsWhole(count) /\ AsInt(count) \in Nat /\ AsInt(count) % 32 = (n + 1) % 32
    BY <2>4, IntegerAtom, ReadBack
  <2>6. /\ IsElement(c.v) /\ IsElement(c.m) /\ c.built \in 0..5
        /\ Links(Cons(c.v, c.m), Ones(AsInt(count), 0))
    BY <2>1, <2>2, <2>5, CarryKeeps
  <2> HIDE DEF c
  <2>7. built \in Nat /\ built <= 8 /\ 12 * built <= B_ARG + 36 /\ B_ARG \in Nat
    <3>1. Fresh(count) \in 0..1
      BY FreshCount
    <3> QED
      BY <2>6, <3>1 DEF B_ARG, ELEMENT_ALLOC
  <2> HIDE DEF built, count
  <2>8. IsElement(st)
    BY <2>5, <2>6, ElementAtom, ElementPair
  <2>9. IsCons(st) /\ st.val1 = trees /\ IsCons(st.val1) /\ st.val2 = count
    BY PairKind
  <2> HIDE DEF st
  <2>10. CounterHeld(st)
    BY <2>5, <2>6, <2>9, WholeAtom DEF CounterHeld
  <2> QED
    BY <1>1, <2>3, <2>7, <2>8, <2>10, PathFolds
<1> QED
  BY <1>2, <1>3

-----------------------------------------------------------------------------
(***************************************************************************)
(* Walks over trees: the nodes still to visit are members of a closed set. *)
(***************************************************************************)
\* Two elements are members of one closed set.
LEMMA TwoElements ==
    ASSUME NEW l, NEW r, IsElement(l), IsElement(r)
    PROVE  \E S : ClosedSet(S) /\ l \in S /\ r \in S
<1>1. PICK S : ClosedSet(S) /\ l \in S
  BY DEF IsElement
<1>2. PICK R : ClosedSet(R) /\ r \in R
  BY DEF IsElement
<1> DEFINE U == S \cup R
<1>3. ClosedSet(U)
  <2> SUFFICES ASSUME NEW x \in U PROVE IsWhole(x) \/ PairIn(x, U) \/ FuncIn(x, U)
    BY DEF ClosedSet
  <2> QED
    BY <1>1, <1>2 DEF ClosedSet, PairIn, FuncIn
<1> QED
  BY <1>1, <1>2, <1>3

\* What a member of a closed set is.
LEMMA ClosedMember ==
    ASSUME NEW S, ClosedSet(S), NEW e \in S
    PROVE  /\ IsElement(e)
           /\ IsAtom(e) => IsWhole(e) /\ e.width \in Nat /\ e.bytes \in Seq(Nat) /\ e.width = Len(e.bytes)
           /\ ~IsAtom(e) /\ ~IsFunc(e) => IsCons(e)
           /\ IsCons(e) => e.val1 \in S /\ e.val2 \in S
<1>1. IsElement(e)
  BY DEF IsElement
<1>2. IsCons(e) => e.val1 \in S /\ e.val2 \in S
  BY WholeAtom, FuncKind DEF ClosedSet, PairIn, FuncIn
<1> QED
  BY <1>1, <1>2, ElementKinds, WholeAtom

CompareTurn(s, g, i) ==
    IF i = 0 THEN s ELSE IF g[i-1].todo = <<>> THEN g[i-1] ELSE CompareNodes(g[i-1])
CompareTurns(s, n, g) == g = [i \in 0..n |-> CompareTurn(s, g, i)]

\* The comparison of two trees has its turns.
LEMMA CompareTurnsExist ==
    ASSUME NEW s, NEW n \in Nat
    PROVE  \E g : CompareTurns(s, n, g)
<1> DEFINE T == {m \in 0..n : \E g : CompareTurns(s, m, g)}
<1>1. 0 \in T
  <2>1. CompareTurns(s, 0, [i \in 0..0 |-> s])
    BY DEF CompareTurns, CompareTurn
  <2> QED
    BY <2>1
<1>2. ASSUME NEW m \in 0..n, m # n, m \in T
      PROVE  m + 1 \in T
  <2>1. PICK g : CompareTurns(s, m, g)
    BY <1>2
  <2> DEFINE f == [i \in 0..m+1 |-> IF i = m + 1 THEN CompareTurn(s, g, i) ELSE g[i]]
  <2>2. \A i \in 0..m+1 : f[i] = CompareTurn(s, g, i)
    BY <2>1 DEF CompareTurns
  <2>3. \A i \in 0..m : f[i] = g[i]
    OBVIOUS
  <2>4. \A i \in 0..m+1 : i # 0 => i - 1 \in 0..m
    OBVIOUS
  <2> HIDE DEF f
  <2>5. \A i \in 0..m+1 : CompareTurn(s, f, i) = CompareTurn(s, g, i)
    BY <2>3, <2>4, SMTT(30) DEF CompareTurn
  <2>6. f = [i \in 0..m+1 |-> f[i]]
    BY DEF f
  <2>7. CompareTurns(s, m + 1, f)
    BY <2>2, <2>5, <2>6 DEF CompareTurns
  <2> QED
    BY <1>2, <2>7
<1> HIDE DEF T
<1>3. n \in T
  BY <1>1, <1>2, Climb
<1> QED
  BY <1>3 DEF T

\* What a comparison has charged, wherever it is.
Comparisons(S) == [todo : Seq(S \X S), cost : Nat, verdict : {"same", "different", Mixed}]

\* Comparing one pair of nodes keeps to the nodes of the two elements.
LEMMA CompareKeeps ==
    ASSUME NEW S, ClosedSet(S), NEW s \in Comparisons(S), s.todo # <<>>
    PROVE  CompareNodes(s) \in Comparisons(S)
<1> DEFINE a == s.todo[1][1]
           b == s.todo[1][2]
           more == <<<<a.val2, b.val2>>, <<a.val1, b.val1>>>> \o Tail(s.todo)
<1>1. s.todo \in Seq(S \X S) /\ s.cost \in Nat /\ s.verdict \in {"same", "different", Mixed}
  BY DEF Comparisons
<1>2. s.todo[1] \in S \X S /\ Tail(s.todo) \in Seq(S \X S) /\ a \in S /\ b \in S
  BY <1>1
<1>3. /\ IsAtom(a) => a.width \in Nat
      /\ ~IsFunc(a) /\ ~IsFunc(b) /\ ~IsAtom(a) /\ ~IsAtom(b) => more \in Seq(S \X S)
  <2> SUFFICES ASSUME ~IsFunc(a), ~IsFunc(b), ~IsAtom(a), ~IsAtom(b) PROVE more \in Seq(S \X S)
    BY <1>2, ClosedMember
  <2>1. a.val1 \in S /\ a.val2 \in S /\ b.val1 \in S /\ b.val2 \in S
    BY <1>2, ClosedMember
  <2>2. <<<<a.val2, b.val2>>, <<a.val1, b.val1>>>> \in Seq(S \X S)
    BY <2>1
  <2> HIDE DEF a, b
  <2> QED
    BY <1>2, <2>2
<1> DEFINE node == [s EXCEPT !.todo = Tail(@), !.cost = @ + BIGEQ_PER_NODE]
           scan == [node EXCEPT !.cost = @ + COMPARE_PER_BYTE * a.width]
<1> HIDE DEF a, b, more
<1>4. node \in Comparisons(S) /\ (IsAtom(a) => scan \in Comparisons(S))
  <2>1. s.cost + BIGEQ_PER_NODE \in Nat
    BY <1>1 DEF BIGEQ_PER_NODE
  <2>2. node \in Comparisons(S) /\ node.cost \in Nat
    BY <1>1, <1>2, <2>1 DEF Comparisons
  <2> HIDE DEF node
  <2>3. IsAtom(a) => node.cost + COMPARE_PER_BYTE * a.width \in Nat
    BY <1>3, <2>2 DEF COMPARE_PER_BYTE
  <2> QED
    BY <2>2, <2>3 DEF Comparisons
<1>5. \A t \in Comparisons(S), v \in {"different", Mixed} :
          [t EXCEPT !.todo = <<>>, !.verdict = v] \in Comparisons(S)
  <2> TAKE t \in Comparisons(S), v \in {"different", Mixed}
  <2>1. <<>> \in Seq(S \X S)
    OBVIOUS
  <2> QED
    BY <2>1 DEF Comparisons
<1>6. ~IsFunc(a) /\ ~IsFunc(b) /\ ~IsAtom(a) /\ ~IsAtom(b) =>
          [node EXCEPT !.todo = more] \in Comparisons(S)
  <2> HIDE DEF node
  <2> QED
    BY <1>3, <1>4 DEF Comparisons
<1>7. [node EXCEPT !.todo = <<<<a.val2, b.val2>>, <<a.val1, b.val1>>>> \o @] = [node EXCEPT !.todo = more]
  BY <1>1 DEF more, Comparisons
<1>8. CompareNodes(s) =
          IF IsFunc(a) \/ IsFunc(b) THEN [node EXCEPT !.todo = <<>>, !.verdict = Mixed]
          ELSE IF IsAtom(a)
          THEN IF ~IsAtom(b) \/ a.width # b.width THEN [node EXCEPT !.todo = <<>>, !.verdict = "different"]
               ELSE IF a # b THEN [scan EXCEPT !.todo = <<>>, !.verdict = "different"] ELSE scan
          ELSE IF IsAtom(b) THEN [node EXCEPT !.todo = <<>>, !.verdict = "different"]
          ELSE [node EXCEPT !.todo = <<<<a.val2, b.val2>>, <<a.val1, b.val1>>>> \o @]
  BY DEF CompareNodes, a, b
<1> HIDE DEF node, scan
<1> QED
  BY <1>4, <1>5, <1>6, <1>7, <1>8

\* So does the whole comparison.
LEMMA CompareWalk ==
    ASSUME NEW S, ClosedSet(S), NEW s \in Comparisons(S)
    PROVE  WalkNodes(CompareNodes, s) \in Comparisons(S)
<1> DEFINE g == CHOOSE f : CompareTurns(s, TreeNodes, f)
           T == {k \in 0..TreeNodes : g[k] \in Comparisons(S)}
<1>0. TreeNodes \in Nat
  BY DEF TreeNodes
<1>1. CompareTurns(s, TreeNodes, g)
  BY <1>0, CompareTurnsExist
<1>2. WalkNodes(CompareNodes, s) = g[TreeNodes]
  BY DEF WalkNodes, CompareTurns, CompareTurn
<1> HIDE DEF g
<1>3. g[0] = s /\ \A k \in 0..TreeNodes : k # TreeNodes =>
          g[k+1] = IF g[k].todo = <<>> THEN g[k] ELSE CompareNodes(g[k])
  BY <1>0, <1>1 DEF CompareTurns, CompareTurn
<1>4. \A k \in 0..TreeNodes : k \in T
  <2>1. 0 \in T
    BY <1>0, <1>3
  <2>2. ASSUME NEW k \in 0..TreeNodes, k # TreeNodes, k \in T
        PROVE  k + 1 \in T
    BY <1>0, <1>3, <2>2, CompareKeeps
  <2> HIDE DEF T
  <2> QED
    BY <1>0, <2>1, <2>2, Climb
<1> QED
  BY <1>0, <1>2, <1>4

\* === charges node by node, whatever it finds.
LEMMA FoldBigeq ==
    ASSUME NEW left, IsElement(left), Held("===", <<>>, left), NEW right, IsElement(right)
    PROVE  FoldsTo("===", op_bigeq(left, right))
<1>1. IsElement(Nil) /\ Held("===", <<>>, Nil)
  BY Interned, ElementAtom, HeldAtom
<1>2. CASE IsFunc(right)
  BY <1>2, FailsFolds DEF op_bigeq, COMPARE_ARG
<1>3. CASE ~IsFunc(right) /\ IsNil(left)
  <2>1. op_bigeq(left, right) = Borrows(64, Nil)
    BY <1>3 DEF op_bigeq, COMPARE_ARG
  <2> QED
    BY <1>1, <2>1, BorrowsFolds
<1>4. CASE ~IsFunc(right) /\ ~IsNil(left) /\ IsAtom(left)
  <2>1. op_bigeq(left, right) = Path(64, 1, Cons(right, left))
    BY <1>4 DEF op_bigeq, COMPARE_ARG
  <2>2. IsElement(Cons(right, left)) /\ Held("===", <<>>, Cons(right, left))
    BY <1>4, ElementPair, HeldPair
  <2> QED
    BY <2>1, <2>2, PathFolds
<1>5. CASE ~IsFunc(right) /\ ~IsNil(left) /\ ~IsAtom(left)
  <2>1. IsCons(left)
    BY <1>5 DEF Held
  <2>2. IsElement(left.val1)
    BY <2>1, ElementKinds
  <2>3. PICK S : ClosedSet(S) /\ left.val1 \in S /\ right \in S
    BY <2>2, TwoElements
  <2> DEFINE s == [todo |-> <<<<left.val1, right>>>>, cost |-> COMPARE_ARG, verdict |-> "same"]
             w == WalkNodes(CompareNodes, s)
  <2>4. s \in Comparisons(S)
    <3>1. <<<<left.val1, right>>>> \in Seq(S \X S)
      BY <2>3
    <3> QED
      BY <3>1 DEF Comparisons, COMPARE_ARG
  <2>5. w.cost \in Nat /\ w.verdict \in {"same", "different", Mixed}
    <3>1. w \in Comparisons(S)
      BY <2>3, <2>4, CompareWalk
    <3> HIDE DEF w
    <3> QED
      BY <3>1 DEF Comparisons
  <2>6. op_bigeq(left, right) = CASE w.verdict = "same"      -> Borrows(w.cost, left)
               [] w.verdict = "different" -> Borrows(w.cost, Nil)
               [] w.verdict = Mixed       -> Fails(w.cost, Mixed)
    BY <1>5 DEF op_bigeq
  <2>7. FoldsTo("===", Borrows(w.cost, left)) /\ FoldsTo("===", Borrows(w.cost, Nil))
    BY <1>1, <2>5, BorrowsFolds
  <2>8. FoldsTo("===", Fails(w.cost, Mixed))
    BY <2>5, FailsFolds
  <2> HIDE DEF w
  <2>9. "same" # "different" /\ "same" # Mixed /\ "different" # Mixed
    BY DEF Mixed
  <2> QED
    BY <2>5, <2>6, <2>7, <2>8, <2>9
<1> QED
  BY <1>2, <1>3, <1>4, <1>5

-----------------------------------------------------------------------------
(***************************************************************************)
(* What the operators deliver at the end.                                  *)
(***************************************************************************)
LEMMA ScanPrice ==
    ASSUME NEW w \in Nat
    PROVE  atom_scan(w) \in Nat
BY DEF atom_scan

\* An element as the result.
LEMMA ElementEnds ==
    ASSUME NEW cost \in Nat, NEW e, IsElement(e)
    PROVE  EndsWell(1, Borrows(cost, e))
BY BorrowsEnds DEF Deliverable

\* The arguments an operator of fixed arity has collected.
LEMMA Arguments ==
    ASSUME NEW op \in FixNames \ {"x"}, NEW st, IsElement(st), FixHeld(op, st)
    PROVE  /\ Collected(st) \in 0..3 /\ Len(FixArgs(st)) = Collected(st)
           /\ \A k \in 1..Collected(st) : IsElement(FixArgs(st)[k])
<1> DEFINE n == Collected(st)
           l == st.val1
<1>1. n \in 0..3 /\ (n # 0 => IsElement(l) /\ Links(l, n))
  <2>1. CASE IsNil(st)
    BY <2>1 DEF Collected
  <2>2. CASE ~IsNil(st)
    <3>1. IsCons(st) /\ n \in 0..MaxArgs[op] /\ Links(l, n)
      BY <2>2 DEF FixHeld, Collected
    <3>2. MaxArgs[op] \in 1..3
      BY FixTable
    <3> QED
      BY <3>1, <3>2, ElementKinds
  <2> QED
    BY <2>1, <2>2
<1>2. FixArgs(st) = CASE n = 0 -> <<>>
          [] n = 1 -> <<l.val1>>
          [] n = 2 -> <<l.val2.val1, l.val1>>
          [] n = 3 -> <<l.val2.val2.val1, l.val2.val1, l.val1>>
  BY DEF FixArgs
<1> HIDE DEF n, l
<1>3. CASE n = 0
  BY <1>2, <1>3 DEF n
<1>4. CASE n = 1
  <2>1. IsElement(l.val1)
    BY <1>1, <1>4, ElementKinds DEF Links
  <2>2. FixArgs(st) = <<l.val1>>
    BY <1>2, <1>4
  <2> QED
    BY <1>4, <2>1, <2>2 DEF n
<1>5. CASE n = 2
  <2>1. IsCons(l) /\ IsCons(l.val2)
    BY <1>1, <1>5 DEF Links
  <2>2. IsElement(l.val1) /\ IsElement(l.val2)
    BY <1>1, <1>5, <2>1, ElementKinds
  <2>3. IsElement(l.val2.val1)
    BY <2>1, <2>2, ElementKinds
  <2>4. FixArgs(st) = <<l.val2.val1, l.val1>>
    BY <1>2, <1>5
  <2> QED
    BY <1>5, <2>2, <2>3, <2>4 DEF n
<1>6. CASE n = 3
  <2>1. IsCons(l) /\ IsCons(l.val2) /\ IsCons(l.val2.val2)
    BY <1>1, <1>6 DEF Links
  <2>2. IsElement(l.val1) /\ IsElement(l.val2)
    BY <1>1, <1>6, <2>1, ElementKinds
  <2>3. IsElement(l.val2.val1) /\ IsElement(l.val2.val2)
    BY <2>1, <2>2, ElementKinds
  <2>4. IsElement(l.val2.val2.val1)
    BY <2>1, <2>3, ElementKinds
  <2>5. FixArgs(st) = <<l.val2.val2.val1, l.val2.val1, l.val1>>
    BY <1>2, <1>6
  <2> QED
    BY <1>6, <2>2, <2>3, <2>4, <2>5 DEF n
<1> QED
  BY <1>1, <1>3, <1>4, <1>5, <1>6

\* Choosing among elements, and taking them apart.
LEMMA ControlEnds ==
    ASSUME NEW a, Len(a) \in 1..3, \A k \in 1..Len(a) : IsElement(a[k])
    PROVE  EndsWell(1, op_i(a)) /\ EndsWell(1, op_h(a)) /\ EndsWell(1, op_t(a)) /\ EndsWell(1, op_l(a))
<1>0. IsElement(Nil) /\ IsElement(One) /\ CONTROL_BASE \in Nat
  BY Interned, ElementAtom DEF CONTROL_BASE
<1>1. IsElement(a[1]) /\ (Len(a) = 3 => IsElement(a[3])) /\ (Len(a) > 1 => IsElement(a[2]))
  OBVIOUS
<1>2. \A e : IsElement(e) => EndsWell(1, Borrows(CONTROL_BASE, e))
  BY <1>0, ElementEnds
<1>3. \A msg : EndsWell(1, Fails(CONTROL_BASE, msg))
  BY <1>0, FailsEnds
<1>4. EndsWell(1, op_i(a))
  <2> DEFINE chosen == CASE IsNil(a[1])  /\ Len(a) = 3 -> a[3]
             [] IsNil(a[1])  /\ Len(a) < 3 -> a[1]
             [] ~IsNil(a[1]) /\ Len(a) > 1 -> a[2]
             [] ~IsNil(a[1]) /\ Len(a) = 1 -> One
  <2>1. IsElement(chosen)
    <3>1. CASE IsNil(a[1]) /\ Len(a) = 3
      <4>1. chosen = a[3]
        BY <3>1
      <4> QED
        BY <1>1, <3>1, <4>1
    <3>2. CASE IsNil(a[1]) /\ Len(a) < 3
      <4>1. chosen = a[1]
        BY <3>2
      <4> QED
        BY <1>1, <4>1
    <3>3. CASE ~IsNil(a[1]) /\ Len(a) > 1
      <4>1. chosen = a[2]
        BY <3>3
      <4> QED
        BY <1>1, <3>3, <4>1
    <3>4. CASE ~IsNil(a[1]) /\ Len(a) = 1
      <4>1. chosen = One
        BY <3>4
      <4> QED
        BY <1>0, <4>1
    <3> HIDE DEF chosen
    <3> QED
      BY <3>1, <3>2, <3>3, <3>4
  <2>2. op_i(a) = IF IsFunc(a[1]) THEN Fails(CONTROL_BASE, "i: condition is a function object")
                  ELSE Borrows(CONTROL_BASE, chosen)
    BY DEF op_i
  <2> HIDE DEF chosen
  <2> QED
    BY <1>2, <1>3, <2>1, <2>2
<1>5. IsCons(a[1]) => IsElement(a[1].val1) /\ IsElement(a[1].val2)
  BY <1>1, ElementKinds
<1>6. EndsWell(1, op_h(a)) /\ EndsWell(1, op_t(a)) /\ EndsWell(1, op_l(a))
  BY <1>0, <1>2, <1>3, <1>5 DEF op_h, op_t, op_l
<1> QED
  BY <1>4, <1>6

\* The remainder of integers.
LEMMA ModEnds ==
    ASSUME NEW a, IsElement(a[1]), IsElement(a[2])
    PROVE  EndsWell(1, op_mod(a))
<1> DEFINE num == a[1]
           den == a[2]
           work == MOD_BASE + MOD_PER_BYTE * (num.width + den.width)
                     + MULDIV_LIMB_PER_BYTE * Wider(num.width, den.width)
                     + (num.width * den.width) \div MUL_PRODUCT_DIV
           enc == IntAtom(Remainder(AsInt(num), AsInt(den)))
<1>1. op_mod(a) = IF ~IsAtom(num) \/ ~IsAtom(den) THEN Fails(MOD_BASE, "mod requires atoms")
                  ELSE IF AsInt(den) = 0 THEN Fails(work, "mod: attempted div by 0")
                  ELSE Builds(work + MALLOC_PER_BYTE * enc.width, enc)
  BY DEF op_mod
<1> HIDE DEF work, enc
<1>2. CASE ~IsAtom(num) \/ ~IsAtom(den)
  <2>1. MOD_BASE \in Nat
    BY DEF MOD_BASE, ELEMENT_ALLOC
  <2>2. EndsWell(1, Fails(MOD_BASE, "mod requires atoms"))
    BY <2>1, FailsEnds
  <2> QED
    BY <1>1, <1>2, <2>2
<1>3. CASE IsAtom(num) /\ IsAtom(den)
  <2>1. IsWhole(num) /\ IsWhole(den)
    BY <1>3, ElementKinds
  <2>2. num.width \in Nat /\ den.width \in Nat /\ AsInt(num) \in Int /\ AsInt(den) \in Int
    BY <2>1, WholeAtom, IntegerOf
  <2>3. Wider(num.width, den.width) \in Nat /\ (num.width * den.width) \div 8 \in Nat
    BY <2>2, Prices
  <2>4. work \in Nat
    <3>1. MOD_PER_BYTE * (num.width + den.width) \in Nat
      BY <2>2 DEF MOD_PER_BYTE
    <3>2. MULDIV_LIMB_PER_BYTE * Wider(num.width, den.width) \in Nat
      BY <2>3 DEF MULDIV_LIMB_PER_BYTE
    <3>3. MOD_BASE \in Nat /\ MUL_PRODUCT_DIV = 8
      BY DEF MOD_BASE, ELEMENT_ALLOC, MUL_PRODUCT_DIV
    <3> HIDE DEF num, den
    <3> QED
      BY <2>3, <3>1, <3>2, <3>3 DEF work
  <2>5. AsInt(den) # 0 => Remainder(AsInt(num), AsInt(den)) \in Int
    <3> DEFINE n == AsInt(num)
               d == AsInt(den)
    <3>1. n \in Int /\ d \in Int
      BY <2>2
    <3> HIDE DEF n, d
    <3>2. d > 0 => n % d \in Int
      BY <3>1
    <3>3. d < 0 => -((-n) % (-d)) \in Int
      BY <3>1
    <3>4. d # 0 => Remainder(n, d) \in Int
      BY <3>1, <3>2, <3>3 DEF Remainder
    <3> QED
      BY <3>4 DEF n, d
  <2>6. AsInt(den) # 0 => IsWhole(enc) /\ work + MALLOC_PER_BYTE * enc.width \in Nat
    <3> SUFFICES ASSUME AsInt(den) # 0 PROVE IsWhole(enc) /\ work + MALLOC_PER_BYTE * enc.width \in Nat
      OBVIOUS
    <3>1. IsWhole(enc) /\ enc.width \in 0..5
      BY <2>5, IntegerAtom DEF enc
    <3> QED
      BY <2>4, <3>1 DEF MALLOC_PER_BYTE
  <2>7. EndsWell(1, Fails(work, "mod: attempted div by 0"))
    BY <2>4, FailsEnds
  <2>8. AsInt(den) # 0 => EndsWell(1, Builds(work + MALLOC_PER_BYTE * enc.width, enc))
    BY <2>6, BuildsEnds
  <2> QED
    BY <1>1, <1>3, <2>7, <2>8
<1> QED
  BY <1>2, <1>3

\* A shift emits whole bytes.
LEMMA ShiftEnds ==
    ASSUME NEW a, IsElement(a[1]), IsElement(a[2])
    PROVE  EndsWell(1, op_shift(a))
<1> DEFINE inp == a[1]
           delta == AsInt(a[2])
           parsed == SHIFT_BASE + atom_scan(a[2].width)
           bound == (IF delta > 0 THEN delta \div 8 ELSE 0) + inp.width + 1
           gone == (7 - delta) \div 8
           emitted == IF delta > 0 THEN bound ELSE 1 + Wider(inp.width - gone, 0)
           out == ShiftedBytes(inp.bytes, delta, emitted)
<1>1. op_shift(a) = IF ~IsAtom(inp) \/ ~IsAtom(a[2])
                    THEN Fails(SHIFT_BASE, "shift: expects atomic arguments")
                    ELSE IF delta = 0 THEN Borrows(parsed, inp)
                    ELSE Builds(parsed + CopyRate * bound, out)
  BY DEF op_shift
<1>2. CASE ~IsAtom(inp) \/ ~IsAtom(a[2])
  <2>1. SHIFT_BASE \in Nat
    BY DEF SHIFT_BASE, ELEMENT_ALLOC
  <2>2. EndsWell(1, Fails(SHIFT_BASE, "shift: expects atomic arguments"))
    BY <2>1, FailsEnds
  <2> HIDE DEF inp, delta, parsed, bound, out
  <2> QED
    BY <1>1, <1>2, <2>2
<1>3. CASE IsAtom(inp) /\ IsAtom(a[2])
  <2>1. IsWhole(inp) /\ IsWhole(a[2])
    BY <1>3, ElementKinds
  <2>2. inp.width \in Nat /\ a[2].width \in Nat /\ delta \in Int /\ inp.bytes \in Seq(Nat)
    BY <2>1, WholeAtom, IntegerOf
  <2>3. parsed \in Nat
    <3>1. atom_scan(a[2].width) \in Nat
      BY <2>2, ScanPrice
    <3> QED
      BY <3>1 DEF SHIFT_BASE, ELEMENT_ALLOC
  <2>4. emitted \in Nat /\ bound \in Nat
    <3> HIDE DEF inp, delta
    <3>1. gone \in Int /\ inp.width - gone \in Int
      BY <2>2
    <3>2. bound \in Nat
      BY <2>2
    <3> HIDE DEF bound, gone
    <3>3. Wider(inp.width - gone, 0) \in Nat
      BY <3>1 DEF Wider
    <3> QED
      BY <3>2, <3>3
  <2>5. parsed + CopyRate * bound \in Nat
    <3> HIDE DEF parsed, bound
    <3> QED
      BY <2>3, <2>4 DEF CopyRate, COPY_PER_BYTE, MALLOC_PER_BYTE
  <2> HIDE DEF inp, delta, parsed, bound, gone, emitted
  <2>6. IsWhole(out)
    <3> DEFINE places == 2^(delta % 8)
               at(k) == IF k \in 1..Len(inp.bytes) THEN inp.bytes[k] * places ELSE 0
               from == delta \div 8
               b == [k \in 1..emitted |-> (at(k - from) % 256) + (at(k - from - 1) \div 256)]
    <3>1. places \in Nat \ {0}
      <4>1. delta % 8 \in 0..7
        BY <2>2, SMTT(30)
      <4> QED
        BY <4>1, BitsAndPlaces
    <3> HIDE DEF places
    <3>2. \A k : at(k) \in Nat
      <4> TAKE k
      <4>1. k \in 1..Len(inp.bytes) => inp.bytes[k] \in Nat
        BY <2>2
      <4> QED
        BY <3>1, <4>1
    <3> HIDE DEF at
    <3>3. \A k : (at(k - from) % 256) + (at(k - from - 1) \div 256) \in Nat
      <4> TAKE k
      <4> DEFINE x == at(k - from)
                 y == at(k - from - 1)
      <4>1. x \in Nat /\ y \in Nat
        BY <3>2
      <4> HIDE DEF x, y
      <4>2. (x % 256) + (y \div 256) \in Nat
        BY <4>1
      <4> QED
        BY <4>2 DEF x, y
    <3>4. b \in [1..emitted -> Nat]
      BY <3>3
    <3>5. b \in Seq(Nat)
      BY <2>4, <3>4
    <3>6. out = FromBytes(b)
      BY DEF ShiftedBytes, at, places
    <3> QED
      BY <3>5, <3>6, WholeBytes
  <2>7. EndsWell(1, Borrows(parsed, inp))
    BY <2>3, ElementEnds DEF inp
  <2> HIDE DEF out
  <2>8. EndsWell(1, Builds(parsed + CopyRate * bound, out))
    BY <2>5, <2>6, BuildsEnds
  <2> QED
    BY <1>1, <1>3, <2>7, <2>8 DEF inp
<1> QED
  BY <1>2, <1>3

\* A substring lies within its string.
LEMMA SubstrEnds ==
    ASSUME NEW a, Len(a) \in 0..3, \A k \in 1..Len(a) : IsElement(a[k])
    PROVE  EndsWell(1, op_substr(a))
<1> DEFINE el == a[1]
           start == AsInt(a[2])
           end == IF Len(a) = 3 THEN AsInt(a[3]) ELSE el.width
           begun == SUBSTR_BASE + atom_scan(a[2].width)
           read == begun + IF Len(a) = 3 THEN atom_scan(a[3].width) ELSE 0
           low == FromEnd(start, el.width)
           high == IF end < 0 THEN FromEnd(end, el.width) ELSE IF end < el.width THEN end ELSE el.width
           part == SubSeq(el.bytes, low + 1, high)
<1>1. op_substr(a) = IF Len(a) = 0 THEN Borrows(SUBSTR_BASE, Nil)
        ELSE IF ~IsAtom(el) THEN Fails(SUBSTR_BASE, "substr: cannot take substr of non-atom")
        ELSE IF Len(a) = 1 THEN Borrows(SUBSTR_BASE, el)
        ELSE IF ~IsAtom(a[2]) THEN Fails(SUBSTR_BASE, "substr: start must be atom")
        ELSE IF Len(a) = 3 /\ ~IsAtom(a[3]) THEN Fails(begun, "substr: end must be atom")
        ELSE IF start = 0 /\ end >= el.width THEN Borrows(read, el)
        ELSE IF start > el.width \/ low >= high THEN Borrows(read, Nil)
        ELSE Builds(read + CopyRate * (high - low), FromBytes(part))
  BY DEF op_substr
<1>2. SUBSTR_BASE \in Nat /\ IsElement(Nil)
  BY Interned, ElementAtom DEF SUBSTR_BASE, ELEMENT_ALLOC
<1>3. (Len(a) >= 1 => IsElement(el)) /\ (Len(a) >= 2 => IsElement(a[2])) /\ (Len(a) = 3 => IsElement(a[3]))
  OBVIOUS
<1>4. CASE Len(a) = 0 \/ ~IsAtom(el) \/ Len(a) = 1 \/ ~IsAtom(a[2])
  <2>1. EndsWell(1, Borrows(SUBSTR_BASE, Nil)) /\ (Len(a) >= 1 => EndsWell(1, Borrows(SUBSTR_BASE, el)))
    BY <1>2, <1>3, ElementEnds
  <2>2. \A msg : EndsWell(1, Fails(SUBSTR_BASE, msg))
    BY <1>2, FailsEnds
  <2> HIDE DEF el, start, end, begun, read, low, high, part
  <2>3. CASE Len(a) = 0
    BY <1>1, <2>1, <2>3
  <2>4. CASE Len(a) # 0 /\ ~IsAtom(el)
    BY <1>1, <2>2, <2>4
  <2>5. CASE IsAtom(el) /\ Len(a) = 1
    <3>1. op_substr(a) = Borrows(SUBSTR_BASE, el)
      BY <1>1, <2>5
    <3> QED
      BY <2>1, <2>5, <3>1
  <2>6. CASE Len(a) # 0 /\ IsAtom(el) /\ Len(a) # 1 /\ ~IsAtom(a[2])
    BY <1>1, <2>2, <2>6
  <2> QED
    BY <1>4, <2>3, <2>4, <2>5, <2>6
<1>5. CASE Len(a) # 0 /\ IsAtom(el) /\ Len(a) # 1 /\ IsAtom(a[2])
  <2>1. Len(a) >= 2 /\ Len(a) >= 1 /\ IsWhole(el) /\ IsWhole(a[2])
    BY <1>3, <1>5, ElementKinds
  <2>2. /\ el.width \in Nat /\ el.bytes \in Seq(Nat) /\ el.width = Len(el.bytes)
        /\ a[2].width \in Nat /\ start \in Int
    BY <2>1, WholeAtom, IntegerOf
  <2>3. begun \in Nat
    <3>1. atom_scan(a[2].width) \in Nat
      BY <2>2, ScanPrice
    <3> QED
      BY <1>2, <3>1
  <2>4. CASE Len(a) = 3 /\ ~IsAtom(a[3])
    <3>1. op_substr(a) = Fails(begun, "substr: end must be atom")
      BY <1>1, <1>5, <2>4
    <3> HIDE DEF begun
    <3> QED
      BY <2>3, <3>1, FailsEnds
  <2>5. CASE ~(Len(a) = 3 /\ ~IsAtom(a[3]))
    <3>1. Len(a) = 3 => a[3].width \in Nat /\ AsInt(a[3]) \in Int
      BY <1>3, <2>5, ElementKinds, WholeAtom, IntegerOf
    <3>2. end \in Int
      BY <2>2, <3>1
    <3>3. Len(a) = 3 => atom_scan(a[3].width) \in Nat
      BY <3>1, ScanPrice
    <3>4. read \in Nat
      <4> HIDE DEF begun
      <4> QED
        BY <2>3, <3>3
    <3> DEFINE w == el.width
    <3> HIDE DEF el, start, end, begun, read
    <3>5. low \in Nat /\ high \in Nat /\ high <= w
      BY <2>2, <3>2 DEF FromEnd, Wider
    <3> HIDE DEF low, high
    <3>6. low < high => part \in Seq(Nat) /\ read + CopyRate * (high - low) \in Nat
      <4> SUFFICES ASSUME low < high PROVE part \in Seq(Nat) /\ read + CopyRate * (high - low) \in Nat
        OBVIOUS
      <4>1. low + 1 \in 1..Len(el.bytes) /\ high \in 0..Len(el.bytes)
        BY <2>2, <3>5
      <4>2. part \in Seq(Nat)
        BY <2>2, <4>1, SMTT(30)
      <4>3. read + 11 * (high - low) \in Nat
        BY <3>4, <3>5
      <4> QED
        BY <4>2, <4>3 DEF CopyRate, COPY_PER_BYTE, MALLOC_PER_BYTE
    <3>7. EndsWell(1, Borrows(read, el)) /\ EndsWell(1, Borrows(read, Nil))
      BY <1>2, <1>3, <2>1, <3>4, ElementEnds
    <3>8. low < high => EndsWell(1, Builds(read + CopyRate * (high - low), FromBytes(part)))
      <4> HIDE DEF part
      <4> QED
        BY <3>6, WholeBytes, BuildsEnds
    <3>9. low < high \/ low >= high
      BY <3>5
    <3> QED
      BY <1>1, <1>5, <2>5, <3>7, <3>8, <3>9 DEF el
  <2> QED
    BY <2>4, <2>5
<1> QED
  BY <1>4, <1>5

\* The signature checks build nothing but an error.
LEMMA SignatureEnds ==
    ASSUME NEW a, \A k \in 1..3 : IsElement(a[k])
    PROVE  EndsWell(1, op_bip340_verify(a)) /\ EndsWell(1, op_ecdsa_verify(a))
<1>1. IsElement(a[3]) /\ IsElement(One)
  BY Interned, ElementAtom
<1>2. \A c \in {0, 4096, 28000, 32096} : /\ EndsWell(1, Borrows(c, a[3])) /\ EndsWell(1, Borrows(c, One))
                                         /\ \A msg : EndsWell(1, Fails(c, msg))
  BY <1>1, ElementEnds, FailsEnds
<1>3. SIG_VERIFY = 28000 /\ ECDSA_PARSE = 4096 /\ ECDSA_PARSE + SIG_VERIFY = 32096
  BY DEF SIG_VERIFY, ECDSA_PARSE
<1>4. EndsWell(1, op_bip340_verify(a))
  <2>1. \E c \in {0, SIG_VERIFY} : \/ \E msg : op_bip340_verify(a) = Fails(c, msg)
                                  \/ op_bip340_verify(a) \in {Borrows(c, a[3]), Borrows(c, One)}
    BY Zenon DEF op_bip340_verify
  <2> QED
    BY <1>2, <1>3, <2>1
<1>5. EndsWell(1, op_ecdsa_verify(a))
  <2>1. \E c \in {0, ECDSA_PARSE, ECDSA_PARSE + SIG_VERIFY} :
            \/ \E msg : op_ecdsa_verify(a) = Fails(c, msg)
            \/ op_ecdsa_verify(a) \in {Borrows(c, a[3]), Borrows(c, One)}
    BY Zenon DEF op_ecdsa_verify
  <2> QED
    BY <1>2, <1>3, <2>1
<1> QED
  BY <1>4, <1>5

\* The message that is to be signed, an atom that holds its hash.
LEMMA MessageEnds ==
    ASSUME NEW view, Answers(view), NEW a
    PROVE  EndsWell(1, op_bip342_txmsg(view, a))
<1> DEFINE h    == IF a = <<>> THEN 0 ELSE a[1].bytes[1]
           cost == TXMSG_BASE + MALLOC_PER_BYTE * 32 + TXMSG_PER_BYTE * view.size
           x    == op_bip342_txmsg(view, a)
<1>1. cost \in Nat
  <2>1. view.size \in Nat
    BY DEF Answers
  <2>2. cost = 3904 + 320 + 8 * view.size
    BY <2>1 DEF TXMSG_BASE, MALLOC_PER_BYTE, TXMSG_PER_BYTE, ELEMENT_ALLOC
  <2> HIDE DEF cost
  <2> QED
    BY <2>1, <2>2
<1>2. \/ \E msg : x = Fails(0, msg)
      \/ x = Borrows(cost, Raises)
      \/ h \in SighashTypes /\ view.message[h] # Raises /\ x = Builds(cost, view.message[h])
  BY Zenon DEF op_bip342_txmsg
<1>3. h \in SighashTypes /\ view.message[h] # Raises => IsWhole(view.message[h])
  BY DEF Answers, Answered, Bytes, IsWhole
<1>4. Deliverable(Raises)
  BY ErrorIsErr DEF Raises
<1> HIDE DEF h, cost, x
<1> QED
  BY <1>1, <1>2, <1>3, <1>4, FailsEnds, BorrowsEnds, BuildsEnds DEF x

-----------------------------------------------------------------------------
(***************************************************************************)
(* Paths that pay leg by leg: legs that build at most so much each and     *)
(* leave at least n of their charges.                                      *)
(***************************************************************************)
Covers(most, legs, n) == Thin(most, legs) /\ \E p : Runs(legs, p) /\ p[Len(legs)] >= n

\* The numbers of a run.
LEMMA RunsOf ==
    ASSUME NEW legs, NEW p, Runs(legs, p)
    PROVE  /\ legs \in Seq(LegSet) /\ Len(legs) \in Nat /\ p \in [0..Len(legs) -> Nat] /\ p[0] = 0
           /\ \A k \in 0..Len(legs) : p[k] \in Nat
           /\ \A k \in 1..Len(legs) : /\ legs[k].cost \in Nat /\ legs[k].built \in Nat
                                     /\ p[k] = p[k-1] + legs[k].cost - 12 * legs[k].built
           /\ legs # <<>> => Len(legs) # 0
<1>1. /\ legs \in Seq(LegSet) /\ p \in [0..Len(legs) -> Nat] /\ p[0] = 0
      /\ \A k \in 1..Len(legs) : p[k] = p[k-1] + legs[k].cost - 12 * legs[k].built
  BY DEF Runs
<1>2. \A k \in 1..Len(legs) : legs[k].cost \in Nat /\ legs[k].built \in Nat
  <2> TAKE k \in 1..Len(legs)
  <2>1. legs[k] \in LegSet
    BY <1>1
  <2> QED
    BY <2>1 DEF LegSet
<1>3. Len(legs) \in Nat /\ (legs # <<>> => Len(legs) # 0)
  BY <1>1
<1> QED
  BY <1>1, <1>2, <1>3

\* No legs cover nothing.
LEMMA CoversNone ==
    ASSUME NEW most
    PROVE  Covers(most, <<>>, 0)
BY NoLegs DEF Covers, Thin

\* What covers more covers less.
LEMMA CoversLess ==
    ASSUME NEW most, NEW legs, NEW n \in Int, NEW m \in Int, n <= m, Covers(most, legs, m)
    PROVE  Covers(most, legs, n)
<1>0. Thin(most, legs)
  BY DEF Covers
<1>1. PICK p : Runs(legs, p) /\ p[Len(legs)] >= m
  BY DEF Covers
<1>2. p[Len(legs)] \in Int
  BY <1>1 DEF Runs
<1>3. p[Len(legs)] >= n
  BY <1>1, <1>2
<1> QED
  BY <1>0, <1>1, <1>3 DEF Covers

\* Legs that build no more than so much build no more than something larger.
LEMMA CoversWider ==
    ASSUME NEW few \in Int, NEW most \in Int, few <= most, NEW legs, NEW n, Covers(few, legs, n)
    PROVE  Covers(most, legs, n)
<1>1. PICK p : Runs(legs, p) /\ p[Len(legs)] >= n
  BY DEF Covers
<1>2. \A k \in 1..Len(legs) : legs[k].built \in Nat /\ legs[k].built <= few
  BY <1>1, RunsOf DEF Covers, Thin
<1>3. Thin(most, legs)
  BY <1>2 DEF Thin
<1> QED
  BY <1>1, <1>3 DEF Covers

\* One leg covers what it charges beyond half a STEP per construction.
LEMMA CoversOne ==
    ASSUME NEW most \in Int, NEW c \in Nat, NEW b \in Nat, b <= most,
           NEW n \in Nat, 12 * b + n <= c
    PROVE  Covers(most, <<Leg(c, b)>>, n)
<1> DEFINE legs == <<Leg(c, b)>>
           p == [k \in 0..1 |-> IF k = 0 THEN 0 ELSE c - 12 * b]
<1>1. legs \in Seq(LegSet) /\ Len(legs) = 1 /\ legs[1].cost = c /\ legs[1].built = b
  <2>1. Leg(c, b) \in LegSet /\ Leg(c, b).cost = c /\ Leg(c, b).built = b
    BY DEF Leg, LegSet
  <2> QED
    BY <2>1
<1>2. p[0] = 0 /\ p[1] = c - 12 * b /\ p \in [0..1 -> Nat]
  OBVIOUS
<1> HIDE DEF legs, p
<1>3. Runs(legs, p)
  BY <1>1, <1>2 DEF Runs
<1>4. p[Len(legs)] >= n
  BY <1>1, <1>2
<1>5. Thin(most, legs)
  BY <1>1 DEF Thin
<1> QED
  BY <1>3, <1>4, <1>5 DEF Covers, legs

\* Legs one after another cover what each of them does.
LEMMA CoversJoin ==
    ASSUME NEW most, NEW a, NEW b, NEW m \in Int, NEW n \in Int,
           Covers(most, a, m), Covers(most, b, n)
    PROVE  Covers(most, a \o b, m + n)
<1>1. PICK p : Runs(a, p) /\ p[Len(a)] >= m
  BY DEF Covers
<1>2. PICK q : Runs(b, q) /\ q[Len(b)] >= n
  BY DEF Covers
<1> DEFINE x == Len(a)
           y == Len(b)
           r == [k \in 0..x+y |-> IF k <= x THEN p[k] ELSE p[x] + q[k - x]]
           ab == a \o b
<1>3. /\ a \in Seq(LegSet) /\ x \in Nat /\ p \in [0..x -> Nat] /\ p[0] = 0
      /\ \A k \in 1..x : p[k] = p[k-1] + a[k].cost - 12 * a[k].built
      /\ b \in Seq(LegSet) /\ y \in Nat /\ q \in [0..y -> Nat] /\ q[0] = 0
      /\ \A k \in 1..y : q[k] = q[k-1] + b[k].cost - 12 * b[k].built
  BY <1>1, <1>2 DEF Runs
<1>10. \A k \in 1..y : b[k].cost \in Nat /\ b[k].built \in Nat
  BY <1>2, RunsOf
<1>4. /\ ab \in Seq(LegSet) /\ Len(ab) = x + y
      /\ \A k \in 1..x+y : ab[k] = IF k <= x THEN a[k] ELSE b[k - x]
  BY <1>3
<1> HIDE DEF ab, x, y
<1>5. r \in [0..x+y -> Nat] /\ r[0] = 0 /\ r[x + y] = p[x] + q[y]
  <2>1. \A k \in 0..x+y : (IF k <= x THEN p[k] ELSE p[x] + q[k - x]) \in Nat
    <3> TAKE k \in 0..x+y
    <3>1. CASE k <= x
      BY <1>3, <3>1
    <3>2. CASE ~(k <= x)
      <4>1. k - x \in 0..y
        BY <1>3, <3>2
      <4>2. p[x] \in Nat /\ q[k - x] \in Nat
        BY <1>3, <4>1
      <4> QED
        BY <3>2, <4>2
    <3> QED
      BY <3>1, <3>2
  <2>2. r[x + y] = p[x] + q[y]
    <3>1. CASE y = 0
      <4>1. p[x] \in Nat
        BY <1>3
      <4> QED
        BY <1>3, <3>1, <4>1
    <3>2. CASE y # 0
      <4>1. ~(x + y <= x) /\ (x + y) - x = y /\ x + y \in 0..x+y
        BY <1>3, <3>2
      <4> QED
        BY <4>1
    <3> QED
      BY <3>1, <3>2
  <2> QED
    BY <1>3, <2>1, <2>2
<1>6. \A k \in 1..x+y : r[k] = r[k-1] + ab[k].cost - 12 * ab[k].built
  <2> TAKE k \in 1..x+y
  <2>1. CASE k <= x
    <3>1. k \in 1..x /\ k \in 0..x+y /\ k - 1 \in 0..x+y /\ k - 1 <= x
      BY <1>3, <2>1
    <3>2. r[k] = p[k] /\ r[k-1] = p[k-1]
      BY <2>1, <3>1
    <3> QED
      BY <1>3, <1>4, <2>1, <3>1, <3>2
  <2>2. CASE ~(k <= x)
    <3>1. k - x \in 1..y /\ k \in 0..x+y /\ k - 1 \in 0..x+y /\ (k - x) - 1 = (k - 1) - x
      BY <1>3, <2>2
    <3>2. r[k] = p[x] + q[k - x] /\ ab[k] = b[k - x]
      BY <1>4, <2>2, <3>1
    <3>3. r[k-1] = p[x] + q[(k - x) - 1]
      <4>1. CASE k - 1 <= x
        <5>1. k - 1 = x /\ (k - x) - 1 = 0
          BY <1>3, <2>2, <4>1
        <5>2. p[x] \in Nat
          BY <1>3
        <5> QED
          BY <1>3, <3>1, <4>1, <5>1, <5>2
      <4>2. CASE ~(k - 1 <= x)
        BY <3>1, <4>2
      <4> QED
        BY <4>1, <4>2
    <3>4. q[k - x] = q[(k - x) - 1] + b[k - x].cost - 12 * b[k - x].built
      BY <1>3, <3>1
    <3>5. p[x] \in Nat /\ q[(k - x) - 1] \in Nat
      BY <1>3, <3>1
    <3>6. b[k - x].cost \in Nat /\ b[k - x].built \in Nat
      BY <1>10, <3>1
    <3> DEFINE rk == r[k]
               rj == r[k-1]
               ck == b[k-x].cost
               bk == b[k-x].built
               qk == q[k-x]
               qj == q[(k-x)-1]
               px == p[x]
    <3>7. rk = px + qk /\ rj = px + qj /\ qk = qj + ck - 12 * bk
      BY <3>2, <3>3, <3>4
    <3>8. px \in Nat /\ qj \in Nat /\ ck \in Nat /\ bk \in Nat
      BY <3>5, <3>6
    <3> HIDE DEF r, rk, rj, ck, bk, qk, qj, px
    <3>9. rk = rj + ck - 12 * bk
      BY <3>7, <3>8
    <3> QED
      BY <3>2, <3>9 DEF rk, rj, ck, bk
  <2> QED
    BY <2>1, <2>2
<1> HIDE DEF r
<1>7. Runs(ab, r)
  BY <1>4, <1>5, <1>6 DEF Runs
<1>8. r[Len(ab)] >= m + n
  <2>1. p[x] >= m /\ q[y] >= n
    BY <1>1, <1>2 DEF x, y
  <2>2. p[x] \in Nat /\ q[y] \in Nat
    BY <1>3
  <2>3. p[x] + q[y] >= m + n
    BY <2>1, <2>2
  <2> QED
    BY <1>4, <1>5, <2>3
<1>9. Thin(most, ab)
  <2>1. /\ \A k \in 1..x : a[k].built <= most
        /\ \A k \in 1..y : b[k].built <= most
    BY DEF Covers, Thin, x, y
  <2>2. \A k \in 1..x+y : ~(k <= x) => k - x \in 1..y
    BY <1>3
  <2>3. \A k \in 1..x+y : k <= x => k \in 1..x
    BY <1>3
  <2> QED
    BY <1>4, <2>1, <2>2, <2>3 DEF Thin
<1> QED
  BY <1>7, <1>8, <1>9 DEF Covers, ab

\* The last leg can build more, out of what is left.
LEMMA CoversBuilding ==
    ASSUME NEW most \in Int, NEW legs, legs # <<>>, NEW n \in Nat, NEW b \in Nat,
           Covers(most, legs, n + 12 * b)
    PROVE  Covers(most + b, Building(legs, b), n) /\ Building(legs, b) # <<>>
<1>1. PICK p : Runs(legs, p) /\ p[Len(legs)] >= n + 12 * b
  BY DEF Covers
<1> DEFINE x == Len(legs)
           more == Building(legs, b)
           q == [p EXCEPT ![x] = @ - 12 * b]
<1>2. /\ legs \in Seq(LegSet) /\ x \in Nat \ {0} /\ p \in [0..x -> Nat] /\ p[0] = 0
      /\ \A k \in 1..x : p[k] = p[k-1] + legs[k].cost - 12 * legs[k].built
  BY <1>1, RunsOf
<1>3. legs[x] \in LegSet /\ legs[x].built \in Nat /\ legs[x].cost \in Nat
  <2>1. legs[x] \in LegSet
    BY <1>2
  <2> QED
    BY <2>1 DEF LegSet
<1>4. /\ more \in Seq(LegSet) /\ Len(more) = x
      /\ \A k \in 1..x : k # x => more[k] = legs[k]
      /\ more[x].cost = legs[x].cost /\ more[x].built = legs[x].built + b
  <2> DEFINE new == [legs[x] EXCEPT !.built = @ + b]
  <2>1. new \in LegSet /\ new.cost = legs[x].cost /\ new.built = legs[x].built + b
    BY <1>3, SMTT(30) DEF LegSet
  <2>2. more = [legs EXCEPT ![x] = new]
    BY <1>2 DEF Building
  <2> HIDE DEF new, more
  <2>3. more \in Seq(LegSet) /\ Len(more) = x /\ more[x] = new
    BY <1>2, <2>1, <2>2
  <2>4. \A k \in 1..x : k # x => more[k] = legs[k]
    BY <1>2, <2>2
  <2> QED
    BY <2>1, <2>3, <2>4
<1> HIDE DEF more
<1>5. p[x] \in Nat /\ p[x] >= n + 12 * b
  BY <1>1, <1>2
<1>6. q \in [0..x -> Nat] /\ q[0] = 0 /\ q[x] = p[x] - 12 * b /\ \A k \in 0..x : k # x => q[k] = p[k]
  <2>1. p[x] - 12 * b \in Nat
    BY <1>5
  <2> HIDE DEF x
  <2> QED
    BY <1>2, <2>1
<1> HIDE DEF x, q
<1>7. \A k \in 1..x : q[k] = q[k-1] + more[k].cost - 12 * more[k].built
  <2> TAKE k \in 1..x
  <2>1. k - 1 \in 0..x /\ k - 1 # x /\ k \in 0..x
    BY <1>2
  <2>2. q[k-1] = p[k-1] /\ p[k-1] \in Nat
    BY <1>2, <1>6, <2>1
  <2>3. p[k] = p[k-1] + legs[k].cost - 12 * legs[k].built
    BY <1>2
  <2>4. CASE k = x
    <3>1. q[k] = p[k] - 12 * b /\ more[k].cost = legs[k].cost /\ more[k].built = legs[k].built + b
      BY <1>4, <1>6, <2>4
    <3>2. legs[k].built \in Nat /\ legs[k].cost \in Nat
      BY <1>3, <2>4
    <3> DEFINE cost == legs[k].cost
               built == legs[k].built
               before == p[k-1]
    <3>3. /\ q[k-1] = before /\ q[k] = (before + cost - 12 * built) - 12 * b
          /\ cost \in Nat /\ built \in Nat /\ before \in Nat
          /\ more[k].cost = cost /\ more[k].built = built + b
      BY <2>2, <2>3, <3>1, <3>2
    <3> HIDE DEF cost, built, before
    <3> QED
      BY <3>3
  <2>5. CASE k # x
    BY <1>4, <1>6, <2>1, <2>2, <2>3, <2>5
  <2> QED
    BY <2>4, <2>5
<1>8. Runs(more, q)
  BY <1>4, <1>6, <1>7 DEF Runs
<1>9. q[Len(more)] >= n
  BY <1>4, <1>5, <1>6
<1>10. more # <<>>
  BY <1>2, <1>4
<1>11. Thin(most + b, more)
  <2>1. \A k \in 1..x : legs[k].built \in Nat /\ legs[k].built <= most
    BY <1>1, RunsOf DEF Covers, Thin, x
  <2>2. \A k \in 1..x : more[k].built = IF k = x THEN legs[k].built + b ELSE legs[k].built
    BY <1>4
  <2>3. \A k \in 1..x : more[k].built <= most + b
    BY <2>1, <2>2
  <2> QED
    BY <1>4, <2>3 DEF Thin
<1> QED
  BY <1>8, <1>9, <1>10, <1>11 DEF Covers, more

\* All legs but the last.
LEMMA RunsFront ==
    ASSUME NEW legs, NEW p, Runs(legs, p), NEW n \in Nat, n <= Len(legs)
    PROVE  \E q : Runs(SubSeq(legs, 1, n), q) /\ q[Len(SubSeq(legs, 1, n))] = p[n]
<1> DEFINE front == SubSeq(legs, 1, n)
           q == [k \in 0..n |-> p[k]]
<1>1. /\ legs \in Seq(LegSet) /\ Len(legs) \in Nat /\ p[0] = 0
      /\ \A k \in 0..Len(legs) : p[k] \in Nat
      /\ \A k \in 1..Len(legs) : p[k] = p[k-1] + legs[k].cost - 12 * legs[k].built
  BY RunsOf
<1>2. front \in Seq(LegSet) /\ Len(front) = n /\ \A k \in 1..n : front[k] = legs[k]
  BY <1>1
<1> HIDE DEF front
<1>3. q \in [0..n -> Nat] /\ q[0] = 0 /\ q[n] = p[n]
  BY <1>1
<1>4. \A k \in 1..n : q[k] = q[k-1] + front[k].cost - 12 * front[k].built
  <2> TAKE k \in 1..n
  <2>1. k \in 1..Len(legs) /\ k - 1 \in 0..n /\ k \in 0..n
    BY <1>1
  <2>2. q[k] = p[k] /\ q[k-1] = p[k-1] /\ front[k] = legs[k]
    BY <1>2, <2>1
  <2> QED
    BY <1>1, <2>1, <2>2
<1> HIDE DEF q
<1>5. Runs(front, q)
  BY <1>2, <1>3, <1>4 DEF Runs
<1> QED
  BY <1>2, <1>3, <1>5 DEF front

\* Paid leg by leg, the last leg being the path's own.
LEMMA InTurnEnds ==
    ASSUME NEW most, NEW legs, legs # <<>>, Covers(most, legs, 0), NEW v, Deliverable(v)
    PROVE  EndsWell(most, InTurn(legs, v))
<1>1. PICK p : Runs(legs, p)
  BY DEF Covers
<1> DEFINE x == Len(legs)
           r == InTurn(legs, v)
<1>2. /\ x \in Nat \ {0} /\ p[x-1] \in Nat /\ p[x] \in Nat
      /\ legs[x].cost \in Nat /\ legs[x].built \in Nat
      /\ p[x] = p[x-1] + legs[x].cost - 12 * legs[x].built
  BY <1>1, RunsOf
<1>3. r.cost = legs[x].cost /\ r.built = legs[x].built /\ r.val = v /\ r.legs = SubSeq(legs, 1, x - 1)
  BY DEF InTurn, Path
<1>4. x - 1 \in Nat /\ x - 1 <= Len(legs)
  BY <1>2
<1>5. PICK q : Runs(SubSeq(legs, 1, x - 1), q) /\ q[Len(SubSeq(legs, 1, x - 1))] = p[x - 1]
  BY <1>1, <1>4, RunsFront
<1> HIDE DEF r, x
<1>6. 12 * r.built <= r.cost + 12 + q[Len(r.legs)]
  <2> DEFINE cost == legs[x].cost
             built == legs[x].built
             before == p[x-1]
  <2>1. q[Len(r.legs)] = before /\ r.cost = cost /\ r.built = built
    BY <1>3, <1>5
  <2>2. cost \in Nat /\ built \in Nat /\ before \in Nat /\ before + cost - 12 * built \in Nat
    BY <1>2
  <2> HIDE DEF cost, built, before
  <2> QED
    BY <2>1, <2>2
<1>7. r.built <= most /\ Thin(most, r.legs)
  <2>1. \A k \in 1..x : legs[k].built <= most
    BY DEF Covers, Thin, x
  <2>2. x \in 1..x /\ x - 1 \in Nat /\ legs \in Seq(LegSet) /\ Len(legs) = x
    BY <1>1, <1>2 DEF Runs, x
  <2>3. Len(r.legs) = x - 1 /\ \A k \in 1..x-1 : r.legs[k] = legs[k]
    BY <1>3, <2>2
  <2> QED
    BY <1>3, <2>1, <2>2, <2>3 DEF Thin
<1>8. EndsWell(most, r)
  BY <1>2, <1>3, <1>5, <1>6, <1>7 DEF EndsWell
<1> QED
  BY <1>8 DEF r

-----------------------------------------------------------------------------
(***************************************************************************)
(* The ends of b, -, the hashes, muladd and the unknown operators.         *)
(***************************************************************************)
JoinTurn(s, g, i) ==
    IF i = 0 THEN s ELSE IF g[i-1].todo = <<>> THEN g[i-1] ELSE JoinTree(g[i-1])
JoinTurns(s, n, g) == g = [i \in 0..n |-> JoinTurn(s, g, i)]

\* The joining of the pending trees has its turns.
LEMMA JoinTurnsExist ==
    ASSUME NEW s, NEW n \in Nat
    PROVE  \E g : JoinTurns(s, n, g)
<1> DEFINE T == {m \in 0..n : \E g : JoinTurns(s, m, g)}
<1>1. 0 \in T
  <2>1. JoinTurns(s, 0, [i \in 0..0 |-> s])
    BY DEF JoinTurns, JoinTurn
  <2> QED
    BY <2>1
<1>2. ASSUME NEW m \in 0..n, m # n, m \in T
      PROVE  m + 1 \in T
  <2>1. PICK g : JoinTurns(s, m, g)
    BY <1>2
  <2> DEFINE f == [i \in 0..m+1 |-> IF i = m + 1 THEN JoinTurn(s, g, i) ELSE g[i]]
  <2>2. \A i \in 0..m+1 : f[i] = JoinTurn(s, g, i)
    BY <2>1 DEF JoinTurns
  <2>3. \A i \in 0..m : f[i] = g[i]
    OBVIOUS
  <2>4. \A i \in 0..m+1 : i # 0 => i - 1 \in 0..m
    OBVIOUS
  <2> HIDE DEF f
  <2>5. \A i \in 0..m+1 : JoinTurn(s, f, i) = JoinTurn(s, g, i)
    BY <2>3, <2>4 DEF JoinTurn
  <2>6. f = [i \in 0..m+1 |-> f[i]]
    BY DEF f
  <2>7. JoinTurns(s, m + 1, f)
    BY <2>2, <2>5, <2>6 DEF JoinTurns
  <2> QED
    BY <1>2, <2>7
<1> HIDE DEF T
<1>3. n \in T
  BY <1>1, <1>2, Climb
<1> QED
  BY <1>3 DEF T

\* What is joined so far: a tree, each of its pairs paid for; the list left.
Joined(s) == /\ s.todo = <<>> \/ (s.todo = <<s.todo[1]>> /\ IsElement(s.todo[1]) /\ IsCons(s.todo[1]))
             /\ IsElement(s.tree) /\ Covers(1, s.legs, 0)

\* Taking one item into the tree.
LEMMA JoinKeeps ==
    ASSUME NEW s, Joined(s), s.todo # <<>>
    PROVE  Joined(JoinTree(s)) /\ JoinTree(s).legs # <<>>
<1> DEFINE rest == s.todo[1]
           todo == IF IsCons(rest.val2) THEN <<rest.val2>> ELSE <<>>
           tree == Cons(rest.val1, s.tree)
           one == <<Leg(ELEMENT_ALLOC, 1)>>
           legs == s.legs \o one
           t == JoinTree(s)
<1>1. IsElement(rest) /\ IsCons(rest) /\ IsElement(s.tree) /\ Covers(1, s.legs, 0)
  BY DEF Joined
<1>2. IsElement(rest.val1) /\ IsElement(rest.val2)
  BY <1>1, ElementKinds
<1> HIDE DEF rest
<1>3. IsElement(tree)
  BY <1>1, <1>2, ElementPair
<1>4. todo = <<>> \/ (todo = <<todo[1]>> /\ IsElement(todo[1]) /\ IsCons(todo[1]))
  BY <1>2
<1>5. Covers(1, one, 0)
  <2>1. /\ 1 \in Int /\ 320 \in Nat /\ 1 \in Nat /\ 1 <= 1 /\ 0 \in Nat /\ 12 * 1 + 0 <= 320
        /\ ELEMENT_ALLOC = 320
    BY DEF ELEMENT_ALLOC
  <2>2. Covers(1, <<Leg(320, 1)>>, 0)
    BY <2>1, CoversOne
  <2> QED
    BY <2>1, <2>2
<1>6. Covers(1, legs, 0)
  <2> HIDE DEF one
  <2>1. Covers(1, legs, 0 + 0)
    BY <1>1, <1>5, CoversJoin
  <2> QED
    BY <2>1
<1>7. s.legs \in Seq(LegSet)
  BY <1>1 DEF Covers, Runs
<1>8. Append(s.legs, Leg(ELEMENT_ALLOC, 1)) = legs /\ legs # <<>>
  <2>1. Leg(ELEMENT_ALLOC, 1) \in LegSet
    BY DEF Leg, LegSet, ELEMENT_ALLOC
  <2> QED
    BY <1>7, <2>1
<1> HIDE DEF todo, tree, legs, one
<1>9. t = [todo |-> todo, tree |-> tree, legs |-> legs]
  BY <1>8 DEF JoinTree, todo, tree, rest
<1>10. t.todo = todo /\ t.tree = tree /\ t.legs = legs
  BY <1>9
<1> HIDE DEF t
<1>11. Joined(t) /\ t.legs # <<>>
  BY <1>3, <1>4, <1>6, <1>8, <1>10 DEF Joined
<1> QED
  BY <1>11 DEF t

\* b joins what is pending, each pair charged before it is built.
LEMMA EndB ==
    ASSUME NEW st, IsElement(st), CounterHeld(st)
    PROVE  EndsWell(1, FinishB(st))
<1> DEFINE rest == st.val1.val2
           s == [todo |-> IF IsCons(rest) THEN <<rest>> ELSE <<>>, tree |-> st.val1.val1, legs |-> <<>>]
           done == WalkNodes(JoinTree, s)
<1>1. ~IsNil(st) => IsElement(st.val1.val1) /\ IsElement(rest)
  <2> SUFFICES ASSUME ~IsNil(st) PROVE IsElement(st.val1.val1) /\ IsElement(rest)
    OBVIOUS
  <2>1. IsCons(st) /\ IsCons(st.val1)
    BY DEF CounterHeld
  <2>2. IsElement(st.val1)
    BY <2>1, ElementKinds
  <2> QED
    BY <2>1, <2>2, ElementKinds
<1>2. FinishB(st) = IF IsNil(st) \/ ~IsCons(rest)
                    THEN Borrows(0, IF IsNil(st) THEN st ELSE st.val1.val1)
                    ELSE InTurn(done.legs, done.tree)
  BY DEF FinishB
<1> HIDE DEF rest, done
<1>3. CASE IsNil(st) \/ ~IsCons(rest)
  BY <1>1, <1>2, <1>3, ElementEnds
<1>4. CASE ~IsNil(st) /\ IsCons(rest)
  <2> DEFINE g == CHOOSE f : JoinTurns(s, TreeNodes, f)
             T == {k \in 0..TreeNodes : Joined(g[k]) /\ (k # 0 => g[k].legs # <<>>)}
  <2>0. TreeNodes \in Nat \ {0}
    BY DEF TreeNodes
  <2>1. JoinTurns(s, TreeNodes, g)
    BY <2>0, JoinTurnsExist
  <2>2. done = g[TreeNodes]
    BY DEF WalkNodes, JoinTurns, JoinTurn, done
  <2>3. s.todo = <<rest>> /\ s.tree = st.val1.val1 /\ s.legs = <<>>
    BY <1>4
  <2> HIDE DEF s, g
  <2>4. g[0] = s /\ \A k \in 0..TreeNodes : k # TreeNodes =>
            g[k+1] = IF g[k].todo = <<>> THEN g[k] ELSE JoinTree(g[k])
    BY <2>0, <2>1 DEF JoinTurns, JoinTurn
  <2>5. Joined(s) /\ s.todo # <<>>
    BY <1>1, <1>4, <2>3, CoversNone DEF Joined
  <2>6. \A k \in 0..TreeNodes : k \in T
    <3>1. 0 \in T
      BY <2>0, <2>4, <2>5
    <3>2. ASSUME NEW k \in 0..TreeNodes, k # TreeNodes, k \in T
          PROVE  k + 1 \in T
      <4>1. k + 1 \in 0..TreeNodes
        BY <2>0, <3>2
      <4>2. CASE g[k].todo = <<>>
        <5>1. k # 0
          BY <2>4, <2>5, <4>2
        <5>2. g[k+1] = g[k]
          BY <2>4, <3>2, <4>2
        <5> QED
          BY <3>2, <4>1, <5>1, <5>2
      <4>3. CASE g[k].todo # <<>>
        <5>1. g[k+1] = JoinTree(g[k])
          BY <2>4, <3>2, <4>3
        <5> QED
          BY <3>2, <4>1, <4>3, <5>1, JoinKeeps
      <4> QED
        BY <4>2, <4>3
    <3> HIDE DEF T
    <3> QED
      BY <2>0, <3>1, <3>2, Climb
  <2>7. Joined(done) /\ done.legs # <<>>
    BY <2>0, <2>2, <2>6
  <2> QED
    BY <1>2, <1>4, <2>7, InTurnEnds DEF Joined, Deliverable
<1> QED
  BY <1>3, <1>4

\* - of a single argument negates it.
LEMMA EndSub ==
    ASSUME NEW st, IsElement(st), Held("-", <<>>, st)
    PROVE  EndsWell(1, FinishSub(st))
<1> DEFINE stored == st.val2
           enc == IntAtom(0 - AsInt(stored))
           cost == ARITH_ARG + ELEMENT_ALLOC + ARITH_PER_BYTE * stored.width + MALLOC_PER_BYTE * enc.width
<1>1. FinishSub(st) = IF IsCons(st) THEN Builds(cost, enc) ELSE Borrows(ELEMENT_ALLOC, st)
  BY DEF FinishSub
<1> HIDE DEF cost, enc
<1>2. CASE ~IsCons(st)
  <2>1. EndsWell(1, Borrows(ELEMENT_ALLOC, st))
    BY ElementEnds DEF ELEMENT_ALLOC
  <2> QED
    BY <1>1, <1>2, <2>1
<1>3. CASE IsCons(st)
  <2>1. IsElement(stored) /\ IsAtom(stored)
    BY <1>3, ElementKinds DEF Held, PairStates
  <2>2. IsWhole(stored)
    BY <2>1, ElementKinds
  <2>3. stored.width \in Nat /\ AsInt(stored) \in Int
    BY <2>2, WholeAtom, IntegerOf
  <2>4. 0 - AsInt(stored) \in Int
    BY <2>3
  <2>5. IsWhole(enc) /\ enc.width \in 0..5
    BY <2>4, IntegerAtom DEF enc
  <2>6. cost \in Nat
    <3>1. ARITH_PER_BYTE * stored.width \in Nat
      BY <2>3 DEF ARITH_PER_BYTE
    <3>2. MALLOC_PER_BYTE * enc.width \in Nat
      BY <2>5 DEF MALLOC_PER_BYTE
    <3>3. ARITH_ARG + ELEMENT_ALLOC \in Nat
      BY DEF ARITH_ARG, ELEMENT_ALLOC
    <3> HIDE DEF stored
    <3> QED
      BY <3>1, <3>2, <3>3 DEF cost
  <2> QED
    BY <1>1, <1>3, <2>5, <2>6, BuildsEnds
<1> QED
  BY <1>2, <1>3

MixTurn(b, z, g, i) == IF i = 0 THEN Len(b) ELSE ((z + 1) * g[i-1] + b[i]) % MixModulus
MixTurns(b, z, n, g) == g = [i \in 0..n |-> MixTurn(b, z, g, i)]

\* The mixing of a byte string has its turns.
LEMMA MixTurnsExist ==
    ASSUME NEW b, NEW z, NEW n \in Nat
    PROVE  \E g : MixTurns(b, z, n, g)
<1> DEFINE T == {m \in 0..n : \E g : MixTurns(b, z, m, g)}
<1>1. 0 \in T
  <2>1. MixTurns(b, z, 0, [i \in 0..0 |-> Len(b)])
    BY DEF MixTurns, MixTurn
  <2> QED
    BY <2>1
<1>2. ASSUME NEW m \in 0..n, m # n, m \in T
      PROVE  m + 1 \in T
  <2>1. PICK g : MixTurns(b, z, m, g)
    BY <1>2
  <2> DEFINE f == [i \in 0..m+1 |-> IF i = m + 1 THEN MixTurn(b, z, g, i) ELSE g[i]]
  <2>2. \A i \in 0..m+1 : f[i] = MixTurn(b, z, g, i)
    BY <2>1 DEF MixTurns
  <2>3. \A i \in 0..m : f[i] = g[i]
    OBVIOUS
  <2>4. \A i \in 0..m+1 : i # 0 => i - 1 \in 0..m
    OBVIOUS
  <2> HIDE DEF f
  <2>5. \A i \in 0..m+1 : MixTurn(b, z, f, i) = MixTurn(b, z, g, i)
    BY <2>3, <2>4 DEF MixTurn
  <2>6. f = [i \in 0..m+1 |-> f[i]]
    BY DEF f
  <2>7. MixTurns(b, z, m + 1, f)
    BY <2>2, <2>5, <2>6 DEF MixTurns
  <2> QED
    BY <1>2, <2>7
<1> HIDE DEF T
<1>3. n \in T
  BY <1>1, <1>2, Climb
<1> QED
  BY <1>3 DEF T

\* A digest is a byte string.
LEMMA DigestBytes ==
    ASSUME NEW b \in Seq(Nat), NEW name \in HashNames
    PROVE  /\ Hash(name, b) \in Seq(Nat) /\ Digest(name, b) \in Seq(Nat)
<1>1. ASSUME NEW x \in Seq(Nat), NEW z \in Nat
      PROVE  MixedByte(x, z) \in Nat
  <2> DEFINE n == Len(x)
             g == CHOOSE f : MixTurns(x, z, n, f)
             T == {k \in 0..n : g[k] \in Nat}
  <2>0. n \in Nat
    OBVIOUS
  <2>1. MixTurns(x, z, n, g)
    BY <2>0, MixTurnsExist
  <2>2. MixedByte(x, z) = (g[n] + z) % 256
    BY DEF MixedByte, MixTurns, MixTurn
  <2> HIDE DEF g
  <2>3. g[0] = n /\ \A k \in 0..n : k # n => g[k+1] = ((z + 1) * g[k] + x[k+1]) % MixModulus
    BY <2>0, <2>1 DEF MixTurns, MixTurn
  <2>4. \A k \in 0..n : k \in T
    <3>1. 0 \in T
      BY <2>0, <2>3
    <3>2. ASSUME NEW k \in 0..n, k # n, k \in T
          PROVE  k + 1 \in T
      <4> DEFINE y == (z + 1) * g[k] + x[k+1]
      <4>1. y \in Nat
        <5>1. g[k] \in Nat /\ z + 1 \in Nat
          BY <3>2
        <5>2. (z + 1) * g[k] \in Nat
          BY <5>1
        <5>3. x[k+1] \in Nat
          BY <2>0, <3>2
        <5> QED
          BY <5>2, <5>3
      <4>2. g[k+1] = y % MixModulus
        BY <2>3, <3>2
      <4> HIDE DEF y
      <4>3. g[k+1] \in Nat
        BY <4>1, <4>2 DEF MixModulus
      <4> QED
        BY <2>0, <3>2, <4>3
    <3> HIDE DEF T, n
    <3> QED
      BY <2>0, <3>1, <3>2, Climb
  <2>5. g[n] \in Nat
    BY <2>0, <2>4
  <2> HIDE DEF n
  <2> QED
    BY <2>2, <2>5
<1>2. \A m \in HashNames : DigestSize[m] \in Nat
  BY DEF HashNames, DigestSize
<1>3. ASSUME NEW x \in Seq(Nat), NEW m \in HashNames
      PROVE  Hash(m, x) \in Seq(Nat)
  <2> DEFINE w == DigestSize[m]
             d == [k \in 1..w |-> MixedByte(x, k + w)]
  <2>1. w \in Nat
    BY <1>2
  <2> HIDE DEF w
  <2>2. \A k \in 1..w : MixedByte(x, k + w) \in Nat
    <3> TAKE k \in 1..w
    <3>1. k + w \in Nat
      BY <2>1
    <3> QED
      BY <1>1, <3>1
  <2>3. d \in [1..w -> Nat]
    BY <2>2
  <2>4. d \in Seq(Nat)
    <3>1. \A h \in [1..w -> Nat] : h \in Seq(Nat)
      BY <2>1
    <3> HIDE DEF d
    <3> QED
      BY <2>3, <3>1
  <2> QED
    BY <2>4 DEF Hash, w
<1>4. "sha256" \in HashNames /\ "ripemd160" \in HashNames
  BY DEF HashNames
<1>5. Hash("sha256", b) \in Seq(Nat) /\ Hash("ripemd160", b) \in Seq(Nat)
  BY <1>3, <1>4
<1>6. Hash("ripemd160", Hash("sha256", b)) \in Seq(Nat) /\ Hash("sha256", Hash("sha256", b)) \in Seq(Nat)
  BY <1>3, <1>4, <1>5
<1>7. Hash(name, b) \in Seq(Nat)
  BY <1>3
<1>8. Digest(name, b) \in Seq(Nat)
  BY <1>5, <1>6, <1>7 DEF Digest, HashNames
<1> QED
  BY <1>7, <1>8

\* A hash delivers its digest.
LEMMA EndHash ==
    ASSUME NEW op \in HashNames, NEW ist \in Seq(Nat)
    PROVE  EndsWell(1, HashFinish(op, ist))
<1> DEFINE d == FromBytes(Digest(op, ist))
           cost == HASH_BASE + MALLOC_PER_BYTE * DigestSize[op]
<1>1. IsWhole(d)
  BY DigestBytes, WholeBytes
<1>2. cost \in Nat
  <2>1. DigestSize[op] \in Nat
    BY DEF HashNames, DigestSize
  <2> QED
    BY <2>1 DEF HASH_BASE, ELEMENT_ALLOC, MALLOC_PER_BYTE
<1>3. HashFinish(op, ist) = Builds(cost, d)
  BY DEF HashFinish
<1> HIDE DEF cost, d
<1> QED
  BY <1>1, <1>2, <1>3, BuildsEnds

\* An unknown operator has a price and returns nil.
LEMMA EndUnknown ==
    ASSUME NEW ist \in UnknownStates
    PROVE  EndsWell(1, UnknownFinish(ist))
<1> DEFINE total == CASE ist.selector = 0 -> 0
                   [] ist.selector = 1 -> ARITH_ARG * ist.count + ARITH_PER_BYTE * ist.bytes
                   [] ist.selector = 2 -> ist.work
                   [] ist.selector = 3 -> CAT_ARG * ist.count
                                + (COPY_PER_BYTE + MALLOC_PER_BYTE) * ist.bytes
<1>1. /\ ist.selector \in 0..3 /\ ist.multiplier \in Nat /\ ist.count \in Nat
      /\ ist.bytes \in Nat /\ ist.work \in Nat
  BY DEF UnknownStates
<1>2. total \in Nat
  <2>1. ARITH_ARG * ist.count + ARITH_PER_BYTE * ist.bytes \in Nat
    BY <1>1 DEF ARITH_ARG, ARITH_PER_BYTE
  <2>2. CAT_ARG * ist.count + (COPY_PER_BYTE + MALLOC_PER_BYTE) * ist.bytes \in Nat
    <3>1. (COPY_PER_BYTE + MALLOC_PER_BYTE) = 11 /\ CAT_ARG = 96
      BY DEF CAT_ARG, COPY_PER_BYTE, MALLOC_PER_BYTE
    <3> QED
      BY <1>1, <3>1
  <2> QED
    BY <1>1, <2>1, <2>2
<1>3. UnknownFinish(ist) = Borrows(UnknownPrice(total, ist.multiplier), Nil)
  BY DEF UnknownFinish
<1> HIDE DEF total
<1>4. UnknownPrice(total, ist.multiplier) \in Nat
  <2>1. Wider(total, 1) \in Nat
    BY <1>2 DEF Wider
  <2> DEFINE w == Wider(total, 1)
             m == ist.multiplier + 1
  <2>2. w \in Nat /\ m \in Nat
    BY <1>1, <2>1
  <2> HIDE DEF w, m
  <2>3. w * m \in Nat
    BY <2>2
  <2> QED
    BY <2>3 DEF UnknownPrice, w, m
<1> QED
  BY <1>3, <1>4, Interned, ElementAtom, ElementEnds

DecodeTurn(s, g, i) ==
    IF i = 0 THEN s ELSE IF g[i-1].todo = <<>> THEN g[i-1] ELSE DecodeTerm(g[i-1])
DecodeTurns(s, n, g) == g = [i \in 0..n |-> DecodeTurn(s, g, i)]

\* The decoding of the terms has its turns.
LEMMA DecodeTurnsExist ==
    ASSUME NEW s, NEW n \in Nat
    PROVE  \E g : DecodeTurns(s, n, g)
<1> DEFINE T == {m \in 0..n : \E g : DecodeTurns(s, m, g)}
<1>1. 0 \in T
  <2>1. DecodeTurns(s, 0, [i \in 0..0 |-> s])
    BY DEF DecodeTurns, DecodeTurn
  <2> QED
    BY <2>1
<1>2. ASSUME NEW m \in 0..n, m # n, m \in T
      PROVE  m + 1 \in T
  <2>1. PICK g : DecodeTurns(s, m, g)
    BY <1>2
  <2> DEFINE f == [i \in 0..m+1 |-> IF i = m + 1 THEN DecodeTurn(s, g, i) ELSE g[i]]
  <2>2. \A i \in 0..m+1 : f[i] = DecodeTurn(s, g, i)
    BY <2>1 DEF DecodeTurns
  <2>3. \A i \in 0..m : f[i] = g[i]
    OBVIOUS
  <2>4. \A i \in 0..m+1 : i # 0 => i - 1 \in 0..m
    OBVIOUS
  <2> HIDE DEF f
  <2>5. \A i \in 0..m+1 : DecodeTurn(s, f, i) = DecodeTurn(s, g, i)
    BY <2>3, <2>4 DEF DecodeTurn
  <2>6. f = [i \in 0..m+1 |-> f[i]]
    BY DEF f
  <2>7. DecodeTurns(s, m + 1, f)
    BY <2>2, <2>5, <2>6 DEF DecodeTurns
  <2> QED
    BY <1>2, <2>7
<1> HIDE DEF T
<1>3. n \in T
  BY <1>1, <1>2, Climb
<1> QED
  BY <1>3 DEF T

\* muladd pays for the curve work term by term, and builds nothing but an error.
LEMMA EndMuladd ==
    ASSUME NEW st
    PROVE  EndsWell(1, MuladdFinish(st))
<1> DEFINE s == [todo |-> IF IsCons(st) THEN <<st>> ELSE <<>>, cost |-> MULADD_BASE,
                 aps |-> <<>>, error |-> ""]
           w == WalkNodes(DecodeTerm, s)
           g == CHOOSE f : DecodeTurns(s, TreeNodes, f)
           Fields == {"todo", "cost", "aps", "error"}
           Good(x) == DOMAIN x = Fields /\ x.cost \in Nat
           T == {k \in 0..TreeNodes : Good(g[k])}
<1>0. TreeNodes \in Nat
  BY DEF TreeNodes
<1>1. DecodeTurns(s, TreeNodes, g)
  BY <1>0, DecodeTurnsExist
<1>2. w = g[TreeNodes]
  BY DEF WalkNodes, DecodeTurns, DecodeTurn
<1>3. Good(s)
  BY DEF MULADD_BASE
<1> HIDE DEF g, s
<1>4. g[0] = s /\ \A k \in 0..TreeNodes : k # TreeNodes =>
          g[k+1] = IF g[k].todo = <<>> THEN g[k] ELSE DecodeTerm(g[k])
  BY <1>0, <1>1 DEF DecodeTurns, DecodeTurn
<1>5. ASSUME NEW x, Good(x)
      PROVE  Good(DecodeTerm(x))
  <2>1. ASSUME NEW rest, NEW term
        PROVE  Good(AddTerm(x, rest, term))
    <3>1. x.cost + MULADD_PER_TERM \in Nat
      BY <1>5 DEF MULADD_PER_TERM
    <3>2. Good([x EXCEPT !.todo = <<>>, !.cost = @ + MULADD_PER_TERM, !.error = term.msg])
      BY <1>5, <3>1
    <3>3. Good([x EXCEPT !.todo = IF IsCons(rest) THEN <<rest>> ELSE <<>>,
                         !.cost = @ + MULADD_PER_TERM, !.aps = Append(@, term)])
      BY <1>5, <3>1
    <3> HIDE DEF Good
    <3> QED
      BY <3>2, <3>3 DEF AddTerm
  <2> HIDE DEF Good
  <2> QED
    BY <2>1 DEF DecodeTerm
<1>6. \A k \in 0..TreeNodes : k \in T
  <2> HIDE DEF Good
  <2>1. 0 \in T
    BY <1>0, <1>3, <1>4
  <2>2. ASSUME NEW k \in 0..TreeNodes, k # TreeNodes, k \in T
        PROVE  k + 1 \in T
    <3>1. k + 1 \in 0..TreeNodes /\ Good(g[k])
      BY <1>0, <2>2
    <3> QED
      BY <1>4, <1>5, <2>2, <3>1
  <2> HIDE DEF T
  <2> QED
    BY <1>0, <2>1, <2>2, Climb
<1>7. w.cost \in Nat
  BY <1>0, <1>2, <1>6
<1>8. MuladdFinish(st) = MuladdSum(w)
  BY DEF MuladdFinish, s
<1> HIDE DEF w
<1>9. \/ \E msg : MuladdSum(w) = Fails(w.cost, msg)
      \/ MuladdSum(w) = Borrows(w.cost, One)
  BY Zenon DEF MuladdSum
<1>10. EndsWell(1, MuladdSum(w))
  BY <1>7, <1>9, FailsEnds, ElementEnds, Interned, ElementAtom
<1> QED
  BY <1>8, <1>10

-----------------------------------------------------------------------------
(***************************************************************************)
(* The ends of wr and rd.                                                  *)
(***************************************************************************)
EncodeTurn(s, g, i) ==
    IF i = 0 THEN s ELSE IF g[i-1].todo = <<>> THEN g[i-1] ELSE EncodeNode(g[i-1])
EncodeTurns(s, n, g) == g = [i \in 0..n |-> EncodeTurn(s, g, i)]

\* The encoding has its turns.
LEMMA EncodeTurnsExist ==
    ASSUME NEW s, NEW n \in Nat
    PROVE  \E g : EncodeTurns(s, n, g)
<1> DEFINE T == {m \in 0..n : \E g : EncodeTurns(s, m, g)}
<1>1. 0 \in T
  <2>1. EncodeTurns(s, 0, [i \in 0..0 |-> s])
    BY DEF EncodeTurns, EncodeTurn
  <2> QED
    BY <2>1
<1>2. ASSUME NEW m \in 0..n, m # n, m \in T
      PROVE  m + 1 \in T
  <2>1. PICK g : EncodeTurns(s, m, g)
    BY <1>2
  <2> DEFINE f == [i \in 0..m+1 |-> IF i = m + 1 THEN EncodeTurn(s, g, i) ELSE g[i]]
  <2>2. \A i \in 0..m+1 : f[i] = EncodeTurn(s, g, i)
    BY <2>1 DEF EncodeTurns
  <2>3. \A i \in 0..m : f[i] = g[i]
    OBVIOUS
  <2>4. \A i \in 0..m+1 : i # 0 => i - 1 \in 0..m
    OBVIOUS
  <2> HIDE DEF f
  <2>5. \A i \in 0..m+1 : EncodeTurn(s, f, i) = EncodeTurn(s, g, i)
    BY <2>3, <2>4 DEF EncodeTurn
  <2>6. f = [i \in 0..m+1 |-> f[i]]
    BY DEF f
  <2>7. EncodeTurns(s, m + 1, f)
    BY <2>2, <2>5, <2>6 DEF EncodeTurns
  <2> QED
    BY <1>2, <2>7
<1> HIDE DEF T
<1>3. n \in T
  BY <1>1, <1>2, Climb
<1> QED
  BY <1>3 DEF T

\* The state of the encoder's loop.
IsEncoding(S, s) ==
    /\ s = [todo |-> s.todo, out |-> s.out, cost |-> s.cost, error |-> s.error]
    /\ s.todo \in Seq(S) /\ s.out \in Seq(Nat) /\ s.cost \in Nat

\* The bytes a node begins with.
LEMMA NodeEncoded ==
    ASSUME NEW S, ClosedSet(S), NEW e \in S, IsAtom(e) \/ IsCons(e)
    PROVE  NodeBytes(e) \in Seq(Nat)
<1>1. CASE IsCons(e)
  <2>1. <<255>> \in Seq(Nat)
    OBVIOUS
  <2> QED
    BY <1>1, <2>1 DEF NodeBytes
<1>2. CASE ~IsCons(e)
  <2>1. e.bytes \in Seq(Nat) /\ e.width \in Nat
    BY <1>2, ClosedMember
  <2>2. sizebytes(e.width) \in Seq(Nat)
    <3> DEFINE n == e.width
    <3>1. n \in Nat
      BY <2>1
    <3> HIDE DEF n
    <3>2. 128 + n \in Nat /\ 192 + n \div 256 \in Nat /\ n % 256 \in Nat
          /\ 224 + n \div 65536 \in Nat /\ (n \div 256) % 256 \in Nat
      BY <3>1
    <3>3. \A x, y, z \in Nat : <<x>> \in Seq(Nat) /\ <<x, y>> \in Seq(Nat) /\ <<x, y, z>> \in Seq(Nat)
      OBVIOUS
    <3>4. sizebytes(n) \in Seq(Nat)
      BY <3>2, <3>3 DEF sizebytes
    <3> QED
      BY <3>4 DEF n
  <2>3. sizebytes(e.width) \o e.bytes \in Seq(Nat)
    BY <2>1, <2>2
  <2>4. <<128>> \in Seq(Nat)
    OBVIOUS
  <2> QED
    BY <1>2, <2>1, <2>3, <2>4 DEF NodeBytes
<1> QED
  BY <1>1, <1>2

\* Changing the fields of an encoding in progress.
LEMMA EncodingFields ==
    ASSUME NEW S, NEW s, IsEncoding(S, s), NEW todo \in Seq(S)
    PROVE  /\ \A msg : IsEncoding(S, [s EXCEPT !.todo = todo, !.error = msg])
           /\ \A out \in Seq(Nat), cost \in Nat :
                  IsEncoding(S, [s EXCEPT !.todo = todo, !.out = out, !.cost = cost])
<1> DEFINE o1 == s.out
           c1 == s.cost
           m1 == s.error
           t1 == s.todo
           w  == [s EXCEPT !.todo = todo]
<1>1. s = [todo |-> t1, out |-> o1, cost |-> c1, error |-> m1]
  BY DEF IsEncoding
<1>2. o1 \in Seq(Nat) /\ c1 \in Nat
  BY DEF IsEncoding
<1> HIDE DEF o1, c1, m1, t1
<1>3. w = [todo |-> todo, out |-> o1, cost |-> c1, error |-> m1]
  BY <1>1
<1> HIDE DEF w
<1>4. ASSUME NEW msg
      PROVE  IsEncoding(S, [w EXCEPT !.error = msg])
  <2> DEFINE v == [w EXCEPT !.error = msg]
  <2>1. v = [todo |-> todo, out |-> o1, cost |-> c1, error |-> msg]
    BY <1>3
  <2> HIDE DEF v
  <2>2. IsEncoding(S, v)
    BY <1>2, <2>1 DEF IsEncoding
  <2> QED
    BY <2>2 DEF v
<1>5. ASSUME NEW out \in Seq(Nat), NEW cost \in Nat
      PROVE  IsEncoding(S, [w EXCEPT !.out = out, !.cost = cost])
  <2> DEFINE v == [w EXCEPT !.out = out]
             u == [v EXCEPT !.cost = cost]
  <2>1. v = [todo |-> todo, out |-> out, cost |-> c1, error |-> m1]
    BY <1>3
  <2> HIDE DEF v
  <2>2. u = [todo |-> todo, out |-> out, cost |-> cost, error |-> m1]
    BY <2>1
  <2> HIDE DEF u
  <2>3. IsEncoding(S, u)
    BY <2>2 DEF IsEncoding
  <2> QED
    BY <2>3 DEF u, v
<1> QED
  BY <1>4, <1>5, Zenon DEF w

\* Writing one node keeps the encoding well formed.
LEMMA EncodeKeeps ==
    ASSUME NEW S, ClosedSet(S), NEW s, IsEncoding(S, s), s.todo # <<>>
    PROVE  IsEncoding(S, EncodeNode(s))
<1> DEFINE e == s.todo[1]
           b == NodeBytes(e)
           price == WR_PER_ELEMENT + (WR_PER_BYTE + MALLOC_PER_BYTE) * Len(b)
           todo == IF IsCons(e) THEN <<e.val1, e.val2>> \o Tail(s.todo) ELSE Tail(s.todo)
<1>1. s.todo \in Seq(S) /\ s.out \in Seq(Nat) /\ s.cost \in Nat
  BY DEF IsEncoding
<1>2. e \in S /\ Tail(s.todo) \in Seq(S)
  BY <1>1
<1> HIDE DEF e
<1>3. todo \in Seq(S)
  <2>1. CASE IsCons(e)
    <3>1. e.val1 \in S /\ e.val2 \in S
      BY <1>2, <2>1, ClosedMember
    <3>2. <<e.val1, e.val2>> \in Seq(S)
      BY <3>1
    <3>3. <<e.val1, e.val2>> \o Tail(s.todo) \in Seq(S)
      BY <1>2, <3>2
    <3> QED
      BY <2>1, <3>3
  <2> QED
    BY <1>2, <2>1
<1>4. IsAtom(e) \/ IsCons(e) => b \in Seq(Nat) /\ s.out \o b \in Seq(Nat) /\ s.cost + price \in Nat
  <2> SUFFICES ASSUME IsAtom(e) \/ IsCons(e)
               PROVE  b \in Seq(Nat) /\ s.out \o b \in Seq(Nat) /\ s.cost + price \in Nat
    OBVIOUS
  <2>1. b \in Seq(Nat)
    BY <1>2, NodeEncoded
  <2> HIDE DEF b
  <2>2. Len(b) \in Nat /\ s.out \o b \in Seq(Nat)
    BY <1>1, <2>1
  <2>3. price \in Nat
    <3>1. WR_PER_ELEMENT = 4 /\ WR_PER_BYTE + MALLOC_PER_BYTE = 11
      BY DEF WR_PER_ELEMENT, WR_PER_BYTE, MALLOC_PER_BYTE
    <3> QED
      BY <2>2, <3>1
  <2> HIDE DEF price
  <2> QED
    BY <1>1, <2>1, <2>2, <2>3
<1>5. \A msg : IsEncoding(S, [s EXCEPT !.todo = <<>>, !.error = msg])
  <2>1. <<>> \in Seq(S)
    OBVIOUS
  <2> QED
    BY <2>1, EncodingFields
<1>6. IsAtom(e) \/ IsCons(e) =>
          IsEncoding(S, [s EXCEPT !.todo = todo, !.out = s.out \o b, !.cost = s.cost + price])
  <2> HIDE DEF todo, b, price
  <2> QED
    BY <1>3, <1>4, EncodingFields
<1>7. EncodeNode(s) =
          IF ~IsAtom(e) /\ ~IsCons(e)
          THEN [s EXCEPT !.todo = <<>>, !.error = "can only serialize atom/cons"]
          ELSE IF IsAtom(e) /\ e.width > SERIALIZED_ATOM_MAX
          THEN [s EXCEPT !.todo = <<>>, !.error = "atom too large to serialize"]
          ELSE [s EXCEPT !.todo = todo, !.out = s.out \o b, !.cost = s.cost + price]
  <2>1. s.cost + price = s.cost + WR_PER_ELEMENT + (WR_PER_BYTE + MALLOC_PER_BYTE) * Len(b)
        \/ (~IsAtom(e) /\ ~IsCons(e))
    <3> SUFFICES ASSUME IsAtom(e) \/ IsCons(e)
                 PROVE  s.cost + price = s.cost + WR_PER_ELEMENT + (WR_PER_BYTE + MALLOC_PER_BYTE) * Len(b)
      OBVIOUS
    <3> DEFINE bytes == Len(b)
    <3>1. bytes \in Nat
      BY <1>4
    <3>2. WR_PER_ELEMENT = 4 /\ WR_PER_BYTE + MALLOC_PER_BYTE = 11
      BY DEF WR_PER_ELEMENT, WR_PER_BYTE, MALLOC_PER_BYTE
    <3> HIDE DEF bytes
    <3>3. s.cost + (4 + 11 * bytes) = s.cost + 4 + 11 * bytes
      BY <1>1, <3>1
    <3> QED
      BY <3>2, <3>3 DEF bytes
  <2> HIDE DEF b, price
  <2> QED
    BY <2>1, Zenon DEF EncodeNode, e, b, todo
<1> HIDE DEF todo, b, price
<1>10. CASE ~IsAtom(e) /\ ~IsCons(e)
  BY <1>5, <1>7, <1>10, Zenon
<1>11. CASE IsAtom(e) \/ IsCons(e)
  <2>1. CASE IsAtom(e) /\ e.width > SERIALIZED_ATOM_MAX
    BY <1>5, <1>7, <1>11, <2>1, Zenon
  <2>2. CASE ~(IsAtom(e) /\ e.width > SERIALIZED_ATOM_MAX)
    BY <1>6, <1>7, <1>11, <2>2, Zenon
  <2> QED
    BY <2>1, <2>2
<1> QED
  BY <1>10, <1>11

\* wr delivers what it wrote.
LEMMA EndWrite ==
    ASSUME NEW a, IsElement(a[1])
    PROVE  EndsWell(1, op_list_write(a))
<1> DEFINE s == [todo |-> <<a[1]>>, out |-> <<>>, cost |-> 0, error |-> ""]
           w == WalkNodes(EncodeNode, s)
           g == CHOOSE f : EncodeTurns(s, TreeNodes, f)
<1>0. TreeNodes \in Nat
  BY DEF TreeNodes
<1>1. PICK S : ClosedSet(S) /\ a[1] \in S
  BY DEF IsElement
<1>2. IsEncoding(S, s)
  <2>1. <<a[1]>> \in Seq(S) /\ <<>> \in Seq(Nat)
    BY <1>1
  <2> QED
    BY <2>1 DEF IsEncoding
<1>3. EncodeTurns(s, TreeNodes, g)
  BY <1>0, EncodeTurnsExist
<1>4. w = g[TreeNodes]
  BY DEF WalkNodes, EncodeTurns, EncodeTurn
<1>5. op_list_write(a) = IF w.error # "" THEN Fails(WR_BASE + w.cost, w.error)
                         ELSE Builds(WR_BASE + w.cost, FromBytes(w.out))
  BY DEF op_list_write, _Serialize
<1> HIDE DEF g, s, w
<1> DEFINE T == {k \in 0..TreeNodes : IsEncoding(S, g[k])}
<1>6. g[0] = s /\ \A k \in 0..TreeNodes : k # TreeNodes =>
          g[k+1] = IF g[k].todo = <<>> THEN g[k] ELSE EncodeNode(g[k])
  BY <1>0, <1>3 DEF EncodeTurns, EncodeTurn
<1>7. \A k \in 0..TreeNodes : k \in T
  <2>1. 0 \in T
    BY <1>0, <1>2, <1>6
  <2>2. ASSUME NEW k \in 0..TreeNodes, k # TreeNodes, k \in T
        PROVE  k + 1 \in T
    <3>1. k + 1 \in 0..TreeNodes /\ IsEncoding(S, g[k])
      BY <1>0, <2>2
    <3> QED
      BY <1>1, <1>6, <2>2, <3>1, EncodeKeeps
  <2> HIDE DEF T
  <2> QED
    BY <1>0, <2>1, <2>2, Climb
<1>8. w.cost \in Nat /\ w.out \in Seq(Nat)
  <2>1. IsEncoding(S, w)
    BY <1>0, <1>4, <1>7
  <2> QED
    BY <2>1 DEF IsEncoding
<1>9. WR_BASE + w.cost \in Nat
  BY <1>8 DEF WR_BASE, ELEMENT_ALLOC
<1>10. EndsWell(1, Fails(WR_BASE + w.cost, w.error)) /\ EndsWell(1, Builds(WR_BASE + w.cost, FromBytes(w.out)))
  BY <1>8, <1>9, FailsEnds, BuildsEnds, WholeBytes
<1> QED
  BY <1>5, <1>10

\* What is read at a position: where it ends, what it is and what was paid for;
\* between two charges no more is built than there are bytes left.
Got(input, x, i) ==
    /\ x = ReadTo(x.val, x.next, x.legs) /\ x.next \in i..Len(input)
    /\ x.val = EOF \/ Deliverable(x.val)
    /\ Covers(Len(input) - i, x.legs, 0)
    /\ IsBll(x.val) => /\ IsElement(x.val) /\ x.legs # <<>>
                       /\ Covers(Len(input) - i, x.legs, 12)

ReadAt(input, i, l, r) ==
    LET n == Len(input)
        more(j, k) == j + 1 + k <= n
        m == input[i + 1]
    IN  CASE m = 128 -> ReadTo(Nil, i + 1, <<Leg(RD_PER_ELEMENT, 0)>>)
          [] m < 128 -> ReadTo(Atom(m, 1), i + 1, <<Leg(RD_PER_ELEMENT, Fresh(Atom(m, 1)))>>)
          [] m \in 129..191 -> read_atom(input, i + 1, m - 128)
          [] m \in 192..223 /\ more(i, 1) -> read_atom(input, i + 2, (m - 192) * 256 + input[i + 2])
          [] m \in 224..239 /\ more(i, 2) ->
                 read_atom(input, i + 3, (m - 224) * 65536 + input[i + 2] * 256 + input[i + 3])
          [] m = 255 -> ReadPair(i, l, r)
          [] m \in 240..254 -> ReadTo(Error("serialized atom too large"), i + 1, <<>>)
          [] OTHER -> ReadTo(EOF, i + 1, <<>>)
ReadTurn(input, g, i) == IF i = Len(input) THEN ReadTo(EOF, i, <<>>)
                         ELSE ReadAt(input, i, g[i + 1], g[g[i + 1].next])
ReadTurns(input, m, g) == g = [i \in m..Len(input) |-> ReadTurn(input, g, i)]

\* The parts of what a read leaves.
LEMMA ReadFields ==
    ASSUME NEW v, NEW j, NEW legs
    PROVE  LET x == ReadTo(v, j, legs)
           IN  x.val = v /\ x.next = j /\ x.legs = legs /\ x = ReadTo(x.val, x.next, x.legs)
BY DEF ReadTo

\* An atom, an end of input and an error.
LEMMA GotPlain ==
    ASSUME NEW input \in Seq(Nat), NEW i \in 0..Len(input), NEW j \in i..Len(input)
    PROVE  /\ Got(input, ReadTo(EOF, j, <<>>), i)
           /\ \A msg : Got(input, ReadTo(Error(msg), j, <<>>), i)
           /\ \A a, c, b : IsWhole(a) /\ c \in Nat /\ c >= 336 /\ b \in 0..1 /\ i # Len(input)
                     => Got(input, ReadTo(a, j, <<Leg(c, b)>>), i)
<1>1. ASSUME NEW v, v = EOF \/ \E msg : v = Error(msg)
      PROVE  Got(input, ReadTo(v, j, <<>>), i)
  <2>3. ~IsBll(v) /\ (v = EOF \/ Deliverable(v))
    <3>1. CASE v = EOF
      <4>1. v.kind = "eof"
        BY <3>1 DEF EOF
      <4> QED
        BY <3>1, <4>1 DEF IsBll, IsAtom, IsCons, IsFunc
    <3>2. CASE v # EOF
      <4>1. PICK msg : v = Error(msg)
        BY <1>1, <3>2
      <4>2. v.kind = "error" /\ Deliverable(v)
        BY <4>1, ErrorIsErr DEF Error, Deliverable
      <4> QED
        BY <4>2 DEF IsBll, IsAtom, IsCons, IsFunc
    <3> QED
      BY <3>1, <3>2
  <2> QED
    BY <2>3, ReadFields, CoversNone DEF Got
<1>2. ASSUME NEW a, IsWhole(a), NEW c \in Nat, c >= 336, NEW b \in 0..1,
             i # Len(input)
      PROVE  Got(input, ReadTo(a, j, <<Leg(c, b)>>), i)
  <2> DEFINE legs == <<Leg(c, b)>>
  <2>0. Len(input) - i \in Nat /\ b <= Len(input) - i
    BY <1>2
  <2>1. Covers(Len(input) - i, legs, 12) /\ Covers(Len(input) - i, legs, 0)
    BY <1>2, <2>0, CoversOne
  <2>2. legs # <<>>
    OBVIOUS
  <2> HIDE DEF legs
  <2>3. IsElement(a)
    BY <1>2, ElementAtom
  <2>4. Got(input, ReadTo(a, j, legs), i)
    BY <2>1, <2>2, <2>3, ReadFields DEF Got, Deliverable
  <2> QED
    BY <2>4 DEF legs
<1> QED
  BY <1>1, <1>2

\* Reading an atom of k bytes.
LEMMA GotAtom ==
    ASSUME NEW input \in Seq(Nat), NEW i \in 0..Len(input), i # Len(input),
           NEW j \in i..Len(input), NEW k \in Nat
    PROVE  Got(input, read_atom(input, j, k), i)
<1> DEFINE b == SubSeq(input, j + 1, j + k)
           a == FromBytes(b)
           c == RD_PER_ELEMENT + (RD_PER_BYTE + MALLOC_PER_BYTE) * k
<1>1. read_atom(input, j, k) = IF j + k > Len(input) THEN ReadTo(EOF, j, <<>>)
                               ELSE ReadTo(a, j + k, <<Leg(c, Fresh(a))>>)
  BY DEF read_atom
<1>2. CASE j + k > Len(input)
  BY <1>1, <1>2, GotPlain
<1>3. CASE ~(j + k > Len(input))
  <2>1. j + k \in i..Len(input)
    BY <1>3
  <2>2. b \in Seq(Nat)
    BY <1>3
  <2>3. c \in Nat /\ c >= 336
    <3>1. RD_PER_ELEMENT = 336 /\ RD_PER_BYTE + MALLOC_PER_BYTE = 14
      BY DEF RD_PER_ELEMENT, RD_PER_BYTE, MALLOC_PER_BYTE, ELEMENT_ALLOC
    <3>2. 336 + 14 * k \in Nat /\ 336 + 14 * k >= 336
      OBVIOUS
    <3> QED
      BY <3>1, <3>2
  <2> HIDE DEF b, c
  <2>4. IsWhole(a)
    BY <2>2, WholeBytes
  <2>5. Fresh(a) \in 0..1
    BY FreshCount
  <2> HIDE DEF a
  <2>6. Got(input, ReadTo(a, j + k, <<Leg(c, Fresh(a))>>), i)
    BY <2>1, <2>3, <2>4, <2>5, GotPlain
  <2> QED
    BY <1>1, <1>3, <2>6
<1> QED
  BY <1>2, <1>3

\* Reading a pair, after its two children.
LEMMA GotPair ==
    ASSUME NEW input \in Seq(Nat), NEW i \in 0..Len(input), i # Len(input),
           NEW l, Got(input, l, i + 1), NEW r, Got(input, r, l.next)
    PROVE  Got(input, ReadPair(i, l, r), i)
<1> DEFINE first == <<Leg(RD_PER_ELEMENT, 0)>>
           begun == first \o l.legs
           both == begun \o r.legs
           most == (Len(input) - i) - 1
<1>1. /\ l = ReadTo(l.val, l.next, l.legs) /\ l.next \in i+1..Len(input)
      /\ (l.val = EOF \/ Deliverable(l.val)) /\ Covers(Len(input) - (i + 1), l.legs, 0)
      /\ IsBll(l.val) => IsElement(l.val)
  BY DEF Got
<1>2. /\ r = ReadTo(r.val, r.next, r.legs) /\ r.next \in l.next..Len(input)
      /\ (r.val = EOF \/ Deliverable(r.val)) /\ Covers(Len(input) - l.next, r.legs, 0)
      /\ IsBll(r.val) => IsElement(r.val)
  BY DEF Got
<1>3. l.next \in i..Len(input) /\ r.next \in i..Len(input)
  BY <1>1, <1>2
<1>0. /\ most \in Nat /\ most + 1 = Len(input) - i
      /\ Covers(most, l.legs, 0) /\ Covers(most, r.legs, 0)
  <2>1. Len(input) \in Nat /\ i \in Nat /\ l.next \in Nat /\ l.next >= i + 1 /\ l.next <= Len(input)
    BY <1>1
  <2>2. /\ most \in Nat /\ most + 1 = Len(input) - i
        /\ Len(input) - (i + 1) \in Int /\ Len(input) - (i + 1) <= most
        /\ Len(input) - l.next \in Int /\ Len(input) - l.next <= most
    BY <2>1
  <2> HIDE DEF most
  <2> QED
    BY <1>1, <1>2, <2>2, CoversWider
<1> HIDE DEF most
<1>4. Covers(most, first, 24)
  BY <1>0, CoversOne DEF RD_PER_ELEMENT, ELEMENT_ALLOC
<1>5. Covers(most, begun, 24) /\ Covers(most, both, 24)
  <2> HIDE DEF first
  <2>1. Covers(most, begun, 24 + 0)
    BY <1>0, <1>4, CoversJoin
  <2> HIDE DEF begun
  <2>2. Covers(most, begun, 24)
    BY <2>1
  <2>3. Covers(most, both, 24 + 0)
    BY <1>0, <2>2, CoversJoin
  <2> QED
    BY <2>2, <2>3
<1>6. both # <<>>
  <2>1. l.legs \in Seq(LegSet) /\ r.legs \in Seq(LegSet)
    BY <1>1, <1>2 DEF Covers, Runs
  <2>2. Leg(RD_PER_ELEMENT, 0) \in LegSet
    BY DEF Leg, LegSet, RD_PER_ELEMENT, ELEMENT_ALLOC
  <2>3. begun \in Seq(LegSet) /\ begun # <<>>
    BY <2>1, <2>2
  <2> HIDE DEF begun
  <2> QED
    BY <2>1, <2>3
<1> HIDE DEF first, begun
<1>7. Covers(Len(input) - i, begun, 0) /\ Covers(Len(input) - i, begun \o r.legs, 0)
  <2>1. Covers(most, begun, 0) /\ Covers(most, both, 0)
    <3> HIDE DEF both
    <3> QED
      BY <1>5, CoversLess
  <2>2. most <= most + 1 /\ most + 1 \in Int /\ most \in Int
    BY <1>0
  <2>3. Covers(most + 1, begun, 0) /\ Covers(most + 1, both, 0)
    <3> HIDE DEF both
    <3> QED
      BY <2>1, <2>2, CoversWider
  <2> QED
    BY <1>0, <2>3
<1>8. CASE ~IsBll(l.val)
  <2>1. [l EXCEPT !.legs = begun] = ReadTo(l.val, l.next, begun)
    BY <1>1, SMTT(30) DEF ReadTo
  <2>2. ReadPair(i, l, r) = ReadTo(l.val, l.next, begun)
    BY <1>8, <2>1 DEF ReadPair, begun, first
  <2>3. Got(input, ReadTo(l.val, l.next, begun), i)
    BY <1>1, <1>3, <1>7, <1>8, ReadFields DEF Got
  <2> QED
    BY <2>2, <2>3
<1>9. CASE IsBll(l.val) /\ ~IsBll(r.val)
  <2> HIDE DEF both
  <2>1. \A z : [r EXCEPT !.legs = z] = ReadTo(r.val, r.next, z)
    BY <1>2 DEF ReadTo
  <2>2. ReadPair(i, l, r) = [r EXCEPT !.legs = both]
    BY <1>9, Zenon DEF ReadPair, both, begun, first
  <2>3. Got(input, ReadTo(r.val, r.next, both), i)
    BY <1>2, <1>3, <1>7, <1>9, ReadFields DEF Got, both
  <2> QED
    BY <2>1, <2>2, <2>3
<1>10. CASE IsBll(l.val) /\ IsBll(r.val)
  <2> DEFINE legs == Building(both, 1)
             v == Cons(l.val, r.val)
  <2>1. ReadPair(i, l, r) = ReadTo(v, r.next, legs)
    BY <1>10 DEF ReadPair, begun, first
  <2>2. IsElement(v)
    BY <1>1, <1>2, <1>10, ElementPair
  <2>3. Covers(Len(input) - i, legs, 12) /\ legs # <<>>
    <3>1. Covers(most, both, 12 + 12 * 1)
      BY <1>5
    <3> HIDE DEF both
    <3>2. Covers(most + 1, legs, 12) /\ legs # <<>>
      BY <1>0, <1>6, <3>1, CoversBuilding
    <3> QED
      BY <1>0, <3>2
  <2>4. Covers(Len(input) - i, legs, 0)
    <3>1. 0 \in Int /\ 12 \in Int /\ 0 <= 12
      OBVIOUS
    <3> HIDE DEF legs
    <3> QED
      BY <2>3, <3>1, CoversLess
  <2> HIDE DEF legs, v
  <2>5. Got(input, ReadTo(v, r.next, legs), i)
    BY <1>3, <2>2, <2>3, <2>4, ReadFields DEF Got, Deliverable
  <2> QED
    BY <2>1, <2>5
<1> QED
  BY <1>8, <1>9, <1>10

\* Whatever stands at a position.
LEMMA GotAt ==
    ASSUME NEW input \in Seq(Nat), NEW i \in 0..Len(input), i # Len(input),
           NEW l, Got(input, l, i + 1), NEW r, Got(input, r, l.next)
    PROVE  Got(input, ReadAt(input, i, l, r), i)
<1> DEFINE m == input[i + 1]
           n == Len(input)
           k8 == (m - 192) * 256 + input[i + 2]
           k9 == (m - 224) * 65536 + input[i + 2] * 256 + input[i + 3]
           g1 == m = 128
           g2 == m < 128
           g3 == m \in 129..191
           g4 == m \in 192..223 /\ i + 1 + 1 <= n
           g5 == m \in 224..239 /\ i + 1 + 2 <= n
           g6 == m = 255
           g7 == m \in 240..254
           v1 == ReadTo(Nil, i + 1, <<Leg(RD_PER_ELEMENT, 0)>>)
           v2 == ReadTo(Atom(m, 1), i + 1, <<Leg(RD_PER_ELEMENT, Fresh(Atom(m, 1)))>>)
           v3 == read_atom(input, i + 1, m - 128)
           v4 == read_atom(input, i + 2, k8)
           v5 == read_atom(input, i + 3, k9)
           v6 == ReadPair(i, l, r)
           v7 == ReadTo(Error("serialized atom too large"), i + 1, <<>>)
           v8 == ReadTo(EOF, i + 1, <<>>)
           x == ReadAt(input, i, l, r)
<1>0. n \in Nat /\ i \in Nat /\ i + 1 \in 1..n /\ i + 1 \in i..n /\ m \in Nat
  <2>1. i + 1 \in 1..n
    OBVIOUS
  <2> QED
    BY <2>1
<1>1. \A j \in {i + 2, i + 3} : j <= n => j \in i..n /\ j \in 1..n /\ input[j] \in Nat
  BY <1>0
<1>2. /\ Got(input, ReadTo(EOF, i + 1, <<>>), i)
      /\ \A msg : Got(input, ReadTo(Error(msg), i + 1, <<>>), i)
      /\ \A a, b : IsWhole(a) /\ b \in 0..1 => Got(input, ReadTo(a, i + 1, <<Leg(336, b)>>), i)
  BY <1>0, GotPlain
<1>3. RD_PER_ELEMENT = 336
  BY DEF RD_PER_ELEMENT, ELEMENT_ALLOC
<1>4. \A j \in i..n, k \in Nat : Got(input, read_atom(input, j, k), i)
  BY <1>0, GotAtom
<1>5. x = CASE g1 -> v1 [] g2 -> v2 [] g3 -> v3 [] g4 -> v4 [] g5 -> v5 [] g6 -> v6 [] g7 -> v7
            [] OTHER -> v8
  BY DEF ReadAt
<1>6. Got(input, v1, i)
  BY <1>2, <1>3, Interned
<1>7. Got(input, v2, i)
  <2>1. IsWhole(Atom(m, 1)) /\ Fresh(Atom(m, 1)) \in 0..1
    BY <1>0, NumberAtom, FreshCount
  <2> QED
    BY <1>2, <1>3, <2>1
<1>8. ASSUME g3
      PROVE  Got(input, v3, i)
  <2>1. m - 128 \in Nat
    <3> HIDE DEF m
    <3> QED
      BY <1>0, <1>8
  <2> QED
    BY <1>0, <1>4, <2>1
<1>9. ASSUME g4
      PROVE  Got(input, v4, i)
  <2>1. i + 2 \in i..n /\ input[i + 2] \in Nat
    <3>1. i + 2 <= n
      BY <1>0, <1>9
    <3> QED
      BY <1>1, <3>1
  <2>2. k8 \in Nat
    <3> DEFINE y == input[i + 2]
               z == input[i + 3]
    <3>1. y \in Nat
      BY <2>1
    <3> HIDE DEF m, y, z
    <3>2. (m - 192) * 256 + y \in Nat
      BY <1>0, <1>9, <3>1
    <3> QED
      BY <3>2 DEF y, z
  <2> HIDE DEF k8
  <2> QED
    BY <1>4, <2>1, <2>2
<1>10. ASSUME g5
      PROVE  Got(input, v5, i)
  <2>1. i + 3 \in i..n /\ input[i + 2] \in Nat /\ input[i + 3] \in Nat
    <3>1. i + 2 <= n /\ i + 3 <= n
      BY <1>0, <1>10
    <3> QED
      BY <1>1, <3>1
  <2>2. k9 \in Nat
    <3> DEFINE y == input[i + 2]
               z == input[i + 3]
    <3>1. y \in Nat /\ z \in Nat
      BY <2>1
    <3> HIDE DEF m, y, z
    <3>2. (m - 224) * 65536 + y * 256 + z \in Nat
      BY <1>0, <1>10, <3>1
    <3> QED
      BY <3>2 DEF y, z
  <2> HIDE DEF k9
  <2> QED
    BY <1>4, <2>1, <2>2
<1>11. Got(input, v6, i) /\ Got(input, v7, i) /\ Got(input, v8, i)
  BY <1>2, GotPair
<1>12. x = v1 \/ x = v2 \/ (g3 /\ x = v3) \/ (g4 /\ x = v4) \/ (g5 /\ x = v5) \/ x = v6 \/ x = v7 \/ x = v8
  <2> HIDE DEF g1, g2, g3, g4, g5, g6, g7, v1, v2, v3, v4, v5, v6, v7, v8, x
  <2> QED
    BY <1>5
<1> HIDE DEF g1, g2, g3, g4, g5, g6, g7, v1, v2, v3, v4, v5, v6, v7, v8, x
<1>13. Got(input, x, i)
  BY <1>6, <1>7, <1>8, <1>9, <1>10, <1>11, <1>12
<1> QED
  BY <1>13 DEF x

\* A turn of the decoder reads what the later turns found.
LEMMA GotTurn ==
    ASSUME NEW input \in Seq(Nat), NEW i \in 0..Len(input), NEW g,
           \A j \in 0..Len(input) : j > i => Got(input, g[j], j)
    PROVE  Got(input, ReadTurn(input, g, i), i)
<1>1. CASE i = Len(input)
  <2>1. i \in i..Len(input)
    OBVIOUS
  <2> QED
    BY <1>1, <2>1, GotPlain DEF ReadTurn
<1>2. CASE i # Len(input)
  <2>1. i + 1 \in 0..Len(input) /\ i + 1 > i
    BY <1>2
  <2>2. Got(input, g[i + 1], i + 1)
    BY <2>1
  <2>3. g[i + 1].next \in i + 1..Len(input)
    BY <2>2 DEF Got
  <2>4. g[i + 1].next \in 0..Len(input) /\ g[i + 1].next > i
    BY <2>3
  <2>5. Got(input, g[g[i + 1].next], g[i + 1].next)
    BY <2>4
  <2> QED
    BY <1>2, <2>2, <2>5, GotAt DEF ReadTurn
<1> QED
  BY <1>1, <1>2

\* The turns that a later turn looks at are all it depends on.
LEMMA SameTurn ==
    ASSUME NEW input \in Seq(Nat), NEW i \in 0..Len(input), NEW g, NEW f,
           \A j \in 0..Len(input) : j > i => Got(input, g[j], j) /\ f[j] = g[j]
    PROVE  ReadTurn(input, f, i) = ReadTurn(input, g, i)
<1>1. CASE i = Len(input)
  BY <1>1 DEF ReadTurn
<1>2. CASE i # Len(input)
  <2>1. i + 1 \in 0..Len(input) /\ i + 1 > i
    BY <1>2
  <2>2. Got(input, g[i + 1], i + 1) /\ f[i + 1] = g[i + 1]
    BY <2>1
  <2>3. g[i + 1].next \in i + 1..Len(input)
    BY <2>2 DEF Got
  <2>4. g[i + 1].next \in 0..Len(input) /\ g[i + 1].next > i
    BY <2>3
  <2>5. f[g[i + 1].next] = g[g[i + 1].next]
    BY <2>4
  <2> QED
    BY <1>2, <2>2, <2>5, Zenon DEF ReadTurn
<1> QED
  BY <1>1, <1>2

\* The decoder has its turns, from the end of the input down.
LEMMA ReadTurnsExist ==
    ASSUME NEW input \in Seq(Nat)
    PROVE  \E g : ReadTurns(input, 0, g)
<1> DEFINE n == Len(input)
           T == {k \in 0..n : \E g : /\ ReadTurns(input, n - k, g)
                                     /\ \A j \in n-k..n : Got(input, g[j], j)}
<1>0. n \in Nat
  OBVIOUS
<1>1. 0 \in T
  <2> DEFINE g == [i \in n..n |-> ReadTo(EOF, n, <<>>)]
  <2>1. \A f : \A i \in n..n : ReadTurn(input, f, i) = ReadTo(EOF, n, <<>>)
    BY DEF ReadTurn
  <2>2. ReadTurns(input, n, g)
    BY <2>1, Zenon DEF ReadTurns
  <2>3. n \in n..n /\ n \in 0..Len(input) /\ n \in n..Len(input)
    BY <1>0
  <2>4. Got(input, ReadTo(EOF, n, <<>>), n)
    BY <2>3, GotPlain
  <2>5. \A j \in n..n : Got(input, g[j], j)
    BY <1>0, <2>4
  <2>6. n - 0 = n /\ 0 \in 0..n
    BY <1>0
  <2> HIDE DEF g
  <2> QED
    BY <2>2, <2>5, <2>6
<1>2. ASSUME NEW k \in 0..n, k # n, k \in T
      PROVE  k + 1 \in T
  <2>1. PICK g : ReadTurns(input, n - k, g) /\ \A j \in n-k..n : Got(input, g[j], j)
    BY <1>2
  <2> DEFINE m == n - (k + 1)
             f == [i \in m..n |-> IF i = m THEN ReadTurn(input, g, m) ELSE g[i]]
  <2>2. m \in 0..n /\ m + 1 = n - k /\ m # n /\ k + 1 \in 0..n
    BY <1>0, <1>2
  <2> HIDE DEF m
  <2>3. \A j \in 0..n : j > m => j \in n-k..n /\ j \in m..n /\ j # m
    BY <1>0, <2>2
  <2>4. /\ f = [i \in m..n |-> f[i]] /\ f[m] = ReadTurn(input, g, m)
        /\ \A j \in m..n : j # m => f[j] = g[j]
    BY <1>0, <2>2
  <2> HIDE DEF f
  <2>5. \A j \in 0..n : j > m => Got(input, g[j], j) /\ f[j] = g[j]
    BY <2>1, <2>3, <2>4
  <2>6. Got(input, f[m], m)
    BY <2>2, <2>4, <2>5, GotTurn
  <2>7. \A j \in m..n : Got(input, f[j], j)
    <3> TAKE j \in m..n
    <3>1. CASE j = m
      BY <2>6, <3>1
    <3>2. CASE j # m
      <4>1. j \in 0..n /\ j > m
        BY <1>0, <2>2, <3>2
      <4> QED
        BY <2>5, <4>1
    <3> QED
      BY <3>1, <3>2
  <2>8. \A i \in m..n : ReadTurn(input, f, i) = f[i]
    <3> TAKE i \in m..n
    <3>1. i \in 0..n /\ i >= m
      BY <1>0, <2>2
    <3>2. \A j \in 0..n : j > i => Got(input, g[j], j) /\ f[j] = g[j]
      BY <1>0, <2>2, <2>5, <3>1
    <3>3. ReadTurn(input, f, i) = ReadTurn(input, g, i)
      BY <3>1, <3>2, SameTurn
    <3>4. CASE i = m
      BY <2>4, <3>3, <3>4
    <3>5. CASE i # m
      <4>1. i > m
        BY <1>0, <2>2, <3>1, <3>5
      <4>2. i \in n-k..n /\ f[i] = g[i]
        BY <2>3, <2>5, <3>1, <4>1
      <4>3. g[i] = ReadTurn(input, g, i)
        <5>1. \A j \in n-k..n : g[j] = ReadTurn(input, g, j)
          BY <2>1, Zenon DEF ReadTurns
        <5> QED
          BY <4>2, <5>1, Zenon
      <4> QED
        BY <3>3, <4>2, <4>3
    <3> QED
      BY <3>4, <3>5
  <2>9. ReadTurns(input, m, f)
    BY <2>4, <2>8 DEF ReadTurns
  <2>10. k + 1 \in T
    BY <2>2, <2>7, <2>9, Zenon DEF m
  <2> QED
    BY <2>10
<1> HIDE DEF n, T
<1>3. n \in T
  <2>1. \A k \in 0..n : k \in T
    BY <1>0, <1>1, <1>2, Climb
  <2>2. n \in 0..n
    BY <1>0
  <2> QED
    BY <2>1, <2>2
<1>4. n - n = 0
  BY <1>0
<1> QED
  BY <1>3, <1>4 DEF T

\* So the decoder reads an element, an error or the end of its input.
LEMMA GotAll ==
    ASSUME NEW input \in Seq(Nat)
    PROVE  Got(input, _Deserialize(input), 0)
<1> DEFINE n == Len(input)
           g == CHOOSE f : ReadTurns(input, 0, f)
           T == {k \in 0..n : \A j \in n-k..n : Got(input, g[j], j)}
<1>0. n \in Nat
  OBVIOUS
<1>1. ReadTurns(input, 0, g)
  BY ReadTurnsExist
<1>2. _Deserialize(input) = g[0]
  BY DEF _Deserialize, ReadTurns, ReadTurn, ReadAt
<1> HIDE DEF g
<1>3. \A i \in 0..n : g[i] = ReadTurn(input, g, i)
  BY <1>1 DEF ReadTurns
<1>4. ASSUME NEW i \in 0..n, \A j \in 0..n : j > i => Got(input, g[j], j)
      PROVE  Got(input, g[i], i)
  BY <1>3, <1>4, GotTurn
<1>5. 0 \in T
  <2>1. n \in 0..n /\ \A j \in 0..n : ~(j > n)
    BY <1>0
  <2>2. Got(input, g[n], n)
    BY <1>4, <2>1
  <2>3. \A j \in n-0..n : j = n
    BY <1>0
  <2>4. 0 \in 0..n
    BY <1>0
  <2> QED
    BY <2>2, <2>3, <2>4
<1>6. ASSUME NEW k \in 0..n, k # n, k \in T
      PROVE  k + 1 \in T
  <2> DEFINE m == n - (k + 1)
  <2>1. m \in 0..n /\ k + 1 \in 0..n /\ \A j \in 0..n : j > m => j \in n-k..n
    BY <1>0, <1>6
  <2>2. Got(input, g[m], m)
    BY <1>4, <1>6, <2>1
  <2>3. \A j \in m..n : j = m \/ j \in n-k..n
    BY <1>0, <1>6
  <2> HIDE DEF m
  <2>4. \A j \in m..n : Got(input, g[j], j)
    BY <1>6, <2>2, <2>3
  <2> QED
    BY <2>1, <2>4 DEF m
<1> HIDE DEF n, T
<1>7. n \in T
  <2>1. \A k \in 0..n : k \in T
    BY <1>0, <1>5, <1>6, Climb
  <2>2. n \in 0..n
    BY <1>0
  <2> QED
    BY <2>1, <2>2
<1>8. 0 \in n-n..n
  BY <1>0
<1> QED
  BY <1>2, <1>7, <1>8 DEF T

\* rd charges for what it reads, and for the bytes it finds left over.
LEMMA EndRead ==
    ASSUME NEW a, IsElement(a[1])
    PROVE  EndsWell(1 + (IF IsAtom(a[1]) THEN a[1].width ELSE 0), op_list_read(a))
<1>1. CASE ~IsAtom(a[1])
  <2>1. EndsWell(1, Fails(RD_BASE, "rd: argument must be atom"))
    BY FailsEnds, ZenonT(40) DEF RD_BASE
  <2>2. op_list_read(a) = Fails(RD_BASE, "rd: argument must be atom")
    BY <1>1, Zenon DEF op_list_read
  <2>3. 1 + (IF IsAtom(a[1]) THEN a[1].width ELSE 0) = 1
    BY <1>1
  <2> QED
    BY <2>1, <2>2, <2>3, Zenon
<1>2. CASE IsAtom(a[1])
  <2> DEFINE input == a[1].bytes
             top == _Deserialize(input)
             first == <<Leg(RD_BASE, 0)>>
             legs == first \o top.legs
             rest == Len(input) - top.next
             stale == Leg(2 * (RD_PER_BYTE + MALLOC_PER_BYTE) * rest, 1)
             failed == Building(legs, 1)
             size == Len(input)
             most == 1 + size
             base == IF IsError(top.val) THEN failed ELSE legs
  <2>1. input \in Seq(Nat)
    BY <1>2, ElementKinds, WholeAtom
  <2>2. op_list_read(a) = IF top.val = EOF THEN InTurn(failed, Error("insufficient data"))
                          ELSE IF rest # 0 THEN InTurn(Append(base, stale), Error("incomplete deserialization"))
                          ELSE InTurn(base, top.val)
    BY <1>2 DEF op_list_read, ReadWhole
  <2> HIDE DEF top, input
  <2>3. Got(input, top, 0)
    BY <2>1, GotAll DEF top
  <2>0. size \in Nat /\ most \in Int /\ size <= most /\ size + 1 = most
        /\ a[1].width = size
    BY <1>2, <2>1, ElementKinds, WholeAtom DEF input
  <2> HIDE DEF most
  <2> SUFFICES EndsWell(most, op_list_read(a))
    BY <1>2, <2>0, Zenon DEF most
  <2>4. (top.val = EOF \/ Deliverable(top.val)) /\ Covers(size, top.legs, 0) /\ top.next \in 0..Len(input)
    <3>1. Len(input) - 0 = size
      BY <2>0
    <3> QED
      BY <2>3, <3>1 DEF Got
  <2> HIDE DEF size
  <2>5. Covers(size, first, 192)
    BY <2>0, CoversOne DEF RD_BASE
  <2>6. Covers(size, legs, 192) /\ legs # <<>>
    <3>1. first \in Seq(LegSet) /\ first # <<>>
      <4>1. Leg(RD_BASE, 0) \in LegSet
        BY DEF RD_BASE, Leg, LegSet
      <4> QED
        BY <4>1
    <3>2. top.legs \in Seq(LegSet)
      BY <2>4 DEF Covers, Runs
    <3> HIDE DEF first
    <3>3. Covers(size, legs, 192 + 0)
      BY <2>4, <2>5, CoversJoin
    <3>4. legs # <<>>
      BY <3>1, <3>2
    <3> QED
      BY <3>3, <3>4
  <2> HIDE DEF legs, first
  <2>7. Covers(most, failed, 0) /\ failed # <<>> /\ Covers(most, legs, 0)
    <3>1. Covers(size, legs, 0 + 12 * 1) /\ Covers(size, legs, 0)
      BY <2>6, CoversLess
    <3>2. Covers(size + 1, failed, 0) /\ failed # <<>>
      BY <2>0, <2>6, <3>1, CoversBuilding
    <3>3. Covers(most, legs, 0)
      BY <2>0, <3>1, CoversWider
    <3> QED
      BY <2>0, <3>2, <3>3
  <2> HIDE DEF failed
  <2>8. Covers(most, base, 0) /\ base # <<>>
    BY <2>6, <2>7
  <2> HIDE DEF base
  <2>9. CASE top.val = EOF
    BY <2>2, <2>7, <2>9, InTurnEnds, ErrorIsErr
  <2>10. CASE top.val # EOF /\ rest # 0
    <3>1. rest \in Nat \ {0}
      <4>1. Len(input) \in Nat
        BY <2>1
      <4> QED
        BY <2>4, <2>10, <4>1
    <3>2. 2 * (RD_PER_BYTE + MALLOC_PER_BYTE) * rest \in Nat
          /\ 12 * 1 + 0 <= 2 * (RD_PER_BYTE + MALLOC_PER_BYTE) * rest
      <4>1. 2 * (RD_PER_BYTE + MALLOC_PER_BYTE) = 28
        BY DEF RD_PER_BYTE, MALLOC_PER_BYTE
      <4>2. \A z \in Nat \ {0} : 28 * z \in Nat /\ 12 * 1 + 0 <= 28 * z
        OBVIOUS
      <4> QED
        BY <3>1, <4>1, <4>2
    <3> HIDE DEF rest
    <3>3. Covers(most, <<stale>>, 0)
      <4>1. 1 <= most
        BY <2>0
      <4> QED
        BY <2>0, <3>2, <4>1, CoversOne
    <3> HIDE DEF stale
    <3>4. Covers(most, base \o <<stale>>, 0 + 0)
      BY <2>8, <3>3, CoversJoin
    <3>5. base \in Seq(LegSet) /\ <<stale>> \in Seq(LegSet)
      BY <2>8, <3>3 DEF Covers, Runs
    <3>6. base \o <<stale>> = Append(base, stale) /\ Append(base, stale) # <<>>
      <4>1. stale \in LegSet
        BY <3>2 DEF stale, Leg, LegSet
      <4>2. \A t \in Seq(LegSet), e \in LegSet : t \o <<e>> = Append(t, e) /\ Append(t, e) # <<>>
        BY AppendProperties, AppendIsConcat
      <4> QED
        BY <3>5, <4>1, <4>2
    <3> DEFINE all == Append(base, stale)
    <3>7. Covers(most, all, 0) /\ all # <<>>
      <4>1. 0 + 0 = 0
        OBVIOUS
      <4> QED
        BY <3>4, <3>6, <4>1, Zenon
    <3> HIDE DEF all
    <3>8. EndsWell(most, InTurn(all, Error("incomplete deserialization")))
      BY <3>7, InTurnEnds, ErrorIsErr
    <3> QED
      BY <2>2, <2>10, <3>8 DEF all
  <2>11. CASE top.val # EOF /\ ~(rest # 0)
    BY <2>2, <2>4, <2>8, <2>11, InTurnEnds
  <2> QED
    BY <2>9, <2>10, <2>11
<1> QED
  BY <1>1, <1>2

-----------------------------------------------------------------------------
(***************************************************************************)
(* Every operator: what it folds an argument to and what it ends with.     *)
(***************************************************************************)
\* The bytes that rd decodes.
Decoded(op, st) ==
    LET args == st.val1
    IN  IF op = "rd" /\ IsCons(st) /\ IsCons(args) /\ IsAtom(args.val1)
        THEN args.val1.width ELSE 0

\* It is a natural number.
LEMMA DecodedNatural ==
    ASSUME NEW op, NEW st, IsElement(st)
    PROVE  Decoded(op, st) \in Nat
<1>1. CASE IsCons(st) /\ IsCons(st.val1) /\ IsAtom(st.val1.val1)
  <2>1. IsElement(st.val1)
    BY <1>1, ElementKinds
  <2>2. IsElement(st.val1.val1)
    BY <1>1, <2>1, ElementKinds
  <2>3. st.val1.val1.width \in Nat
    BY <1>1, <2>2, ElementKinds, WholeAtom
  <2> QED
    BY <2>3 DEF Decoded
<1>2. CASE ~(IsCons(st) /\ IsCons(st.val1) /\ IsAtom(st.val1.val1))
  BY <1>2 DEF Decoded
<1> QED
  BY <1>1, <1>2

\* A path that builds little builds no more than something larger.
LEMMA EndsWider ==
    ASSUME NEW few \in Int, NEW most \in Int, few <= most, NEW r, EndsWell(few, r)
    PROVE  EndsWell(most, r)
<1>1. PICK p : Runs(r.legs, p) /\ 12 * r.built <= r.cost + 12 + p[Len(r.legs)]
  BY DEF EndsWell
<1>2. \A k \in 1..Len(r.legs) : r.legs[k].built \in Nat /\ r.legs[k].built <= few
  BY <1>1, RunsOf DEF EndsWell, Thin
<1>3. Thin(most, r.legs)
  BY <1>2 DEF Thin
<1>4. r.built \in Nat /\ r.built <= few
  BY DEF EndsWell
<1>5. r.built <= most
  BY <1>4
<1> QED
  BY <1>3, <1>5 DEF EndsWell

\* The operators of fixed arity, on the arguments they have collected; rd may
\* build as many pairs as it has bytes to decode.
LEMMA EndFix ==
    ASSUME NEW view, Answers(view), NEW op \in FixNames, NEW st, IsElement(st), FixHeld(op, st)
    PROVE  EndsWell(1 + Decoded(op, st), FixFinish(view, op, st))
<1> DEFINE a == FixArgs(st)
           n == Collected(st)
           few == Fails(0, "too few arguments")
           none == Fails(CONTROL_BASE, "Exception")
           x == FixFinish(view, op, st)
<1>0. Decoded(op, st) \in Nat
  BY DecodedNatural
<1>1. EndsWell(1, few) /\ EndsWell(1, none)
  BY FailsEnds DEF CONTROL_BASE
<1>2. x = IF n < MinArgs[op] THEN few
          ELSE CASE op = "x" -> none
               [] op = "i" -> op_i(a)
               [] op = "h" -> op_h(a)
               [] op = "t" -> op_t(a)
               [] op = "l" -> op_l(a)
               [] op = "%" -> op_mod(a)
               [] op = "shift"  -> op_shift(a)
               [] op = "substr" -> op_substr(a)
               [] op = "rd" -> op_list_read(a)
               [] op = "wr" -> op_list_write(a)
               [] op = "bip340_verify" -> op_bip340_verify(a)
               [] op = "ecdsa_verify"  -> op_ecdsa_verify(a)
               [] op = "bip342_txmsg"  -> op_bip342_txmsg(view, a)
  BY DEF FixFinish
<1>3. op # "x" => n \in 0..3 /\ Len(a) = n /\ \A k \in 1..n : IsElement(a[k])
  BY Arguments
<1>4. MinArgs[op] \in 0..3
  BY FixTable
<1> HIDE DEF a, n, few, none, x
<1>8. \A r : EndsWell(1, r) => EndsWell(1 + Decoded(op, st), r)
  <2> DEFINE y == Decoded(op, st)
  <2>1. 1 \in Int /\ 1 + y \in Int /\ 1 <= 1 + y
    BY <1>0
  <2> HIDE DEF y
  <2>2. \A r : EndsWell(1, r) => EndsWell(1 + y, r)
    BY <2>1, EndsWider
  <2> QED
    BY <2>2 DEF y
<1>5. CASE op = "x"
  <2>1. x = few \/ x = none
    BY <1>2, <1>5
  <2> QED
    BY <1>1, <1>8, <2>1 DEF x
<1>6. CASE op # "x" /\ n < MinArgs[op]
  BY <1>1, <1>2, <1>6, <1>8 DEF x
<1>7. CASE op # "x" /\ ~(n < MinArgs[op])
  <2>0. n \in 0..3 /\ n >= MinArgs[op] /\ Len(a) = n /\ \A k \in 1..n : IsElement(a[k])
    BY <1>3, <1>4, <1>7
  <2>1. CASE op \in {"i", "h", "t", "l", "wr"}
    <3>1. MinArgs[op] = 1
      BY <2>1, FixTable
    <3>2. n \in 1..3 /\ Len(a) \in 1..3 /\ IsElement(a[1]) /\ \A k \in 1..Len(a) : IsElement(a[k])
      BY <2>0, <3>1
    <3>3. EndsWell(1, op_i(a)) /\ EndsWell(1, op_h(a)) /\ EndsWell(1, op_t(a)) /\ EndsWell(1, op_l(a))
      BY <3>2, ControlEnds
    <3>4. EndsWell(1, op_list_write(a))
      BY <3>2, EndWrite
    <3>5. x \in {op_i(a), op_h(a), op_t(a), op_l(a), op_list_write(a)}
      BY <1>2, <1>7, <2>1
    <3> QED
      BY <1>8, <3>3, <3>4, <3>5 DEF x
  <2>2. CASE op \in {"%", "shift"}
    <3>1. MinArgs[op] = 2
      BY <2>2, FixTable
    <3>2. IsElement(a[1]) /\ IsElement(a[2])
      BY <2>0, <3>1
    <3>3. x \in {op_mod(a), op_shift(a)}
      BY <1>2, <1>7, <2>2
    <3> QED
      BY <1>8, <3>2, <3>3, ModEnds, ShiftEnds DEF x
  <2>3. CASE op = "substr"
    <3>1. x = op_substr(a)
      BY <1>2, <1>7, <2>3
    <3>2. Len(a) \in 0..3 /\ \A k \in 1..Len(a) : IsElement(a[k])
      BY <2>0
    <3> QED
      BY <1>8, <3>1, <3>2, SubstrEnds DEF x
  <2>4. CASE op \in {"bip340_verify", "ecdsa_verify"}
    <3>1. MinArgs[op] = 3
      BY <2>4, FixTable
    <3>2. \A k \in 1..3 : IsElement(a[k])
      BY <2>0, <3>1
    <3>3. x \in {op_bip340_verify(a), op_ecdsa_verify(a)}
      BY <1>2, <1>7, <2>4
    <3> QED
      BY <1>8, <3>2, <3>3, SignatureEnds DEF x
  <2>5. CASE op = "rd"
    <3>1. MinArgs[op] = 1 /\ MaxArgs[op] = 1
      BY <2>5, FixTable
    <3>2. ~IsNil(st) /\ AsInt(st.val2) = n /\ n >= 1
      BY <2>0, <3>1 DEF Collected, n
    <3>3. n = 1 /\ IsCons(st) /\ Links(st.val1, 1)
      BY <2>0, <3>1, <3>2 DEF FixHeld
    <3>4. IsCons(st.val1) /\ a = <<st.val1.val1>>
      BY <3>3 DEF Links, FixArgs, a, n
    <3>5. a[1] = st.val1.val1 /\ IsElement(a[1])
      BY <2>0, <3>3, <3>4
    <3>6. EndsWell(1 + (IF IsAtom(a[1]) THEN a[1].width ELSE 0), op_list_read(a))
      BY <3>5, EndRead
    <3>7. Decoded(op, st) = IF IsAtom(a[1]) THEN a[1].width ELSE 0
      BY <2>5, <3>3, <3>4, <3>5 DEF Decoded
    <3>8. x = op_list_read(a)
      BY <1>2, <1>7, <2>5
    <3> QED
      BY <3>6, <3>7, <3>8, Zenon DEF x
  <2>6. CASE op = "bip342_txmsg"
    <3>1. x = op_bip342_txmsg(view, a)
      BY <1>2, <1>7, <2>6
    <3> QED
      BY <1>8, <3>1, MessageEnds DEF x
  <2> QED
    BY <1>7, <2>1, <2>2, <2>3, <2>4, <2>5, <2>6 DEF FixNames
<1> QED
  BY <1>5, <1>6, <1>7

\* Only the hashes and the unknown operators keep an internal state.
LEMMA HeldOutside ==
    ASSUME NEW op, NEW ist, NEW st, Held(op, ist, st), op \notin HashNames, op # "unknown"
    PROVE  Held(op, <<>>, st)
BY DEF Held

\* However an operator came to its state, what it ends with is paid for, and
\* between two charges it builds one element at most; rd may build one more than
\* it has bytes to decode.
THEOREM OperatorsEnd ==
    ASSUME NEW view, Answers(view),
           NEW op \in Operators, NEW ist, NEW st, IsElement(st), Held(op, ist, st)
    PROVE  EndsWell(1 + Decoded(op, st), finish(view, op, ist, st))
<1> DEFINE x == finish(view, op, ist, st)
           picked == IF IsAtom(st) THEN st ELSE st.val1
           listed == IF IsCons(st) THEN st.val2 ELSE st
<1>1. x = CASE op \in FixNames -> FixFinish(view, op, st)
            [] op = "unknown" -> UnknownFinish(ist)
            [] op = "-"       -> FinishSub(st)
            [] op \in AtomStates \cup {"tx"} -> Borrows(ELEMENT_ALLOC, st)
            [] op \in {"<", "<s"} -> Borrows(0, picked)
            [] op \in {"=", "===", "rc"} -> Borrows(0, listed)
            [] op \in {"notall", "all", "any"} -> Borrows(0, st)
            [] op = "b"  -> FinishB(st)
            [] op \in HashNames -> HashFinish(op, ist)
            [] op = "secp256k1_muladd" -> MuladdFinish(st)
  BY FixTable DEF finish, AtomStates
<1>2. IsElement(listed)
  BY ElementKinds
<1>3. op \in {"<", "<s"} => IsElement(picked)
  BY ElementKinds DEF Held, PairStates
<1>4. \A e : IsElement(e) => EndsWell(1, Borrows(0, e)) /\ EndsWell(1, Borrows(ELEMENT_ALLOC, e))
  BY ElementEnds DEF ELEMENT_ALLOC
<1>15. \A r : EndsWell(1, r) => EndsWell(1 + Decoded(op, st), r)
  <2> DEFINE y == Decoded(op, st)
  <2>1. y \in Nat
    BY DecodedNatural
  <2>2. 1 \in Int /\ 1 + y \in Int /\ 1 <= 1 + y
    BY <2>1
  <2> HIDE DEF y
  <2>3. \A r : EndsWell(1, r) => EndsWell(1 + y, r)
    BY <2>2, EndsWider
  <2> QED
    BY <2>3 DEF y
<1> HIDE DEF x, picked, listed
<1>5. CASE op \in FixNames
  <2>1. x = FixFinish(view, op, st)
    BY <1>1, <1>5 DEF FixNames, AtomStates, HashNames
  <2>2. FixHeld(op, st)
    BY <1>5 DEF Held
  <2> QED
    BY <1>5, <2>1, <2>2, EndFix DEF x
<1>6. CASE op = "unknown"
  <2>1. x = UnknownFinish(ist)
    BY <1>1, <1>6 DEF FixNames, AtomStates, HashNames
  <2>2. ist \in UnknownStates
    BY <1>6 DEF Held
  <2> QED
    BY <1>15, <2>1, <2>2, EndUnknown DEF x
<1>7. CASE op = "-"
  <2>1. x = FinishSub(st)
    BY <1>1, <1>7 DEF FixNames, AtomStates, HashNames
  <2>2. Held("-", <<>>, st)
    BY <1>7, HeldOutside DEF HashNames
  <2> QED
    BY <1>15, <2>1, <2>2, EndSub DEF x
<1>8. CASE op \in AtomStates \cup {"tx"}
  <2>1. x = Borrows(ELEMENT_ALLOC, st)
    BY <1>1, <1>8 DEF FixNames, AtomStates, HashNames
  <2> QED
    BY <1>15, <1>4, <2>1 DEF x
<1>9. CASE op \in {"<", "<s"}
  <2>1. x = Borrows(0, picked)
    BY <1>1, <1>9 DEF FixNames, AtomStates, HashNames
  <2> QED
    BY <1>15, <1>3, <1>4, <1>9, <2>1 DEF x
<1>10. CASE op \in {"=", "===", "rc"}
  <2>1. x = Borrows(0, listed)
    BY <1>1, <1>10 DEF FixNames, AtomStates, HashNames
  <2> QED
    BY <1>15, <1>2, <1>4, <2>1 DEF x
<1>11. CASE op \in {"notall", "all", "any"}
  <2>1. x = Borrows(0, st)
    BY <1>1, <1>11 DEF FixNames, AtomStates, HashNames
  <2> QED
    BY <1>15, <1>4, <2>1 DEF x
<1>12. CASE op = "b"
  <2>1. x = FinishB(st)
    BY <1>1, <1>12 DEF FixNames, AtomStates, HashNames
  <2>2. CounterHeld(st)
    BY <1>12 DEF Held
  <2> QED
    BY <1>15, <2>1, <2>2, EndB DEF x
<1>13. CASE op \in HashNames
  <2>1. x = HashFinish(op, ist)
    BY <1>1, <1>13 DEF FixNames, AtomStates, HashNames
  <2>2. ist \in Seq(Nat)
    BY <1>13 DEF Held
  <2> QED
    BY <1>15, <1>13, <2>1, <2>2, EndHash DEF x
<1>14. CASE op = "secp256k1_muladd"
  <2>1. x = MuladdFinish(st)
    BY <1>1, <1>14 DEF FixNames, AtomStates, HashNames
  <2> QED
    BY <1>15, <2>1, EndMuladd DEF x
<1> QED
  BY <1>5, <1>6, <1>7, <1>8, <1>9, <1>10, <1>11, <1>12, <1>13, <1>14
     DEF Operators, PairStates, FreeStates

\* However an operator came to its state, one more argument is paid for and
\* leaves a state of the operator's kind, or an error.
THEOREM OperatorsFold ==
    ASSUME NEW view, Answers(view),
           NEW op \in Operators, NEW ist, NEW st, IsElement(st), Held(op, ist, st),
           NEW arg, IsElement(arg)
    PROVE  FoldsTo(op, argument(view, op, ist, st, arg))
<1> DEFINE x == argument(view, op, ist, st, arg)
<1>1. x = CASE op \in FixNames -> FixArgument(op, st, arg)
      [] op = "unknown" -> UnknownArgument(ist, arg)
      [] op = "+"       -> op_add(st, arg)
      [] op = "-"       -> op_sub(st, arg)
      [] op = "*"       -> op_mul(st, arg)
      [] op = "<"       -> op_lt_num(st, arg)
      [] op = "="       -> op_eq(st, arg)
      [] op = "rc"      -> op_rc(st, arg)
      [] op = "notall"  -> op_nand(st, arg)
      [] op = "all"     -> op_and(st, arg)
      [] op = "any"     -> op_or(st, arg)
      [] op = "strlen"  -> op_strlen(st, arg)
      [] op = "cat"     -> op_cat(st, arg)
      [] op = "b"       -> op_b(st, arg)
      [] op = "<s"      -> op_lt_str(st, arg)
      [] op = "==="     -> op_bigeq(st, arg)
      [] op = "|"       -> op_or_bytes(st, arg)
      [] op = "^"       -> op_xor_bytes(st, arg)
      [] op = "&"       -> op_and_bytes(st, arg)
      [] op = "~"       -> op_nand_bytes(st, arg)
      [] op \in HashNames -> HashArgument(ist, arg)
      [] op = "secp256k1_muladd" -> op_secp256k1_muladd(st, arg)
      [] op = "tx"      -> op_tx(view, st, arg)
  BY FixTable DEF argument
<1> HIDE DEF x
<1>2. op \notin HashNames /\ op # "unknown" => Held(op, <<>>, st)
  BY HeldOutside
<1>3. CASE op \in FixNames
  <2>1. x = FixArgument(op, st, arg)
    BY <1>1, <1>3 DEF FixNames, AtomStates, HashNames
  <2>2. Held(op, <<>>, st)
    BY <1>2, <1>3 DEF FixNames, HashNames
  <2> QED
    BY <1>3, <2>1, <2>2, FoldFix DEF x
<1>4. CASE op \in HashNames
  <2>1. x = HashArgument(ist, arg)
    BY <1>1, <1>4 DEF FixNames, AtomStates, HashNames
  <2>2. ist \in Seq(Nat)
    BY <1>4 DEF Held
  <2> QED
    BY <1>4, <2>1, <2>2, FoldHash DEF x
<1>5. CASE op = "unknown"
  <2>1. x = UnknownArgument(ist, arg)
    BY <1>1, <1>5 DEF FixNames, AtomStates, HashNames
  <2>2. ist \in UnknownStates
    BY <1>5 DEF Held
  <2> QED
    BY <1>5, <2>1, <2>2, FoldUnknown DEF x
<1>6. CASE op \in {"+", "*"}
  <2>1. (op = "+" /\ x = op_add(st, arg)) \/ (op = "*" /\ x = op_mul(st, arg))
    BY <1>1, <1>6 DEF FixNames, AtomStates, HashNames
  <2>2. IsAtom(st)
    BY <1>6 DEF Held, AtomStates
  <2> QED
    BY <2>1, <2>2, FoldAdd DEF x
<1>7. CASE op \in {"strlen", "cat"}
  <2>1. (op = "strlen" /\ x = op_strlen(st, arg)) \/ (op = "cat" /\ x = op_cat(st, arg))
    BY <1>1, <1>7 DEF FixNames, AtomStates, HashNames
  <2>2. IsAtom(st)
    BY <1>7 DEF Held, AtomStates
  <2> QED
    BY <2>1, <2>2, FoldLengths DEF x
<1>8. CASE op \in {"|", "^", "&", "~"}
  <2>1. \/ op = "|" /\ x = op_or_bytes(st, arg)
        \/ op = "^" /\ x = op_xor_bytes(st, arg)
        \/ op = "&" /\ x = op_and_bytes(st, arg)
        \/ op = "~" /\ x = op_nand_bytes(st, arg)
    BY <1>1, <1>8 DEF FixNames, AtomStates, HashNames
  <2>2. IsAtom(st)
    BY <1>8 DEF Held, AtomStates
  <2> QED
    BY <2>1, <2>2, FoldBits DEF x
<1>9. CASE op = "-"
  <2>1. x = op_sub(st, arg)
    BY <1>1, <1>9 DEF FixNames, AtomStates, HashNames
  <2>2. Held("-", <<>>, st)
    BY <1>2, <1>9 DEF HashNames
  <2> QED
    BY <1>9, <2>1, <2>2, FoldSub DEF x
<1>10. CASE op \in {"<", "<s"}
  <2>1. (op = "<" /\ x = op_lt_num(st, arg)) \/ (op = "<s" /\ x = op_lt_str(st, arg))
    BY <1>1, <1>10 DEF FixNames, AtomStates, HashNames
  <2>2. Held("<", <<>>, st)
    BY <1>10 DEF Held, AtomStates, PairStates, FixNames, HashNames
  <2> QED
    BY <2>1, <2>2, FoldLess DEF x
<1>11. CASE op \in FreeStates
  <2>1. \/ op = "="      /\ x = op_eq(st, arg)
        \/ op = "rc"     /\ x = op_rc(st, arg)
        \/ op = "notall" /\ x = op_nand(st, arg)
        \/ op = "all"    /\ x = op_and(st, arg)
        \/ op = "any"    /\ x = op_or(st, arg)
        \/ op = "secp256k1_muladd" /\ x = op_secp256k1_muladd(st, arg)
        \/ op = "tx"     /\ x = op_tx(view, st, arg)
    BY <1>1, <1>11 DEF FixNames, FreeStates, HashNames
  <2> QED
    BY <2>1, FoldFree, FoldTx DEF x
<1>12. CASE op = "b"
  <2>1. x = op_b(st, arg)
    BY <1>1, <1>12 DEF FixNames, AtomStates, HashNames
  <2>2. Held("b", <<>>, st)
    BY <1>2, <1>12 DEF HashNames
  <2> QED
    BY <1>12, <2>1, <2>2, FoldB DEF x
<1>13. CASE op = "==="
  <2>1. x = op_bigeq(st, arg)
    BY <1>1, <1>13 DEF FixNames, AtomStates, HashNames
  <2>2. Held("===", <<>>, st)
    BY <1>2, <1>13 DEF HashNames
  <2> QED
    BY <1>13, <2>1, <2>2, FoldBigeq DEF x
<1> QED
  BY <1>3, <1>4, <1>5, <1>6, <1>7, <1>8, <1>9, <1>10, <1>11, <1>12, <1>13
     DEF Operators, AtomStates, PairStates

\* An operator starts in a state of its own.
LEMMA InitialHeld ==
    ASSUME NEW op \in Operators, NEW n \in Nat
    PROVE  IsElement(initial_state(op)) /\ Held(op, initial_int_state(op, n), initial_state(op))
<1>1. IsElement(Nil) /\ IsElement(One) /\ IsAtom(Nil) /\ IsAtom(One) /\ IsNil(Nil)
  BY Interned, ElementAtom DEF IsNil
<1>2. initial_state(op) \in {Nil, One, Cons(Nil, Nil)}
  BY DEF initial_state
<1>3. IsElement(initial_state(op))
  BY <1>1, <1>2, ElementPair
<1>4. CASE op \in AtomStates
  <2>1. initial_state(op) \in {Nil, One}
    BY <1>4 DEF initial_state, AtomStates
  <2> QED
    BY <1>1, <1>3, <1>4, <2>1 DEF Held, AtomStates, PairStates, FixNames, HashNames
<1>5. CASE op \in PairStates
  <2>1. IsAtom(initial_state(op)) \/ (IsCons(initial_state(op)) /\ IsAtom(initial_state(op).val2))
    BY <1>1, <1>5, PairKind DEF initial_state, PairStates
  <2> QED
    BY <1>3, <1>5, <2>1 DEF Held, AtomStates, PairStates, FixNames, HashNames
<1>6. CASE op \in FreeStates
  BY <1>3, <1>6 DEF Held, AtomStates, PairStates, FreeStates, FixNames, HashNames
<1>7. CASE op = "==="
  <2>1. initial_state(op) = One
    BY <1>7 DEF initial_state
  <2> QED
    BY <1>1, <1>3, <1>7, <2>1 DEF Held, AtomStates, PairStates, FixNames, HashNames
<1>8. CASE op \in FixNames \cup {"b"}
  <2>1. initial_state(op) = Nil
    BY <1>8 DEF initial_state, FixNames
  <2>2. FixHeld(op, Nil) /\ CounterHeld(Nil)
    BY <1>1 DEF FixHeld, CounterHeld
  <2> QED
    BY <1>3, <1>8, <2>1, <2>2 DEF Held, AtomStates, PairStates, FixNames, HashNames
<1>9. CASE op \in HashNames
  <2>1. initial_int_state(op, n) = <<>> /\ <<>> \in Seq(Nat)
    BY <1>9 DEF initial_int_state, HashNames
  <2> QED
    BY <1>3, <1>9, <2>1 DEF Held, AtomStates, PairStates, FixNames, HashNames
<1>10. CASE op = "unknown"
  <2>1. initial_int_state(op, n) \in UnknownStates
    <3>1. (n \div 64) % 4 \in 0..3 /\ n \div 256 \in Nat
      <4>1. n \div 64 \in Nat
        OBVIOUS
      <4> QED
        BY <4>1
    <3> QED
      BY <1>10, <3>1 DEF initial_int_state, from_opnum, UnknownStates
  <2> QED
    BY <1>3, <1>10, <2>1 DEF Held, AtomStates, PairStates, FixNames, HashNames
<1> QED
  BY <1>4, <1>5, <1>6, <1>7, <1>8, <1>9, <1>10 DEF Operators

\* The table names operators only.
LEMMA TableOperators ==
    \A n \in DOMAIN Op_FUNCS : Op_FUNCS[n] \in Operators /\ n \in Nat
<1>1. \A n \in (4..27) \cup {30} \cup (32..42) \cup {255} :
          (CASE n =  4 -> "x"      [] n =  5 -> "i"      [] n =  6 -> "rc"  [] n =  7 -> "h"
          [] n =  8 -> "t"      [] n =  9 -> "l"      [] n = 10 -> "b"
          [] n = 11 -> "notall" [] n = 12 -> "all"    [] n = 13 -> "any" [] n = 14 -> "="
          [] n = 15 -> "<s"     [] n = 16 -> "strlen" [] n = 17 -> "substr"
          [] n = 18 -> "cat"    [] n = 19 -> "~"      [] n = 20 -> "&"   [] n = 21 -> "|"
          [] n = 22 -> "^"      [] n = 23 -> "+"      [] n = 24 -> "-"   [] n = 25 -> "*"
          [] n = 26 -> "%"      [] n = 27 -> "shift"  [] n = 30 -> "<"   [] n = 32 -> "rd"
          [] n = 33 -> "wr"     [] n = 34 -> "sha256" [] n = 35 -> "ripemd160"
          [] n = 36 -> "hash160"          [] n = 37 -> "hash256"
          [] n = 38 -> "bip340_verify"    [] n = 39 -> "ecdsa_verify"
          [] n = 40 -> "secp256k1_muladd" [] n = 41 -> "tx"
          [] n = 42 -> "bip342_txmsg"     [] n = 255 -> "===") \in Operators
  BY DEF Operators, FixNames, HashNames, AtomStates, PairStates, FreeStates
<1>2. \A n \in (4..27) \cup {30} \cup (32..42) \cup {255} : n \in Nat
  OBVIOUS
<1> QED
  BY <1>1, <1>2 DEF Op_FUNCS

-----------------------------------------------------------------------------
(***************************************************************************)
(* References into the environment.                                        *)
(***************************************************************************)
EdgeTurn(env, n, g, k) ==
    IF k = 0 THEN env
    ELSE IF ~IsCons(g[k-1]) THEN Error("invalid env reference")
    ELSE IF (n \div 2^(k-1)) % 2 = 0 THEN g[k-1].val1 ELSE g[k-1].val2
EdgeTurns(env, n, w, g) == g = [k \in 0..w |-> EdgeTurn(env, n, g, k)]

\* The walk has its turns.
LEMMA EdgeTurnsExist ==
    ASSUME NEW env, NEW ref, NEW n \in Nat
    PROVE  \E g : EdgeTurns(env, ref, n, g)
<1> DEFINE T == {m \in 0..n : \E g : EdgeTurns(env, ref, m, g)}
<1>1. 0 \in T
  <2>1. EdgeTurns(env, ref, 0, [i \in 0..0 |-> env])
    BY DEF EdgeTurns, EdgeTurn
  <2> QED
    BY <2>1
<1>2. ASSUME NEW m \in 0..n, m # n, m \in T
      PROVE  m + 1 \in T
  <2>1. PICK g : EdgeTurns(env, ref, m, g)
    BY <1>2
  <2> DEFINE f == [i \in 0..m+1 |-> IF i = m + 1 THEN EdgeTurn(env, ref, g, i) ELSE g[i]]
  <2>2. \A i \in 0..m+1 : f[i] = EdgeTurn(env, ref, g, i)
    BY <2>1 DEF EdgeTurns
  <2>3. \A i \in 0..m : f[i] = g[i]
    OBVIOUS
  <2>4. \A i \in 0..m+1 : i # 0 => i - 1 \in 0..m
    OBVIOUS
  <2> HIDE DEF f
  <2>5. \A i \in 0..m+1 : EdgeTurn(env, ref, f, i) = EdgeTurn(env, ref, g, i)
    BY <2>3, <2>4 DEF EdgeTurn
  <2>6. f = [i \in 0..m+1 |-> f[i]]
    BY DEF f
  <2>7. EdgeTurns(env, ref, m + 1, f)
    BY <2>2, <2>5, <2>6 DEF EdgeTurns
  <2> QED
    BY <1>2, <2>7
<1> HIDE DEF T
<1>3. n \in T
  BY <1>1, <1>2, Climb
<1> QED
  BY <1>3 DEF T

\* Each edge is paid for before it is followed, and a reference leads to an
\* element or an error.
LEMMA EnvironmentEnds ==
    ASSUME NEW env, IsElement(env), NEW ref \in Int
    PROVE  EndsWell(1, ResolveEnv(env, ref))
<1> DEFINE w == Edges(ref)
           g == CHOOSE f : EdgeTurns(env, ref, w, f)
           walked == Cardinality({k \in 0..w-1 : IsCons(g[k])})
           x == ResolveEnv(env, ref)
<1>1. w \in Nat
  <2> DEFINE S == {k \in 1..(8 * MaxIntBytes - 2) : ref \div 2^k >= 1}
  <2>1. IsFiniteSet(0..30)
    <3>1. 30 \in Int
      OBVIOUS
    <3> QED
      BY <3>1, SpanSize, Zenon
  <2>2. S \subseteq 0..30
    BY DEF MaxIntBytes
  <2>4. IsFiniteSet(S)
    BY <2>1, <2>2, FS_Subset
  <2> HIDE DEF S
  <2>3. Cardinality(S) \in Nat
    BY <2>4, FS_CardinalityType
  <2> QED
    BY <2>3 DEF S, Edges
<1>2. x = IF walked = w THEN Path(ENV_EDGE * walked, 0, g[w]) ELSE Path(ENV_EDGE * (walked + 1), 1, g[w])
  BY DEF ResolveEnv, EdgeTurns, EdgeTurn
<1> HIDE DEF w
<1>3. EdgeTurns(env, ref, w, g)
  BY <1>1, EdgeTurnsExist
<1> HIDE DEF g
<1>4. g[0] = env /\ \A k \in 0..w : k # w =>
          g[k+1] = IF ~IsCons(g[k]) THEN Error("invalid env reference")
                   ELSE IF (ref \div 2^k) % 2 = 0 THEN g[k].val1 ELSE g[k].val2
  <2>1. \A k \in 0..w : g[k] = EdgeTurn(env, ref, g, k)
    BY <1>3 DEF EdgeTurns
  <2>2. \A k \in 0..w : k # w => k + 1 \in 0..w /\ k + 1 # 0 /\ (k + 1) - 1 = k
    BY <1>1
  <2>3. 0 \in 0..w
    BY <1>1
  <2> QED
    BY <2>1, <2>2, <2>3 DEF EdgeTurn
<1> DEFINE T == {k \in 0..w : Deliverable(g[k])}
<1>5. \A k \in 0..w : k \in T
  <2>1. 0 \in T
    <3>1. 0 \in 0..w
      BY <1>1
    <3>2. Deliverable(env)
      BY DEF Deliverable
    <3> QED
      BY <1>4, <3>1, <3>2
  <2>2. ASSUME NEW k \in 0..w, k # w, k \in T
        PROVE  k + 1 \in T
    <3>1. IsCons(g[k]) => Deliverable(g[k].val1) /\ Deliverable(g[k].val2)
      BY <2>2, ErrKind, ElementKinds DEF Deliverable
    <3>2. k + 1 \in 0..w
      BY <1>1, <2>2
    <3>3. Deliverable(g[k+1])
      BY <1>4, <2>2, <3>1, ErrorIsErr
    <3> QED
      BY <3>2, <3>3
  <2> HIDE DEF T
  <2> QED
    BY <1>1, <2>1, <2>2, Climb
<1>6. Deliverable(g[w])
  BY <1>1, <1>5
<1>7. walked \in Nat
  <2> DEFINE S == {k \in 0..w-1 : IsCons(g[k])}
  <2>1. IsFiniteSet(0..w-1)
    BY <1>1, FS_Interval
  <2>2. IsFiniteSet(S)
    BY <2>1, FS_Subset
  <2> HIDE DEF S
  <2>3. Cardinality(S) \in Nat
    BY <2>2, FS_CardinalityType
  <2> QED
    BY <2>3 DEF S
<1> HIDE DEF walked
<1>8. ENV_EDGE * walked \in Nat /\ ENV_EDGE * (walked + 1) \in Nat
  BY <1>7 DEF ENV_EDGE
<1>9. EndsWell(1, Path(ENV_EDGE * walked, 0, g[w])) /\ EndsWell(1, Path(ENV_EDGE * (walked + 1), 1, g[w]))
  BY <1>6, <1>8, PathEnds
<1> QED
  BY <1>2, <1>9
=============================================================================
