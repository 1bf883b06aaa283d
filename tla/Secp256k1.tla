----------------------------- MODULE Secp256k1 -----------------------------
(***************************************************************************)
(* Field and group arithmetic (verystable/core/secp256k1.py) on a small    *)
(* curve of the same shape: y^2 = x^3 + 7 over a prime field whose size is *)
(* 3 modulo 4, with a group of prime order.  A field element is a fraction *)
(* that is reduced only when its integer is asked for; coordinates are     *)
(* field elements; encodings of field elements are integers, which may be  *)
(* too large to be one.                                                    *)
(***************************************************************************)
EXTENDS Integers, Sequences

\* Bounds of the model: the field, its group and the bits of a scalar (256 in
\* the code).
SIZE  == 43
ORDER == 31
ScalarBits == 5

ORDER_HALF == ORDER \div 2

None == [kind |-> "none"]

-----------------------------------------------------------------------------
Fraction(n, d) == [num |-> n % SIZE, den |-> IF n % SIZE = 0 THEN 1 ELSE d % SIZE]
FE(n)          == Fraction(n, 1)

Plus(a, b)   == Fraction(a.num * b.den + a.den * b.num, a.den * b.den)
Minus(a, b)  == Fraction(a.num * b.den - a.den * b.num, a.den * b.den)
Times(a, b)  == Fraction(a.num * b.num, a.den * b.den)
Over(a, b)   == Fraction(a.num * b.den, a.den * b.num)
Negated(a)   == Fraction(-a.num, a.den)

Equals(a, b) == (a.num * b.den - a.den * b.num) % SIZE = 0

PowMod(b, e, m) ==
    LET pow[k \in 0..e] == IF k = 0 THEN 1 % m ELSE (pow[k-1] * b) % m
    IN  pow[e]

\* pow(b, -1, m) for a prime m.
InverseMod(b, m) == CHOOSE i \in 1..m-1 : (i * b) % m = 1

Power(a, e) == Fraction(PowMod(a.num, e, SIZE), PowMod(a.den, e, SIZE))
ToInt(a)      == IF a.den = 1 THEN a.num ELSE (a.num * InverseMod(a.den, SIZE)) % SIZE
IsEven(a)   == ToInt(a) % 2 = 0

\* The candidate that the size of the field makes a root if there is one.
Sqrt(a) ==
    LET s == PowMod(ToInt(a), (SIZE + 1) \div 4, SIZE)
    IN  IF (s * s) % SIZE = ToInt(a) THEN FE(s) ELSE None

\* FE.from_bytes: no overflow allowed.
FieldFrom(v) == IF v >= SIZE THEN None ELSE FE(v)

-----------------------------------------------------------------------------
Infinity    == [kind |-> "infinity"]
Point(x, y) == [kind |-> "point", x |-> x, y |-> y]

Curve(x) == Plus(Power(x, 3), FE(7))

\* GE.__init__ asserts this of every point it makes.
OnCurve(p) == p.kind = "point" => Equals(Power(p.y, 2), Curve(p.x))

SamePoint(p, q) ==
    \/ p.kind = "infinity" /\ q.kind = "infinity"
    \/ p.kind = "point" /\ q.kind = "point" /\ Equals(p.x, q.x) /\ Equals(p.y, q.y)

\* The third intersection of the line of slope lam, mirrored.
OnLine(p, lam, x) == Point(x, Minus(Times(lam, Minus(p.x, x)), p.y))
Through(p, q, lam) == OnLine(p, lam, Minus(Power(lam, 2), Plus(p.x, q.x)))

Tangent(p) == Over(Times(FE(3), Power(p.x, 2)), Times(FE(2), p.y))
Chord(p, q) == Over(Minus(p.y, q.y), Minus(p.x, q.x))

\* Mutant: the mirror image of the sum.
AddFlipped(p, q) ==
    IF p.kind = "infinity" THEN q
    ELSE IF q.kind = "infinity" THEN p
    ELSE IF ~Equals(p.x, q.x)
    THEN LET r == Through(p, q, Chord(p, q)) IN Point(r.x, Negated(r.y))
    ELSE IF ~Equals(p.y, q.y) THEN Infinity
    ELSE Through(p, p, Tangent(p))

Add(p, q) ==
    IF p.kind = "infinity" THEN q
    ELSE IF q.kind = "infinity" THEN p
    ELSE IF ~Equals(p.x, q.x) THEN Through(p, q, Chord(p, q))
    ELSE IF ~Equals(p.y, q.y) THEN Infinity
    ELSE Through(p, p, Tangent(p))

Neg(p) == IF p.kind = "infinity" THEN p ELSE Point(p.x, Negated(p.y))

Bit(n, i) == (n \div 2^i) % 2

\* GE.mul over a sequence of [scalar, point]: doubling once per bit position,
\* then adding the points whose scalars have the bit.
Mul(aps) ==
    LET reduced(j) == aps[j].scalar % ORDER
        adding(r, i) ==
            LET sum[j \in 0..Len(aps)] ==
                    IF j = 0 THEN Add(r, r)
                    ELSE IF Bit(reduced(j), i) = 1 THEN Add(sum[j-1], aps[j].point)
                    ELSE sum[j-1]
            IN  sum[Len(aps)]
        from[i \in 0..ScalarBits] ==
            IF i = ScalarBits THEN Infinity ELSE adding(from[i + 1], i)
    IN  from[0]

Term(a, p) == [scalar |-> a, point |-> p]

\* lift_x: the point with this x and an even y.
EvenOf(x, y) == IF y = None THEN None ELSE Point(x, IF IsEven(y) THEN y ELSE Negated(y))
LiftX(x) == EvenOf(x, Sqrt(Curve(x)))

G == LiftX(FE(2))

\* FAST_G: the table of doublings of G, added up by the bits of the scalar.
FastTable ==
    LET table[i \in 0..ScalarBits-1] == IF i = 0 THEN G ELSE Add(table[i-1], table[i-1])
    IN  table

FastMul(a) ==
    LET sum[i \in 0..ScalarBits] ==
            IF i = 0 THEN Infinity
            ELSE IF Bit(a % ORDER, i - 1) = 1 THEN Add(sum[i-1], FastTable[i-1])
            ELSE sum[i-1]
    IN  sum[ScalarBits]

-----------------------------------------------------------------------------
\* The encodings: the prefix and the coordinates, big-endian.
Compressed(p)   == [prefix |-> IF IsEven(p.y) THEN 2 ELSE 3, x |-> ToInt(p.x)]
Uncompressed(p) == [prefix |-> 4, x |-> ToInt(p.x), y |-> ToInt(p.y)]
XOnly(p)        == ToInt(p.x)

FromXOnly(x) == IF FieldFrom(x) = None THEN None ELSE LiftX(FieldFrom(x))

OfParity(prefix, r) ==
    IF prefix \notin {2, 3} \/ r = None THEN None ELSE IF prefix = 3 THEN Neg(r) ELSE r
FromCompressed(b) == OfParity(b.prefix, FromXOnly(b.x))

\* A coordinate that overflows reaches the arithmetic as None and raises.
CurveRaises == [kind |-> "raises"]

FromUncompressed(b) ==
    IF b.prefix # 4 THEN None
    ELSE IF FieldFrom(b.x) = None \/ FieldFrom(b.y) = None THEN CurveRaises
    ELSE IF OnCurve(Point(FE(b.x), FE(b.y))) THEN Point(FE(b.x), FE(b.y)) ELSE None
=============================================================================
