----------------------- MODULE CanonicalDecodeProofs -----------------------
(***************************************************************************)
(* Proofs about the canonical decoder, for every input, budget limit and   *)
(* element cap: what it builds is paid for before it exists, and what it   *)
(* says agrees with the latches.                                           *)
(***************************************************************************)
EXTENDS CanonicalDecode, SequenceTheorems, FiniteSetTheorems, TLAPS

\* Budgets of a caller without guards.
Budgets == [limit : Nat, used : Nat, exhausted : BOOLEAN, allowances : {<<>>},
            guard_breach : {FALSE}, alloc_breach : BOOLEAN]

\* A sequence of anything: an element is no member of a set that has a name.
IsSeq(s) == \E S : s \in Seq(S)

Numbers == data \in Seq(0..255) /\ IsSeq(frames) /\ cap \in Nat

\* The inductive invariant.  Each part needs the others: what a construction
\* latches depends on the types, what is paid on the latches.
DecodeInv == Numbers /\ DecodeTypeOK /\ LatchesTold /\ PaidAhead

\* What a charge does without guards: if it fits it is spent, if it does not the
\* budget is latched, and the count of elements has no part in it.
LEMMA ChargeUnguarded ==
    ASSUME NEW b \in Budgets, NEW n \in Nat
    PROVE  /\ charge(b, n) \in Budgets
           /\ charge(b, n).alloc_breach = b.alloc_breach
           /\ ~Latched(charge(b, n)) =>
                 /\ ~Latched(b) /\ charge(b, n).used = b.used + n
                 /\ ~charge(b, n).exhausted
<1>1. CASE Latched(b)
  BY <1>1 DEF charge
<1>2. CASE ~Latched(b)
  <2>1. charge(b, n) = ChargeOuter(b, n)
    BY <1>2 DEF charge, Guarded, Budgets
  <2>2. CASE n > b.limit - b.used
    BY <2>1, <2>2, <1>2 DEF ChargeOuter, Budgets, Latched
  <2>3. CASE ~(n > b.limit - b.used)
    <3>1. b.used + n \in Nat
      BY DEF Budgets
    <3> QED
      BY <2>1, <2>3, <3>1, <1>2 DEF ChargeOuter, Budgets, Latched
  <2> QED
    BY <2>2, <2>3
<1> QED
  BY <1>1, <1>2

\* Construction latches the breach exactly when the count crosses the cap.
LEMMA ConstructLatches ==
    ASSUME made \in Nat, cap \in Nat, budget.alloc_breach <=> made > cap,
           NEW b \in Budgets, b.alloc_breach = budget.alloc_breach, NEW n \in Nat
    PROVE  /\ Construct(b, n) \in Budgets
           /\ Construct(b, n).alloc_breach <=> made + n > cap
           /\ Construct(b, n).used = b.used
           /\ Construct(b, n).exhausted = b.exhausted
<1>1. CASE made + n > cap
  <2>1. Construct(b, n) = [b EXCEPT !.alloc_breach = TRUE]
    BY <1>1 DEF Construct, latch_alloc_breach
  <2> QED
    BY <1>1, <2>1 DEF Budgets
<1>2. CASE ~(made + n > cap)
  <2>1. Construct(b, n) = b /\ ~budget.alloc_breach
    BY <1>2 DEF Construct
  <2> QED
    BY <1>2, <2>1
<1> QED
  BY <1>1, <1>2

\* More elements than before, each for at least the price of one.
LEMMA Afford ==
    ASSUME NEW m \in Nat, NEW n \in Nat, NEW k \in Nat, k <= m + n,
           NEW paid \in Nat, NEW more \in Nat,
           192 + 336 * m <= paid, 336 * n <= more
    PROVE  192 + 336 * k <= paid + more
OBVIOUS

\* The prices of a decode, as numbers.
LEMMA Prices == RD_BASE = 192 /\ RD_PER_ELEMENT = 336
BY DEF RD_BASE, RD_PER_ELEMENT, ELEMENT_ALLOC

\* What the invariant says while a decode is under way.
LEMMA Underway ==
    ASSUME DecodeInv, out = Pending
    PROVE  /\ data \in Seq(0..255) /\ IsSeq(frames) /\ cap \in Nat /\ made \in Nat
           /\ Len(data) \in Nat /\ Len(frames) \in Nat /\ pos \in 0..Len(data) /\ pos \in Nat
           /\ Len(frames) <= pos
           /\ budget \in Budgets /\ budget.used \in Nat /\ ~budget.exhausted
           /\ budget.alloc_breach <=> made > cap
           /\ 192 + 336 * (made + Len(frames)) <= budget.used
<1>1. data \in Seq(0..255) /\ IsSeq(frames) /\ cap \in Nat
  BY DEF DecodeInv, Numbers
<1>2. Len(data) \in Nat /\ Len(frames) \in Nat
  BY <1>1 DEF IsSeq
<1>3. made \in Nat /\ budget \in Budgets /\ pos \in 0..Len(data) /\ Len(frames) <= pos
  BY DEF DecodeInv, DecodeTypeOK, Budgets
<1>4. pos \in Nat /\ budget.used \in Nat
  BY <1>2, <1>3 DEF Budgets
<1>5. ~budget.exhausted /\ (budget.alloc_breach <=> made > cap)
  BY DEF DecodeInv, LatchesTold, Pending, None
<1>6. out # None /\ ~IsError(out)
  BY DEF Pending, None, IsError
<1>7. 192 + 336 * (made + Len(frames)) <= budget.used
  BY <1>6, Prices DEF DecodeInv, PaidAhead
<1> QED
  BY <1>1, <1>2, <1>3, <1>4, <1>5, <1>7

\* The invariant of the next state, part by part.
LEMMA Assembled ==
    ASSUME /\ data' \in Seq(0..255) /\ IsSeq(frames)' /\ cap' \in Nat
           /\ pos' \in 0..Len(data') /\ Len(frames') <= pos'
           /\ budget' \in Budgets /\ made' \in Nat,
           \A i \in 1..Len(frames') : frames'[i] = Open \/ IsBll(frames'[i]),
           hand' = Nothing \/ IsBll(hand'),
           out' \in {Pending, None} \/ IsBll(out') \/ IsError(out'),
           LatchesTold', PaidAhead'
    PROVE  DecodeInv'
BY DEF DecodeInv, DecodeTypeOK, Numbers, Budgets

\* A refusal drops the pending pairs; its Error is the one construction that
\* the charge on entry covers.
LEMMA FailKeeps ==
    ASSUME DecodeInv, out = Pending, NEW msg, NEW consumed \in 0..Len(data),
           Fail(msg, consumed)
    PROVE  DecodeInv'
<1>1. IsSeq(<<>>) /\ Len(<<>>) = 0
  BY DEF IsSeq
<1>2. /\ made' = made + 1 /\ frames' = <<>> /\ out' = Error(msg) /\ hand' = Nothing
      /\ pos' = consumed /\ data' = data /\ cap' = cap
      /\ budget' = Construct(budget, 1)
  BY DEF Fail
<1>3. /\ data \in Seq(0..255) /\ cap \in Nat /\ made \in Nat /\ Len(frames) \in Nat
      /\ budget \in Budgets /\ budget.used \in Nat /\ ~budget.exhausted
      /\ budget.alloc_breach <=> made > cap
      /\ 192 + 336 * (made + Len(frames)) <= budget.used
      /\ Len(data) \in Nat
  BY Underway
<1>4. /\ budget' \in Budgets /\ made' \in Nat
      /\ budget'.alloc_breach <=> made' > cap
      /\ budget'.used = budget.used /\ budget'.exhausted = budget.exhausted
  <2>1. /\ Construct(budget, 1) \in Budgets
        /\ Construct(budget, 1).alloc_breach <=> made + 1 > cap
        /\ Construct(budget, 1).used = budget.used
        /\ Construct(budget, 1).exhausted = budget.exhausted
    BY <1>3, ConstructLatches
  <2> QED
    BY <1>2, <1>3, <2>1
<1>5. IsError(out') /\ out' # None /\ out' # Pending
  BY <1>2 DEF IsError, Error, None, Pending
<1>6. LatchesTold'
  BY <1>2, <1>3, <1>4, <1>5 DEF LatchesTold, Awaiting
<1>7. PaidAhead'
  <2>1. (made' - 1) + Len(frames') = made /\ made <= made + Len(frames)
    BY <1>1, <1>2, <1>3
  <2>2. 192 + 336 * made <= budget.used
    BY <1>3, <2>1
  <2>3. 192 + 336 * ((made' - 1) + Len(frames')) <= budget'.used
    BY <1>4, <2>1, <2>2
  <2> QED
    BY <1>5, <2>3, Prices DEF PaidAhead
<1>8. /\ pos' \in 0..Len(data') /\ Len(frames') <= pos'
      /\ \A i \in 1..Len(frames') : frames'[i] = Open \/ IsBll(frames'[i])
  BY <1>1, <1>2, <1>3
<1>9. IsSeq(frames)'
  BY <1>1, <1>2 DEF IsSeq
<1> QED
  BY <1>2, <1>3, <1>4, <1>5, <1>6, <1>7, <1>8, <1>9, Assembled

\* A failed charge ends the decode with the latch it found or set.
LEMMA RefuseKeeps ==
    ASSUME DecodeInv, Awaiting, NEW n \in Nat, Refuse(charge(budget, n))
    PROVE  DecodeInv'
<1>1. IsSeq(<<>>) /\ Len(<<>>) = 0 /\ out = Pending /\ hand = Nothing
  BY DEF IsSeq, Awaiting
<1>2. /\ data \in Seq(0..255) /\ cap \in Nat /\ made \in Nat /\ pos \in 0..Len(data)
      /\ pos \in Nat /\ budget \in Budgets /\ (budget.alloc_breach <=> made > cap)
  BY <1>1, Underway
<1>3. /\ charge(budget, n) \in Budgets
      /\ charge(budget, n).alloc_breach = budget.alloc_breach
  BY <1>2, ChargeUnguarded
<1>4. /\ budget' = charge(budget, n) /\ Latched(budget') /\ out' = None /\ frames' = <<>>
      /\ data' = data /\ pos' = pos /\ made' = made /\ cap' = cap /\ hand' = hand
  BY DEF Refuse
<1>5. LatchesTold'
  BY <1>1, <1>2, <1>3, <1>4 DEF LatchesTold, Awaiting, None, Pending
<1>6. PaidAhead'
  BY <1>4 DEF PaidAhead
<1>7. /\ pos' \in 0..Len(data') /\ Len(frames') <= pos'
      /\ \A i \in 1..Len(frames') : frames'[i] = Open \/ IsBll(frames'[i])
  BY <1>1, <1>2, <1>4
<1>8. IsSeq(frames)'
  BY <1>1, <1>4 DEF IsSeq
<1> QED
  BY <1>1, <1>2, <1>3, <1>4, <1>5, <1>6, <1>7, <1>8, Assembled

\* An element is built after its own charge.
LEMMA TakeKeeps ==
    ASSUME DecodeInv, Awaiting, NEW el, IsBll(el), NEW n \in Nat, n >= 336,
           NEW consumed \in 0..Len(data), consumed > pos, Take(el, charge(budget, n), consumed)
    PROVE  DecodeInv'
<1> DEFINE b == charge(budget, n)
           f == Fresh(el)
<1>1. out = Pending
  BY DEF Awaiting
<1>2. /\ data \in Seq(0..255) /\ cap \in Nat /\ made \in Nat /\ pos \in 0..Len(data)
      /\ pos \in Nat /\ budget \in Budgets /\ (budget.alloc_breach <=> made > cap)
      /\ Len(frames) \in Nat /\ Len(frames) <= pos /\ budget.used \in Nat
      /\ 192 + 336 * (made + Len(frames)) <= budget.used /\ Len(data) \in Nat
      /\ IsSeq(frames)
  BY <1>1, Underway
<1>3. /\ ~Latched(b) /\ b \in Budgets /\ b.alloc_breach = budget.alloc_breach
      /\ b.used = budget.used + n /\ ~b.exhausted
  BY <1>2, ChargeUnguarded DEF Take
<1>4. f \in Nat /\ f <= 1
  BY DEF Fresh
<1>5. /\ hand' = el /\ pos' = consumed /\ data' = data /\ frames' = frames /\ cap' = cap
      /\ out' = out /\ made' = made + f /\ budget' = Construct(b, f)
  BY DEF Take
<1> HIDE DEF b, f
<1>6. /\ budget' \in Budgets /\ budget'.used = budget.used + n /\ ~budget'.exhausted
      /\ budget'.alloc_breach <=> made' > cap
      /\ made' \in Nat
  <2>1. /\ Construct(b, f) \in Budgets
        /\ Construct(b, f).alloc_breach <=> made + f > cap
        /\ Construct(b, f).used = b.used
        /\ Construct(b, f).exhausted = b.exhausted
    BY <1>2, <1>3, <1>4, ConstructLatches
  <2> QED
    BY <1>2, <1>3, <1>4, <1>5, <2>1
<1>7. pos' \in 0..Len(data') /\ Len(frames') <= pos' /\ pos' # 0
  BY <1>2, <1>5
<1>8. \A i \in 1..Len(frames') : frames'[i] = Open \/ IsBll(frames'[i])
  BY <1>5 DEF DecodeInv, DecodeTypeOK
<1>9. LatchesTold'
  BY <1>1, <1>5, <1>6, <1>7 DEF LatchesTold, None, Pending
<1>10. PaidAhead'
  <2>1. 192 + 336 * (made' + Len(frames')) <= budget'.used
    <3> DEFINE m == made + Len(frames)
               k == made' + Len(frames')
    <3>1. m \in Nat /\ k \in Nat /\ k <= m + f /\ 336 * f <= n
      BY <1>2, <1>4, <1>5
    <3>2. 192 + 336 * m <= budget.used
      BY <1>2
    <3> HIDE DEF m, k
    <3>3. 192 + 336 * k <= budget.used + n
      BY <1>2, <1>4, <3>1, <3>2, Afford
    <3> QED
      BY <1>6, <3>3 DEF k
  <2>2. ~IsError(out')
    BY <1>1, <1>5 DEF IsError, Pending
  <2> QED
    BY <2>1, <2>2, Prices DEF PaidAhead
<1>11. IsSeq(frames)'
  BY <1>2, <1>5 DEF IsSeq
<1> QED
  BY <1>1, <1>2, <1>5, <1>6, <1>7, <1>8, <1>9, <1>10, <1>11, Assembled

\* A read refuses or takes.
LEMMA ReadElementKeeps ==
    ASSUME DecodeInv, Awaiting, NEW el, IsBll(el), NEW n \in Nat, n >= 336,
           NEW consumed \in 0..Len(data), consumed > pos,
           ReadElement(el, charge(budget, n), consumed)
    PROVE  DecodeInv'
<1>1. CASE Refuse(charge(budget, n))
  BY <1>1, RefuseKeeps
<1>2. CASE Take(el, charge(budget, n), consumed)
  BY <1>2, TakeKeeps
<1> QED
  BY <1>1, <1>2 DEF ReadElement

\* A payload whose bytes are there, for any length a prefix can say.
LEMMA ReadPayloadKeeps ==
    ASSUME DecodeInv, Awaiting, NEW at \in Nat, at > pos, NEW n \in Nat,
           Available(at, n), ReadPayload(at, n)
    PROVE  DecodeInv'
<1>1. pos \in Nat /\ Len(data) \in Nat
  BY Underway DEF Awaiting
<1>2. at + n \in 0..Len(data) /\ at + n > pos
  BY <1>1 DEF Available
<1>3. IsBll(Payload(at, n))
  BY DEF Payload, FromBytes, IsBll
<1>4. PayloadRate = 14
  BY DEF PayloadRate, RD_PER_BYTE, MALLOC_PER_BYTE
<1> DEFINE price == RD_PER_ELEMENT + PayloadRate * n
<1>5. price \in Nat /\ price >= 336
  BY <1>4, Prices
<1>6. ReadElement(Payload(at, n), charge(budget, price), at + n)
  BY DEF ReadPayload
<1> HIDE DEF price
<1> QED
  BY <1>2, <1>3, <1>5, <1>6, ReadElementKeeps

\* A wide prefix: four ends, and the length is a number once its bytes are read.
LEMMA ReadWideKeeps ==
    ASSUME DecodeInv, Awaiting, pos < Len(data), NEW width \in Nat, NEW n, NEW floor,
           Available(pos + 1, width) => n \in Nat, ReadWide(width, n, floor)
    PROVE  DecodeInv'
<1> DEFINE at == pos + 1 + width
<1>1. out = Pending /\ pos \in Nat /\ Len(data) \in Nat
  BY Underway DEF Awaiting
<1>2. pos + 1 \in 0..Len(data) /\ at \in Nat /\ at > pos
  BY <1>1
<1>3. CASE ~Available(pos + 1, width)
  <2>1. Fail("witness element truncated", pos + 1)
    BY <1>3 DEF ReadWide
  <2> QED
    BY <1>1, <1>2, <2>1, FailKeeps
<1>4. CASE Available(pos + 1, width) /\ Narrower(n, floor)
  <2>1. Fail("wide length prefix", at)
    BY <1>4 DEF ReadWide
  <2>2. at \in 0..Len(data)
    BY <1>1, <1>4 DEF Available
  <2> QED
    BY <1>1, <2>1, <2>2, FailKeeps
<1>5. CASE Available(pos + 1, width) /\ ~Narrower(n, floor) /\ ~Available(at, n)
  <2>1. Fail("witness element truncated", at)
    BY <1>5 DEF ReadWide
  <2>2. at \in 0..Len(data)
    BY <1>1, <1>5 DEF Available
  <2> QED
    BY <1>1, <2>1, <2>2, FailKeeps
<1>6. CASE Available(pos + 1, width) /\ ~Narrower(n, floor) /\ Available(at, n)
  <2>1. ReadPayload(at, n)
    BY <1>6 DEF ReadWide
  <2> HIDE DEF at
  <2> QED
    BY <1>2, <1>6, <2>1, ReadPayloadKeeps
<1> QED
  BY <1>3, <1>4, <1>5, <1>6

\* Every token the decoder reads keeps the invariant.
LEMMA ReadKeeps ==
    ASSUME DecodeInv, Read
    PROVE  DecodeInv'
<1>1. Awaiting /\ out = Pending
  <2>1. Reading => Awaiting
    BY DEF Reading
  <2>2. ReadEnd => Awaiting
    BY DEF ReadEnd
  <2>3. ReadCons \/ ReadNil \/ ReadSingle \/ ReadOversize => Reading
    BY DEF ReadCons, ReadNil, ReadSingle, ReadOversize
  <2>4. ReadShort => Reading
    BY DEF ReadShort
  <2>5. ReadMid \/ ReadLong => Reading
    BY DEF ReadMid, ReadLong
  <2>6. Awaiting => out = Pending
    BY DEF Awaiting
  <2> QED
    BY <2>1, <2>2, <2>3, <2>4, <2>5, <2>6 DEF Read
<1>2. /\ data \in Seq(0..255) /\ IsSeq(frames) /\ cap \in Nat /\ made \in Nat
      /\ Len(data) \in Nat /\ Len(frames) \in Nat /\ pos \in 0..Len(data) /\ pos \in Nat
      /\ Len(frames) <= pos
      /\ budget \in Budgets /\ budget.used \in Nat /\ ~budget.exhausted
      /\ budget.alloc_breach <=> made > cap
      /\ 192 + 336 * (made + Len(frames)) <= budget.used
  BY <1>1, Underway
<1>3. \A k \in 1..Len(data) : data[k] \in Nat /\ data[k] <= 255
  <2> DEFINE B == 0..255
  <2>1. data \in Seq(B)
    BY <1>2
  <2>2. \A x \in B : x \in Nat /\ x <= 255
    OBVIOUS
  <2> HIDE DEF B
  <2> QED
    BY <2>1, <2>2, ElementOfSeq
<1>4. ASSUME Reading
      PROVE  Marker \in Nat /\ pos + 1 \in 0..Len(data) /\ pos + 1 > pos
  <2>1. pos < Len(data)
    BY <1>4 DEF Reading
  <2>2. pos + 1 \in 1..Len(data) /\ pos + 1 \in 0..Len(data) /\ pos + 1 > pos
    BY <1>2, <2>1
  <2> QED
    BY <1>3, <2>2 DEF Marker
<1>5. ElementPaid = charge(budget, 336)
  BY Prices DEF ElementPaid
<1>6. CASE ReadEnd
  BY <1>1, <1>2, <1>6, FailKeeps DEF ReadEnd
<1>7. CASE ReadCons
  <2>1. CASE Refuse(ElementPaid)
    BY <1>1, <1>5, <2>1, RefuseKeeps
  <2>2. CASE ~Latched(ElementPaid) /\ ~Refuse(ElementPaid)
    <3> DEFINE b == charge(budget, 336)
    <3>1. /\ b \in Budgets /\ b.alloc_breach = budget.alloc_breach
          /\ b.used = budget.used + 336 /\ ~b.exhausted
      <4>1. ~Latched(b)
        BY <1>5, <2>2
      <4> QED
        BY <1>2, <4>1, ChargeUnguarded
    <3>2. /\ budget' = b /\ frames' = Append(frames, Open) /\ pos' = pos + 1
          /\ data' = data /\ hand' = hand /\ made' = made /\ cap' = cap /\ out' = out
      BY <1>5, <1>7, <2>2 DEF ReadCons
    <3> HIDE DEF b
    <3>3. IsSeq(frames') /\ Len(frames') = Len(frames) + 1
      <4>1. PICK S : frames \in Seq(S)
        BY <1>2 DEF IsSeq
      <4>2. frames \in Seq(S \cup {Open})
        BY <4>1
      <4> QED
        BY <3>2, <4>2 DEF IsSeq
    <3>4. pos' \in 0..Len(data') /\ Len(frames') <= pos' /\ pos' # 0
      BY <1>2, <1>4, <1>7, <3>2, <3>3 DEF ReadCons
    <3>5. \A i \in 1..Len(frames') : frames'[i] = Open \/ IsBll(frames'[i])
      <4>1. \A i \in 1..Len(frames) : frames[i] = Open \/ IsBll(frames[i])
        BY DEF DecodeInv, DecodeTypeOK
      <4>2. SUFFICES ASSUME NEW i \in 1..Len(frames) + 1
                     PROVE  frames'[i] = Open \/ IsBll(frames'[i])
        BY <3>3
      <4>3. PICK S : frames \in Seq(S)
        BY <1>2 DEF IsSeq
      <4>4. CASE i = Len(frames) + 1
        BY <3>2, <4>3, <4>4
      <4>5. CASE i # Len(frames) + 1
        <5>1. i \in 1..Len(frames) /\ frames'[i] = frames[i]
          BY <1>2, <3>2, <4>3, <4>5
        <5> QED
          BY <4>1, <5>1
      <4> QED
        BY <4>4, <4>5
    <3>6. LatchesTold'
      BY <1>1, <1>2, <3>1, <3>2, <3>4 DEF LatchesTold, None, Pending
    <3>7. PaidAhead'
      <4>1. 192 + 336 * (made' + Len(frames')) <= budget'.used
        <5> DEFINE m == made + Len(frames)
                   k == made' + Len(frames')
        <5>1. m \in Nat /\ k \in Nat /\ k <= m + 1 /\ 336 * 1 <= 336
          BY <1>2, <3>2, <3>3
        <5>2. 192 + 336 * m <= budget.used
          BY <1>2
        <5> HIDE DEF m, k
        <5>3. 192 + 336 * k <= budget.used + 336
          BY <1>2, <5>1, <5>2, Afford
        <5> QED
          BY <3>1, <3>2, <5>3 DEF k
      <4>2. ~IsError(out')
        BY <1>1, <3>2 DEF IsError, Pending
      <4> QED
        BY <4>1, <4>2, Prices DEF PaidAhead
    <3>8. IsSeq(frames)'
      BY <3>3 DEF IsSeq
    <3>9. hand' = Nothing /\ out' = Pending
      BY <1>1, <3>2 DEF Awaiting
    <3> QED
      BY <1>2, <3>1, <3>2, <3>4, <3>5, <3>6, <3>7, <3>8, <3>9, Assembled
  <2> QED
    BY <1>7, <2>1, <2>2 DEF ReadCons
<1>8. CASE ReadNil
  <2>1. IsBll(Nil)
    BY DEF Nil, Atom, FromBytes, IsBll
  <2> QED
    BY <1>1, <1>4, <1>5, <1>8, <2>1, ReadElementKeeps DEF ReadNil
<1>9. CASE ReadSingle
  <2>1. IsBll(Atom(Marker, 1))
    BY DEF Atom, FromBytes, IsBll
  <2> QED
    BY <1>1, <1>4, <1>5, <1>9, <2>1, ReadElementKeeps DEF ReadSingle
<1>10. CASE ReadShort
  <2> DEFINE n == Marker - 128
  <2>1. n \in Nat /\ pos + 1 \in Nat /\ pos + 1 > pos /\ pos + 1 \in 0..Len(data)
    <3>1. Reading /\ 128 < Marker
      BY <1>10 DEF ReadShort
    <3> QED
      BY <1>2, <1>4, <3>1
  <2>2. CASE ~Available(pos + 1, n)
    <3>1. Fail("witness element truncated", pos + 1)
      BY <1>10, <2>2 DEF ReadShort
    <3> QED
      BY <1>1, <2>1, <3>1, FailKeeps
  <2>3. CASE Available(pos + 1, n) /\ n = 1 /\ data[pos + 2] < SINGLE
    <3>1. Fail("one byte atom with length prefix", pos + 1)
      BY <1>10, <2>3 DEF ReadShort
    <3> QED
      BY <1>1, <2>1, <3>1, FailKeeps
  <2>4. CASE Available(pos + 1, n) /\ ~(n = 1 /\ data[pos + 2] < SINGLE)
    <3>1. ReadPayload(pos + 1, n)
      BY <1>10, <2>4 DEF ReadShort
    <3> HIDE DEF n
    <3> QED
      BY <1>1, <2>1, <2>4, <3>1, ReadPayloadKeeps
  <2> QED
    BY <2>2, <2>3, <2>4
<1>11. CASE ReadMid
  <2> DEFINE n == (Marker - 192) * 256 + data[pos + 2]
  <2>1. Available(pos + 1, 1) => n \in Nat
    <3>1. HAVE Available(pos + 1, 1)
    <3>2. pos + 2 \in 1..Len(data)
      BY <1>2, <3>1 DEF Available
    <3>3. data[pos + 2] \in Nat
      BY <1>3, <3>2
    <3>4. Marker - 192 \in Nat
      <4>1. Reading /\ 192 <= Marker
        BY <1>11 DEF ReadMid
      <4> QED
        BY <1>4, <4>1
    <3> QED
      BY <3>3, <3>4
  <2>2. pos < Len(data) /\ ReadWide(1, n, SHORT_MAX)
    BY <1>11 DEF ReadMid, Reading
  <2> HIDE DEF n
  <2> QED
    BY <1>1, <2>1, <2>2, ReadWideKeeps
<1>12. CASE ReadLong
  <2> DEFINE n == (Marker - 224) * 65536 + data[pos + 2] * 256 + data[pos + 3]
  <2>1. Available(pos + 1, 2) => n \in Nat
    <3>1. HAVE Available(pos + 1, 2)
    <3>2. pos + 2 \in 1..Len(data) /\ pos + 3 \in 1..Len(data)
      BY <1>2, <3>1 DEF Available
    <3>3. data[pos + 2] \in Nat /\ data[pos + 3] \in Nat
      BY <1>3, <3>2
    <3>4. Marker - 224 \in Nat
      <4>1. Reading /\ 224 <= Marker
        BY <1>12 DEF ReadLong
      <4> QED
        BY <1>4, <4>1
    <3> QED
      BY <3>3, <3>4
  <2>2. pos < Len(data) /\ ReadWide(2, n, MID_MAX)
    BY <1>12 DEF ReadLong, Reading
  <2> HIDE DEF n
  <2> QED
    BY <1>1, <2>1, <2>2, ReadWideKeeps
<1>13. CASE ReadOversize
  BY <1>1, <1>4, <1>13, FailKeeps, ZenonT(40) DEF ReadOversize
<1> QED
  BY <1>6, <1>7, <1>8, <1>9, <1>10, <1>11, <1>12, <1>13 DEF Read

\* The left child takes the place of the marker that announced its pair.
LEMMA PlaceKeeps ==
    ASSUME DecodeInv, Place
    PROVE  DecodeInv'
<1>1. out = Pending /\ hand # Nothing /\ frames # <<>>
  BY DEF Place, Delivering
<1>2. /\ data \in Seq(0..255) /\ cap \in Nat /\ made \in Nat /\ pos \in 0..Len(data)
      /\ pos \in Nat /\ budget \in Budgets /\ (budget.alloc_breach <=> made > cap)
      /\ Len(frames) \in Nat /\ Len(frames) <= pos /\ ~budget.exhausted
      /\ 192 + 336 * (made + Len(frames)) <= budget.used
  BY <1>1, Underway
<1>3. PICK S : frames \in Seq(S)
  BY <1>1, Underway DEF IsSeq
<1>4. /\ frames' = [frames EXCEPT ![Len(frames)] = hand] /\ hand' = Nothing
      /\ data' = data /\ pos' = pos /\ budget' = budget /\ made' = made /\ cap' = cap
      /\ out' = out
  BY DEF Place
<1>5. frames \in Seq(S \cup {hand}) /\ Len(frames) \in 1..Len(frames)
  BY <1>1, <1>2, <1>3
<1>6. frames' \in Seq(S \cup {hand}) /\ Len(frames') = Len(frames)
  BY <1>4, <1>5
<1>7. IsSeq(frames)'
  BY <1>6 DEF IsSeq
<1>8. \A i \in 1..Len(frames') : frames'[i] = Open \/ IsBll(frames'[i])
  <2>1. IsBll(hand) /\ \A i \in 1..Len(frames) : frames[i] = Open \/ IsBll(frames[i])
    BY <1>1 DEF DecodeInv, DecodeTypeOK
  <2>2. \A i \in 1..Len(frames) : frames'[i] = frames[i] \/ frames'[i] = hand
    BY <1>4, <1>5
  <2> QED
    BY <1>6, <2>1, <2>2
<1>9. pos' # 0
  <2>1. Len(frames) >= 1
    BY <1>2, <1>5
  <2> QED
    BY <1>2, <1>4, <2>1
<1>10. LatchesTold'
  BY <1>1, <1>2, <1>4, <1>9 DEF LatchesTold, None, Pending
<1>11. PaidAhead'
  <2>1. ~IsError(out')
    BY <1>1, <1>4 DEF IsError, Pending
  <2> QED
    BY <1>2, <1>4, <1>6, <2>1, Prices DEF PaidAhead
<1> QED
  BY <1>1, <1>2, <1>4, <1>6, <1>7, <1>8, <1>10, <1>11, Assembled, ZenonT(40)

\* The pair is built from the charge its marker paid.
LEMMA FoldKeeps ==
    ASSUME DecodeInv, Fold
    PROVE  DecodeInv'
<1>1. out = Pending /\ hand # Nothing /\ frames # <<>> /\ Top # Open
  BY DEF Fold, Delivering
<1>2. /\ data \in Seq(0..255) /\ cap \in Nat /\ made \in Nat /\ pos \in 0..Len(data)
      /\ pos \in Nat /\ budget \in Budgets /\ (budget.alloc_breach <=> made > cap)
      /\ Len(frames) \in Nat /\ Len(frames) <= pos /\ ~budget.exhausted
      /\ 192 + 336 * (made + Len(frames)) <= budget.used
  BY <1>1, Underway
<1>3. PICK S : frames \in Seq(S)
  BY <1>1, Underway DEF IsSeq
<1>4. /\ hand' = Cons(Top, hand) /\ frames' = SubSeq(frames, 1, Len(frames) - 1)
      /\ budget' = Construct(budget, 1) /\ made' = made + 1
      /\ data' = data /\ pos' = pos /\ cap' = cap /\ out' = out
  BY DEF Fold
<1>5. Len(frames) \in 1..Len(frames) /\ Len(frames) - 1 \in 0..Len(frames)
  BY <1>1, <1>2, <1>3
<1>6. /\ frames' \in Seq(S) /\ Len(frames') = Len(frames) - 1
      /\ \A i \in 1..Len(frames) - 1 : frames'[i] = frames[i]
  <2> DEFINE m == Len(frames) - 1
             low == SubSeq(frames, 1, m)
  <2>1. m \in 0..Len(frames) /\ m \in Int /\ m \in Nat
    BY <1>2, <1>5
  <2>2. \A i \in 1..m : frames[i] \in S
    BY <1>2, <1>3, ElementOfSeq
  <2> HIDE DEF m
  <2>3. /\ SubSeq(frames, 1, m) \in Seq(S)
        /\ Len(SubSeq(frames, 1, m)) = IF 1 <= m THEN m - 1 + 1 ELSE 0
        /\ \A i \in 1..m - 1 + 1 : SubSeq(frames, 1, m)[i] = frames[1 + i - 1]
    BY <1>3, <2>1, <2>2, SubSeqProperties
  <2>4. m - 1 + 1 = m /\ \A i \in 1..m : 1 + i - 1 = i
    BY <2>1
  <2>5. low \in Seq(S) /\ Len(low) = m /\ \A i \in 1..m : low[i] = frames[i]
    BY <2>1, <2>3, <2>4
  <2> HIDE DEF low
  <2>6. frames' = low
    BY <1>4 DEF low, m
  <2> QED
    BY <2>5, <2>6 DEF m
<1>7. IsSeq(frames)'
  BY <1>6 DEF IsSeq
<1>8. IsBll(hand) /\ \A i \in 1..Len(frames) : frames[i] = Open \/ IsBll(frames[i])
  BY <1>1 DEF DecodeInv, DecodeTypeOK
<1>9. \A i \in 1..Len(frames') : frames'[i] = Open \/ IsBll(frames'[i])
  <2>1. \A i \in 1..Len(frames) - 1 : i \in 1..Len(frames)
    BY <1>2
  <2> QED
    BY <1>6, <1>8, <2>1
<1>10. IsBll(hand') /\ hand' # Nothing
  <2>1. IsBll(Top)
    BY <1>1, <1>5, <1>8 DEF Top
  <2> QED
    BY <1>4, <1>8, <2>1 DEF Cons, IsBll, Nothing
<1>11. /\ budget' \in Budgets /\ budget'.used = budget.used /\ ~budget'.exhausted
       /\ budget'.alloc_breach <=> made' > cap
  <2>1. /\ Construct(budget, 1) \in Budgets
        /\ Construct(budget, 1).alloc_breach <=> made + 1 > cap
        /\ Construct(budget, 1).used = budget.used
        /\ Construct(budget, 1).exhausted = budget.exhausted
    BY <1>2, ConstructLatches
  <2> QED
    BY <1>2, <1>4, <2>1
<1>12. LatchesTold'
  BY <1>1, <1>4, <1>10, <1>11 DEF LatchesTold, Awaiting, None, Pending
<1>13. PaidAhead'
  <2>1. made' + Len(frames') = made + Len(frames)
    <3>1. made' = made + 1 /\ Len(frames') = Len(frames) - 1
      BY <1>4, <1>6
    <3>2. made \in Nat /\ Len(frames) \in Nat
      BY <1>2
    <3> QED
      BY <3>1, <3>2
  <2>2. ~IsError(out')
    BY <1>1, <1>4 DEF IsError, Pending
  <2> QED
    BY <1>2, <1>11, <2>1, <2>2, Prices DEF PaidAhead
<1>14. pos' \in 0..Len(data') /\ Len(frames') <= pos' /\ made' \in Nat
  BY <1>2, <1>4, <1>6
<1> QED
  BY <1>1, <1>2, <1>4, <1>7, <1>9, <1>10, <1>11, <1>12, <1>13, <1>14, Assembled

\* The whole element, or one construction for the bytes that trail it.
LEMMA FinishKeeps ==
    ASSUME DecodeInv, Finish
    PROVE  DecodeInv'
<1>1. out = Pending /\ hand # Nothing /\ frames = <<>>
  BY DEF Finish, Delivering
<1>2. /\ data \in Seq(0..255) /\ cap \in Nat /\ made \in Nat /\ pos \in 0..Len(data)
      /\ pos \in Nat /\ budget \in Budgets /\ (budget.alloc_breach <=> made > cap)
      /\ Len(frames) \in Nat /\ Len(frames) <= pos /\ ~budget.exhausted
      /\ 192 + 336 * (made + Len(frames)) <= budget.used
      /\ IsSeq(frames)
  BY <1>1, Underway
<1>3. CASE Fail("witness element has trailing bytes", pos)
  BY <1>1, <1>2, <1>3, FailKeeps
<1>4. CASE /\ out' = hand /\ hand' = Nothing
           /\ UNCHANGED <<data, pos, frames, budget, made, cap>>
  <2>1. IsBll(out')
    BY <1>1, <1>4 DEF DecodeInv, DecodeTypeOK
  <2>2. ~IsError(out') /\ out' # None /\ out' # Pending
    BY <2>1 DEF IsBll, IsError, None, Pending
  <2>3. LatchesTold'
    BY <1>2, <1>4, <2>2 DEF LatchesTold, Awaiting
  <2>4. PaidAhead'
    BY <1>2, <1>4, <2>2, Prices DEF PaidAhead
  <2>5. \A i \in 1..Len(frames') : frames'[i] = Open \/ IsBll(frames'[i])
    BY <1>4 DEF DecodeInv, DecodeTypeOK
  <2>6. IsSeq(frames)'
    BY <1>2, <1>4 DEF IsSeq
  <2> QED
    BY <1>2, <1>4, <2>1, <2>3, <2>4, <2>5, <2>6, Assembled
<1> QED
  BY <1>3, <1>4 DEF Finish

\* The charge on entry pays for the Error a refusal may build.
LEMMA DecodeInitial ==
    ASSUME DecodeInit
    PROVE  DecodeInv
<1> USE InputAssumption, AllowanceAssumption, CapAssumption
<1>1. PICK n \in Allowances : budget = charge(NewBudget(n), RD_BASE)
  BY DEF DecodeInit
<1>2. /\ data \in Seq(0..255) /\ pos = 0 /\ frames = <<>> /\ hand = Nothing /\ made = 0
      /\ cap \in Nat /\ out = Opening(budget) /\ n \in Nat
  BY DEF DecodeInit
<1>3. NewBudget(n) \in Budgets /\ ~NewBudget(n).alloc_breach /\ NewBudget(n).used = 0
  BY <1>2 DEF NewBudget, Budgets
<1>4. /\ budget \in Budgets /\ ~budget.alloc_breach
      /\ ~Latched(budget) => budget.used = 192 /\ ~budget.exhausted
  <2> DEFINE start == NewBudget(n)
  <2>1. start \in Budgets /\ ~start.alloc_breach /\ start.used = 0 /\ 192 \in Nat
    BY <1>3
  <2>2. budget = charge(start, 192)
    BY <1>1, Prices
  <2> HIDE DEF start
  <2>3. charge(start, 192) \in Budgets /\ charge(start, 192).alloc_breach = start.alloc_breach
    BY <2>1, ChargeUnguarded
  <2>4. ASSUME ~Latched(charge(start, 192))
        PROVE  charge(start, 192).used = start.used + 192 /\ ~charge(start, 192).exhausted
    BY <2>1, <2>4, ChargeUnguarded, ZenonT(40)
  <2> QED
    BY <2>1, <2>2, <2>3, <2>4
<1>5. IsSeq(frames) /\ Len(frames) = 0 /\ Len(data) \in Nat
  BY <1>2 DEF IsSeq
<1>6. out \in {Pending, None} /\ (out = None <=> Latched(budget)) /\ ~IsError(out)
  BY <1>2 DEF Opening, Pending, None, IsError
<1>7. Numbers
  BY <1>2, <1>5 DEF Numbers
<1>8. DecodeTypeOK
  <2>1. pos \in 0..Len(data) /\ Len(frames) <= pos /\ made \in Nat
    BY <1>2, <1>5
  <2>2. \A i \in 1..Len(frames) : FALSE
    BY <1>5
  <2> QED
    BY <1>2, <1>4, <1>6, <2>1, <2>2 DEF DecodeTypeOK, Budgets
<1>9. LatchesTold
  BY <1>2, <1>4, <1>6 DEF LatchesTold, Awaiting, Latched, Pending, None
<1>10. PaidAhead
  BY <1>2, <1>4, <1>5, <1>6, Prices DEF PaidAhead
<1> QED
  BY <1>7, <1>8, <1>9, <1>10 DEF DecodeInv

\* The invariant is inductive.
THEOREM DecodeInvariant == DecodeSpec => []DecodeInv
<1>1. DecodeInit => DecodeInv
  BY DecodeInitial
<1>2. DecodeInv /\ [DecodeNext \/ Decoded]_decodeVars => DecodeInv'
  <2> SUFFICES ASSUME DecodeInv, [DecodeNext \/ Decoded]_decodeVars
               PROVE  DecodeInv'
    OBVIOUS
  <2>1. CASE Read
    BY <2>1, ReadKeeps
  <2>2. CASE Place
    BY <2>2, PlaceKeeps
  <2>3. CASE Fold
    BY <2>3, FoldKeeps
  <2>4. CASE Finish
    BY <2>4, FinishKeeps
  <2>5. CASE UNCHANGED decodeVars
    BY <2>5 DEF decodeVars, DecodeInv, Numbers, IsSeq, DecodeTypeOK, LatchesTold,
                PaidAhead, Awaiting
  <2> QED
    BY <2>1, <2>2, <2>3, <2>4, <2>5 DEF DecodeNext, Deliver, Decoded
<1> QED
  BY <1>1, <1>2, PTL DEF DecodeSpec

\* Whatever the input, no element exists that its decode has not paid for.
THEOREM PaidAheadAlways == DecodeSpec => []PaidAhead
<1>1. DecodeInv => PaidAhead
  BY DEF DecodeInv
<1> QED
  BY <1>1, DecodeInvariant, PTL

\* Whatever the limit and the cap, what a decode says agrees with the latches.
THEOREM LatchesToldAlways == DecodeSpec => []LatchesTold
<1>1. DecodeInv => LatchesTold
  BY DEF DecodeInv
<1> QED
  BY <1>1, DecodeInvariant, PTL

\* The walk never leaves its input and never waits for more pairs than it has
\* read bytes.
THEOREM DecodeTypes == DecodeSpec => []DecodeTypeOK
<1>1. DecodeInv => DecodeTypeOK
  BY DEF DecodeInv
<1> QED
  BY <1>1, DecodeInvariant, PTL
=============================================================================
