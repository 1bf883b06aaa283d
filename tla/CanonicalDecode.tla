-------------------------- MODULE CanonicalDecode --------------------------
(***************************************************************************)
(* The decoder of witness elements (spend.py, deserialize_canonical): an   *)
(* iterative walk that keeps the pending pairs itself, charges every       *)
(* element when its marker or prefix is read and every payload byte before *)
(* it is copied, and refuses every encoding but the shortest.              *)
(*                                                                         *)
(* One action reads one token, or is one turn of the inner loop that       *)
(* delivers a completed element into the pending pairs.                    *)
(***************************************************************************)
EXTENDS Budget

CONSTANTS
    Inputs,         \* byte strings to decode
    Allowances,     \* budget limits of the decoder's callers
    Caps            \* element caps armed around the decode

ASSUME InputAssumption == Inputs \subseteq Seq(0..255)
ASSUME AllowanceAssumption == Allowances \subseteq Nat
ASSUME CapAssumption == Caps \subseteq Nat

VARIABLES
    data,       \* the input
    pos,        \* bytes consumed
    frames,     \* pending pairs, the innermost last
    hand,       \* the completed element being delivered, Nothing while reading
    budget,
    made,       \* elements constructed in the counted span
    cap,        \* the allocator's armed stop
    out         \* Pending, an element, an Error, or None for a latched budget

decodeVars == <<data, pos, frames, hand, budget, made, cap, out>>

Pending == [kind |-> "pending"]
None    == [kind |-> "none"]

Nothing == [kind |-> "nothing"]

\* A pair awaiting its left child; one awaiting its right child is held as
\* that left child.
Open == [kind |-> "open"]

\* The widest payload each width of the length prefix carries.
SHORT_MAX == 63
MID_MAX   == 8191
SINGLE    == 128

PayloadRate == RD_PER_BYTE + MALLOC_PER_BYTE

-----------------------------------------------------------------------------
Awaiting == out = Pending /\ hand = Nothing
Reading  == Awaiting /\ pos < Len(data)
Marker   == data[pos + 1]

\* Mutant: the latch is set by the construction after the one that crosses.
ConstructLate(b, n) == IF made > cap THEN latch_alloc_breach(b) ELSE b

\* n constructions; crossing the cap latches the budget from outside.
Construct(b, n) == IF made + n > cap THEN latch_alloc_breach(b) ELSE b

\* fail(): the pending pairs are dropped, an Error is built.
Fail(msg, consumed) ==
    /\ out' = Error(msg) /\ frames' = <<>> /\ hand' = Nothing /\ pos' = consumed
    /\ budget' = Construct(budget, 1) /\ made' = made + 1
    /\ UNCHANGED <<data, cap>>

\* A charge that fails: no element, and the latch says why.
Refuse(charged) ==
    /\ Latched(charged)
    /\ out' = None /\ frames' = <<>> /\ budget' = charged
    /\ UNCHANGED <<data, pos, hand, made, cap>>

\* An element read up to consumed and paid for by charged is built.
Take(el, charged, consumed) ==
    /\ ~Latched(charged)
    /\ hand' = el /\ pos' = consumed
    /\ budget' = Construct(charged, Fresh(el)) /\ made' = made + Fresh(el)
    /\ UNCHANGED <<data, frames, cap, out>>

ReadElement(el, charged, consumed) == Refuse(charged) \/ Take(el, charged, consumed)
-----------------------------------------------------------------------------
\* What a decode has to say after the charge on entry, before its first byte.
Opening(charged) == IF Latched(charged) THEN None ELSE Pending

DecodeInit ==
    /\ data \in Inputs /\ pos = 0 /\ frames = <<>> /\ hand = Nothing /\ made = 0 /\ cap \in Caps
    /\ \E n \in Allowances : budget = charge(NewBudget(n), RD_BASE)
    /\ out = Opening(budget)

\* A caller that has a budget and an armed span of its own begins a decode.
Call(input) ==
    /\ data' = input /\ pos' = 0 /\ frames' = <<>> /\ hand' = Nothing
    /\ budget' = charge(budget, RD_BASE)
    /\ out' = Opening(budget')
    /\ UNCHANGED <<made, cap>>

\* Mutant: the allocation share of an element is forgotten.
ElementDecoded == charge(budget, RD_PER_ELEMENT - ELEMENT_ALLOC)
ElementPaid == charge(budget, RD_PER_ELEMENT)

ReadEnd == /\ Awaiting /\ pos >= Len(data)
           /\ Fail("witness element truncated", pos)

\* 0xff: the pair is paid for before either child is decoded.
ReadCons ==
    /\ Reading /\ Marker = 255
    /\ \/ Refuse(ElementPaid)
       \/ /\ ~Latched(ElementPaid)
          /\ budget' = ElementPaid /\ frames' = Append(frames, Open) /\ pos' = pos + 1
          /\ UNCHANGED <<data, hand, made, cap, out>>

ReadNil ==
    /\ Reading /\ Marker = 128
    /\ ReadElement(Nil, ElementPaid, pos + 1)

ReadSingle ==
    /\ Reading /\ Marker < SINGLE
    /\ ReadElement(Atom(Marker, 1), ElementPaid, pos + 1)

\* The n bytes at a position, if they are there.
Available(at, n) == at + n <= Len(data)
Payload(at, n)   == FromBytes(SubSeq(data, at + 1, at + n))

\* Copy a payload whose length is known to be available and shortest.
ReadPayload(at, n) ==
    ReadElement(Payload(at, n), charge(budget, RD_PER_ELEMENT + PayloadRate * n), at + n)

ReadShort ==
    /\ Reading /\ 128 < Marker /\ Marker < 192
    /\ LET n == Marker - 128
       IN  CASE ~Available(pos + 1, n) -> Fail("witness element truncated", pos + 1)
             [] Available(pos + 1, n) /\ n = 1 /\ data[pos + 2] < SINGLE
                    -> Fail("one byte atom with length prefix", pos + 1)
             [] OTHER -> ReadPayload(pos + 1, n)

\* Mutant: the wide prefix is accepted one byte below its range.
NarrowerByOne(n, floor) == n < floor
Narrower(n, floor) == n <= floor

\* A prefix of width more bytes that says n; shorter prefixes reach floor.
ReadWide(width, n, floor) ==
    LET at == pos + 1 + width
    IN  CASE ~Available(pos + 1, width) -> Fail("witness element truncated", pos + 1)
          [] Available(pos + 1, width) /\ Narrower(n, floor) -> Fail("wide length prefix", at)
          [] Available(pos + 1, width) /\ ~Narrower(n, floor) /\ ~Available(at, n)
                 -> Fail("witness element truncated", at)
          [] OTHER -> ReadPayload(at, n)

ReadMid ==
    /\ Reading /\ 192 <= Marker /\ Marker < 224
    /\ ReadWide(1, (Marker - 192) * 256 + data[pos + 2], SHORT_MAX)

ReadLong ==
    /\ Reading /\ 224 <= Marker /\ Marker < 240
    /\ ReadWide(2, (Marker - 224) * 65536 + data[pos + 2] * 256 + data[pos + 3], MID_MAX)

ReadOversize ==
    /\ Reading /\ 240 <= Marker /\ Marker < 255
    /\ Fail("witness element atom too large", pos + 1)

-----------------------------------------------------------------------------
(***************************************************************************)
(* Delivery of the element in hand into the innermost pending pair.        *)
(***************************************************************************)
Delivering == out = Pending /\ hand # Nothing
Top == frames[Len(frames)]

\* It is the left child that pair waits for.
Place ==
    /\ Delivering /\ frames # <<>> /\ Top = Open
    /\ frames' = [frames EXCEPT ![Len(frames)] = hand] /\ hand' = Nothing
    /\ UNCHANGED <<data, pos, budget, made, cap, out>>

\* It is the right child, and the pair is the next element in hand.
Fold ==
    /\ Delivering /\ frames # <<>> /\ Top # Open
    /\ hand' = Cons(Top, hand) /\ frames' = SubSeq(frames, 1, Len(frames) - 1)
    /\ budget' = Construct(budget, 1) /\ made' = made + 1
    /\ UNCHANGED <<data, pos, cap, out>>

\* Nothing is pending: it is the whole element, if it is the whole input.
Finish ==
    /\ Delivering /\ frames = <<>>
    /\ \/ pos # Len(data) /\ Fail("witness element has trailing bytes", pos)
       \/ /\ pos = Len(data)
          /\ out' = hand /\ hand' = Nothing
          /\ UNCHANGED <<data, pos, frames, budget, made, cap>>

Deliver == Place \/ Fold \/ Finish

Read == \/ ReadEnd \/ ReadCons \/ ReadNil \/ ReadSingle
        \/ ReadShort \/ ReadMid \/ ReadLong \/ ReadOversize

DecodeNext == Read \/ Deliver

Decoded == out # Pending /\ UNCHANGED decodeVars

DecodeSpec == DecodeInit /\ [][DecodeNext \/ Decoded]_decodeVars
-----------------------------------------------------------------------------
(***************************************************************************)
(* Properties.                                                             *)
(***************************************************************************)
\* The walk keeps a position inside the input and a budget record, its caller
\* has no guard open, and what it says is one of the four things it can say.
DecodeTypeOK ==
    /\ pos \in 0..Len(data) /\ Len(frames) <= pos
    /\ budget \in [limit : Nat, used : Nat, exhausted : BOOLEAN, allowances : {<<>>},
                   guard_breach : {FALSE}, alloc_breach : BOOLEAN]
    /\ made \in Nat
    /\ \A i \in 1..Len(frames) : frames[i] = Open \/ IsBll(frames[i])
    /\ hand = Nothing \/ IsBll(hand)
    /\ out \in {Pending, None} \/ IsBll(out) \/ IsError(out)

\* Every element built, and every pair that only its marker has announced, is
\* paid for in full before it exists; the Error of a refusal is covered by the
\* charge on entry.  The decode bounds its own memory by its charges alone.
PaidAhead ==
    LET elements == IF IsError(out) THEN made - 1 ELSE made
    IN  out = None \/ RD_BASE + RD_PER_ELEMENT * (elements + Len(frames)) <= budget.used

\* A decode is over without an element exactly when a charge failed, and a
\* breach of the cap is latched whatever the decode says.
LatchesTold ==
    /\ budget.exhausted => out = None
    /\ out = None => Latched(budget)
    /\ budget.alloc_breach <=> made > cap
    /\ pos = 0 /\ Awaiting => ~Latched(budget)
=============================================================================
