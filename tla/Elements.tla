------------------------------ MODULE Elements ------------------------------
(***************************************************************************)
(* The values of the evaluator (element.py): atoms, pairs, errors and      *)
(* function objects, and what their constructors cost the allocator.       *)
(*                                                                         *)
(* An atom is a byte string with its length; bytes may also be opaque (a   *)
(* digest's), which everything but arithmetic carries around.              *)
(***************************************************************************)
EXTENDS Integers, FiniteSets, Sequences

\* Bound of the model: the integers it reads or writes fit in this many
\* bytes (an atom may be wider, the bytes of an integer beyond are then zero).
MaxIntBytes == 4

Abs(n) == IF n < 0 THEN -n ELSE n

\* What Atom(b) is for a byte string b.
FromBytes(b) == [kind |-> "atom", bytes |-> b, width |-> Len(b)]
Error(msg)   == [kind |-> "error", msg |-> msg]

\* The atom holding a natural number in so many bytes, the lowest first.
ByteOf(n, k) == IF k > MaxIntBytes THEN 0 ELSE (n \div 256^(k-1)) % 256
Atom(n, width) == FromBytes([k \in 1..width |-> ByteOf(n, k)])

\* The two interned atoms: constructed once at import, then only bumped.
Nil == Atom(0, 0)
One == Atom(1, 1)

IsAtom(e)  == e.kind = "atom"
IsNil(e)   == e = Nil
IsCons(e)  == e.kind \in {"bllcons", "symcons"}
IsError(e) == e.kind = "error"
IsFunc(e)  == e.kind = "func"
IsBll(e)   == e.kind \in {"atom", "bllcons"}

\* A pair is bll exactly when both children are, which is decided once, when
\* it is built.
Cons(l, r) == [kind |-> IF IsBll(l) /\ IsBll(r) THEN "bllcons" ELSE "symcons",
               val1 |-> l, val2 |-> r]

\* A function object: its class, the opcode and internal state of an fn_op
\* (0 and <<>> for the other classes) and its state element.
Func(fn, op, ist, state) ==
    [kind |-> "func", fn |-> fn, op |-> op, ist |-> ist, state |-> state]

\* Every element of the set is an atom or a pair, of elements of the set.
MadeOfAtoms(S) ==
    \A e \in S :
        \/ IsAtom(e) /\ e.bytes \in Seq(Nat) /\ e = FromBytes(e.bytes)
        \/ IsCons(e) /\ {e.val1, e.val2} \subseteq S /\ e = Cons(e.val1, e.val2)

\* Bound of the model: what a program is written with is nested less deep.
Nesting == 64

\* What an element is made of, itself first.
Parts(e) ==
    LET within[k \in 0..Nesting] ==
            IF k = 0 THEN {e}
            ELSE LET found == within[k-1]
                 IN  found \cup UNION {{x.val1, x.val2} : x \in {y \in found : IsCons(y)}}
    IN  within[Nesting]

\* Constructions an expression Atom(...) makes: none for the interned two.
Fresh(a) == IF a \in {Nil, One} THEN 0 ELSE 1

(***************************************************************************)
(* Sign and magnitude, least significant byte first, the sign in the top   *)
(* bit of the last byte.                                                   *)
(***************************************************************************)
\* The unsigned value of the first k bytes of b, summed from the highest down.
Magnitude(b, k) ==
    LET sum[i \in 0..k] == IF i = 0 THEN 0 ELSE b[k - i + 1] + 256 * sum[i-1]
    IN  sum[k]

AsInt(a) ==
    LET top == a.bytes[a.width]
    IN  IF a.width = 0 THEN 0
        ELSE IF top < 128 THEN Magnitude(a.bytes, a.width)
        ELSE -Magnitude([a.bytes EXCEPT ![a.width] = top - 128], a.width)

\* Bytes of the minimal encoding of n.
IntWidth(n) ==
    IF n = 0 THEN 0
    ELSE 1 + Cardinality({k \in 0..MaxIntBytes-1 : Abs(n) \div 128 >= 256^k})

IntAtom(n) ==
    LET w == IntWidth(n)
    IN  Atom(IF n < 0 THEN Abs(n) + 128 * 256^(w - 1) ELSE n, w)

\* What Atom(l.val2 + r.val2) holds.
Concat(l, r) == FromBytes(l.bytes \o r.bytes)
=============================================================================
