---------------------------- MODULE ByteOpcodes ----------------------------
(***************************************************************************)
(* The operators on byte strings and on whole trees (opcodes.py): the      *)
(* bitwise folds, shift, substr, <s, === and the balanced-tree fold b.     *)
(***************************************************************************)
EXTENDS Budget

CopyRate == COPY_PER_BYTE + MALLOC_PER_BYTE

(***************************************************************************)
(* Bitwise folds: out to the wider operand, the other one padded.          *)
(***************************************************************************)
BitAt(x, i) == (x \div 2^i) % 2

BitOr(x, y)     == Wider(x, y)
BitXor(x, y)    == (x + y) % 2
BitAnd(x, y)    == x * y
BitOrNot(x, y)  == Wider(x, 1 - y)       \* (x ^ 1) & y, inverted at the end

OnBytes(bit(_,_), x, y) ==
    LET sum[i \in 0..8] ==
            IF i = 0 THEN 0 ELSE sum[i-1] + bit(BitAt(x, i-1), BitAt(y, i-1)) * 2^(i-1)
    IN  sum[8]

\* Byte k of a, the padding past its end.
Padded(a, k, pad) == IF k <= a.width THEN a.bytes[k] ELSE pad

Combined(bit(_,_), left, right, pad) ==
    FromBytes([k \in 1..Wider(left.width, right.width) |->
                  OnBytes(bit, Padded(left, k, 0), Padded(right, k, pad))])

\* The argument charge comes before its shape is looked at.
BytesFold(msg, left, right, out) ==
    IF IsAtom(right)
    THEN Builds(BITWISE_ARG + CopyRate * Wider(left.width, right.width), out)
    ELSE Fails(BITWISE_ARG, msg)

op_or_bytes(left, right) ==
    BytesFold("or_bytes: argument must be atom", left, right, Combined(BitOr, left, right, 0))

op_xor_bytes(left, right) ==
    BytesFold("xor_bytes: argument must be atom", left, right, Combined(BitXor, left, right, 0))

\* The nil state lets the first argument through as it is.
op_and_bytes(left, right) ==
    IF IsNil(left) /\ IsAtom(right) THEN Borrows(BITWISE_ARG, right)
    ELSE BytesFold("and_bytes: argument must be atom", left, right,
                   Combined(BitAnd, left, right, 0))

op_nand_bytes(left, right) ==
    BytesFold("nand_bytes: argument must be atom", left, right,
              Combined(BitOrNot, left, right, 255))

(***************************************************************************)
(* shift: the bound of the output is charged, the bytes are then emitted   *)
(* one for each input byte that is not shifted out, and one of overflow.   *)
(***************************************************************************)
\* x shifted left by delta bits, in so many bytes.
ShiftedBytes(bytes, delta, width) ==
    LET places == 2^(delta % 8)
        at(k)  == IF k \in 1..Len(bytes) THEN bytes[k] * places ELSE 0
        from   == delta \div 8
    IN  FromBytes([k \in 1..width |-> (at(k - from) % 256) + (at(k - from - 1) \div 256)])

op_shift(a) ==
    LET inp     == a[1]
        delta   == AsInt(a[2])
        parsed  == SHIFT_BASE + atom_scan(a[2].width)
        bound   == (IF delta > 0 THEN delta \div 8 ELSE 0) + inp.width + 1
        gone    == (7 - delta) \div 8           \* bytes a right shift consumes
        emitted == IF delta > 0 THEN bound ELSE 1 + Wider(inp.width - gone, 0)
    IN  IF ~IsAtom(inp) \/ ~IsAtom(a[2])
        THEN Fails(SHIFT_BASE, "shift: expects atomic arguments")
        ELSE IF delta = 0 THEN Borrows(parsed, inp)
        ELSE Builds(parsed + CopyRate * bound, ShiftedBytes(inp.bytes, delta, emitted))

(***************************************************************************)
(* substr: negative indices count from the end, as in the source language. *)
(***************************************************************************)
FromEnd(n, width) == IF n < 0 THEN Wider(n + width, 0) ELSE n

op_substr(a) ==
    LET el    == a[1]
        start == AsInt(a[2])
        end   == IF Len(a) = 3 THEN AsInt(a[3]) ELSE el.width
        begun == SUBSTR_BASE + atom_scan(a[2].width)
        read  == begun + IF Len(a) = 3 THEN atom_scan(a[3].width) ELSE 0
        low   == FromEnd(start, el.width)
        high  == IF end < 0 THEN FromEnd(end, el.width)
                 ELSE IF end < el.width THEN end ELSE el.width
    IN  IF Len(a) = 0 THEN Borrows(SUBSTR_BASE, Nil)
        ELSE IF ~IsAtom(el) THEN Fails(SUBSTR_BASE, "substr: cannot take substr of non-atom")
        ELSE IF Len(a) = 1 THEN Borrows(SUBSTR_BASE, el)
        ELSE IF ~IsAtom(a[2]) THEN Fails(SUBSTR_BASE, "substr: start must be atom")
        ELSE IF Len(a) = 3 /\ ~IsAtom(a[3]) THEN Fails(begun, "substr: end must be atom")
        ELSE IF start = 0 /\ end >= el.width THEN Borrows(read, el)
        ELSE IF start > el.width \/ low >= high THEN Borrows(read, Nil)
        ELSE Builds(read + CopyRate * (high - low), FromBytes(SubSeq(el.bytes, low + 1, high)))

(***************************************************************************)
(* <s: the state is 1, then (1 . last argument), or nil once it failed.    *)
(***************************************************************************)
LexLess(s, t) ==
    \E k \in 0..Len(s) :
        /\ k < Len(t)
        /\ \A i \in 1..k : s[i] = t[i]
        /\ k < Len(s) => s[k+1] < t[k+1]

op_lt_str(left, right) ==
    LET scan == IF IsCons(left) THEN COMPARE_PER_BYTE * right.width ELSE 0
    IN  IF IsFunc(right) THEN Fails(COMPARE_ARG, "<s: cannot compare a function object")
        ELSE IF IsNil(left) \/ ~IsAtom(right) THEN Borrows(COMPARE_ARG, Nil)
        ELSE IF IsCons(left) /\ ~LexLess(left.val2.bytes, right.bytes)
        THEN Borrows(COMPARE_ARG + scan, Nil)
        ELSE Path(COMPARE_ARG + scan, 1, Cons(One, right))

(***************************************************************************)
(* ===: equality of trees, the pairs of nodes still to compare on a list,  *)
(* each charged when it is taken, the right children first.                *)
(***************************************************************************)
Mixed == "===: cannot compare a function object"

CompareNodes(s) ==
    LET a == s.todo[1][1]
        b == s.todo[1][2]
        node == [s EXCEPT !.todo = Tail(@), !.cost = @ + BIGEQ_PER_NODE]
        scan == [node EXCEPT !.cost = @ + COMPARE_PER_BYTE * a.width]
        stop(t, verdict) == [t EXCEPT !.todo = <<>>, !.verdict = verdict]
    IN  IF IsFunc(a) \/ IsFunc(b) THEN stop(node, Mixed)
        ELSE IF IsAtom(a)
        THEN IF ~IsAtom(b) \/ a.width # b.width THEN stop(node, "different")
             ELSE IF a # b THEN stop(scan, "different") ELSE scan
        ELSE IF IsAtom(b) THEN stop(node, "different")
        ELSE [node EXCEPT !.todo = <<<<a.val2, b.val2>>, <<a.val1, b.val1>>>> \o @]

op_bigeq(left, right) ==
    LET w == WalkNodes(CompareNodes,
                       [todo |-> <<<<left.val1, right>>>>, cost |-> COMPARE_ARG, verdict |-> "same"])
    IN  IF IsFunc(right) THEN Fails(COMPARE_ARG, Mixed)
        ELSE IF IsNil(left) THEN Borrows(COMPARE_ARG, Nil)
        ELSE IF IsAtom(left) THEN Path(COMPARE_ARG, 1, Cons(right, left))
        ELSE CASE w.verdict = "same"      -> Borrows(w.cost, left)
               [] w.verdict = "different" -> Borrows(w.cost, Nil)
               [] w.verdict = Mixed       -> Fails(w.cost, Mixed)

(***************************************************************************)
(* b: a binary counter of perfect trees.  The state is ((v . m) . n), n    *)
(* arguments so far, v the newest tree and m the older ones, larger first  *)
(* at the end; an odd n carries.                                           *)
(***************************************************************************)
\* Bound of the model: b is applied to fewer than 2^CounterBits arguments.
CounterBits == 5

\* The carry: v and m after merging one tree for each trailing 1 of n.
Carry(v, m, n) ==
    LET merged[k \in 0..CounterBits] ==
            IF k = 0 THEN [v |-> v, m |-> m, built |-> 0]
            ELSE LET c == merged[k-1]
                 IN  IF c.built < k - 1 \/ BitAt(n, k - 1) = 0 THEN c
                     ELSE [v |-> Cons(c.m.val1, c.v), m |-> c.m.val2, built |-> k]
    IN  merged[CounterBits]

op_b(left, right) ==
    LET n == AsInt(left.val2)
        c == Carry(right, left.val1, n)
    IN  IF IsNil(left) THEN Path(B_ARG, 2, Cons(Cons(right, Nil), One))
        ELSE Path(B_ARG, c.built + 2 + Fresh(IntAtom(n + 1)), Cons(Cons(c.v, c.m), IntAtom(n + 1)))

\* The trees still pending are joined, oldest outermost; each pair is charged
\* before it is built.
JoinTree(s) ==
    LET rest == s.todo[1]
    IN  [todo |-> IF IsCons(rest.val2) THEN <<rest.val2>> ELSE <<>>,
         tree |-> Cons(rest.val1, s.tree), legs |-> Append(s.legs, Leg(ELEMENT_ALLOC, 1))]

FinishB(state) ==
    LET rest  == state.val1.val2
        done  == WalkNodes(JoinTree,
                           [todo |-> IF IsCons(rest) THEN <<rest>> ELSE <<>>,
                            tree |-> state.val1.val1, legs |-> <<>>])
    IN  IF IsNil(state) \/ ~IsCons(rest)
        THEN Borrows(0, IF IsNil(state) THEN state ELSE state.val1.val1)
        ELSE InTurn(done.legs, done.tree)
=============================================================================
