------------------------------ MODULE SerDeser ------------------------------
(***************************************************************************)
(* The codec of the evaluator (element.py, class SerDeser) and the         *)
(* operators that apply it: the encoder (wr), and the lenient decoder (rd) *)
(* which accepts any well-formed encoding.                                 *)
(***************************************************************************)
EXTENDS Budget

SERIALIZED_ATOM_MAX == 1048575

sizebytes(n) ==
    IF n <= 63 THEN <<128 + n>>
    ELSE IF n <= 8191 THEN <<192 + n \div 256, n % 256>>
    ELSE <<224 + n \div 65536, (n \div 256) % 256, n % 256>>

(***************************************************************************)
(* The encoder: every node writes its own bytes before its children's.     *)
(***************************************************************************)
NodeBytes(e) ==
    IF IsCons(e) THEN <<255>>
    ELSE IF IsNil(e) THEN <<128>>
    ELSE IF e.width = 1 /\ e.bytes[1] < 128 THEN e.bytes
    ELSE sizebytes(e.width) \o e.bytes

EncodeNode(s) ==
    LET e == s.todo[1]
    IN  IF ~IsAtom(e) /\ ~IsCons(e)
        THEN [s EXCEPT !.todo = <<>>, !.error = "can only serialize atom/cons"]
        ELSE IF IsAtom(e) /\ e.width > SERIALIZED_ATOM_MAX
        THEN [s EXCEPT !.todo = <<>>, !.error = "atom too large to serialize"]
        ELSE [s EXCEPT !.todo = IF IsCons(e) THEN <<e.val1, e.val2>> \o Tail(@) ELSE Tail(@),
                       !.out  = @ \o NodeBytes(e),
                       !.cost = @ + WR_PER_ELEMENT
                                  + (WR_PER_BYTE + MALLOC_PER_BYTE) * Len(NodeBytes(e))]

_Serialize(e) == WalkNodes(EncodeNode, [todo |-> <<e>>, out |-> <<>>, cost |-> 0, error |-> ""])

Serialize(e) == _Serialize(e).out

op_list_write(a) ==
    LET s == _Serialize(a[1])
    IN  IF s.error # "" THEN Fails(WR_BASE + s.cost, s.error)
        ELSE Builds(WR_BASE + s.cost, FromBytes(s.out))

(***************************************************************************)
(* The decoder.  What is read at a position: an element, an Error or the   *)
(* end of the input, the position after it, and the charges made for it.   *)
(***************************************************************************)
EOF == [kind |-> "eof"]

ReadTo(val, next, legs) == [val |-> val, next |-> next, legs |-> legs]

\* The last leg builds n more.
Building(legs, n) == [legs EXCEPT ![Len(legs)].built = @ + n]

read_atom(input, i, n) ==
    LET atom == FromBytes(SubSeq(input, i + 1, i + n))
    IN  IF i + n > Len(input) THEN ReadTo(EOF, i, <<>>)
        ELSE ReadTo(atom, i + n,
                     <<Leg(RD_PER_ELEMENT + (RD_PER_BYTE + MALLOC_PER_BYTE) * n, Fresh(atom))>>)

\* A pair is charged at its marker and built after its right child.
ReadPair(i, l, r) ==
    LET begun == <<Leg(RD_PER_ELEMENT, 0)>> \o l.legs
    IN  IF ~IsBll(l.val) THEN [l EXCEPT !.legs = begun]
        ELSE IF ~IsBll(r.val) THEN [r EXCEPT !.legs = begun \o @]
        ELSE ReadTo(Cons(l.val, r.val), r.next, Building(begun \o r.legs, 1))

_Deserialize(input) ==
    LET n == Len(input)
        more(i, k) == i + 1 + k <= n
        at[i \in 0..n] ==
            IF i = n THEN ReadTo(EOF, i, <<>>)
            ELSE LET m == input[i + 1]
                     l == at[i + 1]
                     r == at[l.next]
                 IN  CASE m = 128 -> ReadTo(Nil, i + 1, <<Leg(RD_PER_ELEMENT, 0)>>)
                       [] m < 128 -> ReadTo(Atom(m, 1), i + 1,
                                             <<Leg(RD_PER_ELEMENT, Fresh(Atom(m, 1)))>>)
                       [] m \in 129..191 -> read_atom(input, i + 1, m - 128)
                       [] m \in 192..223 /\ more(i, 1) ->
                            read_atom(input, i + 2, (m - 192) * 256 + input[i + 2])
                       [] m \in 224..239 /\ more(i, 2) ->
                            read_atom(input, i + 3,
                                      (m - 224) * 65536 + input[i + 2] * 256 + input[i + 3])
                       [] m = 255 -> ReadPair(i, l, r)
                       [] m \in 240..254 ->
                            ReadTo(Error("serialized atom too large"), i + 1, <<>>)
                       [] OTHER -> ReadTo(EOF, i + 1, <<>>)
    IN  at[0]

ReadWhole(input, top) ==
    LET legs  == <<Leg(RD_BASE, 0)>> \o top.legs
        rest  == Len(input) - top.next
        stale == Leg(2 * (RD_PER_BYTE + MALLOC_PER_BYTE) * rest, 1)
    IN  IF top.val = EOF THEN InTurn(Building(legs, 1), Error("insufficient data"))
        ELSE IF rest # 0
        THEN InTurn(Append(IF IsError(top.val) THEN Building(legs, 1) ELSE legs, stale),
                    Error("incomplete deserialization"))
        ELSE InTurn(IF IsError(top.val) THEN Building(legs, 1) ELSE legs, top.val)

op_list_read(a) ==
    IF IsAtom(a[1]) THEN ReadWhole(a[1].bytes, _Deserialize(a[1].bytes))
    ELSE Fails(RD_BASE, "rd: argument must be atom")
=============================================================================
