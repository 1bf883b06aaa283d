------------------------------ MODULE Scripts ------------------------------
(***************************************************************************)
(* Scripts (verystable/core/script.py): how a script is put together from  *)
(* opcodes, numbers and data, how it is read back opcode by opcode, and    *)
(* what is computed by reading it.  A script is the sequence of its bytes. *)
(***************************************************************************)
EXTENDS Transactions

CONSTANT Raised   \* stands for the result of what raises an exception

OP_0 == 0
OP_PUSHDATA1 == 76
OP_PUSHDATA2 == 77
OP_PUSHDATA4 == 78
OP_1NEGATE   == 79
OP_1  == 81
OP_16 == 96
OP_CODESEPARATOR == 171
OP_CHECKSIGS      == {172, 173}
OP_CHECKMULTISIGS == {174, 175}

(***************************************************************************)
(* Numbers.                                                                *)
(***************************************************************************)
\* The least number of bytes that holds a magnitude.
BytesFor(n) == CHOOSE k \in 0..4 : /\ \A j \in 1..4 : j > k => ByteOf(n, j) = 0
                                   /\ k > 0 => ByteOf(n, k) > 0

SetTopBit(b) == Append(Seqs!Front(b), Seqs!Last(b) + 128)

\* One bit more than the magnitude, for the sign, in whole bytes.
bn2vch(v) ==
    LET k    == BytesFor(Abs(v))
        wide == IF v # 0 /\ ByteOf(Abs(v), k) >= 128 THEN k + 1 ELSE k
        b    == Unsigned(Abs(v), wide)
    IN  IF v < 0 THEN SetTopBit(b) ELSE b

\* CScriptNum: byte by byte, then the sign in the last or in one more.
CScriptNumEncode(v) ==
    LET b    == Unsigned(Abs(v), BytesFor(Abs(v)))
        full == Seqs!Last(b) >= 128
        r    == IF full THEN Append(b, IF v < 0 THEN 128 ELSE 0)
                ELSE IF v < 0 THEN SetTopBit(b) ELSE b
    IN  IF v = 0 THEN <<>> ELSE <<Len(r)>> \o r

CScriptNumDecode(vch) ==
    LET value == Tail(vch)
        top   == Seqs!Last(value)
        n     == Magnitude([value EXCEPT ![Len(value)] = top % 128], Len(value))
    IN  IF Len(vch) <= 1 THEN 0 ELSE IF top >= 128 THEN -n ELSE n

(***************************************************************************)
(* Building.  An item is [kind, val]: an opcode, a Python integer, a       *)
(* CScriptNum or bytes.                                                    *)
(***************************************************************************)
encode_op_n(n) == IF n = 0 THEN OP_0 ELSE OP_1 + n - 1

encode_op_pushdata(d) ==
    (IF Len(d) < OP_PUSHDATA1 THEN <<Len(d)>>
     ELSE IF Len(d) <= 255 THEN <<OP_PUSHDATA1>> \o Unsigned(Len(d), 1)
     ELSE IF Len(d) <= 65535 THEN <<OP_PUSHDATA2>> \o Unsigned(Len(d), 2)
     ELSE <<OP_PUSHDATA4>> \o Unsigned(Len(d), 4)) \o d

Coerced(item) ==
    LET v == item.val
    IN  CASE item.kind = "op"  -> <<v>>
          [] item.kind = "num" -> IF v = 0 THEN <<OP_0>> ELSE CScriptNumEncode(v)
          [] item.kind = "int" -> IF v \in 0..16 THEN <<encode_op_n(v)>>
                                  ELSE IF v = -1 THEN <<OP_1NEGATE>>
                                  ELSE encode_op_pushdata(bn2vch(v))
          [] item.kind = "data" -> encode_op_pushdata(v)

CScript(items) == Joined(Coerced, items)

(***************************************************************************)
(* Reading: the opcodes with the data they push and where each starts, and *)
(* what ends the reading.                                                  *)
(***************************************************************************)
\* How many bytes hold the length after a push opcode.
LengthBytes(op) == CASE op = OP_PUSHDATA1 -> 1
                     [] op = OP_PUSHDATA2 -> 2
                     [] op = OP_PUSHDATA4 -> 4
                     [] OTHER             -> 0

\* The length that l announces; scripts are shorter than 65536 bytes here, and a
\* length of more is only known to be too long.
Announced(l) == IF \E k \in 3..Len(l) : l[k] > 0 THEN 65536 ELSE Magnitude(l, Len(l))

\* The opcode at position i, counted from 0, and where the next one starts.
OpAt(s, i) ==
    LET op    == s[i + 1]
        start == i + 1 + LengthBytes(op)
        size  == IF LengthBytes(op) = 0 THEN op ELSE Announced(SubSeq(s, i + 2, start))
    IN  IF op > OP_PUSHDATA4 THEN [op |-> op, data |-> <<>>, at |-> i, next |-> i + 1]
        ELSE IF start > Len(s) \/ size > Len(s) - start THEN Raised
        ELSE [op |-> op, data |-> <<SubSeq(s, start + 1, start + size)>>, at |-> i,
              next |-> start + size]

\* What raw_iter yields, ended by Raised when it raises.
raw_iter(s) ==
    LET from[i \in 0..Len(s)] ==
            IF i = Len(s) THEN <<>>
            ELSE LET o == OpAt(s, i) IN IF o = Raised THEN <<o>> ELSE <<o>> \o from[o.next]
    IN  from[0]

Readable(s) == Raised \notin Seqs!ToSet(raw_iter(s))

\* A number for a small integer's opcode; no opcode that pushes data gets here.
Cooked(o) == IF o.data # <<>> THEN [kind |-> "data", val |-> o.data[1]]
             ELSE IF o.op \in OP_1..OP_16 THEN [kind |-> "int", val |-> o.op - OP_1 + 1]
             ELSE [kind |-> "op", val |-> o.op]
Iterated(s) == LET ops == raw_iter(s) IN [k \in DOMAIN ops |-> Cooked(ops[k])]

BytesOf(s, o) == SubSeq(s, o.at + 1, o.next)

\* Mutant: the bytes are searched for wherever they are.
DeleteAnywhere(s, sig) ==
    IF ~Readable(s) THEN Raised ELSE SelectSeq(s, LAMBDA b : b # sig[1])

Begins(s, at, sig) == at + Len(sig) <= Len(s) /\ SubSeq(s, at + 1, at + Len(sig)) = sig

\* An opcode at whose start the script reads sig is left out.
FindAndDelete(s, sig) ==
    IF ~Readable(s) THEN Raised
    ELSE Joined(LAMBDA o : BytesOf(s, o),
                SelectSeq(raw_iter(s), LAMBDA o : ~Begins(s, o.at, sig)))

(***************************************************************************)
(* Counting and classifying.                                               *)
(***************************************************************************)
SigOps(o) == IF o.op \in OP_CHECKSIGS THEN 1
             ELSE IF o.op \in OP_CHECKMULTISIGS THEN 20 ELSE 0

\* For the accurate count the byte of a CHECKMULTISIG after a small number is
\* itself asked for a number, and a byte has no such method.
AsksByte(ops) == \E k \in 2..Len(ops) : /\ ops[k].op \in OP_CHECKMULTISIGS
                                        /\ ops[k - 1].op \in OP_1..OP_16

GetSigOpCount(s, fAccurate) ==
    LET ops == raw_iter(s)
    IN  IF ~Readable(s) THEN Raised
        ELSE IF fAccurate /\ AsksByte(ops) THEN Raised
        ELSE Seqs!FoldLeft(LAMBDA n, o : n + SigOps(o), 0, ops)

IsWitnessProgram(s) ==
    /\ Len(s) \in 4..42
    /\ s[1] = OP_0 \/ s[1] \in OP_1..OP_16
    /\ s[2] + 2 = Len(s)
=============================================================================
