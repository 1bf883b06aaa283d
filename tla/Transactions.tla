---------------------------- MODULE Transactions ----------------------------
(***************************************************************************)
(* Transactions as the operators and the shell see them                    *)
(* (verystable/core/messages.py): their fields, the bytes they serialize   *)
(* to and what is parsed back from bytes.                                  *)
(*                                                                         *)
(* A transaction is [version, locktime, vin, vout, wit]: vin a sequence of *)
(* [prevout, script_sig, sequence], vout one of [value, spk] and wit one   *)
(* of witness stacks, each a sequence of byte strings.                     *)
(***************************************************************************)
EXTENDS Elements

Seqs == INSTANCE SequencesExt

(***************************************************************************)
(* Writing.                                                                *)
(***************************************************************************)
\* struct.pack: unsigned and two's complement, little-endian in k bytes.
Unsigned(n, k) == Atom(n, k).bytes
Signed(n, k)   == IF n >= 0 THEN Unsigned(n, k)
                  ELSE [j \in 1..k |-> 255 - ByteOf(-n - 1, j)]

ser_compact_size(l) ==
    IF l < 253 THEN Unsigned(l, 1)
    ELSE IF l < 65536 THEN <<253>> \o Unsigned(l, 2)
    ELSE <<254>> \o Unsigned(l, 4)

ser_string(s) == ser_compact_size(Len(s)) \o s

Joined(ser(_), l) == Seqs!FlattenSeq([k \in DOMAIN l |-> ser(l[k])])
ser_vector(ser(_), l) == ser_compact_size(Len(l)) \o Joined(ser, l)

SerOutPoint(p) == Unsigned(p.hash, 32) \o Unsigned(p.n, 4)
SerTxIn(i)     == SerOutPoint(i.prevout) \o ser_string(i.script_sig) \o Unsigned(i.sequence, 4)
SerTxOut(o)    == Signed(o.value, 8) \o ser_string(o.spk)
SerStack(items) == ser_vector(ser_string, items)

serialize_without_witness(t) ==
    Signed(t.version, 4) \o ser_vector(SerTxIn, t.vin) \o ser_vector(SerTxOut, t.vout)
        \o Unsigned(t.locktime, 4)

IsNull(wit) == \A k \in DOMAIN wit : wit[k] = <<>>

\* The witness is cut or filled up to one stack per input.
Fitted(t) == [k \in DOMAIN t.vin |-> IF k \in DOMAIN t.wit THEN t.wit[k] ELSE <<>>]

SerWitness(t) == Joined(SerStack, Fitted(t))

\* The marker is an empty vector of inputs, then the flags.
serialize(t) ==
    IF IsNull(t.wit) THEN serialize_without_witness(t)
    ELSE Signed(t.version, 4) \o <<0, 1>> \o ser_vector(SerTxIn, t.vin)
            \o ser_vector(SerTxOut, t.vout) \o SerWitness(t) \o Unsigned(t.locktime, 4)

(***************************************************************************)
(* Reading: what is read from the front of some bytes, and the rest.  A    *)
(* number that is cut short fails, a byte string is silently shorter.      *)
(***************************************************************************)
Parsed(val, rest) == [ok |-> TRUE, val |-> val, rest |-> rest]
Unreadable        == [ok |-> FALSE, val |-> <<>>, rest |-> <<>>]

Then(r, next(_, _)) == IF r.ok THEN next(r.val, r.rest) ELSE r

Take(n, s) == LET k == IF n < Len(s) THEN n ELSE Len(s)
              IN  Parsed(SubSeq(s, 1, k), SubSeq(s, k + 1, Len(s)))
unpack(k, s) == IF Len(s) < k THEN Unreadable
                ELSE Parsed(Magnitude(s, k), SubSeq(s, k + 1, Len(s)))

\* The complement of a negative number is read bit by bit.
UnpackSigned(k, s) ==
    IF Len(s) < k \/ s[k] < 128 THEN unpack(k, s)
    ELSE Parsed(-1 - Magnitude([j \in 1..k |-> 255 - s[j]], k), SubSeq(s, k + 1, Len(s)))

deser_compact_size(s) ==
    Then(unpack(1, s), LAMBDA l, rest :
        CASE l = 253 -> unpack(2, rest)
          [] l = 254 -> unpack(4, rest)
          [] l = 255 -> unpack(8, rest)
          [] OTHER   -> Parsed(l, rest))

deser_string(s)  == Then(deser_compact_size(s), Take)
deser_uint256(s) == Then(Take(32, s), LAMBDA b, rest : Parsed(Magnitude(b, Len(b)), rest))

\* A list of n things, each read after the one before.
Repeated(deser(_), n, s) ==
    LET read[k \in 0..n] ==
            IF k = 0 THEN Parsed(<<>>, s)
            ELSE Then(read[k-1], LAMBDA l, rest :
                     Then(deser(rest), LAMBDA x, left : Parsed(Append(l, x), left)))
    IN  read[n]

deser_vector(deser(_), s) == Then(deser_compact_size(s), LAMBDA n, rest : Repeated(deser, n, rest))

DeserOutPoint(s) ==
    Then(deser_uint256(s), LAMBDA h, s1 :
    Then(unpack(4, s1), LAMBDA n, s2 : Parsed([hash |-> h, n |-> n], s2)))
DeserTxIn(s) ==
    Then(DeserOutPoint(s), LAMBDA p, s1 :
    Then(deser_string(s1), LAMBDA sig, s2 :
    Then(unpack(4, s2), LAMBDA q, s3 :
        Parsed([prevout |-> p, script_sig |-> sig, sequence |-> q], s3))))
DeserTxOut(s) ==
    Then(UnpackSigned(8, s), LAMBDA v, s1 :
    Then(deser_string(s1), LAMBDA spk, s2 : Parsed([value |-> v, spk |-> spk], s2)))
DeserStack(s) == deser_vector(deser_string, s)
DeserWitness(inputs, s) == Repeated(DeserStack, inputs, s)

\* An empty vector of inputs announces flags, and after flags that are not zero
\* the inputs; after flags of zero there are no outputs either.
Deserialize(s) ==
    Then(UnpackSigned(4, s), LAMBDA version, s1 :
    Then(deser_vector(DeserTxIn, s1), LAMBDA first, s2 :
    Then(IF first = <<>> THEN unpack(1, s2) ELSE Parsed(0, s2), LAMBDA flags, s3 :
    Then(IF flags # 0 THEN deser_vector(DeserTxIn, s3) ELSE Parsed(first, s3), LAMBDA vin, s4 :
    Then(IF flags # 0 \/ first # <<>> THEN deser_vector(DeserTxOut, s4) ELSE Parsed(<<>>, s4),
         LAMBDA vout, s5 :
    Then(DeserWitness(IF flags # 0 THEN Len(vin) ELSE 0, s5), LAMBDA wit, s6 :
    Then(unpack(4, s6), LAMBDA locktime, s7 :
        Parsed([version |-> version, locktime |-> locktime, vin |-> vin, vout |-> vout,
                wit |-> wit], s7))))))))
=============================================================================
