---------------------------- MODULE CurveOpcodes ----------------------------
(***************************************************************************)
(* The hash and signature operators (opcodes.py).  A hash is a mixing      *)
(* function of its input, in place of the library's.  The curve is the     *)
(* small one of module Secp256k1.                                          *)
(***************************************************************************)
EXTENDS Budget

\* What a tagged hash of three integers is: any mixing function.
TaggedHashOf(tag, data) == 7 * data[1] + 3 * data[2] + 5 * data[3] + 11

K == INSTANCE Keys WITH TaggedHash <- TaggedHashOf

(***************************************************************************)
(* Hashes: the midstate (ist) is the bytes fed so far.                     *)
(***************************************************************************)
DigestSize == [sha256 |-> 32, ripemd160 |-> 20, hash160 |-> 20, hash256 |-> 32]
HashOpcodes == DOMAIN DigestSize

\* Byte k of a digest: the input as a polynomial, at a point of the byte's own.
MixModulus == 65521

MixedByte(bytes, k) ==
    LET mix[i \in 0..Len(bytes)] ==
            IF i = 0 THEN Len(bytes) ELSE ((k + 1) * mix[i-1] + bytes[i]) % MixModulus
    IN  (mix[Len(bytes)] + k) % 256

Hash(name, bytes) ==
    [k \in 1..DigestSize[name] |-> MixedByte(bytes, k + DigestSize[name])]

Digest(op, bytes) ==
    CASE op \in {"sha256", "ripemd160"} -> Hash(op, bytes)
      [] op = "hash160" -> Hash("ripemd160", Hash("sha256", bytes))
      [] op = "hash256" -> Hash("sha256", Hash("sha256", bytes))

HashArgument(ist, arg) ==
    IF ~IsAtom(arg) THEN Fails(HASH_ARG, "cannot hash list")
    ELSE IntState(HASH_ARG + HASH_PER_BYTE * arg.width, ist \o arg.bytes)

HashFinish(op, ist) ==
    Builds(HASH_BASE + MALLOC_PER_BYTE * DigestSize[op], FromBytes(Digest(op, ist)))

(***************************************************************************)
(* Signatures.                                                             *)
(***************************************************************************)
OfWidth(el, widths) == IsAtom(el) /\ el.width \in widths

PrefixedPoint(b) ==
    IF Len(b) = 33
    THEN K!FromCompressed([prefix |-> b[1], x |-> K!BigEndian(Tail(b))])
    ELSE K!FromUncompressed([prefix |-> b[1], x |-> K!BigEndian(SubSeq(b, 2, 33)),
                             y |-> K!BigEndian(SubSeq(b, 34, 65))])

op_bip340_verify(a) ==
    LET pk  == a[1]
        m   == a[2]
        sig == a[3]
        verified == K!verify_schnorr(K!BigEndian(pk.bytes),
                                     K!BigEndian(SubSeq(sig.bytes, 1, 32)),
                                     K!BigEndian(SubSeq(sig.bytes, 33, 64)),
                                     K!BigEndian(m.bytes))
    IN  IF ~OfWidth(pk, {32}) THEN Fails(0, "invalid pubkey")
        ELSE IF ~OfWidth(m, {32}) THEN Fails(0, "invalid msg")
        ELSE IF IsNil(sig) THEN Borrows(0, sig)
        ELSE IF ~OfWidth(sig, {64}) THEN Fails(0, "invalid sig")
        ELSE IF verified THEN Borrows(SIG_VERIFY, One)
        ELSE Fails(SIG_VERIFY, "bip340_verify: invalid, non-empty signature")

op_ecdsa_verify(a) ==
    LET m   == a[2]
        sig == a[3]
        key == PrefixedPoint(a[1].bytes)
    IN  IF ~OfWidth(a[1], {33, 65}) THEN Fails(0, "invalid pubkey size")
        ELSE IF key = K!None THEN Fails(ECDSA_PARSE, "invalid pubkey")
        ELSE IF ~OfWidth(m, {32}) THEN Fails(ECDSA_PARSE, "invalid msg")
        ELSE IF IsNil(sig) THEN Borrows(ECDSA_PARSE, sig)
        ELSE IF ~IsAtom(sig) THEN Fails(ECDSA_PARSE, "invalid sig")
        ELSE IF K!verify_ecdsa(key, sig.bytes, K!BigEndian(m.bytes), FALSE)
        THEN Borrows(ECDSA_PARSE + SIG_VERIFY, One)
        ELSE Fails(ECDSA_PARSE + SIG_VERIFY, "ecdsa_verify: invalid, non-empty signature")

(***************************************************************************)
(* secp256k1_muladd: the arguments are collected newest first; each is a   *)
(* scalar of G or a pair of a scalar and a point.                          *)
(***************************************************************************)
op_secp256k1_muladd(left, right) ==
    LET scalar == IF IsCons(right) THEN right.val1 ELSE right
    IN  IF IsCons(right) /\ ~IsAtom(right.val2)
        THEN Fails(MULADD_ARG, "secp256k1_muladd: point must be atom")
        ELSE IF ~IsAtom(scalar) THEN Fails(MULADD_ARG, "secp256k1_muladd: scalar must be atom")
        ELSE IF scalar.width > 32 THEN Fails(MULADD_ARG, "secp256k1_muladd: scalar out of range")
        ELSE Path(MULADD_ARG, 1, Cons(right, left))

\* The point a term names: G, its negation for nil, or what its bytes encode.
TermPoint(el) ==
    LET b == el.val2.bytes
    IN  IF IsAtom(el) THEN K!G
        ELSE IF b = <<>> THEN K!Neg(K!G)
        ELSE IF Len(b) = 32 THEN K!FromXOnly(K!BigEndian(b))
        ELSE IF Len(b) = 33 /\ b[1] \in {2, 3} THEN PrefixedPoint(b)
        ELSE K!None

Scalar(b) == K!BigEndian(b) % K!ORDER

\* A scalar's bytes and a point as a term; a nil scalar is minus one.
TermOf(b, point) ==
    IF point = K!None THEN Error("secp256k1_muladd: invalid point")
    ELSE IF b = <<>> THEN K!Term(1, K!Neg(point))
    ELSE IF Scalar(b) = 0 THEN Error("secp256k1_muladd: scalar is 0")
    ELSE K!Term(Scalar(b), point)

MuladdTerm(el) == TermOf(IF IsAtom(el) THEN el.bytes ELSE el.val1.bytes, TermPoint(el))

\* The curve work is paid term by term, ahead of each term's decode.
AddTerm(s, rest, term) ==
    IF "kind" \in DOMAIN term
    THEN [s EXCEPT !.todo = <<>>, !.cost = @ + MULADD_PER_TERM, !.error = term.msg]
    ELSE [s EXCEPT !.todo = IF IsCons(rest) THEN <<rest>> ELSE <<>>,
                   !.cost = @ + MULADD_PER_TERM, !.aps = Append(@, term)]

DecodeTerm(s) == AddTerm(s, s.todo[1].val2, MuladdTerm(s.todo[1].val1))

MuladdSum(s) ==
    IF s.error # "" THEN Fails(s.cost, s.error)
    ELSE IF K!Mul(s.aps).kind # "infinity"
    THEN Fails(s.cost, "secp256k1_muladd: did not sum to inf")
    ELSE Borrows(s.cost, One)

MuladdFinish(state) ==
    MuladdSum(WalkNodes(DecodeTerm, [todo |-> IF IsCons(state) THEN <<state>> ELSE <<>>,
                                     cost |-> MULADD_BASE, aps |-> <<>>, error |-> ""]))
=============================================================================
