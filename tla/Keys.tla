-------------------------------- MODULE Keys --------------------------------
(***************************************************************************)
(* Signatures and key tweaks (verystable/core/key.py) over the curve of    *)
(* module Secp256k1.  Keys, messages, tweaks and nonces are integers (32   *)
(* big-endian bytes in the code); a DER signature is a byte string.        *)
(***************************************************************************)
EXTENDS Secp256k1

CONSTANT TaggedHash(_, _)     \* the hash of a tag and a tuple, as an integer

\* Bound of the model: integers above this one are all read as it.
TopInteger == 2^22

BigEndian(b) ==
    LET sum[k \in 0..Len(b)] ==
            IF k = 0 THEN 0
            ELSE LET n == sum[k-1]
                 IN  IF n >= 2^14 THEN TopInteger ELSE 256 * n + b[k]
    IN  sum[Len(b)]

InRange(n) == 1 <= n /\ n < ORDER

-----------------------------------------------------------------------------
(***************************************************************************)
(* ECDSA.                                                                  *)
(***************************************************************************)
\* An integer in DER is minimal: a leading zero only ahead of a high bit.
DerInteger(b) ==
    /\ Len(b) \in 1..33
    /\ b[1] < 128
    /\ Len(b) > 1 /\ b[1] = 0 => b[2] >= 128

\* The two integers of a strictly encoded signature, None if it is not one.
ParseDer(sig) ==
    LET rlen  == sig[4]
        slen  == sig[6 + rlen]
        rb    == SubSeq(sig, 5, 4 + rlen)
        sb    == SubSeq(sig, 7 + rlen, 6 + rlen + slen)
    IN  IF /\ Len(sig) >= 4 /\ sig[2] + 2 = Len(sig)
           /\ sig[1] = 48 /\ sig[3] = 2
           /\ Len(sig) >= 6 + rlen
           /\ DerInteger(rb)
           /\ sig[5 + rlen] = 2
           /\ slen \in 1..33
           /\ Len(sig) = 6 + rlen + slen
           /\ DerInteger(sb)
        THEN [r |-> BigEndian(rb), s |-> BigEndian(sb)] ELSE None

\* Bytes of n with room for a sign bit, as sign_ecdsa writes them.
DerBytes(n) ==
    LET len == 1 + (IF n >= 128 THEN 1 ELSE 0) + (IF n >= 32768 THEN 1 ELSE 0)
    IN  [k \in 1..len |-> (n \div 256^(len - k)) % 256]

Der(r, s) ==
    LET rb == DerBytes(r)
        sb == DerBytes(s)
    IN  <<48, 4 + Len(rb) + Len(sb), 2, Len(rb)>> \o rb \o <<2, Len(sb)>> \o sb

\* The point of the verification equation against the r it should give.
GivesR(R, r) == R.kind # "infinity" /\ ToInt(R.x) % ORDER = r

VerifiesEcdsa(p, rs, z, low_s) ==
    LET w == InverseMod(rs.s, ORDER)
    IN  /\ rs # None
        /\ InRange(rs.r) /\ InRange(rs.s)
        /\ low_s => rs.s < ORDER_HALF
        /\ GivesR(Mul(<<Term(z * w, G), Term(rs.r * w, p)>>), rs.r)

verify_ecdsa(p, sig, z, low_s) == VerifiesEcdsa(p, ParseDer(sig), z, low_s)

\* The signature with nonce k.
sign_ecdsa(secret, z, k, low_s) ==
    LET r == ToInt(FastMul(k).x) % ORDER
        s == (InverseMod(k, ORDER) * (z + secret * r)) % ORDER
    IN  Der(r, IF low_s /\ s > ORDER_HALF THEN ORDER - s ELSE s)

-----------------------------------------------------------------------------
(***************************************************************************)
(* BIP 340 keys: an x coordinate stands for the point with an even y.      *)
(***************************************************************************)
XOnlyKey(x, negated) == [x |-> x, negated |-> negated]

XOnlyOf(Q) == IF Q.kind = "infinity" THEN None ELSE XOnlyKey(XOnly(Q), ~IsEven(Q.y))

get_pubkey(key)          == FastMul(key)
compute_xonly_pubkey(key) == IF InRange(key) THEN XOnlyOf(FastMul(key)) ELSE None

\* The secret of the even point.
EvenSecret(key) == IF IsEven(FastMul(key).y) THEN key ELSE ORDER - key

tweak_add_privkey(key, t) ==
    LET x == (EvenSecret(key) + t) % ORDER
    IN  IF ~InRange(key) \/ t >= ORDER \/ x = 0 THEN None ELSE [secret |-> x]

tweak_add_pubkey(x, t) ==
    IF FromXOnly(x) = None \/ t >= ORDER THEN None
    ELSE XOnlyOf(Add(FastMul(t), FromXOnly(x)))

Challenge(r, x, msg) == TaggedHash("BIP0340/challenge", <<r, x, msg>>) % ORDER

\* Mutant: the parity of the nonce point is not looked at.
IsNonceAnyParity(R, r) == R.kind # "infinity" /\ Equals(R.x, FE(r))

\* The point of the verification equation is the even one with x = r.
IsNonce(R, r) == R.kind # "infinity" /\ IsEven(R.y) /\ Equals(R.x, FE(r))

VerifiesSchnorr(P, x, r, s, msg) ==
    /\ P # None
    /\ r < SIZE /\ s < ORDER
    /\ IsNonce(Mul(<<Term(s, G), Term(-Challenge(r, x, msg), P)>>), r)

verify_schnorr(x, r, s, msg) == VerifiesSchnorr(FromXOnly(x), x, r, s, msg)

\* The signature with nonce kp (derived by hashing in the code, where zero is
\* asserted away); flip_p and flip_r ask for a wrong parity.
sign_schnorr(key, msg, kp, flip_p, flip_r) ==
    LET P   == FastMul(key)
        R   == FastMul(kp)
        sec == IF IsEven(P.y) = flip_p THEN ORDER - key ELSE key
        k   == IF IsEven(R.y) # flip_r THEN kp ELSE ORDER - kp
        e   == Challenge(XOnly(R), XOnly(P), msg)
    IN  IF ~InRange(key) THEN None
        ELSE [r |-> XOnly(R), s |-> (k + e * sec) % ORDER]
=============================================================================
