------------------------------ MODULE KeyPair ------------------------------
(***************************************************************************)
(* A secret key and the x-only public key published for it, tweaked side   *)
(* by side, and the last signature made, which may be damaged on its way;  *)
(* and the points under them, on a walk of their own.                      *)
(***************************************************************************)
EXTENDS Keys, TLC

CONSTANTS Tweaks, Messages, Nonces

VARIABLES key, pub, sig
pairVars == <<key, pub, sig>>

NoSig == [kind |-> "none"]

PairInit ==
    /\ key \in [secret : 1..ORDER-1]
    /\ pub = compute_xonly_pubkey(key.secret)
    /\ sig = NoSig

Held == key # None /\ sig = NoSig

\* The owner tweaks the secret, everybody else the published key.
Tweak(t) ==
    /\ Held
    /\ key' = tweak_add_privkey(key.secret, t)
    /\ pub' = tweak_add_pubkey(pub.x, t)
    /\ UNCHANGED sig

SignSchnorr(m, kp, flip_p, flip_r) ==
    /\ Held
    /\ sig' = [kind |-> "schnorr", msg |-> m, flip_p |-> flip_p, flip_r |-> flip_r]
                @@ sign_schnorr(key.secret, m, kp, flip_p, flip_r)
    /\ UNCHANGED <<key, pub>>

SignEcdsa(m, k, low_s) ==
    /\ Held
    /\ sig' = [kind |-> "ecdsa", msg |-> m, low |-> low_s, der |-> sign_ecdsa(key.secret, m, k, low_s)]
    /\ UNCHANGED <<key, pub>>

\* A DER signature with a byte changed, a byte dropped, or an integer padded.
Changed(der) == {[der EXCEPT ![i] = b] : i \in 1..Len(der), b \in {0, 1, 2, 127, 128, 255}}
Dropped(der) == {SubSeq(der, 1, i - 1) \o SubSeq(der, i + 1, Len(der)) : i \in 1..Len(der)}
PaddedAt(der, at) ==
    [SubSeq(der, 1, at) \o <<0>> \o SubSeq(der, at + 1, Len(der))
        EXCEPT ![2] = @ + 1, ![at] = @ + 1]
Damages(der) == Changed(der) \cup Dropped(der) \cup {PaddedAt(der, 4), PaddedAt(der, 6 + der[4])}

Damage ==
    /\ sig.kind = "ecdsa"
    /\ \E der \in Damages(sig.der) : sig' = [sig EXCEPT !.kind = "damaged", !.der = der]
    /\ UNCHANGED <<key, pub>>

PairNext ==
    \/ \E t \in Tweaks : Tweak(t)
    \/ \E m \in Messages, k \in Nonces, flip_p, flip_r \in BOOLEAN :
          SignSchnorr(m, k, flip_p, flip_r)
    \/ \E m \in Messages, k \in Nonces, low_s \in BOOLEAN : SignEcdsa(m, k, low_s)
    \/ Damage

PairSpec == PairInit /\ [][PairNext]_pairVars

-----------------------------------------------------------------------------
\* After any sequence of tweaks the published key is the key of the secret, with
\* the parity announced for it; both sides refuse the same tweaks, and the tweak
\* that would cancel the key.
TweaksAgree ==
    IF key = None THEN pub = None ELSE pub = compute_xonly_pubkey(key.secret)

\* A Schnorr signature verifies under the published key when neither parity was
\* flipped, and not when one was (a flipped key only shows when the challenge is
\* not zero, and two flips may cancel).
SchnorrVerifies ==
    sig.kind = "schnorr" /\ ~(sig.flip_p /\ sig.flip_r) =>
        verify_schnorr(pub.x, sig.r, sig.s, sig.msg) =
            (~sig.flip_r /\ (sig.flip_p => Challenge(sig.r, pub.x, sig.msg) = 0))

\* An ECDSA signature verifies under the point of the secret, unless one of its
\* integers is zero; as a low one when it was made one, except at exactly half
\* the order, which the signer leaves alone and the verifier refuses.
EcdsaVerifies ==
    sig.kind = "ecdsa" =>
        LET rs == ParseDer(sig.der)
            P  == get_pubkey(key.secret)
        IN  /\ rs # None
            /\ verify_ecdsa(P, sig.der, sig.msg, FALSE) = (rs.r # 0 /\ rs.s # 0)
            /\ sig.low => verify_ecdsa(P, sig.der, sig.msg, TRUE)
                              = (rs.r # 0 /\ rs.s # 0 /\ rs.s # ORDER_HALF)

\* The strict parse leaves one encoding of each signature: whatever was damaged,
\* what is still accepted is the encoding of the integers read from it.
OneEncoding ==
    sig.kind = "damaged" =>
        LET rs == ParseDer(sig.der)
        IN  rs # None /\ rs.r < TopInteger /\ rs.s < TopInteger => Der(rs.r, rs.s) = sig.der

-----------------------------------------------------------------------------
(***************************************************************************)
(* A point carried through the arithmetic of Secp256k1 in its unreduced    *)
(* representation, beside the integer it should be the multiple of.        *)
(***************************************************************************)
CONSTANTS Summands, Factors      \* the multiples of G added, and the scalars of Mul

VARIABLES point, log
walkVars == <<point, log>>

WalkInit == point = Infinity /\ log = 0

AddStep(j) == point' = Add(point, FastMul(j)) /\ log' = (log + j) % ORDER

MulStep(a, b) ==
    /\ point' = Mul(<<Term(a, point), Term(b, G)>>)
    /\ log' = (a * log + b) % ORDER

NegStep == point' = Neg(point) /\ log' = (-log) % ORDER

WalkNext ==
    \/ \E j \in Summands : AddStep(j)
    \/ \E a, b \in Factors : MulStep(a, b)
    \/ NegStep

WalkSpec == WalkInit /\ [][WalkNext]_walkVars

\* However a point was reached (chords, tangents, negations, the joint
\* double-and-add, the table of doublings), it is on the curve and is the
\* multiple of G that the integers say, infinity exactly at zero.
PointIsMultiple ==
    /\ OnCurve(point)
    /\ SamePoint(point, FastMul(log))
    /\ SamePoint(point, Mul(<<Term(log - ORDER, G)>>))
    /\ (point = Infinity) = (log = 0)

\* Every encoding of a point decodes to it, the x-only one to the one of its
\* two points that has an even y, whatever fractions represent the coordinates;
\* with its x coordinate no other y is accepted than those two.
EncodingsDecode ==
    point # Infinity =>
        /\ SamePoint(FromCompressed(Compressed(point)), point)
        /\ SamePoint(FromUncompressed(Uncompressed(point)), point)
        /\ SamePoint(FromXOnly(XOnly(point)), IF IsEven(point.y) THEN point ELSE Neg(point))
        /\ {y \in 0..SIZE-1 : FromUncompressed([Uncompressed(point) EXCEPT !.y = y]) # None}
               = {ToInt(point.y), ToInt(Negated(point.y))}
=============================================================================
