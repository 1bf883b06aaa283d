--------------------------- MODULE SignatureForms ---------------------------
(***************************************************************************)
(* One signature checked in the two ways a program can check it: by        *)
(* bip340_verify, and by secp256k1_muladd over the equation that BIP 340   *)
(* defines.  The signature is altered on its way.                          *)
(***************************************************************************)
EXTENDS CurveOpcodes

CONSTANTS SigningKeys, SignedMessages, SigningNonces

VARIABLE shown      \* the public key, the message and the two parts of a signature

Wide(n) == FromBytes([k \in 1..32 |-> IF k = 32 THEN n ELSE 0])
WideSig == FromBytes(Wide(shown.r).bytes \o Wide(shown.s).bytes)

Signatures ==
    {[pk |-> K!compute_xonly_pubkey(d).x, m |-> msg,
      r |-> K!sign_schnorr(d, msg, k, FALSE, FALSE).r,
      s |-> K!sign_schnorr(d, msg, k, FALSE, FALSE).s] :
        d \in SigningKeys, msg \in SignedMessages, k \in SigningNonces}

FormsInit == shown \in Signatures

Resign(msg) == shown' = [shown EXCEPT !.m = msg]
Raise       == shown.s < K!ORDER /\ shown' = [shown EXCEPT !.s = @ + K!ORDER]
Mirror      == shown.s \in 1..K!ORDER-1 /\ shown' = [shown EXCEPT !.s = K!ORDER - @]
Swap        == shown' = [shown EXCEPT !.pk = shown.r, !.r = shown.pk]
Overflow    == shown.r < K!SIZE /\ shown' = [shown EXCEPT !.r = @ + K!SIZE]

FormsNext == (\E msg \in SignedMessages : Resign(msg)) \/ Raise \/ Mirror \/ Swap \/ Overflow

FormsSpec == FormsInit /\ [][FormsNext]_shown

-----------------------------------------------------------------------------
FormChallenge == K!Challenge(shown.r, shown.pk, shown.m)

Verified == op_bip340_verify(<<Wide(shown.pk), Wide(shown.m), WideSig>>).val = One

\* The arguments of an operator folded in order.
MuladdOf(x, y, z) ==
    LET one == op_secp256k1_muladd(Nil, x).val
        two == op_secp256k1_muladd(one, y).val
    IN  MuladdFinish(op_secp256k1_muladd(two, z).val).val

\* (secp256k1_muladd ('1 . R) (e . P) (s))
Balanced ==
    MuladdOf(Cons(One, Wide(shown.r)), Cons(Wide(FormChallenge), Wide(shown.pk)),
             Cons(Wide(shown.s), Nil)) = One

\* The two forms agree on every signature, genuine or altered, that names its
\* scalar in reduced form and makes no term vanish (secp256k1_muladd refuses
\* zero scalars): parity, range and equation are checked by both.
FormsAgree ==
    shown.s \in 1..K!ORDER-1 /\ FormChallenge # 0 => Verified = Balanced
=============================================================================
