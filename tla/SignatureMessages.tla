------------------------- MODULE SignatureMessages -------------------------
(***************************************************************************)
(* The signature messages before taproot (verystable/core/script.py): what *)
(* an ECDSA signature of an input commits to, for each hash type.          *)
(*                                                                         *)
(* A transaction is signed and then another one is put in its place, with  *)
(* one thing changed; a signature still holds if its hash is the same.     *)
(***************************************************************************)
EXTENDS TxOpcodes, Scripts

CONSTANT SpentScripts   \* the scripts of the outputs that are spent, in order

VARIABLES tx, made      \* the transaction, and the signatures that have been made

SIGHASH_NONE == 2
HashTypes == {0, 1, 2, 3, 129, 130, 131}
BaseType(h) == h % 32

\* One item stands for the 32 bytes of a digest: two digests are equal if what
\* they are of is, and none is zero or one.
hash256(bytes) == <<[hash256 |-> bytes]>>
NoDigest == <<[zero |-> 32]>>
\* The answer where there is no message.
HASH_ONE == <<[one |-> 32]>>

Blank    == [value |-> -1, spk |-> <<>>]

(***************************************************************************)
(* LegacySignatureMsg; inputs are counted from 0.                          *)
(***************************************************************************)
NoMessage(t, inIdx, h) ==
    \/ inIdx >= Len(t.vin)
    \/ BaseType(h) = SIGHASH_SINGLE /\ inIdx >= Len(t.vout)

\* Mutant: the other inputs keep the scripts that their signatures are put in.
InputsWithScripts(script, t, inIdx, h) ==
    [k \in DOMAIN t.vin |->
        [t.vin[k] EXCEPT
            !.script_sig = IF k = inIdx + 1 THEN FindAndDelete(script, <<OP_CODESEPARATOR>>) ELSE @,
            !.sequence = IF k # inIdx + 1 /\ BaseType(h) \in {SIGHASH_NONE, SIGHASH_SINGLE}
                         THEN 0 ELSE @]]

\* Only the input signed for keeps a script, and for NONE and SINGLE a sequence.
InputsSigned(script, t, inIdx, h) ==
    [k \in DOMAIN t.vin |->
        [t.vin[k] EXCEPT
            !.script_sig = IF k = inIdx + 1 THEN FindAndDelete(script, <<OP_CODESEPARATOR>>) ELSE <<>>,
            !.sequence = IF k # inIdx + 1 /\ BaseType(h) \in {SIGHASH_NONE, SIGHASH_SINGLE}
                         THEN 0 ELSE @]]

OutputsSigned(t, inIdx, h) ==
    CASE BaseType(h) = SIGHASH_NONE   -> <<>>
      [] BaseType(h) = SIGHASH_SINGLE ->
             [k \in 1..inIdx + 1 |-> IF k = inIdx + 1 THEN t.vout[k] ELSE Blank]
      [] OTHER -> t.vout

LegacySignatureMsg(script, t, inIdx, h) ==
    LET vin == InputsSigned(script, t, inIdx, h)
    IN  serialize_without_witness(
            [t EXCEPT !.vin  = IF AnyoneCanPay(h) THEN <<vin[inIdx + 1]>> ELSE vin,
                      !.vout = OutputsSigned(t, inIdx, h)])
        \o Unsigned(h, 4)

LegacySignatureHash(script, t, inIdx, h) ==
    IF NoMessage(t, inIdx, h) THEN HASH_ONE ELSE hash256(LegacySignatureMsg(script, t, inIdx, h))

(***************************************************************************)
(* SegwitV0SignatureMsg, for an input that exists.                         *)
(***************************************************************************)
HashSequence(t, h) ==
    IF AnyoneCanPay(h) \/ BaseType(h) \in {SIGHASH_NONE, SIGHASH_SINGLE} THEN NoDigest
    ELSE hash256(Joined(SequenceOf, t.vin))

HashPrevouts(t, h) == IF AnyoneCanPay(h) THEN NoDigest ELSE hash256(Joined(Prevout, t.vin))

HashOutputs(t, inIdx, h) ==
    IF BaseType(h) \notin {SIGHASH_NONE, SIGHASH_SINGLE} THEN hash256(Joined(SerTxOut, t.vout))
    ELSE IF BaseType(h) = SIGHASH_SINGLE /\ inIdx < Len(t.vout)
         THEN hash256(SerTxOut(t.vout[inIdx + 1]))
    ELSE NoDigest

SegwitV0SignatureMsg(script, t, inIdx, h, amount) ==
    LET txin == t.vin[inIdx + 1]
    IN  Signed(t.version, 4) \o HashPrevouts(t, h) \o HashSequence(t, h) \o Prevout(txin)
        \o ser_string(script) \o Signed(amount, 8) \o SequenceOf(txin)
        \o HashOutputs(t, inIdx, h) \o Signed(t.locktime, 4) \o Unsigned(h, 4)

SegwitV0SignatureHash(script, t, inIdx, h, amount) ==
    hash256(SegwitV0SignatureMsg(script, t, inIdx, h, amount))
-----------------------------------------------------------------------------
(***************************************************************************)
(* Signing.  A signature is [kind, index, type, over], made for the hash   *)
(* that the transaction over had.                                          *)
(***************************************************************************)
Amount0 == 50

HashOf(kind, t, index, h) ==
    IF kind = "legacy" THEN LegacySignatureHash(SpentScripts[index + 1], t, index, h)
    ELSE SegwitV0SignatureHash(SpentScripts[index + 1], t, index, h, Amount0)

Signature(kind, index, h) == [kind |-> kind, index |-> index, type |-> h, over |-> tx]
SignedHash(s) == HashOf(s.kind, s.over, s.index, s.type)

\* What is pushed for a signature is only as long as it has to be.
SigPush(h) == CScript(<<[kind |-> "data", val |-> <<48, h>>]>>)

\* The signature goes in front of what the input's script already pushes.
sign_input_legacy(index, h) ==
    /\ ~NoMessage(tx, index, h)
    /\ made' = made \cup {Signature("legacy", index, h)}
    /\ tx' = [tx EXCEPT !.vin = [k \in DOMAIN @ |->
                 IF k = index + 1 THEN [@[k] EXCEPT !.script_sig = SigPush(h) \o @] ELSE @[k]]]

SignSegwit(index, h) ==
    /\ index < Len(tx.vin)
    /\ made' = made \cup {Signature("segwit", index, h)}
    /\ UNCHANGED tx

\* Somebody else puts another transaction in place of the one signed.
Replace(t) == tx' = t /\ UNCHANGED made

\* The transactions that take each other's place, and a bound on the signatures.
SigningInit(txs) == tx \in txs /\ made = {}

SigningNext(txs, most) ==
    \/ /\ Cardinality(made) < most
       /\ \E index \in DOMAIN SpentScripts, h \in HashTypes :
              sign_input_legacy(index - 1, h) \/ SignSegwit(index - 1, h)
    \/ \E t \in txs : Replace(t)
-----------------------------------------------------------------------------
(***************************************************************************)
(* Properties.                                                             *)
(***************************************************************************)
Others(t, field(_), index) == [k \in DOMAIN t.vin |-> IF k = index + 1 THEN 0 ELSE field(t.vin[k])]

\* What a signature commits to, by its hash type.  SINGLE without an output of
\* the input's number commits to no output, which only a version 0 witness has.
CoveredBy(s, t) ==
    LET own    == t.vin[s.index + 1]
        all    == BaseType(s.type) \notin {SIGHASH_NONE, SIGHASH_SINGLE}
        single == BaseType(s.type) = SIGHASH_SINGLE
        rest(field(_)) == IF AnyoneCanPay(s.type) THEN <<>> ELSE Others(t, field, s.index)
    IN  [version   |-> t.version,
         locktime  |-> t.locktime,
         prevout   |-> own.prevout,
         sequence  |-> own.sequence,
         prevouts  |-> rest(LAMBDA i : <<i.prevout.hash, i.prevout.n>>),
         sequences |-> IF all THEN rest(LAMBDA i : i.sequence) ELSE <<>>,
         outputs   |-> IF all THEN t.vout
                       ELSE IF single /\ s.index < Len(t.vout) THEN <<t.vout[s.index + 1]>>
                       ELSE <<>>]

Applies(s, t) == s.index < Len(t.vin) /\ (s.kind = "legacy" => ~NoMessage(t, s.index, s.type))

\* A signature holds for a transaction exactly if everything its hash type
\* commits to is as it was when it was made: a change to anything covered breaks
\* it and no other change does, signatures made later among them (script.py:631-750).
HoldsWhileCovered ==
    \A s \in made :
        IF Applies(s, tx)
        THEN (HashOf(s.kind, tx, s.index, s.type) = SignedHash(s))
                 <=> (CoveredBy(s, tx) = CoveredBy(s, s.over))
        ELSE s.kind = "legacy" => HashOf(s.kind, tx, s.index, s.type) # SignedHash(s)

\* A signature serves one input and one hash type: nothing else asked of the same
\* kind in the transaction as it is now has its hash.
ServesOnce ==
    \A s \in made : \A k \in DOMAIN tx.vin : \A h \in HashTypes :
        HashOf(s.kind, tx, k - 1, h) = SignedHash(s) => k = s.index + 1 /\ h = s.type
=============================================================================
