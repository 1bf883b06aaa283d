----------------------------- MODULE TxOpcodes -----------------------------
(***************************************************************************)
(* What the operators tx and bip342_txmsg are given of the transaction     *)
(* being validated: its fields (opcodes.py) and the signature message of   *)
(* BIP 341 and 342 (verystable/core/script.py).                            *)
(*                                                                         *)
(* The context ctx is [tx, index, script, utxos], each <<>> when it is     *)
(* unset and otherwise a sequence of its one value.                        *)
(***************************************************************************)
EXTENDS BllOpcodes, Transactions

LEAF_VERSION_TAPSCRIPT == 192
ANNEX_PREFIX == 80
Even(b) == b - (b % 2)

\* A digest in a message is opaque: its bytes are named by what was hashed and
\* their place.
sha256(bytes) == [k \in 1..32 |-> [hash |-> "sha256", of |-> bytes, at |-> k]]
TagBytes(tag) == sha256(<<[tag |-> tag]>>)
TaggedDigest(tag, bytes) == sha256(TagBytes(tag) \o TagBytes(tag) \o bytes)
TapLeafHash(version, script) == TaggedDigest("TapLeaf", <<version>> \o ser_string(script))

(***************************************************************************)
(* The signature message; annex is <<>> or a sequence of one byte string.  *)
(***************************************************************************)
SIGHASH_ALL    == 1
SIGHASH_SINGLE == 3
OutType(h)      == IF h = 0 THEN SIGHASH_ALL ELSE h % 4
AnyoneCanPay(h) == h >= 128

Prevout(i)  == SerOutPoint(i.prevout)
Amount(u)   == Signed(u.value, 8)
ScriptOf(u) == ser_string(u.spk)
SequenceOf(i) == Unsigned(i.sequence, 4)

\* Mutant: the spent scripts follow each other without their lengths.
SpentScriptsRun(utxos) == sha256(Joined(LAMBDA u : u.spk, utxos))

BIP341_sha_prevouts(t)          == sha256(Joined(Prevout, t.vin))
BIP341_sha_amounts(utxos)       == sha256(Joined(Amount, utxos))
BIP341_sha_scriptpubkeys(utxos) == sha256(Joined(ScriptOf, utxos))
BIP341_sha_sequences(t)         == sha256(Joined(SequenceOf, t.vin))
BIP341_sha_outputs(t)           == sha256(Joined(SerTxOut, t.vout))

\* 32 bytes of zero where a digest goes; no digest is equal to them.
ZeroHash == [k \in 1..32 |-> [hash |-> "zero", of |-> <<>>, at |-> k]]

TaprootSignatureMsg(t, utxos, h, index, annex, script, leaf_ver) ==
    LET txin == t.vin[index + 1]
        coin == utxos[index + 1]
        ours == IF AnyoneCanPay(h)
                THEN Prevout(txin) \o Amount(coin) \o ScriptOf(coin) \o SequenceOf(txin)
                ELSE Unsigned(index, 4)
    IN  <<0, h>> \o Signed(t.version, 4) \o Unsigned(t.locktime, 4)
        \o (IF AnyoneCanPay(h) THEN <<>>
            ELSE BIP341_sha_prevouts(t) \o BIP341_sha_amounts(utxos)
                   \o BIP341_sha_scriptpubkeys(utxos) \o BIP341_sha_sequences(t))
        \o (IF OutType(h) = SIGHASH_ALL THEN BIP341_sha_outputs(t) ELSE <<>>)
        \o <<2 + Len(annex)>> \o ours
        \o (IF annex # <<>> THEN sha256(ser_string(annex[1])) ELSE <<>>)
        \o (IF OutType(h) # SIGHASH_SINGLE THEN <<>>
            ELSE IF index < Len(t.vout) THEN sha256(SerTxOut(t.vout[index + 1]))
            ELSE ZeroHash)
        \o TapLeafHash(leaf_ver, script) \o <<0>> \o Signed(-1, 4)

(***************************************************************************)
(* bip342_txmsg.                                                           *)
(***************************************************************************)
\* The witness stack of input i (from 0).
HasStack(t, i) == i < Len(t.wit)
Stack(t, i)    == t.wit[i + 1]

\* A stack whose last item is read without a look at its length.
Unguarded(w) == w # <<>> /\ w[Len(w)] = <<>>
AnnexOf(w)   == IF w # <<>> /\ w[Len(w)][1] = ANNEX_PREFIX THEN <<w[Len(w)]>> ELSE <<>>

LeafVersion(w) ==
    LET n == Len(w) - Len(AnnexOf(w))       \* the control block's place
    IN  IF n >= 2 /\ w[n] # <<>> THEN Even(w[n][1]) ELSE LEAF_VERSION_TAPSCRIPT

\* The message that is hashed, or Raises: an assertion on its length expects the
\* spent script that ANYONECANPAY copies into it to be a taproot output's.
Message(ctx, h) ==
    LET t == ctx.tx[1]
        i == ctx.index[1]
        w == IF t.wit = <<>> THEN <<>> ELSE Stack(t, i)
    IN  IF (t.wit # <<>> /\ ~HasStack(t, i)) \/ i >= Len(t.vin) \/ Len(t.vin) # Len(ctx.utxos[1])
        THEN Raises
        ELSE IF Unguarded(w) \/ (AnyoneCanPay(h) /\ Len(ctx.utxos[1][i + 1].spk) # 34) THEN Raises
        ELSE TaprootSignatureMsg(t, ctx.utxos[1], h, i, AnnexOf(w), ctx.script[1], LeafVersion(w))

Complete(ctx) == \A field \in DOMAIN ctx : ctx[field] # <<>>

\* The bytes of the transaction and of what it spends, the message's price.
DataSize(ctx) == Len(serialize(ctx.tx[1])) + Len(Joined(SerTxOut, ctx.utxos[1]))

(***************************************************************************)
(* The fields that tx answers with.                                        *)
(***************************************************************************)
\* get_bip341info, <<>> when its caller cannot take apart what it returns.
get_bip341info(w) ==
    LET last == Len(w)
        n    == IF last > 1 /\ w[last][1] = ANNEX_PREFIX THEN last - 1 ELSE last
        cb   == w[n]
        full == Len(cb) % 32 = 1
    IN  IF (last > 1 /\ w[last] = <<>>) \/ n <= 1 THEN <<>>
        ELSE IF cb = <<>> THEN <<>>
        ELSE <<[leafver |-> Even(cb[1]), sign |-> cb[1] % 2, full |-> full,
                ipk  |-> IF full THEN SubSeq(cb, 2, 33) ELSE <<>>,
                path |-> IF full THEN SubSeq(cb, 34, Len(cb)) ELSE <<>>]>>

\* Mutant: the leaf is looked for without a look for the annex.
LeafBesideAnnex(w) ==
    IF Unguarded(w) THEN Raises
    ELSE IF Len(w) < 2 THEN Nil
    ELSE FromBytes(TapLeafHash(Even(w[Len(w)][1]), w[Len(w) - 1]))

\* The hash of the leaf that the witness reveals.
CurrentLeaf(w) ==
    LET n == Len(w) - Len(AnnexOf(w))
    IN  IF Unguarded(w) THEN Raises
        ELSE IF n < 2 \/ w[n] = <<>> THEN Nil
        ELSE FromBytes(TapLeafHash(Even(w[n][1]), w[n - 1]))

ControlField(code, info) ==
    IF info = <<>> THEN Raises
    ELSE IF code = 9 THEN Cons(IntAtom(info[1].leafver), IntAtom(info[1].sign))
    ELSE IF ~info[1].full THEN Raises
    ELSE FromBytes(IF code = 7 THEN info[1].ipk ELSE info[1].path)

get_tx_global_info(ctx, code) ==
    LET t    == ctx.tx[1]
        i    == ctx.index[1]
    IN  IF code = 4 THEN IF ctx.index = <<>> THEN Raises ELSE IntAtom(i)
        ELSE IF ctx.tx = <<>> THEN Raises
        ELSE IF code \in {0, 1, 2, 3, 5}
        THEN CASE code = 0 -> FromBytes(Signed(t.version, 4))
               [] code = 1 -> FromBytes(Unsigned(t.locktime, 4))
               [] code = 2 -> IntAtom(Len(t.vin))
               [] code = 3 -> IntAtom(Len(t.vout))
               [] code = 5 -> FromBytes(serialize_without_witness(t))
        ELSE IF ctx.index = <<>> THEN Raises
        ELSE IF ~HasStack(t, i) THEN Raises
        ELSE IF code = 6 THEN CurrentLeaf(Stack(t, i))
        ELSE ControlField(code, get_bip341info(Stack(t, i)))

\* struct.pack("<Q") of an amount.
PackAmount(value) == IF value < 0 THEN Raises ELSE FromBytes(Unsigned(value, 8))

get_tx_input_info(ctx, code, i) ==
    LET txin == ctx.tx[1].vin[i + 1]
        w    == Stack(ctx.tx[1], i)
        coin == ctx.utxos[1][i + 1]
    IN  IF ~HasStack(ctx.tx[1], i) THEN Raises
        ELSE IF code \in {15, 16} /\ ctx.utxos = <<>> THEN Raises
        ELSE IF code \in {15, 16} /\ i >= Len(ctx.utxos[1]) THEN Raises
        ELSE CASE code = 10 -> FromBytes(Unsigned(txin.sequence, 4))
               [] code = 11 -> FromBytes(Unsigned(txin.prevout.hash, 32))
               [] code = 12 -> FromBytes(Unsigned(txin.prevout.n, 4))
               [] code = 13 -> FromBytes(txin.script_sig)
               [] code = 14 -> IF w # <<>> /\ ~Unguarded(w) /\ AnnexOf(w) # <<>>
                               THEN FromBytes(w[Len(w)]) ELSE Nil
               [] code = 15 -> PackAmount(coin.value)
               [] code = 16 -> FromBytes(coin.spk)
               [] OTHER     -> Nil

get_tx_output_info(ctx, code, i) ==
    LET txout == ctx.tx[1].vout[i + 1]
    IN  CASE code = 20 -> PackAmount(txout.value)
          [] code = 21 -> FromBytes(txout.spk)
          [] OTHER     -> Nil

\* What the operators are given of the context.
View(ctx) ==
    LET t     == ctx.tx[1]
        side(code) == IF ctx.tx = <<>> THEN <<>> ELSE IF code < 20 THEN t.vin ELSE t.vout
        info(code, i) == IF code < 20 THEN get_tx_input_info(ctx, code, i)
                                      ELSE get_tx_output_info(ctx, code, i)
        sealed(m) == IF m = Raises THEN m ELSE FromBytes(TaggedDigest("TapSighash", m))
    IN  [tx |-> ctx.tx # <<>>, index |-> ctx.index,
         global |-> [code \in 0..9 |-> get_tx_global_info(ctx, code)],
         field  |-> [code \in 10..29 |-> [k \in DOMAIN side(code) |-> info(code, k - 1)]],
         complete |-> Complete(ctx),
         size     |-> IF Complete(ctx) THEN DataSize(ctx) ELSE 0,
         message  |-> [h \in SighashTypes |->
                          IF Complete(ctx) THEN sealed(Message(ctx, h)) ELSE Nil]]
=============================================================================
