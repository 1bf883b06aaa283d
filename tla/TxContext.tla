----------------------------- MODULE TxContext -----------------------------
(***************************************************************************)
(* The transaction context of the operators (opcodes.py, the four globals) *)
(* as the shell's commands change it one at a time (bllsh: tx, tx_in_idx,  *)
(* tx_script, utxos) or a spend sets it as a whole, and what a program     *)
(* learns from it through tx and bip342_txmsg.                             *)
(***************************************************************************)
EXTENDS TxOpcodes

CONSTANTS
    TxHexes,        \* serialized transactions given to the command tx
    Indices, LeafScripts, UtxoLists,
    SignedContexts  \* contexts that were signed earlier on

VARIABLES ctx, signed
contextVars == <<ctx, signed>>

NoContext == [tx |-> <<>>, index |-> <<>>, script |-> <<>>, utxos |-> <<>>]

ContextInit == ctx = NoContext /\ signed \in SignedContexts

\* What does not parse is not set.
WellFormed(hexes) == {Deserialize(hex).val : hex \in {x \in hexes : Deserialize(x).ok}}
Parsable == WellFormed(TxHexes)

do_tx(t)        == ctx' = [ctx EXCEPT !.tx = <<t>>] /\ UNCHANGED signed
do_tx_in_idx(i) == ctx' = [ctx EXCEPT !.index = <<i>>] /\ UNCHANGED signed
do_tx_script(s) == ctx' = [ctx EXCEPT !.script = <<s>>] /\ UNCHANGED signed
do_utxos(l)     == ctx' = [ctx EXCEPT !.utxos = <<l>>] /\ UNCHANGED signed

-----------------------------------------------------------------------------
(***************************************************************************)
(* What the spend checker admits.                                          *)
(***************************************************************************)
strip_annex(w) ==
    IF Len(w) >= 2 /\ w[Len(w)] # <<>> /\ w[Len(w)][1] = ANNEX_PREFIX
    THEN SubSeq(w, 1, Len(w) - 1) ELSE w

LEAF_VERSION_BLL == 194

\* The layout that verify_spend and verify_commitment require, and the script
\* they set.
Admitted(c) ==
    /\ Complete(c)
    /\ c.index[1] < Len(c.tx[1].vin)
    /\ Len(c.utxos[1]) = Len(c.tx[1].vin)
    /\ HasStack(c.tx[1], c.index[1])
    /\ LET spk == c.utxos[1][c.index[1] + 1].spk
       IN  Len(spk) = 34 /\ SubSeq(spk, 1, 2) = <<81, 32>>
    /\ LET w == strip_annex(Stack(c.tx[1], c.index[1]))
       IN  /\ Len(w) = 3 /\ w[2] = c.script[1]
           /\ Len(w[3]) % 32 = 1 /\ Len(w[3]) > 1 /\ Even(w[3][1]) = LEAF_VERSION_BLL

\* The four globals set as one unit, the script being the committed leaf.
Derived(t, i, utxos) ==
    LET w == IF HasStack(t, i) THEN strip_annex(Stack(t, i)) ELSE <<>>
    IN  [tx |-> <<t>>, index |-> <<i>>, utxos |-> <<utxos>>,
         script |-> IF Len(w) = 3 THEN <<w[2]>> ELSE <<>>]

Contexts == {Derived(t, i, l) : t \in Parsable, i \in Indices, l \in UtxoLists}
Outcomes == {IF Admitted(c) THEN c ELSE NoContext : c \in Contexts}

\* The command clears the context, which a spend that is refused leaves unset.
do_spend == ctx' \in Outcomes /\ UNCHANGED signed

ContextNext ==
    \/ \E t \in Parsable : do_tx(t)
    \/ \E i \in Indices : do_tx_in_idx(i)
    \/ \E s \in LeafScripts : do_tx_script(s)
    \/ \E l \in UtxoLists : do_utxos(l)
    \/ do_spend

ContextSpec == ContextInit /\ [][ContextNext]_contextVars

-----------------------------------------------------------------------------
(***************************************************************************)
(* What a signature covers, field by field.                                *)
(***************************************************************************)
Covered(c, h) ==
    LET t    == c.tx[1]
        i    == c.index[1]
        w    == Stack(t, i)
        body == strip_annex(w)
        ins  == [k \in DOMAIN t.vin |-> [prevout |-> t.vin[k].prevout, spent |-> c.utxos[1][k],
                                         sequence |-> t.vin[k].sequence]]
    IN  [version |-> t.version, locktime |-> t.locktime, type |-> h,
         inputs  |-> IF AnyoneCanPay(h) THEN <<ins[i + 1]>> ELSE ins,
         place   |-> IF AnyoneCanPay(h) THEN 0 ELSE i,
         outputs |-> IF OutType(h) = SIGHASH_ALL THEN t.vout
                     ELSE IF OutType(h) = SIGHASH_SINGLE /\ i < Len(t.vout)
                     THEN <<t.vout[i + 1]>> ELSE <<>>,
         annex   |-> IF Len(body) < Len(w) THEN <<w[Len(w)]>> ELSE <<>>,
         leaf    |-> <<Even(body[3][1]), c.script[1]>>]

\* A signature made in one context verifies in another exactly when everything
\* its type covers is the same there, whatever else was changed: no field is
\* left out of the message, none is added, and no two layouts run together.
MessageBinds ==
    Admitted(ctx) =>
        \A h \in SighashTypes :
            Message(ctx, h) = Message(signed, h) <=> Covered(ctx, h) = Covered(signed, h)

\* tx with one selector, as it is called.
Selector(code, which) == IF which = <<>> THEN IntAtom(code) ELSE Cons(IntAtom(code), IntAtom(which[1]))
Field(view, code, which) == op_tx(view, Nil, Selector(code, which)).val

\* For every spend that is admitted, the fields that name the committed leaf,
\* the internal key, the path and the annex are those of the spend checker's own
\* parse of the witness: five tests for the annex agree.
NamesCommitted ==
    Admitted(ctx) =>
        LET w    == Stack(ctx.tx[1], ctx.index[1])
            body == strip_annex(w)
            cb   == body[3]
            view == View(ctx)
            here(code) == Field(view, code, <<>>)
        IN  /\ here(6).bytes = TapLeafHash(Even(cb[1]), body[2])
            /\ here(7).bytes \o here(8).bytes = Tail(cb)
            /\ here(9) = Cons(IntAtom(Even(cb[1])), IntAtom(cb[1] % 2))
            /\ here(14).bytes = IF Len(w) > 3 THEN w[4] ELSE <<>>
            /\ LeafVersion(w) = Even(cb[1])
            /\ AnnexOf(w) = SubSeq(w, 4, Len(w))

Asked == {Selector(code, which) : code \in -1..30, which \in {<<>>} \cup {<<i>> : i \in -1..2}}
            \cup {Cons(Nil, Cons(Nil, Nil))}

Amounts(c) == {c.tx[1].vout[k].value : k \in DOMAIN c.tx[1].vout}
                \cup {c.utxos[1][k].value : k \in DOMAIN c.utxos[1]}

\* In an admitted context no single selector raises an exception, and no
\* signature type does, as long as no amount is negative.
FieldsAnswer ==
    Admitted(ctx) /\ Amounts(ctx) \subseteq Nat =>
        LET view == View(ctx)
        IN  /\ \A s \in Asked : op_tx(view, Nil, s).val # Raises
            /\ \A h \in SighashTypes : Message(ctx, h) # Raises

\* What a test says: errors of the folds surface as errors and raise nothing,
\* also when there is another selector after the first.
FoldsAnswer ==
    Admitted(ctx) /\ Amounts(ctx) \subseteq Nat =>
        LET view == View(ctx)
        IN  \A s, u \in Asked :
                LET first == op_tx(view, Nil, s).val
                IN  IsError(first) \/ op_tx(view, first, u).val # Raises

\* A transaction that the shell shows is parsed back as it was (examples are
\* built that way), unless it has outputs and no inputs, which reads as flags.
SurvivesWire ==
    ctx.tx # <<>> /\ ctx = [NoContext EXCEPT !.tx = ctx.tx] =>
        LET t == ctx.tx[1]
            s == serialize(t)
        IN  (t.vin # <<>> \/ t.vout = <<>>) =>
                /\ Deserialize(s) = Parsed([t EXCEPT !.wit = IF IsNull(@) THEN <<>> ELSE @], <<>>)
                /\ \A k \in 0..Len(s)-1 : ~Deserialize(SubSeq(s, 1, k)).ok

-----------------------------------------------------------------------------
(***************************************************************************)
(* The program of examples/test-tx, which builds the message from fields.  *)
(***************************************************************************)
VARSTRING(s) == op_strlen(Nil, FromBytes(s)).val.bytes \o s

TX(view, code, which) == Field(view, code, which).bytes

\* A function of the index folded over the inputs or the outputs.
FOR(f(_), n) == Seqs!FlattenSeq([k \in 1..n |-> f(<<k - 1>>)])
FORINPUTS(view, f(_))  == FOR(f, AsInt(Field(view, 2, <<>>)))
FOROUTPUTS(view, f(_)) == FOR(f, AsInt(Field(view, 3, <<>>)))

TX_DATA(view) ==
    <<0, 0>> \o TX(view, 0, <<>>) \o TX(view, 1, <<>>)
    \o sha256(FORINPUTS(view, LAMBDA i : TX(view, 11, i) \o TX(view, 12, i)))
    \o sha256(FORINPUTS(view, LAMBDA i : TX(view, 15, i)))
    \o sha256(FORINPUTS(view, LAMBDA i : VARSTRING(TX(view, 16, i))))
    \o sha256(FORINPUTS(view, LAMBDA i : TX(view, 10, i)))
    \o sha256(FOROUTPUTS(view, LAMBDA i : TX(view, 20, i) \o VARSTRING(TX(view, 21, i))))

IN_DATA(view) ==
    LET annex == TX(view, 14, <<>>)
    IN  <<IF annex = <<>> THEN 1 ELSE 3>>
        \o SubSeq(TX(view, 4, <<>>) \o <<0, 0, 0, 0>>, 1, 4)
        \o (IF annex = <<>> THEN <<>> ELSE sha256(VARSTRING(annex)))

SCR_DATA(view) == TX(view, 6, <<>>) \o <<0, 255, 255, 255, 255>>

MYBIP342_TXMSG(view) == TX_DATA(view) \o IN_DATA(view) \o SCR_DATA(view)

Spks(c)   == {c.utxos[1][k].spk : k \in DOMAIN c.utxos[1]}
                \cup {c.tx[1].vout[k].spk : k \in DOMAIN c.tx[1].vout}
Simulated == MYBIP342_TXMSG(View(ctx)) = Message(ctx, 0)

\* The program builds the signed message from fields alone when there is an
\* annex and every string it prefixes has a length that fits seven bits and is
\* not zero: the fields suffice, in their order and their encodings.
SimulatedWhere ==
    /\ Admitted(ctx) /\ Amounts(ctx) \subseteq Nat
    /\ TX(View(ctx), 14, <<>>) # <<>>
    /\ \A s \in Spks(ctx) \cup {TX(View(ctx), 14, <<>>)} : Len(s) \in 1..127
    => Simulated
=============================================================================
