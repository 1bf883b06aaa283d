----------------------------- MODULE MCSigning -----------------------------
(***************************************************************************)
(* Small instances of what is signed and of who signs: the context of the  *)
(* operators and the wire form of transactions, the messages of taproot    *)
(* and of the kinds before it, the outputs that commit to scripts, keys,   *)
(* and the two forms in which a program verifies.                          *)
(*                                                                         *)
(* The machines are independent of each other: a behaviour is one of them, *)
(* the others being idle.                                                  *)
(***************************************************************************)
EXTENDS TxContext, SignatureMessages, TapTree, KeyPair, SignatureForms

VARIABLE machine

-----------------------------------------------------------------------------
(***************************************************************************)
(* The context: one spend and its variations, one field or one item of the *)
(* witness changed at a time.                                              *)
(***************************************************************************)
Fill(b, n) == [k \in 1..n |-> b]
In(hash, n, sequence) ==
    [prevout |-> [hash |-> hash, n |-> n], script_sig |-> <<>>, sequence |-> sequence]
Out(value, spk) == [value |-> value, spk |-> spk]

Control(head, path) == <<head>> \o Fill(9, 32) \o path
Leaf     == <<32, 7>>
Other    == <<32, 8>>
Reveal   == <<<<128>>, Leaf, Control(194, <<>>)>>
KeySpend == <<Fill(1, 64)>>

Base == [version |-> 2, locktime |-> 5,
         vin |-> <<In(11, 0, 100), In(12, 1, 100), In(13, 1, 100)>>,
         vout |-> <<Out(40, <<81, 2>>), Out(50, <<3>>)>>,
         wit |-> <<Reveal, KeySpend, KeySpend>>]
Annexed == [Base EXCEPT !.wit[1] = Append(Reveal, <<80, 1>>)]

\* What the message covers, one change each, and what it leaves out.
FieldChanges ==
    {[Base EXCEPT !.version = -1], [Base EXCEPT !.locktime = 6],
     [Base EXCEPT !.vin[1].sequence = 101], [Base EXCEPT !.vin[2].sequence = 101],
     [Base EXCEPT !.vin[1].prevout.hash = 13], [Base EXCEPT !.vin[2].prevout.n = 2],
     [Base EXCEPT !.vin = <<@[2], @[1], @[3]>>], [Base EXCEPT !.vin[1].script_sig = <<1>>],
     [Base EXCEPT !.vout[1].value = 41], [Base EXCEPT !.vout[2].value = 51],
     [Base EXCEPT !.vout[1].spk = <<81, 3>>], [Base EXCEPT !.vout = <<@[1]>>],
     [Base EXCEPT !.vout = <<>>], [Base EXCEPT !.vout = <<@[2], @[1]>>]}

\* Witnesses that are admitted, and layouts that are not.
WitnessChanges ==
    {[Base EXCEPT !.wit[1] = w] :
        w \in {<<<<129, 5>>, Leaf, Control(194, <<>>)>>, <<<<128>>, Other, Control(194, <<>>)>>,
               <<<<128>>, Leaf, Control(195, <<>>)>>, <<<<128>>, Leaf, Control(194, Fill(6, 32))>>,
               <<<<128>>, Leaf, Control(192, <<>>)>>, Append(Reveal, <<80>>),
               Append(Reveal, <<>>), <<Leaf, Control(194, <<>>)>>, <<<<80>>>>, <<<<>>>>,
               Append(Append(Reveal, <<80>>), <<80>>)}}
    \cup {Annexed, [Annexed EXCEPT !.vout[1].spk = Fill(81, 130)],
          [Base EXCEPT !.wit[2] = Append(KeySpend, <<80>>)],
          [Base EXCEPT !.wit = <<KeySpend, Reveal, KeySpend>>], [Base EXCEPT !.wit = <<<<>>, <<>>, <<>>>>],
          [Annexed EXCEPT !.vout[1].value = -1]}

Hexes == {serialize(t) : t \in {Base} \cup FieldChanges \cup WitnessChanges} \cup {<<1, 2>>}

Spk == <<81, 32>> \o Fill(5, 32)
Coins(v, spk1, spk2, spk3) == <<Out(v, spk1), Out(70, spk2), Out(70, spk3)>>
Spent      == Coins(60, Spk, <<81, 1>>, <<2>>)
SpentLists == {Spent, Coins(60, Spk, <<81>>, <<1, 2>>), Coins(61, Spk, <<81, 1>>, <<2>>),
               Coins(60, Spk, <<81, 1>>, <<3>>), Coins(60, <<81, 1>>, Spk, <<2>>), <<Out(60, Spk)>>}

SignedSet == {[tx |-> <<t>>, index |-> <<0>>, script |-> <<Leaf>>,
               utxos |-> <<Spent>>] : t \in {Base, Annexed}}
IndexSet  == 0..2
ScriptSet == {Leaf, Other}

(***************************************************************************)
(* The wire: every layout of up to two inputs and outputs, with and        *)
(* without a witness, with strings on both sides of the first width of a   *)
(* length; and two without inputs, one of which reads as flags.            *)
(***************************************************************************)
Plain(v, vin, vout, wit) ==
    [version |-> v, locktime |-> 258, vin |-> vin, vout |-> vout, wit |-> wit]
InLists  == {<<In(11, 0, 100)>>, <<[In(513, 3, 7) EXCEPT !.script_sig = Fill(4, 253)]>>,
             <<In(11, 0, 100), In(12, 1, 0)>>}
OutLists == {<<>>, <<Out(40, <<81, 2>>)>>, <<Out(-2, <<>>), Out(50, Fill(3, 252))>>}
Stacks   == {<<>>, <<<<>>>>, <<Reveal>>, <<<<<<>>>>>>, <<Append(Reveal, <<80>>), KeySpend>>}
Layouts  ==
    WellFormed({serialize(Plain(v, vin, vout, wit)) :
                   v \in {2, -3}, vin \in InLists, vout \in OutLists, wit \in Stacks}
               \cup {serialize(Plain(2, <<>>, vout, <<>>)) : vout \in {<<>>, <<Out(0, <<>>)>>}})

(***************************************************************************)
(* Signing before taproot: a transaction and its variations, signed once,  *)
(* and two of them signed twice.                                           *)
(***************************************************************************)
Unsealed == [Base EXCEPT !.vin = <<In(11, 0, 100), In(12, 1, 101)>>, !.wit = <<>>]
Longer   == [Unsealed EXCEPT !.vin = Append(@, In(14, 0, 0))]
Variations ==
    {Unsealed, Longer, [Unsealed EXCEPT !.version = -1], [Unsealed EXCEPT !.locktime = 6],
     [Unsealed EXCEPT !.vin[1].sequence = 102], [Unsealed EXCEPT !.vin[2].sequence = 102],
     [Unsealed EXCEPT !.vin[1].prevout.hash = 13], [Unsealed EXCEPT !.vin[2].prevout.n = 2],
     [Unsealed EXCEPT !.vin = <<@[1]>>], [Unsealed EXCEPT !.vin[1].script_sig = <<81>>],
     [Unsealed EXCEPT !.vout[1].value = 41], [Unsealed EXCEPT !.vout[2].spk = <<4>>],
     [Unsealed EXCEPT !.vout = <<@[1]>>], [Unsealed EXCEPT !.vout = <<>>],
     [Unsealed EXCEPT !.vout = Append(@, Out(1, <<>>))]}

\* The first holds a code separator as an opcode, the second as data.
Scripts2 == <<<<171, 81>>, <<1, 171>>, <<82>>>>

\* Any mixing of the inputs serves as the hash; this one takes the value zero.
SmallHash(tag, data) == data[1] + 2 * data[2] + 3 * data[3]

-----------------------------------------------------------------------------
ctxs   == <<ctx, signed>>
bases  == <<tx, made>>
trees  == <<scripts, edits>>
points == <<point, log>>
pairs  == <<key, pub, sig>>

Machines == {"context", "wire", "once", "twice", "tree", "group", "pair", "forms"}

SigningMachines == [once |-> [txs |-> Variations, most |-> 1],
                    twice |-> [txs |-> {Unsealed, Longer}, most |-> 2]]

MachinesInit ==
    /\ machine \in Machines
    /\ IF machine = "context" THEN ContextInit
       ELSE ctx = NoContext /\ signed = CHOOSE c \in SignedContexts : TRUE
    /\ IF machine \in DOMAIN SigningMachines THEN SigningInit(SigningMachines[machine].txs)
       ELSE tx = Unsealed /\ made = {}
    /\ TreeInit
    /\ WalkInit
    /\ IF machine = "pair" THEN PairInit ELSE key = None /\ pub = None /\ sig = NoSig
    /\ IF machine = "forms" THEN FormsInit ELSE shown = [pk |-> 0, m |-> 0, r |-> 0, s |-> 0]

MachinesNext ==
    /\ UNCHANGED machine
    /\ \/ machine = "context" /\ ContextNext /\ UNCHANGED <<bases, trees, points, pairs, shown>>
       \/ /\ machine = "wire" /\ \E t \in Layouts : do_tx(t)
          /\ UNCHANGED <<bases, trees, points, pairs, shown>>
       \/ /\ machine \in DOMAIN SigningMachines
          /\ SigningNext(SigningMachines[machine].txs, SigningMachines[machine].most)
          /\ UNCHANGED <<ctxs, trees, points, pairs, shown>>
       \/ machine = "tree" /\ TreeNext /\ UNCHANGED <<ctxs, bases, points, pairs, shown>>
       \/ machine = "group" /\ WalkNext /\ UNCHANGED <<ctxs, bases, trees, pairs, shown>>
       \/ machine = "pair" /\ PairNext /\ UNCHANGED <<ctxs, bases, trees, points, shown>>
       \/ machine = "forms" /\ FormsNext /\ UNCHANGED <<ctxs, bases, trees, points, pairs>>

MachinesSpec ==
    MachinesInit /\ [][MachinesNext]_<<machine, ctxs, bases, trees, points, pairs, shown>>

-----------------------------------------------------------------------------
(***************************************************************************)
(* Properties that several machines share.                                 *)
(***************************************************************************)
\* What a program is told of its spend is what the transaction, its wire form
\* and its witness say.
ContextAnswers == NamesCommitted /\ FieldsAnswer /\ SimulatedWhere /\ SurvivesWire

\* A signature made before taproot is good for the transactions that agree on
\* what its type covers, and for one input only.
SignaturesBind == HoldsWhileCovered /\ ServesOnce

\* The arithmetic of the curve is that of the multiples of its generator,
\* through every encoding, tweak and signature of a key pair.
KeysSound ==
    /\ PointIsMultiple /\ EncodingsDecode /\ TweaksAgree
    /\ SchnorrVerifies /\ EcdsaVerifies /\ OneEncoding
=============================================================================
