------------------------------ MODULE MCSpend ------------------------------
(***************************************************************************)
(* Small instances of the spend checker for TLC: programs of every         *)
(* outcome, leaf scripts and environments that are and are not canonical,  *)
(* and spends with one link of the commitment broken.                      *)
(***************************************************************************)
EXTENDS SpendVerdict, BllSemantics, SerDeser, Programs

Key == "ipk"

Item(bytes) == [bytes |-> bytes, size |-> Len(bytes), ipk |-> "none", path |-> <<>>]
Annex(n)    == [Item(<<80>>) EXCEPT !.size = n]
Control(head, path) ==
    [bytes |-> <<head>>, size |-> 33 + 32 * Len(path), ipk |-> Key, path |-> path]

Sibling  == TapLeaf(<<1, 2>>)
Taproot(script, path) == [taproot |-> TRUE, key |-> OutputKey(Key, Root(script, path))]
HeadOf(spk) == LEAF_VERSION_BLL + Parity(spk.key)

\* A spend of an output that commits to script, revealing it with env.
Reveal(script, env, path) ==
    LET spk == Taproot(script, path)
    IN  [tx |-> <<>>, index |-> 0, inputs |-> 1, outputs |-> 1, witnesses |-> 1, spk |-> spk,
         stack |-> <<Item(env), Item(script), Control(HeadOf(spk), path)>>]

P_TRUE == Number(1)
P_LOOP == Apply(<<Quoted(FlatLoop), Quoted(FlatLoop)>>)

\* Valid, nil, the environment itself, an error, a function object, a guard that
\* fits and one that does not, a loop, and a loop inside a guard.
SpendPrograms == {P_TRUE, Number(0), IntAtom(1), Call(4, <<>>), Plus1,
                  Call(11, <<Guard(128, Nil), IntAtom(1)>>), Guard(127, Nil),
                  P_LOOP, Guard(50000, P_LOOP)}

\* Fields of the spend, an exception, one that a guard lets through, and the
\* message that a signature of the spend would cover.
ContextPrograms == {Call(41, <<Number(2), Number(4), Number(14), Number(15), Number(16)>>),
                    Call(41, <<Number(9)>>), Call(41, <<Quoted(Cons(IntAtom(20), IntAtom(1)))>>),
                    Raising, Call(11, <<Guard(4000, Raising), IntAtom(1)>>), Call(42, <<>>)}

Honest == {Reveal(Serialize(p), Serialize(Env), <<>>) : p \in SpendPrograms}
OnContext == {[Reveal(Serialize(p), Serialize(Env), <<>>) EXCEPT !.stack = Append(@, Annex(4000))] :
                 p \in ContextPrograms}
Base   == Reveal(Serialize(IntAtom(1)), Serialize(One), <<Sibling>>)

\* Items that decode to nothing, to trailing bytes, or in a longer form; ninety
\* pairs that are announced and never come.
Markers  == [k \in 1..90 |-> 255]
BadItems == {Markers, <<>>, <<129, 5>>, <<255, 5, 5, 5>>, <<255, 255, 5, 6>>, <<240>>, <<192, 1, 5>>}
Malformed == {Reveal(b, <<128>>, <<>>) : b \in BadItems}
        \cup {Reveal(Serialize(P_TRUE), b, <<>>) : b \in BadItems}

\* One thing wrong each, and an annex that buys a budget or breaks the layout.
Broken == {Base, [Base EXCEPT !.index = 1], [Base EXCEPT !.index = -1],
           [Base EXCEPT !.outputs = 2], [Base EXCEPT !.witnesses = 0],
           [Base EXCEPT !.stack = SubSeq(@, 1, 2)],
           [Base EXCEPT !.stack = Append(@, Annex(9))],
           [Base EXCEPT !.stack = Append(@, Annex(300))],
           [Base EXCEPT !.stack = Append(Append(@, Item(<<1>>)), Annex(9))],
           [Base EXCEPT !.spk.taproot = FALSE], [Base EXCEPT !.spk.key.ipk = "other"],
           [Base EXCEPT !.stack[2] = Item(<<5>>)], [Base EXCEPT !.stack[3].path = <<>>],
           [Base EXCEPT !.stack[3] = [@ EXCEPT !.bytes = <<>>, !.size = 0]],
           [Base EXCEPT !.stack[3].size = 40],
           [Base EXCEPT !.stack[3].size = 33 + 32 * 129],
           [Base EXCEPT !.stack[3].bytes = <<192>>],
           [Base EXCEPT !.stack[3].ipk = "invalid"],
           [Base EXCEPT !.stack[3].bytes = <<LEAF_VERSION_BLL + 1 - Parity(Base.spk.key)>>]}

\* Of a transaction, the witness tells one spend from another.
SpendSet == {[s EXCEPT !.tx = <<s.stack>>] : s \in Honest \cup OnContext \cup Malformed \cup Broken}

\* The transaction itself: one input and one output, the items of its witness
\* filled up to their sizes with zeros, as are the keys.
Filled(bytes, size) == bytes \o [k \in 1..(size - Len(bytes)) |-> 0]
Transaction(stack_) ==
    [version |-> 2, locktime |-> 0,
     vin  |-> <<[prevout |-> [hash |-> 11, n |-> 0], script_sig |-> <<>>, sequence |-> 100]>>,
     vout |-> <<[value |-> 40, spk |-> <<81>>]>>,
     wit  |-> <<[k \in DOMAIN stack_ |-> Filled(stack_[k].bytes, stack_[k].size)]>>]

\* What the operators are told in the context of a spend, or in none.
Unset == [tx |-> <<>>, index |-> <<>>, script |-> <<>>, utxos |-> <<>>]
Filling(c) ==
    IF c = NoContext THEN Unset
    ELSE [tx |-> <<Transaction(c.tx[1])>>, index |-> <<c.index>>, script |-> <<c.script>>,
          utxos |-> <<<<[value |-> 60, spk |-> Filled(<<81, 32>>, 34)]>>>>]
ToldInSpend ==
    Listed([c \in {NoContext} \cup {SetContext(s) : s \in {x \in SpendSet : Fault(x) = ""}} |->
               Told(T!View(Filling(c)))])
SpendViews  == ToldInSpend

\* Commands that set the script to another spend's, and the transaction.
SpendCommands == {[field |-> "script", value |-> <<5, 5>>], [field |-> "tx", value |-> <<<<>>>>]}

-----------------------------------------------------------------------------
(***************************************************************************)
(* What a spend's verdict should be, end to end: the codec's view of the   *)
(* two witness items and the recursive semantics of the program they hold, *)
(* with no budget, no cap, no stack and no phases.                         *)
(***************************************************************************)
Decoding(item)  == op_list_read(<<FromBytes(item)>>)
Canonical(item) == ~IsError(Decoding(item).val) /\ Serialize(Decoding(item).val) = item
Price(item)     == WholeCost(Decoding(item))

\* What a program's value says of the spend.
Judged(value) ==
    IF IsError(value) THEN value.msg
    ELSE IF ~IsBll(value) THEN "program result contains a function object"
    ELSE IF IsNil(value) THEN "program result is nil"
    ELSE Valid

\* A spend that stayed within its budget and its cap is valid exactly when the
\* committed program, applied to the environment, means something that is
\* neither an error nor nil; its price is two decodes and one meaning.  (A guard
\* may be overrun by a program that has no meaning because it never ends.)  And
\* it ends without a verdict only when the program means an exception.
ValidExactly ==
    Escaped \/ (Decided /\ ~Latched(budget) /\ verdict.reason # Mismatch) =>
        LET leaf == leaf_script(spend)
            item == env_bytes(spend)
            m    == Meaning(Decoding(leaf).val, Decoding(item).val)
        IN  IF ~Canonical(leaf) THEN verdict.reason = "leaf script"
            ELSE IF ~Canonical(item) THEN verdict.reason = "environment"
            ELSE IF m.value = Raises THEN Escaped
            ELSE /\ verdict.reason = Judged(m.value)
                 /\ verdict.used = Price(leaf) + Price(item) + m.cost
=============================================================================
