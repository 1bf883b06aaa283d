------------------------------ MODULE Programs ------------------------------
(***************************************************************************)
(* The bll programs TLC evaluates: sets built from a grammar over the      *)
(* modelled operators, with the budget limits and element caps that make   *)
(* their boundaries happen.                                                *)
(***************************************************************************)
EXTENDS Elements, Sequences, TLC

SE == INSTANCE SequencesExt

\* ---- writing programs -------------------------------------------------
List(s)      == SE!FoldRight(LAMBDA e, acc : Cons(e, acc), s, Nil)
Quoted(e)    == Cons(Nil, e)
Number(n)    == Quoted(IntAtom(n))
Call(op, s)  == Cons(IntAtom(op), List(s))
Apply(s)     == Call(1, s)
Softfork(s)  == Call(2, s)
Partial(s)   == Call(3, s)
Guard(cost, prog) == Softfork(<<Number(cost), Nil, Quoted(prog), Nil>>)

Env == List(<<IntAtom(7), IntAtom(300)>>)
Roomy == 1000000

Job(p)        == [program |-> p, env |-> Env, cap |-> Roomy, extensions |-> {0},
                  context |-> "spend"]
Capped(p, n)  == [Job(p) EXCEPT !.cap = n]

UpTo(S, n) == UNION {[1..k -> S] : k \in 0..n}

\* A function object.
Plus1 == Partial(<<Number(23), Number(1)>>)

\* Values of every shape: small, negative, non-minimal and wide atoms, a
\* pair, the environment, references in and out of it.
Operands == {Nil, IntAtom(1), IntAtom(2), IntAtom(5), IntAtom(8), Number(-129),
             Quoted(Atom(0, 1)), Quoted(Atom(2, 9)), Quoted(Env)}
FewOperands == {Nil, IntAtom(2), Number(2), Quoted(Env)}

Improper == {Cons(IntAtom(op), Cons(IntAtom(1), IntAtom(7))) : op \in {1, 2, 3, 23}}

\* ---- every operator on every short list of operands -------------------
OperatorPrograms ==
    {Call(op, s) : op \in {5, 14, 23, 24, 25, 26, 30}, s \in UpTo(Operands, 2)}
  \cup {Call(op, s) : op \in {4, 6, 7, 8, 9, 11, 12, 13, 16, 18} \cup
                                {31, 64, 128, 192, 300, 900},
                        s \in UpTo(FewOperands, 2)}
  \cup {Call(op, s) : op \in {5, 24, 128}, s \in [1..3 -> FewOperands]}
  \cup Improper
  \cup {Call(op, <<>>) : op \in {-1, 4096, 4097}}
  \cup {Cons(op, Nil) : op \in {Atom(9, 9), Atom(23, 10), Env}}

\* ---- bytes, trees, encodings, digests and curves ------------------------
ByteOperands == {Nil, IntAtom(2), Number(255), Number(-300), Quoted(Atom(0, 1)), Quoted(Env),
                 Quoted(Atom(1027, 3))}
Deltas == {-17, -16, -15, -9, -8, -7, -1, 0, 1, 7, 8, 9}
Indices == {-4, -1, 0, 1, 3}
Trees == {Nil, Number(1), Quoted(Env), Quoted(Cons(Nil, IntAtom(7))),
          Quoted(Cons(IntAtom(7), Cons(IntAtom(200), Nil))), IntAtom(1)}

\* Encodings to decode: whole, cut short, followed by more, unknown markers.
Encodings == {<<>>, <<5>>, <<1>>, <<128>>, <<130, 9, 0>>, <<130, 9>>, <<255, 1, 128>>, <<255, 5>>,
              <<255, 255, 9, 8, 128>>, <<255, 9, 255, 130, 3, 4, 128>>, <<5, 5>>, <<255, 9, 8, 7>>,
              <<240>>, <<255, 9, 241>>, <<192, 3, 1, 2, 0>>, <<224, 0, 2, 7>>, <<255, 9, 240, 1>>}

\* Points are 32 bytes, messages and scalars too; 2 generates the curve, 12 is
\* a point, 3 is not.
Bytes32(n) == [k \in 1..32 |-> IF k = 32 THEN n ELSE 0]
XPoint(n)  == FromBytes(Bytes32(n))
Sig(r, sv) == FromBytes(Bytes32(r) \o Bytes32(sv))
Even(n)    == FromBytes(<<2>> \o Bytes32(n))
Odd(n)     == FromBytes(<<3>> \o Bytes32(n))
BigNumber(n) == FromBytes(Bytes32(n))

SignaturePrograms ==
    {Call(38, <<Quoted(pk), Quoted(m), Quoted(sg)>>) :
        pk \in {XPoint(2), XPoint(12), XPoint(3), XPoint(50), IntAtom(2)}, m \in {XPoint(9), IntAtom(9)},
        sg \in {Nil, IntAtom(4), Env} \cup {Sig(2, n) : n \in 0..31}}
 \cup {Call(39, <<Quoted(pk), Quoted(m), Quoted(sg)>>) :
        pk \in {Even(2), Odd(12), Even(3), FromBytes(<<4>> \o Bytes32(2) \o Bytes32(12)),
                FromBytes(<<4>> \o Bytes32(2) \o Bytes32(13)), IntAtom(2)},
        m \in {XPoint(9), IntAtom(9)},
        sg \in {Nil, IntAtom(4), Env} \cup {FromBytes(<<48, 6, 2, 1, 2, 2, 1, n>>) : n \in 1..31}}
 \cup {Call(40, s) :
        s \in UpTo({Nil, Quoted(Env), Number(1), Number(31), Quoted(Cons(Nil, Nil)), Number(512),
                   Quoted(Cons(BigNumber(30), XPoint(2))), Quoted(Cons(One, Odd(2))),
                   Quoted(Cons(One, XPoint(3))), Quoted(Cons(One, IntAtom(2))),
                   Quoted(Atom(1, 33)), Quoted(Cons(Nil, Cons(Nil, Nil)))}, 2)}

WideOperatorPrograms ==
    {Call(op, s) : op \in 19..22, s \in UpTo(ByteOperands, 2)}
 \cup {Call(op, <<Number(12), Quoted(Atom(1027, 3)), IntAtom(5)>>) : op \in 19..22}
 \cup {Call(27, <<e, Number(d)>>) : e \in ByteOperands, d \in Deltas}
 \cup {Call(27, <<e, Quoted(d)>>) : e \in {IntAtom(2)}, d \in {Env, Atom(3, 9), Atom(0, 9)}}
 \cup {Call(17, <<e, Number(i), Number(j)>>) :
        e \in {Quoted(Atom(66051, 3)), Number(7)}, i \in Indices, j \in Indices}
 \cup {Call(17, s) : s \in UpTo({Quoted(Env), Number(258), Quoted(Atom(1, 9))}, 3)}
 \cup {Call(15, s) : s \in UpTo(Operands, 2)}
 \cup {Call(15, s) : s \in [1..3 -> FewOperands]}
 \cup {Call(255, s) : s \in UpTo(Trees, 2)}
 \cup {Call(255, <<t, t, u>>) : t \in Trees, u \in Trees}
 \cup {Call(10, [k \in 1..n |-> Number(k)]) : n \in 0..9}
 \cup {Call(32, <<Quoted(FromBytes(b))>>) : b \in Encodings}
 \cup {Call(op, <<Quoted(e)>>) : op \in {32, 33}, e \in {Env, Nil, One, Atom(200, 1), Atom(7, 70)}}
 \cup {Call(32, <<Call(33, <<Quoted(e)>>)>>) : e \in {Env, Cons(Env, Atom(9, 66))}}
 \cup {Call(op, s) : op \in 34..37, s \in UpTo({Nil, Quoted(Env), Number(700)}, 2)}
 \cup {Call(14, <<Call(34, s), Call(34, t)>>) :
        s \in {<<Number(5), Number(7)>>}, t \in {<<Call(18, <<Number(5), Number(7)>>)>>, <<Number(5)>>}}
 \cup {Call(op, <<Call(23, <<Number(9)>>), p>>) : op \in {255, 33, 15},
                                                       p \in {Partial(<<Number(23)>>)}}
 \cup {Call(33, <<Call(6, <<Partial(<<Number(23)>>), Nil>>)>>)}
 \cup {Call(255, [k \in 1..2 |-> Call(6, <<Partial(<<Number(23)>>), IntAtom(1)>>)])}

\* ---- the transaction: a spend with an annex, the second of two inputs, as the
\* spend checker sets it; one set by hand that has a transaction and an index
\* only, of an input with no witness; and nothing set at all.
T == INSTANCE TxOpcodes WITH UNKNOWN_OP_RANGE <- 4096

Spending == [version |-> 2, locktime |-> 500,
             vin |-> [k \in 1..2 |-> [prevout |-> [hash |-> 11, n |-> k], script_sig |-> <<k>>,
                                     sequence |-> 100]],
             vout |-> <<[value |-> 40, spk |-> <<81, 2>>], [value |-> -1, spk |-> <<>>]>>,
             wit |-> <<<<<<7, 7>>>>, <<<<128>>, <<23, 7>>, <<194>> \o Bytes32(2), <<80, 1>>>>>>]
SpentCoins == [k \in 1..2 |-> [value |-> 60 + k, spk |-> <<81, 32>> \o Bytes32(k)]]

SampleContexts ==
    [spend |-> [tx |-> <<Spending>>, index |-> <<1>>, script |-> <<<<23, 7>>>>, utxos |-> <<SpentCoins>>],
     byhand |-> [tx |-> <<[Spending EXCEPT !.wit = <<>>]>>, index |-> <<2>>, script |-> <<>>, utxos |-> <<>>],
     none |-> [tx |-> <<>>, index |-> <<>>, script |-> <<>>, utxos |-> <<>>]]

\* f itself: TLC keeps the values of a function that was joined, and the value of
\* a definition that a constant's own definition names, and computes them once.
Listed(f) == f @@ <<>>

\* Digests are bytes to a program: those of a message it can verify.
MadeBytes(e) == IF e = T!Raises \/ IsNil(e) THEN e ELSE XPoint(9)
Told(view) ==
    [view EXCEPT !.global  = Listed([@ EXCEPT ![6] = MadeBytes(@)]),
                 !.field   = Listed([code \in DOMAIN @ |-> Listed(@[code])]),
                 !.message = Listed([h \in DOMAIN @ |-> MadeBytes(@[h])])]

ToldInContext == Listed([c \in DOMAIN SampleContexts |-> Told(T!View(SampleContexts[c]))])
SampleViews   == ToldInContext

Selectors == {Number(n) : n \in (-1..17) \cup (20..22) \cup {30}}
        \cup {Quoted(Cons(IntAtom(n), IntAtom(i))) : n \in {0, 9, 10, 15, 20, 30}, i \in -1..2}
        \cup {Quoted(Atom(9, 9)), Quoted(Cons(Atom(20, 10), Atom(0, 9))), Quoted(Cons(Nil, Env)), Plus1}
FewSelectors == {Number(2), Number(9), Number(30), Number(7), Quoted(Env)}

\* The second argument after a pair raises, wherever the call is.
Raising == Call(41, <<Number(9), Number(2)>>)
Signed   == Call(38, <<Quoted(XPoint(2)), Call(42, <<>>), Quoted(Sig(2, 15))>>)

TxPrograms ==
    {Call(41, s) : s \in {<<>>} \cup [{1} -> Selectors] \cup [1..2 -> FewSelectors]
                            \cup [1..3 -> {Number(2), Number(9)}]}
 \cup {Call(42, s) : s \in {<<>>, <<Nil, Nil>>} \cup
            {<<e>> : e \in {Number(n) : n \in {0, 1, 3, 4, -1, -3, 200}} \cup
                         {Quoted(Env), Quoted(Atom(0, 1)), Quoted(Atom(129, 1)), Plus1}}}
 \cup {Partial(s) : s \in UNION {[{1} -> {Number(41)}], [1..2 -> {Number(41), Number(9)}],
                                 [1..3 -> {Number(41), Number(9)}]}}
 \cup {Partial(<<Partial(<<Number(n), Number(9)>>)>>) : n \in {41, 42}}
 \cup {Call(op, <<p, Number(1)>>) : op \in {6, 23, 41}, p \in {Raising, Call(41, <<Number(4)>>)}}
 \cup {Apply(<<Quoted(p), Quoted(Env)>>) : p \in {Raising, Signed}}
 \cup {Signed}
 \cup {Call(11, <<Guard(n, p), IntAtom(1)>>) : n \in {900, 6368, 1000000}, p \in {Raising, Call(42, <<>>)}}

\* ---- guards: every arity and extension, exact, short and excess costs --
Equal == Call(14, <<Number(2), Number(2)>>)
Inner == {Nil, IntAtom(1), IntAtom(9), Call(4, <<>>), Equal,
          Call(3, <<Number(23), Number(1)>>)}          \* a function object
Costs == {72, 127, 128, 129, 472, 473, 1158}

SimpleGuards == {Guard(n, p) : n \in Costs \cup {0, -1, 56}, p \in Inner}

\* A guard in a guard: the inner lump is charged to the outer allowance.
NestedGuards == {Guard(n, Guard(m, p)) : n \in {100, 663, 664, 1100},
                                         m \in {127, 128, 129}, p \in {Nil, Call(4, <<>>)}}

\* The application after the guard sees nil, whatever ran inside.
AfterGuards == {Call(11, <<Guard(n, p), IntAtom(1)>>) : n \in {128, 129}, p \in Inner}

Shapes == UNION {[1..k -> {Number(128), Nil}] : k \in 0..6}
OddGuards == {Softfork(s) : s \in Shapes}
        \cup {Softfork(<<Number(128), e, Quoted(Nil), Nil>>) :
                 e \in {Quoted(Atom(0, 9)), Number(1), Number(-1), IntAtom(1)}}
        \cup {Softfork(<<Quoted(e), Nil, Nil, Nil>>) :
                 e \in {Atom(128, 9), Atom(128, 1), Env, IntAtom(2000000)}}

GuardPrograms == SimpleGuards \cup NestedGuards \cup AfterGuards \cup OddGuards

\* ---- apply and partial -------------------------------------------------
Bindings == {Partial(s) : s \in UpTo({Number(23), Number(9), Number(2), Number(31),
                                      Quoted(Atom(24, 9)), Quoted(Env), Plus1}, 2)}
Finalised == {Partial(<<p>>) : p \in Bindings}
        \cup {Partial(<<Partial(<<p, Number(5)>>)>>) : p \in Bindings}
Wrapped == {Call(op, <<b>>) : op \in {5, 6, 9, 13, 14, 30}, b \in {Plus1}}
      \cup {Call(7, <<Call(6, <<Plus1, Nil>>)>>), Apply(<<Call(6, <<Plus1, Nil>>)>>),
            Apply(<<Plus1>>), Call(6, <<Plus1, Plus1>>)}
Applied == {Apply(s) : s \in UpTo({Quoted(IntAtom(2)), Quoted(Call(23, <<IntAtom(2)>>)),
                                   IntAtom(1), Quoted(Call(8, <<IntAtom(1)>>))}, 3)}

BindingPrograms == Bindings \cup Finalised \cup Wrapped \cup Applied

\* ---- loops: (a 1 1) runs itself for ever, without growing the stack -----
SelfApply(prog) == [Job(prog) EXCEPT !.env = prog]
FlatLoop  == Apply(<<IntAtom(1), IntAtom(1)>>)
DeepLoop  == Call(9, <<FlatLoop>>)
BoundLoop == Partial(<<Number(23), FlatLoop>>)
GuardLoop == Softfork(<<Number(700), Nil, IntAtom(1), IntAtom(1)>>)

LoopJobs == {SelfApply(p) : p \in {FlatLoop, DeepLoop, BoundLoop, GuardLoop}}

\* Ten pairs, each the right child of the one before it.
NestedPairs == <<255, 9, 255, 9, 255, 9, 255, 9, 255, 9, 255, 9, 255, 9, 255, 9, 255, 9,
                 255, 130, 3, 4, 128>>

\* ---- boundaries: every limit and every cap around short evaluations -----
ShortPrograms == {Call(5, <<IntAtom(2), IntAtom(5)>>),
                  Call(24, <<IntAtom(2), IntAtom(5)>>), IntAtom(9),
                  Quoted(Atom(3, 10)), Cons(Atom(23, 9), Nil),
                  Call(3, <<Quoted(Atom(24, 9)), Number(5)>>),
                  Guard(128, Nil), Guard(127, Nil), Guard(30, Nil), Call(4, <<>>),
                  Apply(<<Quoted(IntAtom(2)), IntAtom(1)>>),
                  Call(10, [k \in 1..8 |-> Number(k + 2)]),
                  Call(41, <<Number(9)>>), Raising,
                  Call(32, <<Quoted(FromBytes(NestedPairs))>>)}
BoundaryJobs == {Capped(p, n) : p \in ShortPrograms, n \in (0..20) \cup (55..58) \cup {Roomy}}
BoundaryLimits == {24 * k : k \in 0..10} \cup {24 * k + 63 : k \in 2..12}
                    \cup {352, 1000, 1448, Roomy} \cup {1500 + 156 * k : k \in 0..8}
=============================================================================
