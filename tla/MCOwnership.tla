---------------------------- MODULE MCOwnership ----------------------------
(***************************************************************************)
(* Small instances of counted references: a client of elements, programs   *)
(* that take every way through every handler, and sessions of the symbolic *)
(* debugger.  A behaviour is one of the three, the others being idle.      *)
(***************************************************************************)
EXTENDS RefHeap, SymbolOwnership

VARIABLE owner

-----------------------------------------------------------------------------
(***************************************************************************)
(* Programs.                                                               *)
(***************************************************************************)
A(n)    == [name |-> "", n |-> n, l |-> <<>>, r |-> <<>>]
S(name) == [name |-> name, n |-> 0, l |-> <<>>, r |-> <<>>]
P(l, r) == [name |-> "", n |-> 0, l |-> l, r |-> r]

ListTo(items, end) ==
    LET list[k \in 0..Len(items)] ==
            IF k = 0 THEN end ELSE P(items[Len(items) + 1 - k], list[k-1])
    IN  list[Len(items)]
L(items)       == ListTo(items, A(0))
Call(op, args) == L(<<A(op)>> \o args)
Q(tree)        == P(A(0), tree)

Pair == P(A(5), A(6))
Env  == P(Pair, P(A(7), P(A(8), A(9))))

Values == {A(0), A(1), A(2), A(4), A(5), A(13), Q(Pair), Q(A(3)), Call(3, <<Q(A(7))>>),
           Call(3, <<A(99)>>)}

OpCalls == {Call(op, <<v, w>>) : op \in {OpRc, OpH, OpB}, v \in {A(2), Q(Pair), A(99)}, w \in Values}
      \cup {Call(op, <<>>) : op \in 1..3 \cup Ops} \cup {Call(OpH, <<v>>) : v \in Values}
      \cup {Call(OpB, [k \in 1..n |-> A(2)]) : n \in 2..7}
      \cup {P(A(op), ListTo(<<A(1)>>, A(5))) : op \in {2, 3} \cup Ops}
      \cup {P(P(A(1), A(1)), A(0)), Call(99, <<A(1)>>)}

Bound(op)  == Call(3, <<Q(A(op))>>)
Partials   == {Call(3, <<Bound(op)>>) : op \in Ops}
         \cup {Call(3, <<Call(3, <<Q(A(op)), v>>), w>>) : op \in Ops, v \in {A(2), A(4)}, w \in Values}
         \cup {Call(3, <<Q(A(99))>>), Call(3, <<Q(Pair)>>), Call(OpRc, <<Bound(OpB), Bound(OpB)>>)}
         \cup {Call(1, <<Bound(OpRc), A(1)>>), Call(1, <<Call(OpRc, <<A(1), Bound(OpRc)>>)>>),
               Call(OpH, <<Call(OpRc, <<A(1), Bound(OpRc)>>)>>)}

Bodies  == {A(2), A(99), Q(Pair), Call(OpH, <<A(2)>>), Call(OpRc, <<A(2), A(4)>>)}
Applies == {Call(1, <<Q(b)>>) : b \in Bodies} \cup {Call(1, <<Q(b), e>>) : b \in Bodies, e \in Values}
      \cup {Call(1, <<Q(A(2)), A(2), v>>) : v \in {A(5), Q(Pair), A(99)}}

Guards  == {Call(2, <<Q(A(3)), x, Q(b), A(1)>>) : x \in {A(0), A(2), Q(A(4))}, b \in Bodies}
      \cup {Call(2, SubSeq(<<Q(A(3)), A(0), A(2), A(1), A(4), A(5)>>, 1, n)) : n \in 1..6}
      \cup {Call(2, <<Q(c)>>) : c \in {A(0), Pair}}
      \cup {Call(2, <<Q(A(3)), A(0), Q(Call(2, <<Q(A(3)), A(0), Q(b), A(1)>>)), A(1)>>) : b \in Bodies}
      \cup {Call(OpRc, <<A(2), Call(2, <<Q(A(3)), A(0), Q(b), A(1)>>)>>) : b \in Bodies}

Of(exprs)   == {[expr |-> e, env |-> Env] : e \in exprs}
ImproperApply == Of({P(A(1), ListTo(<<Q(A(2))>>, A(5))), P(A(1), A(5))})
AllPrograms == Of(Values \cup OpCalls \cup Partials \cup Applies \cup Guards) \cup ImproperApply

(***************************************************************************)
(* Calls of every kind, well formed or not, over functions that call one   *)
(* another and are redefined meanwhile.                                    *)
(***************************************************************************)
CallTo(name, args) == L(<<S(name)>> \o args)

Def(name, params, body) == [name |-> name, params |-> params, body |-> body]
Sa == S("a")
Sb == S("b")

FBoth   == Def("f", L(<<Sa, Sb>>), CallTo("if", <<Sa, CallTo("g", <<Sb>>), CallTo("report", <<Sb, Sa>>)>>))
FLoop   == Def("f", L(<<Sa, Sa>>), CallTo("if", <<Sa, CallTo("f", <<CallTo("g", <<Sa>>), A(0)>>)>>))
GSame   == Def("g", L(<<Sa>>), Sa)
GConst  == Def("g", A(0), P(A(5), A(6)))
GWrong  == Def("g", L(<<A(1)>>), Sa)
GImproper == Def("g", Sa, Sa)

AllSessions    == {<<FBoth, GSame>>, <<FLoop, GSame>>, <<FBoth, GWrong>>,
                   <<FBoth, GImproper, GConst, FLoop>>}
AllDefinitions == {FBoth, GSame}

AllExprs ==
    {CallTo("f", <<A(0), A(9)>>), CallTo("f", <<A(7), CallTo("h", <<>>)>>), CallTo("f", <<S("g"), A(0)>>)}
    \cup {CallTo("f", SubSeq(<<A(1), A(2), A(3)>>, 1, n)) : n \in {1, 3}}
    \cup {P(S("f"), ListTo(<<A(1)>>, A(5))), P(S("report"), ListTo(<<A(4)>>, A(5)))}
    \cup {CallTo("if", <<>>), CallTo("if", <<S("g")>>), CallTo("if", <<A(0), A(1)>>),
          CallTo("if", <<A(1), A(2), A(3), A(4)>>), CallTo("report", <<>>), L(<<A(1), A(2)>>),
          L(<<CallTo("f", <<>>), A(1)>>), P(S("q"), P(A(3), A(4))), CallTo("g", <<CallTo("g", <<>>)>>)}

-----------------------------------------------------------------------------
OwnersInit ==
    /\ owner \in {"client", "bll", "debugger"}
    /\ HeapInit
    /\ IF owner = "bll" THEN Init ELSE conf = Fresh /\ result = None /\ exact = TRUE
    /\ IF owner = "debugger" THEN SessionInit
       ELSE session = NoSymbols /\ debugging = "before" /\ edits = 0 /\ overruns = 0

OwnersNext ==
    /\ UNCHANGED owner
    /\ \/ owner = "client" /\ HeapNext /\ UNCHANGED <<vars, sessionVars>>
       \/ owner = "bll" /\ Next /\ UNCHANGED <<heapVars, sessionVars>>
       \/ owner = "debugger" /\ SessionNext /\ UNCHANGED <<heapVars, vars>>

OwnersSpec == OwnersInit /\ [][OwnersNext]_<<owner, heapVars, vars, sessionVars>>

-----------------------------------------------------------------------------
(***************************************************************************)
(* Properties that the three share.                                        *)
(***************************************************************************)
\* Between two steps every reference is owned by exactly one place, of the
\* evaluator's elements and of the debugger's symbols alike, but for those that
\* two handlers are known to forget.
EverythingOwned == EveryReferenceOwned /\ EverySymbolOwned

\* Nothing that is in use is taken apart or replaced by a step that does not
\* own it: cells that can be reached, and functions that are being called.
NothingDisturbed == [][KeepsReachable /\ KeepsCalls]_<<heapVars, sessionVars>>
=============================================================================
