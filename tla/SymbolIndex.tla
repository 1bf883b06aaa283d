---------------------------- MODULE SymbolIndex ----------------------------
(***************************************************************************)
(* Symbols (symbll.py): the symbolic expressions, the names the evaluator  *)
(* and the compiler know, tables of definitions, and the index from a      *)
(* symbol to its place in an environment built by the operator b.          *)
(***************************************************************************)
EXTENDS BllOpcodes, Sequences

Symbol(name) == [kind |-> "symbol", name |-> name]
IsSymbol(e)  == e.kind = "symbol"

\* SExpr.list_to_element
list_to_element(s) ==
    LET from[k \in 1..Len(s)+1] == IF k = Len(s) + 1 THEN Nil ELSE Cons(s[k], from[k + 1])
    IN  from[1]

\* Numbers by name, of the table's operators and of bll's special ones.
SExpr_FUNCS   == [name \in {Op_FUNCS[n] : n \in DOMAIN Op_FUNCS} |->
                     CHOOSE n \in DOMAIN Op_FUNCS : Op_FUNCS[n] = name]
SpecialBLLOps == "q" :> 0 @@ "a" :> 1 @@ "sf" :> 2 @@ "partial" :> 3
OpAtom(name)  == IntAtom((SExpr_FUNCS @@ SpecialBLLOps)[name])

\* A table of definitions, in the order they were made.
Definition(name, params, body) == [name |-> name, params |-> params, body |-> body]
Names(table)      == {table[i].name : i \in DOMAIN table}
Lookup(table, n)  == table[CHOOSE i \in DOMAIN table : table[i].name = n]

-----------------------------------------------------------------------------
(***************************************************************************)
(* SymbolIndex: perfect subtrees waiting for one of their size, as in b.   *)
(***************************************************************************)
Subtree(size, at) == [size |-> size, at |-> at]

Joined(a, b) ==
    Subtree(a.size + b.size,
            [n \in DOMAIN a.at |-> 2 * a.at[n]] @@ [n \in DOMAIN b.at |-> 2 * b.at[n] + 1])

LastTwo(s) == Append(SubSeq(s, 1, Len(s) - 2), Joined(s[Len(s) - 1], s[Len(s)]))

Add(sofar, name) ==
    LET merged[k \in 0..CounterBits] ==
            IF k = 0 THEN Append(sofar, Subtree(1, name :> 1))
            ELSE LET s == merged[k-1]
                     n == Len(s)
                 IN  IF n > 1 /\ s[n].size = s[n - 1].size THEN LastTwo(s) ELSE s
    IN  merged[CounterBits]

\* What is left is joined from the end.
FinishIndex(sofar) ==
    LET joined[k \in 1..Len(sofar)] ==
            IF k = 1 THEN sofar
            ELSE LET s == joined[k-1] IN IF Len(s) > 1 THEN LastTwo(s) ELSE s
    IN  IF sofar = <<>> THEN [n \in {} |-> 0] ELSE joined[Len(sofar)][1].at

HighBit(n) == CHOOSE m \in {2^k : k \in 0..CounterBits} : m <= n /\ n < 2 * m

\* Below the tree an environment reference goes on with offset's own path.
Placed(at, offset) == [n \in DOMAIN at |-> at[n] * HighBit(offset) + offset - HighBit(offset)]

Index(names, offset) ==
    LET added[k \in 0..Len(names)] == IF k = 0 THEN <<>> ELSE Add(added[k-1], names[k])
    IN  Placed(FinishIndex(added[Len(names)]), offset)
=============================================================================
