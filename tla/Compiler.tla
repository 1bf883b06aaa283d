------------------------------ MODULE Compiler ------------------------------
(***************************************************************************)
(* The compiler from symbolic definitions to bll (symbll.py).  Where the   *)
(* code raises, the output holds Raised, which is not bll, and so neither  *)
(* is anything built around it.                                            *)
(***************************************************************************)
EXTENDS SymbolIndex

Raised == [kind |-> "raised"]

ResolveIndex(n, globalidx, localidx) ==
    IF n \in DOMAIN localidx THEN IntAtom(localidx[n])
    ELSE IF n \in DOMAIN globalidx THEN IntAtom(globalidx[n])
    ELSE Raised

RECURSIVE compile_expr(_, _, _), compile_args(_, _, _)

compile_args(args, globalidx, localidx) ==
    IF IsCons(args)
    THEN Cons(compile_expr(args.val1, globalidx, localidx),
              compile_args(args.val2, globalidx, localidx))
    ELSE IF IsNil(args) THEN Nil ELSE Raised

Quoting(code) == Cons(OpAtom("q"), code)

\* if, by the number of its compiled operands: without branches the condition
\* itself is tested, otherwise the branch is chosen first and run then.
CompileIf(l) ==
    LET then == l.val2
        else == then.val2
        run(branches) == list_to_element(<<OpAtom("a"),
                             list_to_element(<<OpAtom("i"), l.val1>> \o branches)>>)
    IN  IF ~IsBll(l) \/ IsNil(l) THEN Raised
        ELSE IF IsNil(then) THEN list_to_element(<<OpAtom("i"), l.val1>>)
        ELSE IF IsNil(else) THEN run(<<Quoting(then.val1)>>)
        ELSE IF IsNil(else.val2) THEN run(<<Quoting(then.val1), Quoting(else.val1)>>)
        ELSE Raised

\* Mutant: the callee sees the arguments only, not the globals beside them.
CallBare(position, l) ==
    list_to_element(<<OpAtom("a"), position, Cons(OpAtom("b"), l)>>)

\* A call runs the callee's code on its arguments beside the globals.
CallUser(position, l) ==
    list_to_element(<<OpAtom("a"), position,
                      list_to_element(<<OpAtom("rc"), Cons(OpAtom("b"), l), IntAtom(2)>>)>>)

compile_call(name, args, globalidx, localidx) ==
    LET l  == compile_args(args, globalidx, localidx)
        fn == args.val1
        rest == compile_args(args.val2, globalidx, localidx)
        two == IsCons(args) /\ IsCons(args.val2) /\ IsNil(args.val2.val2)
        operator == IsSymbol(fn) /\ fn.name \in DOMAIN SExpr_FUNCS
    IN  CASE name = "q"      -> Cons(Nil, args)
          [] name = "report" -> IF IsCons(args) THEN compile_expr(fn, globalidx, localidx)
                                ELSE IF IsNil(args) THEN Nil ELSE Raised
          [] name = "if"     -> CompileIf(l)
          [] name = "a"      -> IF two THEN Cons(OpAtom("a"), l) ELSE Raised
          [] name = "partial" ->
               IF ~IsCons(args) THEN Raised
               ELSE Cons(OpAtom("partial"),
                         Cons(IF operator THEN Quoting(OpAtom(fn.name))
                              ELSE compile_expr(fn, globalidx, localidx), rest))
          [] name \in DOMAIN SExpr_FUNCS -> Cons(OpAtom(name), l)
          [] OTHER -> CallUser(ResolveIndex(name, globalidx, localidx), l)

compile_expr(sexpr, globalidx, localidx) ==
    IF IsNil(sexpr) THEN sexpr
    ELSE IF IsAtom(sexpr) THEN Cons(Nil, sexpr)
    ELSE IF IsSymbol(sexpr) THEN ResolveIndex(sexpr.name, globalidx, localidx)
    ELSE IF IsCons(sexpr) /\ IsSymbol(sexpr.val1)
    THEN compile_call(sexpr.val1.name, sexpr.val2, globalidx, localidx)
    ELSE Raised

RECURSIVE Entries(_), Distinct(_)
Entries(list) == IF IsCons(list) THEN <<list.val1>> \o Entries(list.val2) ELSE <<>>

\* Parameters key a table: a name counts where it first occurs.
Distinct(names) ==
    IF names = <<>> THEN <<>>
    ELSE <<names[1]>> \o SelectSeq(Distinct(Tail(names)), LAMBDA n : n # names[1])

compile_fn(def, globalidx) ==
    LET params == Entries(def.params)
        names  == Distinct([i \in DOMAIN params |-> params[i].name])
    IN  IF \A i \in DOMAIN params : IsSymbol(params[i])
        THEN compile_expr(def.body, globalidx, Index(names, 3))
        ELSE Raised

compile_program(name, table) ==
    LET globalidx == Index([i \in DOMAIN table |-> table[i].name], 2)
        quoted    == [i \in DOMAIN table |-> Quoting(compile_fn(table[i], globalidx))]
        globals   == list_to_element(<<OpAtom("b")>> \o quoted)
        entry     == list_to_element(<<OpAtom("q"), OpAtom("a"), IntAtom(globalidx[name])>>)
    IN  list_to_element(<<OpAtom("a"), entry,
                          list_to_element(<<OpAtom("rc"), IntAtom(1), globals>>)>>)
=============================================================================
