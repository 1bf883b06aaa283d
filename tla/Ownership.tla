------------------------------ MODULE Ownership ------------------------------
(***************************************************************************)
(* Who owns which reference while bll runs (bll.py, workitem.py and some   *)
(* operators of opcodes.py): every handler with the elements it makes, the *)
(* references it shares, hands on and releases, and every way out of it.   *)
(*                                                                         *)
(* Values are left to BllMachine: which charge of a step fails, and        *)
(* whether it finds the budget or a guard's allowance too small, is any.   *)
(*                                                                         *)
(* A configuration is [heap, stack, left, guards, breach, over, lost]:     *)
(* left and breach tell which charge is to fail and how, over which latch  *)
(* is set, and lost which references a handler took over and forgot.       *)
(***************************************************************************)
EXTENDS RefCells

CONSTANTS Programs,     \* pairs of an expression and an environment, as trees
          MostCharges   \* at least as many as a step can make

ASSUME OwnershipAssumption == MostCharges \in Nat

VARIABLES conf, result, exact    \* exact: guards consume what they declare

vars == <<conf, result, exact>>

-----------------------------------------------------------------------------
(***************************************************************************)
(* What every handler is written with.                                     *)
(***************************************************************************)
New(c, cell)   == [c EXCEPT !.heap = alloc(@, cell)]
Latest(c)      == Len(c.heap)
Bump(c, els)   == [c EXCEPT !.heap = bumpref(@, els)]
Drop(c, els)   == [c EXCEPT !.heap = deref_all(@, els)]

\* The references that the code neither hands on nor releases.
Forget(c, els) == [c EXCEPT !.lost = @ \o els]

Kind(c, el)    == c.heap[el].kind
Kid(c, el, k)  == c.heap[el].kids[k]
Number(c, el)  == c.heap[el].n
IsNil(c, el)   == Kind(c, el) = "atom" /\ Number(c, el) = 0
IsCons(c, el)  == Kind(c, el) = "cons"
IsError(c, el) == Kind(c, el) = "error"
IsFunc(c, el)  == Kind(c, el) \in {"fin", "blleval", "quote", "apply", "softfork", "partial",
                                   "exitguard", "op"}

\* steal_children and steal_func: the children are owned, the element is not.
Steal(c, el) == Drop(Bump(c, c.heap[el].kids), <<el>>)

\* A function object takes its state over; of an operator n is the number.
Func(c, fn, n, state) == New(c, Cell(fn, n, <<state>>))

Latched(c) == c.over # "no"
charge(c) ==
    IF Latched(c) THEN c
    ELSE IF c.left > 0 THEN [c EXCEPT !.left = @ - 1]
    ELSE [c EXCEPT !.over = IF c.guards > 0 /\ c.breach THEN "guard" ELSE "budget"]

\* What is done after a charge, or instead when it fails.
Charging(c, then(_), otherwise(_)) ==
    LET paid == charge(c) IN IF Latched(paid) THEN otherwise(paid) ELSE then(paid)

Frame(fn, args, env) == [fn |-> fn, args |-> args, env |-> env]
new_continuation(c, args, env) ==     \* of the function object made last
    [c EXCEPT !.stack = Append(@, Frame(Latest(c), args, env))]
eval_arg(c, expr, env) == new_continuation(Func(Bump(c, <<Nil>>), "blleval", 0, Nil), expr, env)
fin_value(c, value)    == new_continuation(Func(Bump(c, <<Nil, Nil>>), "fin", 0, Nil), value, Nil)
error(c)               == LET c1 == New(c, Cell("error", 0, <<>>)) IN fin_value(c1, Latest(c1))

\* The frame waits for its first argument with the rest of them.
EvalNextArg(c, fn, n, state, args, env) ==
    LET c1 == Steal(c, args)
        c2 == new_continuation(Func(c1, fn, n, state), Kid(c, args, 2), env)
    IN  eval_arg(Bump(c2, <<env>>), Kid(c, args, 1), env)

-----------------------------------------------------------------------------
(***************************************************************************)
(* Operators: state and argument are lent to them.                         *)
(***************************************************************************)
OpRc == 6
OpH  == 7
OpB  == 10
Ops  == {OpRc, OpH, OpB}

\* None when a charge failed.
None == 0
Delivers(c, el)   == [c |-> c, el |-> el]
DeliversNew(c)    == Delivers(c, Latest(c))
Nothing(c)        == Delivers(c, None)
RaisesError(c)    == DeliversNew(New(c, Cell("error", 0, <<>>)))

BRc(c, state, arg) ==
    IF IsCons(c, state)
    THEN LET c1 == New(Bump(c, <<Kid(c, state, 1), arg, Kid(c, state, 2)>>),
                       Cons(arg, Kid(c, state, 2)))
         IN  DeliversNew(New(c1, Cons(Kid(c, state, 1), Latest(c1))))
    ELSE DeliversNew(New(Bump(c, <<state, arg>>), Cons(state, arg)))

\* The state of h is nil or ((ARG) . 1), for it has one argument.
BH(c, state, arg) ==
    IF ~IsNil(c, state) THEN RaisesError(c)
    ELSE LET c1 == New(Bump(c, <<arg, state, One>>), Cons(arg, state))
         IN  DeliversNew(New(c1, Cons(Latest(c1), One)))

\* A number as an atom, the two smallest being interned.
Counter(c, n) == IF n < 2 THEN Delivers(Bump(c, <<n + 1>>), n + 1) ELSE DeliversNew(New(c, Atom(n)))

\* The state of b is nil or (TREES . N): a carry takes a tree off for every low
\* bit of N that is set.
BB(c, state, arg) ==
    LET trees == Kid(c, state, 1)
        n     == Number(c, Kid(c, state, 2))
        low[k \in 0..3] == k = 0 \/ (low[k-1] /\ (n \div (2 ^ (k - 1))) % 2 = 1)
        merged[k \in 0..3] ==       \* k carries later: configuration, tree, rest
            IF k = 0 THEN [c |-> Bump(c, <<arg>>), v |-> arg, m |-> trees]
            ELSE LET b  == merged[k-1]
                     c1 == New(Bump(b.c, <<Kid(b.c, b.m, 1)>>), Cons(Kid(b.c, b.m, 1), b.v))
                 IN  [c |-> c1, v |-> Latest(c1), m |-> Kid(b.c, b.m, 2)]
        done  == merged[Cardinality({k \in 1..3 : low[k]})]
        c2    == New(Bump(done.c, <<done.m>>), Cons(done.v, done.m))
        count == Counter(c2, n + 1)
        c3    == New(Bump(c, <<arg, Nil>>), Cons(arg, Nil))
    IN  IF IsNil(c, state) THEN DeliversNew(New(Bump(c3, <<One>>), Cons(Latest(c3), One)))
        ELSE DeliversNew(New(count.c, Cons(Latest(c2), count.el)))

Argument(c, op, state, arg) ==
    Charging(c, LAMBDA p : CASE op = OpRc -> BRc(p, state, arg)
                             [] op = OpH  -> BH(p, state, arg)
                             [] op = OpB  -> BB(p, state, arg),
             Nothing)

Shared(c, el) == Delivers(Bump(c, <<el>>), el)

\* Mutant: the tree so far is not released.
GivesUpKept(c, l) == Nothing(c)

\* b gives up while it joins its trees.
GivesUp(c, l) == Nothing(Drop(c, <<l>>))

RECURSIVE JoinTrees(_, _, _)
JoinTrees(c, l, rest) ==
    IF ~IsCons(c, rest) THEN Delivers(c, l)
    ELSE Charging(c, LAMBDA p : LET c1 == New(Bump(p, <<Kid(p, rest, 1)>>),
                                              Cons(Kid(p, rest, 1), l))
                                IN  JoinTrees(c1, Latest(c1), Kid(p, rest, 2)),
                  LAMBDA p : GivesUp(p, l))

Finish(c, op, state) ==
    CASE op = OpRc -> IF IsCons(c, state) THEN Shared(c, Kid(c, state, 2)) ELSE Shared(c, state)
      [] op = OpH  ->
            LET arg == Kid(c, Kid(c, state, 1), 1)
            IN  IF IsNil(c, state) THEN RaisesError(c)
                ELSE Charging(c, LAMBDA p : IF IsCons(p, arg) THEN Shared(p, Kid(p, arg, 1))
                                            ELSE RaisesError(p),
                              Nothing)
      [] op = OpB  ->
            LET trees == Kid(c, state, 1)
            IN  IF IsNil(c, state) THEN Shared(c, state)
                ELSE JoinTrees(Bump(c, <<Kid(c, trees, 1)>>), Kid(c, trees, 1), Kid(c, trees, 2))

-----------------------------------------------------------------------------
(***************************************************************************)
(* The handlers.  f is [fn, n, state, args, env]: the frame taken off the  *)
(* stack, its function object taken apart.                                 *)
(***************************************************************************)
Improper(c, f) == error(Drop(c, <<f.env, f.state, f.args>>))

fed(c, op, state, value) ==
    LET r == Argument(c, op, state, value) IN [r EXCEPT !.c = Drop(@, <<state, value>>)]

OpStep(c, f) ==
    LET r  == Finish(c, f.n, f.state)
        c1 == Drop(r.c, <<f.env, f.state, f.args>>)
    IN  IF IsNil(c, f.args) THEN IF r.el = None THEN c1 ELSE fin_value(c1, r.el)
        ELSE IF IsCons(c, f.args) THEN EvalNextArg(c, "op", f.n, f.state, f.args, f.env)
        ELSE Improper(c, f)

\* r is what the operator answered.
OpFed(r, f) ==
    IF r.el = None THEN Drop(r.c, <<f.args, f.env>>)
    ELSE IF IsError(r.c, r.el) THEN fin_value(Drop(r.c, <<f.env, f.args>>), r.el)
    ELSE new_continuation(Func(r.c, "op", f.n, r.el), f.args, f.env)

OpFeedback(c, f, value) == OpFed(fed(c, f.n, f.state, value), f)

\* The nil state of a call without arguments is not released (workitem.py:100).
PartialStep(c, f) ==
    IF IsNil(c, f.args)
    THEN LET c1 == Drop(c, <<f.env, f.args>>)
             c2 == Func(c1, "partial", 0, f.state)
         IN  IF IsNil(c, f.state) THEN error(Forget(c1, <<f.state>>)) ELSE fin_value(c2, Latest(c2))
    ELSE IF IsCons(c, f.args) THEN EvalNextArg(c, "partial", 0, f.state, f.args, f.env)
    ELSE Improper(c, f)

\* Consumes the value; the function object, or None.
get_partial_func(c, value) ==
    LET rejected(p) == Nothing(Drop(p, <<value>>))
        bound(p)    == DeliversNew(Func(Bump(Drop(p, <<value>>), <<Nil>>), "op", Number(c, value), Nil))
    IN  IF Kind(c, value) = "atom"
        THEN Charging(c, LAMBDA p : IF Number(p, value) \notin Ops THEN rejected(p)
                                    ELSE Charging(p, bound, rejected),
                      rejected)
        ELSE IF Kind(c, value) \in {"op", "partial"} THEN Delivers(c, value)
        ELSE rejected(c)

\* Of a partial function the operator that it holds is taken over.
Unbound(c, el) ==
    LET op == Kid(c, el, 1)
    IN  IF Kind(c, el) = "partial" THEN Delivers(Drop(Bump(c, <<op>>), <<el>>), op) ELSE Delivers(c, el)

BindFunc(c, el, f, value) ==
    LET none == Drop(c, <<f.env, f.args>>)
        c1   == Drop(c, <<value>>)
        op   == Unbound(c1, el)
    IN  IF el = None THEN Drop(IF Latched(c) THEN none ELSE error(none), <<value>>)
        ELSE IF Kind(c1, el) = "partial" /\ IsNil(c, f.args)
        THEN [op.c EXCEPT !.stack = Append(@, Frame(op.el, f.args, f.env))]
        ELSE new_continuation(Func(op.c, "partial", 0, op.el), f.args, f.env)

PartialBind(c, f, value) ==
    LET r == get_partial_func(Bump(Drop(c, <<f.state>>), <<value>>), value)
    IN  BindFunc(r.c, r.el, f, value)

\* op is the number of the operator that was fed, r what it answered.
PartialFed(r, op, f) ==
    LET c1      == Func(r.c, "op", op, r.el)
        next(p) == new_continuation(Func(p, "partial", 0, Latest(c1)), f.args, f.env)
        none(p) == Drop(p, <<Latest(c1), f.args, f.env>>)
    IN  IF r.el = None THEN Drop(r.c, <<f.args, f.env>>)
        ELSE IF IsError(r.c, r.el) THEN fin_value(Drop(r.c, <<f.env, f.args>>), r.el)
        ELSE Charging(c1, next, none)

PartialFeedback(c, f, value) ==
    LET op == Number(c, f.state)
    IN  IF IsNil(c, f.state) THEN PartialBind(c, f, value)
        ELSE PartialFed(fed(Steal(c, f.state), op, Kid(c, f.state, 1), value), op, f)

\* The state is nil, (nil . EXPR) or (1 ENV . EXPR).  Of an improper list nothing
\* is released (bll.py:211).
ApplyStep(c, f) ==
    LET c1    == Drop(c, <<f.args>>)
        i     == Kid(c, f.state, 1)
        info  == Kid(c, f.state, 2)
        c2    == Steal(c1, f.state)
    IN  IF IsCons(c, f.args) THEN EvalNextArg(c, "apply", 0, f.state, f.args, f.env)
        ELSE IF ~IsNil(c, f.args) THEN error(Forget(c, <<f.state, f.args, f.env>>))
        ELSE IF ~IsCons(c, f.state) THEN eval_arg(c1, f.state, f.env)
        ELSE IF IsNil(c, i) THEN eval_arg(Drop(c2, <<i>>), info, f.env)
        ELSE eval_arg(Steal(Drop(c2, <<i, f.env>>), info), Kid(c, info, 2), Kid(c, info, 1))

ApplyFeedback(c, f, value) ==
    LET left  == Kid(c, f.state, 1)
        expr  == Kid(c, f.state, 2)
        c1    == New(c, Cons(f.state, value))
        c2    == Steal(c, f.state)
        c3    == New(Drop(c2, <<left>>), Cons(value, expr))
        c4    == New(Bump(c3, <<One>>), Cons(One, Latest(c3)))
        on(p) == new_continuation(Func(p, "apply", 0, Latest(p)), f.args, f.env)
    IN  IF ~IsCons(c, f.state) THEN on(c1)
        ELSE IF IsNil(c, left) THEN on(c4)
        ELSE error(Drop(c2, <<left, expr, value, f.args, f.env>>))

\* The entries of a list that is at most five long, the newest first.
Entries(c, list) ==
    LET after[k \in 0..5] == IF k = 0 THEN list
                             ELSE IF IsCons(c, after[k-1]) THEN Kid(c, after[k-1], 2) ELSE Nil
    IN  [k \in 1..Cardinality({j \in 0..5 : IsCons(c, after[j])}) |-> Kid(c, after[k-1], 1)]

SoftforkFeedback(c, f, value) ==
    LET stored == Len(Entries(c, f.state))
        c1     == New(c, Cons(value, f.state))
        c2     == Drop(c, <<value>>)
        c3     == New(Bump(c2, <<Nil>>), Cons(Nil, f.state))
        on(p, state) == new_continuation(Func(p, "softfork", 0, state), f.args, f.env)
    IN  CASE stored < 4 -> on(c1, Latest(c1))
          [] stored = 4 -> on(c3, Latest(c3))
          [] OTHER      -> on(c2, f.state)

RECURSIVE Unlinked(_, _)
Unlinked(c, list) == IF IsCons(c, list) THEN Unlinked(Steal(c, list), Kid(c, list, 2))
                     ELSE Drop(c, <<list>>)

EnterGuard(c, vals, env) ==
    LET in  == Drop([c EXCEPT !.guards = @ + 1], <<vals[1], vals[2], env>>)
        exit(p) == new_continuation(Func(Bump(p, <<Nil, Nil, Nil>>), "exitguard", 0, Nil), Nil, Nil)
    IN  Charging(in, LAMBDA p : eval_arg(exit(p), vals[3], vals[4]),
                     LAMBDA p : Drop(p, <<vals[3], vals[4]>>))

\* The declared cost is positive; only extension 0 is known.
SoftforkFinish(c, state, env) ==
    LET newest  == Entries(c, state)
        n       == Len(newest)
        vals    == [k \in 1..n |-> newest[n + 1 - k]]
        c1      == Unlinked(c, state)
        refuse(p) == Drop(Drop(p, vals), <<env>>)
        isatom(k) == Kind(c, vals[k]) = "atom"
        lenient(p) == fin_value(Bump(refuse(p), <<Nil>>), Nil)
        extension(p) == IF Number(p, vals[2]) = 0 THEN EnterGuard(p, vals, env) ELSE lenient(p)
        recognize(p) == IF n = 4 /\ isatom(2) THEN Charging(p, extension, refuse) ELSE lenient(p)
        declared(p)  == IF Number(p, vals[1]) > 0 THEN Charging(p, recognize, refuse)
                        ELSE error(refuse(p))
    IN  IF IsNil(c, state) THEN error(Drop(c, <<state, env>>))
        ELSE IF isatom(1) THEN Charging(c1, declared, refuse) ELSE error(refuse(c1))

SoftforkStep(c, f) ==
    IF IsNil(c, f.args) THEN SoftforkFinish(Drop(c, <<f.args>>), f.state, f.env)
    ELSE IF IsCons(c, f.args) THEN EvalNextArg(c, "softfork", 0, f.state, f.args, f.env)
    ELSE Improper(c, f)

ExitGuardFeedback(c, f, value) ==
    LET c1 == [Drop(c, <<f.state, value, f.args, f.env>>) EXCEPT !.guards = @ - 1]
    IN  IF exact THEN fin_value(Bump(c1, <<Nil>>), Nil) ELSE error(c1)

-----------------------------------------------------------------------------
RECURSIVE IsBll(_, _)
IsBll(c, el) == Kind(c, el) = "atom" \/ (IsCons(c, el) /\ \A k \in {1, 2} : IsBll(c, Kid(c, el, k)))

\* Consumes the environment.
RECURSIVE ResolveEnv(_, _, _)
ResolveEnv(c, env, idx) ==
    LET way == 1 + (idx % 2)
        edge(p) == IF ~IsCons(p, env) THEN RaisesError(Drop(p, <<env>>))
                   ELSE ResolveEnv(Drop(Steal(p, env), <<Kid(p, env, 3 - way)>>),
                                   Kid(p, env, way), idx \div 2)
    IN  IF idx <= 1 THEN Delivers(c, env)
        ELSE Charging(c, edge, LAMBDA p : Nothing(Drop(p, <<env>>)))

Special == [n \in 0..3 |-> <<"quote", "apply", "softfork", "partial">>[n + 1]]

ResolveOpcode(c, op) ==
    LET make(p) == CASE Number(c, op) \in 0..3 ->
                            DeliversNew(Func(Bump(p, <<Nil>>), Special[Number(c, op)], 0, Nil))
                     [] Number(c, op) \in Ops  -> DeliversNew(Func(Bump(p, <<Nil>>), "op", Number(c, op), Nil))
                     [] OTHER                  -> Nothing(p)
    IN  IF Kind(c, op) # "atom" THEN Nothing(c) ELSE Charging(c, make, Nothing)

EvalAtom(c, a, env) ==
    LET found(p) == LET r == ResolveEnv(p, env, Number(c, a))
                        c1 == Drop(r.c, <<a>>)
                    IN  IF r.el = None THEN c1 ELSE fin_value(c1, r.el)
        value(p) == IF Number(c, a) >= 1 THEN found(p) ELSE fin_value(Drop(p, <<env>>), a)
    IN  Charging(c, value, LAMBDA p : Drop(p, <<a, env>>))

EvalCons(c, expr, env) ==
    LET op   == Kid(c, expr, 1)
        args == Kid(c, expr, 2)
        r    == ResolveOpcode(Steal(c, expr), op)
        none == Drop(r.c, <<args, env>>)
        next == [r.c EXCEPT !.stack = Append(@, Frame(r.el, args, env))]
    IN  Drop(IF r.el # None THEN next ELSE IF Latched(r.c) THEN none ELSE error(none), <<op>>)

BllEvalStep(c, f) ==
    LET c1 == Drop(c, <<f.state>>)
    IN  IF IsError(c, f.args) THEN fin_value(Drop(c1, <<f.env>>), f.args)
        ELSE IF ~IsBll(c, f.args) THEN Drop(error(c1), <<f.args, f.env>>)
        ELSE IF IsCons(c, f.args) THEN EvalCons(c1, f.args, f.env)
        ELSE EvalAtom(c1, f.args, f.env)

-----------------------------------------------------------------------------
(***************************************************************************)
(* The work item and the loop of eval.                                     *)
(***************************************************************************)
RECURSIVE DropFrames(_, _)
DropFrames(c, frames) ==
    IF frames = <<>> THEN c
    ELSE DropFrames(Drop(c, <<frames[1].fn, frames[1].args, frames[1].env>>), Tail(frames))

unwind(c) == [DropFrames(c, c.stack) EXCEPT !.stack = <<>>, !.guards = 0]

\* The top frame is taken off and its function object taken apart.
Top(c)  == c.stack[Len(c.stack)]
Taken(c) == LET fn == c.heap[Top(c).fn]
            IN  [fn |-> fn.kind, n |-> fn.n, state |-> fn.kids[1],
                 args |-> Top(c).args, env |-> Top(c).env]
Popped(c) == Steal([c EXCEPT !.stack = SubSeq(@, 1, Len(@) - 1)], Top(c).fn)

Receive(c, f, value) ==
    CASE f.fn = "op"        -> OpFeedback(c, f, value)
      [] f.fn = "partial"   -> PartialFeedback(c, f, value)
      [] f.fn = "apply"     -> ApplyFeedback(c, f, value)
      [] f.fn = "softfork"  -> SoftforkFeedback(c, f, value)
      [] f.fn = "exitguard" -> ExitGuardFeedback(c, f, value)

feedback(c, value) ==
    LET c1 == IF IsError(c, value) THEN unwind(c) ELSE c
    IN  IF c1.stack = <<>> THEN fin_value(c1, value)
        ELSE Charging(c1, LAMBDA p : Receive(Popped(p), Taken(p), value),
                          LAMBDA p : Drop(p, <<value>>))

Handle(c, f) ==
    CASE f.fn \in {"fin", "quote"} -> feedback(Drop(c, <<f.state, f.env>>), f.args)
      [] f.fn = "op"               -> OpStep(c, f)
      [] f.fn = "partial"          -> PartialStep(c, f)
      [] f.fn = "apply"            -> ApplyStep(c, f)
      [] f.fn = "softfork"         -> SoftforkStep(c, f)
      [] f.fn = "blleval"          -> BllEvalStep(c, f)

\* A guard that overran is abandoned with everything pending.
Settle(c) ==
    IF c.over # "guard" THEN c
    ELSE error(unwind([c EXCEPT !.over = "no"]))

RECURSIVE Load(_, _)
Load(c, tree) ==
    LET l == Load(c, tree.l)
        r == Load(l.c, tree.r)
    IN  IF tree.l = <<>> THEN Counter(c, tree.n) ELSE DeliversNew(New(r.c, Cons(l.el, r.el)))

Fresh == [heap |-> Interned, stack |-> <<>>, left |-> 0, guards |-> 0,
           breach |-> FALSE, over |-> "no", lost |-> <<>>]

Begin(program) ==
    LET expr == Load(Fresh, program.expr)
        env  == Load(expr.c, program.env)
    IN  eval_arg(env.c, expr.el, env.el)

Init ==
    /\ \E program \in Programs : conf = Begin(program)
    /\ result = None
    /\ exact \in BOOLEAN

finished(c) == Len(c.stack) = 1 /\ Taken(c).fn = "fin"

Step ==
    /\ result = None /\ ~finished(conf) /\ ~Latched(conf)
    /\ \E left \in 0..MostCharges, breach \in BOOLEAN :
          LET c == [conf EXCEPT !.left = left, !.breach = breach]
              after == Charging(c, LAMBDA p : Handle(Popped(p), Taken(p)), LAMBDA p : p)
          IN  conf' = [Settle(after) EXCEPT !.left = 0, !.breach = FALSE]
    /\ UNCHANGED <<result, exact>>

\* A result that contains a function object is replaced by an error.
Return ==
    /\ result = None /\ (finished(conf) \/ Latched(conf))
    /\ LET value  == Top(conf).args
           c1     == Drop(Bump(conf, <<value>>), <<Top(conf).fn, value, Top(conf).env>>)
           popped == [c1 EXCEPT !.stack = <<>>]
           gated  == New(Drop(popped, <<value>>), Cell("error", 0, <<>>))
           given  == New(unwind(conf), Cell("error", 0, <<>>))
       IN  IF Latched(conf) THEN conf' = given /\ result' = Latest(given)
           ELSE IF IsBll(conf, value) \/ IsError(conf, value) THEN conf' = popped /\ result' = value
           ELSE conf' = gated /\ result' = Latest(gated)
    /\ UNCHANGED exact

Next == Step \/ Return

Spec == Init /\ [][Next]_vars

-----------------------------------------------------------------------------
\* References held by frames and by the caller.
Holds(f, el) == Times(<<f.fn, f.args, f.env>>, el)
FromFrames(c, el) ==
    LET from[k \in 0..Len(c.stack)] ==
            IF k = 0 THEN 0 ELSE from[k-1] + Holds(c.stack[k], el)
    IN  from[Len(c.stack)]

\* After every step each element's count is the number of references to it from
\* other elements, from frames and from the caller, whichever charge fails and
\* wherever: no way out of a handler releases twice, and two forget references
\* (partial without arguments, workitem.py:100, and apply of an improper list,
\* bll.py:211), exactly those that are counted as lost.
EveryReferenceOwned ==
    \A el \in DOMAIN conf.heap :
        conf.heap[el].rc = FromCells(conf.heap, el) + FromClass(el) + FromFrames(conf, el)
                             + Times(conf.lost, el) + (IF result = el THEN 1 ELSE 0)

\* What test-apply.py asserts of evaluations with a, "apply/no-leaks": once the
\* result is released, nothing stays allocated.
NoLeaks ==
    result # None =>
        LET after == Drop(conf, <<result>>).heap
        IN  \A el \in DOMAIN after : after[el].rc = FromClass(el)
=============================================================================
