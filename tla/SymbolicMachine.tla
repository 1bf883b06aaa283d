-------------------------- MODULE SymbolicMachine --------------------------
(***************************************************************************)
(* The symbolic evaluator (symbll.py): symbolic_eval driving its WorkItem. *)
(* The stack, budget and construction count are the work item's, held in   *)
(* the variables of BllMachine, whose operator and partial handlers it     *)
(* shares; its frames hold a table of local symbols for an environment.    *)
(* A call of a runs a bll work item inside a step, one nested step an      *)
(* action here.                                                            *)
(***************************************************************************)
EXTENDS BllMachine, SymbolIndex

CONSTANTS
    Tasks           \* evaluations asked for: [expr, globals, steps, limit, memory, context]

VARIABLES
    task,      \* steps is what costleft starts at, limit the budget's, memory
               \* the set of answers ALLOCATOR.x > 400000 may give
    costleft,  \* WorkItem.costleft
    side,      \* "symbolic", or "bll" while the nested work item is driven
    sub        \* the continuations of the nested work item

symVars == <<vars, task, costleft, side, sub>>

NoSymbols == [n \in {} |-> Nil]

sym_fin(c, value)        == new_continuation(Build(c, 1), SpecialFunc("fin", Nil), value, NoSymbols)
sym_error(c, msg)        == sym_fin(Build(c, 1), Error(msg))
sym_eval(c, expr, local) == new_continuation(Build(c, 1), SpecialFunc("symeval", Nil), expr, local)

\* Evaluate the next argument, the frame waiting below it.
SymNextArg(c, f) ==
    sym_eval(new_continuation(Build(c, 1), f.fn, f.args.val2, f.env), f.args.val1, f.env)

-----------------------------------------------------------------------------
(***************************************************************************)
(* ResolveSymbol: what a name stands for, Nil if nothing.                  *)
(***************************************************************************)
SymbolicSpecial == "if" :> "if" @@ "q" :> "quote" @@ "report" :> "report" @@
                   "partial" :> "partial" @@ "a" :> "symapply"

UserFunc(body, dangling, satisfied) ==
    SpecialFunc("userfunc", [body |-> body, dangling |-> dangling, satisfied |-> satisfied])

Undefined == [kind |-> "undefined"]

ResolveSymbol(local, globals, n) ==
    LET def == Lookup(globals, n)
    IN  IF n = "report" THEN SpecialFunc("report", <<>>)
        ELSE IF n = "a" THEN SpecialFunc("symapply", <<>>)
        ELSE IF n \in DOMAIN SymbolicSpecial THEN SpecialFunc(SymbolicSpecial[n], Nil)
        ELSE IF n \in DOMAIN SExpr_FUNCS THEN InitialOp(n, SExpr_FUNCS[n])
        ELSE IF n \in DOMAIN local THEN local[n]
        ELSE IF n \in Names(globals) THEN UserFunc(def.body, def.params, NoSymbols)
        ELSE Undefined

SymEvalStep(c, f) ==
    LET e  == f.args
        op == ResolveSymbol(f.env, task.globals, e.val1.name)
        v  == ResolveSymbol(f.env, task.globals, e.name)
    IN  CASE IsAtom(e) \/ IsError(e) -> sym_fin(c, e)
          [] IsFunc(e)               -> sym_error(c, "BUG? expression with raw function??")
          [] IsSymbol(e) -> IF v = Undefined THEN sym_error(c, "undefined symbol")
                            ELSE sym_fin(c, v)
          [] IsCons(e) -> IF ~IsSymbol(e.val1)
                          THEN sym_error(c, "expression does not have a function/operator")
                          ELSE IF op = Undefined THEN sym_error(c, "undefined symbol")
                          ELSE IF IsFunc(op) THEN new_continuation(c, op, e.val2, f.env)
                          ELSE sym_error(c, "symbolic expression treated as function")

-----------------------------------------------------------------------------
(***************************************************************************)
(* if, report, user functions and a.                                       *)
(***************************************************************************)
IfStep(c, f) ==
    IF IsCons(f.args) THEN SymNextArg(c, f)
    ELSE sym_error(c, "if requires at least one argument")

\* An improper list of branches leaves a branch unassigned, and the code raises.
BranchesImproper(args) ==
    ~IsNil(args) /\ (IsCons(args) => ~IsNil(args.val2) /\ ~IsCons(args.val2))

IfFeedback(c, f, value) ==
    LET one   == IsCons(f.args)
        two   == one /\ IsCons(f.args.val2)
        rest  == IF two THEN f.args.val2.val2 ELSE Nil
        true  == IF one THEN f.args.val1 ELSE One
        false == IF two THEN f.args.val2.val1 ELSE Nil
    IN  IF ~IsNil(rest) THEN sym_error(c, "if takes at most three arguments, a proper list")
        ELSE sym_eval(c, IF IsNil(value) THEN false ELSE true, f.env)

\* The first value reported is the value of the report.
ReportStep(c, f) ==
    IF IsNil(f.args) THEN sym_fin(c, IF f.fn.state = <<>> THEN Nil ELSE f.fn.state[1])
    ELSE IF IsCons(f.args) THEN SymNextArg(c, f)
    ELSE sym_error(c, "argument to report is improper list")

ReportFeedback(c, f, value) ==
    new_continuation(c, SpecialFunc("report", Append(f.fn.state, value)), f.args, f.env)

UserStep(c, f) ==
    LET call == f.fn.state
    IN  IF IsNil(f.args)
        THEN IF IsNil(call.dangling) THEN sym_eval(c, call.body, call.satisfied)
             ELSE sym_error(c, "insufficient arguments for user defined function")
        ELSE IF ~IsCons(f.args) THEN sym_error(c, "call to user defined function is not proper list")
        ELSE IF IsNil(call.dangling)
        THEN sym_error(c, "too many arguments for user defined functions")
        ELSE IF IsCons(call.dangling) /\ IsSymbol(call.dangling.val1) THEN SymNextArg(c, f)
        ELSE sym_error(c, "user defined function has non-symbol as param name?")

\* Of two parameters of one name the later argument counts.
UserFeedback(c, f, value) ==
    LET call == f.fn.state
        name == call.dangling.val1.name
    IN  new_continuation(c, UserFunc(call.body, call.dangling.val2,
                                     (name :> value) @@ call.satisfied), f.args, f.env)

SymApplyStep(c, f) ==
    IF IsNil(f.args) THEN sym_error(c, "a: requires a program and an environment")
    ELSE IF IsCons(f.args) THEN SymNextArg(c, f)
    ELSE sym_error(c, "argument to a is improper list")

SymApplyFeedback(c, f, value) ==
    IF Len(f.fn.state) = 2 THEN sym_error(c, "too many args to apply")
    ELSE new_continuation(c, SpecialFunc("symapply", Append(f.fn.state, value)), f.args, f.env)

-----------------------------------------------------------------------------
(***************************************************************************)
(* The shared handlers, evaluating arguments symbolically.  A function     *)
(* object must name the operator of partial: numbers do not.               *)
(***************************************************************************)
SymOpStep(c, f)      == IF IsCons(f.args) THEN SymNextArg(c, f) ELSE OpStep(c, f)
SymPartialStep(c, f) == IF IsCons(f.args) THEN SymNextArg(c, f) ELSE PartialStep(c, f)

SymPartialFeedback(c, f, value) ==
    IF f.fn = Unbound /\ ~IsFunc(value)
    THEN sym_error(c, "partial: requires a normal opcode as first argument")
    ELSE PartialFeedback(c, f, value)

SymReceive(c, f, value) ==
    CASE f.fn.fn = "op"       -> OpFeedback(c, f, value)
      [] f.fn.fn = "partial"  -> SymPartialFeedback(c, f, value)
      [] f.fn.fn = "if"       -> IfFeedback(c, f, value)
      [] f.fn.fn = "report"   -> ReportFeedback(c, f, value)
      [] f.fn.fn = "userfunc" -> UserFeedback(c, f, value)
      [] f.fn.fn = "symapply" -> SymApplyFeedback(c, f, value)

\* Delivery is free here; an error empties the stack.
sym_feedback(c, value) ==
    IF IsError(value) THEN sym_fin([c EXCEPT !.stack = <<>>], value)
    ELSE IF c.stack = <<>> THEN sym_fin(c, value)
    ELSE SymReceive(Popped(c), Top(c.stack), value)

-----------------------------------------------------------------------------
(***************************************************************************)
(* WorkItem.step: pop, handle, then the guards of the evaluator.           *)
(***************************************************************************)
\* Mutant: the allowance is only looked at when it is exactly used up.
SpentOnce(left) == left = 0
Spent(left) == left <= 0

\* Mutant: no value is ever taken for the last one.
NeverAtFin(c) == FALSE
AtFin(c) == c.stack # <<>> /\ Top(c.stack).fn.fn = "fin"

Delivered(c) ==
    IF Latched(c.budget) /\ ~AtFin(c) THEN sym_error(c, "budget exhausted, aborting") ELSE c

\* What the end of a step makes of c, with left steps left before it.
Checks(c, left, over) ==
    LET d == Delivered(c)
        e == IF Spent(left - 1) /\ ~AtFin(d) THEN sym_error(d, "cost overrun, aborting") ELSE d
    IN  IF over THEN sym_error(e, "memory overrun, aborting") ELSE e

\* Bound of the model: below it the allowance is not counted on, as all that
\* is asked of it is whether it is positive.
LowestLeft == -5
Counted(left) == IF left > LowestLeft THEN left - 1 ELSE left

\* An exception leaves symbolic_eval, and what it was evaluating is lost.
Escapes == result' = Raises /\ UNCHANGED <<job, task, stack, budget, made, costleft>>

\* No stop of the allocator is armed, so constructions are not counted.
SymCommit(c, left) ==
    IF Thrown(c.stack) THEN Escapes
    ELSE /\ \E over \in task.memory :
               LET d == Checks(c, left, over)
               IN  stack' = d.stack /\ budget' = d.budget
         /\ costleft' = Counted(left)
         /\ UNCHANGED <<job, task, made, result>>

Evaluating == result = Pending /\ side = "symbolic" /\ ~finished
SymStepping(fn) == Evaluating /\ Top(stack).fn.fn = fn
TopFrame == Top(stack)
Rest     == Popped(Now)

SymStepValue ==
    /\ \E fn \in {"fin", "quote"} : SymStepping(fn)
    /\ ~(Len(stack) > 1 /\ Top(Below(stack)).fn.fn = "if" /\ ~IsError(TopFrame.args)
         /\ BranchesImproper(Top(Below(stack)).args))
    /\ SymCommit(sym_feedback(Rest, TopFrame.args), costleft)
    /\ UNCHANGED <<side, sub>>

\* The UnboundLocalError of if ends the evaluation from outside.
IfRaises ==
    /\ \E fn \in {"fin", "quote"} : SymStepping(fn)
    /\ Len(stack) > 1 /\ Top(Below(stack)).fn.fn = "if" /\ ~IsError(TopFrame.args)
    /\ BranchesImproper(Top(Below(stack)).args)
    /\ Escapes /\ UNCHANGED <<side, sub>>

Handling(fn, handler(_, _)) ==
    SymStepping(fn) /\ SymCommit(handler(Rest, TopFrame), costleft) /\ UNCHANGED <<side, sub>>

SymStepEval    == Handling("symeval", SymEvalStep)
SymStepIf      == Handling("if", IfStep)
SymStepReport  == Handling("report", ReportStep)
SymStepUser    == Handling("userfunc", UserStep)
SymStepOp      == Handling("op", SymOpStep)
SymStepPartial == Handling("partial", SymPartialStep)

Complete(f) == Len(f.fn.state) = 2 /\ IsNil(f.args)

SymStepApply ==
    SymStepping("symapply") /\ ~Complete(TopFrame) /\ Handling("symapply", SymApplyStep)

-----------------------------------------------------------------------------
(***************************************************************************)
(* The nested run: a bll work item on the same budget, one of whose steps  *)
(* each takes one step of the allowance.                                   *)
(***************************************************************************)
EnterProgram ==
    /\ SymStepping("symapply") /\ Complete(TopFrame)
    /\ sub' = <<Frame(SpecialFunc("blleval", Nil), TopFrame.fn.state[1], TopFrame.fn.state[2])>>
    /\ side' = "bll"
    /\ stack' = Below(stack)
    /\ UNCHANGED <<job, task, budget, made, costleft, result>>

Nested == [stack |-> sub, budget |-> budget, made |-> made]

\* WorkItem.step of bll.py on the nested item.
BllStep(n) ==
    LET p == Spend(n, STEP)
        f == Top(n.stack)
        r == Popped(p)
    IN  IF ~Ok(p) THEN p
        ELSE Settle(CASE f.fn.fn \in {"fin", "quote"} -> feedback(r, f.args)
                      [] f.fn.fn = "op"       -> OpStep(r, f)
                      [] f.fn.fn = "partial"  -> PartialStep(r, f)
                      [] f.fn.fn = "apply"    -> ApplyStep(r, f)
                      [] f.fn.fn = "softfork" -> SoftforkStep(r, f)
                      [] f.fn.fn = "blleval"  -> BllEvalStep(r, f))

SubFinished == Len(sub) = 1 /\ sub[1].fn.fn = "fin"
InProgram   == result = Pending /\ side = "bll"
SubOver     == SubFinished \/ Latched(budget)
Leaving(c, left) == SymCommit(c, left) /\ sub' = <<>> /\ side' = "symbolic"

\* The symbolic work item again, with what the nested one left of the budget.
Outer(n) == [n EXCEPT !.stack = stack]

NestedTo(n, left) ==
    LET abandoned(msg) == sym_error(Outer(unwind(n)), msg)
    IN  \E over \in task.memory :
           IF Thrown(n.stack) THEN Escapes /\ UNCHANGED <<side, sub>>
           ELSE IF Spent(left) THEN Leaving(abandoned("cost overrun, aborting"), left)
           ELSE IF over THEN Leaving(abandoned("memory overrun, aborting"), left)
           ELSE /\ sub' = n.stack /\ budget' = n.budget
                /\ costleft' = left
                /\ UNCHANGED <<job, task, stack, made, result, side>>

NestedStep == InProgram /\ ~SubOver /\ NestedTo(BllStep(Nested), costleft - 1)

\* The verdict of the nested run is delivered like any other value.
SubResult ==
    IF Latched(budget) THEN Error("budget exhausted")
    ELSE IF IsBll(sub[1].args) \/ IsError(sub[1].args) THEN sub[1].args
    ELSE Error("program result contains a function object")

LeaveProgram ==
    /\ InProgram /\ SubOver
    /\ Leaving(sym_fin(IF Latched(budget) THEN Outer(unwind(Nested)) ELSE Now, SubResult), costleft)

-----------------------------------------------------------------------------
\* No stop of the allocator is armed: a cap that is never reached.
Unarmed == [program |-> Nil, env |-> Nil, cap |-> 1000000, extensions |-> {0},
            context |-> task.context]

SymInit ==
    /\ task \in Tasks
    /\ job = Unarmed
    /\ stack = <<Frame(SpecialFunc("symeval", Nil), task.expr, NoSymbols)>>
    /\ budget = NewBudget(task.limit)
    /\ made = 1
    /\ result = Pending
    /\ costleft = task.steps
    /\ side = "symbolic"
    /\ sub = <<>>

\* get_result: only bll and errors leave the evaluator.
SymReturn ==
    /\ result = Pending /\ side = "symbolic" /\ finished
    /\ result' = IF IsBll(stack[1].args) \/ IsError(stack[1].args) THEN stack[1].args
                 ELSE Error("result was not bll")
    /\ stack' = <<>>
    /\ UNCHANGED <<job, task, budget, made, costleft, side, sub>>

SymStep == \/ SymStepValue \/ IfRaises \/ SymStepEval \/ SymStepIf \/ SymStepReport
           \/ SymStepUser \/ SymStepOp \/ SymStepPartial \/ SymStepApply
           \/ EnterProgram \/ NestedStep \/ LeaveProgram

SymNext == SymStep \/ SymReturn
SymSpec == SymInit /\ [][SymNext]_symVars /\ WF_symVars(SymNext)
=============================================================================
