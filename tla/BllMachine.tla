----------------------------- MODULE BllMachine -----------------------------
(***************************************************************************)
(* The bll evaluator: eval() of bll.py driving one WorkItem, its stack of  *)
(* continuations, the budget every step spends and the allocator's element *)
(* count (bll.py, workitem.py, element.py).                                *)
(*                                                                         *)
(* A handler is an operator from a configuration                           *)
(*     [stack, budget, made]                                               *)
(* to the configuration it leaves, with every charge, construction and     *)
(* early return in the order the code makes them.  One action of the       *)
(* machine is one iteration of eval's loop.                                *)
(***************************************************************************)
EXTENDS BllOpcodes, Sequences

CONSTANTS
    Jobs,               \* evaluations: [program, env, cap, extensions, context]
    Limits,             \* budget limits they are given
    Views,              \* what each transaction context tells its operators
    SOFTFORK_COST_MAX   \* widest declared cost a guard may carry

ASSUME JobAssumption ==
    \A j \in Jobs : /\ DOMAIN j = {"program", "env", "cap", "extensions", "context"}
                    /\ j.cap \in Nat /\ j.context \in DOMAIN Views
ASSUME ViewAssumption == \A c \in DOMAIN Views : Answers(Views[c])
ASSUME ProgramAssumption ==
    \A j \in Jobs : \A e \in {j.program, j.env} : e \in Parts(e) /\ MadeOfAtoms(Parts(e))
ASSUME LimitAssumption == Limits \subseteq Nat
ASSUME CostMaxAssumption == SOFTFORK_COST_MAX \in Nat

VARIABLES
    job,       \* the evaluation in progress; cap is the allocator's armed stop,
               \* extensions the softfork extensions this validator recognizes
               \* and context what the four globals hold
    stack,     \* workitem.continuations, the top last
    budget,    \* workitem.budget
    made,      \* ALLOCATOR.counter since the span was armed
    result     \* what eval returned, Pending before it does

vars == <<job, stack, budget, made, result>>

Pending == [kind |-> "pending"]

Frame(fn, args, env) == [fn |-> fn, args |-> args, env |-> env]

SpecialFunc(fn, state) == Func(fn, "", <<>>, state)

-----------------------------------------------------------------------------
(***************************************************************************)
(* What every handler is written with.                                     *)
(***************************************************************************)
Top(s)       == s[Len(s)]
Thrown(s)    == s # <<>> /\ Top(s).args = Raises
Ok(c)        == ~Latched(c.budget)
Spend(c, n)  == [c EXCEPT !.budget = charge(@, n)]

\* Mutant: the latch is set by the construction after the one that crosses.
BuildLate(c, n) == [c EXCEPT !.made = @ + n,
                             !.budget = IF c.made > job.cap
                                        THEN latch_alloc_breach(@) ELSE @]

\* n constructions; crossing the cap latches the budget from outside.
Build(c, n) == [c EXCEPT !.made = @ + n,
                         !.budget = IF c.made + n > job.cap
                                    THEN latch_alloc_breach(@) ELSE @]

new_continuation(c, fn, args, env) ==
    [c EXCEPT !.stack = Append(@, Frame(fn, args, env))]

fin_value(c, value) == new_continuation(Build(c, 1), SpecialFunc("fin", Nil), value, Nil)
eval_arg(c, expr, env) == new_continuation(Build(c, 1), SpecialFunc("blleval", Nil), expr, env)
error(c, msg) == fin_value(Build(c, 1), Error(msg))

\* A Python exception leaves the handler: the frame that raised is gone, those
\* below it are as they were, and Raises stands on top of them.
Throw(c) == new_continuation(c, SpecialFunc("fin", Nil), Raises, Nil)

\* What an operator answers, if it answers.
Deliver(c, value) == IF value = Raises THEN Throw(c) ELSE fin_value(c, value)

unwind(c) == [c EXCEPT !.stack = <<>>, !.budget = clear_allowances(@)]

\* Mutant: the frame is pushed above the evaluation it waits for.
EvalNextArgBelow(c, f) ==
    new_continuation(eval_arg(Build(c, 1), f.args.val1, f.env), f.fn, f.args.val2, f.env)

\* Evaluate the next argument, the frame waiting below it.
EvalNextArg(c, f) ==
    eval_arg(new_continuation(Build(c, 1), f.fn, f.args.val2, f.env), f.args.val1, f.env)

-----------------------------------------------------------------------------
(***************************************************************************)
(* fn_op and fn_partial: ordinary operators and their partial application. *)
(***************************************************************************)
View == Views[job.context]

\* A charge and the constructions after it, if it does not latch.
Paid(c, leg) == IF Ok(Spend(c, leg.cost)) THEN Build(Spend(c, leg.cost), leg.built)
                ELSE Spend(c, leg.cost)

\* Legs paid one after another up to the first that latches: those before it
\* fit together, so they are paid as one.
PayInTurn(c, legs) ==
    LET upTo  == Totals(legs)
        fit   == {k \in 0..Len(legs) : Ok(Paid(c, upTo[k]))}
        first == CHOOSE k \in fit : k + 1 \notin fit
    IN  IF legs = <<>> \/ fit = {} THEN c
        ELSE IF first = Len(legs) THEN Paid(c, upTo[first])
        ELSE Paid(Paid(c, upTo[first]), legs[first + 1])

\* What an operator makes of its arguments, paid for and handed over.
Finishing(c, r) ==
    LET p == Spend(PayInTurn(c, r.legs), r.cost)
    IN  IF Ok(p) THEN Deliver(Build(p, r.built), r.val) ELSE p

OpStep(c, f) ==
    IF IsNil(f.args) THEN Finishing(c, finish(View, f.fn.op, f.fn.ist, f.fn.state))
    ELSE IF IsCons(f.args) THEN EvalNextArg(c, f)
    ELSE error(c, "argument to opcode is improper list")

\* The operator a fold leaves behind.
Refed(fn, r) == Func("op", fn.op, r.ist, r.val)

\* The fold of one argument: what it costs, then its error or the next frame.
Folded(c, f, r) ==
    LET p == Spend(c, r.cost)
    IN  IF ~Ok(p) THEN p
        ELSE IF IsError(r.val) THEN Deliver(Build(p, r.built), r.val)
        ELSE new_continuation(Build(p, r.built + 1), Refed(f.fn, r), f.args, f.env)

OpFeedback(c, f, value) == Folded(c, f, argument(View, f.fn.op, f.fn.ist, f.fn.state, value))

\* An fn_partial whose state is nil names no operator yet; one whose state is
\* an fn_op object carries that object's operator, internal state and state.
Unbound == SpecialFunc("partial", Nil)
Binding(fn)   == Func("partial", fn.op, fn.ist, fn.state)
BoundOp(fn)   == Func("op", fn.op, fn.ist, fn.state)

PartialStep(c, f) ==
    IF IsNil(f.args)
    THEN IF f.fn = Unbound THEN error(c, "partial: requires opcode argument")
         ELSE fin_value(Build(c, 1), f.fn)
    ELSE IF IsCons(f.args) THEN EvalNextArg(c, f)
    ELSE error(c, "argument to partial is improper list")

InitialOp(op, opnum) == Func("op", op, initial_int_state(op, opnum), initial_state(op))
InitialOpBuilt(op)   == IF op = "-" THEN 2 ELSE 1

\* The first value names the operator: a table opcode, or an earlier binding.
get_partial_func(c, value) ==
    LET scanned == Spend(c, atom_scan(value.width))
        opnum   == AsInt(value)
        paid    == Spend(scanned, ELEMENT_ALLOC)
        none(d) == [c |-> d, func |-> Nil]
    IN  IF IsAtom(value)
        THEN IF ~Ok(scanned) THEN none(scanned)
             ELSE IF opnum \notin DOMAIN Op_FUNCS THEN none(scanned)
             ELSE IF ~Ok(paid) THEN none(paid)
             ELSE [c    |-> Build(paid, InitialOpBuilt(Op_FUNCS[opnum])),
                   func |-> InitialOp(Op_FUNCS[opnum], opnum)]
        ELSE IF IsFunc(value) /\ value.fn \in {"op", "partial"} THEN [c |-> c, func |-> value]
        ELSE none(c)

\* Reusing a binding is free; with nothing more to bind it is finalised.
PartialBind(c, f, value) ==
    LET got == get_partial_func(c, value)
    IN  IF ~IsFunc(got.func)
        THEN IF Ok(got.c) THEN error(got.c, "partial: requires a normal opcode") ELSE got.c
        ELSE IF got.func.fn = "partial" /\ IsNil(f.args)
        THEN new_continuation(got.c, BoundOp(got.func), f.args, f.env)
        ELSE new_continuation(Build(got.c, 1), Binding(got.func), f.args, f.env)

PartialFolded(c, f, r) ==
    LET p    == Spend(c, r.cost)
        paid == Spend(Build(p, r.built + 1), ELEMENT_ALLOC)
    IN  IF ~Ok(p) THEN p
        ELSE IF IsError(r.val) THEN Deliver(Build(p, r.built), r.val)
        ELSE IF ~Ok(paid) THEN paid
        ELSE new_continuation(Build(paid, 1), Binding(Refed(f.fn, r)), f.args, f.env)

PartialFeedback(c, f, value) ==
    IF f.fn = Unbound THEN PartialBind(c, f, value)
    ELSE PartialFolded(c, f, argument(View, f.fn.op, f.fn.ist, f.fn.state, value))

-----------------------------------------------------------------------------
(***************************************************************************)
(* fn_apply: the state is nil, (nil . PROGRAM) or (1 . (ENV . PROGRAM)).    *)
(* The tail evaluation replaces the frame.                                 *)
(***************************************************************************)
\* Mutant: apply waits below its own tail evaluation.
TailEvalStacked(c, expr, env) ==
    eval_arg(new_continuation(Build(c, 1), SpecialFunc("apply", Nil), Nil, env), expr, env)
TailEval(c, expr, env) == eval_arg(c, expr, env)

ApplyStep(c, f) ==
    LET state == f.fn.state
    IN  IF IsNil(f.args)
        THEN IF ~IsCons(state) THEN TailEval(c, state, f.env)
             ELSE IF IsNil(state.val1) THEN TailEval(c, state.val2, f.env)
             ELSE TailEval(c, state.val2.val2, state.val2.val1)
        ELSE IF IsCons(f.args) THEN EvalNextArg(c, f)
        ELSE error(c, "argument to opcode is improper list")

ApplyFeedback(c, f, value) ==
    LET state == f.fn.state
        again(n, st) == new_continuation(Build(c, n + 1), SpecialFunc("apply", st), f.args, f.env)
    IN  IF ~IsCons(state) THEN again(1, Cons(Nil, value))
        ELSE IF IsNil(state.val1) THEN again(2, Cons(One, Cons(value, state.val2)))
        ELSE error(c, "too many args to apply")

-----------------------------------------------------------------------------
(***************************************************************************)
(* fn_softfork and fn_exitguard.  The state lists the values newest first, *)
(* saturating at a fifth entry that is nil.                                *)
(***************************************************************************)
ListEntries == 5

\* The list after k links, nil past its end.
After(list, k) ==
    LET tail[i \in 0..k] == IF i = 0 THEN list
                            ELSE IF IsCons(tail[i-1]) THEN tail[i-1].val2 ELSE Nil
    IN  tail[k]

Stored(list) == Cardinality({k \in 0..ListEntries-1 : IsCons(After(list, k))})

SoftforkFeedback(c, f, value) ==
    LET state  == f.fn.state
        stored == Stored(state)
        again(n, st) == new_continuation(Build(c, n + 1), SpecialFunc("softfork", st), f.args, f.env)
    IN  IF stored < 4 THEN again(1, Cons(value, state))
        ELSE IF stored = 4 THEN again(1, Cons(Nil, state))
        ELSE again(0, state)

\* Mutant: the guard's own cost is charged before its allowance is open.
EnterGuardLate(c, declared, program, guardenv) ==
    LET g == Spend(c, GUARD)
        a == [g EXCEPT !.budget = push_allowance(@, declared)]
    IN  IF ~Ok(g) THEN g
        ELSE eval_arg(new_continuation(Build(a, 1), SpecialFunc("exitguard", Nil), Nil, Nil),
                      program, guardenv)

EnterGuard(c, declared, program, guardenv) ==
    LET g == Spend([c EXCEPT !.budget = push_allowance(@, declared)], GUARD)
    IN  IF ~Ok(g) THEN g
        ELSE eval_arg(new_continuation(Build(g, 1), SpecialFunc("exitguard", Nil), Nil, Nil),
                      program, guardenv)

SoftforkFinish(c, state) ==
    LET count    == Stored(state)
        val(k)   == After(state, count - k).val1        \* k = 1 is the oldest
        declared == AsInt(val(1))
        scanned  == IF IsAtom(val(1)) THEN Spend(c, atom_scan(val(1).width)) ELSE c
        lump     == Spend(scanned, declared)
        shaped   == count = 4 /\ IsAtom(val(2))
        read     == IF shaped THEN Spend(lump, atom_scan(val(2).width)) ELSE lump
    IN  IF count = 0 THEN error(c, "softfork requires positive cost")
        ELSE IF ~Ok(scanned) THEN scanned
        ELSE IF ~IsAtom(val(1)) THEN error(scanned, "softfork requires positive cost")
        ELSE IF declared < 1 \/ declared > SOFTFORK_COST_MAX
        THEN error(scanned, "softfork requires positive cost")
        ELSE IF ~Ok(read) THEN read
        ELSE IF shaped /\ AsInt(val(2)) \in job.extensions
        THEN EnterGuard(read, declared, val(3), val(4))
        ELSE fin_value(read, Nil)

SoftforkStep(c, f) ==
    IF IsNil(f.args) THEN SoftforkFinish(c, f.fn.state)
    ELSE IF IsCons(f.args) THEN EvalNextArg(c, f)
    ELSE error(c, "argument to opcode is improper list")

Mismatch == "softfork specified cost mismatch"

ExitGuardFeedback(c, f, value) ==
    LET closed == [c EXCEPT !.budget = pop_allowance(@)]
    IN  IF SpentExactly(c.budget) THEN fin_value(closed, Nil) ELSE error(closed, Mismatch)

-----------------------------------------------------------------------------
(***************************************************************************)
(* Delivery of a value: WorkItem.feedback.                                 *)
(***************************************************************************)
Receivers == {"op", "partial", "apply", "softfork", "exitguard"}

Receive(c, f, value) ==
    CASE f.fn.fn = "op"        -> OpFeedback(c, f, value)
      [] f.fn.fn = "partial"   -> PartialFeedback(c, f, value)
      [] f.fn.fn = "apply"     -> ApplyFeedback(c, f, value)
      [] f.fn.fn = "softfork"  -> SoftforkFeedback(c, f, value)
      [] f.fn.fn = "exitguard" -> ExitGuardFeedback(c, f, value)

Below(s)  == SubSeq(s, 1, Len(s) - 1)
Popped(c) == [c EXCEPT !.stack = Below(@)]

feedback(c, value) ==
    LET p == Spend(c, STEP)
    IN  IF IsError(value) THEN fin_value(unwind(c), value)
        ELSE IF c.stack = <<>> THEN fin_value(c, value)
        ELSE IF ~Ok(p) THEN p
        ELSE Receive(Popped(p), Top(p.stack), value)

-----------------------------------------------------------------------------
(***************************************************************************)
(* fn_blleval: evaluate an expression in an environment.                   *)
(***************************************************************************)
EvalAtom(c, a, env) ==
    LET s == Spend(c, atom_scan(a.width))
        r == ResolveEnv(env, AsInt(a))
        p == Spend(s, r.cost)
    IN  IF ~Ok(s) THEN s
        ELSE IF AsInt(a) < 1 THEN fin_value(s, a)
        ELSE IF ~Ok(p) THEN p
        ELSE fin_value(Build(p, r.built), r.val)

SpecialOps == [n \in 0..3 |-> <<"quote", "apply", "softfork", "partial">>[n + 1]]

\* The function an operator number names, nil if it is invalid.
OpcodeFunc(n) ==
    IF n \in DOMAIN SpecialOps THEN SpecialFunc(SpecialOps[n], Nil)
    ELSE IF n \in DOMAIN Op_FUNCS THEN InitialOp(Op_FUNCS[n], n)
    ELSE IF 0 <= n /\ n < UNKNOWN_OP_RANGE THEN InitialOp("unknown", n)
    ELSE Nil

ResolveOpcode(c, op) ==
    LET s    == Spend(c, atom_scan(op.width))
        func == OpcodeFunc(AsInt(op))
    IN  IF ~IsAtom(op) THEN [c |-> c, func |-> Nil]
        ELSE IF ~Ok(s) \/ ~IsFunc(func) THEN [c |-> s, func |-> Nil]
        ELSE [c |-> Build(s, InitialOpBuilt(func.op)), func |-> func]

\* Mutant: a failed scan charge is taken for an unknown operator.
EvalConsUnlatched(c, expr, env) ==
    LET r == ResolveOpcode(c, expr.val1)
    IN  IF IsFunc(r.func) THEN new_continuation(r.c, r.func, expr.val2, env)
        ELSE error(r.c, "invalid opcode")

EvalCons(c, expr, env) ==
    LET r == ResolveOpcode(c, expr.val1)
    IN  IF IsFunc(r.func) THEN new_continuation(r.c, r.func, expr.val2, env)
        ELSE IF Ok(r.c) THEN error(r.c, "invalid opcode")
        ELSE r.c

BllEvalStep(c, f) ==
    CASE IsError(f.args)                    -> fin_value(c, f.args)
      [] ~IsError(f.args) /\ ~IsBll(f.args) -> error(c, "cannot evaluate a function object")
      [] IsAtom(f.args)                     -> EvalAtom(c, f.args, f.env)
      [] IsBll(f.args) /\ IsCons(f.args)    -> EvalCons(c, f.args, f.env)
      [] OTHER                              -> error(c, "BUG? should be unreachable")

-----------------------------------------------------------------------------
(***************************************************************************)
(* eval: the loop, one iteration an action, and what it returns.           *)
(***************************************************************************)
Now == [stack |-> stack, budget |-> budget, made |-> made]

begin(j, limit) ==
    [stack |-> <<Frame(SpecialFunc("blleval", Nil), j.program, j.env)>>, made |-> 1,
     budget |-> IF 1 > j.cap THEN latch_alloc_breach(NewBudget(limit)) ELSE NewBudget(limit)]

Init ==
    /\ job \in Jobs
    /\ \E limit \in Limits :
          LET c == begin(job, limit)
          IN  stack = c.stack /\ budget = c.budget /\ made = c.made
    /\ result = Pending

finished == Len(stack) = 1 /\ stack[1].fn.fn = "fin"

\* Mutant: the driver does not look at the exhaustion latch.
LoopingExhausted == result = Pending /\ ~finished /\ ~Thrown(stack) /\ ~budget.alloc_breach

Looping == /\ result = Pending /\ ~finished /\ ~Thrown(stack)
           /\ ~budget.exhausted /\ ~budget.alloc_breach

\* The end of WorkItem.step: an overrun guard abandons everything.
Settle(c) == IF c.budget.guard_breach THEN error(unwind(c), Mismatch) ELSE c

Commit(c) ==
    LET d == Settle(c)
    IN  /\ stack' = d.stack /\ budget' = d.budget /\ made' = d.made
        /\ UNCHANGED <<job, result>>

\* Mutant: the pop is free.
FreePop == Now

Charged == Spend(Now, STEP)

\* The charge for the pop fails: the frame stays.
StepRefused == Looping /\ ~Ok(Charged) /\ Commit(Charged)

Stepping(fn) == Looping /\ Ok(Charged) /\ Top(stack).fn.fn = fn

StepValue    == \E fn \in {"fin", "quote"} :
                    Stepping(fn) /\ Commit(feedback(Popped(Charged), Top(stack).args))
StepOp       == Stepping("op")       /\ Commit(OpStep(Popped(Charged), Top(stack)))
StepPartial  == Stepping("partial")  /\ Commit(PartialStep(Popped(Charged), Top(stack)))
StepApply    == Stepping("apply")    /\ Commit(ApplyStep(Popped(Charged), Top(stack)))
StepSoftfork == Stepping("softfork") /\ Commit(SoftforkStep(Popped(Charged), Top(stack)))
StepBllEval  == Stepping("blleval")  /\ Commit(BllEvalStep(Popped(Charged), Top(stack)))

Answer(c, value) == [c |-> [c EXCEPT !.stack = <<>>], value |-> value]
Refusal(c, msg)  == Answer(Build(unwind(c), 1), Error(msg))

\* An exception leaves eval too, and the work item is lost.  Otherwise the
\* verdict is read from the latches first, then from the value.
Outcome ==
    IF Thrown(stack) THEN Answer(unwind(Now), Raises)
    ELSE IF budget.alloc_breach THEN Refusal(Now, "element allocation limit exceeded")
    ELSE IF budget.exhausted THEN Refusal(Now, "budget exhausted")
    ELSE IF IsBll(stack[1].args) \/ IsError(stack[1].args) THEN Answer(Now, stack[1].args)
    ELSE Answer(Build(Now, 1), Error("program result contains a function object"))

Return ==
    /\ result = Pending
    /\ ~Looping
    /\ result' = Outcome.value
    /\ stack' = Outcome.c.stack
    /\ budget' = Outcome.c.budget
    /\ made' = Outcome.c.made
    /\ UNCHANGED job

Step == \/ StepRefused \/ StepValue \/ StepOp \/ StepPartial \/ StepApply
        \/ StepSoftfork \/ StepBllEval

\* The evaluation is over; nothing is left to do.
Done == result # Pending /\ UNCHANGED vars

Next == Step \/ Return \/ Done

Spec == Init /\ [][Next]_vars /\ WF_vars(Step \/ Return)
-----------------------------------------------------------------------------
(***************************************************************************)
(* Properties.                                                             *)
(***************************************************************************)
FrameClasses == Receivers \cup {"fin", "quote", "blleval"}

\* The variables hold what the code's fields hold: a stack of continuations
\* of the known classes, a budget record, counters that are naturals.
TypeOK ==
    /\ \A i \in 1..Len(stack) :
          /\ DOMAIN stack[i] = {"fn", "args", "env"}
          /\ IsFunc(stack[i].fn) /\ stack[i].fn.fn \in FrameClasses
    /\ DOMAIN budget = {"limit", "used", "exhausted", "allowances", "guard_breach", "alloc_breach"}
    /\ budget.limit \in Nat /\ budget.used \in Nat
    /\ {budget.exhausted, budget.guard_breach, budget.alloc_breach} \subseteq BOOLEAN
    /\ \A i \in 1..Len(budget.allowances) :
          budget.allowances[i] \in [allowed : Nat, used : Nat]
    /\ made \in Nat

\* Every frame that waits below another can receive a value (fn_fin, fn_quote
\* and fn_blleval have no usable feedback), the exit frame of a guard is never
\* stepped, and the loop never pops an empty stack.
PendingFramesReceive ==
    /\ \A i \in 1..Len(stack)-1 : stack[i].fn.fn \in Receivers
    /\ Looping => stack # <<>> /\ Top(stack).fn.fn # "exitguard"

\* Between two iterations the driver never sees the guard breach latch, and an
\* evaluation in progress is never both exhausted and over the element cap.
LatchesExclusive ==
    /\ ~budget.guard_breach
    /\ result = Pending => ~(budget.exhausted /\ budget.alloc_breach)

\* An exhausted budget reports exactly its limit, and exhaustion never strikes
\* inside a guard.
ExhaustedInFull == budget.exhausted => budget.used = budget.limit /\ budget.allowances = <<>>

\* The budget is never overspent, an exhausted one is spent in full, and every
\* allowance was prepaid in full by the context enclosing it.
BudgetSound ==
    /\ budget.used <= budget.limit
    /\ ExhaustedInFull
    /\ \A i \in 1..Len(budget.allowances) :
          /\ budget.allowances[i].used <= budget.allowances[i].allowed
          /\ budget.allowances[i].allowed <=
                IF i = 1 THEN budget.used ELSE budget.allowances[i-1].used

\* While nothing is latched the open allowances and the exit frames that will
\* close them correspond one to one.
GuardsPaired ==
    ~Latched(budget) =>
        Len(budget.allowances) =
            Cardinality({i \in 1..Len(stack) : stack[i].fn.fn = "exitguard"})

\* Constructions are covered by charges of at least STEP / 2 each, up to the
\* two that no charge precedes: begin's frame and the driver's own Error.
UnpaidConstructions == 2
AllocationCovered == (STEP \div 2) * made <= budget.used + (STEP \div 2) * UnpaidConstructions

\* The element cap is crossed exactly when its latch says so, through every
\* guard that unwinds.
CapLatched == budget.alloc_breach <=> made > job.cap

\* The bytes that rd decodes: a pair in them is charged at its marker and built
\* when its right child is, so the pairs waiting for one another are all built
\* after the last charge.
BeingDecoded ==
    LET f    == Top(stack)
        args == f.fn.state.val1
    IN  IF /\ stack # <<>> /\ f.fn.op = "rd"
           /\ IsCons(f.fn.state) /\ IsCons(args) /\ IsAtom(args.val1)
        THEN args.val1.width ELSE 0

\* The latch agrees with the count before an iteration and after it, and no
\* iteration builds further past the cap than the carries of b with its pairs, its
\* count and its frame, or than rd has bytes to decode.
StepConstructions == CounterBits + 4
CapEnforced ==
    [][/\ CapLatched /\ CapLatched'
       /\ made' <= Wider(made, job.cap) + StepConstructions + BeingDecoded]_vars

\* The outer counter does not move in any iteration that begins inside a
\* guard: not by the guarded work, not by leaving the guard, not by its failure.
OuterFrozen == [][Guarded(budget) => budget'.used = budget.used]_vars

\* Every evaluation returns, whatever the program: each iteration spends.
Termination == <>(result # Pending)

-----------------------------------------------------------------------------
(***************************************************************************)
(* The machine implements the metered evaluation of module Metered.        *)
(***************************************************************************)
Status == IF result # Pending THEN "over"
          ELSE IF budget.alloc_breach THEN "capped"
          ELSE IF budget.exhausted THEN "exhausted"
          ELSE "running"

Abstract == INSTANCE Metered WITH
    limit <- budget.limit, used <- budget.used, status <- Status

\* No step refunds or overspends the budget or leaves a latched state except by
\* returning, and every evaluation returns.
ImplementsMetered == Abstract!MSpec
=============================================================================
