---------------------------- MODULE BllSemantics ----------------------------
(***************************************************************************)
(* What a bll program means and what it costs, by recursion on the         *)
(* expression: no stack, no frames, no delivery order, no budget.  The     *)
(* machine is checked against it.  Only operator folds, the operator table *)
(* and the environment walk are shared with the machine.                   *)
(*                                                                         *)
(* A meaning is [value, cost, how].  how says what is left to pay when     *)
(* somebody waits for the value: "fin" one frame pop and one delivery,     *)
(* "hand" (a quotation) the delivery, "raised" (an error just made) the    *)
(* pop, "final" (everything pending is already gone, or was left behind by *)
(* a Python exception, whose value is Raises) nothing.                     *)
(***************************************************************************)
EXTENDS BllMachine

Means(value, cost, how) == [value |-> value, cost |-> cost, how |-> how]
Value(v, cost)     == Means(v, cost, IF v = Raises THEN "final"
                                     ELSE IF IsError(v) THEN "raised" ELSE "fin")
Raise(msg, cost)   == Means(Error(msg), cost, "raised")

\* The cost of a meaning once it has reached whoever waits for it.
Reached(m) == m.cost + CASE m.how = "fin"    -> 2 * STEP
                         [] m.how = "hand"   -> STEP
                         [] m.how = "raised" -> STEP
                         [] m.how = "final"  -> 0

\* m happens after costs that were already paid.
Following(cost, m) == [m EXCEPT !.cost = @ + cost]

\* An error reaching a pending frame takes the whole program with it.
Abandon(cost, m) == Means(m.value, cost + Reached(m), "final")

RECURSIVE Meaning(_, _), Operate(_, _, _, _), Feed(_, _, _, _, _), Bind(_, _, _, _),
          BindNext(_, _, _, _, _), ApplyTo(_, _, _, _), Guarding(_, _, _, _)

\* An operator applied to the rest of its arguments.
Operate(fn, args, env, cost) ==
    LET paid == cost + STEP
        worth(done) == Value(done.val, paid + WholeCost(done))
    IN  IF IsNil(args) THEN worth(finish(View, fn.op, fn.ist, fn.state))
        ELSE IF ~IsCons(args) THEN Raise("argument to opcode is improper list", paid)
        ELSE Feed(fn, args, env, paid, Meaning(args.val1, env))

Feed(fn, args, env, paid, m) ==
    LET next(r) == IF IsError(r.val) THEN Value(r.val, paid + Reached(m) + r.cost)
                   ELSE Operate(Refed(fn, r), args.val2, env, paid + Reached(m) + r.cost)
    IN  IF IsError(m.value) THEN Abandon(paid, m)
        ELSE next(argument(View, fn.op, fn.ist, fn.state, m.value))

\* partial, unbound before the operator is known.
Bind(bound, args, env, cost) ==
    LET paid == cost + STEP
    IN  IF IsNil(args)
        THEN IF bound = Unbound THEN Raise("partial: requires opcode argument", paid)
             ELSE Value(bound, paid)
        ELSE IF ~IsCons(args) THEN Raise("argument to partial is improper list", paid)
        ELSE BindNext(bound, args, env, paid, Meaning(args.val1, env))

BindNext(bound, args, env, paid, m) ==
    LET v     == m.value
        there == paid + Reached(m)
        names == there + IF IsAtom(v) THEN atom_scan(v.width) ELSE 0
        next(r) == IF IsError(r.val) THEN Value(r.val, there + r.cost)
                   ELSE Bind(Binding(Refed(bound, r)), args.val2, env, there + r.cost + ELEMENT_ALLOC)
    IN  IF IsError(v) THEN Abandon(paid, m)
        ELSE IF bound # Unbound THEN next(argument(View, bound.op, bound.ist, bound.state, v))
        ELSE IF IsFunc(v)
        THEN IF IsNil(args.val2) THEN Operate(BoundOp(v), args.val2, env, there)
             ELSE Bind(v, args.val2, env, there)
        ELSE IF IsAtom(v) /\ AsInt(v) \in DOMAIN Op_FUNCS
        THEN Bind(Binding(InitialOp(Op_FUNCS[AsInt(v)], AsInt(v))), args.val2, env,
                  names + ELEMENT_ALLOC)
        ELSE Raise("partial: requires a normal opcode", names)

\* apply: the program, optionally an environment, then a tail evaluation.
ApplyTo(vals, args, env, cost) ==
    LET paid == cost + STEP
        m    == Meaning(args.val1, env)
    IN  IF IsNil(args)
        THEN Following(paid, CASE Len(vals) = 0 -> Meaning(Nil, env)
                            [] Len(vals) = 1 -> Meaning(vals[1], env)
                            [] Len(vals) = 2 -> Meaning(vals[1], vals[2]))
        ELSE IF ~IsCons(args) THEN Raise("argument to opcode is improper list", paid)
        ELSE IF IsError(m.value) THEN Abandon(paid, m)
        ELSE IF Len(vals) = 2 THEN Raise("too many args to apply", paid + Reached(m))
        ELSE ApplyTo(Append(vals, m.value), args.val2, env, paid + Reached(m))

\* A guard is worth nil exactly when the program inside costs what it declares.
GuardMeaning(declared, program, env, cost) ==
    LET m     == Meaning(program, env)
        inner == GUARD + Reached(m)
    IN  IF inner > declared THEN Means(Error(Mismatch), cost, "final")
        ELSE IF IsError(m.value) THEN Means(m.value, cost, "final")
        ELSE IF inner < declared THEN Raise(Mismatch, cost)
        ELSE Value(Nil, cost)

Positive(a) == IsAtom(a) /\ AsInt(a) \in 1..SOFTFORK_COST_MAX

Guarding(vals, args, env, cost) ==
    LET paid == cost + STEP
        m    == Meaning(args.val1, env)
        scan(a) == IF IsAtom(a) THEN atom_scan(a.width) ELSE 0
        lump == paid + scan(vals[1]) + AsInt(vals[1])
        read == lump + IF Len(vals) = 4 THEN scan(vals[2]) ELSE 0
    IN  IF IsCons(args)
        THEN IF IsError(m.value) THEN Abandon(paid, m)
             ELSE Guarding(Append(vals, m.value), args.val2, env, paid + Reached(m))
        ELSE IF ~IsNil(args) THEN Raise("argument to opcode is improper list", paid)
        ELSE IF vals = <<>> THEN Raise("softfork requires positive cost", paid)
        ELSE IF ~Positive(vals[1])
        THEN Raise("softfork requires positive cost", paid + scan(vals[1]))
        ELSE IF Len(vals) = 4 /\ IsAtom(vals[2]) /\ AsInt(vals[2]) \in job.extensions
        THEN GuardMeaning(AsInt(vals[1]), vals[3], vals[4], read)
        ELSE Value(Nil, read)

Meaning(expr, env) ==
    LET op   == expr.val1
        args == expr.val2
        func == OpcodeFunc(AsInt(op))
        paid == STEP + atom_scan(op.width)
        ref  == ResolveEnv(env, AsInt(expr))
    IN  IF ~IsBll(expr) THEN Raise("cannot evaluate a function object", STEP)
        ELSE IF IsAtom(expr)
        THEN LET read == STEP + atom_scan(expr.width)
             IN  IF AsInt(expr) < 1 THEN Value(expr, read) ELSE Value(ref.val, read + ref.cost)
        ELSE IF ~IsAtom(op) THEN Raise("invalid opcode", STEP)
        ELSE IF ~IsFunc(func) THEN Raise("invalid opcode", paid)
        ELSE CASE func.fn = "quote"    -> Means(args, paid + STEP, "hand")
               [] func.fn = "op"       -> Operate(func, args, env, paid)
               [] func.fn = "partial"  -> Bind(Unbound, args, env, paid)
               [] func.fn = "apply"    -> ApplyTo(<<>>, args, env, paid)
               [] func.fn = "softfork" -> Guarding(<<>>, args, env, paid)

\* What eval returns for a program that means m.
Returned(m) == IF IsBll(m.value) \/ IsError(m.value) THEN m.value
               ELSE Error("program result contains a function object")

\* The machine returns what the program means, for what the meaning costs.
ComputesMeaning ==
    LET meant(m) == budget.used = m.cost /\ result = Returned(m)
    IN  result # Pending /\ ~Latched(budget) => meant(Meaning(job.program, job.env))
=============================================================================
