----------------------------- MODULE MCDrivers -----------------------------
(***************************************************************************)
(* The two drivers of work items beside eval: the shell's debugger, against *)
(* the meaning of the program it is given, and the symbolic evaluator,     *)
(* against the compiled program for the function it calls, run under the   *)
(* environment the arguments make.  A behaviour is of one driver, the      *)
(* other being idle: the symbolic one's side is "none", or the shell is at *)
(* its prompt with nothing to debug.                                       *)
(***************************************************************************)
EXTENDS Shell, SymbolicMachine, Compiler, BllSemantics, Programs

DriverVars == <<shellVars, task, costleft, side, sub>>

NoTask == [memory |-> {}]
ShellIdle    == wi = FALSE /\ command = "prompt" /\ target = 0 /\ below = <<>> /\ printed = Pending
                /\ raised = FALSE
SymbolicIdle == task = NoTask /\ costleft = 0 /\ side = "none" /\ sub = <<>>

DriversInit == \/ ShellInit /\ SymbolicIdle
               \/ SymInit /\ ShellIdle

\* A symbolic evaluation is over.
SymDone == result # Pending /\ UNCHANGED DriverVars

DriversNext == \/ side = "none" /\ ShellNext /\ UNCHANGED <<task, costleft, side, sub>>
               \/ SymNext /\ UNCHANGED <<wi, command, target, below, printed, raised>>
               \/ SymDone

DriversSpec == /\ DriversInit /\ [][DriversNext]_DriverVars
               /\ WF_shellVars(Running) /\ WF_symVars(SymNext)

-----------------------------------------------------------------------------
(***************************************************************************)
(* Expressions to debug.                                                   *)
(***************************************************************************)
\* Nested evaluations, tail evaluations, guards that end in each way, errors
\* under pending frames, a function object as the result, a loop, and an
\* exception with frames and a guard left below it.
DebuggedJobs ==
    {Job(p) : p \in {IntAtom(2), Number(5),
                     Call(23, <<Call(24, <<Number(7), IntAtom(2)>>), Number(3)>>),
                     Call(23, <<Apply(<<Quoted(Call(23, <<Number(2), IntAtom(2)>>))>>), Number(3)>>),
                     Call(11, <<Guard(129, Call(4, <<>>)), IntAtom(1)>>),
                     Call(6, <<Guard(128, Nil), Number(1)>>),
                     Call(6, <<Guard(56, Number(1)), Number(1)>>),
                     Call(9, <<Call(23, <<Call(4, <<>>), Number(1)>>)>>),
                     Call(6, <<Plus1, Call(7, <<Number(1)>>)>>),
                     Call(23, <<Call(6, <<Raising, Number(1)>>), Number(3)>>),
                     Call(23, <<Guard(3000, Raising), Number(3)>>), Raising,
                     Plus1}}
  \cup {SelfApply(FlatLoop), SelfApply(DeepLoop)}

\* Few of them for the liveness of the commands.
EndlessJobs == {SelfApply(FlatLoop), Job(Call(6, <<Guard(56, Number(1)), Number(1)>>))}

\* What the debugger prints is what eval answers: the meaning of the program,
\* or exhaustion exactly when the meaning costs more than the budget (a loop
\* has no meaning and always exhausts).  A step raises only if the program means
\* an exception; what is printed after that means nothing.
PrintsTheMeaning ==
    LET reports(m) == IF m.cost > budget.limit THEN printed = Error("budget exhausted")
                      ELSE budget.used = m.cost /\ printed = Returned(m)
    IN  IF raised THEN Meaning(job.program, job.env).value = Raises
        ELSE printed # Pending =>
        IF job.program \in {FlatLoop, DeepLoop} THEN printed = Error("budget exhausted")
        ELSE reports(Meaning(job.program, job.env))

-----------------------------------------------------------------------------
(***************************************************************************)
(* Definitions and calls for the symbolic evaluator: bodies from a grammar *)
(* over two parameters, a constant, a function taking a function, and the  *)
(* special forms, called with values of every shape.                       *)
(***************************************************************************)
S(name)      == Symbol(name)
E(name, s)   == Cons(S(name), List(s))
Params(s)    == List([i \in DOMAIN s |-> S(s[i])])
X == S("X")
Y == S("Y")

Task(table, entry, values) ==
    [expr    |-> E(entry, [i \in DOMAIN values |-> Cons(S("q"), values[i])]),
     globals |-> table, steps |-> 200, limit |-> 10000000, memory |-> {FALSE}, context |-> "spend",
     entry   |-> entry, values |-> values]

\* ---- the table beside F: calls, tail calls, recursion, functions as values
Helpers ==
    <<Definition("K", Nil, IntAtom(5)),
      Definition("DBL", Params(<<"Y">>), E("+", <<Y, Y>>)),
      Definition("TWICE", Params(<<"G", "X">>), E("G", <<E("G", <<X>>)>>)),
      Definition("LEN", Params(<<"X">>),
                 E("if", <<E("l", <<X>>), E("+", <<One, E("LEN", <<E("t", <<X>>)>>)>>), Nil>>))>>

Leaves == {X, Y, IntAtom(5), Nil, E("K", <<>>)}
Unary  == {E(op, <<e>>) : op \in {"DBL", "LEN", "if", "h", "l", "report"}, e \in Leaves}
Pairs  == {E(op, <<d, e>>) : op \in {"+", "rc", "if", "report"}, d \in Leaves, e \in Leaves}
Forms  ==
    {E("if", <<c, d, e>>) : c \in {X, Y}, d \in Unary, e \in {Y, E("%", <<X, Nil>>)}}
 \cup {E("TWICE", <<S("DBL"), e>>) : e \in Unary \cup Leaves}
 \cup {E("a", <<p, e>>) : p \in {Cons(S("q"), IntAtom(2)), Cons(S("q"), List(<<IntAtom(1), One>>)),
                                 Cons(S("q"), Call(23, <<IntAtom(2), One>>)), X, Y},
                          e \in {X, Y, E("rc", <<Y, X>>)}}
 \cup {E("a", <<E("partial", <<S("+"), X>>), Y>>), E("q", <<X>>), Cons(S("q"), Env), Cons(X, Y),
       E("DBL", <<X, Y>>), E("DBL", <<>>), Cons(S("DBL"), X), Cons(S("if"), Cons(X, Y)),
       Cons(S("if"), Y), Cons(S("report"), Y), Cons(S("a"), Y), E("a", <<X>>), E("a", <<X, Y, X>>),
       E("if", <<X, Y, X, Y>>), E("if", <<>>), E("report", <<>>), S("DBL"), S("nowhere"),
       E("nowhere", <<X>>), S("+"), E("sf", <<X>>), Cons(IntAtom(1), Nil), E("b", <<X, Y, X>>),
       E("partial", <<S("+"), X>>), E("partial", <<>>), Cons(S("partial"), X),
       E("partial", <<E("partial", <<S("+"), X>>), Y>>), E("partial", <<E("partial", <<S("+"), X>>)>>),
       E("tx", <<Number(2), Y>>), E("tx", <<X>>), E("tx", <<Cons(X, Y)>>), E("tx", <<Nil, One>>),
       E("+", <<E("tx", <<IntAtom(13)>>), E("tx", <<IntAtom(20)>>)>>), E("bip342_txmsg", <<>>),
       E("bip342_txmsg", <<IntAtom(3)>>), E("bip342_txmsg", <<IntAtom(3), X>>),
       E("a", <<E("partial", <<S("tx"), Y>>), X>>), E("a", <<Cons(S("q"), Raising), X>>),
       E("partial", <<X>>), E("partial", <<S("DBL"), X>>), E("if", <<S("K"), One>>),
       E("partial", <<E("partial", <<E("partial", <<S("+"), X>>), Y>>)>>)}

Bodies == Leaves \cup Unary \cup Pairs \cup Forms

Arguments == {<<Nil, IntAtom(3)>>, <<IntAtom(2), Nil>>, <<Env, IntAtom(3)>>, <<IntAtom(2), Env>>}

OfBody(params, body, values) ==
    Task(Append(Helpers, Definition("F", Params(params), body)), "F", values)

AgreementTasks ==
    {OfBody(<<"X", "Y">>, body, values) : body \in Bodies, values \in Arguments}
 \cup {OfBody(<<"Y", "X">>, body, <<IntAtom(2), Env>>) : body \in Unary \cup Forms}
 \cup {OfBody(<<>>, body, <<>>) : body \in {IntAtom(5), E("K", <<>>), X}}
 \cup {OfBody(<<"X">>, X, s) : s \in {<<>>, <<One, One>>}}

\* Parameters and globals by the number, at every shape of the trees that hold
\* them, each looked for in its place.
ManyNames == <<"n1", "n2", "n3", "n4", "n5", "n6", "n7", "n8", "n9", "n10", "n11", "n12",
               "n13", "n14", "n15", "n16", "n17">>
Widths == 3..9 \cup {12, 13, 17}
Constants(n) == [i \in 1..n |-> Definition(ManyNames[i], Nil, IntAtom(i))]
WideTasks ==
    UNION {{OfBody(SubSeq(ManyNames, 1, n), S(ManyNames[k]), [i \in 1..n |-> IntAtom(i)]) : k \in 1..n} :
              n \in Widths}
 \cup UNION {{Task(Append(Constants(n), Definition("F", Nil, E(ManyNames[k], <<>>))), "F", <<>>) :
                  k \in 1..n} : n \in Widths}

\* ---- evaluations that meet a limit ----------------------------------------
Loops == {E("L", <<X>>), E("+", <<One, E("L", <<X>>)>>), E("L", <<E("L", <<X>>)>>),
          E("a", <<Cons(S("q"), FlatLoop), Cons(S("q"), FlatLoop)>>),
          E("if", <<E("a", <<Cons(S("q"), DeepLoop), Cons(S("q"), DeepLoop)>>), X, Y>>),
          E("+", <<One, E("L", <<E("a", <<Cons(S("q"), Equal), X>>)>>)>>)}

\* The demand of a shift alone can exhaust the budget.
Huge == IntAtom(2^12)
Demands == {E("shift", <<One, Huge>>), E("+", <<One, E("shift", <<One, Huge>>)>>),
            E("rc", <<E("a", <<Cons(S("q"), Call(27, <<IntAtom(1), Quoted(Huge)>>)), One>>), X>>)}
Allowances == 1..12 \cup {16, 20, 33, 60}
Limited(t) == {[t EXCEPT !.limit = 5000, !.steps = n] : n \in Allowances}
Pressed(t, memory) == [t EXCEPT !.memory = memory]
OfLoop(body) == Task(Append(Helpers, Definition("L", Params(<<"X">>), body)), "L", <<Env>>)

LoopTasks  == UNION {Limited(OfLoop(body)) : body \in Loops \cup {E("LEN", <<X>>), E("K", <<>>)}}
LimitTasks ==
    LoopTasks \cup UNION {Limited(OfLoop(body)) : body \in Demands \cup {Cons(S("if"), Cons(X, Y))}}
 \cup UNION {Limited(Pressed(OfBody(<<"X", "Y">>, body, <<Env, One>>), {TRUE, FALSE})) :
                body \in {X, E("+", <<Y, Y>>), E("a", <<Cons(S("q"), One), Y>>)}}

AllTasks == AgreementTasks \cup WideTasks \cup LimitTasks

-----------------------------------------------------------------------------
(***************************************************************************)
(* The symbolic evaluation beside the compiled program.                    *)
(***************************************************************************)
Over == result # Pending

\* A task asks for the call (entry (q . v1) ... (q . vn)) of its values.
Bundled(values) ==
    LET folded[k \in 0..Len(values)] ==
            IF k = 0 THEN Nil ELSE op_b(folded[k-1], values[k]).val
    IN  IF values = <<>> THEN Nil ELSE FinishB(folded[Len(values)]).val

Compiled    == compile_program(task.entry, task.globals)
CompiledRun == Meaning(Compiled, Bundled(task.values)).value

Succeeds(r) == r.kind \in {"atom", "bllcons"}

\* What the evaluator refuses and compiled code does not look at: how many
\* arguments a call has, and a function left over as the result.
Unchecked == {"insufficient arguments for user defined function",
              "too many arguments for user defined functions", "result was not bll"}

Unpressed == task # NoTask /\ TRUE \notin task.memory

\* An evaluation that was stopped by none of its limits.
Completed == Over /\ Unpressed /\ costleft > 0 /\ ~Latched(budget)

\* The evaluator and the compiled program give the same value or both fail
\* (test-apply.py:8, "agreeing between the symbolic and compiled paths"): names
\* found by dictionary and by position, branches taken by the evaluator and by
\* i and a, functions passed as closures and as paths.
CompiledAgrees ==
    Completed =>
        \/ Succeeds(result) /\ IsBll(Compiled) /\ CompiledRun = result
        \/ ~Succeeds(result) /\ (IsBll(Compiled) => ~Succeeds(CompiledRun))
        \/ IsError(result) /\ result.msg \in Unchecked

\* Once the step allowance is spent the evaluation is over within a delivery,
\* an abandoned stack and a return, wherever it was and however deep the nested
\* run (symbll.py:568, :451).
OverrunPrompt == Unpressed => costleft >= -2

\* The driver's loop always finds a continuation to pop, though a latched
\* operator has dropped its own (symbll.py:557).
SomethingToPop == ~Over /\ side = "symbolic" => stack # <<>>

\* Every evaluation ends while the memory held is below the limit: loops, calls
\* without a tail, and bll programs run inside a step.
Ends == Unpressed ~> Over

\* Between two commands the debugger has an expression it can step or a report
\* to give, and what it reports of a finished one is what it means, its cost too.
PromptSound == AtHand /\ PrintsTheMeaning

\* The symbolic driver obeys its limits at once and is never without a
\* continuation: neither running out nor a latched operator derails its loop.
LimitsHold == OverrunPrompt /\ SomethingToPop
=============================================================================
