---------------------------- MODULE MCSemantics ----------------------------
(***************************************************************************)
(* The evaluator on three families of programs: all operators, bindings    *)
(* and guards, also nested in one another, with budget to spare; short     *)
(* programs under every limit and cap that can strike; and guards that are *)
(* evaluated a second time by another validator.                           *)
(***************************************************************************)
EXTENDS BllReplay, BllSemantics, Programs

\* One program in an argument position of another.
Inners == Bindings \cup SimpleGuards \cup
          {Call(op, s) : op \in {5, 7, 23, 24, 300}, s \in UpTo(FewOperands, 2)}
Nested == {Call(op, <<p, Number(2)>>) : op \in {5, 6, 11, 24, 128}, p \in Inners}
     \cup {Apply(<<Quoted(p), Quoted(Env)>>) : p \in Inners}
     \cup {Partial(<<Number(6), p>>) : p \in Inners}

Families == {GuardPrograms, BindingPrograms, OperatorPrograms, WideOperatorPrograms,
             SignaturePrograms, Nested}

ExtensionSets == {{}, {0}, {0, 1}}

\* A guard of the base extension around one of a later extension.
LaterGuard(n, m, prog) ==
    Guard(n, Softfork(<<Number(m), Number(1), Quoted(prog), Nil>>))

Guarded2 == {LaterGuard(n, m, p) : n \in {663, 664, 665}, m \in {127, 128}, p \in {Nil, IntAtom(9)}}

\* A guard that an exception leaves, which only some validators open.
Escaping == {Call(6, <<LaterGuard(m + 536, m, Raising), Number(1)>>) : m \in {900, 4000}}

ReplayPrograms == GuardPrograms \cup Guarded2 \cup Escaping \cup ShortPrograms

\* Each family with its limits; the cases name their jobs.
Ample == 10000000

Start(j, limit) ==
    LET c == begin(j, limit)
    IN  job = j /\ stack = c.stack /\ budget = c.budget /\ made = c.made

CasesInit ==
    /\ \/ \E family \in Families : \E p \in family : Start(Job(p), Ample)
       \/ \E p \in TxPrograms, c \in DOMAIN Views : Start([Job(p) EXCEPT !.context = c], Ample)
       \/ \E p \in ReplayPrograms, e \in ExtensionSets : Start([Job(p) EXCEPT !.extensions = e], Ample)
       \/ \E j \in BoundaryJobs, limit \in BoundaryLimits : Start(j, limit)
    /\ result = Pending /\ first = None

\* Only the guards and the short programs are evaluated twice.
CasesNext == \/ ReplayNext /\ (Finished /\ first = None => budget.limit = Ample /\ job.program \in ReplayPrograms)
             \/ Finished /\ UNCHANGED replayVars

CasesSpec == CasesInit /\ [][CasesNext]_replayVars
=============================================================================
